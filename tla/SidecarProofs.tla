--------------------------- MODULE SidecarProofs ----------------------------
(***************************************************************************)
(* Proofs about the sidecar process and its L1 headers: the channels keep  *)
(* within their capacities, no header is lost or overtaken on its way to   *)
(* EthState, the safe and finalized headers never go back, and the process *)
(* never ends well.                                                        *)
(***************************************************************************)
EXTENDS Sidecar, SequenceTheorems, TLAPS

\* A leaf is left to Zenon unless it names another prover.
USE Zenon

-----------------------------------------------------------------------------
(* Channels *)

LEMMA Bounded ==
    ASSUME NEW S, NEW n \in Nat, NEW s
    PROVE  s \in BoundedSeq(S, n) <=> s \in Seq(S) /\ Len(s) <= n
<1>1. ASSUME s \in BoundedSeq(S, n) PROVE s \in Seq(S) /\ Len(s) <= n
  <2>1. PICK m \in 0 .. n : s \in [1 .. m -> S]
    BY <1>1 DEF BoundedSeq
  <2> QED BY <2>1, SMT
<1>2. ASSUME s \in Seq(S), Len(s) <= n PROVE s \in BoundedSeq(S, n)
  <2>1. Len(s) \in 0 .. n /\ s \in [1 .. Len(s) -> S]
    BY <1>2, SMT
  <2> QED BY <2>1 DEF BoundedSeq
<1> QED BY <1>1, <1>2

\* No header is counted twice: those the broker lost and those in the channels are
\* among the headers polled.
sending == IF feed.poller = "send" THEN 1 ELSE 0
Fits(l, i, m, p, s, n) == l + i + m + p + s <= n
Counted ==
    Fits(feed.lost, Len(feed.inCh), Len(feed.msg), Len(feed.PubCh), sending, Len(feed.polled))

LEMMA Sums ==
    ASSUME NEW l \in Nat, NEW i \in Nat, NEW m \in Nat, NEW p \in Nat, NEW s \in Nat, NEW n \in Nat,
           Fits(l, i, m, p, s, n)
    PROVE  /\ s = 0 => Fits(l, i, m, p, 1, n + 1)
           /\ p = 0 /\ s = 1 => Fits(l, i, m, 1, 0, n) /\ n >= 1
           /\ Fits(l, i, p, 0, s, n)
           /\ p = 1 => Fits(l + 1, i, m, 0, s, n) /\ l + 1 <= n
           /\ Fits(l, i + m, 0, p, s, n)
           /\ i >= 1 => Fits(l, i - 1, m, p, s, n)
BY SMT DEF Fits

LEMMA OneMore ==
    ASSUME NEW a \in Nat, NEW b \in Nat, NEW c \in Nat
    PROVE  /\ a < c /\ b <= 1 => a + b <= c
           /\ a + 1 <= b /\ b <= c => a + 1 \in 0 .. c
BY SMT

LEMMA Single ==
    ASSUME NEW S, NEW s \in Seq(S), s # <<>>, Len(s) <= 1
    PROVE  Len(s) = 1
<1>1. Len(s) \in Nat \ {0}
  BY EmptySeq
<1> QED BY <1>1, SMT

\* The channels of a feed as sequences.
LEMMA Channels ==
    ASSUME feed \in Feed
    PROVE  /\ feed.PubCh \in Seq(Header) /\ Len(feed.PubCh) <= 1
           /\ feed.msg \in Seq(Header) /\ Len(feed.msg) <= 1
           /\ feed.inCh \in Seq(Header) /\ Len(feed.inCh) <= ChanSize
           /\ feed.polled \in Seq(Header) /\ Len(feed.polled) <= MaxPolls
           /\ feed.lost \in 0 .. MaxPolls /\ feed.header \in Header \cup {NoHeader}
           /\ sending \in Nat /\ feed.lost \in Nat /\ Len(feed.PubCh) \in Nat /\ Len(feed.msg) \in Nat
           /\ Len(feed.inCh) \in Nat /\ Len(feed.polled) \in Nat
<1>1. /\ feed.PubCh \in BoundedSeq(Header, 1) /\ feed.msg \in BoundedSeq(Header, 1)
      /\ feed.inCh \in BoundedSeq(Header, ChanSize) /\ feed.polled \in BoundedSeq(Header, MaxPolls)
      /\ feed.lost \in 0 .. MaxPolls /\ feed.header \in Header \cup {NoHeader}
  BY DEF Feed
<1>2. ChanSize \in Nat /\ MaxPolls \in Nat /\ 1 \in Nat
  BY ChanAssumption
<1>3. sending \in Nat
  BY DEF sending
<1>4. /\ feed.PubCh \in Seq(Header) /\ Len(feed.PubCh) <= 1
      /\ feed.msg \in Seq(Header) /\ Len(feed.msg) <= 1
      /\ feed.inCh \in Seq(Header) /\ Len(feed.inCh) <= ChanSize
      /\ feed.polled \in Seq(Header) /\ Len(feed.polled) <= MaxPolls
  BY <1>1, <1>2, Bounded
<1>5. /\ Len(feed.PubCh) \in Nat /\ Len(feed.msg) \in Nat
      /\ Len(feed.inCh) \in Nat /\ Len(feed.polled) \in Nat
  BY <1>4, LenProperties
<1>6. 0 .. MaxPolls \subseteq Nat
  BY <1>2, SMT
<1> QED BY <1>1, <1>3, <1>4, <1>5, <1>6

\* What a header's move from one place to the next does to the count.
LEMMA Moves ==
    ASSUME feed \in Feed, Counted
    PROVE  LET l == feed.lost
               i == Len(feed.inCh)
               m == Len(feed.msg)
               p == Len(feed.PubCh)
               s == sending
               n == Len(feed.polled)
           IN  /\ s = 0 => Fits(l, i, m, p, 1, n + 1)
               /\ p = 0 /\ s = 1 => Fits(l, i, m, 1, 0, n) /\ n >= 1
               /\ Fits(l, i, p, 0, s, n)
               /\ p = 1 => Fits(l + 1, i, m, 0, s, n) /\ l + 1 <= n
               /\ Fits(l, i + m, 0, p, s, n)
               /\ i >= 1 => Fits(l, i - 1, m, p, s, n)
<1> DEFINE l == feed.lost
           i == Len(feed.inCh)
           m == Len(feed.msg)
           p == Len(feed.PubCh)
           s == sending
           n == Len(feed.polled)
<1>1. l \in Nat /\ i \in Nat /\ m \in Nat /\ p \in Nat /\ s \in Nat /\ n \in Nat
  BY Channels
<1>2. Fits(l, i, m, p, s, n)
  BY DEF Counted
<1> HIDE DEF l, i, m, p, s, n
<1>3. /\ s = 0 => Fits(l, i, m, p, 1, n + 1)
      /\ p = 0 /\ s = 1 => Fits(l, i, m, 1, 0, n) /\ n >= 1
      /\ Fits(l, i, p, 0, s, n)
      /\ p = 1 => Fits(l + 1, i, m, 0, s, n) /\ l + 1 <= n
      /\ Fits(l, i + m, 0, p, s, n)
      /\ i >= 1 => Fits(l, i - 1, m, p, s, n)
  BY <1>1, <1>2, Sums
<1> QED BY <1>3 DEF l, i, m, p, s, n

LEMMA IdleFeed ==
    /\ idle \in Feed
    /\ [idle EXCEPT !.poller = "poll", !.broker = "select", !.subscriber = "select", !.subCh = TRUE] \in Feed
<1>1. MaxPolls \in Nat /\ ChanSize \in Nat
  BY ChanAssumption
<1>2. \A n \in Nat : <<>> \in BoundedSeq(Header, n)
  <2>1. \A n \in Nat : <<>> \in Seq(Header) /\ Len(<<>>) <= n
    BY SMT
  <2> QED BY <2>1, Bounded
<1>3. 0 \in 0 .. MaxPolls
  BY <1>1, SMT
<1> QED BY <1>1, <1>2, <1>3 DEF idle, Feed

\* The goroutines of a feed keep to the channels' capacities.
LEMMA PollerFeed ==
    ASSUME feed \in Feed, Counted, (\E h \in Header : Poll(h)) \/ Poller
    PROVE  feed' \in Feed /\ Counted'
<1>0. MaxPolls \in Nat /\ ChanSize \in Nat
  BY ChanAssumption
<1>1. ASSUME NEW h \in Header, Poll(h) PROVE feed' \in Feed /\ Counted'
  <2>1. Append(feed.polled, h) \in BoundedSeq(Header, MaxPolls)
    <3>0. feed.polled \in Seq(Header) /\ Len(feed.polled) < MaxPolls
      BY <1>1, Channels DEF Poll
    <3>1. Append(feed.polled, h) \in Seq(Header) /\ Len(Append(feed.polled, h)) <= MaxPolls
      BY <1>0, <3>0, SMT
    <3> QED BY <1>0, <3>1, Bounded
  <2>2. feed' = [feed EXCEPT !.polled = Append(feed.polled, h), !.poller = "send"] /\ feed.poller = "poll"
    BY <1>1 DEF Poll
  <2>3. feed' \in Feed
    BY <2>1, <2>2 DEF Feed
  <2>4. /\ feed'.polled = Append(feed.polled, h) /\ feed'.poller = "send" /\ feed'.lost = feed.lost
        /\ feed'.inCh = feed.inCh /\ feed'.msg = feed.msg /\ feed'.PubCh = feed.PubCh
    BY <2>2 DEF Feed
  <2>5. Counted'
    <3>1. Len(feed'.polled) = Len(feed.polled) + 1 /\ sending = 0 /\ sending' = 1
      BY <2>2, <2>4, Channels, SMT DEF sending
    <3>2. Fits(feed.lost, Len(feed.inCh), Len(feed.msg), Len(feed.PubCh), 1, Len(feed.polled) + 1)
      BY <3>1, Moves
    <3> QED BY <2>4, <3>1, <3>2 DEF Counted
  <2> QED BY <2>3, <2>5
<1>2. CASE Publish
  <2>0. feed.poller = "send" /\ feed.PubCh = <<>> /\ sending = 1
    BY <1>2 DEF Publish, sending
  <2>1. Last(feed.polled) \in Header
    <3>1. feed.polled \in Seq(Header) /\ Len(feed.polled) >= 1
      BY <2>0, Channels, Moves
    <3> QED BY <3>1, SMT DEF Last
  <2>2. pollerSends = <<Last(feed.polled)>> /\ Len(pollerSends) = 1 /\ pollerSends \in Seq(Header)
    BY <2>0, <2>1, SMT DEF pollerSends
  <2>3. pollerSends \in BoundedSeq(Header, 1)
    <3>1. 1 \in Nat /\ Len(pollerSends) <= 1
      BY <2>2, SMT
    <3> QED BY <2>2, <3>1, Bounded
  <2>4. feed' = [feed EXCEPT !.PubCh = pollerSends, !.poller = "poll"]
    BY <1>2 DEF Publish
  <2>5. feed' \in Feed
    BY <2>3, <2>4 DEF Feed
  <2>6. /\ feed'.polled = feed.polled /\ feed'.poller = "poll" /\ feed'.lost = feed.lost
        /\ feed'.inCh = feed.inCh /\ feed'.msg = feed.msg /\ feed'.PubCh = pollerSends
    BY <2>4 DEF Feed
  <2>7. Counted'
    <3>1. Len(feed.PubCh) = 0 /\ sending' = 0
      BY <2>0, <2>6 DEF sending
    <3>2. Fits(feed.lost, Len(feed.inCh), Len(feed.msg), 1, 0, Len(feed.polled))
      BY <2>0, <3>1, Moves
    <3> QED BY <2>2, <2>6, <3>1, <3>2 DEF Counted
  <2> QED BY <2>5, <2>7
<1>3. CASE PollerEnds
  <2>1. feed' = [feed EXCEPT !.poller = "ended"] /\ feed.poller = "poll"
    BY <1>3 DEF PollerEnds
  <2>2. feed' \in Feed
    BY <2>1 DEF Feed
  <2>3. Counted'
    BY <2>1 DEF Counted, sending, Feed
  <2> QED BY <2>2, <2>3
<1> QED BY <1>1, <1>2, <1>3 DEF Poller

LEMMA BrokerFeed ==
    ASSUME feed \in Feed, Counted, Broker
    PROVE  feed' \in Feed /\ Counted'
<1>0. MaxPolls \in Nat /\ ChanSize \in Nat /\ 1 \in Nat
  BY ChanAssumption
<1>1. <<>> \in BoundedSeq(Header, 1) /\ Len(<<>>) = 0
  <2>1. <<>> \in Seq(Header) /\ Len(<<>>) = 0 /\ Len(<<>>) <= 1
    BY SMT
  <2> QED BY <1>0, <2>1, Bounded
<1>2. CASE Receive /\ feed.subs
  <2>1. feed' = [feed EXCEPT !.PubCh = <<>>, !.msg = feed.PubCh, !.broker = "send"]
    BY <1>2 DEF Receive
  <2>2. feed' \in Feed
    BY <1>1, <2>1 DEF Feed
  <2>3. /\ feed'.polled = feed.polled /\ feed'.poller = feed.poller /\ feed'.lost = feed.lost
        /\ feed'.inCh = feed.inCh /\ feed'.msg = feed.PubCh /\ feed'.PubCh = <<>>
    BY <2>1 DEF Feed
  <2>4. sending' = sending
    BY <2>3 DEF sending
  <2>5. Fits(feed.lost, Len(feed.inCh), Len(feed.PubCh), 0, sending, Len(feed.polled))
    BY Moves
  <2> QED BY <1>1, <2>2, <2>3, <2>4, <2>5 DEF Counted
<1>3. CASE Receive /\ ~feed.subs
  <2>1. feed' = [feed EXCEPT !.PubCh = <<>>, !.lost = feed.lost + 1] /\ feed.PubCh # <<>>
    BY <1>3 DEF Receive
  <2>2. Len(feed.PubCh) = 1
    <3>1. feed.PubCh \in Seq(Header) /\ Len(feed.PubCh) <= 1
      BY Channels
    <3> QED BY <2>1, <3>1, Single
  <2>3. feed.lost + 1 \in 0 .. MaxPolls
    <3>1. feed.lost + 1 <= Len(feed.polled) /\ Len(feed.polled) <= MaxPolls
      BY <2>2, Channels, Moves
    <3>2. feed.lost \in Nat /\ Len(feed.polled) \in Nat
      BY Channels
    <3> QED BY <1>0, <3>1, <3>2, OneMore
  <2>4. feed' \in Feed
    BY <1>1, <2>1, <2>3 DEF Feed
  <2>5. /\ feed'.polled = feed.polled /\ feed'.poller = feed.poller /\ feed'.lost = feed.lost + 1
        /\ feed'.inCh = feed.inCh /\ feed'.msg = feed.msg /\ feed'.PubCh = <<>>
    BY <2>1 DEF Feed
  <2>6. sending' = sending
    BY <2>5 DEF sending
  <2>7. Fits(feed.lost + 1, Len(feed.inCh), Len(feed.msg), 0, sending, Len(feed.polled))
    BY <2>2, Moves
  <2> QED BY <1>1, <2>4, <2>5, <2>6, <2>7 DEF Counted
<1>4. CASE Forward
  <2>1. /\ feed' = [feed EXCEPT !.inCh = feed.inCh \o feed.msg, !.msg = <<>>, !.broker = "select"]
        /\ Len(feed.inCh) < ChanSize
    BY <1>4 DEF Forward
  <2>2. /\ feed.inCh \o feed.msg \in Seq(Header)
        /\ Len(feed.inCh \o feed.msg) = Len(feed.inCh) + Len(feed.msg)
    BY Channels, SMT
  <2>3. Len(feed.inCh \o feed.msg) <= ChanSize
    <3>1. Len(feed.msg) <= 1 /\ Len(feed.msg) \in Nat /\ Len(feed.inCh) \in Nat
      BY Channels
    <3>2. Len(feed.inCh) + Len(feed.msg) <= ChanSize
      BY <1>0, <2>1, <3>1, OneMore
    <3> QED BY <2>2, <3>2
  <2>4. feed.inCh \o feed.msg \in BoundedSeq(Header, ChanSize)
    BY <1>0, <2>2, <2>3, Bounded
  <2>5. feed' \in Feed
    BY <1>1, <2>1, <2>4 DEF Feed
  <2>6. /\ feed'.polled = feed.polled /\ feed'.poller = feed.poller /\ feed'.lost = feed.lost
        /\ feed'.inCh = feed.inCh \o feed.msg /\ feed'.msg = <<>> /\ feed'.PubCh = feed.PubCh
    BY <2>1 DEF Feed
  <2>7. sending' = sending
    BY <2>6 DEF sending
  <2>8. Fits(feed.lost, Len(feed.inCh) + Len(feed.msg), 0, Len(feed.PubCh), sending, Len(feed.polled))
    BY Moves
  <2> QED BY <1>1, <2>2, <2>5, <2>6, <2>7, <2>8 DEF Counted
<1>5. CASE Register \/ BrokerEnds
  <2>1. feed' \in Feed
    <3>1. \/ feed' = [feed EXCEPT !.subCh = FALSE, !.subs = TRUE]
          \/ feed' = [feed EXCEPT !.unsubCh = FALSE, !.subs = FALSE]
          \/ feed' = [feed EXCEPT !.broker = "ended"]
      BY <1>5 DEF Register, BrokerEnds
    <3>2. CASE feed' = [feed EXCEPT !.subCh = FALSE, !.subs = TRUE]
      BY <3>2 DEF Feed
    <3>3. CASE feed' = [feed EXCEPT !.unsubCh = FALSE, !.subs = FALSE]
      BY <3>3 DEF Feed
    <3>4. CASE feed' = [feed EXCEPT !.broker = "ended"]
      BY <3>4 DEF Feed
    <3> QED BY <3>1, <3>2, <3>3, <3>4
  <2>2. /\ feed'.polled = feed.polled /\ feed'.poller = feed.poller /\ feed'.lost = feed.lost
        /\ feed'.inCh = feed.inCh /\ feed'.msg = feed.msg /\ feed'.PubCh = feed.PubCh
    BY <1>5 DEF Register, BrokerEnds, Feed
  <2> QED BY <2>1, <2>2 DEF Counted, sending
<1> QED BY <1>2, <1>3, <1>4, <1>5 DEF Broker, Receive

LEMMA SubscriberFeed ==
    ASSUME feed \in Feed, Counted, Subscriber
    PROVE  feed' \in Feed /\ Counted'
<1>1. CASE Callback
  <2>0. feed.inCh \in Seq(Header) /\ feed.inCh # <<>> /\ Len(feed.inCh) <= ChanSize /\ ChanSize \in Nat
    BY <1>1, Channels, ChanAssumption DEF Callback
  <2>1. /\ Head(feed.inCh) \in Header /\ Tail(feed.inCh) \in Seq(Header)
        /\ Len(Tail(feed.inCh)) = Len(feed.inCh) - 1 /\ Len(feed.inCh) >= 1
        /\ Len(Tail(feed.inCh)) <= ChanSize
    BY <2>0, SMT
  <2>2. Tail(feed.inCh) \in BoundedSeq(Header, ChanSize)
    BY <2>0, <2>1, Bounded
  <2>3. OnNew(Head(feed.inCh)) \in Header \cup {NoHeader}
    BY <2>1, Channels DEF OnNew
  <2>4. feed' \in Feed
    BY <1>1, <2>2, <2>3 DEF Callback, Feed
  <2>5. /\ feed'.polled = feed.polled /\ feed'.poller = feed.poller /\ feed'.lost = feed.lost
        /\ feed'.inCh = Tail(feed.inCh) /\ feed'.msg = feed.msg /\ feed'.PubCh = feed.PubCh
    BY <1>1 DEF Callback, Feed
  <2>6. sending' = sending
    BY <2>5 DEF sending
  <2>7. Fits(feed.lost, Len(feed.inCh) - 1, Len(feed.msg), Len(feed.PubCh), sending, Len(feed.polled))
    BY <2>1, Moves
  <2> QED BY <2>1, <2>4, <2>5, <2>6, <2>7 DEF Counted
<1>2. CASE SubscriberEnds \/ Unsubscribe
  <2>1. feed' \in Feed
    <3>1. CASE SubscriberEnds
      BY <3>1 DEF SubscriberEnds, Feed
    <3>2. CASE Unsubscribe
      BY <3>2 DEF Unsubscribe, Feed
    <3> QED BY <1>2, <3>1, <3>2
  <2>2. /\ feed'.polled = feed.polled /\ feed'.poller = feed.poller /\ feed'.lost = feed.lost
        /\ feed'.inCh = feed.inCh /\ feed'.msg = feed.msg /\ feed'.PubCh = feed.PubCh
    BY <1>2 DEF SubscriberEnds, Unsubscribe, Feed
  <2> QED BY <2>1, <2>2 DEF Counted, sending
<1> QED BY <1>1, <1>2 DEF Subscriber

-----------------------------------------------------------------------------
(* The headers between poller and EthState *)

\* The end of P is F.
Ends(F, P) == Len(F) <= Len(P) /\ \A j \in 1..Len(F) : F[j] = P[(Len(P) - Len(F)) + j]

\* What EthState holds after the headers seen: none, the last, or the first of the highest.
isFirstHighest(seen, k) ==
    /\ \A j \in DOMAIN seen : seen[j].number <= seen[k].number
    /\ \A j \in DOMAIN seen : seen[k].number <= seen[j].number => k <= j
Kept(seen, h, t) ==
    IF seen = <<>> THEN h = NoHeader
    ELSE IF t = "latest" THEN h = Last(seen)
    ELSE \E k \in DOMAIN seen : isFirstHighest(seen, k) /\ h = seen[k]

\* While the subscriber runs nobody unsubscribes it, and before the broker knows it nothing
\* has been passed on to it.
Exact ==
    /\ feed.broker # "send" => feed.msg = <<>>
    /\ feed.subscriber = "select" =>
          /\ ~feed.unsubCh
          /\ Ends(inFlight, feed.polled)
          /\ ~feed.subs => /\ feed.inCh = <<>> /\ feed.msg = <<>>
                           /\ feed.lost + Len(inFlight) = Len(feed.polled)
          /\ Kept(handled, feed.header, tag)

LEMMA EndsGrow ==
    ASSUME NEW S, NEW F \in Seq(S), NEW P \in Seq(S), NEW h \in S, Ends(F, P)
    PROVE  Ends(Append(F, h), Append(P, h))
<1> DEFINE A == Append(F, h)
           B == Append(P, h)
           f == Len(F)
           n == Len(P)
<1>1. /\ Len(A) = f + 1 /\ A[f + 1] = h /\ \A j \in 1..f : A[j] = F[j]
      /\ Len(B) = n + 1 /\ B[n + 1] = h /\ \A j \in 1..n : B[j] = P[j]
  <2>1. Len(A) = f + 1 /\ A[f + 1] = h /\ \A j \in 1..f : A[j] = F[j]
    BY SMT
  <2>2. Len(B) = n + 1 /\ B[n + 1] = h /\ \A j \in 1..n : B[j] = P[j]
    BY SMT
  <2> QED BY <2>1, <2>2
<1>2. f \in Nat /\ n \in Nat /\ f <= n /\ \A j \in 1..f : F[j] = P[(n - f) + j]
  BY LenProperties DEF Ends
<1> HIDE DEF A, B, f, n
<1>3. f + 1 <= n + 1 /\ (n + 1) - (f + 1) = n - f
  BY <1>2, SMT
<1>4. ASSUME NEW j \in 1..(f + 1) PROVE A[j] = B[(n - f) + j]
  <2>1. CASE j = f + 1
    <3>1. (n - f) + (f + 1) = n + 1
      BY <1>2, SMT
    <3> QED BY <1>1, <2>1, <3>1
  <2>2. CASE j # f + 1
    <3>1. j \in 1..f /\ (n - f) + j \in 1..n
      BY <1>2, <2>2, SMT
    <3> QED BY <1>1, <1>2, <3>1
  <2> QED BY <2>1, <2>2
<1>5. Len(A) <= Len(B) /\ \A j \in 1..Len(A) : A[j] = B[(Len(B) - Len(A)) + j]
  BY <1>1, <1>3, <1>4
<1> QED BY <1>5 DEF Ends, A, B

LEMMA EndsShrink ==
    ASSUME NEW S, NEW F \in Seq(S), NEW P \in Seq(S), F # <<>>, Ends(F, P)
    PROVE  Ends(Tail(F), P) /\ Head(F) = P[(Len(P) - Len(F)) + 1]
<1>1. /\ Len(F) \in Nat /\ Len(F) >= 1 /\ Len(P) \in Nat /\ Len(Tail(F)) = Len(F) - 1
      /\ Head(F) = F[1] /\ \A j \in 1..Len(Tail(F)) : Tail(F)[j] = F[j + 1]
  BY SMT
<1>2. Len(F) <= Len(P) /\ \A j \in 1..Len(F) : F[j] = P[(Len(P) - Len(F)) + j]
  BY DEF Ends
<1>3. ASSUME NEW j \in 1..Len(Tail(F)) PROVE Tail(F)[j] = P[(Len(P) - Len(Tail(F))) + j]
  <2>1. /\ j + 1 \in 1..Len(F)
        /\ (Len(P) - Len(Tail(F))) + j = (Len(P) - Len(F)) + (j + 1)
    BY <1>1, SMT
  <2> QED BY <1>1, <1>2, <2>1
<1>4. Len(Tail(F)) <= Len(P) /\ 1 \in 1..Len(F)
  BY <1>1, <1>2, SMT
<1> QED BY <1>1, <1>2, <1>3, <1>4 DEF Ends

LEMMA EndsSuffix ==
    ASSUME NEW S, NEW F \in Seq(S), NEW P \in Seq(S), Ends(F, P)
    PROVE  IsSuffix(F, P)
BY SMT DEF Ends, IsSuffix

\* One more header seen, and one more polled.
LEMMA SeenMore ==
    ASSUME NEW S, NEW P \in Seq(S), NEW l \in Nat, NEW m \in Nat, l <= m, m < Len(P)
    PROVE  /\ SubSeq(P, l + 1, m) \in Seq(S)
           /\ SubSeq(P, l + 1, m + 1) = Append(SubSeq(P, l + 1, m), P[m + 1])
BY SMT

unchangedBy(P, h, l, m) == SubSeq(Append(P, h), l + 1, m) = SubSeq(P, l + 1, m)
LEMMA SeenSame ==
    ASSUME NEW S, NEW P \in Seq(S), NEW h \in S, NEW l \in Nat, NEW m \in Nat, m <= Len(P)
    PROVE  unchangedBy(P, h, l, m)
<1>1. /\ Append(P, h) \in Seq(S) /\ \A j \in 1..Len(P) : Append(P, h)[j] = P[j]
      /\ Len(P) \in Nat
  <2>1. Append(P, h) \in Seq(S) /\ \A j \in 1..Len(P) : Append(P, h)[j] = P[j]
    BY SMT
  <2>2. Len(P) \in Nat
    BY LenProperties
  <2> QED BY <2>1, <2>2
<1> DEFINE Q == Append(P, h)
<1> HIDE DEF Q
<1>2. \A j \in (l + 1)..m : Q[j] = P[j] /\ j \in 1..Len(P)
  <2>1. (l + 1)..m \subseteq 1..Len(P)
    BY <1>1, SMT
  <2> QED BY <1>1, <2>1 DEF Q
<1>3. SubSeq(Q, l + 1, m) = SubSeq(P, l + 1, m)
  BY <1>2, SMT
<1> QED BY <1>3 DEF Q, unchangedBy

LEMMA SeenNone ==
    ASSUME NEW S, NEW P \in Seq(S), NEW l \in Nat
    PROVE  SubSeq(P, l + 1, l) = <<>>
BY SMT

\* The first of the highest headers is the one that expected picks.
LEMMA KeptExpected ==
    ASSUME handled \in Seq(Header), Kept(handled, feed.header, tag)
    PROVE  feed.header = expected
<1> DEFINE seen == handled
           highest == {i \in DOMAIN seen : \A j \in DOMAIN seen : seen[j].number <= seen[i].number}
<1>1. CASE seen = <<>> \/ tag = "latest"
  BY <1>1 DEF Kept, expected
<1>2. CASE seen # <<>> /\ tag # "latest"
  <2>1. PICK k \in DOMAIN seen : isFirstHighest(seen, k) /\ feed.header = seen[k]
    BY <1>2 DEF Kept
  <2>2. k \in highest /\ \A j \in highest : k <= j
    BY <2>1 DEF isFirstHighest
  <2>3. highest \subseteq Nat
    BY SMT
  <2> HIDE DEF highest
  <2>4. \A i \in highest : (\A j \in highest : i <= j) => i = k
    BY <2>2, <2>3, SMT
  <2>5. (CHOOSE i \in highest : \A j \in highest : i <= j) = k
    BY <2>2, <2>4
  <2> QED BY <1>2, <2>1, <2>5 DEF expected, highest
<1> QED BY <1>1, <1>2

\* OnLatest, OnSafe and OnFinalized keep the header of one more header seen, which
\* does not contradict the one they have.
LEMMA KeptMore ==
    ASSUME NEW seen \in Seq(Header), NEW h \in Header, NEW e, NEW t, Kept(seen, e, t),
           ~(t # "latest" /\ h.number = e.number /\ h # e)
    PROVE  Kept(Append(seen, h), IF t # "latest" /\ h.number < e.number THEN e ELSE h, t)
<1> DEFINE more == Append(seen, h)
           n == Len(seen) + 1
<1>1. /\ more # <<>> /\ Last(more) = h /\ more[n] = h /\ DOMAIN more = DOMAIN seen \cup {n}
      /\ \A j \in DOMAIN seen : more[j] = seen[j] /\ j < n /\ j \in Nat /\ seen[j] \in Header
      /\ n \in Nat
  BY SMT DEF Last
<1>2. \A x \in Header : x.number \in Nat /\ x.number >= 1
  BY ChanAssumption, SMT DEF Header
<1> HIDE DEF more, n
<1>3. CASE t = "latest"
  BY <1>1, <1>3 DEF Kept, more
<1>4. CASE t # "latest" /\ seen = <<>>
  <2>1. e.number = 0 /\ DOMAIN seen = {}
    <3>1. e = NoHeader
      BY <1>4 DEF Kept
    <3>2. DOMAIN << >> = {}
      BY SMT
    <3> QED BY <1>4, <3>1, <3>2 DEF NoHeader
  <2>2. ~(h.number < e.number) /\ h.number <= h.number /\ n <= n
    BY <1>1, <1>2, <2>1, SMT
  <2>3. isFirstHighest(more, n)
    BY <1>1, <2>1, <2>2 DEF isFirstHighest
  <2> QED BY <1>1, <1>4, <2>2, <2>3 DEF Kept, more
<1>5. CASE t # "latest" /\ seen # <<>>
  <2>1. PICK k \in DOMAIN seen : isFirstHighest(seen, k) /\ e = seen[k]
    BY <1>5 DEF Kept
  <2>2. /\ e \in Header /\ e.number \in Nat /\ h.number \in Nat
        /\ \A j \in DOMAIN seen : seen[j].number \in Nat
    BY <1>1, <1>2, <2>1
  <2>3. CASE h.number <= e.number
    <3>1. isFirstHighest(more, k)
      <4>1. \A j \in DOMAIN more : more[j].number <= more[k].number
        BY <1>1, <2>1, <2>3 DEF isFirstHighest
      <4>2. \A j \in DOMAIN more : more[k].number <= more[j].number => k <= j
        BY <1>1, <2>1, SMT DEF isFirstHighest
      <4> QED BY <4>1, <4>2 DEF isFirstHighest
    <3>2. (IF t # "latest" /\ h.number < e.number THEN e ELSE h) = e
      BY <1>5, <2>2, <2>3, SMT
    <3> QED BY <1>1, <1>5, <2>1, <3>1, <3>2 DEF Kept, more
  <2>4. CASE ~(h.number <= e.number)
    <3>1. /\ \A j \in DOMAIN seen : seen[j].number < h.number
          /\ ~(h.number < e.number) /\ h.number <= h.number
      BY <2>1, <2>2, <2>4, SMT DEF isFirstHighest
    <3>2. \A j \in DOMAIN seen : seen[j].number <= h.number /\ ~(h.number <= seen[j].number)
      BY <2>2, <3>1, SMT
    <3>3. n <= n
      BY <1>1, SMT
    <3>4. isFirstHighest(more, n)
      BY <1>1, <3>1, <3>2, <3>3 DEF isFirstHighest
    <3> QED BY <1>1, <1>5, <3>1, <3>4 DEF Kept, more
  <2> QED BY <2>3, <2>4
<1> QED BY <1>3, <1>4, <1>5

LEMMA FitsTogether ==
    ASSUME NEW l \in Nat, NEW i \in Nat, NEW m \in Nat, NEW p \in Nat, NEW s \in Nat, NEW n \in Nat,
           Fits(l, i, m, p, s, n)
    PROVE  l + (i + m + p + s) <= n /\ (s = 1 => n >= 1)
BY SMT DEF Fits

\* The headers on their way are as many as Counted says.
LEMMA Flight ==
    ASSUME feed \in Feed, Counted
    PROVE  /\ pollerSends \in Seq(Header) /\ inFlight \in Seq(Header)
           /\ Len(inFlight) \in Nat /\ feed.lost + Len(inFlight) <= Len(feed.polled)
<1>0. /\ feed.lost + (Len(feed.inCh) + Len(feed.msg) + Len(feed.PubCh) + sending) <= Len(feed.polled)
      /\ sending = 1 => Len(feed.polled) >= 1
  BY Channels, FitsTogether DEF Counted
<1>1. pollerSends \in Seq(Header) /\ Len(pollerSends) = sending
  <2>1. CASE feed.poller = "send"
    <3>1. Len(feed.polled) >= 1 /\ feed.polled \in Seq(Header)
      BY <1>0, <2>1, Channels DEF sending
    <3>2. Last(feed.polled) \in Header
      BY <3>1, SMT DEF Last
    <3> QED BY <2>1, <3>2, SMT DEF pollerSends, sending
  <2>2. CASE feed.poller # "send"
    BY <2>2, SMT DEF pollerSends, sending
  <2> QED BY <2>1, <2>2
<1>2. /\ feed.inCh \in Seq(Header) /\ feed.msg \in Seq(Header) /\ feed.PubCh \in Seq(Header)
      /\ feed.lost \in Nat /\ Len(feed.polled) \in Nat
  BY Channels
<1>3. /\ inFlight \in Seq(Header)
      /\ Len(inFlight) = Len(feed.inCh) + Len(feed.msg) + Len(feed.PubCh) + Len(pollerSends)
  <2> DEFINE a == feed.inCh \o feed.msg
             b == a \o feed.PubCh
  <2>1. a \in Seq(Header) /\ Len(a) = Len(feed.inCh) + Len(feed.msg)
    BY <1>2, ConcatProperties
  <2> HIDE DEF a
  <2>2. b \in Seq(Header) /\ Len(b) = Len(a) + Len(feed.PubCh)
    BY <1>2, <2>1, ConcatProperties
  <2> HIDE DEF b
  <2>3. b \o pollerSends \in Seq(Header) /\ Len(b \o pollerSends) = Len(b) + Len(pollerSends)
    BY <1>1, <2>2, ConcatProperties
  <2> QED BY <2>1, <2>2, <2>3 DEF inFlight, a, b
<1>5. feed.lost + Len(inFlight) <= Len(feed.polled)
  BY <1>0, <1>1, <1>3
<1>6. Len(inFlight) \in Nat
  BY <1>3, LenProperties
<1> QED BY <1>1, <1>3, <1>5, <1>6

\* A step that only moves headers from one place to the next.
LEMMA ExactMoved ==
    ASSUME Exact, inFlight' = inFlight, tag' = tag, feed'.header = feed.header,
           feed'.polled = feed.polled, feed'.lost = feed.lost,
           feed'.broker # "send" => feed'.msg = <<>>,
           feed'.subscriber = "select" => feed.subscriber = "select" /\ ~feed'.unsubCh,
           feed'.subscriber = "select" /\ ~feed'.subs =>
               ~feed.subs /\ feed'.inCh = <<>> /\ feed'.msg = <<>>
    PROVE  Exact'
<1>1. handled' = handled
  BY DEF handled
<1> QED BY <1>1 DEF Exact

LEMMA FrontOfJoin ==
    ASSUME NEW S, NEW s \in Seq(S), NEW t \in Seq(S), s # <<>>
    PROVE  /\ s \o t # <<>> /\ s \o t \in Seq(S)
           /\ Tail(s \o t) = Tail(s) \o t /\ Head(s \o t) = Head(s)
BY SMT

LEMMA EmptyJoins ==
    ASSUME NEW S, NEW s \in Seq(S), NEW t \in Seq(S)
    PROVE  /\ s \o <<>> = s /\ <<>> \o s = s
           /\ (s \o <<>>) \o t = (s \o t) \o <<>>
BY SMT

LEMMA TailOfOne ==
    ASSUME NEW S, NEW s \in Seq(S), NEW t \in Seq(S), Len(s) = 1
    PROVE  s \o t # <<>> /\ Tail(s \o t) = t
<1>1. s # <<>>
  <2>1. Len(<<>>) = 0 /\ 0 # 1
    BY SMT
  <2> QED BY <2>1
<1>2. Tail(s) = <<>>
  <2>1. Tail(s) \in Seq(S) /\ Len(Tail(s)) = 1 - 1
    BY <1>1, HeadTailProperties
  <2>2. 1 - 1 = 0 /\ 0 \notin Nat \ {0}
    BY SMT
  <2> QED BY <2>1, <2>2, EmptySeq
<1>3. s \o t # <<>> /\ Tail(s \o t) = Tail(s) \o t
  BY <1>1, FrontOfJoin
<1>4. <<>> \o t = t
  BY EmptyJoins
<1> QED BY <1>2, <1>3, <1>4

LEMMA PollerExact ==
    ASSUME feed \in Feed, Counted, Exact, tag' = tag, (\E h \in Header : Poll(h)) \/ Poller
    PROVE  Exact'
<1>0. /\ feed.polled \in Seq(Header) /\ feed.inCh \in Seq(Header) /\ feed.msg \in Seq(Header)
      /\ feed.PubCh \in Seq(Header) /\ feed.lost \in Nat /\ Len(feed.polled) \in Nat
  BY Channels
<1>1. ASSUME NEW h \in Header, Poll(h) PROVE Exact'
  <2>1. /\ feed'.polled = Append(feed.polled, h) /\ feed.poller = "poll" /\ feed'.poller = "send"
        /\ feed'.lost = feed.lost /\ feed'.inCh = feed.inCh /\ feed'.msg = feed.msg
        /\ feed'.PubCh = feed.PubCh /\ feed'.broker = feed.broker /\ feed'.subs = feed.subs
        /\ feed'.subscriber = feed.subscriber /\ feed'.unsubCh = feed.unsubCh
        /\ feed'.header = feed.header
    BY <1>1 DEF Poll, Feed
  <2>2. inFlight' = Append(inFlight, h)
    <3>1. pollerSends = <<>>
      BY <2>1 DEF pollerSends
    <3>2. pollerSends' = <<h>>
      <4>1. Last(Append(feed.polled, h)) = h
        BY <1>0, SMT DEF Last
      <4> QED BY <2>1, <4>1 DEF pollerSends
    <3>3. inFlight' = feed.inCh \o feed.msg \o feed.PubCh \o <<h>>
      BY <2>1, <3>2 DEF inFlight
    <3>4. inFlight = feed.inCh \o feed.msg \o feed.PubCh \o <<>>
      BY <3>1 DEF inFlight
    <3>5. (feed.inCh \o feed.msg \o feed.PubCh) \in Seq(Header)
      BY <1>0, SMT
    <3>6. \A s \in Seq(Header) : s \o <<h>> = Append(s \o <<>>, h)
      BY SMT
    <3> QED BY <3>3, <3>4, <3>5, <3>6
  <2>3. inFlight \in Seq(Header) /\ Len(inFlight) \in Nat /\ feed.lost + Len(inFlight) <= Len(feed.polled)
    BY Flight
  <2>4. /\ Len(inFlight') = Len(inFlight) + 1 /\ Len(feed'.polled) = Len(feed.polled) + 1
    BY <1>0, <2>1, <2>2, <2>3, SMT
  <2>5. /\ Len(feed'.polled) - Len(inFlight') = Len(feed.polled) - Len(inFlight)
        /\ Len(feed.polled) - Len(inFlight) \in Nat
        /\ Len(feed.polled) - Len(inFlight) <= Len(feed.polled)
        /\ feed.lost + Len(inFlight) = Len(feed.polled) => feed'.lost + Len(inFlight') = Len(feed'.polled)
    <3> DEFINE n == Len(feed.polled)
               f == Len(inFlight)
               l == feed.lost
    <3>1. l \in Nat /\ n \in Nat /\ f \in Nat /\ l + f <= n
      BY <1>0, <2>3
    <3> HIDE DEF n, f, l
    <3>2. /\ (n + 1) - (f + 1) = n - f /\ n - f \in Nat /\ n - f <= n
          /\ l + f = n => l + (f + 1) = n + 1
      BY <3>1, SMT
    <3> QED BY <2>1, <2>4, <3>2 DEF n, f, l
  <2>6. handled' = handled
    <3> DEFINE m == Len(feed.polled) - Len(inFlight)
    <3>1. m \in Nat /\ m <= Len(feed.polled)
      BY <2>5
    <3> HIDE DEF m
    <3>2. unchangedBy(feed.polled, h, feed.lost, m)
      BY <1>0, <1>1, <3>1, SeenSame
    <3> QED BY <2>1, <2>5, <3>2 DEF handled, m, unchangedBy
  <2>7. feed.subscriber = "select" => Ends(inFlight', feed'.polled)
    BY <1>0, <2>1, <2>2, <2>3, EndsGrow DEF Exact
  <2> QED BY <2>1, <2>5, <2>6, <2>7 DEF Exact
<1>2. CASE Publish
  <2>1. /\ feed'.polled = feed.polled /\ feed.poller = "send" /\ feed'.poller = "poll"
        /\ feed'.lost = feed.lost /\ feed'.inCh = feed.inCh /\ feed'.msg = feed.msg
        /\ feed.PubCh = <<>> /\ feed'.PubCh = pollerSends /\ feed'.broker = feed.broker
        /\ feed'.subs = feed.subs /\ feed'.subscriber = feed.subscriber
        /\ feed'.unsubCh = feed.unsubCh /\ feed'.header = feed.header
    BY <1>2 DEF Publish, Feed
  <2>2. inFlight' = inFlight
    <3>1. pollerSends' = <<>>
      BY <2>1 DEF pollerSends
    <3>2. inFlight' = ((feed.inCh \o feed.msg) \o pollerSends) \o <<>>
      BY <2>1, <3>1 DEF inFlight
    <3>3. inFlight = ((feed.inCh \o feed.msg) \o <<>>) \o pollerSends
      BY <2>1 DEF inFlight
    <3>4. (feed.inCh \o feed.msg) \in Seq(Header)
      BY <1>0, SMT
    <3> QED BY <3>2, <3>3, <3>4, Flight, EmptyJoins
  <2> QED BY <2>1, <2>2, ExactMoved DEF Exact
<1>3. CASE PollerEnds
  <2>1. /\ feed'.polled = feed.polled /\ feed.poller = "poll" /\ feed'.poller = "ended"
        /\ feed'.lost = feed.lost /\ feed'.inCh = feed.inCh /\ feed'.msg = feed.msg
        /\ feed'.PubCh = feed.PubCh /\ feed'.broker = feed.broker
        /\ feed'.subs = feed.subs /\ feed'.subscriber = feed.subscriber
        /\ feed'.unsubCh = feed.unsubCh /\ feed'.header = feed.header
    BY <1>3 DEF PollerEnds, Feed
  <2>2. inFlight' = inFlight
    BY <2>1 DEF inFlight, pollerSends
  <2> QED BY <2>1, <2>2, ExactMoved DEF Exact
<1> QED BY <1>1, <1>2, <1>3 DEF Poller

LEMMA BrokerExact ==
    ASSUME feed \in Feed, Counted, Exact, tag' = tag, Broker
    PROVE  Exact'
<1>0. /\ feed.inCh \in Seq(Header) /\ feed.msg \in Seq(Header) /\ feed.PubCh \in Seq(Header)
      /\ pollerSends \in Seq(Header)
  BY Channels, Flight
<1>1. CASE Receive /\ feed.subs
  <2>1. /\ feed'.polled = feed.polled /\ feed'.poller = feed.poller /\ feed'.lost = feed.lost
        /\ feed'.inCh = feed.inCh /\ feed'.msg = feed.PubCh /\ feed'.PubCh = <<>>
        /\ feed.broker = "select" /\ feed'.broker = "send" /\ feed'.subs
        /\ feed'.subscriber = feed.subscriber /\ feed'.unsubCh = feed.unsubCh
        /\ feed'.header = feed.header
    BY <1>1 DEF Receive, Feed
  <2>2. inFlight' = inFlight
    <3>1. feed.msg = <<>> /\ pollerSends' = pollerSends
      BY <2>1 DEF Exact, pollerSends
    <3>2. inFlight' = ((feed.inCh \o feed.PubCh) \o <<>>) \o pollerSends
      BY <2>1, <3>1 DEF inFlight
    <3>3. inFlight = ((feed.inCh \o <<>>) \o feed.PubCh) \o pollerSends
      BY <3>1 DEF inFlight
    <3>4. (feed.inCh \o <<>>) \o feed.PubCh = (feed.inCh \o feed.PubCh) \o <<>>
      BY <1>0, EmptyJoins
    <3> QED BY <3>2, <3>3, <3>4
  <2> QED BY <2>1, <2>2, ExactMoved DEF Exact
<1>2. CASE Receive /\ ~feed.subs
  <2>1. /\ feed'.polled = feed.polled /\ feed'.poller = feed.poller /\ feed'.lost = feed.lost + 1
        /\ feed'.inCh = feed.inCh /\ feed'.msg = feed.msg /\ feed'.PubCh = <<>>
        /\ feed.broker = "select" /\ feed'.broker = "select" /\ feed'.subs = feed.subs
        /\ feed'.subscriber = feed.subscriber /\ feed'.unsubCh = feed.unsubCh
        /\ feed'.header = feed.header /\ feed.PubCh # <<>>
    BY <1>2 DEF Receive, Feed
  <2>2. feed'.broker # "send" => feed'.msg = <<>>
    BY <2>1 DEF Exact
  <2>3. CASE feed.subscriber # "select"
    BY <2>1, <2>2, <2>3 DEF Exact
  <2>4. CASE feed.subscriber = "select"
    <3>1. /\ feed.inCh = <<>> /\ feed.msg = <<>> /\ ~feed.unsubCh /\ Ends(inFlight, feed.polled)
          /\ feed.lost + Len(inFlight) = Len(feed.polled) /\ Kept(handled, feed.header, tag)
      BY <1>2, <2>4 DEF Exact
    <3>2. inFlight = feed.PubCh \o pollerSends /\ inFlight' = pollerSends
      <4>1. pollerSends' = pollerSends
        BY <2>1 DEF pollerSends
      <4>2. /\ <<>> \o <<>> = <<>> /\ <<>> \o feed.PubCh = feed.PubCh
            /\ <<>> \o pollerSends = pollerSends
        BY <1>0, EmptyJoins, EmptySeq
      <4> QED BY <2>1, <3>1, <4>1, <4>2 DEF inFlight
    <3>3. Len(feed.PubCh) = 1
      BY <2>1, Channels, Single
    <3>4. inFlight \in Seq(Header) /\ inFlight # <<>> /\ inFlight' = Tail(inFlight)
      <4>1. inFlight \in Seq(Header)
        BY Flight
      <4>2. \A s, t \in Seq(Header) : Len(s) = 1 => s \o t # <<>> /\ Tail(s \o t) = t
        BY TailOfOne
      <4> QED BY <1>0, <3>2, <3>3, <4>1, <4>2
    <3>5. Ends(inFlight', feed'.polled)
      BY <2>1, <3>1, <3>4, EndsShrink, Channels
    <3>6. Len(inFlight') = Len(inFlight) - 1 /\ Len(inFlight) \in Nat \ {0}
      BY <3>4, EmptySeq, HeadTailProperties
    <3>7. /\ feed'.lost + Len(inFlight') = Len(feed'.polled)
          /\ Len(feed.polled) - Len(inFlight) = feed.lost
          /\ Len(feed'.polled) - Len(inFlight') = feed'.lost
      <4> DEFINE n == Len(feed.polled)
                 f == Len(inFlight)
                 l == feed.lost
      <4>1. l \in Nat /\ n \in Nat /\ f \in Nat /\ l + f = n
        BY <3>1, <3>6, Channels
      <4> HIDE DEF n, f, l
      <4>2. (l + 1) + (f - 1) = n /\ n - f = l /\ n - (f - 1) = l + 1
        BY <4>1, SMT
      <4> QED BY <2>1, <3>6, <4>2 DEF n, f, l
    <3>8. handled = <<>> /\ handled' = <<>>
      <4>1. feed.polled \in Seq(Header) /\ feed.lost \in Nat /\ feed.lost + 1 \in Nat
        BY Channels, SMT
      <4>2. \A l \in Nat : SubSeq(feed.polled, l + 1, l) = <<>>
        BY <4>1, SeenNone
      <4> QED BY <2>1, <3>7, <4>1, <4>2 DEF handled
    <3> QED BY <2>1, <2>2, <2>4, <3>1, <3>5, <3>7, <3>8 DEF Exact
  <2> QED BY <2>3, <2>4
<1>3. CASE Forward
  <2>1. /\ feed'.polled = feed.polled /\ feed'.poller = feed.poller /\ feed'.lost = feed.lost
        /\ feed'.inCh = feed.inCh \o feed.msg /\ feed'.msg = <<>> /\ feed'.PubCh = feed.PubCh
        /\ feed'.subs = feed.subs /\ feed'.subscriber = feed.subscriber
        /\ feed'.unsubCh = feed.unsubCh /\ feed'.header = feed.header
    BY <1>3 DEF Forward, Feed
  <2>2. inFlight' = inFlight
    <3>1. pollerSends' = pollerSends
      BY <2>1 DEF pollerSends
    <3>2. (feed.inCh \o feed.msg) \o <<>> = feed.inCh \o feed.msg
      <4>1. feed.inCh \o feed.msg \in Seq(Header)
        BY <1>0, ConcatProperties
      <4> QED BY <4>1, EmptyJoins
    <3> QED BY <2>1, <3>1, <3>2 DEF inFlight
  <2>3. <<>> \o <<>> = <<>>
    BY EmptySeq, EmptyJoins
  <2> QED BY <2>1, <2>2, <2>3, ExactMoved DEF Exact
<1>4. CASE Register \/ BrokerEnds
  <2>0. /\ feed.broker = "select"
        /\ \/ feed' = [feed EXCEPT !.subCh = FALSE, !.subs = TRUE]
           \/ feed.unsubCh /\ feed' = [feed EXCEPT !.unsubCh = FALSE, !.subs = FALSE]
           \/ feed' = [feed EXCEPT !.broker = "ended"]
    BY <1>4 DEF Register, BrokerEnds
  <2> DEFINE Same == /\ feed'.polled = feed.polled /\ feed'.poller = feed.poller
                     /\ feed'.lost = feed.lost /\ feed'.inCh = feed.inCh /\ feed'.msg = feed.msg
                     /\ feed'.PubCh = feed.PubCh /\ feed'.subscriber = feed.subscriber
                     /\ feed'.header = feed.header
             Subs == \/ feed'.subs /\ feed'.unsubCh = feed.unsubCh
                     \/ feed.unsubCh
                     \/ feed'.subs = feed.subs /\ feed'.unsubCh = feed.unsubCh
  <2>a. ASSUME feed' = [feed EXCEPT !.subCh = FALSE, !.subs = TRUE] PROVE Same /\ Subs
    <3>1. Same
      BY <2>a DEF Feed
    <3>2. feed'.subs /\ feed'.unsubCh = feed.unsubCh
      BY <2>a DEF Feed
    <3> QED BY <3>1, <3>2
  <2>b. ASSUME feed.unsubCh, feed' = [feed EXCEPT !.unsubCh = FALSE, !.subs = FALSE]
        PROVE  Same /\ Subs
    <3>1. Same
      BY <2>b DEF Feed
    <3> QED BY <2>b, <3>1
  <2>c. ASSUME feed' = [feed EXCEPT !.broker = "ended"] PROVE Same /\ Subs
    <3>1. Same
      BY <2>c DEF Feed
    <3>2. feed'.subs = feed.subs /\ feed'.unsubCh = feed.unsubCh
      BY <2>c DEF Feed
    <3> QED BY <3>1, <3>2
  <2>1. Same /\ Subs
    <3> HIDE DEF Same, Subs
    <3> QED BY <2>0, <2>a, <2>b, <2>c
  <2>2. Subs /\ feed.broker = "select"
    BY <2>0, <2>1
  <2>3. inFlight' = inFlight
    BY <2>1 DEF inFlight, pollerSends
  <2> QED BY <2>1, <2>2, <2>3, ExactMoved DEF Exact
<1> QED BY <1>1, <1>2, <1>3, <1>4 DEF Broker

LEMMA SubscriberExact ==
    ASSUME feed \in Feed, Counted, Exact, tag' = tag, Subscriber
    PROVE  Exact'
<1>1. CASE Callback
  <2> DEFINE h == Head(feed.inCh)
  <2>1. /\ feed'.polled = feed.polled /\ feed'.poller = feed.poller /\ feed'.lost = feed.lost
        /\ feed'.inCh = Tail(feed.inCh) /\ feed'.msg = feed.msg /\ feed'.PubCh = feed.PubCh
        /\ feed'.broker = feed.broker /\ feed'.subs = feed.subs /\ feed'.unsubCh = feed.unsubCh
        /\ feed.inCh # <<>> /\ feed.subscriber = "select"
        /\ conflicts(h) => feed'.subscriber = "unsubscribe"
        /\ ~conflicts(h) => feed'.header = OnNew(h)
    BY <1>1 DEF Callback, Feed
  <2>2. CASE conflicts(h)
    BY <2>1, <2>2 DEF Exact
  <2>3. CASE ~conflicts(h)
    <3>1. /\ feed.inCh \in Seq(Header) /\ feed.msg \in Seq(Header) /\ feed.PubCh \in Seq(Header)
          /\ pollerSends \in Seq(Header) /\ inFlight \in Seq(Header) /\ feed.polled \in Seq(Header)
          /\ feed.lost + Len(inFlight) <= Len(feed.polled) /\ feed.lost \in Nat
          /\ Len(feed.polled) \in Nat
      BY Channels, Flight
    <3>2. ~feed.unsubCh /\ feed.subs /\ Ends(inFlight, feed.polled) /\ Kept(handled, feed.header, tag)
      BY <2>1 DEF Exact
    <3>3. inFlight' = Tail(inFlight) /\ h = Head(inFlight) /\ inFlight # <<>>
      <4>1. pollerSends' = pollerSends
        BY <2>1 DEF pollerSends
      <4>2. \A s, t \in Seq(Header) : s # <<>> =>
               /\ s \o t # <<>> /\ s \o t \in Seq(Header)
               /\ Tail(s \o t) = Tail(s) \o t /\ Head(s \o t) = Head(s)
        BY FrontOfJoin
      <4> DEFINE a == feed.inCh \o feed.msg
                 b == a \o feed.PubCh
      <4>3. /\ a # <<>> /\ a \in Seq(Header) /\ Tail(a) = Tail(feed.inCh) \o feed.msg
            /\ Head(a) = h
        BY <2>1, <3>1, <4>2
      <4>4. /\ b # <<>> /\ b \in Seq(Header) /\ Tail(b) = Tail(a) \o feed.PubCh /\ Head(b) = h
        BY <3>1, <4>2, <4>3
      <4> HIDE DEF b
      <4>5. /\ b \o pollerSends # <<>> /\ Tail(b \o pollerSends) = Tail(b) \o pollerSends
            /\ Head(b \o pollerSends) = h
        BY <3>1, <4>2, <4>4
      <4> QED BY <2>1, <4>1, <4>3, <4>4, <4>5 DEF inFlight, b
    <3>4. Ends(inFlight', feed'.polled) /\ h = feed.polled[(Len(feed.polled) - Len(inFlight)) + 1]
      BY <2>1, <3>1, <3>2, <3>3, EndsShrink
    <3>5. Len(inFlight') = Len(inFlight) - 1 /\ Len(inFlight) \in Nat \ {0} /\ h \in Header
      BY <3>1, <3>3, EmptySeq, HeadTailProperties
    <3>6. handled \in Seq(Header) /\ handled' = Append(handled, h)
      <4> DEFINE l == feed.lost
                 m == Len(feed.polled) - Len(inFlight)
      <4>1. m \in Nat /\ l <= m /\ m < Len(feed.polled) /\ l \in Nat
            /\ Len(feed.polled) - (Len(inFlight) - 1) = m + 1
        <5> DEFINE n == Len(feed.polled)
                   f == Len(inFlight)
        <5>1. l \in Nat /\ n \in Nat /\ f \in Nat \ {0} /\ l + f <= n
          BY <3>1, <3>5
        <5> HIDE DEF n, f, l
        <5>2. n - f \in Nat /\ l <= n - f /\ n - f < n /\ n - (f - 1) = (n - f) + 1
          BY <5>1, SMT
        <5> QED BY <5>1, <5>2 DEF n, f
      <4>2. h = feed.polled[m + 1]
        BY <3>4
      <4> HIDE DEF m
      <4>3. /\ SubSeq(feed.polled, l + 1, m) \in Seq(Header)
            /\ SubSeq(feed.polled, l + 1, m + 1) = Append(SubSeq(feed.polled, l + 1, m), feed.polled[m + 1])
        BY <3>1, <4>1, SeenMore
      <4>4. handled = SubSeq(feed.polled, l + 1, m)
        BY DEF handled, m
      <4>5. handled' = SubSeq(feed.polled, l + 1, m + 1)
        BY <2>1, <3>5, <4>1 DEF handled
      <4> QED BY <4>2, <4>3, <4>4, <4>5
    <3>7. Kept(handled', feed'.header, tag)
      <4>1. /\ ~(tag # "latest" /\ h.number = feed.header.number /\ h # feed.header)
            /\ feed'.header = IF tag # "latest" /\ h.number < feed.header.number THEN feed.header ELSE h
        BY <2>1, <2>3 DEF conflicts, OnNew
      <4> HIDE DEF h
      <4> QED BY <3>2, <3>5, <3>6, <4>1, KeptMore
    <3> QED BY <2>1, <3>2, <3>4, <3>7 DEF Exact
  <2> QED BY <2>2, <2>3
<1>2. CASE SubscriberEnds \/ Unsubscribe
  <2>1. /\ feed'.msg = feed.msg /\ feed'.broker = feed.broker /\ feed'.subscriber # "select"
    BY <1>2 DEF SubscriberEnds, Unsubscribe, Feed
  <2> QED BY <2>1 DEF Exact
<1> QED BY <1>1, <1>2 DEF Subscriber

-----------------------------------------------------------------------------
(* The process *)

\* The context ends only because a service failed; a service stops only because the
\* context ended; a service runs once main has come past it, and if it is enabled it does.
Honest ==
    /\ exit # "ok"
    /\ ctx = "done" => \E s \in Service : service[s] = "failed"
    /\ \A s \in Service : service[s] = "stopped" => ctx = "done"
    /\ main \notin {"parse", "exited"} => validate(cfg)
    /\ main \in {"validator", "wait"} /\ cfg["disseminator"].enabled => service["disseminator"] # "off"
    /\ main = "wait" /\ cfg["validator"].enabled => service["validator"] # "off"
    /\ main \in {"parse", "l1State", "disseminator"} => service["disseminator"] = "off"
    /\ main \in {"parse", "l1State", "disseminator", "validator"} => service["validator"] = "off"

IInv == TypeOK /\ Counted /\ Honest /\ (ctx = "off" => feed = idle)

LEMMA IInvInit == Init => IInv
<1> SUFFICES ASSUME Init PROVE IInv
  OBVIOUS
<1>1. feed = idle
  BY DEF Init, SyncInit
<1>2. TypeOK
  BY <1>1, IdleFeed DEF Init, SyncInit, TypeOK, SyncTypeOK
<1>3. Counted
  BY <1>1, SMT DEF Counted, Fits, sending, idle
<1>4. Honest
  BY DEF Init, SyncInit, Honest, Service
<1> QED BY <1>1, <1>2, <1>3, <1>4 DEF IInv

\* The syncer leaves the process alone, and its context.
LEMMA SyncStep ==
    ASSUME IInv, Sync \/ Stop, UNCHANGED mainVars
    PROVE  IInv'
<1>1. UNCHANGED <<ctx, tag, cfg, main, service, exit>> /\ ctx # "off"
  <2>1. CASE Stop
    BY <2>1 DEF Stop, mainVars
  <2>2. CASE Sync
    <3>1. ctx = "off" => feed.poller = "off" /\ feed.broker = "off" /\ feed.subscriber = "off"
      BY SMT DEF IInv, idle
    <3> QED BY <2>2, <3>1 DEF Sync, Poll, Poller, Publish, PollerEnds, Broker, Receive, Forward,
                 Register, BrokerEnds, Subscriber, Callback, SubscriberEnds, Unsubscribe, mainVars
  <2> QED BY <2>1, <2>2
<1>2. feed' \in Feed /\ Counted' /\ stopped' \in BOOLEAN
  <2>1. CASE Stop
    BY <2>1 DEF Stop, IInv, TypeOK, SyncTypeOK, Counted, sending
  <2>2. CASE Sync
    BY <2>2, PollerFeed, BrokerFeed, SubscriberFeed DEF Sync, IInv, TypeOK, SyncTypeOK
  <2> QED BY <2>1, <2>2
<1>3. Honest'
  BY <1>1 DEF IInv, Honest, validate, validateService
<1> QED BY <1>1, <1>2, <1>3 DEF IInv, TypeOK, SyncTypeOK

LEMMA MainStep ==
    ASSUME IInv, Startup \/ \E s \in Service : ServiceFails(s) \/ ServiceStops(s)
    PROVE  IInv'
<1>0. /\ service \in [Service -> {"off", "running", "failed", "stopped"}] /\ cfg' = cfg
      /\ "disseminator" \in Service /\ "validator" \in Service
      /\ Service = {"disseminator", "validator"}
  BY DEF IInv, TypeOK, Startup, ParseSystemConfig, createL1State, createDisseminator, createValidator,
         createService, Wait, ServiceFails, ServiceStops, Service
<1> USE DEF IInv
<1>1. CASE ParseSystemConfig
  <2>1. UNCHANGED <<cfg, service, ctx, stopped, tag, feed>>
    BY <1>1 DEF ParseSystemConfig
  <2>2. /\ main = "parse" /\ main' \in {"l1State", "exited"} /\ exit' \in {exit, "error", "panic"}
        /\ main' = "l1State" => validate(cfg)
    BY <1>1 DEF ParseSystemConfig, Exit
  <2>3. TypeOK' /\ Counted'
    BY <2>1, <2>2 DEF TypeOK, SyncTypeOK, Counted, sending
  <2>4. validate(cfg)' = validate(cfg)
    BY <2>1 DEF validate, validateService
  <2>5. Honest'
    BY <2>1, <2>2, <2>4 DEF Honest
  <2> QED BY <2>1, <2>3, <2>5
<1>2. CASE createL1State
  <2>1. CASE Start /\ main' = "disseminator" /\ UNCHANGED exit
    <3>1. ctx = "off" /\ ctx' = "live" /\ UNCHANGED <<stopped, tag, cfg, service>> /\ main = "l1State"
      BY <1>2, <2>1 DEF Start, createL1State
    <3>2. feed' \in Feed
      BY <2>1, IdleFeed DEF Start
    <3>3. Counted'
      BY <2>1, SMT DEF Start, idle, Counted, Fits, sending
    <3>4. TypeOK'
      BY <2>1, <3>1, <3>2 DEF TypeOK, SyncTypeOK, Service
    <3>5. validate(cfg)' = validate(cfg)
      BY <3>1 DEF validate, validateService
    <3>6. Honest'
      BY <2>1, <3>1, <3>5 DEF Honest
    <3> QED BY <3>1, <3>3, <3>4, <3>6
  <2>2. CASE Exit("error") /\ UNCHANGED <<ctx, stopped, tag, feed, cfg, service>>
    BY <2>2 DEF Exit, TypeOK, SyncTypeOK, Counted, sending, Honest
  <2> QED BY <1>2, <2>1, <2>2 DEF createL1State
<1>3. ASSUME NEW s \in Service, NEW next, createService(s, next),
             \/ s = "disseminator" /\ next = "validator"
             \/ s = "validator" /\ next = "wait"
      PROVE  IInv'
  <2>1. UNCHANGED <<cfg, ctx, stopped, tag, feed>> /\ main = s
    BY <1>3 DEF createService
  <2>2. validate(cfg)' = validate(cfg) /\ Counted'
    BY <2>1 DEF validate, validateService, Counted, sending
  <2>3. \/ ~cfg[s].enabled /\ main' = next /\ UNCHANGED <<service, exit>>
        \/ service' = [service EXCEPT ![s] = "running"] /\ main' = next /\ UNCHANGED exit
        \/ Exit("error") /\ UNCHANGED service
    BY <1>3 DEF createService
  <2>4. TypeOK'
    BY <1>0, <1>3, <2>1, <2>3 DEF TypeOK, SyncTypeOK, Exit
  <2>5. Honest'
    <3>1. CASE Exit("error") /\ UNCHANGED service
      BY <2>1, <2>2, <3>1 DEF Honest, Exit
    <3>2. CASE ~cfg[s].enabled /\ main' = next /\ UNCHANGED <<service, exit>>
      BY <1>0, <1>3, <2>1, <2>2, <3>2 DEF Honest
    <3>3. CASE service' = [service EXCEPT ![s] = "running"] /\ main' = next /\ UNCHANGED exit
      BY <1>0, <1>3, <2>1, <2>2, <3>3 DEF Honest
    <3> QED BY <2>3, <3>1, <3>2, <3>3
  <2> QED BY <2>1, <2>2, <2>4, <2>5
<1>4. CASE Wait
  <2>1. UNCHANGED <<cfg, service, ctx, stopped, tag, feed>> /\ main = "wait" /\ main' = "exited"
    BY <1>4 DEF Wait, Exit
  <2>2. \E s \in Service : service[s] = "failed"
    <3>1. PICK s \in Service : cfg[s].enabled
      BY <2>1 DEF Honest, validate
    <3>2. service[s] # "off" /\ service[s] # "running"
      BY <1>0, <1>4, <2>1, <3>1 DEF Honest, Wait
    <3> QED BY <1>0, <3>2 DEF Honest
  <2>3. exit' = "error"
    BY <1>4, <2>2 DEF Wait, Exit
  <2> QED BY <2>1, <2>3 DEF TypeOK, SyncTypeOK, Counted, sending, Honest
<1>5. ASSUME NEW s \in Service, ServiceFails(s) \/ ServiceStops(s) PROVE IInv'
  <2>1. UNCHANGED <<cfg, main, exit, stopped, tag, feed>>
    BY <1>5 DEF ServiceFails, ServiceStops
  <2>2. /\ service' = [service EXCEPT ![s] = "failed"] \/ service' = [service EXCEPT ![s] = "stopped"]
        /\ ctx' = "done" /\ service[s] = "running"
    BY <1>5 DEF ServiceFails, serviceFails, ServiceStops
  <2>3. \E r \in Service : service'[r] = "failed"
    <3>1. CASE ServiceFails(s)
      BY <1>0, <3>1 DEF ServiceFails, serviceFails
    <3>2. CASE ServiceStops(s)
      <4>1. PICK r \in Service : service[r] = "failed"
        BY <3>2 DEF ServiceStops, Honest
      <4> QED BY <1>0, <2>2, <4>1
    <3> QED BY <1>5, <3>1, <3>2
  <2>4. validate(cfg)' = validate(cfg) /\ Counted'
    BY <2>1 DEF validate, validateService, Counted, sending
  <2>5. TypeOK'
    BY <1>0, <2>1, <2>2 DEF TypeOK, SyncTypeOK
  <2>6. Honest'
    BY <1>0, <2>1, <2>2, <2>3, <2>4, SMT DEF Honest
  <2> QED BY <2>2, <2>4, <2>5, <2>6
<1> QED BY <1>0, <1>1, <1>2, <1>3, <1>4, <1>5 DEF Startup, createDisseminator, createValidator

LEMMA Invariant == Spec => []IInv
<1>1. IInv /\ [Next]_vars => IInv'
  <2> SUFFICES ASSUME IInv, [Next]_vars PROVE IInv'
    OBVIOUS
  <2>1. CASE Next
    BY <2>1, SyncStep, MainStep DEF Next, Running
  <2>2. CASE UNCHANGED vars
    BY <2>2, SMT DEF vars, mainVars, IInv, TypeOK, SyncTypeOK, Counted, sending, Honest, validate, validateService
  <2> QED BY <2>1, <2>2
<1> QED BY <1>1, IInvInit, PTL DEF Spec

\* The variables have their types, and no Go channel of the syncer, broker and subscription
\* ever holds more than its capacity, whatever that is.
THEOREM TypeCorrect == Spec => []TypeOK
<1>1. IInv => TypeOK
  BY DEF IInv
<1> QED BY <1>1, Invariant, PTL

\* startServices never returns nil, whatever services are configured and however the
\* failure of one, the end of the context and the end of the other interleave.
THEOREM EndsInError == Spec => []NeverEndsWell
<1>1. IInv => NeverEndsWell
  BY DEF IInv, Honest, NeverEndsWell
<1> QED BY <1>1, Invariant, PTL

LEMMA HandledSeq ==
    ASSUME feed \in Feed, Counted
    PROVE  handled \in Seq(Header)
<1> DEFINE l == feed.lost
           m == Len(feed.polled) - Len(inFlight)
<1>1. feed.polled \in Seq(Header) /\ l \in Nat /\ m \in Nat /\ m <= Len(feed.polled)
  <2> DEFINE n == Len(feed.polled)
             f == Len(inFlight)
  <2>1. l \in Nat /\ n \in Nat /\ f \in Nat /\ l + f <= n
    BY Channels, Flight
  <2> HIDE DEF n, f, l
  <2>2. n - f \in Nat /\ n - f <= n
    BY <2>1, SMT
  <2> QED BY <2>1, <2>2, Channels DEF n, f
<1> HIDE DEF l, m
<1>2. SubSeq(feed.polled, l + 1, m) \in Seq(Header)
  BY <1>1, SMT
<1> QED BY <1>2 DEF handled, l, m

LEMMA ExactInvariant == Spec => []Exact
<1>1. Init => Exact
  <2> SUFFICES ASSUME Init PROVE Exact
    OBVIOUS
  <2>1. feed.msg = <<>> /\ feed.subscriber = "off"
    BY DEF Init, SyncInit, idle
  <2> QED BY <2>1 DEF Exact
<1>2. IInv /\ Exact /\ [Next]_vars => Exact'
  <2> SUFFICES ASSUME IInv, Exact, [Next]_vars PROVE Exact'
    OBVIOUS
  <2>0. feed \in Feed /\ Counted
    BY DEF IInv, TypeOK, SyncTypeOK
  <2>1. CASE Sync
    <3>1. tag' = tag
      BY <2>1 DEF Sync
    <3> QED BY <2>0, <2>1, <3>1, PollerExact, BrokerExact, SubscriberExact DEF Sync
  <2>2. CASE Start
    <3>1. /\ feed'.msg = <<>> /\ feed'.inCh = <<>> /\ feed'.PubCh = <<>> /\ feed'.poller = "poll"
          /\ ~feed'.unsubCh /\ feed'.polled = <<>> /\ feed'.lost = 0 /\ feed'.header = NoHeader
      BY <2>2 DEF Start, idle
    <3>2. inFlight' = <<>>
      <4>1. pollerSends' = <<>>
        BY <3>1 DEF pollerSends
      <4>2. <<>> \o <<>> = <<>>
        BY EmptySeq, EmptyJoins
      <4> QED BY <3>1, <4>1, <4>2 DEF inFlight
    <3>3. Len(<<>>) = 0 /\ SubSeq(<<>>, 0 + 1, 0 - 0) = <<>> /\ 0 + 0 = 0
      BY SMT
    <3>4. Ends(<<>>, <<>>)
      BY SMT DEF Ends
    <3>5. handled' = <<>>
      BY <3>1, <3>2, <3>3 DEF handled
    <3> QED BY <3>1, <3>2, <3>3, <3>4, <3>5 DEF Exact, Kept
  <2>3. CASE UNCHANGED <<tag, feed>>
    <3>1. inFlight' = inFlight
      BY <2>3 DEF inFlight, pollerSends
    <3> QED BY <2>3, <3>1, ExactMoved DEF Exact
  <2>4. Sync \/ Start \/ UNCHANGED <<tag, feed>>
    BY DEF Next, Startup, ParseSystemConfig, createL1State, createDisseminator, createValidator,
           createService, Wait, Running, Stop, ServiceFails, ServiceStops, vars
  <2> QED BY <2>1, <2>2, <2>3, <2>4
<1> QED BY <1>1, <1>2, Invariant, PTL DEF Spec

\* While the subscription lives, EthState is the header that the headers polled so far and not
\* in a channel determine: no header is dropped, doubled or overtaken on its way from
\* SubscribeNewHeadByPolling through Broker.Start to the callbacks, however the three
\* goroutines interleave, whatever the capacity of the channel.
THEOREM HeadersAreExact == Spec => []HeadersExact
<1>1. IInv /\ Exact => HeadersExact
  <2> SUFFICES ASSUME IInv, Exact, feed.subscriber = "select"
               PROVE  IsSuffix(inFlight, feed.polled) /\ feed.header = expected
    BY DEF HeadersExact
  <2>0. feed \in Feed /\ Counted
    BY DEF IInv, TypeOK, SyncTypeOK
  <2>1. Ends(inFlight, feed.polled) /\ Kept(handled, feed.header, tag)
    BY DEF Exact
  <2>2. inFlight \in Seq(Header) /\ feed.polled \in Seq(Header) /\ handled \in Seq(Header)
    BY <2>0, Flight, Channels, HandledSeq
  <2> QED BY <2>1, <2>2, EndsSuffix, KeptExpected
<1> QED BY <1>1, Invariant, ExactInvariant, PTL

\* OnSafe and OnFinalized never move EthState back, nor to another header of the same
\* height, whatever headers L1 serves.
THEOREM HeadersNeverBack == Spec => NeverBack
<1> DEFINE A == tag # "latest" /\ feed'.header # feed.header =>
                    feed'.header.number > feed.header.number
<1>1. IInv /\ [Next]_vars => [A]_feed
  <2> SUFFICES ASSUME IInv, Next, tag # "latest", feed'.header # feed.header
               PROVE  feed'.header.number > feed.header.number
    BY DEF vars
  <2>0. feed \in Feed
    BY DEF IInv, TypeOK, SyncTypeOK
  <2>1. CASE Callback
    <3>1. feed.inCh \in Seq(Header) /\ feed.inCh # <<>> /\ feed.header \in Header \cup {NoHeader}
      BY <2>0, <2>1, Channels DEF Callback
    <3> DEFINE h == Head(feed.inCh)
    <3>2. h \in Header
      BY <3>1, SMT
    <3>3. h.number \in Nat /\ feed.header.number \in Nat
      BY <3>1, <3>2, ChanAssumption, SMT DEF Header, NoHeader
    <3>4. ~conflicts(h) /\ feed'.header = OnNew(h)
      BY <2>0, <2>1 DEF Callback, Feed
    <3>5. feed'.header = h /\ ~(h.number < feed.header.number) /\ h.number # feed.header.number
      BY <3>4 DEF OnNew, conflicts
    <3> QED BY <3>3, <3>5, SMT
  <2>2. CASE Start
    <3>1. feed.header = idle.header /\ feed'.header = idle.header
      BY <2>2 DEF Start, IInv, idle
    <3> QED BY <3>1
  <2>3. CASE ~Callback /\ ~Start
    <3>1. feed' = feed \/ feed'.header = feed.header
      BY <2>0, <2>3 DEF Next, Startup, ParseSystemConfig, createL1State, createDisseminator, createValidator,
         createService, Wait, Running, Stop, Sync, Poll, Poller, Publish, PollerEnds, Broker, Receive,
         Forward, Register, BrokerEnds, Subscriber, SubscriberEnds, Unsubscribe, ServiceFails,
         ServiceStops, Feed
    <3> QED BY <3>1
  <2> QED BY <2>1, <2>2, <2>3
<1> QED BY <1>1, Invariant, PTL DEF Spec, NeverBack
=============================================================================
