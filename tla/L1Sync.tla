------------------------------- MODULE L1Sync -------------------------------
(***************************************************************************)
(* rpc/eth/eth_syncer.go, eth_state.go and utils.go with utils/broker.go:  *)
(* for each block tag a goroutine polls L1 for a header and publishes it   *)
(* to a broker, whose goroutine passes it to the one subscriber, whose     *)
(* goroutine updates EthState.  The Go channels have their capacities; a   *)
(* goroutine that sends to a full channel waits and does nothing else.     *)
(* The tags share only the context, so the module follows one, any one.    *)
(*                                                                         *)
(* X_why is a faulty variant of operator X, used by no specification.      *)
(***************************************************************************)
EXTENDS Naturals, SequenceParts

CONSTANTS
    Tag,                \* the tags that are polled
    Fork,               \* headers with the same number differ in their fork
    MaxNumber,          \* bound on the block numbers L1 serves
    ChanSize,           \* chanSize
    MaxPolls            \* bound on the headers a poller obtains

ASSUME TagAssumption == Tag \subseteq {"latest", "safe", "finalized"}
ASSUME ChanAssumption == ChanSize \in Nat \ {0} /\ MaxPolls \in Nat /\ MaxNumber \in Nat

VARIABLES
    ctx,                \* "off" before Start, then "live", then "done"
    stopped,            \* whether the broker's stopCh is closed
    tag, feed           \* a tag, its goroutines and channels

NoHeader == [number |-> 0, fork |-> "none"]
Header == [number : 1..MaxNumber, fork : Fork]

\* poller, broker, subscriber: where the goroutines are; msg: what the broker is passing
\* on; PubCh, inCh, subCh, unsubCh: the channels; subs: whether the broker knows the
\* subscriber; header: EthState's; polled, lost: all headers obtained, and how many of
\* them the broker had no subscriber for.
idle == [poller |-> "off", PubCh |-> <<>>, broker |-> "off", msg |-> <<>>, subCh |-> FALSE,
         unsubCh |-> FALSE, subs |-> FALSE, inCh |-> <<>>, subscriber |-> "off",
         header |-> NoHeader, polled |-> <<>>, lost |-> 0]

SyncInit == ctx = "off" /\ stopped = FALSE /\ tag \in Tag /\ feed = idle

-----------------------------------------------------------------------------
(* EthSyncer *)

\* Start: three goroutines, and the subscription on its way.
Start ==
    /\ ctx = "off" /\ ctx' = "live"
    /\ feed' = [idle EXCEPT !.poller = "poll", !.broker = "select",
                                           !.subscriber = "select", !.subCh = TRUE]
    /\ UNCHANGED <<stopped, tag>>

\* Stop: not the broker of safe headers.
Stop ==
    /\ ctx # "off" /\ tag # "safe" /\ ~stopped
    /\ stopped' = TRUE
    /\ UNCHANGED <<ctx, tag, feed>>

-----------------------------------------------------------------------------
(* SubscribeNewHeadByPolling *)

\* A poll L1 answers; one that fails changes nothing.
Poll(h) ==
    /\ feed.poller = "poll" /\ ctx = "live"
    /\ Len(feed.polled) < MaxPolls
    /\ feed' = [feed EXCEPT !.polled = Append(@, h), !.poller = "send"]

pollerSends == IF feed.poller = "send" THEN <<Last(feed.polled)>> ELSE <<>>
Publish ==
    /\ feed.poller = "send" /\ feed.PubCh = <<>>
    /\ feed' = [feed EXCEPT !.PubCh = pollerSends, !.poller = "poll"]

PollerEnds ==
    /\ feed.poller = "poll" /\ ctx = "done"
    /\ feed' = [feed EXCEPT !.poller = "ended"]

-----------------------------------------------------------------------------
(* Broker.Start, the cases of its select *)

Receive ==
    /\ feed.broker = "select" /\ feed.PubCh # <<>>
    /\ feed' = IF feed.subs
               THEN [feed EXCEPT !.PubCh = <<>>, !.msg = feed.PubCh, !.broker = "send"]
               ELSE [feed EXCEPT !.PubCh = <<>>, !.lost = @ + 1]

\* The send to the subscriber waits: its select has no default.
Forward_default ==
    /\ feed.broker = "send"
    /\ feed' = [feed EXCEPT !.inCh = IF Len(@) < ChanSize THEN @ \o feed.msg ELSE @,
                            !.msg = <<>>, !.broker = "select"]
Forward_full ==
    /\ feed.broker = "send" /\ Len(feed.inCh) + 1 < ChanSize
    /\ feed' = [feed EXCEPT !.inCh = @ \o feed.msg, !.msg = <<>>, !.broker = "select"]
Forward ==
    /\ feed.broker = "send" /\ Len(feed.inCh) < ChanSize
    /\ feed' = [feed EXCEPT !.inCh = @ \o feed.msg, !.msg = <<>>, !.broker = "select"]

Register ==
    /\ feed.broker = "select"
    /\ \/ feed.subCh /\ feed' = [feed EXCEPT !.subCh = FALSE, !.subs = TRUE]
       \/ feed.unsubCh /\ feed' = [feed EXCEPT !.unsubCh = FALSE, !.subs = FALSE]

\* stopCh, the error of a poller that ended, or the context.
mustEnd == stopped \/ feed.poller = "ended" \/ ctx = "done"
BrokerEnds ==
    /\ feed.broker = "select" /\ mustEnd
    /\ feed' = [feed EXCEPT !.broker = "ended"]

-----------------------------------------------------------------------------
(* SubscribeWithCallback and EthState *)

\* OnLatest keeps the last header; OnSafe and OnFinalized keep it unless it is older.
OnNew(h) == IF tag # "latest" /\ h.number < feed.header.number THEN feed.header ELSE h
conflicts(h) == tag # "latest" /\ h.number = feed.header.number /\ h # feed.header

\* A callback that fails ends the subscription for good.
Callback ==
    /\ feed.subscriber = "select" /\ feed.inCh # <<>>
    /\ LET h == Head(feed.inCh)
       IN  feed' = IF conflicts(h)
                   THEN [feed EXCEPT !.inCh = Tail(@), !.subscriber = "unsubscribe"]
                   ELSE [feed EXCEPT !.inCh = Tail(@), !.header = OnNew(h)]

SubscriberEnds ==
    /\ feed.subscriber = "select" /\ ctx = "done"
    /\ feed' = [feed EXCEPT !.subscriber = "unsubscribe"]

Unsubscribe ==
    /\ feed.subscriber = "unsubscribe" /\ ~feed.unsubCh
    /\ feed' = [feed EXCEPT !.unsubCh = TRUE, !.subscriber = "ended"]

-----------------------------------------------------------------------------
Poller == Publish \/ PollerEnds
Broker == Receive \/ Forward \/ Register \/ BrokerEnds
Subscriber == Callback \/ SubscriberEnds \/ Unsubscribe

Sync ==
    /\ (\E h \in Header : Poll(h)) \/ Poller \/ Broker \/ Subscriber
    /\ UNCHANGED <<ctx, stopped, tag>>

-----------------------------------------------------------------------------
(* Properties *)

Feed ==
    [poller : {"off", "poll", "send", "ended"}, broker : {"off", "select", "send", "ended"},
     subscriber : {"off", "select", "unsubscribe", "ended"},
     PubCh : BoundedSeq(Header, 1), msg : BoundedSeq(Header, 1), inCh : BoundedSeq(Header, ChanSize),
     subCh : BOOLEAN, unsubCh : BOOLEAN, subs : BOOLEAN,
     header : Header \cup {NoHeader}, polled : BoundedSeq(Header, MaxPolls), lost : 0..MaxPolls]

\* Variables have their types and no channel holds more than its capacity.
SyncTypeOK == ctx \in {"off", "live", "done"} /\ stopped \in BOOLEAN /\ tag \in Tag /\ feed \in Feed

inFlight == feed.inCh \o feed.msg \o feed.PubCh \o pollerSends

\* What the subscriber has been given so far, and the header it should have left.
handled == SubSeq(feed.polled, feed.lost + 1, Len(feed.polled) - Len(inFlight))
expected ==
    LET seen == handled
        highest == {i \in DOMAIN seen : \A j \in DOMAIN seen : seen[j].number <= seen[i].number}
    IN  IF seen = <<>> THEN NoHeader
        ELSE IF tag = "latest" THEN Last(seen)
        ELSE seen[CHOOSE i \in highest : \A j \in highest : i <= j]

\* While the subscriber runs, EthState is what the headers polled so far and not in a
\* channel determine, the last or the highest: none is dropped, doubled or overtaken
\* between poller, broker and subscriber, except those before the subscription.
HeadersExact ==
    feed.subscriber = "select" =>
        IsSuffix(inFlight, feed.polled) /\ feed.header = expected

\* The safe and finalized headers never go back, nor change at their height.
NeverBack ==
    [][tag # "latest" /\ feed'.header # feed.header => feed'.header.number > feed.header.number]_feed
=============================================================================
