---------------------------- MODULE RollupForks -----------------------------
(***************************************************************************)
(* Rollup with sibling assertions.  As coded, createAssertionHelper keeps  *)
(* the block number of a parent's children in the parent's own blockNum,   *)
(* and no assertion ever gets a sibling (Rollup!AtMostOneAssertion), which *)
(* leaves the contract's dispute half unreachable.  Here it keeps them in  *)
(* the field that the Assertion struct declares for it, childBlockNum      *)
(* (IRollup.sol:145), and every other handler is Rollup's, unchanged: this *)
(* is the specification under which rejection, zombies and challenges are  *)
(* examined.                                                               *)
(***************************************************************************)
EXTENDS Rollup

CreateSibling(a, vmHash, blockNum) ==
    LET parentID == stakers[a].assertionID
    IN  /\ canPropose(a, blockNum)
        /\ isNewChild(parentID, assertions[parentID].childBlockNum, vmHash, blockNum)
        /\ assertions' = [assertions EXCEPT
              ![parentID].childBlockNum = IF @ = 0 THEN blockNum ELSE @,
              ![lastCreatedAssertionID + 1] = newAssertion(vmHash, blockNum, parentID)]
        /\ RecordProposal(a, vmHash)

ProposeForks == \E a \in Address, h \in Hash, n \in BlockNum : CreateSibling(a, h, n)

ForkNext == Step \/ Administer \/ ProposeForks

ForkSpec == Init /\ [][ForkNext]_vars
=============================================================================
