----------------------------- MODULE DurableLog -----------------------------
(***************************************************************************)
(* What the persistence pipeline promises, with no slots, batches, buffers *)
(* or segments in it: records are accepted one after the other, those      *)
(* wanted reach the disk in their own time, and a claim says that every    *)
(* wanted record below it is on disk for good.  A record may only be lost  *)
(* before it was claimed, and when the writer has accepted more than the   *)
(* log has room for after it.  A failure freezes the claim, not the disk.  *)
(* Who stops the log waits until all is claimed, or it has failed.         *)
(***************************************************************************)
EXTENDS Integers

CONSTANTS LogCapacity, MaxTicks

VARIABLES accepted,  \* records accepted
          wanted,    \* those to be persisted
          claimed,   \* the claim: records below are durable
          disk,      \* the wanted records on disk
          lost,      \* records overwritten in the log
          failed,    \* whether persisting has failed
          phase      \* "open", "closing" or "closed"

vars == <<accepted, wanted, claimed, disk, lost, failed, phase>>

Init ==
  /\ accepted = 0 /\ claimed = 0
  /\ wanted = {} /\ disk = {} /\ lost = {}
  /\ failed = FALSE
  /\ phase = "open"

Accept ==
  /\ phase = "open" /\ accepted < MaxTicks
  /\ accepted' = accepted + 1
  /\ wanted' \in {wanted, wanted \cup {accepted}}
  /\ UNCHANGED <<claimed, disk, lost, failed, phase>>

\* More is on disk.
Grows == \E more \in SUBSET (wanted \ lost) : disk' = disk \cup more

Persist ==
  /\ phase # "closed"
  /\ Grows
  /\ UNCHANGED <<accepted, wanted, claimed, lost, failed, phase>>

\* More is claimed, rightly: it was there before, or the same step puts it there.
Claim ==
  /\ ~failed /\ phase # "closed"
  /\ Grows
  /\ claimed' \in claimed + 1 .. accepted
  /\ \A p \in wanted : p < claimed' => p \in disk' \cup lost
  /\ UNCHANGED <<accepted, wanted, lost, failed, phase>>

Lose ==
  /\ ~failed /\ phase # "closed"
  /\ \E p \in claimed .. accepted - 1 :
       /\ accepted - p > LogCapacity
       /\ p \notin disk
       /\ lost' = lost \cup {p}
  /\ UNCHANGED <<accepted, wanted, claimed, disk, failed, phase>>

Fail ==
  /\ phase # "closed" /\ ~failed
  /\ failed' = TRUE
  /\ Grows
  /\ UNCHANGED <<accepted, wanted, claimed, lost, phase>>

Stop ==
  /\ phase = "open"
  /\ phase' = "closing"
  /\ UNCHANGED <<accepted, wanted, claimed, disk, lost, failed>>

\* The last call may fail, too.
Close ==
  /\ phase = "closing"
  /\ failed \/ claimed = accepted
  /\ phase' = "closed"
  /\ Grows
  /\ failed' \in {failed, TRUE}
  /\ UNCHANGED <<accepted, wanted, claimed, lost>>

Next == Accept \/ Persist \/ Claim \/ Lose \/ Fail \/ Stop \/ Close

Spec == Init /\ [][Next]_vars

\* What was accepted is claimed, and a stop ends, unless there is a failure.
FairSpec ==
  /\ Spec
  /\ WF_vars(Claim)
  /\ WF_vars(Close)
=============================================================================
