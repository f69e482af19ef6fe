--------------------------- MODULE MCSeqlockRing ---------------------------
(* Small instances of SeqlockRing and SeqlockRingV2 for TLC: a reader is   *)
(* of the library of one build, and both builds publish alike.             *)
EXTENDS SeqlockRingV2

CONSTANTS r1, w1, w2

OneReader == {r1}
TwoWords == {w1, w2}

VARIABLE build  \* whose query_latest_n the readers call

allVars == <<v2Vars, build>>

Publishes == Publish /\ UNCHANGED build
Asks(r) ==
  \/ build = "demo" /\ (Call(r) \/ Return(r)) /\ UNCHANGED <<retried, retries, build>>
  \/ build = "v2" /\ Caller(r) /\ UNCHANGED build
Reads(r) ==
  \/ build = "demo" /\ Query(r) /\ UNCHANGED <<retried, retries, build>>
  \/ build = "v2" /\ QueryLatest(r) /\ UNCHANGED build

InitBoth == InitV2 /\ build \in {"demo", "v2"}
NextBoth == Publishes \/ \E r \in Readers : Asks(r) \/ Reads(r)

\* The fairness of FairSpec and of FairSpecV2.
FairSpecBoth ==
  /\ InitBoth /\ [][NextBoth]_allVars
  /\ WF_allVars(Perform /\ UNCHANGED <<retried, retries, build>>)
  /\ \A r \in Readers : WF_allVars(Reads(r))
=============================================================================
