------------------------------ MODULE LatestN ------------------------------
(***************************************************************************)
(* What query_latest_n promises, with no slots, stores or witnesses in it: *)
(* records are published one after the other; a query takes effect at one  *)
(* instant and answers with the latest min(n, available) records at that   *)
(* instant, oldest first, unless the writer has meanwhile begun more ticks *)
(* than the ring has room for beyond them: then it may refuse.             *)
(***************************************************************************)
EXTENDS Integers

CONSTANTS RingCapacity, Readers, Depths, MaxTicks

VARIABLES begun,      \* ticks the writer has begun
          published,  \* records published
          phase,      \* "idle", "asked", "taken", then "ok" or "overwritten"
          depth,      \* the n of each query
          snap,       \* records published when it took effect
          answer      \* the records it returned, by index

vars == <<begun, published, phase, depth, snap, answer>>

NoAnswer == <<>>

CountOf(n, ws) ==
  LET avail == IF ws < RingCapacity THEN ws ELSE RingCapacity
  IN  IF n < avail THEN n ELSE avail

Latest(n, ws) == [i \in 0 .. CountOf(n, ws) - 1 |-> ws - CountOf(n, ws) + i]

Init ==
  /\ begun = 0
  /\ published = 0
  /\ phase = [r \in Readers |-> "idle"]
  /\ depth = [r \in Readers |-> 1]
  /\ snap = [r \in Readers |-> 0]
  /\ answer = [r \in Readers |-> NoAnswer]

Begin ==
  /\ begun < MaxTicks
  /\ begun' = begun + 1
  /\ UNCHANGED <<published, phase, depth, snap, answer>>

Publish ==
  /\ published < begun
  /\ published' = published + 1
  /\ UNCHANGED <<begun, phase, depth, snap, answer>>

Ask(r) ==
  /\ phase[r] = "idle"
  /\ phase' = [phase EXCEPT ![r] = "asked"]
  /\ \E n \in Depths : depth' = [depth EXCEPT ![r] = n]
  /\ UNCHANGED <<begun, published, snap, answer>>

\* The query takes effect.  With nothing published there is nothing to copy.
Take(r) ==
  /\ phase[r] = "asked"
  /\ snap' = [snap EXCEPT ![r] = published]
  /\ phase' = [phase EXCEPT ![r] = IF published = 0 THEN "ok" ELSE "taken"]
  /\ UNCHANGED <<begun, published, depth, answer>>

Answer(r) ==
  /\ phase[r] = "taken"
  /\ phase' = [phase EXCEPT ![r] = "ok"]
  /\ answer' = [answer EXCEPT ![r] = Latest(depth[r], snap[r])]
  /\ UNCHANGED <<begun, published, depth, snap>>

Refuse(r) ==
  /\ phase[r] = "taken"
  /\ begun - snap[r] > RingCapacity - CountOf(depth[r], snap[r])
  /\ phase' = [phase EXCEPT ![r] = "overwritten"]
  /\ UNCHANGED <<begun, published, depth, snap, answer>>

Return(r) ==
  /\ phase[r] \in {"ok", "overwritten"}
  /\ phase' = [phase EXCEPT ![r] = "idle"]
  /\ depth' = [depth EXCEPT ![r] = 1]
  /\ snap' = [snap EXCEPT ![r] = 0]
  /\ answer' = [answer EXCEPT ![r] = NoAnswer]
  /\ UNCHANGED <<begun, published>>

Settle(r) == Take(r) \/ Answer(r) \/ Refuse(r)

Next ==
  \/ Begin
  \/ Publish
  \/ \E r \in Readers : Ask(r) \/ Settle(r) \/ Return(r)

Spec == Init /\ [][Next]_vars

\* What was begun is published, and every query is settled.
FairSpec ==
  /\ Spec
  /\ WF_vars(Publish)
  /\ \A r \in Readers : WF_vars(Settle(r))
=============================================================================
