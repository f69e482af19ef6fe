------------------------------ MODULE StoreV2 ------------------------------
(***************************************************************************)
(* Shm and the registry of v2_opus, as far as they differ from Store.  The *)
(* writer stores magic with a plain store, so it may be visible before the *)
(* rest of what initialize() stores.  A strategy maps a segment without    *)
(* asking for its size, and is killed (SIGBUS) when it touches one that    *)
(* ftruncate() has not sized yet.                                          *)
(***************************************************************************)
EXTENDS Store

\* magic, at any moment of initialize(), and its end.
StoreMagic ==
  /\ wpc = "init" /\ gens \notin magic
  /\ magic' = magic \cup {gens}
  /\ UNCHANGED <<filled, count, index, head, rings, nameVars, writerVars, readerVars>>

MapStaysZero == TRUE            \* mutant: the map is not set to -1
AllStored == MagicLast

Initialized ==
  /\ wpc = "init" /\ gens \in magic /\ AllStored
  /\ mapped' = gens
  /\ wpc' = "tailer"
  /\ UNCHANGED <<memVars, nameVars, at, nextIndex, view, started, pending,
                 refused, readerVars>>

\* Stores that were executed become visible, whether or not the process is killed.
CrashV2 == (wpc = "init" /\ gens \in magic => MagicLast) /\ Crash

CreateV2 == Start \/ Unlink \/ MakeSegment \/ SizeSegment \/ CreateFails
InitializeV2 == ClearIndex \/ FillSuperblock \/ StoreMagic \/ Initialized
StartStopV2 == CreateV2 \/ InitializeV2 \/ StartTailer \/ Stop \/ CrashV2

\* register_instrument and resolve differ only in that the map is stored plain.
StoresOfV2(s) == view[s] >= 0 /\ (StoreHead(s) \/ StoreIndex(s) \/ StoreCount(s))
FeedV2 == Calls \/ \E s \in Symbols : StoresOfV2(s)

-----------------------------------------------------------------------------
(* A strategy: open(true, false) and query_latest.                         *)

\* mmap of a segment of any size.
MapUnsized(r, name, from, to) ==
  /\ rpc[r] = from
  /\ IF name = "ctrl"
     THEN ctrl' = [ctrl EXCEPT ![r] = fd[r]] /\ UNCHANGED ringMap
     ELSE ringMap' = [ringMap EXCEPT ![r] = fd[r]] /\ UNCHANGED ctrl
  /\ Moves(r, to)
  /\ UNCHANGED <<Outside, fd, asked, answer>>

\* What the step at hand is about to touch.
Touched(r) ==
  CASE rpc[r] = "check" -> <<"ctrl", ctrl[r]>>
    [] rpc[r] = "read" -> <<"rings", ringMap[r]>>

Survives(r) == Touched(r) \in sized

Killed(r) ==
  /\ rpc[r] \in {"check", "read"} /\ ~Survives(r)
  /\ Moves(r, "killed")
  /\ UNCHANGED <<Outside, fd, ctrl, ringMap, asked, answer>>

\* magic, abi_version and ring_capacity.
AnyRegion(r) == TRUE            \* mutant: the superblock is not looked at
Matches(r) == Valid(r) /\ ctrl[r] \in filled

AttachV2(r) ==
  /\ rpc[r] = "check" /\ Survives(r) /\ Matches(r)
  /\ Moves(r, "attached")
  /\ UNCHANGED <<Outside, fd, ctrl, ringMap, asked, answer>>

\* shm_open or mmap fails, or the superblock is not what it should be.
OpenFailsV2(r) ==
  /\ \/ rpc[r] \in {"mapCtrl", "rings", "mapRings"}
     \/ rpc[r] = "check" /\ Survives(r) /\ ~Matches(r)
  /\ Detach(r)

QueryRing(r) == rpc[r] = "read" /\ Survives(r) /\ ReadRing(r)

StrategyV2(r) ==
  \/ OpenSegment(r, "ctrl", "closed", "mapCtrl")
  \/ MapUnsized(r, "ctrl", "mapCtrl", "rings")
  \/ OpenSegment(r, "rings", "rings", "mapRings")
  \/ MapUnsized(r, "rings", "mapRings", "check")
  \/ AttachV2(r) \/ OpenFailsV2(r) \/ Killed(r) \/ Lookup(r) \/ QueryRing(r) \/ Close(r)

\* Another strategy process takes the place of one that was killed.
Replace(r) == rpc[r] = "killed" /\ Detach(r)

NextV2 == StartStopV2 \/ FeedV2 \/ \E r \in Strategies : StrategyV2(r) \/ Replace(r)

SpecV2 == Init /\ [][NextV2]_vars

-----------------------------------------------------------------------------
\* A strategy that was let in is not killed by its queries, if its control region
\* and its rings are of one generation, whatever is created, killed or unlinked
\* meanwhile and though nobody looks at a size: magic, plain as it is, comes after
\* every ftruncate() of its generation.
QueriesSurvive ==
  \A r \in Strategies :
    rpc[r] = "read" /\ ctrl[r] = ringMap[r] => Survives(r)

\* Nor does it get records of another symbol, unless it has looked its symbol up
\* while magic was visible and the -1 of that symbol was not: the map, zero until
\* then, led to ring 0, and no longer does.
OnlyEarlyLookupsMislead ==
  \A r \in Strategies :
    /\ Attached(r) /\ ctrl[r] = ringMap[r] /\ asked[r] # NoTick
    /\ index[ctrl[r]][asked[r].sym] = asked[r].idx
    => OwnRecords(r)

\* That cannot happen later: once initialize() is over, or its process is gone, the
\* map of a generation with magic leads each symbol to a ring of its own, assigned in
\* that generation, whichever stores of register_instrument are visible.
MapsLeadToAssigned ==
  \A g \in magic : g # gens \/ wpc # "init" =>
    \A s, t \in Known(g) :
      /\ index[g][s] >= first[g]
      /\ index[g][s] = index[g][t] => s = t
=============================================================================
