------------------------------- MODULE Store -------------------------------
(***************************************************************************)
(* The shared-memory store as processes meet it: ShmManager::create and    *)
(* open, DemoMd::start, stop and register_instrument, and the way from an  *)
(* instrument id to its ring in on_md and in query_latest_n.               *)
(*                                                                         *)
(* Each create() makes new segments under the same three names: a          *)
(* generation.  A process that has mapped a segment keeps that generation  *)
(* after the name is unlinked.  Memory of a new segment is zero.  A ring   *)
(* is the set of the symbols whose ticks it holds; how one ring is written *)
(* and read concurrently is SeqlockRing.  There is one writer process at a *)
(* time and any number of strategies.                                      *)
(***************************************************************************)
EXTENDS Integers, Sequences, FiniteSets

CONSTANTS Symbols,       \* the ids 0 .. kIdSpace - 1
          Capacity,      \* kInstrumentCount, rings
          Strategies,    \* the processes that call open() and query_latest_n
          MaxGens        \* bound: calls of create()

ASSUME StoreAssumption ==
  /\ Capacity \in Nat \ {0}
  /\ MaxGens \in Nat \ {0}
  /\ IsFiniteSet(Symbols)

VARIABLES link,         \* the generation each segment name stands for, 0 for none
          sized,        \* the segments that ftruncate() has given their size
          magic,        \* the generations whose Superblock.magic is stored
          filled,       \* the generations whose other Superblock fields are stored
          count,        \* Superblock.instrument_count
          index,        \* ControlRegion.index
          head,         \* the symbol_id stored in the head of each ring
          rings,        \* the symbols with ticks in each ring
          gens,         \* calls of create() so far
          first,        \* next_symbol_index_ at each of them (not in the code)
          wpc,          \* where the writer is in start()
          at,           \* the segment create() is at
          mapped,       \* the generation the writer has mapped, 0 for none
          nextIndex,    \* next_symbol_index_
          view,         \* the index as the writer's own loads see it
          started,      \* started_
          pending,      \* the tick on_md has resolved and not yet published
          refused,      \* the symbols of each generation on_md dropped a tick of
          rpc,          \* where each strategy is in open() or query_latest_n
          fd,           \* the segment its open() has a descriptor of
          ctrl,         \* the generation of its control region
          ringMap,      \* the generation of its rings
          asked,        \* the symbol and index of its query
          answer        \* the symbols of the records it was given

memVars == <<magic, filled, count, index, head, rings>>
nameVars == <<link, sized, gens, first>>
writerVars == <<wpc, at, mapped, nextIndex, view, started, pending, refused>>
readerVars == <<rpc, fd, ctrl, ringMap, asked, answer>>
vars == <<memVars, nameVars, writerVars, readerVars>>

Order == <<"ctrl", "rings", "log">>   \* in which create() and unlink() go
Segments == {"ctrl", "rings", "log"}
Gens == 1 .. MaxGens
Unregistered == -1
NoTick == [sym |-> Unregistered, idx |-> Unregistered]
NoRings == [s \in Symbols |-> Unregistered]

-----------------------------------------------------------------------------
(* DemoMd::start: create() ...                                             *)

\* The stores of register_instrument are visible.
HeadStored(s) == head[mapped][view[s]] = s
IndexStored(s) == index[mapped][s] = view[s]
Counted(s) == count[mapped] > view[s]
AllVisible ==
  \A s \in Symbols : view[s] >= 0 => HeadStored(s) /\ IndexStored(s) /\ Counted(s)

\* A new process, or a DemoMd that was stopped or failed to start and keeps its
\* next_symbol_index_; create() begins with close().
Start ==
  /\ wpc = "idle" /\ ~started /\ pending = NoTick /\ gens < MaxGens
  /\ AllVisible
  /\ nextIndex' \in {0, nextIndex}
  /\ gens' = gens + 1
  /\ first' = [first EXCEPT ![gens + 1] = nextIndex']
  /\ mapped' = 0 /\ view' = NoRings
  /\ wpc' = "unlink" /\ at' = 1
  /\ UNCHANGED <<memVars, link, sized, started, pending, refused, readerVars>>

NextSegment(last, next) ==
  IF at = Len(Order) THEN wpc' = last /\ at' = 1 ELSE wpc' = next /\ at' = at + 1

Unlink ==
  /\ wpc = "unlink"
  /\ link' = [link EXCEPT ![Order[at]] = 0]
  /\ NextSegment("make", "unlink")
  /\ UNCHANGED <<memVars, sized, gens, first, mapped, nextIndex, view, started,
                 pending, refused, readerVars>>

\* shm_open with O_CREAT; then ftruncate and mmap.
MakeSegment ==
  /\ wpc = "make"
  /\ link' = [link EXCEPT ![Order[at]] = gens]
  /\ wpc' = "size"
  /\ UNCHANGED <<memVars, sized, gens, first, at, mapped, nextIndex, view, started,
                 pending, refused, readerVars>>

SizeSegment ==
  /\ wpc = "size"
  /\ sized' = sized \cup {<<Order[at], gens>>}
  /\ NextSegment("init", "make")
  /\ UNCHANGED <<memVars, link, gens, first, mapped, nextIndex, view, started,
                 pending, refused, readerVars>>

\* shm_open, ftruncate or mmap fails: close(), and start() returns false.
CreateFails ==
  /\ wpc \in {"make", "size"}
  /\ sized' \in {sized, IF wpc = "size" THEN sized \cup {<<Order[at], gens>>} ELSE sized}
  /\ wpc' = "idle"
  /\ UNCHANGED <<memVars, link, gens, first, at, mapped, nextIndex, view, started,
                 pending, refused, readerVars>>

\* initialize(): the stores before magic, in whatever order they become visible.
ClearIndex ==
  /\ wpc = "init"
  /\ \E s \in Symbols :
       /\ index[gens][s] # Unregistered
       /\ index' = [index EXCEPT ![gens][s] = Unregistered]
  /\ UNCHANGED <<magic, filled, count, head, rings, nameVars, writerVars, readerVars>>

FillSuperblock ==
  /\ wpc = "init" /\ gens \notin filled
  /\ filled' = filled \cup {gens}
  /\ count' = [count EXCEPT ![gens] = 0]
  /\ UNCHANGED <<magic, index, head, rings, nameVars, writerVars, readerVars>>

\* magic is stored last, with release.
MagicRelaxed == TRUE            \* mutant: a relaxed store passes the others
MagicLast ==
  /\ gens \in filled
  /\ \A s \in Symbols : index[gens][s] = Unregistered

PublishMagic ==
  /\ wpc = "init" /\ MagicLast
  /\ magic' = magic \cup {gens}
  /\ mapped' = gens
  /\ wpc' = "tailer"
  /\ UNCHANGED <<filled, count, index, head, rings, nameVars, at, nextIndex,
                 view, started, pending, refused, readerVars>>

\* ... and StorageTailer::start, which may fail: the mapping is kept.
StartTailer ==
  /\ wpc = "tailer"
  /\ wpc' = "idle"
  /\ started' \in BOOLEAN
  /\ UNCHANGED <<memVars, nameVars, at, mapped, nextIndex, view, pending,
                 refused, readerVars>>

Stop ==
  /\ started /\ pending = NoTick
  /\ started' = FALSE
  /\ UNCHANGED <<memVars, nameVars, wpc, at, mapped, nextIndex, view,
                 pending, refused, readerVars>>

\* The writer process is killed, or ends: names and memory outlive it, whichever of
\* its last stores are in memory.
Crash ==
  /\ mapped # 0 \/ wpc # "idle"
  /\ wpc' = "idle" /\ at' = 1 /\ mapped' = 0
  /\ nextIndex' = 0 /\ view' = NoRings /\ started' = FALSE /\ pending' = NoTick
  /\ UNCHANGED <<memVars, nameVars, refused, readerVars>>

StartStop ==
  \/ Start \/ Unlink \/ MakeSegment \/ SizeSegment \/ CreateFails
  \/ ClearIndex \/ FillSuperblock \/ PublishMagic \/ StartTailer \/ Stop \/ Crash

-----------------------------------------------------------------------------
(* register_instrument, resolve and on_md.                                 *)

FullTooEarly == nextIndex >= Capacity - 1   \* mutant: one ring is never used
Full == nextIndex >= Capacity

Reregister(s) == FALSE                      \* mutant: the map is not consulted
Registered(s) == view[s] >= 0

\* The stores of a registration: the head of the ring (its write_seq was zero), the
\* map, the count.  They become visible one by one, and a kill may come between.
Assign(s) ==
  /\ view' = [view EXCEPT ![s] = nextIndex]
  /\ nextIndex' = nextIndex + 1

StoreHead(s) ==
  /\ ~HeadStored(s)
  /\ head' = [head EXCEPT ![mapped][view[s]] = s]
  /\ rings' = [rings EXCEPT ![mapped][view[s]] = {}]
  /\ UNCHANGED <<magic, filled, count, index, nameVars, writerVars, readerVars>>

StoreIndex(s) ==
  /\ ~IndexStored(s)
  /\ index' = [index EXCEPT ![mapped][s] = view[s]]
  /\ UNCHANGED <<magic, filled, count, head, rings, nameVars, writerVars, readerVars>>

StoreCount(s) ==
  /\ ~Counted(s)
  /\ count' = [count EXCEPT ![mapped] = view[s] + 1]
  /\ UNCHANGED <<magic, filled, index, head, rings, nameVars, writerVars, readerVars>>

\* The map is stored with release: after what was stored before.
IndexRelaxed(s) == TRUE                     \* mutant: a relaxed store passes the head
Released(s) ==
  /\ HeadStored(s)
  /\ \A t \in Symbols : view[t] \in 0 .. view[s] - 1 => IndexStored(t) /\ Counted(t)

StoresOf(s) ==
  /\ view[s] >= 0
  /\ StoreHead(s) \/ (Released(s) /\ StoreIndex(s)) \/ StoreCount(s)

\* register_instrument as a warm-up, with or without effect.
Register(s) ==
  /\ mapped # 0 /\ wpc = "idle" /\ pending = NoTick
  /\ ~Registered(s) /\ ~Full
  /\ Assign(s)
  /\ UNCHANGED <<memVars, nameVars, wpc, at, mapped, started,
                 pending, refused, readerVars>>

\* on_md up to its resolve().
Resolve(s) ==
  /\ started /\ pending = NoTick
  /\ \/ /\ Registered(s)
        /\ pending' = [sym |-> s, idx |-> view[s]]
        /\ UNCHANGED <<view, nextIndex, refused>>
     \/ /\ ~Registered(s) /\ ~Full
        /\ Assign(s)
        /\ pending' = [sym |-> s, idx |-> nextIndex]
        /\ UNCHANGED refused
     \/ /\ ~Registered(s) /\ Full
        /\ refused' = refused \cup {<<mapped, s>>}
        /\ UNCHANGED <<view, nextIndex, pending>>
  /\ UNCHANGED <<memVars, nameVars, wpc, at, mapped, started, readerVars>>

\* The record is published with release: after what was stored before.
Publish ==
  /\ pending # NoTick /\ AllVisible
  /\ rings' = [rings EXCEPT ![mapped][pending.idx] = @ \cup {pending.sym}]
  /\ pending' = NoTick
  /\ UNCHANGED <<magic, filled, count, index, head, nameVars, wpc, at, mapped,
                 nextIndex, view, started, refused, readerVars>>

Calls == Publish \/ \E s \in Symbols : Register(s) \/ Resolve(s)
Feed == Calls \/ \E s \in Symbols : StoresOf(s)

-----------------------------------------------------------------------------
(* A strategy: ShmManager::open(true, false), query_latest_n, close().     *)

Moves(r, to) == rpc' = [rpc EXCEPT ![r] = to]
Outside == <<memVars, nameVars, writerVars>>

\* close(), also where open() fails.
Detach(r) ==
  /\ Moves(r, "closed")
  /\ fd' = [fd EXCEPT ![r] = 0]
  /\ ctrl' = [ctrl EXCEPT ![r] = 0] /\ ringMap' = [ringMap EXCEPT ![r] = 0]
  /\ asked' = [asked EXCEPT ![r] = NoTick] /\ answer' = [answer EXCEPT ![r] = {}]
  /\ UNCHANGED Outside

\* shm_open, when there is a segment of that name.
OpenSegment(r, name, from, to) ==
  /\ rpc[r] = from /\ link[name] # 0
  /\ fd' = [fd EXCEPT ![r] = link[name]]
  /\ Moves(r, to)
  /\ UNCHANGED <<Outside, ctrl, ringMap, asked, answer>>

\* fstat finds the segment of its size; then mmap.
MapCtrl(r) ==
  /\ rpc[r] = "mapCtrl" /\ <<"ctrl", fd[r]>> \in sized
  /\ ctrl' = [ctrl EXCEPT ![r] = fd[r]]
  /\ Moves(r, "rings")
  /\ UNCHANGED <<Outside, fd, ringMap, asked, answer>>

MapRings(r) ==
  /\ rpc[r] = "mapRings" /\ <<"rings", fd[r]>> \in sized
  /\ ringMap' = [ringMap EXCEPT ![r] = fd[r]]
  /\ Moves(r, "check")
  /\ UNCHANGED <<Outside, fd, ctrl, asked, answer>>

\* The superblock is looked at last.
Unchecked(r) == TRUE                        \* mutant: any control region will do
Valid(r) == ctrl[r] \in magic

Attach(r) ==
  /\ rpc[r] = "check" /\ Valid(r)
  /\ Moves(r, "attached")
  /\ UNCHANGED <<Outside, fd, ctrl, ringMap, asked, answer>>

\* No segment, one too small, a call that fails, no magic.
OpenFails(r) ==
  /\ \/ rpc[r] \in {"mapCtrl", "rings", "mapRings"}
     \/ rpc[r] = "check" /\ ~Valid(r)
  /\ Detach(r)

\* The map is read: an unknown symbol is the answer.  A stale miss of the relaxed
\* load is the lookup a moment earlier.
Lookup(r) ==
  /\ rpc[r] = "attached"
  /\ \E s \in Symbols :
       LET i == index[ctrl[r]][s]
       IN  IF i \in 0 .. Capacity - 1
           THEN asked' = [asked EXCEPT ![r] = [sym |-> s, idx |-> i]] /\ Moves(r, "read")
           ELSE asked' = [asked EXCEPT ![r] = NoTick] /\ UNCHANGED rpc
  /\ answer' = [answer EXCEPT ![r] = {}]
  /\ UNCHANGED <<Outside, fd, ctrl, ringMap>>

\* Records of the ring, whichever it holds by then.
ReadRing(r) ==
  /\ rpc[r] = "read"
  /\ answer' = [answer EXCEPT ![r] = rings[ringMap[r]][asked[r].idx]]
  /\ Moves(r, "attached")
  /\ UNCHANGED <<Outside, fd, ctrl, ringMap, asked>>

Close(r) == rpc[r] = "attached" /\ Detach(r)

Strategy(r) ==
  \/ OpenSegment(r, "ctrl", "closed", "mapCtrl") \/ MapCtrl(r)
  \/ OpenSegment(r, "rings", "rings", "mapRings") \/ MapRings(r)
  \/ Attach(r) \/ OpenFails(r) \/ Lookup(r) \/ ReadRing(r) \/ Close(r)

-----------------------------------------------------------------------------
\* Nothing was ever created.
Init ==
  /\ link = [n \in Segments |-> 0] /\ sized = {}
  /\ magic = {}
  /\ filled = {} /\ count = [g \in Gens |-> 0]
  /\ index = [g \in Gens |-> [s \in Symbols |-> 0]]
  /\ head = [g \in Gens |-> [i \in 0 .. Capacity - 1 |-> Unregistered]]
  /\ rings = [g \in Gens |-> [i \in 0 .. Capacity - 1 |-> {}]]
  /\ first = [g \in Gens |-> 0]
  /\ gens = 0 /\ wpc = "idle" /\ at = 1 /\ mapped = 0
  /\ nextIndex = 0 /\ view = NoRings /\ started = FALSE
  /\ pending = NoTick /\ refused = {}
  /\ rpc = [r \in Strategies |-> "closed"]
  /\ fd = [r \in Strategies |-> 0]
  /\ ctrl = [r \in Strategies |-> 0] /\ ringMap = [r \in Strategies |-> 0]
  /\ asked = [r \in Strategies |-> NoTick]
  /\ answer = [r \in Strategies |-> {}]

Next == StartStop \/ Feed \/ \E r \in Strategies : Strategy(r)

Spec == Init /\ [][Next]_vars

-----------------------------------------------------------------------------
(* What the store promises.                                                *)

Attached(r) == rpc[r] \in {"attached", "read"}
Known(g) == {s \in Symbols : index[g][s] >= 0}

NamesTyped ==
  /\ gens \in 0 .. MaxGens
  /\ first \in [Gens -> 0 .. Capacity]
  /\ link \in [Segments -> 0 .. gens]
  /\ sized \subseteq Segments \X (1 .. gens)

MemoryTyped ==
  /\ magic \subseteq 1 .. gens
  /\ filled \subseteq 1 .. gens
  /\ count \in [Gens -> 0 .. Capacity]
  /\ index \in [Gens -> [Symbols -> Unregistered .. Capacity - 1]]
  /\ head \in [Gens -> [0 .. Capacity - 1 -> Symbols \cup {Unregistered}]]
  /\ rings \in [Gens -> [0 .. Capacity - 1 -> SUBSET Symbols]]

WriterTyped ==
  /\ wpc \in {"idle", "unlink", "make", "size", "init", "tailer"}
  /\ at \in 1 .. 3
  /\ mapped \in magic \cup {0}
  /\ nextIndex \in 0 .. Capacity
  /\ view \in [Symbols -> Unregistered .. Capacity - 1]
  /\ started \in BOOLEAN
  /\ pending \in [sym : Symbols, idx : 0 .. Capacity - 1] \cup {NoTick}
  /\ refused \subseteq magic \X Symbols

StrategiesTyped ==
  /\ rpc \in [Strategies -> {"closed", "mapCtrl", "rings", "mapRings", "check", "attached", "read"}]
  /\ fd \in [Strategies -> 0 .. gens]
  /\ ctrl \in [Strategies -> 0 .. gens]
  /\ ringMap \in [Strategies -> 0 .. gens]
  /\ asked \in [Strategies -> [sym : Symbols, idx : 0 .. Capacity - 1] \cup {NoTick}]
  /\ answer \in [Strategies -> SUBSET Symbols]

\* A strategy maps generations there have been and asks for rings there are, and
\* the writer never runs out of them.
TypeOK == NamesTyped /\ MemoryTyped /\ WriterTyped /\ StrategiesTyped

\* Magic vouches for the generation (shm_layout.h:47-48) and the map for the ring
\* (demo.cpp:55): the segments have their size, the superblock is filled, and a symbol leads to
\* a ring whose head was stored for that symbol.  Nor is the map ever ahead of
\* instrument_count by more than the last registration.  Both after any kill, too.
PublishedIsComplete ==
  \A g \in magic :
    /\ \A n \in Segments : <<n, g>> \in sized
    /\ g \in filled
    /\ \A s \in Known(g) :
         /\ head[g][index[g][s]] = s
         /\ index[g][s] <= count[g] \/ index[g][s] = first[g]

\* A ring is one symbol's in its generation, and that symbol's only ring, whatever
\* was registered up front or by a first tick, restarts included.
RingsAreSeparate ==
  \A g \in magic : \A i \in 0 .. Capacity - 1 : \A s \in rings[g][i] :
    index[g][s] = i /\ rings[g][i] = {s}

\* A query's records are of the symbol asked for (strategy_reader.h:53), if the
\* strategy has mapped one generation.
OwnRecords(r) == answer[r] \subseteq {asked[r].sym}
AnswersAreOfSymbol == \A r \in Strategies : ctrl[r] = ringMap[r] => OwnRecords(r)

\* The same of every strategy that open() has let in.
AnswersAlwaysOfSymbol == \A r \in Strategies : Attached(r) => OwnRecords(r)

\* on_md drops a symbol only when the DemoMd, as long as it lives, has assigned every
\* ring to another.
Assigned == {s \in Symbols : view[s] >= 0}
DropsOnlyWhenFull ==
  \A d \in refused : d[1] = mapped => first[mapped] + Cardinality(Assigned) = Capacity

-----------------------------------------------------------------------------
(* The inductive invariant behind these promises.                          *)

\* Memory nobody was told of is untouched, or being initialized by create().
Creation ==
  /\ wpc \in {"unlink", "make", "size", "init"} =>
       mapped = 0 /\ gens \in Gens /\ gens \notin magic /\ nextIndex = first[gens]
  /\ wpc = "tailer" => mapped # 0
  /\ started => mapped # 0 /\ wpc = "idle"
  /\ \A g \in Gens \ magic : count[g] = 0 /\ \A i \in 0 .. Capacity - 1 : rings[g][i] = {}
  /\ mapped = 0 => view = NoRings
  /\ wpc \in {"make", "size"} => \A k \in 1 .. at - 1 : <<Order[k], gens>> \in sized
  /\ wpc = "init" => \A n \in Segments : <<n, gens>> \in sized

\* The writer gives out the rings from next_symbol_index_ on, each to one symbol, and
\* what of that is visible in the map is what it gave out.
Assignment ==
  /\ \A s, t \in Assigned : view[s] = view[t] => s = t
  /\ mapped # 0 =>
       /\ first[mapped] <= nextIndex
       /\ \A s \in Assigned : view[s] \in first[mapped] .. nextIndex - 1
       /\ \A i \in first[mapped] .. nextIndex - 1 : \E s \in Assigned : view[s] = i
       /\ \A s \in Symbols : index[mapped][s] \in {Unregistered, view[s]}
  /\ pending # NoTick => mapped # 0 /\ view[pending.sym] = pending.idx

Mapping ==
  /\ Assignment
  /\ \A g \in magic : \A s, t \in Known(g) : index[g][s] = index[g][t] => s = t

\* What a strategy holds on to stays true.
Holds(r) ==
  /\ Attached(r) => ctrl[r] \in magic /\ ringMap[r] \in Gens
  /\ rpc[r] = "check" => ringMap[r] \in Gens
  /\ rpc[r] \in {"mapCtrl", "mapRings"} => fd[r] \in Gens
  /\ rpc[r] = "read" => asked[r].idx >= 0 /\ index[ctrl[r]][asked[r].sym] = asked[r].idx
  /\ ~Attached(r) => answer[r] = {}

Attachment == \A r \in Strategies : Holds(r)

StoreInv ==
  /\ TypeOK /\ Creation /\ Mapping /\ Attachment
  /\ PublishedIsComplete /\ RingsAreSeparate /\ AnswersAreOfSymbol
=============================================================================
