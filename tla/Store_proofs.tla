---------------------------- MODULE Store_proofs ----------------------------
(***************************************************************************)
(* Theorems about Store, and about StoreV2 as far as it differs, for any   *)
(* symbols, rings, strategies, generations and days.                       *)
(***************************************************************************)
EXTENDS StoreV2, FiniteSetTheorems, TLAPS

\* The segments in the order of create().
LEMMA OrderRange ==
  /\ Len(Order) = 3
  /\ \A k \in 1 .. 3 : Order[k] \in Segments
  /\ \A n \in Segments : \E k \in 1 .. 3 : Order[k] = n
  BY DEF Order, Segments

-----------------------------------------------------------------------------
(* Types.                                                                  *)

\* What is not a strategy's: names, memory and the writer.
SharedTyped == NamesTyped /\ MemoryTyped /\ WriterTyped

\* Before there is a mapping, create() is at a generation there is.
Numbered == wpc \in {"unlink", "make", "size", "init"} => gens \in Gens

\* What the writer has resolved, it has a mapping for.
Published == (started => mapped # 0) /\ (pending # NoTick => mapped # 0)

\* A map without a symbol.
LEMMA NoRingsTyped ==
  /\ NoRings \in [Symbols -> Unregistered .. Capacity - 1]
  /\ \A s \in Symbols : ~(NoRings[s] >= 0)
  BY StoreAssumption DEF NoRings, Unregistered

\* Steps that are not a strategy's, at most a generation more.
LEMMA StrategiesStayTyped ==
  ASSUME StrategiesTyped, NamesTyped, NamesTyped', UNCHANGED readerVars, gens <= gens'
  PROVE  StrategiesTyped'
  <1>1. gens \in Nat /\ gens' \in Nat
    BY StoreAssumption DEF NamesTyped
  <1> QED  BY <1>1 DEF StrategiesTyped, readerVars

\* start() up to initialize().
LEMMA CreateTyped ==
  ASSUME SharedTyped, Numbered, Start \/ Unlink \/ MakeSegment \/ SizeSegment \/ CreateFails
  PROVE  SharedTyped' /\ gens <= gens'
  <1> USE StoreAssumption, OrderRange DEF memVars, nameVars, Gens
  <1>1. NamesTyped /\ MemoryTyped /\ WriterTyped /\ gens \in Nat /\ MaxGens \in Nat
    BY DEF SharedTyped, NamesTyped
  <1>2. UNCHANGED <<magic, filled, count, index, head, rings, readerVars>>
    BY DEF Start, Unlink, MakeSegment, SizeSegment, CreateFails
  <1>3. gens' \in {gens, gens + 1} /\ gens' <= MaxGens
    BY <1>1 DEF Start, Unlink, MakeSegment, SizeSegment, CreateFails, NamesTyped
  <1>4. NamesTyped'
    <2>1. CASE Start
      <3>1. gens' = gens + 1 /\ gens + 1 \in Gens /\ UNCHANGED <<link, sized>>
        BY <1>1, <2>1 DEF Start, NamesTyped
      <3>2. nextIndex' \in 0 .. Capacity
        BY <1>1, <2>1 DEF Start, WriterTyped
      <3>3. first' \in [Gens -> 0 .. Capacity]
        BY <1>1, <2>1, <3>1, <3>2 DEF Start, NamesTyped
      <3> QED  BY <1>1, <1>2, <1>3, <3>1, <3>3 DEF NamesTyped
    <2>2. CASE Unlink \/ MakeSegment
      <3>1. PICK g \in {0, gens} : link' = [link EXCEPT ![Order[at]] = g]
        BY <2>2 DEF Unlink, MakeSegment
      <3>2. link \in [Segments -> 0 .. gens] /\ g \in 0 .. gens
        BY <1>1 DEF NamesTyped
      <3>3. link' \in [Segments -> 0 .. gens]
        BY <3>1, <3>2
      <3>4. UNCHANGED <<gens, first, sized>>
        BY <1>2, <2>2 DEF Unlink, MakeSegment
      <3> QED  BY <1>1, <3>3, <3>4 DEF NamesTyped
    <2>4. CASE SizeSegment \/ CreateFails
      <3>1. <<Order[at], gens>> \in Segments \X (1 .. gens) \/ wpc = "idle"
        BY <1>1, <2>4 DEF WriterTyped, Numbered, SizeSegment, CreateFails
      <3>2. sized' \subseteq sized \cup {<<Order[at], gens>>} /\ UNCHANGED <<gens, first, link>>
            /\ wpc # "idle"
        BY <1>2, <2>4 DEF SizeSegment, CreateFails
      <3> QED  BY <1>1, <3>1, <3>2 DEF NamesTyped
    <2> QED  BY <2>1, <2>2, <2>4
  <1>5. WriterTyped'
    <2>1. CASE Start
      BY <1>1, <1>2, <2>1, NoRingsTyped DEF Start, WriterTyped, NamesTyped
    <2>2. CASE Unlink
      BY <1>1, <1>2, <2>2 DEF Unlink, WriterTyped, NextSegment
    <2>3. CASE MakeSegment
      BY <1>1, <1>2, <2>3 DEF MakeSegment, WriterTyped
    <2>4. CASE SizeSegment
      BY <1>1, <1>2, <2>4 DEF SizeSegment, WriterTyped, NextSegment
    <2>5. CASE CreateFails
      BY <1>1, <1>2, <2>5 DEF CreateFails, WriterTyped
    <2> QED  BY <2>1, <2>2, <2>3, <2>4, <2>5
  <1>6. MemoryTyped'
    BY <1>1, <1>2, <1>3 DEF MemoryTyped
  <1> QED  BY <1>1, <1>3, <1>4, <1>5, <1>6 DEF SharedTyped

\* initialize() and the end of start(), stop() and the end of the process.
LEMMA InitializeTyped ==
  ASSUME SharedTyped, Numbered,
         ClearIndex \/ FillSuperblock \/ StartTailer \/ Stop \/ Crash
  PROVE  SharedTyped' /\ UNCHANGED <<gens, readerVars>>
  <1> USE StoreAssumption DEF memVars, nameVars, Gens, readerVars
  <1>1. NamesTyped /\ MemoryTyped /\ WriterTyped /\ gens \in Nat
    BY DEF SharedTyped, NamesTyped
  <1>2. UNCHANGED <<gens, link, sized, readerVars>>
    BY DEF ClearIndex, FillSuperblock, StartTailer, Stop, Crash
  <1>4. NamesTyped'
    BY <1>1, <1>2 DEF NamesTyped, ClearIndex, FillSuperblock, StartTailer, Stop, Crash
  <1>5. WriterTyped'
    <2>1. CASE ClearIndex \/ FillSuperblock
      BY <1>1, <2>1 DEF ClearIndex, FillSuperblock, writerVars, WriterTyped
    <2>3. CASE StartTailer
      BY <1>1, <2>3 DEF StartTailer, WriterTyped
    <2>4. CASE Stop
      BY <1>1, <2>4 DEF Stop, WriterTyped
    <2>5. CASE Crash
      <3>1. /\ wpc' = "idle" /\ at' = 1 /\ mapped' = 0 /\ nextIndex' = 0
            /\ view' = NoRings /\ started' = FALSE /\ pending' = NoTick
            /\ UNCHANGED <<magic, refused>>
        BY <2>5 DEF Crash
      <3>2. 1 \in 1 .. 3 /\ 0 \in 0 .. Capacity
        OBVIOUS
      <3> QED  BY <1>1, <3>1, <3>2, NoRingsTyped DEF WriterTyped
    <2> QED  BY <2>1, <2>3, <2>4, <2>5
  <1>6. MemoryTyped'
    <2>0. wpc = "init" => gens \in Gens
      BY DEF Numbered
    <2>1. CASE ClearIndex
      <3>1. PICK s \in Symbols : index' = [index EXCEPT ![gens][s] = Unregistered]
        BY <2>1 DEF ClearIndex
      <3>2. gens \in Gens /\ index \in [Gens -> [Symbols -> Unregistered .. Capacity - 1]]
        BY <1>1, <2>0, <2>1 DEF ClearIndex, MemoryTyped
      <3>3. [index[gens] EXCEPT ![s] = Unregistered] \in [Symbols -> Unregistered .. Capacity - 1]
        <4>1. Unregistered \in Unregistered .. Capacity - 1
          BY DEF Unregistered
        <4> QED  BY <3>2, <4>1
      <3>4. index' \in [Gens -> [Symbols -> Unregistered .. Capacity - 1]]
        BY <3>1, <3>2, <3>3
      <3> QED  BY <1>1, <1>2, <2>1, <3>4 DEF ClearIndex, MemoryTyped
    <2>2. CASE FillSuperblock
      <3>1. filled' \subseteq 1 .. gens /\ count' \in [Gens -> 0 .. Capacity]
        <4>1. 0 \in 0 .. Capacity /\ gens \in 1 .. gens
          BY <1>1, <2>0, <2>2 DEF FillSuperblock
        <4> QED  BY <1>1, <2>2, <4>1 DEF FillSuperblock, MemoryTyped
      <3> QED  BY <1>1, <1>2, <2>2, <3>1 DEF FillSuperblock, MemoryTyped
    <2>4. CASE StartTailer \/ Stop \/ Crash
      BY <1>1, <1>2, <2>4 DEF StartTailer, Stop, Crash, MemoryTyped
    <2> QED  BY <2>1, <2>2, <2>4
  <1> QED  BY <1>2, <1>4, <1>5, <1>6 DEF SharedTyped

\* magic is of a generation there is, and is what a mapping waits for.
LEMMA PublishMagicTyped ==
  ASSUME SharedTyped, Numbered, PublishMagic
  PROVE  SharedTyped' /\ UNCHANGED <<gens, readerVars>>
  <1> USE StoreAssumption DEF nameVars, Gens, readerVars
  <1>1. NamesTyped /\ MemoryTyped /\ WriterTyped /\ gens \in 1 .. gens
    BY DEF SharedTyped, Numbered, NamesTyped, PublishMagic
  <1>2. NamesTyped' /\ WriterTyped'
    BY <1>1 DEF PublishMagic, NamesTyped, WriterTyped
  <1>3. MemoryTyped'
    BY <1>1 DEF PublishMagic, MemoryTyped
  <1> QED  BY <1>2, <1>3 DEF SharedTyped, PublishMagic

\* A ring that is assigned is one there is.
LEMMA AssignTyped ==
  ASSUME SharedTyped, mapped # 0, ~Full, NEW s \in Symbols, Assign(s)
  PROVE  /\ view' \in [Symbols -> Unregistered .. Capacity - 1]
         /\ \A t \in Symbols : view'[t] = IF t = s THEN nextIndex ELSE view[t]
         /\ nextIndex' \in 0 .. Capacity /\ nextIndex' = nextIndex + 1
         /\ nextIndex \in 0 .. Capacity - 1
         /\ mapped \in magic /\ mapped \in Gens
  <1>1. /\ MemoryTyped /\ mapped \in magic /\ nextIndex \in 0 .. Capacity
        /\ view \in [Symbols -> Unregistered .. Capacity - 1]
        /\ gens \in 0 .. MaxGens /\ MaxGens \in Nat /\ Capacity \in Nat
    BY StoreAssumption DEF SharedTyped, WriterTyped, NamesTyped
  <1>2. mapped \in Gens /\ nextIndex \in 0 .. Capacity - 1 /\ nextIndex + 1 \in 0 .. Capacity
    BY <1>1 DEF MemoryTyped, Gens, Full
  <1>3. nextIndex \in Unregistered .. Capacity - 1
    BY <1>1, <1>2 DEF Unregistered
  <1> QED  BY <1>1, <1>2, <1>3 DEF Assign

\* What one store of register_instrument changes, in v2 too: one cell of the mapped
\* generation.
LEMMA StoreFacts ==
  ASSUME SharedTyped, mapped = 0 => view = NoRings, NEW s \in Symbols, StoresOfV2(s)
  PROVE  /\ mapped # 0 /\ mapped \in magic /\ mapped \in Gens
         /\ view[s] \in 0 .. Capacity - 1 /\ Capacity \in Nat
         /\ UNCHANGED <<magic, filled, nameVars, writerVars, readerVars>>
         /\ \A g \in Gens : g # mapped => /\ index'[g] = index[g] /\ rings'[g] = rings[g]
                                         /\ count'[g] = count[g] /\ head'[g] = head[g]
         /\ \A t \in Symbols : t # s => index'[mapped][t] = index[mapped][t]
         /\ \/ UNCHANGED index
            \/ index'[mapped][s] = view[s] /\ index[mapped][s] # view[s] /\ StoreIndex(s)
         /\ \/ UNCHANGED count
            \/ count'[mapped] = view[s] + 1 /\ ~Counted(s)
         /\ \/ UNCHANGED <<head, rings>>
            \/ /\ head[mapped][view[s]] # s
               /\ \A i \in 0 .. Capacity - 1 :
                    /\ head'[mapped][i] = IF i = view[s] THEN s ELSE head[mapped][i]
                    /\ rings'[mapped][i] = IF i = view[s] THEN {} ELSE rings[mapped][i]
  <1>1. /\ count \in [Gens -> 0 .. Capacity]
        /\ index \in [Gens -> [Symbols -> Unregistered .. Capacity - 1]]
        /\ head \in [Gens -> [0 .. Capacity - 1 -> Symbols \cup {Unregistered}]]
        /\ rings \in [Gens -> [0 .. Capacity - 1 -> SUBSET Symbols]]
        /\ view \in [Symbols -> Unregistered .. Capacity - 1]
        /\ magic \subseteq 1 .. gens /\ gens \in 0 .. MaxGens /\ mapped \in magic \cup {0}
    BY DEF SharedTyped, MemoryTyped, WriterTyped, NamesTyped
  <1>2. mapped # 0
    BY NoRingsTyped DEF StoresOfV2
  <1>3. /\ mapped \in magic /\ mapped \in Gens
        /\ view[s] \in 0 .. Capacity - 1 /\ Capacity \in Nat
    BY <1>1, <1>2, StoreAssumption DEF StoresOfV2, Gens, Unregistered
  <1>4. CASE StoreHead(s)
    BY <1>1, <1>2, <1>3, <1>4 DEF StoreHead, HeadStored
  <1>5. CASE StoreIndex(s)
    BY <1>1, <1>2, <1>3, <1>5 DEF StoreIndex, IndexStored
  <1>6. CASE StoreCount(s)
    BY <1>1, <1>2, <1>3, <1>6 DEF StoreCount
  <1> QED  BY <1>4, <1>5, <1>6 DEF StoresOfV2

\* The stores of a registration.
LEMMA StoresTyped ==
  ASSUME SharedTyped, mapped = 0 => view = NoRings, NEW s \in Symbols, StoresOfV2(s)
  PROVE  SharedTyped' /\ UNCHANGED <<gens, readerVars>>
  <1> USE DEF nameVars, writerVars
  <1>1. /\ UNCHANGED <<magic, filled, nameVars, writerVars, readerVars>>
        /\ mapped \in Gens /\ view[s] \in 0 .. Capacity - 1 /\ Capacity \in Nat
    BY StoreFacts
  <1>2. NamesTyped' /\ WriterTyped'
    BY <1>1 DEF SharedTyped, NamesTyped, WriterTyped
  <1>3. view[s] \in Unregistered .. Capacity - 1 /\ view[s] + 1 \in 0 .. Capacity
    BY <1>1 DEF Unregistered
  <1>4. /\ count \in [Gens -> 0 .. Capacity]
        /\ index \in [Gens -> [Symbols -> Unregistered .. Capacity - 1]]
        /\ head \in [Gens -> [0 .. Capacity - 1 -> Symbols \cup {Unregistered}]]
        /\ rings \in [Gens -> [0 .. Capacity - 1 -> SUBSET Symbols]]
    BY DEF SharedTyped, MemoryTyped
  <1>5. /\ count' \in [Gens -> 0 .. Capacity]
        /\ index' \in [Gens -> [Symbols -> Unregistered .. Capacity - 1]]
        /\ head' \in [Gens -> [0 .. Capacity - 1 -> Symbols \cup {Unregistered}]]
        /\ rings' \in [Gens -> [0 .. Capacity - 1 -> SUBSET Symbols]]
    <2>1. CASE StoreHead(s)
      BY <1>1, <1>4, <2>1 DEF StoreHead
    <2>2. CASE StoreIndex(s)
      BY <1>1, <1>3, <1>4, <2>2 DEF StoreIndex
    <2>3. CASE StoreCount(s)
      BY <1>1, <1>3, <1>4, <2>3 DEF StoreCount
    <2> QED  BY <2>1, <2>2, <2>3 DEF StoresOfV2
  <1>6. MemoryTyped'
    BY <1>1, <1>5 DEF SharedTyped, MemoryTyped
  <1> QED  BY <1>1, <1>2, <1>6 DEF SharedTyped

\* Registration and on_md.
LEMMA CallsTyped ==
  ASSUME SharedTyped, Published, Calls
  PROVE  SharedTyped' /\ UNCHANGED <<gens, readerVars>>
  <1> USE DEF readerVars, nameVars, memVars
  <1>1. NamesTyped /\ MemoryTyped /\ WriterTyped
    BY DEF SharedTyped
  <1>2. UNCHANGED <<gens, first, link, sized, magic, filled, readerVars>>
    BY DEF Calls, Publish, Register, Resolve
  <1>3. NamesTyped'
    BY <1>1, <1>2 DEF NamesTyped
  <1>4. mapped # 0 => mapped \in Gens
    BY <1>1, StoreAssumption DEF WriterTyped, MemoryTyped, NamesTyped, Gens
  <1>5. CASE Publish
    <2>1. /\ pending \in [sym : Symbols, idx : 0 .. Capacity - 1] /\ mapped \in Gens
          /\ rings \in [Gens -> [0 .. Capacity - 1 -> SUBSET Symbols]]
      BY <1>1, <1>4, <1>5 DEF Publish, WriterTyped, Published, MemoryTyped
    <2>2. rings' \in [Gens -> [0 .. Capacity - 1 -> SUBSET Symbols]]
      BY <1>5, <2>1 DEF Publish
    <2>3. MemoryTyped'
      BY <1>1, <1>2, <1>5, <2>2 DEF Publish, MemoryTyped
    <2>4. WriterTyped'
      BY <1>1, <1>2, <1>5 DEF Publish, WriterTyped
    <2> QED  BY <1>2, <1>3, <2>3, <2>4 DEF SharedTyped
  <1>6. ASSUME NEW s \in Symbols, Register(s) \/ Resolve(s)
        PROVE  SharedTyped'
    <2>1. mapped # 0 /\ UNCHANGED <<memVars, wpc, at, mapped, started>>
      BY <1>6 DEF Register, Resolve, Published
    <2>2. MemoryTyped'
      BY <1>1, <1>2, <2>1 DEF MemoryTyped
    <2>3. CASE Assign(s) /\ ~Full /\ UNCHANGED refused
               /\ (pending' = pending \/ pending' = [sym |-> s, idx |-> nextIndex])
      <3>1. /\ nextIndex' \in 0 .. Capacity /\ nextIndex \in 0 .. Capacity - 1
            /\ view' \in [Symbols -> Unregistered .. Capacity - 1]
        BY <2>1, <2>3, AssignTyped
      <3>2. WriterTyped'
        BY <1>1, <1>2, <2>1, <2>3, <3>1 DEF WriterTyped
      <3> QED  BY <1>3, <2>2, <3>2 DEF SharedTyped
    <2>4. CASE /\ UNCHANGED <<view, nextIndex>>
               /\ \/ pending' = pending
                  \/ Registered(s) /\ pending' = [sym |-> s, idx |-> view[s]]
               /\ \/ UNCHANGED refused
                  \/ refused' = refused \cup {<<mapped, s>>}
      <3>1. Registered(s) => view[s] \in 0 .. Capacity - 1
        <4>1. view[s] \in Unregistered .. Capacity - 1
          BY <1>1 DEF WriterTyped
        <4> QED  BY <4>1, StoreAssumption DEF Registered, Unregistered
      <3>2. refused' \subseteq magic \X Symbols
        <4>1. mapped \in magic
          BY <1>1, <2>1 DEF WriterTyped
        <4> QED  BY <1>1, <2>4, <4>1 DEF WriterTyped
      <3>3. WriterTyped'
        BY <1>1, <1>2, <2>1, <2>4, <3>1, <3>2 DEF WriterTyped
      <3> QED  BY <1>3, <2>2, <3>3 DEF SharedTyped
    <2> QED  BY <1>6, <2>3, <2>4 DEF Register, Resolve
  <1> QED  BY <1>2, <1>5, <1>6 DEF Calls

\* Strategies write nothing but their own locals.
LEMMA StrategyTyped ==
  ASSUME TypeOK, Attachment, NEW r \in Strategies, Strategy(r)
  PROVE  TypeOK'
  <1>1. NamesTyped /\ MemoryTyped /\ WriterTyped /\ StrategiesTyped
    BY DEF TypeOK
  <1>2. UNCHANGED Outside
    BY DEF Strategy, OpenSegment, MapCtrl, MapRings, Attach, OpenFails, Detach, Lookup, ReadRing, Close
  <1>3. NamesTyped' /\ MemoryTyped' /\ WriterTyped'
    BY <1>1, <1>2 DEF Outside, nameVars, memVars, writerVars, NamesTyped, MemoryTyped, WriterTyped
  <1>4. UNCHANGED gens
    BY <1>2 DEF Outside, nameVars
  <1>5. StrategiesTyped'
    <2> USE <1>1, <1>4 DEF StrategiesTyped, Moves
    <2>1. ASSUME NEW name \in Segments, NEW from,
                 NEW to \in {"mapCtrl", "mapRings"}, OpenSegment(r, name, from, to)
          PROVE  StrategiesTyped'
      BY <2>1 DEF OpenSegment, NamesTyped
    <2>2. CASE MapCtrl(r)
      BY <2>2 DEF MapCtrl
    <2>3. CASE MapRings(r)
      BY <2>3 DEF MapRings
    <2>4. CASE Attach(r)
      BY <2>4 DEF Attach
    <2>5. CASE Detach(r)
      BY <2>5, StoreAssumption DEF Detach, NamesTyped
    <2>6. CASE Lookup(r)
      BY <2>6 DEF Lookup
    <2>7. CASE ReadRing(r)
      <3>1. ringMap[r] \in Gens /\ asked[r].idx \in 0 .. Capacity - 1
        BY <2>7 DEF ReadRing, Attachment, Holds, Attached, NoTick, Unregistered
      <3>2. \A g \in Gens, i \in 0 .. Capacity - 1 : rings[g][i] \in SUBSET Symbols
        <4>1. rings \in [Gens -> [0 .. Capacity - 1 -> SUBSET Symbols]]
          BY <1>1 DEF MemoryTyped
        <4> HIDE <1>1, <1>4 DEF StrategiesTyped
        <4> QED  BY ONLY <4>1
      <3>3. rings[ringMap[r]][asked[r].idx] \in SUBSET Symbols
        BY <3>1, <3>2
      <3> QED  BY <2>7, <3>3 DEF ReadRing
    <2> QED
      BY <2>1, <2>2, <2>3, <2>4, <2>5, <2>6, <2>7 DEF Strategy, OpenFails, Close, Segments
  <1> QED  BY <1>3, <1>5 DEF TypeOK

-----------------------------------------------------------------------------
(* The inductive step.                                                     *)

Promises == PublishedIsComplete /\ RingsAreSeparate /\ AnswersAreOfSymbol

\* What no generation with magic notices, nobody notices.
LEMMA QuietKeeps ==
  ASSUME Attachment, Promises, UNCHANGED <<magic, readerVars>>, sized \subseteq sized',
         \A g \in magic : /\ g \in filled => g \in filled'
                          /\ count'[g] = count[g] /\ first'[g] = first[g]
                          /\ index'[g] = index[g] /\ rings'[g] = rings[g]
                          /\ head'[g] = head[g]
  PROVE  Attachment' /\ Promises'
  <1> USE DEF readerVars
  <1>1. Attachment'
    BY DEF Attachment, Holds, Attached
  <1>2. PublishedIsComplete'
    <2>1. \A g \in magic : Known(g)' = Known(g)
      BY DEF Known
    <2> QED  BY <2>1 DEF Promises, PublishedIsComplete, Known
  <1>3. RingsAreSeparate'
    BY DEF Promises, RingsAreSeparate
  <1>4. AnswersAreOfSymbol'
    BY DEF Promises, AnswersAreOfSymbol, OwnRecords
  <1> QED  BY <1>1, <1>2, <1>3, <1>4 DEF Promises

\* A new generation gets its number before it has magic.
LEMMA NewGeneration ==
  ASSUME NamesTyped, MemoryTyped
  PROVE  /\ gens \in Nat /\ gens + 1 \notin magic
         /\ gens < MaxGens => gens + 1 \in Gens
         /\ \A g \in magic : g \in Gens
  BY StoreAssumption DEF NamesTyped, MemoryTyped, Gens

\* A map that stays as it is still leads every symbol to a ring of its own.
LEMMA MapStays ==
  ASSUME Mapping, magic' \subseteq magic, \A g \in magic : index'[g] = index[g]
  PROVE  \A g \in magic' : \A s, t \in Known(g)' : index'[g][s] = index'[g][t] => s = t
  BY DEF Mapping, Known

\* Nor does the writer's view change without register_instrument.
LEMMA AssignmentStays ==
  ASSUME Assignment,
         \/ /\ UNCHANGED <<view, mapped, nextIndex, pending>>
            /\ mapped # 0 => first'[mapped] = first[mapped] /\ index'[mapped] = index[mapped]
         \/ mapped' = 0 /\ view' = NoRings /\ pending' = NoTick
  PROVE  Assignment'
  <1>1. CASE /\ UNCHANGED <<view, mapped, nextIndex, pending>>
             /\ mapped # 0 => first'[mapped] = first[mapped] /\ index'[mapped] = index[mapped]
    BY <1>1 DEF Assignment, Assigned
  <1>2. CASE mapped' = 0 /\ view' = NoRings /\ pending' = NoTick
    <2>1. Assigned' = {}
      BY <1>2, NoRingsTyped DEF Assigned
    <2> QED  BY <1>2, <2>1 DEF Assignment
  <1> QED  BY <1>1, <1>2

\* Of create() and close(), all but initialize() leaves memory alone.
LEMMA CreateKeeps ==
  ASSUME StoreInv, Start \/ Unlink \/ MakeSegment \/ SizeSegment \/ CreateFails
  PROVE  Creation' /\ Mapping' /\ Attachment' /\ Promises'
  <1> USE DEF memVars, nameVars
  <1>1. TypeOK /\ Creation /\ Mapping /\ Attachment /\ Promises
    BY DEF StoreInv, Promises
  <1>2. UNCHANGED <<magic, filled, count, index, head, rings, readerVars>> /\ sized \subseteq sized'
    BY DEF Start, Unlink, MakeSegment, SizeSegment, CreateFails
  <1>6. \A g \in magic : first'[g] = first[g]
    BY <1>1, NewGeneration DEF Start, Unlink, MakeSegment, SizeSegment, CreateFails, TypeOK,
                               NamesTyped
  <1>3. Attachment' /\ Promises'
    BY <1>1, <1>2, <1>6, QuietKeeps
  <1>4. Mapping'
    <2>1. \/ UNCHANGED <<mapped, nextIndex, view, pending, first>>
          \/ mapped' = 0 /\ view' = NoRings /\ pending' = NoTick
      BY DEF Start, Unlink, MakeSegment, SizeSegment, CreateFails
    <2>2. Assignment'
      BY <1>1, <1>2, <2>1, AssignmentStays DEF Mapping
    <2> QED  BY <1>1, <1>2, <2>2, MapStays DEF Mapping
  <1>5. Creation'
    <2> USE <1>1, OrderRange DEF Creation, TypeOK, WriterTyped
    <2>1. CASE Start
      <3>1. first'[gens'] = nextIndex' /\ gens' \in Gens /\ gens' \notin magic
        BY <2>1, NewGeneration DEF Start, NamesTyped
      <3> QED  BY <1>2, <2>1, <3>1 DEF Start
    <2>2. CASE Unlink
      BY <1>2, <2>2 DEF Unlink, NextSegment
    <2>3. CASE MakeSegment
      BY <1>2, <2>3 DEF MakeSegment
    <2>4. CASE SizeSegment
      <3>1. at \in 1 .. 3 /\ sized' = sized \cup {<<Order[at], gens>>} /\ wpc = "size"
            /\ UNCHANGED <<gens, mapped, started, nextIndex, view, first>>
        BY <2>4 DEF SizeSegment
      <3>2. \A k \in 1 .. at : <<Order[k], gens'>> \in sized'
        BY <3>1
      <3>3. CASE at = 3
        BY <1>2, <2>4, <3>1, <3>2, <3>3 DEF SizeSegment, NextSegment
      <3>4. CASE at # 3
        BY <1>2, <2>4, <3>1, <3>2, <3>4 DEF SizeSegment, NextSegment
      <3> QED  BY <3>3, <3>4
    <2>5. CASE CreateFails
      BY <1>2, <2>5 DEF CreateFails
    <2> QED  BY <2>1, <2>2, <2>3, <2>4, <2>5
  <1> QED  BY <1>3, <1>4, <1>5

\* initialize() writes to the generation that has no magic yet.
LEMMA InitializeKeeps ==
  ASSUME StoreInv, ClearIndex \/ FillSuperblock
  PROVE  Creation' /\ Mapping' /\ Attachment' /\ Promises'
  <1> USE DEF nameVars, writerVars, readerVars
  <1>1. TypeOK /\ Creation /\ Mapping /\ Attachment /\ Promises /\ gens \in Gens \ magic
        /\ mapped = 0 /\ pending = NoTick
    BY DEF StoreInv, Promises, Creation, Mapping, Assignment, ClearIndex, FillSuperblock
  <1>2. UNCHANGED <<magic, head, rings, sized, gens, first, writerVars, readerVars>>
        /\ filled \subseteq filled'
    BY DEF ClearIndex, FillSuperblock
  <1>3. \A g \in Gens : g # gens => count'[g] = count[g] /\ index'[g] = index[g]
    BY <1>1 DEF ClearIndex, FillSuperblock, TypeOK, MemoryTyped
  <1>4. count'[gens] = 0
    BY <1>1 DEF ClearIndex, FillSuperblock, TypeOK, MemoryTyped, Creation
  <1>8. \A g \in magic : count'[g] = count[g] /\ index'[g] = index[g]
    BY <1>1, <1>3, NewGeneration DEF TypeOK
  <1>5. Attachment' /\ Promises'
    BY <1>1, <1>2, <1>8, QuietKeeps DEF TypeOK
  <1>6. Mapping'
    <2>1. Assignment'
      BY <1>1, <1>2, AssignmentStays DEF Mapping
    <2> QED  BY <1>1, <1>2, <1>8, <2>1, MapStays DEF Mapping
  <1>7. Creation'
    BY <1>1, <1>2, <1>3, <1>4 DEF Creation
  <1> QED  BY <1>5, <1>6, <1>7

\* With magic the generation is complete, and still empty.
LEMMA PublishMagicKeeps ==
  ASSUME StoreInv, PublishMagic
  PROVE  Creation' /\ Mapping' /\ Attachment' /\ Promises'
  <1> USE DEF nameVars, readerVars
  <1>1. TypeOK /\ Creation /\ Mapping /\ Attachment /\ Promises /\ gens \in Gens \ magic
        /\ pending = NoTick /\ ~started /\ view = NoRings /\ nextIndex = first[gens]
    BY DEF StoreInv, Promises, Creation, Mapping, Assignment, PublishMagic
  <1>2. /\ UNCHANGED <<filled, count, index, head, rings, sized, gens, first, started,
                       nextIndex, view, pending, readerVars>>
        /\ magic' = magic \cup {gens} /\ mapped' = gens /\ wpc' = "tailer"
    BY DEF PublishMagic
  <1>3. \A s \in Symbols : index[gens][s] = Unregistered
    BY DEF PublishMagic, MagicLast
  <1>4. count[gens] = 0 /\ \A i \in 0 .. Capacity - 1 : rings[gens][i] = {}
    BY <1>1 DEF Creation
  <1>5. Attachment'
    BY <1>1, <1>2 DEF Attachment, Holds, Attached
  <1>6. PublishedIsComplete'
    <2>1. gens \in filled /\ Known(gens)' = {}
      BY <1>2, <1>3 DEF PublishMagic, MagicLast, Known, Unregistered
    <2>2. \A n \in Segments : <<n, gens>> \in sized
      BY <1>1 DEF PublishMagic, Creation
    <2>3. \A g \in magic : Known(g)' = Known(g)
      BY <1>2 DEF Known
    <2> QED  BY <1>1, <1>2, <2>1, <2>2, <2>3 DEF Promises, PublishedIsComplete
  <1>7. RingsAreSeparate'
    BY <1>1, <1>2, <1>4 DEF Promises, RingsAreSeparate
  <1>8. AnswersAreOfSymbol'
    BY <1>1, <1>2 DEF Promises, AnswersAreOfSymbol, OwnRecords
  <1>9. Mapping'
    <2>1. nextIndex \in Nat /\ Assigned' = {}
      BY <1>1, <1>2, NoRingsTyped, StoreAssumption DEF TypeOK, WriterTyped, Assigned
    <2>2. Assignment'
      BY <1>1, <1>2, <1>3, <2>1 DEF Assignment
    <2>3. Known(gens)' = {}
      BY <1>2, <1>3 DEF Known, Unregistered
    <2>4. \A g \in magic : Known(g)' = Known(g)
      BY <1>2 DEF Known
    <2> QED  BY <1>1, <1>2, <2>2, <2>3, <2>4 DEF Mapping
  <1>10. Creation'
    BY <1>1, <1>2, NewGeneration DEF Creation, Gens, TypeOK
  <1> QED  BY <1>5, <1>6, <1>7, <1>8, <1>9, <1>10 DEF Promises

\* The tailer, stop() and a crash leave the store as it is.
LEMMA StopKeeps ==
  ASSUME StoreInv, StartTailer \/ Stop \/ Crash
  PROVE  Creation' /\ Mapping' /\ Attachment' /\ Promises'
  <1> USE DEF memVars, nameVars, writerVars
  <1>1. TypeOK /\ Creation /\ Mapping /\ Attachment /\ Promises
    BY DEF StoreInv, Promises
  <1>2. UNCHANGED <<magic, filled, count, index, head, rings, sized, gens, first, readerVars>>
    BY DEF StartTailer, Stop, Crash
  <1>3. Attachment' /\ Promises'
    BY <1>1, <1>2, QuietKeeps
  <1>4. Mapping'
    <2>1. \/ UNCHANGED <<mapped, nextIndex, view, pending>>
          \/ mapped' = 0 /\ view' = NoRings /\ pending' = NoTick
      BY DEF StartTailer, Stop, Crash
    <2>2. Assignment'
      BY <1>1, <1>2, <2>1, AssignmentStays DEF Mapping
    <2> QED  BY <1>1, <1>2, <2>2, MapStays DEF Mapping
  <1>5. Creation'
    BY <1>1, <1>2 DEF Creation, StartTailer, Stop, Crash
  <1> QED  BY <1>3, <1>4, <1>5

\* A new symbol gets the next ring, which is nobody's.
LEMMA AssignKeeps ==
  ASSUME SharedTyped, Assignment, mapped # 0, ~Full, NEW s \in Symbols, ~Registered(s),
         Assign(s), UNCHANGED <<mapped, first, index>>,
         pending' = NoTick \/ pending' = [sym |-> s, idx |-> nextIndex]
  PROVE  Assignment'
  <1>1. /\ \A t \in Symbols : view'[t] = IF t = s THEN nextIndex ELSE view[t]
        /\ nextIndex' = nextIndex + 1 /\ nextIndex \in Nat /\ mapped \in Gens
    BY AssignTyped, StoreAssumption
  <1>2. first[mapped] \in Nat /\ \A t \in Symbols : view[t] \in Int /\ index[mapped][t] \in Int
    BY <1>1, StoreAssumption DEF SharedTyped, NamesTyped, MemoryTyped, WriterTyped, Unregistered
  <1>3. s \notin Assigned /\ Assigned' = Assigned \cup {s}
    BY <1>1, <1>2 DEF Assigned, Registered
  <1>4. /\ \A t \in Assigned : view[t] \in first[mapped] .. nextIndex - 1
        /\ \A i \in first[mapped] .. nextIndex - 1 : \E t \in Assigned : view[t] = i
        /\ \A t \in Symbols : index[mapped][t] \in {Unregistered, view[t]}
    BY DEF Assignment
  <1>5. first[mapped] <= nextIndex
    BY DEF Assignment
  <1>6. \A t, u \in Assigned' : view'[t] = view'[u] => t = u
    BY <1>1, <1>2, <1>3, <1>4 DEF Assignment, Assigned
  <1>7. \A t \in Assigned' : view'[t] \in first[mapped] .. nextIndex' - 1
    BY <1>1, <1>2, <1>3, <1>4, <1>5 DEF Assigned
  <1>8. ASSUME NEW i \in first[mapped] .. nextIndex' - 1
        PROVE  \E t \in Assigned' : view'[t] = i
    <2>1. CASE i = nextIndex
      BY <1>1, <1>3, <2>1
    <2>2. CASE i # nextIndex
      <3>1. i \in first[mapped] .. nextIndex - 1
        BY <1>1, <1>2, <2>2
      <3>2. PICK t \in Assigned : view[t] = i
        BY <1>4, <3>1
      <3> QED  BY <1>1, <1>3, <3>2 DEF Assigned
    <2> QED  BY <2>1, <2>2
  <1>9. \A t \in Symbols : index'[mapped][t] \in {Unregistered, view'[t]}
    <2>1. index[mapped][s] = Unregistered
      BY <1>2, <1>4 DEF Registered, Unregistered, SharedTyped, WriterTyped
    <2> QED  BY <1>1, <1>4, <2>1
  <1> QED  BY <1>1, <1>2, <1>5, <1>6, <1>7, <1>8, <1>9 DEF Assignment

\* register_instrument and resolve() store nothing yet.
LEMMA RegisterKeeps ==
  ASSUME SharedTyped, Assignment, mapped # 0, NEW s \in Symbols, Register(s) \/ Resolve(s)
  PROVE  /\ Assignment'
         /\ UNCHANGED <<memVars, nameVars, wpc, at, mapped, started, readerVars>>
  <1> USE DEF nameVars, memVars
  <1>1. UNCHANGED <<memVars, nameVars, wpc, at, mapped, started, readerVars>>
    BY DEF Register, Resolve
  <1>2. CASE /\ ~Registered(s) /\ ~Full /\ Assign(s)
             /\ pending' = NoTick \/ pending' = [sym |-> s, idx |-> nextIndex]
    BY <1>1, <1>2, AssignKeeps
  <1>3. CASE /\ UNCHANGED <<view, nextIndex>>
             /\ pending' = pending \/ pending' = [sym |-> s, idx |-> view[s]]
    BY <1>1, <1>3 DEF Assignment, Assigned
  <1> QED  BY <1>1, <1>2, <1>3 DEF Register, Resolve

\* A store of register_instrument shows what the writer gave out, in v2 too: what was
\* known stays, what becomes known is in the view.
LEMMA StoreShows ==
  ASSUME SharedTyped, Assignment, mapped = 0 => view = NoRings, NEW s \in Symbols,
         StoresOfV2(s)
  PROVE  /\ Assignment'
         /\ \A t \in Known(mapped) : index'[mapped][t] = index[mapped][t]
         /\ \A t \in Symbols : index'[mapped][t] >= 0 =>
              index'[mapped][t] = view[t] /\ t \in Assigned
         /\ \A t, u \in Symbols :
              index'[mapped][t] = index'[mapped][u] /\ index'[mapped][t] >= 0 => t = u
  <1> USE DEF writerVars, nameVars
  <1>1. /\ mapped # 0 /\ mapped \in Gens /\ view[s] \in 0 .. Capacity - 1
        /\ UNCHANGED <<nameVars, writerVars>>
        /\ \A t \in Symbols : t # s => index'[mapped][t] = index[mapped][t]
        /\ UNCHANGED index \/ (index'[mapped][s] = view[s] /\ index[mapped][s] # view[s])
    BY StoreFacts
  <1>2. \A t \in Symbols : index[mapped][t] \in {Unregistered, view[t]}
    BY <1>1 DEF Assignment
  <1>3. \A t \in Symbols : index'[mapped][t] \in {Unregistered, view[t]}
    BY <1>1, <1>2
  <1>4. \A t \in Known(mapped) : index'[mapped][t] = index[mapped][t]
    BY <1>1, <1>2 DEF Known, Unregistered
  <1>5. \A t \in Symbols : index'[mapped][t] >= 0 =>
          index'[mapped][t] = view[t] /\ t \in Assigned
    BY <1>3 DEF Assigned, Unregistered
  <1>6. Assignment'
    BY <1>1, <1>3 DEF Assignment, Assigned
  <1>7. \A t, u \in Symbols :
          index'[mapped][t] = index'[mapped][u] /\ index'[mapped][t] >= 0 => t = u
    BY <1>5 DEF Assignment
  <1> QED  BY <1>4, <1>5, <1>6, <1>7

\* A published record goes to the ring the map leads to.
LEMMA PublishFacts ==
  ASSUME SharedTyped, Assignment, Publish
  PROVE  /\ mapped # 0 /\ mapped \in magic /\ mapped \in Gens
         /\ pending.sym \in Symbols /\ pending.idx \in 0 .. Capacity - 1
         /\ index[mapped][pending.sym] = pending.idx
         /\ head[mapped][pending.idx] = pending.sym
         /\ UNCHANGED <<magic, filled, count, index, head, nameVars, wpc, at, mapped,
                        nextIndex, view, started, readerVars>>
         /\ pending' = NoTick
         /\ \A g \in Gens : g # mapped => rings'[g] = rings[g]
         /\ \A i \in 0 .. Capacity - 1 : rings'[mapped][i] =
              IF i = pending.idx THEN rings[mapped][i] \cup {pending.sym} ELSE rings[mapped][i]
  <1>1. /\ pending.sym \in Symbols /\ pending.idx \in 0 .. Capacity - 1
        /\ mapped \in magic /\ mapped \in Gens /\ view[pending.sym] = pending.idx /\ mapped # 0
    BY NewGeneration DEF Publish, SharedTyped, WriterTyped, Assignment
  <1>2. index[mapped][pending.sym] = pending.idx /\ head[mapped][pending.idx] = pending.sym
    <2>1. view[pending.sym] >= 0
      BY <1>1, StoreAssumption
    <2> QED  BY <1>1, <2>1 DEF Publish, AllVisible, IndexStored, HeadStored
  <1>3. rings \in [Gens -> [0 .. Capacity - 1 -> SUBSET Symbols]]
    BY DEF SharedTyped, MemoryTyped
  <1>4. /\ \A g \in Gens : g # mapped => rings'[g] = rings[g]
        /\ \A i \in 0 .. Capacity - 1 : rings'[mapped][i] =
             IF i = pending.idx THEN rings[mapped][i] \cup {pending.sym} ELSE rings[mapped][i]
    BY <1>1, <1>3 DEF Publish
  <1> QED  BY <1>1, <1>2, <1>4 DEF Publish

\* The symbols in the rings.
LEMMA RingSymbols ==
  ASSUME SharedTyped
  PROVE  \A g \in magic, i \in 0 .. Capacity - 1 : \A t \in rings[g][i] : t \in Symbols
  <1>1. rings \in [Gens -> [0 .. Capacity - 1 -> SUBSET Symbols]]
    BY DEF SharedTyped, MemoryTyped
  <1>2. \A g \in Gens, i \in 0 .. Capacity - 1 : rings[g][i] \subseteq Symbols
    BY ONLY <1>1
  <1>3. \A g \in magic : g \in Gens
    BY NewGeneration DEF SharedTyped
  <1> QED  BY <1>2, <1>3

\* on_md and register_instrument, but for the stores of the latter.
LEMMA CallsKeep ==
  ASSUME StoreInv, Calls
  PROVE  Creation' /\ Mapping' /\ Attachment' /\ Promises'
  <1> USE DEF nameVars, memVars
  <1>1. TypeOK /\ SharedTyped /\ Creation /\ Mapping /\ Assignment /\ Attachment /\ Promises
    BY DEF StoreInv, Promises, TypeOK, SharedTyped, Mapping
  <1>2. mapped # 0 /\ mapped \in magic
    BY <1>1 DEF Calls, Publish, Register, Resolve, Creation, Assignment, TypeOK, WriterTyped
  <1>3. CASE Publish
    <2>1. /\ mapped \in magic /\ pending.sym \in Symbols /\ pending.idx \in 0 .. Capacity - 1
          /\ index[mapped][pending.sym] = pending.idx
          /\ UNCHANGED <<magic, filled, count, index, head, nameVars, wpc, at, mapped,
                         nextIndex, view, started, readerVars>>
          /\ pending' = NoTick
          /\ \A g \in Gens : g # mapped => rings'[g] = rings[g]
          /\ \A i \in 0 .. Capacity - 1 : rings'[mapped][i] =
               IF i = pending.idx THEN rings[mapped][i] \cup {pending.sym} ELSE rings[mapped][i]
      BY <1>1, <1>3, PublishFacts
    <2>2. \A g \in magic : g \in Gens
      BY <1>1, NewGeneration DEF TypeOK
    <2>3. RingsAreSeparate'
      <3> SUFFICES ASSUME NEW g \in magic, NEW i \in 0 .. Capacity - 1, NEW t \in rings'[g][i]
                   PROVE  index[g][t] = i /\ rings'[g][i] = {t}
        BY <2>1 DEF RingsAreSeparate
      <3>1. \A u \in rings[g][i] : u \in Symbols /\ index[g][u] = i /\ rings[g][i] = {u}
        BY <1>1, RingSymbols DEF Promises, RingsAreSeparate
      <3>2. CASE g = mapped /\ i = pending.idx
        <4>1. \A u \in rings[g][i] : u = pending.sym
          BY <1>1, <2>1, <3>1, <3>2, StoreAssumption DEF Mapping, Known
        <4>2. rings'[g][i] = {pending.sym}
          BY <2>1, <3>2, <4>1
        <4> QED  BY <2>1, <3>2, <4>2
      <3>3. CASE g # mapped \/ i # pending.idx
        BY <2>1, <2>2, <3>1, <3>3
      <3> QED  BY <3>2, <3>3
    <2>4. PublishedIsComplete' /\ AnswersAreOfSymbol'
      BY <1>1, <2>1 DEF Promises, PublishedIsComplete, Known, AnswersAreOfSymbol, OwnRecords,
                        readerVars
    <2>5. Attachment'
      BY <1>1, <2>1 DEF Attachment, Holds, Attached, readerVars
    <2>6. Mapping'
      <3>1. Assignment'
        BY <1>1, <2>1 DEF Assignment, Assigned
      <3> QED  BY <1>1, <2>1, <3>1, MapStays DEF Mapping
    <2>7. Creation'
      BY <1>1, <2>1 DEF Creation
    <2> QED  BY <2>3, <2>4, <2>5, <2>6, <2>7 DEF Promises
  <1>4. ASSUME NEW s \in Symbols, Register(s) \/ Resolve(s)
        PROVE  Creation' /\ Mapping' /\ Attachment' /\ Promises'
    <2>1. Assignment' /\ UNCHANGED <<memVars, nameVars, wpc, at, mapped, started, readerVars>>
      BY <1>1, <1>2, <1>4, RegisterKeeps
    <2>2. Attachment' /\ Promises'
      BY <1>1, <2>1, QuietKeeps
    <2>3. Mapping'
      BY <1>1, <2>1, MapStays DEF Mapping
    <2>4. Creation'
      <3>1. wpc \in {"idle"}
        BY <1>1, <1>4 DEF Register, Resolve, Creation
      <3> QED  BY <1>1, <1>2, <2>1, <3>1 DEF Creation
    <2> QED  BY <2>2, <2>3, <2>4
  <1> QED  BY <1>3, <1>4 DEF Calls

\* The stores of register_instrument, of which the map is after the head, and after
\* the count of the registration before.
LEMMA StoresKeep ==
  ASSUME StoreInv, NEW s \in Symbols, StoresOf(s)
  PROVE  Creation' /\ Mapping' /\ Attachment' /\ Promises'
  <1> USE DEF nameVars, writerVars
  <1>1. SharedTyped /\ Creation /\ Mapping /\ Assignment /\ Attachment /\ Promises
        /\ StrategiesTyped /\ StoresOfV2(s) /\ (\A g \in magic : g \in Gens)
    BY NewGeneration
    DEF StoreInv, Promises, TypeOK, SharedTyped, Mapping, StoresOf, StoresOfV2
  <1>2. /\ mapped # 0 /\ mapped \in magic /\ mapped \in Gens
        /\ view[s] \in 0 .. Capacity - 1 /\ Capacity \in Nat
        /\ UNCHANGED <<magic, filled, nameVars, writerVars, readerVars>>
        /\ \A g \in Gens : g # mapped => /\ index'[g] = index[g] /\ rings'[g] = rings[g]
                                        /\ count'[g] = count[g] /\ head'[g] = head[g]
        /\ \A t \in Symbols : t # s => index'[mapped][t] = index[mapped][t]
        /\ \/ UNCHANGED count
           \/ count'[mapped] = view[s] + 1 /\ ~Counted(s)
        /\ \/ UNCHANGED <<head, rings>>
           \/ \A i \in 0 .. Capacity - 1 :
                /\ head'[mapped][i] = IF i = view[s] THEN s ELSE head[mapped][i]
                /\ rings'[mapped][i] = IF i = view[s] THEN {} ELSE rings[mapped][i]
    BY <1>1, StoreFacts DEF Creation
  <1>3. /\ Assignment'
        /\ \A t \in Known(mapped) : index'[mapped][t] = index[mapped][t]
        /\ \A t \in Symbols : index'[mapped][t] >= 0 =>
             index'[mapped][t] = view[t] /\ t \in Assigned
        /\ \A t, u \in Symbols :
             index'[mapped][t] = index'[mapped][u] /\ index'[mapped][t] >= 0 => t = u
    BY <1>1, StoreShows DEF Creation
  <1>4. UNCHANGED index \/ (Released(s) /\ UNCHANGED <<count, head>>)
    BY DEF StoresOf, StoreHead, StoreIndex, StoreCount
  <1>5. Mapping'
    <2> SUFFICES ASSUME NEW g \in magic, NEW t \in Known(g)', NEW u \in Known(g)',
                        index'[g][t] = index'[g][u]
                 PROVE  t = u
      BY <1>2, <1>3 DEF Mapping
    <2>1. CASE g = mapped
      BY <1>3, <2>1 DEF Known
    <2>2. CASE g # mapped
      BY <1>1, <1>2, <2>2 DEF Mapping, Known
    <2> QED  BY <2>1, <2>2
  <1>6. /\ count[mapped] \in Int /\ count'[mapped] \in Int /\ first[mapped] \in Int
        /\ count[mapped] <= count'[mapped]
    BY <1>1, <1>2, StoreAssumption DEF SharedTyped, MemoryTyped, NamesTyped, Counted
  <1>7. ASSUME NEW t \in Symbols, index'[mapped][t] >= 0
        PROVE  /\ head'[mapped][index'[mapped][t]] = t
               /\ index'[mapped][t] <= count'[mapped] \/ index'[mapped][t] = first'[mapped]
    <2>1. index'[mapped][t] = view[t] /\ t \in Assigned /\ view[t] \in 0 .. Capacity - 1
          /\ s \in Assigned /\ view[t] \in Int
      BY <1>1, <1>2, <1>3, <1>7 DEF Assigned, SharedTyped, WriterTyped, Unregistered
    <2>2. CASE index[mapped][t] = view[t]
      <3>1. t \in Known(mapped)
        BY <1>7, <2>1, <2>2 DEF Known
      <3>2. /\ head[mapped][view[t]] = t
            /\ view[t] <= count[mapped] \/ view[t] = first[mapped]
        BY <1>1, <1>2, <2>2, <3>1 DEF Promises, PublishedIsComplete
      <3>3. head'[mapped][view[t]] = t
        <4>1. view[t] = view[s] => t = s
          BY <1>1, <2>1 DEF Assignment
        <4> QED  BY <1>2, <2>1, <3>2, <4>1
      <3> QED  BY <1>2, <1>6, <2>1, <3>2, <3>3
    <2>3. CASE index[mapped][t] # view[t]
      <3>1. t = s /\ Released(s) /\ UNCHANGED <<count, head>>
        BY <1>2, <1>4, <2>1, <2>3
      <3>2. head'[mapped][view[t]] = t
        BY <3>1 DEF Released, HeadStored
      <3>3. ASSUME view[s] # first[mapped]
            PROVE  view[s] <= count[mapped]
        <4>1. view[s] \in first[mapped] .. nextIndex - 1 /\ nextIndex \in Int
              /\ first[mapped] \in Nat
          BY <1>1, <1>2, <2>1, StoreAssumption
          DEF Assignment, SharedTyped, WriterTyped, NamesTyped
        <4>2. view[s] - 1 \in first[mapped] .. nextIndex - 1
          BY <1>2, <3>3, <4>1
        <4>3. PICK u \in Assigned : view[u] = view[s] - 1
          BY <1>1, <1>2, <4>2 DEF Assignment
        <4>4. view[u] \in 0 .. view[s] - 1
          BY <1>2, <4>1, <4>2, <4>3
        <4>5. count[mapped] > view[u]
          BY <3>1, <4>3, <4>4 DEF Released, Counted, Assigned
        <4> QED  BY <1>2, <1>6, <4>3, <4>5
      <3> QED  BY <1>2, <2>1, <3>1, <3>2, <3>3
    <2> QED  BY <2>2, <2>3
  <1>8. PublishedIsComplete'
    <2> SUFFICES ASSUME NEW g \in magic
                 PROVE  /\ \A n \in Segments : <<n, g>> \in sized
                        /\ g \in filled
                        /\ \A t \in Known(g)' :
                             /\ head'[g][index'[g][t]] = t
                             /\ index'[g][t] <= count'[g] \/ index'[g][t] = first'[g]
      BY <1>2 DEF PublishedIsComplete
    <2>1. CASE g = mapped
      BY <1>1, <1>2, <1>7, <2>1 DEF Promises, PublishedIsComplete, Known
    <2>2. CASE g # mapped
      BY <1>1, <1>2, <2>2 DEF Promises, PublishedIsComplete, Known
    <2> QED  BY <2>1, <2>2
  <1>9. RingsAreSeparate'
    <2> SUFFICES ASSUME NEW g \in magic, NEW i \in 0 .. Capacity - 1, NEW t \in rings'[g][i]
                 PROVE  index'[g][t] = i /\ rings'[g][i] = {t}
      BY <1>2 DEF RingsAreSeparate
    <2>1. CASE g = mapped
      <3>1. t \in rings[mapped][i] /\ rings'[mapped][i] = rings[mapped][i]
        BY <1>2, <2>1
      <3>2. t \in Symbols /\ index[mapped][t] = i /\ rings[mapped][i] = {t}
        BY <1>1, <1>2, <3>1, RingSymbols DEF Promises, RingsAreSeparate
      <3>3. t \in Known(mapped)
        BY <3>2 DEF Known
      <3> QED  BY <1>3, <2>1, <3>1, <3>2, <3>3
    <2>2. CASE g # mapped
      BY <1>1, <1>2, <2>2 DEF Promises, RingsAreSeparate
    <2> QED  BY <2>1, <2>2
  <1>10. AnswersAreOfSymbol'
    BY <1>1, <1>2 DEF Promises, AnswersAreOfSymbol, OwnRecords, readerVars
  <1>11. Attachment'
    <2> SUFFICES ASSUME NEW r \in Strategies
                 PROVE  Holds(r)'
      BY DEF Attachment
    <2>1. Holds(r) /\ UNCHANGED <<rpc, fd, ctrl, ringMap, asked, answer, magic>>
      BY <1>1, <1>2 DEF Attachment, readerVars
    <2>2. ASSUME rpc[r] = "read"
          PROVE  index'[ctrl[r]][asked[r].sym] = asked[r].idx
      <3>1. /\ ctrl[r] \in magic /\ asked[r].idx >= 0
            /\ index[ctrl[r]][asked[r].sym] = asked[r].idx
        BY <2>1, <2>2 DEF Holds, Attached
      <3>2. asked[r] # NoTick /\ asked[r].sym \in Symbols
        BY <1>1, <3>1 DEF StrategiesTyped, NoTick, Unregistered
      <3>3. CASE ctrl[r] = mapped
        BY <1>3, <3>1, <3>2, <3>3 DEF Known
      <3>4. CASE ctrl[r] # mapped
        BY <1>1, <1>2, <3>1, <3>4
      <3> QED  BY <3>3, <3>4
    <2> QED  BY <2>1, <2>2 DEF Holds, Attached
  <1>12. Creation'
    BY <1>1, <1>2 DEF Creation
  <1> QED  BY <1>5, <1>8, <1>9, <1>10, <1>11, <1>12 DEF Promises

\* A strategy writes to no shared memory, so only what it holds can change.
LEMMA StrategyKeeps ==
  ASSUME StoreInv, NEW r \in Strategies, Strategy(r)
  PROVE  Creation' /\ Mapping' /\ Attachment' /\ Promises'
  <1>1. TypeOK /\ Creation /\ Mapping /\ Attachment /\ Promises
    BY DEF StoreInv, Promises
  <1>2. UNCHANGED Outside
    BY DEF Strategy, OpenSegment, MapCtrl, MapRings, Attach, OpenFails, Detach, Lookup, ReadRing, Close
  <1>3. Creation' /\ Mapping' /\ PublishedIsComplete' /\ RingsAreSeparate'
    BY <1>1, <1>2 DEF Outside, nameVars, memVars, writerVars, Creation, Mapping, Promises,
                      Assignment, Assigned, PublishedIsComplete, Known, RingsAreSeparate
  <1>4. UNCHANGED <<magic, index, rings, gens, link, sized>>
    BY <1>2 DEF Outside, nameVars, memVars
  <1>5. StrategiesTyped /\ Holds(r) /\ NamesTyped
    BY <1>1 DEF TypeOK, Attachment
  <1>6. \A q \in Strategies : q # r =>
          /\ rpc'[q] = rpc[q] /\ fd'[q] = fd[q] /\ ctrl'[q] = ctrl[q]
          /\ ringMap'[q] = ringMap[q] /\ asked'[q] = asked[q] /\ answer'[q] = answer[q]
    BY <1>5 DEF StrategiesTyped, Strategy, OpenSegment, MapCtrl, MapRings, Attach, OpenFails,
                Detach, Lookup, ReadRing, Close, Moves
  <1>7. Holds(r)' /\ (ctrl'[r] = ringMap'[r] => OwnRecords(r)')
    <2> USE <1>4, <1>5 DEF StrategiesTyped, Moves, Holds, Attached, OwnRecords
    <2>1. ASSUME OpenSegment(r, "ctrl", "closed", "mapCtrl") \/ OpenSegment(r, "rings", "rings", "mapRings")
          PROVE  Holds(r)' /\ OwnRecords(r)'
      <3>1. PICK n \in Segments : fd'[r] = link[n] /\ link[n] # 0
        BY <2>1 DEF OpenSegment, Segments
      <3>2. fd'[r] \in Gens
        BY <3>1, StoreAssumption DEF NamesTyped, Gens
      <3> QED  BY <2>1, <3>2 DEF OpenSegment
    <2>2. CASE MapCtrl(r)
      BY <2>2 DEF MapCtrl
    <2>3. CASE MapRings(r)
      BY <2>3 DEF MapRings
    <2>4. CASE Attach(r)
      BY <2>4 DEF Attach, Valid
    <2>5. CASE Detach(r)
      BY <2>5 DEF Detach
    <2>6. CASE Lookup(r)
      BY <2>6, StoreAssumption DEF Lookup
    <2>7. CASE ReadRing(r)
      <3>1. /\ ctrl[r] \in magic /\ asked[r].idx >= 0 /\ asked[r] # NoTick
            /\ index[ctrl[r]][asked[r].sym] = asked[r].idx
        BY <2>7 DEF ReadRing, NoTick, Unregistered
      <3>2. asked[r].sym \in Symbols /\ asked[r].idx \in 0 .. Capacity - 1
        BY <3>1
      <3>3. answer'[r] = rings[ringMap[r]][asked[r].idx]
        BY <2>7 DEF ReadRing
      <3>4. ASSUME ctrl[r] = ringMap[r]
            PROVE  answer'[r] \subseteq {asked[r].sym}
        <4>1. rings[ctrl[r]] \in [0 .. Capacity - 1 -> SUBSET Symbols]
          BY <1>1, <3>1, NewGeneration DEF TypeOK, MemoryTyped
        <4>2. PICK i \in 0 .. Capacity - 1 : i = asked[r].idx
          BY <3>2
        <4>3. rings[ctrl[r]][i] \subseteq Symbols
          BY ONLY <4>1, <4>2
        <4>4. \A t \in rings[ctrl[r]][i] : index[ctrl[r]][t] = i
          BY <1>1, <3>1 DEF Promises, RingsAreSeparate
        <4>5. \A t \in answer'[r] : t \in Symbols /\ index[ctrl[r]][t] = asked[r].idx
          BY <3>3, <3>4, <4>2, <4>3, <4>4
        <4> QED  BY <1>1, <3>1, <3>2, <4>5 DEF Mapping, Known
      <3>5. Holds(r)'
        BY <2>7 DEF ReadRing
      <3>6. UNCHANGED <<ctrl, ringMap, asked>>
        BY <2>7 DEF ReadRing
      <3> QED  BY <3>4, <3>5, <3>6
    <2> QED
      BY <2>1, <2>2, <2>3, <2>4, <2>5, <2>6, <2>7 DEF Strategy, OpenFails, Close
  <1>8. Attachment'
    BY <1>1, <1>4, <1>6, <1>7 DEF Attachment, Holds, Attached
  <1>9. AnswersAreOfSymbol'
    BY <1>1, <1>6, <1>7 DEF Promises, AnswersAreOfSymbol, OwnRecords
  <1> QED  BY <1>3, <1>8, <1>9 DEF Promises

-----------------------------------------------------------------------------
(* The theorems.                                                           *)

\* An empty store has nothing to promise.
LEMMA StoreInitially == Init => StoreInv
  <1> SUFFICES ASSUME Init
               PROVE  StoreInv
    OBVIOUS
  <1> USE StoreAssumption DEF Init, NoTick, Unregistered, Gens
  <1>1. NamesTyped /\ StrategiesTyped
    BY DEF NamesTyped, StrategiesTyped
  <1>2. MemoryTyped
    BY DEF MemoryTyped
  <1>3. WriterTyped
    <2>1. 0 \in 0 .. Capacity /\ 1 \in 1 .. 3 /\ 1 \in 1 .. 1
      OBVIOUS
    <2>2. pending = NoTick
      BY DEF Init
    <2> QED  BY <2>1, <2>2, NoRingsTyped DEF WriterTyped
  <1>4. Creation /\ Mapping
    <2>1. Assigned = {}
      BY NoRingsTyped DEF Assigned
    <2> QED  BY <2>1 DEF Creation, Mapping, Assignment
  <1>5. Attachment /\ PublishedIsComplete /\ RingsAreSeparate /\ AnswersAreOfSymbol
    BY DEF Attachment, Holds, Attached, PublishedIsComplete, RingsAreSeparate,
           AnswersAreOfSymbol, OwnRecords
  <1> QED  BY <1>1, <1>2, <1>3, <1>4, <1>5 DEF StoreInv, TypeOK

\* Every step of the writer and of the strategies keeps the invariant.
LEMMA StoreInductive == StoreInv /\ [Next]_vars => StoreInv'
  <1> SUFFICES ASSUME StoreInv, [Next]_vars
               PROVE  StoreInv'
    OBVIOUS
  <1>1. TypeOK /\ Creation /\ Mapping /\ Attachment /\ Promises
    BY DEF StoreInv, Promises
  <1>0. SharedTyped /\ Numbered /\ Published /\ gens <= gens
    BY <1>1 DEF TypeOK, SharedTyped, NamesTyped, Creation, Mapping, Assignment, Numbered,
                Published
  <1>2. CASE Start \/ Unlink \/ MakeSegment \/ SizeSegment \/ CreateFails
    <2>1. readerVars' = readerVars
      BY <1>2 DEF Start, Unlink, MakeSegment, SizeSegment, CreateFails
    <2>2. TypeOK'
      BY <1>1, <1>2, <1>0, <2>1, CreateTyped, StrategiesStayTyped DEF TypeOK, SharedTyped
    <2> QED  BY <1>2, <2>2, CreateKeeps DEF StoreInv, Promises
  <1>3. CASE ClearIndex \/ FillSuperblock
    BY <1>1, <1>3, <1>0, InitializeTyped, InitializeKeeps, StrategiesStayTyped
    DEF StoreInv, Promises, TypeOK, SharedTyped
  <1>4. CASE PublishMagic
    BY <1>1, <1>4, <1>0, PublishMagicTyped, PublishMagicKeeps, StrategiesStayTyped
    DEF StoreInv, Promises, TypeOK, SharedTyped
  <1>5. CASE StartTailer \/ Stop \/ Crash
    BY <1>1, <1>5, <1>0, InitializeTyped, StopKeeps, StrategiesStayTyped
    DEF StoreInv, Promises, TypeOK, SharedTyped
  <1>6. CASE Calls
    BY <1>1, <1>6, <1>0, CallsTyped, CallsKeep, StrategiesStayTyped
    DEF StoreInv, Promises, TypeOK, SharedTyped
  <1>9. ASSUME NEW s \in Symbols, StoresOf(s)
        PROVE  StoreInv'
    <2>1. StoresOfV2(s) /\ (mapped = 0 => view = NoRings)
      BY <1>1, <1>9 DEF StoresOf, StoresOfV2, Creation
    <2>2. SharedTyped' /\ UNCHANGED <<gens, readerVars>>
      BY <1>0, <2>1, StoresTyped
    <2>3. TypeOK'
      BY <1>1, <1>0, <2>2, StrategiesStayTyped DEF TypeOK, SharedTyped
    <2> QED  BY <1>9, <2>3, StoresKeep DEF StoreInv, Promises
  <1>7. CASE \E r \in Strategies : Strategy(r)
    BY <1>1, <1>7, StrategyTyped, StrategyKeeps DEF StoreInv, Promises
  <1>8. CASE UNCHANGED vars
    <2> USE <1>8 DEF vars, memVars, nameVars, writerVars, readerVars
    <2>1. TypeOK' /\ Creation'
      BY <1>1 DEF TypeOK, NamesTyped, MemoryTyped, WriterTyped, StrategiesTyped, Creation
    <2>2. Mapping' /\ Attachment'
      BY <1>1 DEF Mapping, Assignment, Assigned, Known, Attachment, Holds, Attached
    <2>3. Promises'
      BY <1>1 DEF Promises, PublishedIsComplete, Known, RingsAreSeparate, AnswersAreOfSymbol,
                  OwnRecords
    <2> QED  BY <2>1, <2>2, <2>3 DEF StoreInv, Promises
  <1> QED
    BY <1>2, <1>3, <1>4, <1>5, <1>6, <1>7, <1>8, <1>9 DEF Next, StartStop, Feed

\* The invariant of create(), register_instrument, open() and query_latest_n, for
\* any number of symbols, rings, strategies and restarts.
THEOREM StoreInvariant == Spec => []StoreInv
  BY StoreInitially, StoreInductive, PTL DEF Spec

\* Strategies map generations there have been, rings asked for are rings there are.
THEOREM StoreTypeCorrect == Spec => []TypeOK
  <1>1. StoreInv => TypeOK
    BY DEF StoreInv
  <1> QED  BY <1>1, StoreInvariant, PTL

\* What magic vouches for, whatever the order of the stores before it.
THEOREM MagicVouches == Spec => []PublishedIsComplete
  <1>1. StoreInv => PublishedIsComplete
    BY DEF StoreInv
  <1> QED  BY <1>1, StoreInvariant, PTL

\* No two symbols ever share a ring of one generation.
THEOREM NoSharedRing == Spec => []RingsAreSeparate
  <1>1. StoreInv => RingsAreSeparate
    BY DEF StoreInv
  <1> QED  BY <1>1, StoreInvariant, PTL

\* A strategy whose two mappings agree gets records of the symbol it names.
THEOREM OwnAnswers == Spec => []AnswersAreOfSymbol
  <1>1. StoreInv => AnswersAreOfSymbol
    BY DEF StoreInv
  <1> QED  BY <1>1, StoreInvariant, PTL

-----------------------------------------------------------------------------
(* Refusals.                                                               *)

\* Every ring below next_symbol_index_ was given away before this start() or is some
\* symbol's.
RegistryInv ==
  /\ mapped # 0 => nextIndex = first[mapped] + Cardinality(Assigned)
  /\ DropsOnlyWhenFull

\* One symbol more has a ring.
LEMMA AssignedGrows ==
  ASSUME SharedTyped, mapped # 0, ~Full, NEW s \in Symbols, ~Registered(s), Assign(s)
  PROVE  /\ Cardinality(Assigned) \in Nat
         /\ Cardinality(Assigned') = Cardinality(Assigned) + 1
  <1>1. /\ \A t \in Symbols : view'[t] = IF t = s THEN nextIndex ELSE view[t]
        /\ nextIndex \in 0 .. Capacity - 1
    BY AssignTyped
  <1>2. Assigned \subseteq Symbols /\ s \notin Assigned
    BY DEF Assigned, Registered
  <1>3. IsFiniteSet(Assigned)
    BY <1>2, StoreAssumption, FS_Subset
  <1>4. Assigned' = Assigned \cup {s}
    BY <1>1, StoreAssumption DEF Assigned
  <1>5. Cardinality(Assigned \cup {s}) = Cardinality(Assigned) + 1
    BY <1>2, <1>3, FS_AddElement
  <1>6. Cardinality(Assigned) \in Nat
    BY <1>3, FS_CardinalityType
  <1> QED  BY <1>4, <1>5, <1>6

\* Steps that publish no generation and register no symbol.
LEMMA RegistryStays ==
  ASSUME StoreInv, RegistryInv,
         Start \/ Unlink \/ MakeSegment \/ SizeSegment \/ CreateFails \/ ClearIndex
         \/ FillSuperblock \/ StartTailer \/ Stop \/ Crash \/ Publish
         \/ (\E s \in Symbols : StoresOf(s))
         \/ (\E r \in Strategies : Strategy(r)) \/ UNCHANGED vars
  PROVE  RegistryInv'
  <1> USE DEF memVars, nameVars, writerVars
  <1>1. \A d \in refused : d[1] # 0
    BY DEF StoreInv, TypeOK, MemoryTyped, WriterTyped, NamesTyped
  <1>2. CASE Start \/ Crash
    <2>1. mapped' = 0 /\ UNCHANGED refused
      BY <1>2 DEF Start, Crash
    <2> QED  BY <1>1, <2>1 DEF RegistryInv, DropsOnlyWhenFull
  <1>3. CASE ~(Start \/ Crash)
    <2>1. UNCHANGED <<mapped, view, nextIndex, first, refused>>
      BY <1>3 DEF Start, Unlink, MakeSegment, SizeSegment, CreateFails, ClearIndex,
                  FillSuperblock, StartTailer, Stop, Crash, Publish, StoresOf, StoreHead,
                  StoreIndex, StoreCount, Strategy, OpenSegment, MapCtrl, MapRings, Attach,
                  OpenFails, Detach, Lookup, ReadRing, Close, Outside, vars
    <2> QED  BY <2>1 DEF RegistryInv, DropsOnlyWhenFull, Assigned
  <1> QED  BY <1>2, <1>3

\* A generation begins with no symbol registered.
LEMMA RegistryBegins ==
  ASSUME StoreInv, RegistryInv, PublishMagic
  PROVE  RegistryInv'
  <1> USE DEF nameVars
  <1>1. /\ gens \notin magic /\ first[gens] \in Nat /\ nextIndex = first[gens]
        /\ UNCHANGED <<first, view, nextIndex, refused>> /\ mapped' = gens
        /\ Assigned = {} /\ \A d \in refused : d[1] \in magic
    BY StoreAssumption, NoRingsTyped
    DEF StoreInv, Creation, TypeOK, NamesTyped, WriterTyped, PublishMagic, Assigned
  <1>2. Assigned' = {}
    BY <1>1 DEF Assigned
  <1>3. Cardinality(Assigned') = 0
    BY <1>2, FS_EmptySet
  <1> QED  BY <1>1, <1>3 DEF RegistryInv, DropsOnlyWhenFull

\* A symbol is given a ring, or refused because there is none left.
LEMMA RegistryFed ==
  ASSUME StoreInv, RegistryInv, NEW s \in Symbols, Register(s) \/ Resolve(s)
  PROVE  RegistryInv'
  <1> USE DEF nameVars
  <1>1. SharedTyped /\ mapped # 0 /\ UNCHANGED <<first, mapped>>
        /\ nextIndex \in 0 .. Capacity /\ first[mapped] \in Nat /\ Capacity \in Nat
    BY NewGeneration, StoreAssumption
    DEF StoreInv, Creation, TypeOK, SharedTyped, NamesTyped, WriterTyped, Register, Resolve
  <1>2. nextIndex = first[mapped] + Cardinality(Assigned)
    BY <1>1 DEF RegistryInv
  <1>3. CASE ~Registered(s) /\ ~Full /\ Assign(s) /\ UNCHANGED refused
    <2>1. /\ Cardinality(Assigned) \in Nat
          /\ Cardinality(Assigned') = Cardinality(Assigned) + 1
      BY <1>1, <1>3, AssignedGrows
    <2>2. nextIndex' = nextIndex + 1 /\ nextIndex < Capacity
      BY <1>1, <1>3 DEF Assign, Full
    <2>3. \A d \in refused : d[1] # mapped
      BY <1>1, <1>2, <2>2 DEF RegistryInv, DropsOnlyWhenFull
    <2>4. DropsOnlyWhenFull'
      BY <1>1, <1>3, <2>3 DEF DropsOnlyWhenFull
    <2>5. nextIndex' = first[mapped] + Cardinality(Assigned')
      BY <1>1, <1>2, <2>1, <2>2
    <2> QED  BY <1>1, <2>4, <2>5 DEF RegistryInv
  <1>4. CASE UNCHANGED <<view, nextIndex>> /\ (UNCHANGED refused \/ Full)
    <2>1. Full => first[mapped] + Cardinality(Assigned) = Capacity
      BY <1>1, <1>2 DEF Full
    <2>2. DropsOnlyWhenFull'
      BY <1>1, <1>4, <2>1 DEF RegistryInv, DropsOnlyWhenFull, Assigned
    <2> QED  BY <1>1, <1>2, <1>4, <2>2 DEF RegistryInv, Assigned
  <1> QED  BY <1>3, <1>4 DEF Register, Resolve

\* on_md drops ticks of a symbol only where every ring is another's, after any number
\* of failed starts that used rings up.
THEOREM RefusedOnlyWhenFull == Spec => []DropsOnlyWhenFull
  <1>1. Init => StoreInv /\ RegistryInv
    <2>1. Init => RegistryInv
      BY DEF Init, RegistryInv, DropsOnlyWhenFull
    <2> QED  BY <2>1, StoreInitially
  <1>2. StoreInv /\ RegistryInv /\ [Next]_vars => (StoreInv /\ RegistryInv)'
    <2> SUFFICES ASSUME StoreInv, RegistryInv, [Next]_vars
                 PROVE  StoreInv' /\ RegistryInv'
      OBVIOUS
    <2>1. StoreInv'
      BY StoreInductive
    <2>2. RegistryInv'
      BY RegistryStays, RegistryBegins, RegistryFed DEF Next, StartStop, Feed, Calls
    <2> QED  BY <2>1, <2>2
  <1>3. RegistryInv => DropsOnlyWhenFull
    BY DEF RegistryInv
  <1> QED  BY <1>1, <1>2, <1>3, PTL DEF Spec

-----------------------------------------------------------------------------
(* The store of v2_opus: magic may be visible before the rest of           *)
(* initialize(), and nobody asks for the size of a segment.                *)

\* The generation initialize() is at.
Initializing(g) == g = gens /\ wpc = "init"

StrategiesTypedV2 ==
  /\ rpc \in [Strategies -> {"closed", "mapCtrl", "rings", "mapRings", "check", "attached",
                             "read", "killed"}]
  /\ fd \in [Strategies -> 0 .. gens]
  /\ ctrl \in [Strategies -> 0 .. gens]
  /\ ringMap \in [Strategies -> 0 .. gens]
  /\ asked \in [Strategies -> [sym : Symbols, idx : 0 .. Capacity - 1] \cup {NoTick}]
  /\ answer \in [Strategies -> SUBSET Symbols]

TypeOKV2 == SharedTyped /\ StrategiesTypedV2

\* With magic or without, a generation that is not initialized holds no ticks.
CreationV2 ==
  /\ wpc \in {"unlink", "make", "size", "init"} =>
       mapped = 0 /\ gens \in Gens /\ nextIndex = first[gens]
  /\ wpc \in {"unlink", "make", "size"} => gens \notin magic
  /\ wpc = "tailer" => mapped # 0
  /\ started => mapped # 0 /\ wpc = "idle"
  /\ \A g \in Gens : g \notin magic \/ Initializing(g) =>
       \A i \in 0 .. Capacity - 1 : rings[g][i] = {}
  /\ mapped = 0 => view = NoRings

\* Every ftruncate() comes before magic.
SizesV2 ==
  /\ wpc \in {"make", "size"} => \A k \in 1 .. at - 1 : <<Order[k], gens>> \in sized
  /\ \A g \in magic : \A n \in Segments : <<n, g>> \in sized
  /\ wpc = "init" => \A n \in Segments : <<n, gens>> \in sized

\* Symbols have rings of their own in every generation that is initialized, and records
\* are in rings whose head was stored.
MappingV2 ==
  /\ Assignment /\ MapsLeadToAssigned /\ RingsAreSeparate
  /\ \A g \in magic : \A i \in 0 .. Capacity - 1 : \A s \in rings[g][i] : head[g][i] = s

\* What a strategy was given is still in the ring it was read from.
HoldsV2(r) ==
  /\ Attached(r) => ctrl[r] \in magic /\ ringMap[r] \in Gens
  /\ rpc[r] = "check" => ringMap[r] \in Gens
  /\ rpc[r] \in {"mapCtrl", "mapRings"} => fd[r] \in Gens
  /\ rpc[r] = "read" => asked[r] # NoTick
  /\ rpc[r] # "attached" => answer[r] = {}
  /\ \A s \in answer[r] : asked[r] # NoTick /\ s \in rings[ringMap[r]][asked[r].idx]

AttachmentV2 == \A r \in Strategies : HoldsV2(r)

StoreInvV2 == TypeOKV2 /\ CreationV2 /\ SizesV2 /\ MappingV2 /\ AttachmentV2

\* Rings that lose nothing take nothing from what strategies hold.
LEMMA HeldStays ==
  ASSUME StoreInvV2, UNCHANGED readerVars, magic \subseteq magic', gens <= gens', SharedTyped',
         \A g \in Gens, i \in 0 .. Capacity - 1 : rings[g][i] \subseteq rings'[g][i]
  PROVE  AttachmentV2' /\ TypeOKV2'
  <1>1. SharedTyped /\ StrategiesTypedV2 /\ AttachmentV2
    BY DEF StoreInvV2, TypeOKV2
  <1>2. StrategiesTypedV2'
    <2>1. gens \in Nat /\ gens' \in Nat
      BY <1>1, StoreAssumption DEF SharedTyped, NamesTyped
    <2> QED  BY <1>1, <2>1 DEF StrategiesTypedV2, readerVars
  <1>3. ASSUME NEW r \in Strategies
        PROVE  HoldsV2(r)'
    <2>1. HoldsV2(r) /\ UNCHANGED <<rpc, fd, ctrl, ringMap, asked, answer>>
      BY <1>1 DEF AttachmentV2, readerVars
    <2>2. asked[r] # NoTick => asked[r].idx \in 0 .. Capacity - 1
      BY <1>1 DEF StrategiesTypedV2
    <2>3. \A s \in answer[r] : s \in rings'[ringMap[r]][asked[r].idx]
      BY <2>1, <2>2 DEF HoldsV2, Attached
    <2> QED  BY <2>1, <2>3 DEF HoldsV2, Attached
  <1> QED  BY <1>2, <1>3 DEF AttachmentV2, TypeOKV2

\* create() up to initialize().
LEMMA CreateKeepsV2 ==
  ASSUME StoreInvV2, CreateV2
  PROVE  StoreInvV2'
  <1> USE DEF memVars, nameVars
  <1>1. SharedTyped /\ CreationV2 /\ SizesV2 /\ MappingV2 /\ Numbered
    BY DEF StoreInvV2, TypeOKV2, CreationV2, Numbered
  <1>2. SharedTyped' /\ gens <= gens'
    BY <1>1, CreateTyped DEF CreateV2
  <1>3. UNCHANGED <<magic, filled, count, index, head, rings, readerVars>> /\ sized \subseteq sized'
        /\ (\A g \in magic : g \in Gens /\ g # gens + 1 /\ first'[g] = first[g])
        /\ (wpc = "idle" \/ gens \notin magic)
    BY <1>1, NewGeneration
    DEF CreateV2, Start, Unlink, MakeSegment, SizeSegment, CreateFails, SharedTyped, CreationV2,
        NamesTyped
  <1>4. AttachmentV2' /\ TypeOKV2'
    BY <1>2, <1>3, HeldStays
  <1>5. \A g \in magic : ~Initializing(g) /\ ~Initializing(g)'
    BY <1>3 DEF CreateV2, Start, Unlink, MakeSegment, SizeSegment, CreateFails, NextSegment,
                Initializing
  <1>6. MappingV2'
    <2>1. \/ UNCHANGED <<mapped, nextIndex, view, pending, first>>
          \/ mapped' = 0 /\ view' = NoRings /\ pending' = NoTick
      BY DEF CreateV2, Start, Unlink, MakeSegment, SizeSegment, CreateFails
    <2>2. Assignment'
      BY <1>1, <1>3, <2>1, AssignmentStays DEF MappingV2
    <2>3. MapsLeadToAssigned' /\ RingsAreSeparate'
      BY <1>1, <1>3, <1>5
      DEF MappingV2, MapsLeadToAssigned, RingsAreSeparate, Initializing, Known
    <2> QED  BY <1>1, <1>3, <2>2, <2>3 DEF MappingV2
  <1>7. SizesV2'
    <2> USE <1>1, OrderRange DEF SizesV2, SharedTyped, WriterTyped
    <2>1. CASE Start
      BY <1>3, <2>1 DEF Start
    <2>2. CASE Unlink
      BY <1>3, <2>2 DEF Unlink, NextSegment
    <2>3. CASE MakeSegment
      BY <1>3, <2>3 DEF MakeSegment
    <2>4. CASE SizeSegment
      <3>1. at \in 1 .. 3 /\ sized' = sized \cup {<<Order[at], gens>>} /\ wpc = "size"
            /\ UNCHANGED gens
        BY <2>4 DEF SizeSegment
      <3>2. \A k \in 1 .. at : <<Order[k], gens'>> \in sized'
        BY <3>1
      <3>3. CASE at = 3
        BY <1>3, <2>4, <3>1, <3>2, <3>3 DEF SizeSegment, NextSegment
      <3>4. CASE at # 3
        BY <1>3, <2>4, <3>1, <3>2, <3>4 DEF SizeSegment, NextSegment
      <3> QED  BY <3>3, <3>4
    <2>5. CASE CreateFails
      BY <1>3, <2>5 DEF CreateFails
    <2> QED  BY <2>1, <2>2, <2>3, <2>4, <2>5 DEF CreateV2
  <1>8. CreationV2'
    <2>1. \A g \in Gens : g \notin magic \/ Initializing(g)' => g \notin magic \/ Initializing(g)
      BY <1>5
    <2>2. /\ wpc' \in {"unlink", "make", "size", "init"} =>
               mapped' = 0 /\ gens' \in Gens /\ gens' \notin magic /\ nextIndex' = first'[gens']
          /\ wpc' # "tailer" /\ ~started' /\ (mapped' = 0 => view' = NoRings)
      <3>1. CASE Start
        <4>1. gens' = gens + 1 /\ gens + 1 \in Gens /\ first'[gens'] = nextIndex'
          BY <1>1, <3>1, NewGeneration DEF Start, SharedTyped, NamesTyped
        <4> QED  BY <1>1, <1>3, <3>1, <4>1 DEF CreationV2, Start
      <3>2. CASE Unlink \/ MakeSegment \/ SizeSegment \/ CreateFails
        BY <1>1, <1>3, <3>2
        DEF CreationV2, Unlink, MakeSegment, SizeSegment, CreateFails, NextSegment, SharedTyped
      <3> QED  BY <3>1, <3>2 DEF CreateV2
    <2> QED  BY <1>1, <1>3, <2>1, <2>2 DEF CreationV2
  <1> QED  BY <1>4, <1>6, <1>7, <1>8 DEF StoreInvV2

\* initialize(), up to the last of its stores to become visible.
LEMMA InitializeKeepsV2 ==
  ASSUME StoreInvV2, ClearIndex \/ FillSuperblock \/ StoreMagic
  PROVE  StoreInvV2'
  <1> USE DEF nameVars, writerVars
  <1>1. SharedTyped /\ CreationV2 /\ SizesV2 /\ MappingV2 /\ Numbered /\ gens \in Gens
        /\ wpc = "init" /\ mapped = 0 /\ pending = NoTick /\ ~started
        /\ (\A g \in magic : g \in Gens)
    BY NewGeneration
    DEF StoreInvV2, TypeOKV2, CreationV2, MappingV2, Assignment, Numbered, ClearIndex,
        FillSuperblock, StoreMagic, SharedTyped
  <1>2. UNCHANGED <<head, rings, sized, gens, first, writerVars, readerVars>>
        /\ magic \subseteq magic' /\ magic' \subseteq magic \cup {gens}
    BY DEF ClearIndex, FillSuperblock, StoreMagic
  <1>3. SharedTyped'
    <2>1. CASE StoreMagic
      <3>1. gens \in 1 .. gens
        BY <1>1, StoreAssumption DEF Gens, SharedTyped, NamesTyped
      <3>2. UNCHANGED <<first, link, filled, count, index, head>>
        BY <2>1 DEF StoreMagic
      <3>3. NamesTyped' /\ MemoryTyped'
        BY <1>1, <1>2, <3>1, <3>2 DEF SharedTyped, NamesTyped, MemoryTyped
      <3>4. WriterTyped'
        BY <1>1, <1>2, <3>2 DEF SharedTyped, WriterTyped
      <3> QED  BY <3>3, <3>4 DEF SharedTyped
    <2> QED  BY <1>1, <2>1, InitializeTyped
  <1>4. AttachmentV2' /\ TypeOKV2'
    <2>1. gens <= gens'
      BY <1>1, <1>2, StoreAssumption DEF SharedTyped, NamesTyped
    <2> QED  BY <1>2, <1>3, <2>1, HeldStays
  <1>5. \A g \in Gens : g # gens => index'[g] = index[g]
    BY <1>1 DEF ClearIndex, FillSuperblock, StoreMagic, SharedTyped, MemoryTyped
  <1>6. MappingV2'
    <2>1. ASSUME NEW g \in magic', NEW i \in 0 .. Capacity - 1, NEW t \in rings'[g][i]
          PROVE  index'[g][t] = i /\ rings'[g][i] = {t} /\ head'[g][i] = t
      <3>1. g # gens
        BY <1>1, <1>2, <2>1 DEF CreationV2, Initializing
      <3> QED  BY <1>1, <1>2, <1>5, <2>1, <3>1 DEF MappingV2, RingsAreSeparate
    <2>2. \A g \in magic' : ~Initializing(g)' => g \in magic /\ g # gens /\ ~Initializing(g)
      BY <1>1, <1>2 DEF Initializing
    <2>3. MapsLeadToAssigned'
      BY <1>1, <1>2, <1>5, <2>2 DEF MappingV2, MapsLeadToAssigned, Initializing, Known
    <2>4. Assignment'
      BY <1>1, <1>2, AssignmentStays DEF MappingV2
    <2> QED  BY <2>1, <2>3, <2>4 DEF MappingV2, RingsAreSeparate
  <1>7. CreationV2' /\ SizesV2'
    BY <1>1, <1>2, <1>5 DEF CreationV2, SizesV2, Initializing
  <1> QED  BY <1>4, <1>6, <1>7 DEF StoreInvV2

\* Its end, the tailer, stop() and a crash.
LEMMA StopKeepsV2 ==
  ASSUME StoreInvV2, Initialized \/ StartTailer \/ Stop \/ CrashV2
  PROVE  StoreInvV2'
  <1> USE DEF nameVars, memVars, writerVars
  <1>1. SharedTyped /\ CreationV2 /\ SizesV2 /\ MappingV2 /\ Numbered
        /\ (\A g \in magic : g \in Gens)
    BY NewGeneration DEF StoreInvV2, TypeOKV2, CreationV2, Numbered, SharedTyped
  <1>2. UNCHANGED <<magic, filled, count, index, head, rings, sized, gens, first, link, readerVars>>
    BY DEF Initialized, StartTailer, Stop, CrashV2, Crash
  <1>3. SharedTyped'
    <2>1. CASE Initialized
      <3>1. mapped' \in magic /\ wpc' = "tailer"
            /\ UNCHANGED <<at, nextIndex, view, started, pending, refused>>
        BY <2>1 DEF Initialized
      <3>2. NamesTyped' /\ MemoryTyped'
        BY <1>1, <1>2, <3>1 DEF SharedTyped, NamesTyped, MemoryTyped
      <3>3. WriterTyped'
        BY <1>1, <1>2, <3>1 DEF SharedTyped, WriterTyped
      <3> QED  BY <3>2, <3>3 DEF SharedTyped
    <2> QED  BY <1>1, <2>1, InitializeTyped DEF CrashV2
  <1>4. AttachmentV2' /\ TypeOKV2'
    <2>1. gens <= gens'
      BY <1>1, <1>2, StoreAssumption DEF SharedTyped, NamesTyped
    <2> QED  BY <1>2, <1>3, <2>1, HeldStays
  <1>5. \A g \in magic : ~Initializing(g)' =>
          ~Initializing(g) \/ \A s \in Symbols : index[g][s] = Unregistered
    BY <1>1, <1>2
    DEF Initialized, StartTailer, Stop, CrashV2, Initializing, AllStored, MagicLast, CreationV2
  <1>6. MappingV2'
    <2>1. MapsLeadToAssigned' /\ RingsAreSeparate'
      BY <1>1, <1>2, <1>5
      DEF MappingV2, MapsLeadToAssigned, RingsAreSeparate, Initializing, Known, Unregistered
    <2>2. CASE \/ UNCHANGED <<mapped, nextIndex, view, pending>>
               \/ mapped' = 0 /\ view' = NoRings /\ pending' = NoTick
      <3>1. Assignment'
        BY <1>1, <1>2, <2>2, AssignmentStays DEF MappingV2
      <3> QED  BY <1>1, <1>2, <2>1, <3>1 DEF MappingV2
    <2>3. CASE Initialized
      <3>1. /\ mapped' = gens /\ nextIndex \in Nat /\ pending = NoTick
            /\ nextIndex = first[gens] /\ view = NoRings
            /\ UNCHANGED <<nextIndex, view, pending>>
            /\ \A s \in Symbols : index[gens][s] = Unregistered
        BY <1>1, <2>3, StoreAssumption
        DEF Initialized, CreationV2, MappingV2, Assignment, SharedTyped, WriterTyped, AllStored,
            MagicLast
      <3>2. Assigned' = {}
        BY <3>1, NoRingsTyped DEF Assigned
      <3>3. Assignment'
        BY <1>2, <3>1, <3>2 DEF Assignment
      <3> QED  BY <1>1, <1>2, <2>1, <3>3 DEF MappingV2
    <2> QED  BY <2>2, <2>3 DEF StartTailer, Stop, CrashV2, Crash
  <1>7. SizesV2'
    BY <1>1, <1>2 DEF SizesV2, Initialized, StartTailer, Stop, CrashV2, Crash
  <1>8. CreationV2'
    <2>1. \A g \in Gens : Initializing(g)' => Initializing(g)
      BY <1>2 DEF Initializing, Initialized, StartTailer, Stop, CrashV2, Crash
    <2>2. /\ wpc' \in {"unlink", "make", "size", "init"} =>
               wpc' = wpc /\ mapped' = mapped /\ gens' = gens
          /\ wpc' = "tailer" => mapped' # 0
          /\ started' => mapped' # 0 /\ wpc' = "idle"
          /\ mapped' = 0 => view' = NoRings
          /\ UNCHANGED nextIndex \/ wpc' = "idle"
      BY <1>1, <1>2, StoreAssumption
      DEF CreationV2, Initialized, StartTailer, Stop, CrashV2, Crash, Gens
    <2> QED  BY <1>1, <1>2, <2>1, <2>2 DEF CreationV2
  <1> QED  BY <1>4, <1>6, <1>7, <1>8 DEF StoreInvV2

\* What registration and on_md need of a generation, and leave of it.
LEMMA FeedLeavesV2 ==
  ASSUME StoreInvV2, SharedTyped', UNCHANGED <<gens, first, readerVars>>,
         UNCHANGED <<sized, magic, wpc, at, mapped, started>>,
         mapped # 0, mapped \in magic, MappingV2',
         \A g \in Gens : g # mapped => rings'[g] = rings[g],
         \A i \in 0 .. Capacity - 1 : rings[mapped][i] \subseteq rings'[mapped][i]
  PROVE  StoreInvV2'
  <1>1. SharedTyped /\ CreationV2 /\ SizesV2 /\ (\A g \in magic : g \in Gens)
    BY NewGeneration DEF StoreInvV2, TypeOKV2, SharedTyped
  <1>2. AttachmentV2' /\ TypeOKV2'
    <2>1. gens <= gens'
      BY <1>1, StoreAssumption DEF SharedTyped, NamesTyped
    <2>2. \A g \in Gens, i \in 0 .. Capacity - 1 : rings[g][i] \subseteq rings'[g][i]
      OBVIOUS
    <2> QED  BY <2>1, <2>2, HeldStays
  <1>3. SizesV2' /\ CreationV2'
    BY <1>1 DEF SizesV2, CreationV2, Initializing
  <1> QED  BY <1>2, <1>3 DEF StoreInvV2

\* on_md and register_instrument of v2_opus, but for the stores of the latter.
LEMMA CallsKeepV2 ==
  ASSUME StoreInvV2, Calls
  PROVE  StoreInvV2'
  <1> USE DEF nameVars, memVars
  <1>1. SharedTyped /\ CreationV2 /\ MappingV2 /\ Assignment /\ Published
        /\ (\A g \in magic : g \in Gens)
    BY NewGeneration
    DEF StoreInvV2, TypeOKV2, CreationV2, MappingV2, Assignment, Published, SharedTyped
  <1>2. SharedTyped' /\ UNCHANGED <<gens, readerVars>>
    BY <1>1, CallsTyped
  <1>3. mapped # 0 /\ mapped \in magic
    <2>1. mapped # 0
      BY <1>1 DEF Calls, Publish, Register, Resolve, Assignment, CreationV2
    <2> QED  BY <1>1, <2>1 DEF SharedTyped, WriterTyped
  <1>4. CASE Publish
    <2>1. /\ pending.sym \in Symbols /\ pending.idx \in 0 .. Capacity - 1
          /\ index[mapped][pending.sym] = pending.idx
          /\ head[mapped][pending.idx] = pending.sym
          /\ UNCHANGED <<magic, filled, count, index, head, nameVars, wpc, at, mapped,
                         nextIndex, view, started, readerVars>>
          /\ pending' = NoTick
          /\ \A g \in Gens : g # mapped => rings'[g] = rings[g]
          /\ \A i \in 0 .. Capacity - 1 : rings'[mapped][i] =
               IF i = pending.idx THEN rings[mapped][i] \cup {pending.sym} ELSE rings[mapped][i]
      BY <1>1, <1>4, PublishFacts
    <2>2. ASSUME NEW g \in magic, NEW i \in 0 .. Capacity - 1, NEW t \in rings'[g][i]
          PROVE  index[g][t] = i /\ rings'[g][i] = {t} /\ head[g][i] = t
      <3>1. \A u \in rings[g][i] :
              u \in Symbols /\ index[g][u] = i /\ rings[g][i] = {u} /\ head[g][i] = u
        BY <1>1, RingSymbols DEF MappingV2, RingsAreSeparate
      <3>2. CASE g = mapped /\ i = pending.idx
        <4>1. \A u \in rings[g][i] : u = pending.sym
          BY <2>1, <3>1, <3>2
        <4>2. rings'[g][i] = {pending.sym}
          BY <2>1, <3>2, <4>1
        <4> QED  BY <2>1, <2>2, <3>2, <4>2
      <3>3. CASE g # mapped \/ i # pending.idx
        BY <1>1, <2>1, <2>2, <3>1, <3>3
      <3> QED  BY <3>2, <3>3
    <2>3. Assignment'
      BY <1>1, <2>1 DEF Assignment, Assigned
    <2>4. MapsLeadToAssigned'
      BY <1>1, <2>1 DEF MappingV2, MapsLeadToAssigned, Known
    <2>5. MappingV2'
      BY <2>1, <2>2, <2>3, <2>4 DEF MappingV2, RingsAreSeparate
    <2> QED  BY <1>2, <1>3, <2>1, <2>5, FeedLeavesV2
  <1>5. ASSUME NEW s \in Symbols, Register(s) \/ Resolve(s)
        PROVE  StoreInvV2'
    <2>1. Assignment' /\ UNCHANGED <<memVars, nameVars, wpc, at, mapped, started, readerVars>>
      BY <1>1, <1>3, <1>5, RegisterKeeps
    <2>2. MapsLeadToAssigned' /\ RingsAreSeparate'
      BY <1>1, <2>1 DEF MappingV2, MapsLeadToAssigned, Known, RingsAreSeparate
    <2>3. MappingV2'
      BY <1>1, <2>1, <2>2 DEF MappingV2
    <2> QED  BY <1>2, <1>3, <2>1, <2>3, FeedLeavesV2
  <1> QED  BY <1>4, <1>5 DEF Calls

\* Its stores, in any order: a ring whose head is yet to be stored is empty.
LEMMA StoresKeepV2 ==
  ASSUME StoreInvV2, NEW s \in Symbols, StoresOfV2(s)
  PROVE  StoreInvV2'
  <1> USE DEF nameVars, writerVars
  <1>1. SharedTyped /\ CreationV2 /\ MappingV2 /\ Assignment
        /\ (\A g \in magic : g \in Gens)
    BY NewGeneration DEF StoreInvV2, TypeOKV2, MappingV2, SharedTyped
  <1>2. /\ mapped # 0 /\ mapped \in magic /\ mapped \in Gens
        /\ view[s] \in 0 .. Capacity - 1
        /\ UNCHANGED <<magic, filled, nameVars, writerVars, readerVars>>
        /\ \A g \in Gens : g # mapped => /\ index'[g] = index[g] /\ rings'[g] = rings[g]
                                        /\ head'[g] = head[g]
        /\ \/ UNCHANGED <<head, rings>>
           \/ /\ head[mapped][view[s]] # s
              /\ \A i \in 0 .. Capacity - 1 :
                   /\ head'[mapped][i] = IF i = view[s] THEN s ELSE head[mapped][i]
                   /\ rings'[mapped][i] = IF i = view[s] THEN {} ELSE rings[mapped][i]
    BY <1>1, StoreFacts DEF CreationV2
  <1>3. /\ Assignment'
        /\ \A t \in Known(mapped) : index'[mapped][t] = index[mapped][t]
        /\ \A t \in Symbols : index'[mapped][t] >= 0 =>
             index'[mapped][t] = view[t] /\ t \in Assigned
        /\ \A t, u \in Symbols :
             index'[mapped][t] = index'[mapped][u] /\ index'[mapped][t] >= 0 => t = u
    BY <1>1, StoreShows DEF CreationV2
  <1>4. \A i \in 0 .. Capacity - 1 : \A t \in rings[mapped][i] :
          /\ t \in Symbols /\ index[mapped][t] = i /\ index'[mapped][t] = i
          /\ rings[mapped][i] = {t} /\ head[mapped][i] = t
    <2> SUFFICES ASSUME NEW i \in 0 .. Capacity - 1, NEW t \in rings[mapped][i]
                 PROVE  /\ t \in Symbols /\ index[mapped][t] = i /\ index'[mapped][t] = i
                        /\ rings[mapped][i] = {t} /\ head[mapped][i] = t
      OBVIOUS
    <2>1. t \in Symbols /\ index[mapped][t] = i /\ rings[mapped][i] = {t}
          /\ head[mapped][i] = t
      BY <1>1, <1>2, RingSymbols DEF MappingV2, RingsAreSeparate
    <2>2. t \in Known(mapped)
      BY <2>1 DEF Known
    <2> QED  BY <1>3, <2>1, <2>2
  <1>5. head[mapped][view[s]] # s => rings[mapped][view[s]] = {}
    <2> SUFFICES ASSUME head[mapped][view[s]] # s, NEW t \in rings[mapped][view[s]]
                 PROVE  FALSE
      OBVIOUS
    <2>1. t \in Symbols /\ index'[mapped][t] = view[s] /\ head[mapped][view[s]] = t
      BY <1>2, <1>4
    <2>2. view[t] = view[s] /\ t \in Assigned /\ s \in Assigned
      BY <1>2, <1>3, <2>1 DEF Assigned
    <2> QED  BY <1>1, <2>1, <2>2 DEF Assignment
  <1>6. \A i \in 0 .. Capacity - 1 : rings'[mapped][i] = rings[mapped][i]
    BY <1>2, <1>5
  <1>7. ASSUME NEW g \in magic, NEW i \in 0 .. Capacity - 1, NEW t \in rings'[g][i]
        PROVE  index'[g][t] = i /\ rings'[g][i] = {t} /\ head'[g][i] = t
    <2>1. CASE g = mapped
      <3>1. t \in rings[mapped][i] /\ rings'[mapped][i] = rings[mapped][i]
        BY <1>6, <1>7, <2>1
      <3>2. index'[mapped][t] = i /\ rings[mapped][i] = {t} /\ head[mapped][i] = t
        BY <1>4, <3>1
      <3>3. head'[mapped][i] = head[mapped][i]
        BY <1>2, <1>5, <3>1
      <3> QED  BY <2>1, <3>1, <3>2, <3>3
    <2>2. CASE g # mapped
      BY <1>1, <1>2, <1>7, <2>2 DEF MappingV2, RingsAreSeparate
    <2> QED  BY <2>1, <2>2
  <1>8. MapsLeadToAssigned'
    <2> SUFFICES ASSUME NEW g \in magic, g # gens \/ wpc # "init",
                        NEW t \in Known(g)', NEW u \in Known(g)'
                 PROVE  /\ index'[g][t] >= first[g]
                        /\ index'[g][t] = index'[g][u] => t = u
      BY <1>2 DEF MapsLeadToAssigned
    <2>1. CASE g = mapped
      <3>1. index'[mapped][t] = view[t] /\ t \in Assigned
        BY <1>3, <2>1 DEF Known
      <3>2. view[t] >= first[mapped]
        <4>1. view[t] \in first[mapped] .. nextIndex - 1 /\ nextIndex \in Int
              /\ first[mapped] \in Nat
          BY <1>1, <1>2, <3>1, StoreAssumption
          DEF Assignment, SharedTyped, WriterTyped, NamesTyped
        <4> QED  BY <4>1
      <3> QED  BY <1>3, <2>1, <3>1, <3>2 DEF Known
    <2>2. CASE g # mapped
      BY <1>1, <1>2, <2>2 DEF MappingV2, MapsLeadToAssigned, Known
    <2> QED  BY <2>1, <2>2
  <1>9. MappingV2'
    BY <1>2, <1>3, <1>7, <1>8 DEF MappingV2, RingsAreSeparate
  <1>10. SharedTyped'
    BY <1>1, StoresTyped DEF CreationV2
  <1> QED  BY <1>2, <1>6, <1>9, <1>10, FeedLeavesV2

\* A strategy of v2_opus, which may be killed by the segment it maps.
LEMMA StrategyKeepsV2 ==
  ASSUME StoreInvV2, NEW r \in Strategies, StrategyV2(r) \/ Replace(r)
  PROVE  StoreInvV2'
  <1> USE DEF Outside, memVars, nameVars, writerVars
  <1>1. SharedTyped /\ StrategiesTypedV2 /\ CreationV2 /\ SizesV2 /\ MappingV2 /\ HoldsV2(r)
        /\ (\A g \in magic : g \in Gens)
    BY NewGeneration DEF StoreInvV2, TypeOKV2, AttachmentV2, SharedTyped
  <1>2. UNCHANGED Outside
    BY DEF StrategyV2, Replace, OpenSegment, MapUnsized, AttachV2, OpenFailsV2, Killed, Detach,
           Lookup, QueryRing, ReadRing, Close
  <1>3. SharedTyped' /\ CreationV2' /\ SizesV2' /\ MappingV2'
    BY <1>1, <1>2 DEF SharedTyped, NamesTyped, MemoryTyped, WriterTyped, CreationV2, SizesV2,
                      MappingV2, Assignment, Assigned, Known, MapsLeadToAssigned,
                      RingsAreSeparate, Initializing
  <1>4. UNCHANGED <<magic, index, rings, gens, link, sized>>
    BY <1>2
  <1>5. \A q \in Strategies : q # r =>
          /\ rpc'[q] = rpc[q] /\ fd'[q] = fd[q] /\ ctrl'[q] = ctrl[q]
          /\ ringMap'[q] = ringMap[q] /\ asked'[q] = asked[q] /\ answer'[q] = answer[q]
    BY <1>1 DEF StrategiesTypedV2, StrategyV2, Replace, OpenSegment, MapUnsized, AttachV2,
                OpenFailsV2, Killed, Detach, Lookup, QueryRing, ReadRing, Close, Moves
  <1>6. StrategiesTypedV2' /\ HoldsV2(r)'
    <2> USE <1>1, <1>4 DEF StrategiesTypedV2, Moves, HoldsV2, Attached
    <2>1. ASSUME OpenSegment(r, "ctrl", "closed", "mapCtrl") \/ OpenSegment(r, "rings", "rings", "mapRings")
          PROVE  StrategiesTypedV2' /\ HoldsV2(r)'
      <3>1. PICK n \in Segments : fd'[r] = link[n] /\ link[n] # 0 /\ fd' = [fd EXCEPT ![r] = link[n]]
        BY <2>1 DEF OpenSegment, Segments
      <3>2. link[n] \in 0 .. gens /\ link[n] \in Gens
        BY <3>1, StoreAssumption DEF SharedTyped, NamesTyped, Gens
      <3> QED  BY <2>1, <3>1, <3>2 DEF OpenSegment
    <2>2. CASE MapUnsized(r, "ctrl", "mapCtrl", "rings") \/ MapUnsized(r, "rings", "mapRings", "check")
      BY <2>2 DEF MapUnsized
    <2>3. CASE AttachV2(r)
      BY <2>3 DEF AttachV2, Matches, Valid
    <2>4. CASE Detach(r)
      <3>1. 0 \in 0 .. gens
        BY StoreAssumption DEF SharedTyped, NamesTyped
      <3> QED  BY <2>4, <3>1 DEF Detach
    <2>5. CASE Killed(r)
      BY <2>5 DEF Killed
    <2>6. CASE Lookup(r)
      BY <2>6, StoreAssumption DEF Lookup, NoTick, Unregistered
    <2>7. CASE ReadRing(r)
      <3>1. ringMap[r] \in Gens /\ asked[r] # NoTick /\ asked[r].idx \in 0 .. Capacity - 1
        BY <2>7 DEF ReadRing
      <3>2. rings[ringMap[r]][asked[r].idx] \in SUBSET Symbols
        <4>1. rings \in [Gens -> [0 .. Capacity - 1 -> SUBSET Symbols]]
          BY <1>1 DEF SharedTyped, MemoryTyped
        <4>2. PICK i \in 0 .. Capacity - 1 : i = asked[r].idx
          BY <3>1
        <4>3. PICK g \in Gens : g = ringMap[r]
          BY <3>1
        <4>4. rings[g][i] \in SUBSET Symbols
          BY ONLY <4>1, <4>2, <4>3
        <4> QED  BY <4>2, <4>3, <4>4
      <3>3. answer' = [answer EXCEPT ![r] = rings[ringMap[r]][asked[r].idx]]
            /\ rpc' = [rpc EXCEPT ![r] = "attached"] /\ UNCHANGED <<fd, ctrl, ringMap, asked>>
            /\ rpc[r] = "read"
        BY <2>7 DEF ReadRing
      <3> QED  BY <3>1, <3>2, <3>3
    <2> QED
      BY <2>1, <2>2, <2>3, <2>4, <2>5, <2>6, <2>7
      DEF StrategyV2, Replace, OpenFailsV2, QueryRing, Close
  <1>7. AttachmentV2'
    <2> SUFFICES ASSUME NEW q \in Strategies
                 PROVE  HoldsV2(q)'
      BY DEF AttachmentV2
    <2>1. CASE q = r
      BY <1>6, <2>1
    <2>2. CASE q # r
      <3>1. HoldsV2(q)
        BY DEF StoreInvV2, AttachmentV2
      <3> QED  BY <1>4, <1>5, <2>2, <3>1 DEF HoldsV2, Attached
    <2> QED  BY <2>1, <2>2
  <1> QED  BY <1>3, <1>6, <1>7 DEF StoreInvV2, TypeOKV2

\* An empty store.
LEMMA StoreInitiallyV2 == Init => StoreInvV2
  <1> SUFFICES ASSUME Init
               PROVE  StoreInvV2
    OBVIOUS
  <1>1. StoreInv
    BY StoreInitially
  <1>2. TypeOKV2
    BY <1>1 DEF StoreInv, TypeOK, StrategiesTyped, SharedTyped, StrategiesTypedV2, TypeOKV2
  <1> USE DEF Init
  <1>3. CreationV2 /\ SizesV2
    BY DEF CreationV2, SizesV2
  <1>4. MappingV2 /\ AttachmentV2
    <2>1. Assignment
      BY <1>1 DEF StoreInv, Mapping
    <2> QED  BY <2>1 DEF MappingV2, MapsLeadToAssigned, RingsAreSeparate, AttachmentV2, HoldsV2,
                         Attached
  <1> QED  BY <1>2, <1>3, <1>4 DEF StoreInvV2

\* Every step of the v2 writer and its strategies.
LEMMA StoreInductiveV2 == StoreInvV2 /\ [NextV2]_vars => StoreInvV2'
  <1> SUFFICES ASSUME StoreInvV2, [NextV2]_vars
               PROVE  StoreInvV2'
    OBVIOUS
  <1>1. CASE UNCHANGED vars
    <2> USE <1>1 DEF vars, memVars, nameVars, writerVars
    <2>1. SharedTyped' /\ \A i \in 0 .. Capacity - 1, g \in Gens : rings[g][i] \subseteq rings'[g][i]
      BY DEF StoreInvV2, TypeOKV2, SharedTyped, NamesTyped, MemoryTyped, WriterTyped
    <2>2. AttachmentV2' /\ TypeOKV2'
      BY <2>1, HeldStays DEF StoreInvV2, TypeOKV2, SharedTyped, NamesTyped
    <2>3. CreationV2' /\ SizesV2' /\ MappingV2'
      BY DEF StoreInvV2, CreationV2, SizesV2, MappingV2, Assignment, Assigned, Known,
             MapsLeadToAssigned, RingsAreSeparate, Initializing
    <2> QED  BY <2>2, <2>3 DEF StoreInvV2
  <1> QED
    BY <1>1, CreateKeepsV2, InitializeKeepsV2, StopKeepsV2, CallsKeepV2, StoresKeepV2,
       StrategyKeepsV2
    DEF NextV2, StartStopV2, InitializeV2, FeedV2

\* The invariant of the v2 store, for any number of symbols, rings, strategies and
\* generations.
THEOREM StoreV2Invariant == SpecV2 => []StoreInvV2
  BY StoreInitiallyV2, StoreInductiveV2, PTL DEF SpecV2

\* A strategy of one generation is never killed by a query, though nobody looks at
\* a size: every ftruncate() of a generation is before its magic.
THEOREM NoQueryIsFatal == SpecV2 => []QueriesSurvive
  <1>1. StoreInvV2 => QueriesSurvive
    <2> SUFFICES ASSUME StoreInvV2, NEW r \in Strategies, rpc[r] = "read", ctrl[r] = ringMap[r]
                 PROVE  <<"rings", ringMap[r]>> \in sized
      BY DEF QueriesSurvive, Survives, Touched
    <2> QED  BY DEF StoreInvV2, SizesV2, AttachmentV2, HoldsV2, Attached, Segments
  <1> QED  BY <1>1, StoreV2Invariant, PTL

\* The map of an initialized generation leads symbols to rings of their own, though
\* magic and the map are stored plain.
THEOREM MapsAreSound == SpecV2 => []MapsLeadToAssigned
  <1>1. StoreInvV2 => MapsLeadToAssigned
    BY DEF StoreInvV2, MappingV2
  <1> QED  BY <1>1, StoreV2Invariant, PTL

\* Only a lookup made before the map was set to -1 can give another symbol's records.
THEOREM MisleadingIsEarly == SpecV2 => []OnlyEarlyLookupsMislead
  <1>1. StoreInvV2 => OnlyEarlyLookupsMislead
    <2> SUFFICES ASSUME StoreInvV2, NEW r \in Strategies, Attached(r), ctrl[r] = ringMap[r],
                        asked[r] # NoTick, index[ctrl[r]][asked[r].sym] = asked[r].idx,
                        NEW t \in answer[r]
                 PROVE  t = asked[r].sym
      BY DEF OnlyEarlyLookupsMislead, OwnRecords
    <2>1. /\ StrategiesTypedV2 /\ CreationV2 /\ MappingV2 /\ HoldsV2(r)
      BY DEF StoreInvV2, TypeOKV2, AttachmentV2
    <2>2. /\ ctrl[r] \in magic /\ ctrl[r] \in Gens /\ t \in rings[ctrl[r]][asked[r].idx]
          /\ asked[r].sym \in Symbols /\ asked[r].idx \in 0 .. Capacity - 1 /\ t \in Symbols
      BY <2>1 DEF HoldsV2, StrategiesTypedV2
    <2>3. ~Initializing(ctrl[r])
      BY <2>1, <2>2 DEF CreationV2
    <2>4. index[ctrl[r]][t] = asked[r].idx
      BY <2>1, <2>2 DEF MappingV2, RingsAreSeparate
    <2>5. asked[r].idx >= 0
      BY <2>2, StoreAssumption
    <2> QED  BY <2>1, <2>2, <2>3, <2>4, <2>5 DEF MappingV2, MapsLeadToAssigned, Known, Initializing
  <1> QED  BY <1>1, StoreV2Invariant, PTL
=============================================================================
