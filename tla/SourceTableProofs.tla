-------------------------- MODULE SourceTableProofs --------------------------
(***************************************************************************)
(* Safety of the source table for every set of threads, every number of    *)
(* workers and every set of ids.                                           *)
(***************************************************************************)
EXTENDS SourceTable, FiniteSetTheorems, TLAPS

\* The semaphore counts: its value says how many readers there are, or that
\* there is a writer.
SemaphoreCounts ==
  sources_semaphore =
    IF Writers # {} THEN 0 ELSE AllReaders - Cardinality(Readers)

\* A swap is only tried for a unit that was there.
LoadedUnit == \A t \in Threads : pc[t] = "read_swap" => current_readers[t] > 0

LockInv == SemaphoreCounts /\ ReadersExcludeWriter /\ LoadedUnit

Registering(t) == pc[t] \in {"write_lock", "emplace", "sort", "write_unlock"}
Added(t)       == pc[t] \in {"sort", "write_unlock"}

\* The vector is sorted except while it is being sorted; it holds the known ids
\* and the one being added.
SortedTable == (\A t \in Threads : pc[t] # "sort") => IsSorted(sources)
KnownInTable == known \subseteq Contents(sources)
RestIsNew ==
  \A x \in Contents(sources) \ known :
    \E t \in Threads : Added(t) /\ source_id[t] = x
OwnNewId ==
  \A t \in Threads : Registering(t) => source_id[t] \in Registers[t] \ known
NewInTable == \A t \in Threads : Added(t) => source_id[t] \in Contents(sources)

TableInv == SortedTable /\ KnownInTable /\ RestIsNew /\ OwnNewId /\ NewInTable

\* The id looked for is in the range a search has left.
SearchInv ==
  \A t \in Threads :
    /\ pc[t] \in {"read_load", "read_swap", "search"} => source_id[t] \in known
    /\ pc[t] = "search" =>
         /\ first[t] + count[t] <= Len(sources) + 1
         /\ \A j \in 1 .. first[t] - 1 : sources[j] < source_id[t]
         /\ \A j \in first[t] + count[t] .. Len(sources) :
              source_id[t] <= sources[j]

IInv == TypeOK /\ LockInv /\ TableInv /\ SearchInv

LEMMA ReadersFinite == IsFiniteSet(Readers) /\ Cardinality(Readers) \in Nat
  BY TableAssumption, FS_Subset, FS_CardinalityType DEF Readers

\* What a step does to the sets of readers and writers, action by action.
LEMMA LockStep ==
  ASSUME TypeOK, LockInv, NEW t \in Threads, Call(t) \/ Proceed(t)
  PROVE  TypeOK' /\ LockInv'
<1> USE TableAssumption DEF AllReaders
<1>1. CASE \E id \in Ids : RegisterSource(t, id)
  <2>1. PICK id \in Ids : RegisterSource(t, id) BY <1>1
  <2>2. Readers' = Readers /\ Writers' = Writers
    BY <2>1 DEF RegisterSource, Goto, Readers, Writers, TypeOK
  <2>3. QED
    BY <2>1, <2>2 DEF RegisterSource, Goto, TypeOK, Locations, LockInv,
       SemaphoreCounts, ReadersExcludeWriter, LoadedUnit
<1>2. CASE \E id \in Ids : GetSourceById(t, id)
  <2>1. PICK id \in Ids : GetSourceById(t, id) BY <1>2
  <2>2. Readers' = Readers /\ Writers' = Writers
    BY <2>1 DEF GetSourceById, Goto, Readers, Writers, TypeOK
  <2>3. QED
    BY <2>1, <2>2 DEF GetSourceById, Goto, TypeOK, Locations, LockInv,
       SemaphoreCounts, ReadersExcludeWriter, LoadedUnit
<1>3. CASE WriteLockSources(t)
  <2>1. Writers = {}
    BY <1>3 DEF WriteLockSources, AllFree, LockInv, SemaphoreCounts, TypeOK
  <2>2. Readers = {}
    BY <1>3, <2>1, ReadersFinite, FS_EmptySet
    DEF WriteLockSources, AllFree, LockInv, SemaphoreCounts
  <2>3. Readers' = {} /\ Writers' = {t}
    BY <1>3, <2>1, <2>2 DEF WriteLockSources, Goto, Readers, Writers, TypeOK
  <2>4. QED
    BY <1>3, <2>3 DEF WriteLockSources, callVars, Goto, TypeOK, Locations,
       LockInv, SemaphoreCounts, ReadersExcludeWriter, LoadedUnit
<1>4. CASE Emplace(t)
  <2>1. Readers' = Readers /\ Writers' = Writers
    BY <1>4 DEF Emplace, Goto, Readers, Writers, TypeOK
  <2>2. QED
    BY <1>4, <2>1 DEF Emplace, callVars, Goto, TypeOK, Locations, LockInv,
       SemaphoreCounts, ReadersExcludeWriter, LoadedUnit
<1>5. CASE Sort(t)
  <2>1. Readers' = Readers /\ Writers' = Writers
    BY <1>5 DEF Sort, Goto, Readers, Writers, TypeOK
  <2>2. sources' \in Seq(Ids)
    <3>1. /\ DOMAIN sources = 1 .. Len(sources) /\ Len(sources) \in Nat
          /\ Contents(sources) \subseteq Ids
      BY DEF TypeOK, Contents
    <3>2. sources' \in [1 .. Len(sources) -> Ids]
      BY <1>5, <3>1 DEF Sort, SortedForms
    <3>3. QED  BY <3>1, <3>2
  <2>3. QED
    BY <1>5, <2>1, <2>2 DEF Sort, callVars, Goto, TypeOK, Locations, LockInv,
       SemaphoreCounts, ReadersExcludeWriter, LoadedUnit
<1>6. CASE WriteUnlockSources(t)
  <2>1. Writers = {t} /\ Readers = {}
    BY <1>6 DEF WriteUnlockSources, LockInv, ReadersExcludeWriter, Writers
  <2>2. Readers' = {} /\ Writers' = {}
    BY <1>6, <2>1 DEF WriteUnlockSources, Goto, Readers, Writers, TypeOK
  <2>3. TypeOK'
    <3>1. source_id[t] \in Ids /\ AllReaders \in 0 .. AllReaders
      BY DEF TypeOK
    <3>2. known' \subseteq Ids
      BY <1>6, <3>1 DEF WriteUnlockSources, TypeOK
    <3>3. QED
      BY <1>6, <3>1, <3>2 DEF WriteUnlockSources, callVars, Goto, TypeOK, Locations
  <2>4. SemaphoreCounts'
    <3>1. Cardinality(Readers') = 0  BY <2>2, FS_EmptySet
    <3>2. sources_semaphore' = AllReaders  BY <1>6 DEF WriteUnlockSources
    <3>3. QED  BY <2>2, <3>1, <3>2 DEF SemaphoreCounts
  <2>5. QED
    BY <1>6, <2>2, <2>3, <2>4 DEF WriteUnlockSources, callVars, Goto, TypeOK,
       LockInv, ReadersExcludeWriter, LoadedUnit
<1>7. CASE ReadLock_Load(t)
  <2>1. Readers' = Readers /\ Writers' = Writers
    BY <1>7 DEF ReadLock_Load, Goto, Readers, Writers, TypeOK
  <2>2. QED
    BY <1>7, <2>1 DEF ReadLock_Load, Goto, TypeOK, Locations, LockInv,
       SemaphoreCounts, ReadersExcludeWriter, LoadedUnit
<1>8. CASE ReadLock_SwapFails(t)
  <2>1. Readers' = Readers /\ Writers' = Writers
    BY <1>8 DEF ReadLock_SwapFails, Goto, Readers, Writers, TypeOK
  <2>2. QED
    BY <1>8, <2>1 DEF ReadLock_SwapFails, callVars, Goto, TypeOK, Locations,
       LockInv, SemaphoreCounts, ReadersExcludeWriter, LoadedUnit
<1>9. CASE ReadLock_Swap(t)
  <2>1. Writers = {} /\ t \notin Readers
    BY <1>9 DEF ReadLock_Swap, Unchanged, LockInv, SemaphoreCounts, LoadedUnit,
       Readers
  <2>2. Readers' = Readers \cup {t} /\ Writers' = {}
    BY <1>9, <2>1 DEF ReadLock_Swap, Goto, Readers, Writers, TypeOK
  <2>3. Cardinality(Readers') = Cardinality(Readers) + 1
    BY <2>1, <2>2, ReadersFinite, FS_AddElement
  <2>4. sources_semaphore' = AllReaders - Cardinality(Readers')
    BY <1>9, <2>1, <2>3, ReadersFinite
    DEF ReadLock_Swap, Unchanged, LockInv, SemaphoreCounts
  <2>5. TypeOK'
    BY <1>9 DEF ReadLock_Swap, Unchanged, Goto, TypeOK, Locations, LockInv,
       LoadedUnit
  <2>6. QED
    BY <1>9, <2>2, <2>4, <2>5 DEF ReadLock_Swap, Goto, TypeOK, LockInv,
       SemaphoreCounts, ReadersExcludeWriter, LoadedUnit
<1>10. CASE Search_Probe(t)
  <2>1. Readers' = Readers /\ Writers' = Writers
    BY <1>10 DEF Search_Probe, Readers, Writers
  <2>2. TypeOK'
    <3>0. count[t] \in Nat /\ first[t] \in Nat \ {0} /\ count[t] > 0
      BY <1>10 DEF Search_Probe, TypeOK
    <3>10. \A n \in Nat : n > 0 => n \div 2 \in Nat /\ n - (n \div 2 + 1) \in Nat
      OBVIOUS
    <3>1. /\ count[t] \in Nat /\ first[t] \in Nat \ {0} /\ count[t] > 0
          /\ count[t] \div 2 \in Nat /\ count[t] - (count[t] \div 2 + 1) \in Nat
      BY <3>0, <3>10
    <3> DEFINE half == count[t] \div 2
    <3>2. CASE sources[first[t] + half] < source_id[t]
      <4>1. /\ first' = [first EXCEPT ![t] = first[t] + (half + 1)]
            /\ count' = [count EXCEPT ![t] = count[t] - (half + 1)]
        BY <1>10, <3>2 DEF Search_Probe
      <4>2. /\ first[t] + (half + 1) \in Nat \ {0}
            /\ count[t] - (half + 1) \in Nat
        BY <3>1
      <4>3. first' \in [Threads -> Nat \ {0}] /\ count' \in [Threads -> Nat]
        <5> HIDE DEF half
        <5> QED  BY <4>1, <4>2 DEF TypeOK
      <4>4. QED  BY <1>10, <4>3 DEF Search_Probe, TypeOK
    <3>3. CASE ~(sources[first[t] + half] < source_id[t])
      <4>1. /\ first' = first
            /\ count' = [count EXCEPT ![t] = half]
        BY <1>10, <3>3 DEF Search_Probe
      <4>2. first' \in [Threads -> Nat \ {0}] /\ count' \in [Threads -> Nat]
        BY <3>1, <4>1 DEF TypeOK
      <4>3. QED  BY <1>10, <4>2 DEF Search_Probe, TypeOK
    <3>4. QED  BY <3>2, <3>3
  <2>3. QED
    BY <1>10, <2>1, <2>2 DEF Search_Probe, LockInv,
       SemaphoreCounts, ReadersExcludeWriter, LoadedUnit
<1>11. CASE Search_Found(t)
  <2>1. Readers' = Readers /\ Writers' = Writers
    BY <1>11 DEF Search_Found, Goto, Readers, Writers, TypeOK
  <2>2. QED
    BY <1>11, <2>1 DEF Search_Found, callVars, Goto, TypeOK, Locations, LockInv,
       SemaphoreCounts, ReadersExcludeWriter, LoadedUnit
<1>12. CASE ReadUnlockSources(t)
  <2>1. t \in Readers
    BY <1>12 DEF ReadUnlockSources, Readers
  <2>2. Writers = {}
    BY <2>1 DEF LockInv, ReadersExcludeWriter, Writers
  <2>3. Readers' = Readers \ {t} /\ Writers' = {}
    BY <1>12, <2>2 DEF ReadUnlockSources, Goto, Readers, Writers, TypeOK
  <2>4. /\ Cardinality(Readers') = Cardinality(Readers) - 1
        /\ Cardinality(Readers') \in Nat
    BY <2>1, <2>3, ReadersFinite, FS_RemoveElement, FS_CardinalityType
  <2>5. sources_semaphore' = AllReaders - Cardinality(Readers')
    BY <1>12, <2>2, <2>4, ReadersFinite
    DEF ReadUnlockSources, LockInv, SemaphoreCounts
  <2>6. TypeOK'
    BY <1>12, <2>4, <2>5 DEF ReadUnlockSources, callVars, Goto,
       TypeOK, Locations
  <2>7. QED
    BY <1>12, <2>3, <2>5, <2>6 DEF ReadUnlockSources, callVars, Goto, TypeOK,
       LockInv, SemaphoreCounts, ReadersExcludeWriter, LoadedUnit
<1>13. QED
  BY <1>1, <1>2, <1>3, <1>4, <1>5, <1>6, <1>7, <1>8, <1>9, <1>10, <1>11, <1>12
  DEF Call, Proceed

LEMMA SortKeeps ==
  ASSUME TypeOK, NEW new \in SortedForms(sources)
  PROVE  IsSorted(new) /\ Contents(new) = Contents(sources)
  BY DEF SortedForms

LEMMA VectorFacts ==
  ASSUME TypeOK
  PROVE  /\ Len(sources) \in Nat /\ DOMAIN sources = 1 .. Len(sources)
         /\ \A i \in 1 .. Len(sources) : sources[i] \in Nat
<1>1. Ids \subseteq Nat  BY TableAssumption
<1>2. sources \in Seq(Ids)  BY DEF TypeOK
<1>3. \A i \in 1 .. Len(sources) : sources[i] \in Ids  BY <1>2
<1>4. Len(sources) \in Nat /\ DOMAIN sources = 1 .. Len(sources)  BY <1>2
<1>5. \A i \in 1 .. Len(sources) : sources[i] \in Nat  BY <1>1, <1>3
<1>6. QED  BY <1>4, <1>5

LEMMA AppendContents ==
  ASSUME TypeOK, NEW id \in Ids
  PROVE  Contents(Append(sources, id)) = Contents(sources) \cup {id}
<1> DEFINE longer == Append(sources, id)
<1>1. /\ Len(sources) \in Nat /\ DOMAIN sources = 1 .. Len(sources)
      /\ DOMAIN longer = 1 .. Len(sources) + 1
      /\ \A i \in 1 .. Len(sources) : longer[i] = sources[i]
      /\ longer[Len(sources) + 1] = id
  BY DEF TypeOK
<1> HIDE DEF longer
<1>2. Contents(longer) = Contents(sources) \cup {id}
  BY <1>1 DEF Contents
<1>3. QED  BY <1>2 DEF longer

\* Steps that leave the vector alone and neither begin nor end the addition of
\* an id.
LEMMA TableUnmoved ==
  ASSUME TableInv, NEW t \in Threads, UNCHANGED <<sources, known>>,
         \A u \in Threads \ {t} : pc'[u] = pc[u] /\ source_id'[u] = source_id[u],
         ~Added(t), ~Added(t)',
         Registering(t)' => source_id'[t] \in Registers[t] \ known
  PROVE  TableInv'
<1>1. \A u \in Threads : /\ Added(u)' => Added(u) /\ source_id'[u] = source_id[u]
                         /\ Added(u) => Added(u)' /\ source_id'[u] = source_id[u]
  BY DEF Added
<1>2. SortedTable'
  <2>1. SUFFICES ASSUME \A u \in Threads : pc'[u] # "sort" PROVE IsSorted(sources)
    BY DEF SortedTable
  <2>2. \A u \in Threads : pc[u] # "sort"
    BY <2>1 DEF Added
  <2>3. QED  BY <2>2 DEF TableInv, SortedTable
<1>3. KnownInTable'
  BY DEF TableInv, KnownInTable
<1>4. RestIsNew'
  BY <1>1 DEF TableInv, RestIsNew
<1>5. OwnNewId'
  BY DEF TableInv, OwnNewId, Registering
<1>6. NewInTable'
  BY <1>1 DEF TableInv, NewInTable
<1>7. QED  BY <1>2, <1>3, <1>4, <1>5, <1>6 DEF TableInv

\* Where no search runs, only what happens to the vector matters; where the
\* vector is left alone, only the search that takes the step does.
LEMMA TableStep ==
  ASSUME TypeOK, TypeOK', LockInv, TableInv, SearchInv,
         NEW t \in Threads, Call(t) \/ Proceed(t)
  PROVE  TableInv' /\ SearchInv'
<1> USE TableAssumption
<1>1. CASE \E id \in Ids : RegisterSource(t, id)
  <2>1. PICK id \in Ids : RegisterSource(t, id)  BY <1>1
  <2>2. TableInv'
    BY <2>1, TableUnmoved DEF RegisterSource, Goto, TypeOK, Added, Registering
  <2>3. SearchInv'
    BY <2>1 DEF RegisterSource, Goto, TypeOK, SearchInv
  <2>4. QED  BY <2>2, <2>3
<1>2. CASE \E id \in Ids : GetSourceById(t, id)
  <2>1. PICK id \in Ids : GetSourceById(t, id)  BY <1>2
  <2>2. TableInv'
    BY <2>1, TableUnmoved DEF GetSourceById, Goto, TypeOK, Added, Registering
  <2>3. SearchInv'
    BY <2>1 DEF GetSourceById, Goto, TypeOK, SearchInv
  <2>4. QED  BY <2>2, <2>3
<1>3. CASE WriteLockSources(t)
  <2>1. TableInv'
    BY <1>3, TableUnmoved DEF WriteLockSources, callVars, Goto, TypeOK, Added,
       Registering, TableInv, OwnNewId
  <2>2. SearchInv'
    BY <1>3 DEF WriteLockSources, callVars, Goto, TypeOK, SearchInv
  <2>3. QED  BY <2>1, <2>2
<1>4. CASE Emplace(t)
  <2>1. Readers = {} /\ Writers = {t}
    BY <1>4 DEF Emplace, LockInv, ReadersExcludeWriter, Writers
  <2>2. \A u \in Threads : pc[u] # "search"
    BY <2>1 DEF Readers
  <2>3. \A u \in Threads : u # t => pc[u] \notin {"emplace", "sort", "write_unlock"}
    BY <2>1 DEF Writers
  <2>4. Contents(sources)' = Contents(sources) \cup {source_id[t]}
    BY <1>4, AppendContents DEF Emplace, TypeOK
  <2>5. /\ pc' = [pc EXCEPT ![t] = "sort"]
        /\ UNCHANGED <<known, source_id>>
    BY <1>4 DEF Emplace, Goto, callVars
  <2>6. TableInv'
    <3>1. pc'[t] = "sort" /\ \A u \in Threads \ {t} : pc'[u] = pc[u]
      BY <2>5 DEF TypeOK
    <3>2. SortedTable'  BY <3>1 DEF SortedTable
    <3>3. KnownInTable'  BY <2>4, <2>5 DEF TableInv, KnownInTable
    <3>4. RestIsNew'
      BY <2>3, <2>4, <2>5, <3>1 DEF TableInv, RestIsNew, Added
    <3>5. OwnNewId'
      BY <1>4, <2>5, <3>1 DEF Emplace, TableInv, OwnNewId, Registering
    <3>6. NewInTable'
      BY <2>3, <2>4, <2>5, <3>1 DEF NewInTable, Added
    <3>7. QED  BY <3>2, <3>3, <3>4, <3>5, <3>6 DEF TableInv
  <2>7. QED
    BY <1>4, <2>2, <2>6 DEF Emplace, callVars, Goto, TypeOK, SearchInv
<1>5. CASE Sort(t)
  <2>1. Readers = {} /\ Writers = {t}
    BY <1>5 DEF Sort, LockInv, ReadersExcludeWriter, Writers
  <2>2. \A u \in Threads : pc[u] # "search"
    BY <2>1 DEF Readers
  <2>3. \A u \in Threads : u # t => pc[u] \notin {"emplace", "sort", "write_unlock"}
    BY <2>1 DEF Writers
  <2>4. IsSorted(sources)' /\ Contents(sources)' = Contents(sources)
    BY <1>5, SortKeeps DEF Sort
  <2>5. /\ pc' = [pc EXCEPT ![t] = "write_unlock"]
        /\ UNCHANGED <<known, source_id>>
    BY <1>5 DEF Sort, Goto, callVars
  <2>6. TableInv'
    <3>1. /\ pc[t] = "sort" /\ pc'[t] = "write_unlock"
          /\ \A u \in Threads \ {t} : pc'[u] = pc[u]
      BY <1>5, <2>5 DEF Sort, TypeOK
    <3>2. SortedTable'  BY <2>4 DEF SortedTable
    <3>3. KnownInTable'  BY <2>4, <2>5 DEF TableInv, KnownInTable
    <3>4. RestIsNew'
      BY <2>4, <2>5, <3>1 DEF TableInv, RestIsNew, Added
    <3>5. OwnNewId'
      BY <2>5, <3>1 DEF TableInv, OwnNewId, Registering
    <3>6. NewInTable'
      BY <2>4, <2>5, <3>1 DEF TableInv, NewInTable, Added
    <3>7. QED  BY <3>2, <3>3, <3>4, <3>5, <3>6 DEF TableInv
  <2>7. QED
    BY <1>5, <2>2, <2>6 DEF Sort, callVars, Goto, TypeOK, SearchInv
<1>6. CASE WriteUnlockSources(t)
  <2>1. \A u \in Threads : u # t => pc[u] \notin {"emplace", "sort", "write_unlock"}
    BY <1>6 DEF WriteUnlockSources, LockInv, ReadersExcludeWriter, Writers
  <2>2. /\ pc' = [pc EXCEPT ![t] = "idle"] /\ pc[t] = "write_unlock"
        /\ UNCHANGED <<sources, source_id>>
        /\ known' = known \cup {source_id[t]}
    BY <1>6 DEF WriteUnlockSources, Goto, callVars
  <2>3. pc'[t] = "idle" /\ \A u \in Threads \ {t} : pc'[u] = pc[u]
    BY <2>2 DEF TypeOK
  <2>4. TableInv'
    <3>1. SortedTable'  BY <2>1, <2>2, <2>3 DEF TableInv, SortedTable
    <3>2. KnownInTable'
      BY <2>2 DEF TableInv, KnownInTable, NewInTable, Added
    <3>3. RestIsNew'
      BY <2>1, <2>2, <2>3 DEF TableInv, RestIsNew, Added
    <3>4. OwnNewId'
      <4>1. \A u \in Threads \ {t} : Registers[u] \cap Registers[t] = {}
        BY TableAssumption
      <4>2. source_id[t] \in Registers[t]
        BY <2>2 DEF TableInv, OwnNewId, Registering
      <4>3. QED
        BY <2>2, <2>3, <4>1, <4>2 DEF TableInv, OwnNewId, Registering
    <3>5. NewInTable'
      BY <2>2, <2>3 DEF TableInv, NewInTable, Added
    <3>6. QED  BY <3>1, <3>2, <3>3, <3>4, <3>5 DEF TableInv
  <2>5. SearchInv'
    BY <2>2, <2>3, <1>6 DEF WriteUnlockSources, callVars, SearchInv
  <2>6. QED  BY <2>4, <2>5
<1>7. CASE ReadLock_Load(t)
  <2>1. TableInv'
    BY <1>7, TableUnmoved
    DEF ReadLock_Load, callVars, Goto, TypeOK, Added, Registering
  <2>2. SearchInv'
    BY <1>7 DEF ReadLock_Load, callVars, Goto, TypeOK, SearchInv
  <2>3. QED  BY <2>1, <2>2
<1>8. CASE ReadLock_SwapFails(t)
  <2>1. TableInv'
    BY <1>8, TableUnmoved
    DEF ReadLock_SwapFails, callVars, Goto, TypeOK, Added, Registering
  <2>2. SearchInv'
    BY <1>8 DEF ReadLock_SwapFails, callVars, Goto, TypeOK, SearchInv
  <2>3. QED  BY <2>1, <2>2
<1>9. CASE ReadLock_Swap(t)
  <2>1. TableInv'
    BY <1>9, TableUnmoved
    DEF ReadLock_Swap, callVars, Goto, TypeOK, Added, Registering
  <2>2. SearchInv'
    BY <1>9 DEF ReadLock_Swap, Goto, TypeOK, SearchInv
  <2>3. QED  BY <2>1, <2>2
<1>10. CASE Search_Probe(t)
  <2>1. TableInv'
    BY <1>10, TableUnmoved DEF Search_Probe, Added, Registering
  <2>2. Writers = {}
    BY <1>10 DEF Search_Probe, LockInv, ReadersExcludeWriter, Readers, Writers
  <2>3. IsSorted(sources)
    BY <2>2 DEF TableInv, SortedTable, Writers
  <2> DEFINE half == count[t] \div 2
             mid  == first[t] + half
  <2>4. /\ count[t] \in Nat /\ first[t] \in Nat \ {0} /\ count[t] > 0
        /\ half \in Nat /\ half < count[t]
        /\ Len(sources) \in Nat /\ first[t] + count[t] <= Len(sources) + 1
    <3>1. count[t] \in Nat /\ first[t] \in Nat \ {0} /\ count[t] > 0
      BY <1>10 DEF Search_Probe, TypeOK
    <3>2. half \in Nat /\ half < count[t]
      BY <3>1
    <3>3. Len(sources) \in Nat
      BY DEF TypeOK
    <3>4. first[t] + count[t] <= Len(sources) + 1
      BY <1>10 DEF Search_Probe, SearchInv
    <3>5. QED  BY <3>1, <3>2, <3>3, <3>4
  <2>5. mid \in 1 .. Len(sources)
    BY <2>4
  <2>6. \A i, j \in 1 .. Len(sources) :
          sources[i] \in Nat /\ (i < j => sources[i] < sources[j])
    BY <2>3, VectorFacts DEF IsSorted
  <2>7. source_id[t] \in Nat
    BY DEF TypeOK
  <2> HIDE DEF half
  <2>8. CASE sources[mid] < source_id[t]
    <3>1. /\ first' = [first EXCEPT ![t] = first[t] + (half + 1)]
          /\ count' = [count EXCEPT ![t] = count[t] - (half + 1)]
      BY <1>10, <2>8 DEF Search_Probe, half
    <3>2. first'[t] = first[t] + (half + 1) /\ count'[t] = count[t] - (half + 1)
      BY <3>1 DEF TypeOK
    <3>3. first'[t] = mid + 1 /\ first'[t] + count'[t] = first[t] + count[t]
      BY <2>4, <3>2
    <3>4. \A j \in 1 .. first'[t] - 1 : sources[j] < source_id[t]
      <4>1. SUFFICES ASSUME NEW j \in 1 .. mid PROVE sources[j] < source_id[t]
        BY <2>4, <3>3
      <4>2. j \in 1 .. Len(sources) /\ (j < mid \/ j = mid)
        BY <2>4, <2>5
      <4>3. QED  BY <2>5, <2>6, <2>7, <2>8, <4>2
    <3>5. QED
      BY <1>10, <2>1, <3>1, <3>3, <3>4 DEF Search_Probe, SearchInv, TypeOK
  <2>9. CASE ~(sources[mid] < source_id[t])
    <3>1. first' = first /\ count' = [count EXCEPT ![t] = half]
      BY <1>10, <2>9 DEF Search_Probe, half
    <3>2. first'[t] = first[t] /\ count'[t] = half
      BY <3>1 DEF TypeOK
    <3>3. \A j \in mid .. Len(sources) : source_id[t] <= sources[j]
      <4>1. SUFFICES ASSUME NEW j \in mid .. Len(sources)
                     PROVE  source_id[t] <= sources[j]
        OBVIOUS
      <4>2. j \in 1 .. Len(sources) /\ (mid < j \/ j = mid)
        BY <2>4, <2>5
      <4>3. sources[mid] <= sources[j] /\ source_id[t] <= sources[mid]
        BY <2>5, <2>6, <2>7, <2>9, <4>2
      <4>4. QED  BY <2>5, <2>6, <2>7, <4>2, <4>3
    <3>4. first'[t] + count'[t] <= Len(sources) + 1
      BY <2>4, <2>5, <3>2
    <3>5. QED
      BY <1>10, <2>1, <3>1, <3>2, <3>3, <3>4 DEF Search_Probe, SearchInv, TypeOK
  <2>10. QED  BY <2>8, <2>9
<1>11. CASE Search_Found(t)
  <2>1. TableInv'
    BY <1>11, TableUnmoved
    DEF Search_Found, callVars, Goto, TypeOK, Added, Registering
  <2>2. SearchInv'
    BY <1>11 DEF Search_Found, callVars, Goto, TypeOK, SearchInv
  <2>3. QED  BY <2>1, <2>2
<1>12. CASE ReadUnlockSources(t)
  <2>1. TableInv'
    BY <1>12, TableUnmoved
    DEF ReadUnlockSources, callVars, Goto, TypeOK, Added, Registering
  <2>2. SearchInv'
    BY <1>12 DEF ReadUnlockSources, callVars, Goto, TypeOK, SearchInv
  <2>3. QED  BY <2>1, <2>2
<1>13. QED
  BY <1>1, <1>2, <1>3, <1>4, <1>5, <1>6, <1>7, <1>8, <1>9, <1>10, <1>11, <1>12
  DEF Call, Proceed

LEMMA InitInv == Init => IInv
<1> SUFFICES ASSUME Init PROVE IInv
  OBVIOUS
<1> USE TableAssumption DEF Init
<1>1. TypeOK
  BY DEF TypeOK, AllReaders, Locations
<1>2. Readers = {} /\ Writers = {}
  BY DEF Readers, Writers
<1>3. LockInv
  BY <1>2, FS_EmptySet DEF LockInv, SemaphoreCounts, ReadersExcludeWriter,
     LoadedUnit, AllReaders
<1>4. TableInv /\ SearchInv
  BY DEF TableInv, SortedTable, KnownInTable, RestIsNew, OwnNewId, NewInTable,
     Added, Registering, SearchInv, IsSorted, Contents
<1>5. QED  BY <1>1, <1>3, <1>4 DEF IInv

LEMMA StepInv == IInv /\ [Next]_vars => IInv'
<1> SUFFICES ASSUME IInv, [Next]_vars PROVE IInv'
  OBVIOUS
<1>1. CASE \E t \in Threads : Call(t) \/ Proceed(t)
  BY <1>1, LockStep, TableStep DEF IInv
<1>2. CASE UNCHANGED vars
  BY <1>2 DEF vars, callVars, IInv, TypeOK, LockInv, SemaphoreCounts, Readers,
     Writers, ReadersExcludeWriter, LoadedUnit, TableInv, SortedTable,
     KnownInTable, RestIsNew, OwnNewId, NewInTable, Added, Registering, SearchInv
<1>3. QED  BY <1>1, <1>2 DEF Next, Finished

\* At the end of a search the range is empty, and since the id is in the
\* vector the position reached is its own.
LEMMA InvAssertions == IInv => AssertionsHold
<1> SUFFICES ASSUME IInv, NEW t \in Threads
             PROVE  AssertionsHold!(t)
  BY DEF AssertionsHold
<1> USE TableAssumption DEF IInv
<1>1. ASSUME pc[t] = "emplace"
      PROVE  IsSorted(sources) /\ source_id[t] \notin Contents(sources)
  <2>1. Writers = {t}
    BY <1>1 DEF LockInv, ReadersExcludeWriter, Writers
  <2>2. \A u \in Threads : pc[u] \notin {"sort", "write_unlock"}
    BY <1>1, <2>1 DEF Writers
  <2>3. Contents(sources) \subseteq known
    BY <2>2 DEF TableInv, RestIsNew, Added
  <2>4. QED
    BY <1>1, <2>2, <2>3 DEF TableInv, SortedTable, OwnNewId, Registering
<1>2. ASSUME pc[t] = "search", count[t] = 0
      PROVE  first[t] \in DOMAIN sources /\ sources[first[t]] = source_id[t]
  <2>1. Writers = {}
    BY <1>2 DEF LockInv, ReadersExcludeWriter, Readers, Writers
  <2>2. IsSorted(sources) /\ source_id[t] \in Contents(sources)
    BY <1>2, <2>1 DEF TableInv, SortedTable, KnownInTable, SearchInv, Writers
  <2>3. PICK i \in DOMAIN sources : sources[i] = source_id[t]
    BY <2>2 DEF Contents
  <2>4. /\ DOMAIN sources = 1 .. Len(sources) /\ Len(sources) \in Nat
        /\ first[t] \in Nat \ {0} /\ source_id[t] \in Nat
        /\ \A j \in DOMAIN sources : sources[j] \in Nat
    BY VectorFacts DEF TypeOK
  <2>5. /\ \A j \in 1 .. first[t] - 1 : sources[j] < source_id[t]
        /\ \A j \in first[t] .. Len(sources) : source_id[t] <= sources[j]
    BY <1>2, <2>4 DEF SearchInv
  <2>6. first[t] <= i
    BY <2>3, <2>4, <2>5
  <2>7. first[t] \in DOMAIN sources
    BY <2>4, <2>6
  <2>8. source_id[t] <= sources[first[t]] /\ sources[first[t]] \in Nat
    BY <2>4, <2>5, <2>7
  <2>9. first[t] < i => sources[first[t]] < source_id[t]
    BY <2>2, <2>3, <2>7 DEF IsSorted
  <2>10. first[t] = i
    BY <2>4, <2>6, <2>8, <2>9
  <2>11. QED
    BY <2>3, <2>10
<1>3. ASSUME pc[t] = "read_unlock" PROVE sources_semaphore < AllReaders
  <2>1. t \in Readers /\ Writers = {}
    BY <1>3 DEF LockInv, ReadersExcludeWriter, Readers, Writers
  <2>2. Cardinality(Readers) # 0
    BY <2>1, ReadersFinite, FS_EmptySet
  <2>3. QED
    BY <2>1, <2>2, ReadersFinite DEF LockInv, SemaphoreCounts, AllReaders
<1>4. QED  BY <1>1, <1>2, <1>3

\* Whatever the threads do, the semaphore stays in its range and every
\* variable keeps its type.
THEOREM TypeCorrect == Spec => []TypeOK
<1>1. IInv => TypeOK  BY DEF IInv
<1>2. QED  BY <1>1, InitInv, StepInv, PTL DEF Spec

\* The vector is never written while another thread reads or writes it.
THEOREM Exclusion == Spec => []ReadersExcludeWriter
<1>1. IInv => ReadersExcludeWriter  BY DEF IInv, LockInv
<1>2. QED  BY <1>1, InitInv, StepInv, PTL DEF Spec

\* No assertion of RegisterSource, GetSourceById or ReadUnlockSources fails: a
\* registered source is found by every lookup, whatever is registered
\* meanwhile.
THEOREM LookupsSucceed == Spec => []AssertionsHold
  BY InitInv, StepInv, InvAssertions, PTL DEF Spec
=============================================================================
