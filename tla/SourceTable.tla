----------------------------- MODULE SourceTable -----------------------------
(***************************************************************************)
(* The table of sources of the scheduler: RegisterSource adds to a sorted  *)
(* vector, every other call looks its source up with a binary search       *)
(* (GetSourceById).  One atomic integer protects the vector: a reader      *)
(* takes one unit of it, a writer needs all of them.                       *)
(*                                                                         *)
(* Every access to the integer and every probe of the search is a step.    *)
(***************************************************************************)
EXTENDS Integers, Sequences, FiniteSets

CONSTANTS Threads,      \* threads that call the scheduler
          NumWorkers,   \* GetNumberOfWorkers()
          Ids,          \* source ids, numbers as in the code
          Registers,    \* per thread: the ids it registers
          MaxLookups    \* bounds the lookups of each thread

AllReaders == NumWorkers + 1

ASSUME TableAssumption ==
  /\ IsFiniteSet(Threads)
  /\ NumWorkers \in Nat \ {0}
  /\ Ids \subseteq Nat /\ Ids # {}
  /\ Registers \in [Threads -> SUBSET Ids]
  /\ \A t, u \in Threads : t # u => Registers[t] \cap Registers[u] = {}
  /\ MaxLookups \in Nat

VARIABLES
  sources_semaphore,  \* AllReaders minus the readers, 0 while writing
  sources,            \* the vector: source ids
  known,              \* ids whose registration has returned
  pc,                 \* per thread: where it is
  source_id,          \* per thread: the argument of its call
  current_readers,    \* per thread: the semaphore as last loaded
  first, count,       \* per thread: the range the search has left
  lookups             \* per thread: lookups so far

callVars == <<source_id, current_readers, first, count, lookups>>
vars == <<sources_semaphore, sources, known, pc, callVars>>

Init ==
  /\ sources_semaphore = AllReaders
  /\ sources = <<>>
  /\ known = {}
  /\ pc = [t \in Threads |-> "idle"]
  /\ source_id = [t \in Threads |-> CHOOSE id \in Ids : TRUE]
  /\ current_readers = [t \in Threads |-> 0]
  /\ first = [t \in Threads |-> 1]
  /\ count = [t \in Threads |-> 0]
  /\ lookups = [t \in Threads |-> 0]

Goto(t, l) == pc' = [pc EXCEPT ![t] = l]

Contents(seq) == {seq[i] : i \in DOMAIN seq}
IsSorted(seq) == \A i, j \in DOMAIN seq : i < j => seq[i] < seq[j]

-----------------------------------------------------------------------------

RegisterSource(t, id) ==
  /\ pc[t] = "idle"
  /\ id \in Registers[t] \ known
  /\ source_id' = [source_id EXCEPT ![t] = id]
  /\ Goto(t, "write_lock")
  /\ UNCHANGED <<sources_semaphore, sources, known, current_readers, first,
                 count, lookups>>

\* The compare-and-swap succeeds when there is no reader and no writer.
BugAnyReader == sources_semaphore > 0
AllFree      == sources_semaphore = AllReaders

WriteLockSources(t) ==
  /\ pc[t] = "write_lock"
  /\ AllFree
  /\ sources_semaphore' = 0
  /\ Goto(t, "emplace")
  /\ UNCHANGED <<sources, known, callVars>>

Emplace(t) ==
  /\ pc[t] = "emplace"
  /\ sources' = Append(sources, source_id[t])
  /\ Goto(t, "sort")
  /\ UNCHANGED <<sources_semaphore, known, callVars>>

BugUnsorted(seq) == {seq}
SortedForms(seq) ==
  {new \in [DOMAIN seq -> Contents(seq)] :
     IsSorted(new) /\ Contents(new) = Contents(seq)}

Sort(t) ==
  /\ pc[t] = "sort"
  /\ sources' \in SortedForms(sources)
  /\ Goto(t, "write_unlock")
  /\ UNCHANGED <<sources_semaphore, known, callVars>>

WriteUnlockSources(t) ==
  /\ pc[t] = "write_unlock"
  /\ sources_semaphore' = AllReaders
  /\ known' = known \cup {source_id[t]}
  /\ Goto(t, "idle")
  /\ UNCHANGED <<sources, callVars>>

-----------------------------------------------------------------------------

\* Callers look up sources that were registered before.
GetSourceById(t, id) ==
  /\ pc[t] = "idle"
  /\ id \in known
  /\ lookups[t] < MaxLookups
  /\ lookups' = [lookups EXCEPT ![t] = @ + 1]
  /\ source_id' = [source_id EXCEPT ![t] = id]
  /\ Goto(t, "read_load")
  /\ UNCHANGED <<sources_semaphore, sources, known, current_readers, first,
                 count>>

\* Loads again as long as there is no unit to take.
ReadLock_Load(t) ==
  /\ pc[t] = "read_load"
  /\ sources_semaphore > 0
  /\ current_readers' = [current_readers EXCEPT ![t] = sources_semaphore]
  /\ Goto(t, "read_swap")
  /\ UNCHANGED <<sources_semaphore, sources, known, source_id, first, count,
                 lookups>>

\* The swap also fails for no reason (compare_exchange_weak).
ReadLock_SwapFails(t) ==
  /\ pc[t] = "read_swap"
  /\ Goto(t, "read_load")
  /\ UNCHANGED <<sources_semaphore, sources, known, callVars>>

BugDecrementsFirst(t) == sources_semaphore = current_readers[t] - 1
Unchanged(t)          == sources_semaphore = current_readers[t]

ReadLock_Swap(t) ==
  /\ pc[t] = "read_swap"
  /\ Unchanged(t)
  /\ sources_semaphore' = current_readers[t] - 1
  /\ first' = [first EXCEPT ![t] = 1]
  /\ count' = [count EXCEPT ![t] = Len(sources)]
  /\ Goto(t, "search")
  /\ UNCHANGED <<sources, known, source_id, current_readers, lookups>>

\* std::lower_bound: one probe halves the range.
Search_Probe(t) ==
  /\ pc[t] = "search"
  /\ count[t] > 0
  /\ LET half == count[t] \div 2
         mid  == first[t] + half
     IN IF sources[mid] < source_id[t]
          THEN /\ first' = [first EXCEPT ![t] = @ + (half + 1)]
               /\ count' = [count EXCEPT ![t] = @ - (half + 1)]
          ELSE /\ count' = [count EXCEPT ![t] = half]
               /\ UNCHANGED first
  /\ UNCHANGED <<sources_semaphore, sources, known, pc, source_id,
                 current_readers, lookups>>

Search_Found(t) ==
  /\ pc[t] = "search"
  /\ count[t] = 0
  /\ Goto(t, "read_unlock")
  /\ UNCHANGED <<sources_semaphore, sources, known, callVars>>

ReadUnlockSources(t) ==
  /\ pc[t] = "read_unlock"
  /\ sources_semaphore' = sources_semaphore + 1
  /\ Goto(t, "idle")
  /\ UNCHANGED <<sources, known, callVars>>

-----------------------------------------------------------------------------

Call(t) == \E id \in Ids : RegisterSource(t, id) \/ GetSourceById(t, id)

Proceed(t) ==
  \/ WriteLockSources(t) \/ Emplace(t) \/ Sort(t) \/ WriteUnlockSources(t)
  \/ ReadLock_Load(t) \/ ReadLock_SwapFails(t) \/ ReadLock_Swap(t)
  \/ Search_Probe(t) \/ Search_Found(t) \/ ReadUnlockSources(t)

\* Everything is registered and looked up.
Finished == /\ \A t \in Threads : pc[t] = "idle" /\ lookups[t] = MaxLookups
            /\ UNCHANGED vars

Next ==
  \/ \E t \in Threads : Call(t) \/ Proceed(t)
  \/ Finished

Spec == Init /\ [][Next]_vars

\* A call under way goes on, and a thread that tries again and again to swap
\* does not fail for ever while the semaphore is as it was loaded.
Fairness == \A t \in Threads : WF_vars(Proceed(t)) /\ SF_vars(ReadLock_Swap(t))

FairSpec == Spec /\ Fairness

-----------------------------------------------------------------------------

Locations == {"idle", "write_lock", "emplace", "sort", "write_unlock",
              "read_load", "read_swap", "search", "read_unlock"}

\* The variables stay in their ranges: among them, the semaphore is never
\* negative and never above the number of readers it stands for.
TypeOK ==
  /\ sources_semaphore \in 0 .. AllReaders
  /\ sources \in Seq(Ids)
  /\ known \subseteq Ids
  /\ pc \in [Threads -> Locations]
  /\ source_id \in [Threads -> Ids]
  /\ current_readers \in [Threads -> 0 .. AllReaders]
  /\ first \in [Threads -> Nat \ {0}]
  /\ count \in [Threads -> Nat]
  /\ lookups \in [Threads -> Nat]

Readers == {t \in Threads : pc[t] \in {"search", "read_unlock"}}
Writers == {t \in Threads : pc[t] \in {"emplace", "sort", "write_unlock"}}

\* Nobody reads the vector while it grows or is sorted, and one thread at a
\* time writes it.
ReadersExcludeWriter ==
  \A w \in Writers : Readers = {} /\ Writers = {w}

\* The assertions of the code: the vector a writer finds is sorted and does
\* not hold the new id; a lookup that ends has found its id; the unit a reader
\* gives back was missing.
AssertionsHold ==
  \A t \in Threads :
    /\ pc[t] = "emplace" =>
         IsSorted(sources) /\ source_id[t] \notin Contents(sources)
    /\ pc[t] = "search" /\ count[t] = 0 =>
         first[t] \in DOMAIN sources /\ sources[first[t]] = source_id[t]
    /\ pc[t] = "read_unlock" => sources_semaphore < AllReaders

\* Every RegisterSource and every lookup returns, the spinning ones too, when
\* the threads do not look sources up without end.
CallsReturn == \A t \in Threads : (pc[t] # "idle") ~> (pc[t] = "idle")
=============================================================================
