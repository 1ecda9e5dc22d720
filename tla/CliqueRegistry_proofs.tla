------------------------ MODULE CliqueRegistry_proofs ------------------------
(* Theorems about CliqueRegistry, for any programs, pids and pages, where no *)
(* two pids share a slot of the table.                                      *)
EXTENDS CliqueRegistry, SequenceTheorems, FiniteSetTheorems, TLAPS

\* No two pids have the same hash.
CollisionFree == \A x, y \in Pids : hash_32[x] = hash_32[y] => x = y

-----------------------------------------------------------------------------
(* The inductive invariant, beyond the types.                              *)

\* A process is listed once, and its name belongs to it alone.
ListInv ==
  /\ \A i, j \in DOMAIN process_list : process_list[i] = process_list[j] => i = j
  /\ IsFiniteSet(Listed)
  /\ \A p \in Listed : comm[p] \in Comms
  /\ \A p, q \in Listed : comm[p] = comm[q] => p = q

\* What is not listed has no threads.
UnlistedInv ==
  /\ \A p \in Proc \ Listed : nthreads[p] = 0
  /\ mode = "unloaded" => process_list = <<>>

\* While the module is in use, each process has as many entries in the table as it has
\* threads, they have numbers, and they are those of live threads.
TableInv ==
  mode = "loaded" =>
    /\ \A p \in Proc : IsFiniteSet(Entries(p)) /\ nthreads[p] = Cardinality(Entries(p))
    /\ \A p \in Proc : nthreads[p] <= NTHREADS
    /\ \A h \in Slots : thread_list[h].pi # NULL => thread_list[h].tid \in Tids

\* Nothing has been recorded in the matrices.
NoRates == \A p \in Proc : matrix[p] = EmptyMatrix

\* What has been recorded about the pages.
PagesInv == ReuseIsClean /\ SharersDistinct /\ NoRates

IInv == TypeOK /\ ListInv /\ UnlistedInv /\ EntryOwner /\ TableInv /\ PagesInv

-----------------------------------------------------------------------------
(* Sequences and sets.                                                     *)

\* A sequence with a new first element.
LEMMA Prepend ==
  ASSUME NEW S, NEW q \in Seq(S), NEW x \in S
  PROVE  /\ <<x>> \o q \in Seq(S)
         /\ Len(<<x>> \o q) = Len(q) + 1
         /\ DOMAIN (<<x>> \o q) = 1 .. Len(q) + 1
         /\ DOMAIN q = 1 .. Len(q) /\ Len(q) \in Nat
         /\ (<<x>> \o q)[1] = x
         /\ \A i \in 1 .. Len(q) : (<<x>> \o q)[i + 1] = q[i]
<1>1. <<x>> \in Seq(S) /\ Len(<<x>>) = 1 /\ <<x>>[1] = x
  OBVIOUS
<1>2. Len(q) \in Nat /\ DOMAIN q = 1 .. Len(q)
  BY LenProperties
<1>3. /\ <<x>> \o q \in Seq(S)
      /\ Len(<<x>> \o q) = Len(q) + 1
      /\ \A i \in 1 .. Len(q) + 1 : (<<x>> \o q)[i] = IF i <= 1 THEN x ELSE q[i - 1]
  BY <1>1, <1>2, ConcatProperties
<1>4. DOMAIN (<<x>> \o q) = 1 .. Len(q) + 1
  BY <1>3, LenProperties
<1>5. (<<x>> \o q)[1] = x
  BY <1>2, <1>3
<1>6. \A i \in 1 .. Len(q) : (<<x>> \o q)[i + 1] = q[i]
  BY <1>2, <1>3
<1> QED BY <1>2, <1>3, <1>4, <1>5, <1>6

\* The slots of the table, and what is in them.
LEMMA SlotFacts ==
  ASSUME TypeOK, NEW pid \in Pids
  PROVE  /\ hash_32[pid] \in Slots
         /\ thread_list[hash_32[pid]].pi \in Proc \cup {NULL}
         /\ thread_list[hash_32[pid]].tid \in -1 .. NTHREADS
BY DEF TypeOK, Slots

\* Every slot is some pid's.
LEMMA SlotOf == \A h \in Slots : \E pid \in Pids : h = hash_32[pid]
BY DEF Slots

\* The listed processes are places for one.
LEMMA ListedFacts ==
  ASSUME TypeOK
  PROVE  Listed \subseteq Proc /\ NULL \notin Proc /\ NULL \notin Comms
<1>1. Listed \subseteq Proc
  BY ElementOfSeq, LenProperties DEF TypeOK, Listed
<1> QED BY <1>1, NullAssumption

-----------------------------------------------------------------------------
(* What the operations do to the table.                                    *)

\* A thread is entered for p in the free slot of pid, with the next number.
Adds(p, pid) ==
  /\ thread_list[hash_32[pid]].pi = NULL
  /\ thread_list' = [thread_list EXCEPT ![hash_32[pid]] = [pi |-> p, tid |-> nthreads[p]]]
  /\ nthreads' = [nthreads EXCEPT ![p] = nthreads[p] + 1]

\* The slot of pid, which is p's, is cleared.
Removes(p, pid) ==
  /\ thread_list[hash_32[pid]].pi = p
  /\ thread_list' = [thread_list EXCEPT ![hash_32[pid]] = Free]
  /\ nthreads' = [nthreads EXCEPT ![p] = nthreads[p] - 1]

\* One more entry.
LEMMA EntriesAdd ==
  ASSUME TypeOK, NEW p \in Proc, NEW pid \in Pids, Adds(p, pid)
  PROVE  /\ Entries(p)' = Entries(p) \cup {hash_32[pid]}
         /\ hash_32[pid] \notin Entries(p)
         /\ \A q \in Proc : q # p => Entries(q)' = Entries(q)
<1>1. hash_32[pid] \in Slots /\ NULL \notin Proc
  BY SlotFacts, NullAssumption
<1>2. \A h \in Slots : thread_list'[h].pi = IF h = hash_32[pid] THEN p ELSE thread_list[h].pi
  BY <1>1 DEF TypeOK, Adds
<1>3. thread_list[hash_32[pid]].pi = NULL
  BY DEF Adds
<1>4. \A q \in Proc : Entries(q)' = {h \in Slots : thread_list'[h].pi = q}
  BY DEF Entries
<1>5. ASSUME NEW q \in Proc, q # p PROVE Entries(q)' = Entries(q)
  BY <1>1, <1>2, <1>3, <1>4, <1>5 DEF Entries
<1>6. Entries(p)' = Entries(p) \cup {hash_32[pid]}
  BY <1>1, <1>2, <1>3, <1>4 DEF Entries
<1>7. hash_32[pid] \notin Entries(p)
  BY <1>1, <1>3 DEF Entries
<1> QED BY <1>5, <1>6, <1>7

\* One entry less.
LEMMA EntriesRemove ==
  ASSUME TypeOK, NEW p \in Proc, NEW pid \in Pids, Removes(p, pid)
  PROVE  /\ Entries(p)' = Entries(p) \ {hash_32[pid]}
         /\ hash_32[pid] \in Entries(p)
         /\ \A q \in Proc : q # p => Entries(q)' = Entries(q)
<1>1. hash_32[pid] \in Slots /\ NULL \notin Proc
  BY SlotFacts, NullAssumption
<1>2. \A h \in Slots : thread_list'[h].pi = IF h = hash_32[pid] THEN NULL ELSE thread_list[h].pi
  BY <1>1 DEF TypeOK, Removes, Free
<1>3. thread_list[hash_32[pid]].pi = p
  BY DEF Removes
<1>4. \A q \in Proc : Entries(q)' = {h \in Slots : thread_list'[h].pi = q}
  BY DEF Entries
<1>5. ASSUME NEW q \in Proc, q # p PROVE Entries(q)' = Entries(q)
  BY <1>1, <1>2, <1>3, <1>4, <1>5 DEF Entries
<1>6. Entries(p)' = Entries(p) \ {hash_32[pid]}
  BY <1>1, <1>2, <1>3, <1>4 DEF Entries
<1>7. hash_32[pid] \in Entries(p)
  BY <1>1, <1>3 DEF Entries
<1> QED BY <1>5, <1>6, <1>7

\* The slot of a pid that is not live is free.
LEMMA DeadSlotFree ==
  ASSUME TypeOK, ListInv, EntryOwner, mode = "loaded", NEW pid \in Pids, alive[pid] = NULL
  PROVE  thread_list[hash_32[pid]].pi = NULL
BY SlotFacts, ListedFacts DEF EntryOwner, ListInv

\* Nothing changes but the live threads, unless it is an oops.
Kept == UNCHANGED <<procVars, matrix, mcs, thread_list>> /\ mode' \in {mode, "oops"}

\* A thread of a listed process, and the first thread of a new one.
Joins(c, p) ==
  /\ p \in Listed /\ comm[p] = c
  /\ UNCHANGED <<process_list, comm, matrix, mcs>>

Founds(c, p) ==
  /\ p \notin Listed /\ \A q \in Listed : comm[q] # c
  /\ process_list' = <<p>> \o process_list
  /\ comm' = [comm EXCEPT ![p] = c]
  /\ matrix' = [matrix EXCEPT ![p] = EmptyMatrix]
  /\ mcs' = [mcs EXCEPT ![p] = NoSharers]

Registers(c, pid) ==
  \E p \in Proc :
    /\ Adds(p, pid)
    /\ Joins(c, p) \/ Founds(c, p)
    /\ mode' \in {"loaded", "oops"}
    /\ mode' = "loaded" => nthreads[p] \in Tids

\* A start is registered as the next thread of its program, or changes nothing.
LEMMA StartStep ==
  ASSUME TypeOK, ListInv, UnlistedInv, EntryOwner, NEW c \in Comms, NEW pid \in Pids,
         ProcessStarts(c, pid) \/ ThreadStarts(c, pid)
  PROVE  /\ mode = "loaded" /\ alive[pid] = NULL /\ alive' = [alive EXCEPT ![pid] = c]
         /\ thread_list[hash_32[pid]].pi = NULL
         /\ Kept \/ Registers(c, pid)
<1>1. mode = "loaded" /\ alive[pid] = NULL /\ alive' = [alive EXCEPT ![pid] = c]
  BY DEF ProcessStarts, ThreadStarts
<1>2. thread_list[hash_32[pid]].pi = NULL
  BY <1>1, DeadSlotFree
<1>3. 0 \in Tids
  BY SizeAssumption DEF Tids
<1>4. Listed \subseteq Proc
  BY ListedFacts
<1>5. CASE ProcessStarts(c, pid)
  <2>1. insert_process(c, pid)
    BY <1>5 DEF ProcessStarts
  <2>2. CASE search_process_info(c) = {} /\ NewProcessNoMemory
    BY <1>1, <1>2, <2>2 DEF NewProcessNoMemory, Kept
  <2>3. CASE search_process_info(c) = {} /\ NewProcess(c, pid)
    <3>1. PICK p \in Proc \ Listed :
            /\ process_list' = <<p>> \o process_list
            /\ comm' = [comm EXCEPT ![p] = c]
            /\ nthreads' = [nthreads EXCEPT ![p] = 1]
            /\ matrix' = [matrix EXCEPT ![p] = EmptyMatrix]
            /\ thread_list' = [thread_list EXCEPT ![hash_32[pid]] = [pi |-> p, tid |-> 0]]
            /\ mcs' = [mcs EXCEPT ![p] = NoSharers]
      BY <2>3 DEF NewProcess
    <3>2. mode' \in {"loaded", "oops"}
      BY <2>3 DEF NewProcess
    <3>3. nthreads[p] = 0 /\ 0 + 1 = 1
      BY DEF UnlistedInv
    <3>4. Adds(p, pid)
      BY <1>2, <3>1, <3>3 DEF Adds
    <3>5. Founds(c, p)
      BY <2>3, <3>1 DEF Founds, search_process_info
    <3> QED BY <1>1, <1>2, <1>3, <3>2, <3>3, <3>4, <3>5 DEF Registers
  <2>4. CASE search_process_info(c) # {}
    <3>1. PICK p \in search_process_info(c) :
            IF nthreads[p] # 0
              THEN UNCHANGED <<procVars, matrix, mcs, thread_list, mode>>
              ELSE ReuseProcess(p, pid)
      BY <2>1, <2>4 DEF insert_process
    <3>2. p \in Proc /\ p \in Listed /\ comm[p] = c
      BY <1>4 DEF search_process_info
    <3>3. CASE nthreads[p] # 0
      BY <1>1, <1>2, <3>1, <3>3 DEF Kept
    <3>4. CASE nthreads[p] = 0
      <4>1. ReuseProcess(p, pid)
        BY <3>1, <3>4
      <4>2. Adds(p, pid)
        BY <1>2, <3>4, <4>1 DEF Adds, ReuseProcess
      <4>3. Joins(c, p) /\ mode' = mode
        BY <3>2, <4>1 DEF Joins, ReuseProcess
      <4> QED BY <1>1, <1>2, <1>3, <3>2, <3>4, <4>2, <4>3 DEF Registers
    <3> QED BY <3>3, <3>4
  <2> QED BY <2>1, <2>2, <2>3, <2>4 DEF insert_process
<1>6. CASE ThreadStarts(c, pid)
  <2>1. insert_thread(c, pid)
    BY <1>6 DEF ThreadStarts
  <2>2. CASE search_process_info(c) = {}
    BY <1>1, <1>2, <2>1, <2>2 DEF insert_thread, Kept
  <2>3. CASE search_process_info(c) # {}
    <3>1. PICK p \in search_process_info(c) :
            /\ nthreads' = [nthreads EXCEPT ![p] = @ + 1]
            /\ thread_list' = [thread_list EXCEPT ![hash_32[pid]] = [pi |-> p, tid |-> nthreads[p]]]
            /\ mode' = IF nthreads[p] \in Tids THEN mode ELSE "oops"
            /\ UNCHANGED <<process_list, comm, matrix, mcs>>
      BY <1>2, <2>1, <2>3 DEF insert_thread
    <3>2. p \in Proc /\ p \in Listed /\ comm[p] = c
      BY <1>4 DEF search_process_info
    <3>3. Adds(p, pid)
      BY <1>2, <3>1 DEF Adds
    <3>4. Joins(c, p)
      BY <3>1, <3>2 DEF Joins
    <3>5. mode' \in {"loaded", "oops"} /\ (mode' = "loaded" => nthreads[p] \in Tids)
      BY <1>1, <3>1
    <3> QED BY <1>1, <1>2, <3>2, <3>3, <3>4, <3>5 DEF Registers
  <2> QED BY <2>2, <2>3
<1> QED BY <1>5, <1>6

\* An exit takes the entry of the thread and a thread from its program, or changes
\* nothing if the thread has no entry.
LEMMA ExitStep ==
  ASSUME TypeOK, ListInv, EntryOwner, NEW c \in Comms, NEW pid \in Pids, ThreadExits(c, pid)
  PROVE  /\ mode = "loaded" /\ mode' = mode /\ alive[pid] = c
         /\ alive' = [alive EXCEPT ![pid] = NULL] /\ UNCHANGED <<process_list, comm>>
         /\ \/ thread_list[hash_32[pid]].pi = NULL /\ Kept
            \/ \E p \in Listed :
                 /\ comm[p] = c /\ Removes(p, pid)
                 /\ IF nthreads[p] = 1 THEN reset_process_info(p) ELSE UNCHANGED <<matrix, mcs>>
<1>1. /\ mode = "loaded" /\ alive[pid] = c /\ alive' = [alive EXCEPT ![pid] = NULL]
      /\ remove_thread(c, pid)
  BY DEF ThreadExits
<1>2. mode' = mode /\ UNCHANGED <<process_list, comm>>
  BY <1>1 DEF remove_thread
<1>3. CASE thread_list[hash_32[pid]].pi = NULL
  <2>1. UNCHANGED <<nthreads, thread_list, matrix, mcs>>
    BY <1>1, <1>3 DEF remove_thread
  <2> QED BY <1>1, <1>2, <1>3, <2>1 DEF Kept, procVars
<1>4. CASE thread_list[hash_32[pid]].pi # NULL
  <2> DEFINE p == thread_list[hash_32[pid]].pi
             match == {i \in DOMAIN process_list : comm[process_list[i]] = c}
  <2>1. p \in Listed /\ comm[p] = c
    BY <1>1, <1>4 DEF EntryOwner
  <2>2. PICK k \in DOMAIN process_list : p = process_list[k]
    BY <2>1 DEF Listed
  <2>3. match = {k}
    BY <2>1, <2>2 DEF ListInv, Listed
  <2>4. k \in Int
    BY LenProperties DEF TypeOK
  <2>5. Reached(c) = p
    <3>1. (CHOOSE i \in match : \A j \in match : i <= j) = k
      BY <2>3, <2>4
    <3>2. match # {}
      BY <2>3
    <3> QED BY <2>2, <3>1, <3>2 DEF Reached
  <2>6. process_list # <<>>
    BY <2>2
  <2>7. /\ thread_list' = [thread_list EXCEPT ![hash_32[pid]] = Free]
        /\ nthreads' = [nthreads EXCEPT ![p] = @ - 1]
        /\ IF nthreads[p] = 1 THEN reset_process_info(p) ELSE UNCHANGED <<matrix, mcs>>
    BY <1>1, <1>4, <2>5, <2>6 DEF remove_thread
  <2>8. Removes(p, pid)
    BY <2>7 DEF Removes
  <2> QED BY <1>1, <1>2, <2>1, <2>7, <2>8
<1> QED BY <1>3, <1>4

-----------------------------------------------------------------------------
(* The list.                                                               *)

\* A step of the running system or of the module, one by one.
LEMMA StepCases ==
  ASSUME [Next]_vars
  PROVE  \/ \E c \in Comms, pid \in Pids : ProcessStarts(c, pid) \/ ThreadStarts(c, pid)
         \/ \E c \in Comms, pid \in Pids : ThreadExits(c, pid)
         \/ \E pid \in Pids, page \in Pages : ThreadAccesses(pid, page)
         \/ exit_scheduler
         \/ init_scheduler
         \/ UNCHANGED vars
BY DEF Next

\* The list with a new process.
LEMMA FoundsList ==
  ASSUME TypeOK, ListInv, NEW c \in Comms, NEW p \in Proc, Founds(c, p)
  PROVE  /\ process_list' \in Seq(Proc)
         /\ Listed' = Listed \cup {p}
         /\ Len(process_list') = Cardinality(Listed)'
         /\ ListInv'
<1> DEFINE q == process_list
           r == process_list'
<1>1. q \in Seq(Proc) /\ Cardinality(Listed) = Len(q)
  BY DEF TypeOK
<1>2. r = <<p>> \o q /\ p \notin Listed
  BY DEF Founds
<1>3. /\ r \in Seq(Proc) /\ Len(r) = Len(q) + 1
      /\ DOMAIN r = 1 .. Len(q) + 1 /\ DOMAIN q = 1 .. Len(q) /\ Len(q) \in Nat
      /\ r[1] = p /\ \A i \in 1 .. Len(q) : r[i + 1] = q[i]
  BY <1>1, <1>2, Prepend
<1>4. \A i \in DOMAIN r : i = 1 \/ (i - 1 \in DOMAIN q /\ r[i] = q[i - 1])
  BY <1>3
<1>5. \A i \in DOMAIN q : i + 1 \in DOMAIN r /\ r[i + 1] = q[i]
  BY <1>3
<1>6. Listed' = Listed \cup {p}
  <2>1. Listed = {q[i] : i \in DOMAIN q} /\ Listed' = {r[i] : i \in DOMAIN r}
    BY DEF Listed
  <2>2. 1 \in DOMAIN r
    BY <1>3
  <2> QED BY <1>3, <1>4, <1>5, <2>1, <2>2
<1>7. IsFiniteSet(Listed') /\ Cardinality(Listed') = Cardinality(Listed) + 1
  BY <1>2, <1>6, FS_AddElement DEF ListInv
<1>8. \A i, j \in DOMAIN r : r[i] = r[j] => i = j
  <2> SUFFICES ASSUME NEW i \in DOMAIN r, NEW j \in DOMAIN r, r[i] = r[j] PROVE i = j
    OBVIOUS
  <2>1. \A k \in DOMAIN q : q[k] # p
    BY <1>2 DEF Listed
  <2>2. CASE i = 1 \/ j = 1
    BY <1>3, <1>4, <2>1, <2>2
  <2>3. CASE i # 1 /\ j # 1
    <3>1. i - 1 = j - 1
      BY <1>4, <2>3 DEF ListInv
    <3> QED BY <1>3, <3>1
  <2> QED BY <2>2, <2>3
<1>9. \A x \in Listed' : comm'[x] = IF x = p THEN c ELSE comm[x]
  BY <1>6, ListedFacts DEF TypeOK, Founds
<1>10. \A x \in Listed : x # p /\ comm[x] # c
  BY DEF Founds
<1>11. \A x \in Listed' : comm'[x] \in Comms
  BY <1>6, <1>9 DEF ListInv
<1>12. \A x, y \in Listed' : comm'[x] = comm'[y] => x = y
  BY <1>6, <1>9, <1>10 DEF ListInv
<1>13. ListInv'
  BY <1>7, <1>8, <1>11, <1>12 DEF ListInv
<1> QED BY <1>1, <1>3, <1>6, <1>7, <1>13

\* An empty list.
LEMMA EmptyListed ==
  ASSUME process_list' = <<>>
  PROVE  Listed' = {} /\ process_list' \in Seq(Proc) /\ Cardinality(Listed)' = Len(process_list')
         /\ ListInv'
<1>1. Listed' = {} /\ DOMAIN process_list' = {}
  BY DEF Listed
<1> QED BY <1>1, FS_EmptySet DEF ListInv

\* A list that stays keeps what is known of it.
LEMMA SameList ==
  ASSUME ListInv, UNCHANGED <<process_list, comm>>
  PROVE  ListInv' /\ Listed' = Listed
<1>1. Listed' = Listed
  BY DEF Listed
<1> QED BY <1>1 DEF ListInv

\* Every step keeps the list.
LEMMA ListStep ==
  ASSUME TypeOK, ListInv, UnlistedInv, EntryOwner, [Next]_vars
  PROVE  ListInv'
<1>1. ASSUME NEW c \in Comms, NEW pid \in Pids, ProcessStarts(c, pid) \/ ThreadStarts(c, pid)
      PROVE  ListInv'
  <2>1. Kept \/ Registers(c, pid)
    BY <1>1, StartStep
  <2>2. CASE Kept
    BY <2>2, SameList DEF Kept, procVars
  <2>3. CASE Registers(c, pid)
    <3>1. PICK p \in Proc : Joins(c, p) \/ Founds(c, p)
      BY <2>3 DEF Registers
    <3> QED BY <3>1, SameList, FoundsList DEF Joins
  <2> QED BY <2>1, <2>2, <2>3
<1>2. ASSUME NEW c \in Comms, NEW pid \in Pids, ThreadExits(c, pid)
      PROVE  ListInv'
  BY <1>2, ExitStep, SameList
<1>3. ASSUME NEW pid \in Pids, NEW page \in Pages, ThreadAccesses(pid, page)
      PROVE  ListInv'
  BY <1>3, SameList DEF ThreadAccesses, procVars
<1>4. CASE exit_scheduler \/ init_scheduler
  BY <1>4, EmptyListed DEF exit_scheduler, init_scheduler
<1>5. CASE UNCHANGED vars
  BY <1>5, SameList DEF vars, procVars
<1> QED BY <1>1, <1>2, <1>3, <1>4, <1>5, StepCases

-----------------------------------------------------------------------------
(* The table.                                                              *)

TablePart == UnlistedInv /\ EntryOwner /\ TableInv

\* The slots of other pids are other slots.
LEMMA OtherSlots ==
  ASSUME CollisionFree, NEW x \in Pids, NEW y \in Pids, x # y
  PROVE  hash_32[x] # hash_32[y]
BY DEF CollisionFree

\* A registration keeps the table.
LEMMA RegistersTable ==
  ASSUME CollisionFree, TypeOK, ListInv, TablePart, NEW c \in Comms, NEW pid \in Pids,
         mode = "loaded", alive' = [alive EXCEPT ![pid] = c], Registers(c, pid)
  PROVE  TablePart'
<1>1. PICK p \in Proc :
        /\ Adds(p, pid) /\ (Joins(c, p) \/ Founds(c, p))
        /\ mode' \in {"loaded", "oops"} /\ (mode' = "loaded" => nthreads[p] \in Tids)
  BY DEF Registers
<1>2. /\ thread_list' = [thread_list EXCEPT ![hash_32[pid]] = [pi |-> p, tid |-> nthreads[p]]]
      /\ nthreads' = [nthreads EXCEPT ![p] = nthreads[p] + 1]
  BY <1>1 DEF Adds
<1>3. hash_32[pid] \in Slots /\ Listed \subseteq Proc /\ NULL \notin Proc
  BY SlotFacts, ListedFacts
<1>4. /\ Listed \subseteq Listed' /\ p \in Listed' /\ comm'[p] = c
      /\ \A q \in Listed : comm'[q] = comm[q]
  <2>1. CASE Joins(c, p)
    BY <2>1 DEF Joins, Listed
  <2>2. CASE Founds(c, p)
    <3>1. Listed' = Listed \cup {p}
      BY <2>2, FoundsList
    <3> QED BY <1>3, <2>2, <3>1 DEF Founds, TypeOK
  <2> QED BY <1>1, <2>1, <2>2
<1>5. UnlistedInv'
  BY <1>1, <1>2, <1>4 DEF TablePart, UnlistedInv, TypeOK
<1>6. EntryOwner'
  <2> SUFFICES ASSUME NEW x \in Pids, thread_list'[hash_32[x]].pi # NULL
               PROVE  /\ thread_list'[hash_32[x]].pi \in Listed'
                      /\ alive'[x] = comm'[thread_list'[hash_32[x]].pi]
    BY DEF EntryOwner
  <2>1. CASE x = pid
    BY <1>2, <1>3, <1>4, <2>1 DEF TypeOK
  <2>2. CASE x # pid
    <3>1. thread_list'[hash_32[x]] = thread_list[hash_32[x]]
      BY <1>2, <2>2, OtherSlots, SlotFacts DEF TypeOK
    <3>2. alive'[x] = alive[x]
      BY <2>2 DEF TypeOK
    <3>3. /\ thread_list[hash_32[x]].pi \in Listed
          /\ alive[x] = comm[thread_list[hash_32[x]].pi]
      BY <3>1 DEF TablePart, EntryOwner
    <3> QED BY <1>4, <3>1, <3>2, <3>3
  <2> QED BY <2>1, <2>2
<1>7. TableInv'
  <2> SUFFICES ASSUME mode' = "loaded" PROVE TableInv'
    BY DEF TableInv
  <2>1. nthreads[p] \in Tids
    BY <1>1
  <2>2. /\ Entries(p)' = Entries(p) \cup {hash_32[pid]} /\ hash_32[pid] \notin Entries(p)
        /\ \A q \in Proc : q # p => Entries(q)' = Entries(q)
    BY <1>1, EntriesAdd
  <2>3. \A q \in Proc : IsFiniteSet(Entries(q)) /\ nthreads[q] = Cardinality(Entries(q))
    BY DEF TablePart, TableInv
  <2>4. IsFiniteSet(Entries(p)') /\ Cardinality(Entries(p)') = nthreads[p] + 1
    BY <2>2, <2>3, FS_AddElement
  <2>5. ASSUME NEW q \in Proc
        PROVE  /\ IsFiniteSet(Entries(q)') /\ nthreads'[q] = Cardinality(Entries(q)')
               /\ nthreads'[q] <= NTHREADS
    <3>1. CASE q = p
      BY <1>2, <2>1, <2>4, <3>1, SizeAssumption DEF TypeOK, Tids
    <3>2. CASE q # p
      BY <1>2, <2>2, <2>3, <3>2 DEF TypeOK, TablePart, TableInv
    <3> QED BY <3>1, <3>2
  <2>6. ASSUME NEW h \in Slots, thread_list'[h].pi # NULL
        PROVE  thread_list'[h].tid \in Tids
    <3>1. CASE h = hash_32[pid]
      BY <1>2, <2>1, <3>1 DEF TypeOK
    <3>2. CASE h # hash_32[pid]
      BY <1>2, <2>6, <3>2 DEF TypeOK, TablePart, TableInv
    <3> QED BY <3>1, <3>2
  <2> QED BY <2>5, <2>6 DEF TableInv
<1> QED BY <1>5, <1>6, <1>7 DEF TablePart

\* An exit keeps the table.
LEMMA ExitTable ==
  ASSUME CollisionFree, TypeOK, ListInv, TablePart, NEW c \in Comms, NEW pid \in Pids,
         ThreadExits(c, pid)
  PROVE  TablePart'
<1>1. /\ mode = "loaded" /\ mode' = mode /\ alive[pid] = c
      /\ alive' = [alive EXCEPT ![pid] = NULL] /\ UNCHANGED <<process_list, comm>>
  BY ExitStep DEF TablePart
<1>2. Listed' = Listed /\ Listed \subseteq Proc /\ NULL \notin Proc
  BY <1>1, SameList, ListedFacts
<1>3. CASE thread_list[hash_32[pid]].pi = NULL /\ Kept
  <2>1. UNCHANGED <<nthreads, thread_list>> /\ \A q \in Proc : Entries(q)' = Entries(q)
    BY <1>3 DEF Kept, procVars, Entries
  <2>2. UnlistedInv' /\ TableInv'
    BY <1>1, <1>2, <2>1 DEF TablePart, UnlistedInv, TableInv
  <2>3. EntryOwner'
    BY <1>1, <1>2, <1>3, <2>1 DEF TablePart, EntryOwner, TypeOK
  <2> QED BY <2>2, <2>3 DEF TablePart
<1>4. ASSUME NEW p \in Listed, Removes(p, pid)
      PROVE  TablePart'
  <2>1. /\ thread_list' = [thread_list EXCEPT ![hash_32[pid]] = Free]
        /\ nthreads' = [nthreads EXCEPT ![p] = nthreads[p] - 1]
        /\ p \in Proc /\ hash_32[pid] \in Slots
    BY <1>2, <1>4, SlotFacts DEF Removes
  <2>2. /\ Entries(p)' = Entries(p) \ {hash_32[pid]} /\ hash_32[pid] \in Entries(p)
        /\ \A q \in Proc : q # p => Entries(q)' = Entries(q)
    BY <1>4, <2>1, EntriesRemove
  <2>3. \A q \in Proc : IsFiniteSet(Entries(q)) /\ nthreads[q] = Cardinality(Entries(q))
    BY <1>1 DEF TablePart, TableInv
  <2>4. IsFiniteSet(Entries(p)') /\ Cardinality(Entries(p)') = nthreads[p] - 1
    <3>1. IsFiniteSet(Entries(p)) /\ nthreads[p] = Cardinality(Entries(p))
      BY <2>1, <2>3
    <3>2. /\ IsFiniteSet(Entries(p) \ {hash_32[pid]})
          /\ Cardinality(Entries(p) \ {hash_32[pid]}) = Cardinality(Entries(p)) - 1
      BY <2>2, <3>1, FS_RemoveElement
    <3> QED BY <2>2, <3>1, <3>2
  <2>5. ASSUME NEW q \in Proc
        PROVE  /\ IsFiniteSet(Entries(q)') /\ nthreads'[q] = Cardinality(Entries(q)')
               /\ nthreads'[q] <= nthreads[q]
    <3>1. nthreads[q] \in Nat /\ nthreads'[q] = IF q = p THEN nthreads[p] - 1 ELSE nthreads[q]
      BY <2>1 DEF TypeOK
    <3>2. CASE q = p
      BY <2>4, <3>1, <3>2
    <3>3. CASE q # p
      BY <2>2, <2>3, <3>1, <3>3
    <3> QED BY <3>2, <3>3
  <2>6. \A h \in Slots : thread_list'[h].pi # NULL => thread_list'[h] = thread_list[h]
    BY <2>1 DEF TypeOK, Free
  <2>7. TableInv'
    <3>1. \A q \in Proc : nthreads'[q] <= NTHREADS
      BY <1>1, <2>1, <2>5, SizeAssumption DEF TablePart, TableInv, TypeOK
    <3>2. \A h \in Slots : thread_list'[h].pi # NULL => thread_list'[h].tid \in Tids
      BY <1>1, <2>6 DEF TablePart, TableInv
    <3> QED BY <1>1, <2>5, <3>1, <3>2 DEF TableInv
  <2>8. UnlistedInv'
    BY <1>1, <1>2, <1>4, <2>1 DEF TablePart, UnlistedInv, TypeOK
  <2>9. EntryOwner'
    <3> SUFFICES ASSUME NEW x \in Pids, thread_list'[hash_32[x]].pi # NULL
                 PROVE  /\ thread_list'[hash_32[x]].pi \in Listed'
                        /\ alive'[x] = comm'[thread_list'[hash_32[x]].pi]
      BY DEF EntryOwner
    <3>1. x # pid
      BY <2>1 DEF TypeOK, Free
    <3>2. alive'[x] = alive[x] /\ thread_list'[hash_32[x]] = thread_list[hash_32[x]]
      BY <1>1, <2>6, <3>1, SlotFacts DEF TypeOK
    <3> QED BY <1>1, <1>2, <3>2 DEF TablePart, EntryOwner
  <2> QED BY <2>7, <2>8, <2>9 DEF TablePart
<1> QED BY <1>3, <1>4, ExitStep DEF TablePart

\* A step that changes neither the list nor the table keeps the table.
LEMMA SameTable ==
  ASSUME ListInv, TablePart, UNCHANGED <<procVars, thread_list, alive>>,
         mode' = mode \/ mode' = "oops"
  PROVE  TablePart'
<1>1. UNCHANGED <<process_list, comm, nthreads>> /\ Listed' = Listed
  BY SameList DEF procVars
<1>2. \A p : Entries(p)' = Entries(p)
  BY DEF Entries
<1> QED BY <1>1, <1>2 DEF TablePart, UnlistedInv, EntryOwner, TableInv

\* Every step keeps the table.
LEMMA TableStep ==
  ASSUME CollisionFree, TypeOK, ListInv, TablePart, [Next]_vars
  PROVE  TablePart'
<1>1. ASSUME NEW c \in Comms, NEW pid \in Pids, ProcessStarts(c, pid) \/ ThreadStarts(c, pid)
      PROVE  TablePart'
  <2>1. /\ mode = "loaded" /\ alive' = [alive EXCEPT ![pid] = c]
        /\ thread_list[hash_32[pid]].pi = NULL /\ (Kept \/ Registers(c, pid))
    BY <1>1, StartStep DEF TablePart
  <2>2. CASE Kept
    <3>1. /\ UNCHANGED <<process_list, comm, nthreads, thread_list>> /\ mode' \in {mode, "oops"}
          /\ Listed' = Listed /\ \A p : Entries(p)' = Entries(p)
      BY <2>2, SameList DEF Kept, procVars, Entries
    <3>2. UnlistedInv' /\ TableInv'
      BY <3>1 DEF TablePart, UnlistedInv, TableInv
    <3>3. EntryOwner'
      BY <2>1, <3>1 DEF TablePart, EntryOwner, TypeOK
    <3> QED BY <3>2, <3>3 DEF TablePart
  <2>3. CASE Registers(c, pid)
    BY <2>1, <2>3, RegistersTable
  <2> QED BY <2>1, <2>2, <2>3
<1>2. ASSUME NEW c \in Comms, NEW pid \in Pids, ThreadExits(c, pid)
      PROVE  TablePart'
  BY <1>2, ExitTable
<1>3. ASSUME NEW pid \in Pids, NEW page \in Pages, ThreadAccesses(pid, page)
      PROVE  TablePart'
  <2>1. mode' = mode \/ mode' = "oops"
    BY <1>3 DEF ThreadAccesses, record_access
  <2> QED BY <1>3, <2>1, SameTable DEF ThreadAccesses
<1>4. CASE exit_scheduler
  <2>1. process_list' = <<>> /\ nthreads' = [p \in Proc |-> 0] /\ mode' = "unloaded"
    BY <1>4 DEF exit_scheduler
  <2> QED BY <2>1 DEF TablePart, UnlistedInv, EntryOwner, TableInv
<1>5. CASE init_scheduler
  <2>1. /\ mode = "unloaded" /\ process_list' = <<>> /\ thread_list' = EmptyTable
        /\ mode' = "loaded" /\ nthreads' = nthreads
    BY <1>5 DEF init_scheduler
  <2>2. Listed = {} /\ NULL \notin Proc
    BY <2>1, NullAssumption DEF TablePart, UnlistedInv, Listed
  <2>3. \A p \in Proc : nthreads'[p] = 0
    BY <2>1, <2>2 DEF TablePart, UnlistedInv
  <2>4. \A h \in Slots : thread_list'[h].pi = NULL
    BY <2>1 DEF EmptyTable, Free
  <2>5. \A p \in Proc : Entries(p)' = {}
    BY <2>2, <2>4 DEF Entries
  <2>6. EntryOwner'
    BY <2>4 DEF EntryOwner, Slots
  <2>7. TableInv'
    <3>1. IsFiniteSet({}) /\ Cardinality({}) = 0 /\ 0 <= NTHREADS
      BY FS_EmptySet, SizeAssumption
    <3>2. \A p \in Proc : /\ IsFiniteSet(Entries(p)') /\ nthreads'[p] = Cardinality(Entries(p)')
                          /\ nthreads'[p] <= NTHREADS
      BY <2>3, <2>5, <3>1
    <3> QED BY <2>4, <3>2 DEF TableInv
  <2> QED BY <2>1, <2>3, <2>6, <2>7 DEF TablePart, UnlistedInv
<1>6. CASE UNCHANGED vars
  BY <1>6, SameTable DEF vars
<1> QED BY <1>1, <1>2, <1>3, <1>4, <1>5, <1>6, StepCases

-----------------------------------------------------------------------------
(* The pages.                                                              *)

Sharers == (Tids \cup {-1}) \X (Tids \cup {-1})

Distinct(mc) == mc[2] # -1 => mc[1] \notin {-1, mc[2]}

\* How many threads are recorded for a page.
LEMMA ShareCount ==
  ASSUME NEW mc \in Sharers, Distinct(mc)
  PROVE  get_nshare(mc) = IF mc[1] = -1 THEN 0 ELSE IF mc[2] = -1 THEN 1 ELSE 2
<1> DEFINE S == {k \in {1, 2} : mc[k] # -1}
<1>1. get_nshare(mc) = Cardinality(S)
  BY DEF get_nshare
<1>2. CASE mc[1] = -1
  <2>1. S = {}
    BY <1>2 DEF Distinct
  <2> QED BY <1>1, <1>2, <2>1, FS_EmptySet
<1>3. CASE mc[1] # -1 /\ mc[2] = -1
  <2>1. S = {1}
    BY <1>3
  <2> QED BY <1>1, <1>3, <2>1, FS_Singleton
<1>4. CASE mc[1] # -1 /\ mc[2] # -1
  <2>1. S = {1} \cup {2}
    BY <1>4
  <2>2. Cardinality({1} \cup {2}) = 2
    <3>1. IsFiniteSet({1}) /\ Cardinality({1}) = 1
      BY FS_Singleton
    <3>2. 2 \notin {1}
      OBVIOUS
    <3>3. Cardinality({1} \cup {2}) = Cardinality({1}) + 1
      BY <3>1, <3>2, FS_AddElement
    <3> QED BY <3>1, <3>3
  <2> QED BY <1>1, <1>4, <2>1, <2>2
<1> QED BY <1>2, <1>3, <1>4

\* The sharers of a page are sharers after an access too.
LEMMA SharersKept ==
  ASSUME NEW mc \in Sharers, Distinct(mc), NEW tid \in Tids
  PROVE  NextSharers(mc, tid) \in Sharers /\ Distinct(NextSharers(mc, tid))
<1>1. tid \in Nat /\ tid # -1
  BY SizeAssumption DEF Tids
<1>2. /\ mc = <<mc[1], mc[2]>>
      /\ mc[1] \in Tids \cup {-1} /\ mc[2] \in Tids \cup {-1}
  BY DEF Sharers
<1>3. CASE mc[1] = -1
  <2>1. get_nshare(mc) = 0
    BY <1>3, ShareCount
  <2>2. NextSharers(mc, tid) = <<tid, mc[2]>>
    BY <1>2, <2>1 DEF NextSharers
  <2> QED BY <1>1, <1>2, <1>3, <2>2 DEF Sharers, Distinct
<1>4. CASE mc[1] # -1
  <2>1. get_nshare(mc) \in {1, 2} /\ (get_nshare(mc) = 1 <=> mc[2] = -1)
    BY <1>4, ShareCount
  <2>2. CASE mc[1] # tid /\ (mc[2] = -1 \/ mc[2] = tid)
    <3>1. NextSharers(mc, tid) = <<tid, mc[1]>>
      BY <2>1, <2>2 DEF NextSharers
    <3> QED BY <1>1, <1>2, <2>2, <3>1 DEF Sharers, Distinct
  <2>3. CASE ~(mc[1] # tid /\ (mc[2] = -1 \/ mc[2] = tid))
    <3>1. NextSharers(mc, tid) = mc
      BY <2>1, <2>3 DEF NextSharers
    <3> QED BY <3>1
  <2> QED BY <2>2, <2>3
<1> QED BY <1>3, <1>4

\* What inc_matrix makes of the matrix of zeros.
LEMMA IncZero ==
  ASSUME NEW x \in Tids, NEW y \in Tids, x # y
  PROVE  inc_matrix(EmptyMatrix, x, y) = EmptyMatrix
<1> DEFINE m == EmptyMatrix
           n == [m EXCEPT ![x][y] = @ + 1]
           r == [n EXCEPT ![x][y] = n[y][x]]
<1>1. m \in [Tids -> [Tids -> Nat]] /\ \A i, j \in Tids : m[i][j] = 0
  BY DEF EmptyMatrix
<1>2. n \in [Tids -> [Tids -> Nat]] /\ n[y][x] = 0
  BY <1>1
<1>3. \A i, j \in Tids : (i # x \/ j # y) => n[i][j] = 0
  BY <1>1
<1>4. r \in [Tids -> [Tids -> Nat]] /\ \A i, j \in Tids : r[i][j] = 0
  BY <1>2, <1>3
<1>5. r = m
  BY <1>4 DEF EmptyMatrix
<1> QED BY <1>5 DEF inc_matrix

\* So no access changes it.
LEMMA MatrixZero ==
  ASSUME NEW mc \in Sharers, Distinct(mc), NEW tid \in Tids
  PROVE  NextMatrix(EmptyMatrix, mc, tid) = EmptyMatrix
<1>1. mc[1] \in Tids \cup {-1} /\ mc[2] \in Tids \cup {-1}
  BY DEF Sharers
<1>2. CASE mc[1] = -1
  <2>1. get_nshare(mc) = 0
    BY <1>2, ShareCount
  <2> QED BY <2>1 DEF NextMatrix
<1>3. CASE mc[1] # -1 /\ mc[2] = -1
  <2>1. get_nshare(mc) = 1
    BY <1>3, ShareCount
  <2>2. mc[1] # tid => inc_matrix(EmptyMatrix, tid, mc[1]) = EmptyMatrix
    BY <1>1, <1>3, IncZero
  <2> QED BY <2>1, <2>2 DEF NextMatrix
<1>4. CASE mc[1] # -1 /\ mc[2] # -1
  <2>1. get_nshare(mc) = 2
    BY <1>4, ShareCount
  <2>2. mc[1] # tid => inc_matrix(EmptyMatrix, tid, mc[1]) = EmptyMatrix
    BY <1>1, <1>4, IncZero
  <2>3. mc[2] # tid => inc_matrix(EmptyMatrix, tid, mc[2]) = EmptyMatrix
    BY <1>1, <1>4, IncZero
  <2> QED BY <2>1, <2>2, <2>3 DEF NextMatrix
<1> QED BY <1>2, <1>3, <1>4

\* What an access does: an oops, or a new pair of sharers for a page of a process that
\* has threads.
LEMMA AccessStep ==
  ASSUME TypeOK, ListInv, TablePart, PagesInv, NEW pid \in Pids, NEW page \in Pages,
         ThreadAccesses(pid, page)
  PROVE  /\ UNCHANGED <<process_list, comm, nthreads, matrix, thread_list, alive>>
         /\ \/ mode' = "oops" /\ mcs' = mcs
            \/ /\ mode' = mode
               /\ \E p \in Listed, mc \in Sharers :
                    /\ nthreads[p] # 0 /\ Distinct(mc)
                    /\ mcs' = [mcs EXCEPT ![p] = [mcs[p] EXCEPT ![page] = mc]]
<1>1. mode = "loaded" /\ record_access(pid, page) /\ UNCHANGED <<procVars, thread_list, alive>>
  BY DEF ThreadAccesses
<1> DEFINE h == hash_32[pid]
           p == thread_list[h].pi
           tid == thread_list[h].tid
<1>2. CASE p = NULL
  BY <1>1, <1>2 DEF record_access, procVars
<1>3. CASE p # NULL
  <2>1. h \in Slots /\ p \in Listed /\ p \in Proc /\ tid \in Tids
    BY <1>1, <1>3, SlotFacts, ListedFacts DEF TablePart, EntryOwner, TableInv
  <2>2. nthreads[p] # 0
    <3>1. h \in Entries(p)
      BY <2>1 DEF Entries
    <3>2. IsFiniteSet(Entries(p)) /\ nthreads[p] = Cardinality(Entries(p))
      BY <1>1, <2>1 DEF TablePart, TableInv
    <3> QED BY <3>1, <3>2, FS_EmptySet
  <2>3. mcs[p][page] \in Sharers /\ Distinct(mcs[p][page])
    BY <2>1 DEF TypeOK, PagesInv, SharersDistinct, Sharers, Distinct
  <2>4. /\ mcs' = [mcs EXCEPT ![p][page] = NextSharers(@, tid)]
        /\ matrix' = [matrix EXCEPT ![p] = NextMatrix(@, mcs[p][page], tid)]
        /\ mode' = mode
    BY <1>1, <1>3 DEF record_access
  <2>5. mcs' = [mcs EXCEPT ![p] = [mcs[p] EXCEPT ![page] = NextSharers(mcs[p][page], tid)]]
    BY <2>1, <2>4 DEF TypeOK
  <2>6. matrix[p] = EmptyMatrix /\ NextMatrix(EmptyMatrix, mcs[p][page], tid) = EmptyMatrix
    BY <2>1, <2>3, MatrixZero DEF PagesInv, NoRates
  <2>7. matrix' = matrix
    BY <2>1, <2>4, <2>6 DEF TypeOK
  <2>8. NextSharers(mcs[p][page], tid) \in Sharers /\ Distinct(NextSharers(mcs[p][page], tid))
    BY <2>1, <2>3, SharersKept
  <2> QED BY <1>1, <2>1, <2>2, <2>4, <2>5, <2>7, <2>8 DEF procVars
<1> QED BY <1>2, <1>3

\* A record of pages that an operation gives to one process.
LEMMA PagesGiven ==
  ASSUME TypeOK, SharersDistinct, NEW p \in Proc, NEW f \in [Pages -> Sharers],
         mcs' = [mcs EXCEPT ![p] = f], \A g \in Pages : Distinct(f[g])
  PROVE  SharersDistinct' /\ mcs' \in [Proc -> [Pages -> Sharers]]
BY DEF TypeOK, SharersDistinct, Distinct, Sharers

\* No sharers, and no rates.
LEMMA CleanFacts ==
  /\ NoSharers \in [Pages -> Sharers] /\ \A g \in Pages : Distinct(NoSharers[g])
  /\ EmptyMatrix \in [Tids -> [Tids -> Nat]]
BY DEF NoSharers, Unused, Sharers, Distinct, EmptyMatrix

\* Every step keeps what is recorded about the pages.
LEMMA PagesStep ==
  ASSUME TypeOK, ListInv, TablePart, PagesInv, [Next]_vars
  PROVE  PagesInv'
<1>1. ReuseIsClean /\ SharersDistinct /\ NoRates /\ Listed \subseteq Proc
  BY ListedFacts DEF PagesInv
<1>2. ASSUME UNCHANGED <<process_list, comm, nthreads, matrix, mcs>>, mode' = mode \/ mode' = "oops"
      PROVE  PagesInv'
  <2>1. Listed' = Listed
    BY <1>2 DEF Listed
  <2> QED BY <1>1, <1>2, <2>1 DEF PagesInv, ReuseIsClean, SharersDistinct, NoRates
<1>3. ASSUME NEW p \in Proc, mcs' = [mcs EXCEPT ![p] = NoSharers],
             matrix' = [matrix EXCEPT ![p] = EmptyMatrix]
      PROVE  SharersDistinct' /\ NoRates'
  <2>1. SharersDistinct'
    BY <1>1, <1>3, CleanFacts, PagesGiven
  <2>2. NoRates'
    BY <1>1, <1>3 DEF TypeOK, NoRates
  <2> QED BY <2>1, <2>2
<1>4. ASSUME NEW c \in Comms, NEW pid \in Pids, ProcessStarts(c, pid) \/ ThreadStarts(c, pid)
      PROVE  PagesInv'
  <2>1. mode = "loaded" /\ (Kept \/ Registers(c, pid))
    BY <1>4, StartStep DEF TablePart
  <2>2. CASE Kept
    BY <1>2, <2>2 DEF Kept, procVars
  <2>3. CASE Registers(c, pid)
    <3>1. PICK p \in Proc : Adds(p, pid) /\ (Joins(c, p) \/ Founds(c, p))
      BY <2>3 DEF Registers
    <3>2. \A q \in Proc : nthreads'[q] = IF q = p THEN nthreads[p] + 1 ELSE nthreads[q]
      BY <3>1 DEF TypeOK, Adds
    <3>3. nthreads'[p] # 0
      BY <3>2 DEF TypeOK
    <3>4. CASE Joins(c, p)
      <4>1. Listed' = Listed /\ UNCHANGED <<matrix, mcs>>
        BY <3>4 DEF Joins, Listed
      <4>2. ReuseIsClean'
        BY <1>1, <2>1, <3>2, <3>3, <4>1 DEF ReuseIsClean
      <4> QED BY <1>1, <4>1, <4>2 DEF PagesInv, SharersDistinct, NoRates
    <3>5. CASE Founds(c, p)
      <4>1. Listed' = Listed \cup {p}
        BY <3>5, FoundsList
      <4>2. mcs' = [mcs EXCEPT ![p] = NoSharers] /\ matrix' = [matrix EXCEPT ![p] = EmptyMatrix]
        BY <3>5 DEF Founds
      <4>3. ReuseIsClean'
        BY <1>1, <2>1, <3>2, <3>3, <4>1, <4>2 DEF ReuseIsClean, TypeOK
      <4> QED BY <1>3, <4>2, <4>3 DEF PagesInv
    <3> QED BY <3>1, <3>4, <3>5
  <2> QED BY <2>1, <2>2, <2>3
<1>5. ASSUME NEW c \in Comms, NEW pid \in Pids, ThreadExits(c, pid)
      PROVE  PagesInv'
  <2>1. mode = "loaded" /\ mode' = mode /\ UNCHANGED <<process_list, comm>> /\ Listed' = Listed
    BY <1>5, ExitStep, SameList DEF TablePart
  <2>2. CASE Kept
    BY <1>2, <2>2 DEF Kept, procVars
  <2>3. ASSUME NEW p \in Listed, Removes(p, pid),
               IF nthreads[p] = 1 THEN reset_process_info(p) ELSE UNCHANGED <<matrix, mcs>>
        PROVE  PagesInv'
    <3>1. p \in Proc /\ \A q \in Proc : nthreads'[q] = IF q = p THEN nthreads[p] - 1 ELSE nthreads[q]
      BY <1>1, <2>3 DEF TypeOK, Removes
    <3>2. CASE nthreads[p] = 1
      <4>1. mcs' = [mcs EXCEPT ![p] = NoSharers] /\ matrix' = [matrix EXCEPT ![p] = EmptyMatrix]
        BY <2>3, <3>2 DEF reset_process_info
      <4>2. ReuseIsClean'
        BY <1>1, <2>1, <3>1, <4>1 DEF ReuseIsClean, TypeOK
      <4> QED BY <1>3, <3>1, <4>1, <4>2 DEF PagesInv
    <3>3. CASE nthreads[p] # 1
      <4>1. UNCHANGED <<matrix, mcs>>
        BY <2>3, <3>3
      <4>2. nthreads'[p] # 0
        BY <3>1, <3>3 DEF TypeOK
      <4>3. ReuseIsClean'
        BY <1>1, <2>1, <3>1, <4>1, <4>2 DEF ReuseIsClean
      <4> QED BY <1>1, <4>1, <4>3 DEF PagesInv, SharersDistinct, NoRates
    <3> QED BY <3>2, <3>3
  <2> QED BY <1>5, <2>2, <2>3, ExitStep DEF TablePart
<1>6. ASSUME NEW pid \in Pids, NEW page \in Pages, ThreadAccesses(pid, page)
      PROVE  PagesInv'
  <2>1. UNCHANGED <<process_list, comm, nthreads, matrix, thread_list, alive>>
    BY <1>6, AccessStep
  <2>2. CASE mode' = "oops" /\ mcs' = mcs
    BY <1>2, <2>1, <2>2
  <2>3. ASSUME mode' = mode, NEW p \in Listed, NEW mc \in Sharers, nthreads[p] # 0, Distinct(mc),
               mcs' = [mcs EXCEPT ![p] = [mcs[p] EXCEPT ![page] = mc]]
        PROVE  PagesInv'
    <3> DEFINE f == [mcs[p] EXCEPT ![page] = mc]
    <3>1. p \in Proc /\ f \in [Pages -> Sharers] /\ \A g \in Pages : Distinct(f[g])
      BY <1>1, <2>3, <1>6 DEF TypeOK, SharersDistinct, Distinct, Sharers
    <3>2. SharersDistinct'
      BY <1>1, <2>3, <3>1, PagesGiven
    <3>3. Listed' = Listed
      BY <2>1 DEF Listed
    <3>4. ReuseIsClean'
      BY <1>1, <2>1, <2>3, <3>1, <3>3 DEF ReuseIsClean, TypeOK
    <3> QED BY <1>1, <2>1, <3>2, <3>4 DEF PagesInv, NoRates
  <2> QED BY <1>6, <2>2, <2>3, AccessStep
<1>7. CASE exit_scheduler
  <2>1. /\ mcs' = [p \in Proc |-> NoSharers] /\ matrix' = [p \in Proc |-> EmptyMatrix]
        /\ mode' = "unloaded"
    BY <1>7 DEF exit_scheduler
  <2> QED BY <2>1, CleanFacts DEF PagesInv, ReuseIsClean, SharersDistinct, NoRates, Distinct
<1>8. CASE init_scheduler
  <2>1. process_list' = <<>> /\ UNCHANGED <<matrix, mcs>>
    BY <1>8 DEF init_scheduler
  <2>2. Listed' = {}
    BY <2>1 DEF Listed
  <2> QED BY <1>1, <2>1, <2>2 DEF PagesInv, ReuseIsClean, SharersDistinct, NoRates
<1>9. CASE UNCHANGED vars
  BY <1>2, <1>9 DEF vars, procVars
<1> QED BY <1>4, <1>5, <1>6, <1>7, <1>8, <1>9, StepCases

-----------------------------------------------------------------------------
(* The types.                                                              *)

\* The initial state has the types.
LEMMA TypeInit == Init => TypeOK
<1> SUFFICES ASSUME Init PROVE TypeOK
  OBVIOUS
<1>1. Listed = {} /\ process_list \in Seq(Proc) /\ Cardinality(Listed) = Len(process_list)
  <2>1. process_list = <<>> /\ DOMAIN process_list = {}
    BY DEF Init
  <2>2. Listed = {}
    BY <2>1 DEF Listed
  <2> QED BY <2>1, <2>2, FS_EmptySet
<1>2. nthreads \in [Proc -> 0 .. NTHREADS + 1] /\ thread_list \in [Slots -> [pi : Proc \cup {NULL}, tid : -1 .. NTHREADS]]
  BY SizeAssumption DEF Init, EmptyTable, Free
<1>3. matrix \in [Proc -> [Tids -> [Tids -> Nat]]] /\ mcs \in [Proc -> [Pages -> Sharers]]
  BY CleanFacts DEF Init
<1> QED BY <1>1, <1>2, <1>3 DEF Init, TypeOK, Sharers

\* Every step keeps the types; a count cannot become negative, since a thread that is
\* counted out has an entry.
LEMMA TypeStep ==
  ASSUME CollisionFree, TypeOK, ListInv, TablePart, PagesInv, [Next]_vars
  PROVE  TypeOK'
<1>1. Listed \subseteq Proc /\ NULL \notin Proc
  BY ListedFacts
<1>2. ASSUME NEW c \in Comms, NEW pid \in Pids, ProcessStarts(c, pid) \/ ThreadStarts(c, pid)
      PROVE  TypeOK'
  <2>1. mode = "loaded" /\ alive' = [alive EXCEPT ![pid] = c] /\ (Kept \/ Registers(c, pid))
    BY <1>2, StartStep DEF TablePart
  <2>2. alive' \in [Pids -> Comms \cup {NULL}]
    BY <2>1 DEF TypeOK
  <2>3. CASE Kept
    <3>1. Listed' = Listed
      BY <2>3 DEF Kept, procVars, Listed
    <3> QED BY <2>2, <2>3, <3>1 DEF Kept, procVars, TypeOK
  <2>4. CASE Registers(c, pid)
    <3>1. PICK p \in Proc : Adds(p, pid) /\ (Joins(c, p) \/ Founds(c, p)) /\ mode' \in {"loaded", "oops"}
      BY <2>4 DEF Registers
    <3>2. nthreads[p] \in 0 .. NTHREADS /\ hash_32[pid] \in Slots
      BY <2>1, SlotFacts DEF TypeOK, TablePart, TableInv
    <3>3. nthreads' \in [Proc -> 0 .. NTHREADS + 1]
      BY <3>1, <3>2, SizeAssumption DEF TypeOK, Adds
    <3>4. thread_list' \in [Slots -> [pi : Proc \cup {NULL}, tid : -1 .. NTHREADS]]
      BY <3>1, <3>2, SizeAssumption DEF TypeOK, Adds
    <3>5. CASE Joins(c, p)
      <4>1. Listed' = Listed
        BY <3>5 DEF Joins, Listed
      <4> QED BY <2>2, <3>1, <3>3, <3>4, <3>5, <4>1 DEF Joins, TypeOK
    <3>6. CASE Founds(c, p)
      <4>1. process_list' \in Seq(Proc) /\ Cardinality(Listed)' = Len(process_list')
        BY <3>6, FoundsList
      <4>2. /\ comm' \in [Proc -> Comms \cup {NULL}] /\ matrix' \in [Proc -> [Tids -> [Tids -> Nat]]]
            /\ mcs' \in [Proc -> [Pages -> Sharers]]
        BY <3>6, CleanFacts DEF Founds, TypeOK, Sharers
      <4> QED BY <2>2, <3>1, <3>3, <3>4, <4>1, <4>2 DEF TypeOK, Sharers
    <3> QED BY <3>1, <3>5, <3>6
  <2> QED BY <2>1, <2>3, <2>4
<1>3. ASSUME NEW c \in Comms, NEW pid \in Pids, ThreadExits(c, pid)
      PROVE  TypeOK'
  <2>1. /\ mode = "loaded" /\ mode' = mode /\ alive' = [alive EXCEPT ![pid] = NULL]
        /\ UNCHANGED <<process_list, comm>>
    BY <1>3, ExitStep DEF TablePart
  <2>2. alive' \in [Pids -> Comms \cup {NULL}] /\ Listed' = Listed
    BY <2>1 DEF TypeOK, Listed
  <2>3. CASE Kept
    BY <2>1, <2>2, <2>3 DEF Kept, procVars, TypeOK
  <2>4. ASSUME NEW p \in Listed, Removes(p, pid),
               IF nthreads[p] = 1 THEN reset_process_info(p) ELSE UNCHANGED <<matrix, mcs>>
        PROVE  TypeOK'
    <3>1. p \in Proc /\ hash_32[pid] \in Slots /\ hash_32[pid] \in Entries(p)
      BY <1>1, <2>4, EntriesRemove, SlotFacts
    <3>2. nthreads[p] # 0
      <4>1. IsFiniteSet(Entries(p)) /\ nthreads[p] = Cardinality(Entries(p))
        BY <2>1, <3>1 DEF TablePart, TableInv
      <4> QED BY <3>1, <4>1, FS_EmptySet
    <3>3. nthreads' \in [Proc -> 0 .. NTHREADS + 1]
      BY <2>4, <3>1, <3>2, SizeAssumption DEF TypeOK, Removes
    <3>4. thread_list' \in [Slots -> [pi : Proc \cup {NULL}, tid : -1 .. NTHREADS]]
      BY <2>4, <3>1, SizeAssumption DEF TypeOK, Removes, Free
    <3>5. matrix' \in [Proc -> [Tids -> [Tids -> Nat]]] /\ mcs' \in [Proc -> [Pages -> Sharers]]
      BY <2>4, <3>1, CleanFacts DEF reset_process_info, TypeOK, Sharers
    <3> QED BY <2>1, <2>2, <3>3, <3>4, <3>5 DEF TypeOK, Sharers
  <2> QED BY <1>3, <2>3, <2>4, ExitStep DEF TablePart
<1>4. ASSUME NEW pid \in Pids, NEW page \in Pages, ThreadAccesses(pid, page)
      PROVE  TypeOK'
  <2>1. /\ UNCHANGED <<process_list, comm, nthreads, matrix, thread_list, alive>>
        /\ mode' \in {"oops", mode} /\ Listed' = Listed
    BY <1>4, AccessStep DEF Listed
  <2>2. mcs' \in [Proc -> [Pages -> Sharers]]
    <3>1. CASE mcs' = mcs
      BY <3>1 DEF TypeOK, Sharers
    <3>2. ASSUME NEW p \in Listed, NEW mc \in Sharers,
                 mcs' = [mcs EXCEPT ![p] = [mcs[p] EXCEPT ![page] = mc]]
          PROVE  mcs' \in [Proc -> [Pages -> Sharers]]
      BY <1>1, <3>2 DEF TypeOK, Sharers
    <3> QED BY <1>4, <3>1, <3>2, AccessStep
  <2> QED BY <2>1, <2>2 DEF TypeOK, Sharers
<1>5. CASE exit_scheduler
  <2>1. /\ process_list' = <<>> /\ comm' = [p \in Proc |-> NULL] /\ nthreads' = [p \in Proc |-> 0]
        /\ matrix' = [p \in Proc |-> EmptyMatrix] /\ mcs' = [p \in Proc |-> NoSharers]
        /\ mode' = "unloaded" /\ UNCHANGED <<thread_list, alive>>
    BY <1>5 DEF exit_scheduler
  <2>2. process_list' \in Seq(Proc) /\ Cardinality(Listed)' = Len(process_list')
    BY <2>1, EmptyListed
  <2>3. matrix' \in [Proc -> [Tids -> [Tids -> Nat]]] /\ mcs' \in [Proc -> [Pages -> Sharers]]
    BY <2>1, CleanFacts
  <2>4. nthreads' \in [Proc -> 0 .. NTHREADS + 1]
    BY <2>1, SizeAssumption
  <2> QED BY <2>1, <2>2, <2>3, <2>4 DEF TypeOK, Sharers
<1>6. CASE init_scheduler
  <2>1. /\ process_list' = <<>> /\ thread_list' = EmptyTable /\ mode' = "loaded"
        /\ UNCHANGED <<comm, nthreads, matrix, mcs, alive>>
    BY <1>6 DEF init_scheduler
  <2>2. process_list' \in Seq(Proc) /\ Cardinality(Listed)' = Len(process_list')
    BY <2>1, EmptyListed
  <2>3. thread_list' \in [Slots -> [pi : Proc \cup {NULL}, tid : -1 .. NTHREADS]]
    BY <2>1, SizeAssumption DEF EmptyTable, Free
  <2> QED BY <2>1, <2>2, <2>3 DEF TypeOK
<1>7. CASE UNCHANGED vars
  <2>1. Listed' = Listed
    BY <1>7 DEF vars, procVars, Listed
  <2> QED BY <1>7, <2>1 DEF vars, procVars, TypeOK
<1> QED BY <1>2, <1>3, <1>4, <1>5, <1>6, <1>7, StepCases

-----------------------------------------------------------------------------
(* The invariant, and what follows from it.                                *)

\* The initial state has no process, no entry and no sharers.
LEMMA InvariantInit == Init => ListInv /\ TablePart /\ PagesInv
<1> SUFFICES ASSUME Init PROVE ListInv /\ TablePart /\ PagesInv
  OBVIOUS
<1>1. process_list = <<>> /\ DOMAIN process_list = {}
  BY DEF Init
<1>2. Listed = {}
  BY <1>1 DEF Listed
<1>3. ListInv
  BY <1>1, <1>2, FS_EmptySet DEF ListInv
<1>4. \A h \in Slots : thread_list[h].pi = NULL
  BY DEF Init, EmptyTable, Free
<1>5. \A p \in Proc : nthreads[p] = 0 /\ Entries(p) = {}
  BY <1>4, NullAssumption DEF Init, Entries
<1>6. IsFiniteSet({}) /\ Cardinality({}) = 0 /\ 0 <= NTHREADS
  BY FS_EmptySet, SizeAssumption
<1>7. \A p \in Proc : /\ IsFiniteSet(Entries(p)) /\ nthreads[p] = Cardinality(Entries(p))
                      /\ nthreads[p] <= NTHREADS
  BY <1>5, <1>6
<1>8. TableInv
  BY <1>4, <1>7 DEF TableInv
<1>9. EntryOwner /\ UnlistedInv
  BY <1>1, <1>4, <1>5 DEF EntryOwner, UnlistedInv, Slots
<1>10. mcs = [p \in Proc |-> NoSharers] /\ matrix = [p \in Proc |-> EmptyMatrix]
  BY DEF Init
<1>11. PagesInv
  BY <1>2, <1>10, CleanFacts DEF PagesInv, ReuseIsClean, SharersDistinct, NoRates, Distinct
<1> QED BY <1>3, <1>8, <1>9, <1>11 DEF TablePart

\* Every reachable state satisfies the inductive invariant, where no two pids share a
\* slot of the table.
THEOREM Invariant ==
  ASSUME CollisionFree
  PROVE  Spec => []IInv
<1>1. Init => IInv
  BY TypeInit, InvariantInit DEF IInv, TablePart
<1>2. IInv /\ [Next]_vars => IInv'
  <2> SUFFICES ASSUME IInv, [Next]_vars PROVE IInv'
    OBVIOUS
  <2>1. TypeOK /\ ListInv /\ TablePart /\ PagesInv
    BY DEF IInv, TablePart
  <2>2. TypeOK' /\ ListInv' /\ TablePart' /\ PagesInv'
    BY <2>1, TypeStep, ListStep, TableStep, PagesStep DEF TablePart
  <2> QED BY <2>2 DEF IInv, TablePart
<1> QED BY <1>1, <1>2, PTL DEF Spec

\* The variables have their types; in particular no thread count becomes negative
\* (clique.h:210).
THEOREM TypeCorrect ==
  ASSUME CollisionFree
  PROVE  Spec => []TypeOK
<1>1. IInv => TypeOK
  BY DEF IInv
<1> QED BY <1>1, Invariant, PTL

\* The thread count of a process is the number of its entries (clique.h:125-130, 170-180,
\* 207-210).
THEOREM CountsMatch ==
  ASSUME CollisionFree
  PROVE  Spec => []CountMatches
<1>1. IInv => CountMatches
  BY ListedFacts DEF IInv, TableInv, CountMatches
<1> QED BY <1>1, Invariant, PTL

\* An entry of the table belongs to a live thread of the program it points to
\* (clique.h:176-180, 207-208).
THEOREM EntriesOwned ==
  ASSUME CollisionFree
  PROVE  Spec => []EntryOwner
<1>1. IInv => EntryOwner
  BY DEF IInv
<1> QED BY <1>1, Invariant, PTL

\* A process without threads has no record of shared pages (clique.h:91-97, 210-213).
THEOREM ReuseClean ==
  ASSUME CollisionFree
  PROVE  Spec => []ReuseIsClean
<1>1. IInv => ReuseIsClean
  BY DEF IInv, PagesInv
<1> QED BY <1>1, Invariant, PTL

\* The two sharers of a page are different threads (clique.h:250-279).
THEOREM SharersDiffer ==
  ASSUME CollisionFree
  PROVE  Spec => []SharersDistinct
<1>1. IInv => SharersDistinct
  BY DEF IInv, PagesInv
<1> QED BY <1>1, Invariant, PTL

\* No sharing is ever recorded in a matrix (clique.h:235-238), however many threads access
\* however many pages: why SharingRecorded is violated.
THEOREM RatesZero ==
  ASSUME CollisionFree
  PROVE  Spec => []NoRates
<1>1. IInv => NoRates
  BY DEF IInv, PagesInv
<1> QED BY <1>1, Invariant, PTL

-----------------------------------------------------------------------------
(* The numbers of the threads.                                             *)

\* The threads of a process have different numbers while these are dense.
LEMMA DenseDistinct ==
  ASSUME TypeOK, TableInv, mode = "loaded", NEW p \in Proc, TidsDense(p)
  PROVE  \A x, y \in Entries(p) : thread_list[x].tid = thread_list[y].tid => x = y
<1> DEFINE n == nthreads[p]
           f == [h \in Entries(p) |-> thread_list[h].tid]
<1>1. n \in Nat
  BY DEF TypeOK
<1>2. IsFiniteSet(Entries(p)) /\ Cardinality(Entries(p)) = n
  BY DEF TableInv
<1>3. {thread_list[h].tid : h \in Entries(p)} = 0 .. n - 1
  BY DEF TidsDense
<1>4. f \in Surjection(Entries(p), 0 .. n - 1)
  BY <1>3 DEF Surjection
<1>5. Cardinality(0 .. n - 1) = n
  BY <1>1, FS_Interval
<1>6. f \in Injection(Entries(p), 0 .. n - 1)
  BY <1>2, <1>4, <1>5, FS_SurjSameCardinalityImpliesInj
<1>7. \A x, y \in Entries(p) : f[x] = f[y] => x = y
  BY <1>6 DEF Injection, IsInjective
<1> QED BY <1>7

\* A registration keeps them dense.
LEMMA RegistersDense ==
  ASSUME TypeOK, ListInv, TablePart, mode = "loaded",
         NEW c \in Comms, NEW pid \in Pids, Registers(c, pid),
         NEW p \in Proc, TidsDense(p), mode' = "loaded", TableInv'
  PROVE  TidsDense(p)'
<1> DEFINE n == nthreads[p]
           h == hash_32[pid]
<1>1. PICK q \in Proc : Adds(q, pid)
  BY DEF Registers
<1>2. /\ thread_list' = [thread_list EXCEPT ![h] = [pi |-> q, tid |-> nthreads[q]]]
      /\ nthreads' = [nthreads EXCEPT ![q] = nthreads[q] + 1] /\ h \in Slots
  BY <1>1, SlotFacts DEF Adds
<1>3. /\ Entries(q)' = Entries(q) \cup {h} /\ h \notin Entries(q)
      /\ \A r \in Proc : r # q => Entries(r)' = Entries(r)
  BY <1>1, EntriesAdd
<1>4. nthreads'[p] = Cardinality(Entries(p)')
  BY DEF TableInv
<1>5. n \in Nat /\ {thread_list[x].tid : x \in Entries(p)} = 0 .. n - 1
  BY DEF TypeOK, TidsDense
<1>6. \A x \in Slots : x # h => thread_list'[x] = thread_list[x]
  BY <1>2 DEF TypeOK
<1>7. \A x \in Entries(p) : x \in Slots /\ thread_list[x].pi = p
  BY DEF Entries
<1>8. thread_list[h].pi = NULL /\ NULL \notin Proc
  BY <1>1, NullAssumption DEF Adds
<1>9. \A x \in Entries(p) : thread_list'[x].tid = thread_list[x].tid
  BY <1>6, <1>7, <1>8
<1>10. {thread_list'[x].tid : x \in Entries(p)'} = 0 .. nthreads'[p] - 1
  <2>1. CASE q = p
    <3>1. thread_list'[h].tid = n
      BY <1>2, <2>1 DEF TypeOK
    <3>2. {thread_list'[x].tid : x \in Entries(p)'} = {thread_list[x].tid : x \in Entries(p)} \cup {n}
      BY <1>3, <1>9, <2>1, <3>1
    <3>3. nthreads'[p] = n + 1
      BY <1>2, <2>1 DEF TypeOK
    <3>4. (0 .. n - 1) \cup {n} = 0 .. (n + 1) - 1
      BY <1>5
    <3> QED BY <1>5, <3>2, <3>3, <3>4
  <2>2. CASE q # p
    <3>1. Entries(p)' = Entries(p) /\ nthreads'[p] = n
      BY <1>2, <1>3, <2>2 DEF TypeOK
    <3> QED BY <1>5, <1>9, <3>1
  <2> QED BY <2>1, <2>2
<1> QED BY <1>4, <1>10 DEF TidsDense, Entries

\* So does the exit of a thread of another process, or of the last thread.
LEMMA RemovesDense ==
  ASSUME TypeOK, TableInv, mode = "loaded", NEW pid \in Pids, NEW q \in Proc, Removes(q, pid),
         NEW p \in Proc, TidsDense(p), TableInv', mode' = "loaded",
         q = p => thread_list[hash_32[pid]].tid = nthreads[p] - 1
  PROVE  TidsDense(p)'
<1> DEFINE n == nthreads[p]
           h == hash_32[pid]
<1>1. /\ thread_list' = [thread_list EXCEPT ![h] = Free]
      /\ nthreads' = [nthreads EXCEPT ![q] = nthreads[q] - 1] /\ h \in Slots
  BY SlotFacts DEF Removes
<1>2. /\ Entries(q)' = Entries(q) \ {h} /\ h \in Entries(q)
      /\ \A r \in Proc : r # q => Entries(r)' = Entries(r)
  BY EntriesRemove
<1>3. nthreads'[p] = Cardinality(Entries(p)')
  BY DEF TableInv
<1>4. n \in Nat /\ {thread_list[x].tid : x \in Entries(p)} = 0 .. n - 1
  BY DEF TypeOK, TidsDense
<1>5. \A x \in Slots : x # h => thread_list'[x] = thread_list[x]
  BY <1>1 DEF TypeOK
<1>6. \A x \in Entries(p) : x \in Slots /\ thread_list[x].pi = p
  BY DEF Entries
<1>7. thread_list[h].pi = q
  BY DEF Removes
<1>8. {thread_list'[x].tid : x \in Entries(p)'} = 0 .. nthreads'[p] - 1
  <2>1. CASE q = p
    <3>1. nthreads'[p] = n - 1
      BY <1>1, <2>1 DEF TypeOK
    <3>2. \A x \in Entries(p)' : /\ x \in Entries(p) /\ x # h
                                 /\ thread_list'[x].tid = thread_list[x].tid
      BY <1>2, <1>5, <1>6, <2>1
    <3>3. \A x \in Entries(p) : x # h => x \in Entries(p)'
      BY <1>2, <2>1
    <3>4. \A x \in Entries(p) : thread_list[x].tid = n - 1 => x = h
      BY <1>2, <2>1, DenseDistinct
    <3>5. thread_list[h].tid = n - 1
      BY <2>1
    <3>6. {thread_list'[x].tid : x \in Entries(p)'} = {thread_list[x].tid : x \in Entries(p)} \ {n - 1}
      BY <3>2, <3>3, <3>4, <3>5
    <3>7. (0 .. n - 1) \ {n - 1} = 0 .. (n - 1) - 1
      BY <1>4
    <3> QED BY <1>4, <3>1, <3>6, <3>7
  <2>2. CASE q # p
    <3>1. Entries(p)' = Entries(p) /\ nthreads'[p] = n
      BY <1>1, <1>2, <2>2 DEF TypeOK
    <3>2. \A x \in Entries(p) : thread_list'[x].tid = thread_list[x].tid
      BY <1>5, <1>6, <1>7, <2>2
    <3> QED BY <1>4, <3>1, <3>2
  <2> QED BY <2>1, <2>2
<1> QED BY <1>3, <1>8 DEF TidsDense, Entries

\* What an exit takes away from the dense numbers.
TakesInner(p) ==
  \E c \in Comms, pid \in Pids :
    /\ ThreadExits(c, pid)
    /\ thread_list[hash_32[pid]].pi = p
    /\ thread_list[hash_32[pid]].tid # nthreads[p] - 1

\* Only the exit of a thread that has not the highest number takes the density away.
LEMMA DenseStep ==
  ASSUME CollisionFree, IInv, IInv', [Next]_vars, NEW p \in Proc, TidsDense(p), ~TidsDense(p)'
  PROVE  TakesInner(p)
<1>1. TypeOK /\ ListInv /\ TablePart /\ PagesInv /\ TableInv'
  BY DEF IInv, TablePart
<1>2. mode' = "loaded"
  BY DEF TidsDense
<1>3. ~UNCHANGED <<nthreads, thread_list, mode>>
  BY DEF TidsDense, Entries
<1>4. ASSUME NEW c \in Comms, NEW pid \in Pids, ProcessStarts(c, pid) \/ ThreadStarts(c, pid)
      PROVE  FALSE
  <2>1. mode = "loaded" /\ (Kept \/ Registers(c, pid))
    BY <1>1, <1>4, StartStep DEF TablePart
  <2>2. ~Kept
    BY <1>2, <1>3, <2>1 DEF Kept, procVars
  <2> QED BY <1>1, <1>2, <2>1, <2>2, RegistersDense
<1>5. ASSUME NEW c \in Comms, NEW pid \in Pids, ThreadExits(c, pid), ~TakesInner(p)
      PROVE  FALSE
  <2>1. mode = "loaded" /\ ~Kept
    BY <1>1, <1>3, <1>5, ExitStep DEF TablePart, Kept, procVars
  <2>2. PICK q \in Listed : Removes(q, pid)
    BY <1>1, <1>5, <2>1, ExitStep DEF TablePart
  <2>3. q \in Proc /\ thread_list[hash_32[pid]].pi = q
    BY <1>1, <2>2, ListedFacts DEF Removes
  <2>4. q = p => thread_list[hash_32[pid]].tid = nthreads[p] - 1
    BY <1>5, <2>3 DEF TakesInner
  <2> QED BY <1>1, <1>2, <2>1, <2>2, <2>3, <2>4, RemovesDense DEF TablePart
<1>6. ASSUME NEW pid \in Pids, NEW page \in Pages, ThreadAccesses(pid, page)
      PROVE  FALSE
  <2>1. mode = "loaded" /\ UNCHANGED <<procVars, thread_list>>
    BY <1>6 DEF ThreadAccesses
  <2> QED BY <1>2, <1>3, <2>1 DEF procVars
<1>7. CASE exit_scheduler
  BY <1>2, <1>7 DEF exit_scheduler
<1>8. CASE init_scheduler
  <2>1. process_list = <<>> /\ nthreads' = nthreads /\ thread_list' = EmptyTable
    BY <1>1, <1>8 DEF init_scheduler, TablePart, UnlistedInv
  <2>2. nthreads'[p] = 0
    BY <1>1, <2>1 DEF TablePart, UnlistedInv, Listed
  <2>3. Entries(p)' = {}
    BY <2>1, NullAssumption DEF Entries, EmptyTable, Free
  <2>4. Cardinality(Entries(p)') = 0 /\ {thread_list'[x].tid : x \in Entries(p)'} = 0 .. 0 - 1
    BY <2>3, FS_EmptySet
  <2>5. TidsDense(p)'
    BY <2>2, <2>4 DEF TidsDense, Entries
  <2> QED BY <2>5
<1>9. ~UNCHANGED vars
  BY <1>3 DEF vars, procVars
<1> QED BY <1>4, <1>5, <1>6, <1>7, <1>8, <1>9, StepCases

\* The tids of a process stay dense until a thread ends that has not the highest one
\* (clique.h:177, 210).
THEOREM TidsUntilExit ==
  ASSUME CollisionFree
  PROVE  Spec => TidsDenseUntilExit
<1> DEFINE Step == \A p \in Proc : TidsDense(p) /\ ~TidsDense(p)' => TakesInner(p)
<1>1. IInv /\ IInv' /\ [Next]_vars => Step
  BY DenseStep
<1>2. Step => [\A p \in Proc :
       TidsDense(p) /\ ~TidsDense(p)' =>
         \E c \in Comms, pid \in Pids :
           /\ ThreadExits(c, pid)
           /\ thread_list[hash_32[pid]].pi = p
           /\ thread_list[hash_32[pid]].tid # nthreads[p] - 1]_vars
  BY DEF TakesInner
<1> QED BY <1>1, <1>2, Invariant, PTL DEF Spec, TidsDenseUntilExit

=============================================================================
