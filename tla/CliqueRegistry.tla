--------------------------- MODULE CliqueRegistry ---------------------------
(***************************************************************************)
(* The registry of clique.h: the processes being watched, the table that   *)
(* takes the hash of a pid to a process and a thread number, and the       *)
(* record of which threads of a process share a page.  The hooks that call *)
(* it are not in the repository; they report the threads of a running      *)
(* system, where one program may run twice and threads end in any order.   *)
(* A pointer the code has not initialized may hit memory that can be used; *)
(* otherwise the access is an oops, which ends the run.                    *)
(***************************************************************************)
EXTENDS Integers, Sequences, FiniteSets

CONSTANTS
  Comms,      \* names of programs
  Pids,
  Pages,      \* values of hash_32(PN(address), MEM_HASH_BITS)
  Proc,       \* the places kmalloc can give to a struct process_info
  hash_32,    \* the slot of thread_list of each pid
  NTHREADS,   \* capacity of pids[] and the matrix
  NULL

Slots == {hash_32[pid] : pid \in Pids}
Tids  == 0 .. NTHREADS - 1

ASSUME HashAssumption == DOMAIN hash_32 = Pids
ASSUME SizeAssumption == NTHREADS \in Nat \ {0}
ASSUME NullAssumption == NULL \notin Comms \cup Proc

VARIABLES
  process_list, \* the linked list, head first
  comm,         \* comm, nthreads and matrix of each struct process_info; pids[], which
  nthreads,     \* is only printed, is left out
  matrix,
  mcs,          \* mcs[p][page]: the two tids of the last sharers
  thread_list,  \* slot -> [pi, tid]
  alive,        \* the running system: the program each live pid belongs to
  mode          \* the module is "loaded" or "unloaded", or there was an "oops"

procVars == <<process_list, comm, nthreads>>
vars     == <<procVars, matrix, mcs, thread_list, alive, mode>>

Listed == {process_list[i] : i \in DOMAIN process_list}
Unused == <<-1, -1>>

\* A free slot; its tid is not read.
Free        == [pi |-> NULL, tid |-> -1]
EmptyTable  == [h \in Slots |-> Free]
EmptyMatrix == [x \in Tids |-> [y \in Tids |-> 0]]
NoSharers   == [g \in Pages |-> Unused]

Init ==
  /\ process_list = <<>>
  /\ comm = [p \in Proc |-> NULL]
  /\ nthreads = [p \in Proc |-> 0]
  /\ matrix = [p \in Proc |-> EmptyMatrix]
  /\ mcs = [p \in Proc |-> NoSharers]
  /\ thread_list = EmptyTable
  /\ alive = [pid \in Pids |-> NULL]
  /\ mode = "loaded"

-----------------------------------------------------------------------------

search_process_info(c) == {p \in Listed : comm[p] = c}

\* The program is known and none of its threads is registered.
ReuseProcess(p, pid) ==
  /\ nthreads' = [nthreads EXCEPT ![p] = 1]
  /\ thread_list' = [thread_list EXCEPT ![hash_32[pid]] = [pi |-> p, tid |-> 0]]
  /\ UNCHANGED <<process_list, comm, matrix, mcs, mode>>

\* A new entry at the head of the list.  mcs is what kmalloc left there, since the
\* vmalloc is commented out: if it cannot be used, the memset is an oops.
NewProcess(c, pid) ==
  /\ \E p \in Proc \ Listed :
       /\ process_list' = <<p>> \o process_list
       /\ comm' = [comm EXCEPT ![p] = c]
       /\ nthreads' = [nthreads EXCEPT ![p] = 1]
       /\ matrix' = [matrix EXCEPT ![p] = EmptyMatrix]
       /\ thread_list' = [thread_list EXCEPT ![hash_32[pid]] = [pi |-> p, tid |-> 0]]
       /\ mcs' = [mcs EXCEPT ![p] = NoSharers]
  /\ mode' \in {"loaded", "oops"}

\* kmalloc fails; C_ASSERT only prints, and strcpy writes through the null pointer.
NewProcessNoMemory ==
  /\ mode' = "oops"
  /\ UNCHANGED <<procVars, matrix, mcs, thread_list>>

\* A program that is known and has threads is reported and not registered again.
insert_process(c, pid) ==
  LET found == search_process_info(c)
  IN IF found = {}
       THEN NewProcess(c, pid) \/ NewProcessNoMemory
       ELSE \E p \in found :
              IF nthreads[p] # 0
                THEN UNCHANGED <<procVars, matrix, mcs, thread_list, mode>>
                ELSE ReuseProcess(p, pid)

\* Faulty variant: the count is increased before the number is taken.
insert_thread_CountFirst(c, pid) ==
  LET found == search_process_info(c)
      h     == hash_32[pid]
  IN IF found = {} \/ thread_list[h].pi # NULL
       THEN UNCHANGED <<procVars, matrix, mcs, thread_list, mode>>
       ELSE \E p \in found :
              /\ nthreads' = [nthreads EXCEPT ![p] = @ + 1]
              /\ thread_list' = [thread_list EXCEPT ![h] = [pi |-> p, tid |-> nthreads[p] + 1]]
              /\ mode' = IF nthreads[p] + 1 \in Tids THEN mode ELSE "oops"
              /\ UNCHANGED <<process_list, comm, matrix, mcs>>

\* The next number is taken; nothing keeps it below NTHREADS, and the store to
\* pids[NTHREADS] destroys the link of the list.
insert_thread(c, pid) ==
  LET found == search_process_info(c)
      h     == hash_32[pid]
  IN IF found = {} \/ thread_list[h].pi # NULL
       THEN UNCHANGED <<procVars, matrix, mcs, thread_list, mode>>
       ELSE \E p \in found :
              /\ nthreads' = [nthreads EXCEPT ![p] = @ + 1]
              /\ thread_list' = [thread_list EXCEPT ![h] = [pi |-> p, tid |-> nthreads[p]]]
              /\ mode' = IF nthreads[p] \in Tids THEN mode ELSE "oops"
              /\ UNCHANGED <<process_list, comm, matrix, mcs>>

\* Faulty variant: what is recorded about the pages is kept.
reset_process_info_KeepsMcs(p) ==
  /\ matrix' = [matrix EXCEPT ![p] = EmptyMatrix]
  /\ UNCHANGED mcs

reset_process_info(p) ==
  /\ matrix' = [matrix EXCEPT ![p] = EmptyMatrix]
  /\ mcs' = [mcs EXCEPT ![p] = NoSharers]

\* The entry that the search stops at, which is the last one when no name matches.
Reached(c) ==
  LET match == {i \in DOMAIN process_list : comm[process_list[i]] = c}
  IN IF match = {} THEN process_list[Len(process_list)]
     ELSE process_list[CHOOSE i \in match : \A j \in match : i <= j]

\* Faulty variant: a thread that is not in the table is counted out too.
remove_thread_Unchecked(c, pid) ==
  /\ IF process_list = <<>>
       THEN UNCHANGED <<nthreads, thread_list, matrix, mcs>>
       ELSE /\ thread_list' = [thread_list EXCEPT ![hash_32[pid]] = Free]
            /\ nthreads' = [nthreads EXCEPT ![Reached(c)] = @ - 1]
            /\ IF nthreads[Reached(c)] = 1 THEN reset_process_info(Reached(c))
               ELSE UNCHANGED <<matrix, mcs>>
  /\ UNCHANGED <<process_list, comm, mode>>

\* Faulty variant: the slot of the thread is not given back.
remove_thread_KeepsSlot(c, pid) ==
  /\ IF process_list = <<>> \/ thread_list[hash_32[pid]].pi = NULL
       THEN UNCHANGED <<nthreads, thread_list, matrix, mcs>>
       ELSE /\ nthreads' = [nthreads EXCEPT ![Reached(c)] = IF @ > 0 THEN @ - 1 ELSE 0]
            /\ IF nthreads[Reached(c)] = 1 THEN reset_process_info(Reached(c))
               ELSE UNCHANGED <<matrix, mcs>>
            /\ UNCHANGED thread_list
  /\ UNCHANGED <<process_list, comm, mode>>

\* The slot is cleared whoever it belongs to, and the process the search stopped at
\* loses a thread.
remove_thread(c, pid) ==
  /\ IF process_list = <<>> \/ thread_list[hash_32[pid]].pi = NULL
       THEN UNCHANGED <<nthreads, thread_list, matrix, mcs>>
       ELSE /\ thread_list' = [thread_list EXCEPT ![hash_32[pid]] = Free]
            /\ nthreads' = [nthreads EXCEPT ![Reached(c)] = @ - 1]
            /\ IF nthreads[Reached(c)] = 1 THEN reset_process_info(Reached(c))
               ELSE UNCHANGED <<matrix, mcs>>
  /\ UNCHANGED <<process_list, comm, mode>>

-----------------------------------------------------------------------------

\* The element is incremented and then overwritten by the transposed one.
inc_matrix(m, x, y) ==
  LET incremented == [m EXCEPT ![x][y] = @ + 1]
  IN [incremented EXCEPT ![x][y] = incremented[y][x]]

\* The number of threads recorded for the page.
get_nshare(mc) == Cardinality({k \in {1, 2} : mc[k] # -1})

\* Faulty variant: the previous accessor is overwritten before it is moved.
NextSharers_Swapped(mc, tid) ==
  IF get_nshare(mc) = 0 THEN [mc EXCEPT ![1] = tid]
  ELSE IF mc[1] # tid /\ (get_nshare(mc) = 1 \/ mc[2] = tid) THEN <<tid, tid>>
  ELSE mc

\* The two sharers after an access by tid: a third thread does not become one.
NextSharers(mc, tid) ==
  IF get_nshare(mc) = 0 THEN [mc EXCEPT ![1] = tid]
  ELSE IF mc[1] # tid /\ (get_nshare(mc) = 1 \/ mc[2] = tid) THEN <<tid, mc[1]>>
  ELSE mc

\* The matrix after an access by tid.
NextMatrix(m, mc, tid) ==
  CASE get_nshare(mc) = 0 -> m
    [] get_nshare(mc) = 1 -> IF mc[1] # tid THEN inc_matrix(m, tid, mc[1]) ELSE m
    [] OTHER -> IF mc[1] # tid /\ mc[2] # tid
                  THEN inc_matrix(inc_matrix(m, tid, mc[1]), tid, mc[2])
                ELSE IF mc[1] # tid THEN inc_matrix(m, tid, mc[1])
                ELSE IF mc[2] # tid THEN inc_matrix(m, tid, mc[2])
                ELSE m

\* An access by a thread that is not in the table goes through a null pointer.
record_access(pid, page) ==
  LET entry == thread_list[hash_32[pid]]
      p     == entry.pi
  IN IF p = NULL
       THEN mode' = "oops" /\ UNCHANGED <<mcs, matrix>>
       ELSE /\ mcs' = [mcs EXCEPT ![p][page] = NextSharers(@, entry.tid)]
            /\ matrix' = [matrix EXCEPT ![p] = NextMatrix(@, mcs[p][page], entry.tid)]
            /\ UNCHANGED mode

-----------------------------------------------------------------------------
(* The module's life, and the running system.                              *)

\* The processes are freed; thread_list keeps its pointers, and nothing is called
\* until the module is loaded again.
exit_scheduler ==
  /\ mode = "loaded"
  /\ process_list' = <<>>
  /\ comm' = [p \in Proc |-> NULL]
  /\ nthreads' = [p \in Proc |-> 0]
  /\ matrix' = [p \in Proc |-> EmptyMatrix]
  /\ mcs' = [p \in Proc |-> NoSharers]
  /\ mode' = "unloaded"
  /\ UNCHANGED <<thread_list, alive>>

\* Faulty variant: the table is not cleared.
init_scheduler_KeepsTable ==
  /\ mode = "unloaded"
  /\ mode' = "loaded"
  /\ UNCHANGED <<procVars, matrix, mcs, thread_list, alive>>

init_scheduler ==
  /\ mode = "unloaded"
  /\ process_list' = <<>>
  /\ thread_list' = EmptyTable
  /\ mode' = "loaded"
  /\ UNCHANGED <<comm, nthreads, matrix, mcs, alive>>

ProcessStarts(c, pid) ==
  /\ mode = "loaded" /\ alive[pid] = NULL
  /\ insert_process(c, pid)
  /\ alive' = [alive EXCEPT ![pid] = c]

ThreadStarts(c, pid) ==
  /\ mode = "loaded" /\ alive[pid] = NULL
  /\ \E parent \in Pids : alive[parent] = c
  /\ insert_thread(c, pid)
  /\ alive' = [alive EXCEPT ![pid] = c]

ThreadExits(c, pid) ==
  /\ mode = "loaded" /\ alive[pid] = c
  /\ remove_thread(c, pid)
  /\ alive' = [alive EXCEPT ![pid] = NULL]

ThreadAccesses(pid, page) ==
  /\ mode = "loaded" /\ alive[pid] # NULL
  /\ record_access(pid, page)
  /\ UNCHANGED <<procVars, thread_list, alive>>

Next ==
  \/ \E c \in Comms, pid \in Pids :
       ProcessStarts(c, pid) \/ ThreadStarts(c, pid) \/ ThreadExits(c, pid)
  \/ \E pid \in Pids, page \in Pages : ThreadAccesses(pid, page)
  \/ exit_scheduler
  \/ init_scheduler

Spec == Init /\ [][Next]_vars

-----------------------------------------------------------------------------
(* Properties.                                                             *)

\* The variables have their types; while the module is in use no count is negative.
TypeOK ==
  /\ process_list \in Seq(Proc) /\ Cardinality(Listed) = Len(process_list)
  /\ comm \in [Proc -> Comms \cup {NULL}]
  /\ nthreads \in [Proc -> 0 .. NTHREADS + 1]
  /\ matrix \in [Proc -> [Tids -> [Tids -> Nat]]]
  /\ mcs \in [Proc -> [Pages -> (Tids \cup {-1}) \X (Tids \cup {-1})]]
  /\ thread_list \in [Slots -> [pi : Proc \cup {NULL}, tid : -1 .. NTHREADS]]
  /\ alive \in [Pids -> Comms \cup {NULL}]
  /\ mode \in {"loaded", "unloaded", "oops"}

\* The entries of the table that belong to p.
Entries(p) == {h \in Slots : thread_list[h].pi = p}

\* Where no two pids share a slot, the thread count of a process is the number of
\* its entries in the table (clique.h:125-130, 170-180, 207-210), so a process is reset
\* exactly when its last registered thread ends.
CountMatches ==
  mode = "loaded" => \A p \in Listed : nthreads[p] = Cardinality(Entries(p))

\* Where no two pids share a slot, an entry of the table belongs to a live thread of
\* the very program it points to (clique.h:176-180, 207-208), across exits, second
\* instances of a program and reloads of the module.
EntryOwner ==
  mode = "loaded" =>
    \A pid \in Pids :
      LET p == thread_list[hash_32[pid]].pi
      IN p # NULL => p \in Listed /\ alive[pid] = comm[p]

\* A process without threads has no record of shared pages left that a later
\* instance of the program would be credited with (clique.h:91-97, 210-213).
ReuseIsClean ==
  mode = "loaded" => \A p \in Listed : nthreads[p] = 0 => mcs[p] = NoSharers

\* The two sharers of a page are different threads and the second is never set
\* alone (clique.h:250-279), which the cases of record_access rely on.
SharersDistinct ==
  \A p \in Proc, g \in Pages : mcs[p][g][2] # -1 => mcs[p][g][1] \notin {-1, mcs[p][g][2]}

\* A tid is "for indexing matrix" (clique.h:65), which like default_matrix is one of
\* "communication rates between threads" (clique.c:24), and record_access calls inc_matrix
\* for every pair of threads it enters as the sharers of a page (clique.h:258-260, 271-273),
\* so the rate of two recorded sharers is positive.  inc_matrix overwrites the increment
\* with the transposed element (clique.h:236-237).
SharingRecorded ==
  mode = "loaded" =>
    \A p \in Proc, g \in Pages :
      mcs[p][g][2] # -1 => matrix[p][mcs[p][g][1]][mcs[p][g][2]] > 0

\* The tids of the registered threads of p are 0, 1, ... up to the thread count.
TidsDense(p) ==
  mode = "loaded" =>
    /\ Cardinality(Entries(p)) = nthreads[p]
    /\ {thread_list[h].tid : h \in Entries(p)} = 0 .. nthreads[p] - 1

\* The tid is "for indexing matrix" (clique.h:65), so two threads of a process must not
\* share one.  Where no two pids share a slot, they do only after the exit of a thread
\* that was not the one with the highest tid (clique.h:177, 210).
TidsDenseUntilExit ==
  [][\A p \in Proc :
       TidsDense(p) /\ ~TidsDense(p)' =>
         \E c \in Comms, pid \in Pids :
           /\ ThreadExits(c, pid)
           /\ thread_list[hash_32[pid]].pi = p
           /\ thread_list[hash_32[pid]].tid # nthreads[p] - 1]_vars

\* C_ASSERT(thread_list[h].pi == NULL) of insert_process (clique.h:128, 149) and
\* C_ASSERT(pi) of record_access (clique.h:247), for threads whose start was reported.
AssertionsHold ==
  [][/\ \A c \in Comms, pid \in Pids :
          ProcessStarts(c, pid) /\ thread_list' # thread_list
            => thread_list[hash_32[pid]].pi = NULL
     /\ \A pid \in Pids, page \in Pages :
          ThreadAccesses(pid, page) => thread_list[hash_32[pid]].pi # NULL]_vars
=============================================================================
