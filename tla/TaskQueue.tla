----------------------------- MODULE TaskQueue -----------------------------
(***************************************************************************)
(* queue_t, the task queue between the command thread and the workers.     *)
(*                                                                         *)
(* A worker first takes a ticket (head++), spins without the lock until    *)
(* the number of tasks ever queued (tail) exceeds it, and only then locks  *)
(* the deque and pops.  Nothing ties the popped task to the ticket: that   *)
(* the deque is not empty rests on counting alone.  Shutting down queues   *)
(* one "quit" per worker behind the tasks.                                 *)
(***************************************************************************)
EXTENDS Integers, Sequences, FiniteSets

CONSTANTS
    Worker,    \* the worker threads
    File,      \* the tasks: paths of files
    Quit,      \* the task "quit"
    MaxTasks   \* bound: how many files are queued in all

ASSUME WorkerAssumption == IsFiniteSet(Worker)
ASSUME QuitAssumption == Quit \notin File
ASSUME TasksAssumption == MaxTasks \in Nat

VARIABLES
    deque,     \* the queued tasks
    head,      \* the next ticket
    tail,      \* how many tasks were ever queued
    at,        \* where each worker is in its loop
    ticket,    \* the local variable head of each worker
    task,      \* the local variable task of each worker
    quits,     \* how many "quit" tasks were queued
    stopping,  \* stopWorkers was called
    served     \* history: the tickets whose holder has popped

queueVars == <<deque, head, tail, at, ticket, task, quits, stopping, served>>

Task == File \cup {Quit}

\* The types of the queue's state.
QueueTypeOK ==
    /\ deque \in Seq(Task)
    /\ head \in Nat
    /\ tail \in Nat
    /\ at \in [Worker -> {"ticket", "spin", "pop", "work", "exit"}]
    /\ ticket \in [Worker -> Nat]
    /\ task \in [Worker -> Task]
    /\ quits \in 0..Cardinality(Worker)
    /\ stopping \in BOOLEAN
    /\ served \subseteq Nat

QueueInit ==
    /\ deque = <<>>
    /\ head = 0
    /\ tail = 0
    /\ at = [w \in Worker |-> "ticket"]
    /\ ticket = [w \in Worker |-> 0]
    /\ task = [w \in Worker |-> Quit]
    /\ quits = 0
    /\ stopping = FALSE
    /\ served = {}

----------------------------------------------------------------------------
(* The command thread                                                      *)

\* One file of the directory is queued, under the lock.
QueueFile(f) ==
    /\ ~stopping
    /\ tail < MaxTasks
    /\ deque' = Append(deque, f)
    /\ tail' = tail + 1
    /\ UNCHANGED <<head, at, ticket, task, quits, stopping, served>>

\* stopWorkers: from here on the command thread only queues "quit".
StopWorkers ==
    /\ ~stopping
    /\ stopping' = TRUE
    /\ UNCHANGED <<deque, head, tail, at, ticket, task, quits, served>>

\* Variant: the loop runs once too often.
QueueExtraQuit ==
    /\ stopping
    /\ quits <= Cardinality(Worker)
    /\ deque' = Append(deque, Quit)
    /\ tail' = tail + 1
    /\ quits' = quits + 1
    /\ UNCHANGED <<head, at, ticket, task, stopping, served>>

\* stopWorkers queues one "quit" per worker, each under the lock.
QueueQuit ==
    /\ stopping
    /\ quits < Cardinality(Worker)
    /\ deque' = Append(deque, Quit)
    /\ tail' = tail + 1
    /\ quits' = quits + 1
    /\ UNCHANGED <<head, at, ticket, task, stopping, served>>

----------------------------------------------------------------------------
(* RunWorker                                                               *)

\* head = queue.head++, under the lock.
TakeTicket(w) ==
    /\ at[w] = "ticket"
    /\ ticket' = [ticket EXCEPT ![w] = head]
    /\ head' = head + 1
    /\ at' = [at EXCEPT ![w] = "spin"]
    /\ UNCHANGED <<deque, tail, task, quits, stopping, served>>

\* Variant: the spin ends one task too early, (head > queue.tail).
CalledAtOnce(w) == ticket[w] <= tail

\* while (head >= queue.tail): the lock is not held.
Called(w) == ticket[w] < tail

StopSpinning(w) ==
    /\ at[w] = "spin"
    /\ Called(w)
    /\ at' = [at EXCEPT ![w] = "pop"]
    /\ UNCHANGED <<deque, head, tail, ticket, task, quits, stopping, served>>

\* front and pop_front under the lock.  On an empty deque both are undefined
\* behaviour; NeverPopsEmpty says that this does not arise.
PopTask(w) ==
    /\ at[w] = "pop"
    /\ deque # <<>>
    /\ task' = [task EXCEPT ![w] = Head(deque)]
    /\ deque' = Tail(deque)
    /\ at' = [at EXCEPT ![w] = IF Head(deque) = Quit THEN "exit" ELSE "work"]
    /\ served' = served \cup {ticket[w]}
    /\ UNCHANGED <<head, tail, ticket, quits, stopping>>

\* The file is done with: back to the head of the loop.
FinishTask(w) ==
    /\ at[w] = "work"
    /\ at' = [at EXCEPT ![w] = "ticket"]
    /\ UNCHANGED <<deque, head, tail, ticket, task, quits, stopping, served>>

----------------------------------------------------------------------------

WorkerStep(w) == TakeTicket(w) \/ StopSpinning(w) \/ PopTask(w) \/ FinishTask(w)

QueueNext ==
    \/ \E f \in File : QueueFile(f)
    \/ StopWorkers
    \/ QueueQuit
    \/ \E w \in Worker : WorkerStep(w)

QueueSpec == QueueInit /\ [][QueueNext]_queueVars

----------------------------------------------------------------------------
(* Properties                                                              *)

Waiting == {w \in Worker : at[w] \in {"spin", "pop"}}

\* Whenever a worker is about to pop, the deque has a task for it, whoever
\* popped between its last look at tail and its taking the lock (RunWorker).
NeverPopsEmpty == \A w \in Worker : at[w] = "pop" => deque # <<>>

\* There is a task for every worker that stopped spinning, not only for the
\* first of them.
TaskForEveryCalled == Cardinality({w \in Worker : at[w] = "pop"}) <= Len(deque)

\* No file is left behind: a worker exits only when every file was popped,
\* so nothing in the deque is waiting for a worker that is gone, whether or not
\* the deque was drained before the quits were queued (RunWorker, stopWorkers).
FilesBeforeQuits ==
    (\E w \in Worker : at[w] = "exit") => \A i \in DOMAIN deque : deque[i] = Quit

----------------------------------------------------------------------------
(* The inductive invariants of the proofs, see ProcessingEngineProofs      *)

\* Every ticket below head is held by one waiting worker or was served, and a
\* task left the deque with each served ticket.
TicketInv ==
    /\ IsFiniteSet(served)
    /\ Cardinality(served) + Len(deque) = tail
    /\ \A k \in served : k < head /\ k < tail
    /\ \A w \in Waiting : ticket[w] < head /\ ticket[w] \notin served
    /\ \A v, w \in Waiting : ticket[v] = ticket[w] => v = w
    /\ \A w \in Worker : at[w] = "pop" => ticket[w] < tail

\* The quits stand behind the files.
QuitsInv ==
    /\ ~stopping => /\ quits = 0
                    /\ \A i \in DOMAIN deque : deque[i] # Quit
                    /\ \A w \in Worker : at[w] # "exit"
    /\ \A i, j \in DOMAIN deque : i < j /\ deque[i] = Quit => deque[j] = Quit
    /\ FilesBeforeQuits
============================================================================
