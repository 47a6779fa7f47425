----------------------- MODULE ProcessingEngineProofs -----------------------
(***************************************************************************)
(* Proofs about the queue of tasks and about the local engine, which uses  *)
(* it, with any number of workers, tasks, directories and commands.        *)
(*                                                                         *)
(* First the queue by itself, under TaskQueue's specification.  A worker   *)
(* pops without looking at the deque, so that it is never empty needs a    *)
(* count: the tickets served so far are distinct and below tail, one task  *)
(* left the deque for each, and the worker's own ticket is below tail and  *)
(* not among them.                                                         *)
(*                                                                         *)
(* Then the engine: its queue is that queue, so what is proved about the   *)
(* queue holds of the engine.                                              *)
(***************************************************************************)
EXTENDS ProcessingEngine, FiniteSetTheorems, FunctionTheorems, WellFoundedInduction, TLAPS

----------------------------------------------------------------------------
(* The queue                                                               *)

LEMMA QueueTypeInit == QueueInit => QueueTypeOK
<1>1. Cardinality(Worker) \in Nat
  BY WorkerAssumption, FS_CardinalityType
<1>2. 0 \in 0..Cardinality(Worker)
  BY <1>1
<1>3. QueueInit => deque \in Seq(Task) /\ head \in Nat /\ tail \in Nat
  BY DEF QueueInit
<1>5. QueueInit => stopping \in BOOLEAN /\ served \subseteq Nat
  BY DEF QueueInit
<1>4. QueueInit => /\ at \in [Worker -> {"ticket", "spin", "pop", "work", "exit"}]
                   /\ ticket \in [Worker -> Nat]
                   /\ task \in [Worker -> Task]
  BY DEF QueueInit, Task
<1>. QED
  BY <1>2, <1>3, <1>4, <1>5 DEF QueueInit, QueueTypeOK

LEMMA QueueTypeNext == QueueTypeOK /\ [QueueNext]_queueVars => QueueTypeOK'
<1>. SUFFICES ASSUME QueueTypeOK, [QueueNext]_queueVars PROVE QueueTypeOK'
  OBVIOUS
<1>0. Cardinality(Worker) \in Nat
  BY WorkerAssumption, FS_CardinalityType
<1>1. ASSUME NEW f \in File, QueueFile(f) PROVE QueueTypeOK'
  BY <1>1 DEF QueueTypeOK, QueueFile, Task
<1>2. CASE StopWorkers
  BY <1>2 DEF QueueTypeOK, StopWorkers
<1>3. CASE QueueQuit
  BY <1>0, <1>3 DEF QueueTypeOK, QueueQuit, Task
<1>4. ASSUME NEW w \in Worker, TakeTicket(w) PROVE QueueTypeOK'
  BY <1>4 DEF QueueTypeOK, TakeTicket
<1>5. ASSUME NEW w \in Worker, StopSpinning(w) PROVE QueueTypeOK'
  BY <1>5 DEF QueueTypeOK, StopSpinning
<1>6. ASSUME NEW w \in Worker, PopTask(w) PROVE QueueTypeOK'
  <2>1. Head(deque) \in Task /\ Tail(deque) \in Seq(Task)
    BY <1>6 DEF QueueTypeOK, PopTask
  <2>. QED
    BY <1>6, <2>1 DEF QueueTypeOK, PopTask
<1>7. ASSUME NEW w \in Worker, FinishTask(w) PROVE QueueTypeOK'
  BY <1>7 DEF QueueTypeOK, FinishTask
<1>8. CASE UNCHANGED queueVars
  BY <1>8 DEF QueueTypeOK, queueVars
<1>. QED
  BY <1>1, <1>2, <1>3, <1>4, <1>5, <1>6, <1>7, <1>8 DEF QueueNext, WorkerStep

\* Every variable of the queue keeps its type.
THEOREM QueueTypeCorrect == QueueSpec => []QueueTypeOK
  BY QueueTypeInit, QueueTypeNext, PTL DEF QueueSpec

----------------------------------------------------------------------------
(* Tickets                                                                 *)

LEMMA TicketInvInit == QueueInit => TicketInv
  BY FS_EmptySet DEF QueueInit, TicketInv, Waiting

LEMMA TicketInvNext ==
    QueueTypeOK /\ TicketInv /\ [QueueNext]_queueVars => TicketInv'
<1>. SUFFICES ASSUME QueueTypeOK, TicketInv, [QueueNext]_queueVars PROVE TicketInv'
  OBVIOUS
<1>0. Cardinality(served) \in Nat
  BY FS_CardinalityType DEF TicketInv
<1>1. ASSUME NEW f \in File, QueueFile(f) PROVE TicketInv'
  <2>1. Len(deque') = Len(deque) + 1
    BY <1>1 DEF QueueTypeOK, QueueFile
  <2>. QED
    BY <1>0, <1>1, <2>1 DEF QueueTypeOK, TicketInv, QueueFile, Waiting
<1>2. CASE StopWorkers
  BY <1>2 DEF QueueTypeOK, TicketInv, StopWorkers, Waiting
<1>3. CASE QueueQuit
  <2>1. Len(deque') = Len(deque) + 1
    BY <1>3 DEF QueueTypeOK, QueueQuit
  <2>. QED
    BY <1>0, <1>3, <2>1 DEF QueueTypeOK, TicketInv, QueueQuit, Waiting
<1>4. ASSUME NEW w \in Worker, TakeTicket(w) PROVE TicketInv'
  <2>1. head \notin served /\ \A v \in Waiting : ticket[v] # head
    BY DEF QueueTypeOK, TicketInv, Waiting
  <2>2. /\ Waiting' = Waiting \cup {w} /\ w \notin Waiting
        /\ ticket'[w] = head /\ head' = head + 1
        /\ \A v \in Waiting : ticket'[v] = ticket[v]
    BY <1>4 DEF QueueTypeOK, TakeTicket, Waiting
  <2>3. \A v \in Waiting' : ticket'[v] < head' /\ ticket'[v] \notin served'
    BY <1>4, <2>1, <2>2 DEF QueueTypeOK, TicketInv, TakeTicket, Waiting
  <2>4. \A u, v \in Waiting' : ticket'[u] = ticket'[v] => u = v
    BY <2>1, <2>2 DEF TicketInv
  <2>. QED
    BY <1>4, <2>3, <2>4 DEF QueueTypeOK, TicketInv, TakeTicket
<1>5. ASSUME NEW w \in Worker, StopSpinning(w) PROVE TicketInv'
  BY <1>5 DEF QueueTypeOK, TicketInv, StopSpinning, Called, Waiting
<1>6. ASSUME NEW w \in Worker, PopTask(w) PROVE TicketInv'
  <2>1. /\ Waiting' = Waiting \ {w} /\ w \in Waiting
        /\ ticket' = ticket
        /\ served' = served \cup {ticket[w]}
    BY <1>6 DEF QueueTypeOK, PopTask, Waiting
  <2>2. ticket[w] < tail /\ ticket[w] < head /\ ticket[w] \notin served
    BY <1>6, <2>1 DEF TicketInv, PopTask
  <2>3. IsFiniteSet(served') /\ Cardinality(served') = Cardinality(served) + 1
    BY <2>1, <2>2, FS_AddElement DEF TicketInv
  <2>4. Len(deque') = Len(deque) - 1 /\ Len(deque) \in Nat
    BY <1>6 DEF QueueTypeOK, PopTask
  <2>5. Cardinality(served') + Len(deque') = tail'
    BY <1>0, <1>6, <2>3, <2>4 DEF QueueTypeOK, TicketInv, PopTask
  <2>6. \A v \in Waiting' : ticket'[v] < head' /\ ticket'[v] \notin served'
    BY <1>6, <2>1 DEF TicketInv, PopTask
  <2>7. \A v \in Worker : at'[v] = "pop" => ticket'[v] < tail'
    BY <1>6, <2>1 DEF QueueTypeOK, TicketInv, PopTask
  <2>. QED
    BY <1>6, <2>1, <2>2, <2>3, <2>5, <2>6, <2>7 DEF TicketInv, PopTask
<1>7. ASSUME NEW w \in Worker, FinishTask(w) PROVE TicketInv'
  BY <1>7 DEF QueueTypeOK, TicketInv, FinishTask, Waiting
<1>8. CASE UNCHANGED queueVars
  BY <1>8 DEF TicketInv, queueVars, Waiting
<1>. QED
  BY <1>1, <1>2, <1>3, <1>4, <1>5, <1>6, <1>7, <1>8 DEF QueueNext, WorkerStep

\* The workers that stopped spinning are not more than the queued tasks: their
\* tickets are distinct, below tail, and not among the served ones.
LEMMA CalledHaveTasks == QueueTypeOK /\ TicketInv => TaskForEveryCalled
<1>. SUFFICES ASSUME QueueTypeOK, TicketInv PROVE TaskForEveryCalled
  OBVIOUS
<1>. DEFINE Popping == {w \in Worker : at[w] = "pop"}
            Free == (0..(tail - 1)) \ served
<1>1. /\ IsFiniteSet(0..(tail - 1)) /\ Cardinality(0..(tail - 1)) = tail
      /\ tail \in Nat /\ Len(deque) \in Nat
  BY FS_Interval DEF QueueTypeOK
<1>2. served \subseteq 0..(tail - 1)
  BY <1>1 DEF QueueTypeOK, TicketInv
<1>3. /\ IsFiniteSet(Free)
      /\ Cardinality(Free) = Len(deque)
  <2>1. /\ IsFiniteSet(Free)
        /\ Cardinality(Free) = tail - Cardinality((0..(tail - 1)) \cap served)
    BY <1>1, FS_Difference
  <2>2. (0..(tail - 1)) \cap served = served
    BY <1>2
  <2>3. Cardinality(served) \in Nat /\ Cardinality(served) + Len(deque) = tail
    BY FS_CardinalityType DEF TicketInv
  <2>4. Cardinality(Free) = tail - Cardinality(served)
    BY <2>1, <2>2
  <2>5. Cardinality(Free) = Len(deque)
    BY <1>1, <2>3, <2>4
  <2>. QED
    BY <2>1, <2>5
<1>4. [w \in Popping |-> ticket[w]] \in Injection(Popping, Free)
  <2>1. \A w \in Popping : ticket[w] \in Free
    BY <1>1 DEF QueueTypeOK, TicketInv, Waiting
  <2>2. \A v, w \in Popping : ticket[v] = ticket[w] => v = w
    BY DEF TicketInv, Waiting
  <2>. QED
    BY <2>1, <2>2 DEF Injection, IsInjective
<1>5. Cardinality(Popping) <= Cardinality(Free)
  BY <1>3, <1>4, FS_Injection
<1>. QED
  BY <1>3, <1>5 DEF TaskForEveryCalled

\* However the workers' looks at tail, their locks and their pops interleave,
\* every worker that goes to pop has a task in the deque.
THEOREM TaskForEvery == QueueSpec => []TaskForEveryCalled
<1>1. QueueInit => TicketInv
  BY TicketInvInit
<1>2. QueueTypeOK /\ TicketInv /\ [QueueNext]_queueVars => TicketInv'
  BY TicketInvNext
<1>. QED
  BY <1>1, <1>2, QueueTypeCorrect, CalledHaveTasks, PTL DEF QueueSpec

\* No worker calls front() or pop_front() on an empty deque.
THEOREM PopsNonEmpty == QueueSpec => []NeverPopsEmpty
<1>1. QueueTypeOK /\ TaskForEveryCalled => NeverPopsEmpty
  <2>. SUFFICES ASSUME QueueTypeOK, TaskForEveryCalled,
                       NEW w \in Worker, at[w] = "pop", deque = <<>>
                PROVE  FALSE
    BY DEF NeverPopsEmpty
  <2>. DEFINE Popping == {v \in Worker : at[v] = "pop"}
  <2>1. IsFiniteSet(Popping) /\ Cardinality(Popping) \in Nat
    BY WorkerAssumption, FS_Subset, FS_CardinalityType
  <2>2. Cardinality(Popping) <= 0
    BY DEF TaskForEveryCalled
  <2>3. Popping = {}
    BY <2>1, <2>2, FS_EmptySet
  <2>. QED
    BY <2>3
<1>. QED
  BY <1>1, QueueTypeCorrect, TaskForEvery, PTL

----------------------------------------------------------------------------
(* The quits stand behind the files                                        *)

\* No worker exits while a file is in the deque.
THEOREM FilesFirst == QueueSpec => []FilesBeforeQuits
<1>1. QueueInit => QuitsInv
  BY DEF QueueInit, QuitsInv, FilesBeforeQuits
<1>2. QueueTypeOK /\ QuitsInv /\ [QueueNext]_queueVars => QuitsInv'
  <2>. SUFFICES ASSUME QueueTypeOK, QuitsInv, [QueueNext]_queueVars PROVE QuitsInv'
    OBVIOUS
  <2>. USE DEF QuitsInv, FilesBeforeQuits
  <2>1. ASSUME NEW f \in File, QueueFile(f) PROVE QuitsInv'
    BY <2>1, QuitAssumption DEF QueueTypeOK, QueueFile
  <2>2. CASE StopWorkers
    BY <2>2 DEF QueueTypeOK, StopWorkers
  <2>3. CASE QueueQuit
    <3>1. /\ DOMAIN deque' = 1..(Len(deque) + 1) /\ DOMAIN deque = 1..Len(deque)
          /\ Len(deque) \in Nat
          /\ deque'[Len(deque) + 1] = Quit
          /\ \A i \in DOMAIN deque : deque'[i] = deque[i]
      BY <2>3 DEF QueueTypeOK, QueueQuit
    <3>2. \A i, j \in DOMAIN deque' : i < j /\ deque'[i] = Quit => deque'[j] = Quit
      BY <3>1
    <3>3. (\E w \in Worker : at'[w] = "exit") => \A i \in DOMAIN deque' : deque'[i] = Quit
      BY <2>3, <3>1 DEF QueueQuit
    <3>. QED
      BY <2>3, <3>2, <3>3 DEF QueueQuit
  <2>4. ASSUME NEW w \in Worker, TakeTicket(w) PROVE QuitsInv'
    BY <2>4 DEF QueueTypeOK, TakeTicket
  <2>5. ASSUME NEW w \in Worker, StopSpinning(w) PROVE QuitsInv'
    BY <2>5 DEF QueueTypeOK, StopSpinning
  <2>6. ASSUME NEW w \in Worker, PopTask(w) PROVE QuitsInv'
    <3>1. /\ DOMAIN deque = 1..Len(deque) /\ Len(deque) \in Nat /\ Len(deque) >= 1
          /\ DOMAIN deque' = 1..(Len(deque) - 1)
          /\ \A i \in DOMAIN deque' : i + 1 \in DOMAIN deque /\ deque'[i] = deque[i + 1]
          /\ Head(deque) = deque[1]
      BY <2>6 DEF QueueTypeOK, PopTask
    <3>2. \A i, j \in DOMAIN deque' : i < j /\ deque'[i] = Quit => deque'[j] = Quit
      BY <3>1
    <3>3. CASE deque[1] = Quit
      <4>1. \A i \in DOMAIN deque : deque[i] = Quit
        BY <3>1, <3>3
      <4>2. stopping
        BY <3>1, <3>3
      <4>. QED
        BY <2>6, <3>1, <3>2, <4>1, <4>2 DEF QueueTypeOK, PopTask
    <3>4. CASE deque[1] # Quit
      <4>0. \A v \in Worker : at[v] # "exit"
        BY <3>1, <3>4
      <4>1. \A v \in Worker : at[v] # "exit" /\ at'[v] # "exit"
        BY <2>6, <3>1, <3>4, <4>0 DEF QueueTypeOK, PopTask
      <4>. QED
        BY <2>6, <3>1, <3>2, <4>1 DEF QueueTypeOK, PopTask
    <3>. QED
      BY <3>3, <3>4
  <2>7. ASSUME NEW w \in Worker, FinishTask(w) PROVE QuitsInv'
    BY <2>7 DEF QueueTypeOK, FinishTask
  <2>8. CASE UNCHANGED queueVars
    BY <2>8 DEF queueVars
  <2>. QED
    BY <2>1, <2>2, <2>3, <2>4, <2>5, <2>6, <2>7, <2>8 DEF QueueNext, WorkerStep
<1>3. QuitsInv => FilesBeforeQuits
  BY DEF QuitsInv
<1>. QED
  BY <1>1, <1>2, <1>3, QueueTypeCorrect, PTL DEF QueueSpec

----------------------------------------------------------------------------
(* The engine uses the queue                                               *)

LEMMA EngineStepIsQueueStep == [EngineNext]_allVars => [QueueNext]_queueVars
<1>. SUFFICES ASSUME [EngineNext]_allVars PROVE [QueueNext]_queueVars
  OBVIOUS
<1>1. CASE CommandStep
  <2>1. ASSUME NEW w \in Worker, StartThread(w) PROVE UNCHANGED queueVars
    BY <2>1 DEF StartThread, queueVars
  <2>2. CASE ClearLaunched
    BY <2>2 DEF ClearLaunched, queueVars
  <2>3. ASSUME NEW f \in File, QueueDirectoryEntry(f) PROVE QueueNext
    BY <2>3 DEF QueueDirectoryEntry, QueueNext
  <2>4. CASE CompleteIndexing
    BY <2>4 DEF CompleteIndexing, queueVars
  <2>5. CASE QueueQuitTask
    BY <2>5 DEF QueueQuitTask, QueueNext
  <2>6. CASE JoinAll
    BY <2>6 DEF JoinAll, queueVars
  <2>. QED
    BY <1>1, <2>1, <2>2, <2>3, <2>4, <2>5, <2>6 DEF CommandStep
<1>2. ASSUME NEW d \in Dir, IndexFiles(d) PROVE UNCHANGED queueVars
  BY <1>2 DEF IndexFiles, queueVars
<1>3. CASE QuitCommand
  BY <1>3 DEF QuitCommand, QueueNext
<1>4. ASSUME NEW w \in Worker, RunWorker(w) PROVE [QueueNext]_queueVars
  <2>1. CASE AnnounceLaunch(w)
    BY <2>1 DEF AnnounceLaunch, queueVars
  <2>2. CASE WaitForTask(w)
    BY <2>2 DEF WaitForTask, QueueNext, WorkerStep
  <2>3. CASE PopFile(w)
    BY <2>3 DEF PopFile, QueueNext, WorkerStep
  <2>4. CASE FetchContentFromFile(w)
    BY <2>4 DEF FetchContentFromFile, queueVars
  <2>5. CASE CutPath(w)
    BY <2>5 DEF CutPath, queueVars
  <2>6. ASSUME NEW word \in Word, InsertWord(w, word) PROVE UNCHANGED queueVars
    BY <2>6 DEF InsertWord, queueVars
  <2>7. CASE FinishFile(w)
    BY <2>7 DEF FinishFile, QueueNext, WorkerStep
  <2>. QED
    BY <1>4, <2>1, <2>2, <2>3, <2>4, <2>5, <2>6, <2>7 DEF RunWorker
<1>5. CASE UNCHANGED allVars
  BY <1>5 DEF allVars
<1>. QED
  BY <1>1, <1>2, <1>3, <1>4, <1>5 DEF EngineNext

\* The engine's actions are written with those of TaskQueue, so that its
\* behaviours are, seen from the queue, behaviours of TaskQueue.
LEMMA EngineUsesTaskQueue == EngineSpec => QueueSpec
<1>1. EngineInit => QueueInit
  BY DEF EngineInit
<1>. QED
  BY <1>1, EngineStepIsQueueStep, PTL DEF EngineSpec, QueueSpec

\* No worker of the engine pops from an empty deque.
THEOREM EnginePopsNonEmpty == EngineSpec => []NeverPopsEmpty
  BY EngineUsesTaskQueue, PopsNonEmpty, PTL

\* No worker of the engine has exited while a file is in the deque.
THEOREM EngineFilesFirst == EngineSpec => []FilesBeforeQuits
  BY EngineUsesTaskQueue, FilesFirst, PTL

----------------------------------------------------------------------------
(* Starting the workers                                                    *)

\* The workers started so far have announced themselves, except for the one
\* the constructor is waiting for.
LaunchInv ==
    /\ threadLaunched \in BOOLEAN
    /\ running \subseteq born
    /\ cmd # "handshake" => ~threadLaunched /\ born = running
    /\ cmd = "handshake" => IF threadLaunched THEN born = running
                            ELSE \A v, w \in born \ running : v = w

\* Each worker raises the flag for itself and the constructor lowers it for
\* the same worker, so no two of them toggle it at the same time.
THEOREM LaunchOneByOne == EngineSpec => []LaunchInStep
<1>1. EngineInit => LaunchInv
  BY DEF EngineInit, LaunchInv
<1>2. LaunchInv /\ [EngineNext]_allVars => LaunchInv'
  <2>. SUFFICES ASSUME LaunchInv, [EngineNext]_allVars PROVE LaunchInv'
    OBVIOUS
  <2>. USE DEF LaunchInv
  <2>1. ASSUME NEW w \in Worker, StartThread(w) PROVE LaunchInv'
    BY <2>1 DEF StartThread
  <2>2. CASE ClearLaunched
    BY <2>2 DEF ClearLaunched
  <2>3. ASSUME NEW w \in Worker, AnnounceLaunch(w) PROVE LaunchInv'
    BY <2>3 DEF AnnounceLaunch
  <2>4. ASSUME UNCHANGED <<born, running, threadLaunched>>,
               cmd # "handshake", cmd' # "handshake"
        PROVE  LaunchInv'
    BY <2>4
  <2>5. ASSUME UNCHANGED <<cmd, born, running, threadLaunched>> PROVE LaunchInv'
    BY <2>5
  <2>6. ASSUME NEW f \in File, QueueDirectoryEntry(f) PROVE LaunchInv'
    BY <2>5, <2>6 DEF QueueDirectoryEntry
  <2>7. CASE CompleteIndexing
    BY <2>4, <2>7 DEF CompleteIndexing
  <2>8. CASE QueueQuitTask
    BY <2>5, <2>8 DEF QueueQuitTask, engineVars, commandVars
  <2>9. CASE JoinAll
    BY <2>4, <2>9 DEF JoinAll
  <2>10. ASSUME NEW d \in Dir, IndexFiles(d) PROVE LaunchInv'
    BY <2>4, <2>10 DEF IndexFiles, Prompted
  <2>11. CASE QuitCommand
    BY <2>4, <2>11 DEF QuitCommand, Prompted
  <2>12. ASSUME NEW w \in Worker, RunWorker(w) PROVE LaunchInv'
    <3>1. CASE WaitForTask(w)
      BY <2>5, <3>1 DEF WaitForTask, engineVars, commandVars
    <3>2. CASE PopFile(w)
      BY <2>5, <3>2 DEF PopFile, commandVars
    <3>3. CASE FetchContentFromFile(w)
      BY <2>5, <3>3 DEF FetchContentFromFile, commandVars
    <3>4. CASE CutPath(w)
      BY <2>5, <3>4 DEF CutPath, commandVars
    <3>5. ASSUME NEW word \in Word, InsertWord(w, word) PROVE LaunchInv'
      BY <2>5, <3>5 DEF InsertWord, commandVars
    <3>6. CASE FinishFile(w)
      BY <2>5, <3>6 DEF FinishFile, commandVars
    <3>. QED
      BY <2>3, <2>12, <3>1, <3>2, <3>3, <3>4, <3>5, <3>6 DEF RunWorker
  <2>13. CASE UNCHANGED allVars
    BY <2>5, <2>13 DEF allVars, engineVars, commandVars
  <2>. QED
    BY <2>1, <2>2, <2>6, <2>7, <2>8, <2>9, <2>10, <2>11, <2>12, <2>13
    DEF EngineNext, CommandStep
<1>3. LaunchInv => LaunchInStep
  BY DEF LaunchInv, LaunchInStep
<1>. QED
  BY <1>1, <1>2, <1>3, PTL DEF EngineSpec

----------------------------------------------------------------------------
(* The work on a file                                                      *)

\* The worker has popped a file and is not done with it.
Busy(w) == doing[w] # "none"

\* Each worker is busy with a file exactly while it is at work, holds the text
\* of that file when it could be read, and inserts words of that text.
WorkInv ==
    /\ doing \in [Worker -> {"none", "fetch", "cut", "insert"}]
    /\ held \in [Worker -> File \cup {NoFile}]
    /\ path \in [Worker -> [file : File \cup {NoFile}, cut : Nat]]
    /\ left = [w \in Worker |-> left[w]]
    /\ datasetPathIndex \in Nat
    /\ \A w \in Worker : Busy(w) <=> at[w] = "work"
    /\ \A w \in Worker : Busy(w) => task[w] \in File
    /\ \A w \in Worker : doing[w] \in {"cut", "insert"} /\ task[w] \notin Unreadable =>
          held[w] = task[w]
    /\ \A w \in Worker : doing[w] = "insert" =>
          left[w] \subseteq DOMAIN WordFrequency(held[w]) /\ path[w].file = task[w]

\* The index is one list per word.
TopInv ==
    /\ top = [w \in Word |-> top[w]]
    /\ \A w \in Word : DOMAIN top[w] \subseteq Nat

\* Where a file of the indexed directories is.
InDeque(f) == \E i \in DOMAIN deque : deque[i] = f
UnderWork(f) == \E w \in Worker : Busy(w) /\ task[w] = f

\* Every file of the indexed directories is on its way or worked off, there
\* are no others, and the command thread goes on when none is in the deque.
FilesInv ==
    /\ indexings \in Seq(Dir)
    /\ todo \subseteq File /\ inserted \subseteq File
    /\ \A f \in File : f \in Queued <=> f \in todo \/ InDeque(f) \/ UnderWork(f) \/ f \in inserted
    /\ cmd # "index" => todo = {} /\ \A i \in DOMAIN deque : deque[i] = Quit

\* After one index command the shared length is that of its directory, and
\* nothing happens before the first.
CutInv ==
    /\ indexings = <<>> => ~aborted /\ \A w \in Word : DOMAIN top[w] = {}
    /\ Len(indexings) = 1 => datasetPathIndex = PrefixLength[indexings[1]]
    /\ Len(indexings) = 1 => \A w \in Worker : doing[w] = "insert" => path[w].cut = datasetPathIndex
    /\ OneCommandCutsRight

\* The frequencies that were inserted for a word so far.
Posted(word) ==
    {n \in Nat :
        \/ \E f \in inserted : word \in DOMAIN Text[f] /\ Text[f][word] = n
        \/ \E w \in Worker : /\ doing[w] = "insert" /\ word \notin left[w]
                             /\ word \in DOMAIN Text[task[w]] /\ Text[task[w]][word] = n}

\* D is a full part of P and lies above the rest of P, or all of P.
TopOf(D, P) ==
    /\ IsFiniteSet(P) /\ D \subseteq P
    /\ Cardinality(D) <= MaxSize
    /\ \A d \in P \ D : Cardinality(D) >= MaxSize /\ \A g \in D : d < g

ListsComplete ==
    Queued \cap Unreadable = {} => \A w \in Word : TopOf(DOMAIN top[w], Posted(w))

\* The program ends when all workers have.
EndInv == cmd = "end" => \A w \in Worker : at[w] = "exit"

EngineInv ==
    WorkInv /\ TopInv /\ StoredTextIsTrue /\ FilesInv /\ CutInv /\ ListsComplete /\ EndInv

\* What the steps of the engine are, WaitForTask taken apart.
LEMMA EngineCases ==
    ASSUME [EngineNext]_allVars
    PROVE  \/ UNCHANGED allVars
           \/ \E w \in Worker : StartThread(w) \/ AnnounceLaunch(w)
           \/ ClearLaunched \/ CompleteIndexing \/ QueueQuitTask \/ JoinAll \/ QuitCommand
           \/ \E f \in File : QueueDirectoryEntry(f)
           \/ \E d \in Dir : IndexFiles(d)
           \/ \E w \in Worker : WaitForTask(w) \/ PopFile(w) \/ FetchContentFromFile(w)
                                \/ CutPath(w) \/ FinishFile(w)
           \/ \E w \in Worker, word \in Word : InsertWord(w, word)
  BY DEF EngineNext, CommandStep, RunWorker

\* A worker that pops goes to work on a file or leaves its loop.
LEMMA PopsWhat ==
    ASSUME QueueTypeOK, NEW w \in Worker, PopTask(w)
    PROVE  /\ task'[w] \in Task /\ task'[w] = deque[1] /\ 1 \in DOMAIN deque
           /\ task'[w] # Quit => task'[w] \in File /\ at'[w] = "work"
           /\ task'[w] = Quit => at'[w] = "exit"
           /\ at[w] = "pop"
           /\ \A v \in Worker \ {w} : task'[v] = task[v] /\ at'[v] = at[v]
  BY DEF QueueTypeOK, PopTask, Task

LEMMA WorkInvInit == EngineInit => WorkInv
  BY DEF EngineInit, QueueInit, WorkInv, StoredPath, Busy

LEMMA WorkInvStep == QueueTypeOK /\ WorkInv /\ [EngineNext]_allVars => WorkInv'
<1>. SUFFICES ASSUME QueueTypeOK, WorkInv, [EngineNext]_allVars PROVE WorkInv'
  OBVIOUS
<1>. USE DEF WorkInv, Busy
<1>1. ASSUME UNCHANGED <<at, task, doing, held, path, left>>, datasetPathIndex' \in Nat
      PROVE  WorkInv'
  BY <1>1
<1>2. CASE \/ UNCHANGED allVars \/ ClearLaunched \/ CompleteIndexing \/ JoinAll \/ QuitCommand
           \/ QueueQuitTask
  BY <1>1, <1>2 DEF allVars, queueVars, engineVars, commandVars, workVars, ClearLaunched,
     CompleteIndexing, JoinAll, QuitCommand, StopWorkers, QueueQuitTask, QueueQuit
<1>3. ASSUME NEW w \in Worker, StartThread(w) \/ AnnounceLaunch(w) PROVE WorkInv'
  BY <1>1, <1>3 DEF StartThread, AnnounceLaunch, queueVars, workVars
<1>4. ASSUME NEW f \in File, QueueDirectoryEntry(f) PROVE WorkInv'
  BY <1>1, <1>4 DEF QueueDirectoryEntry, QueueFile, workVars
<1>5. ASSUME NEW d \in Dir, IndexFiles(d) PROVE WorkInv'
  BY <1>1, <1>5, DirAssumption DEF IndexFiles, queueVars, workVars
<1>6. ASSUME NEW w \in Worker, WaitForTask(w) PROVE WorkInv'
  BY <1>6 DEF WaitForTask, TakeTicket, StopSpinning, QueueTypeOK, engineVars, commandVars, workVars
<1>7. ASSUME NEW w \in Worker, PopFile(w) PROVE WorkInv'
  <2>1. PopTask(w) /\ UNCHANGED <<held, path, left, datasetPathIndex>>
    BY <1>7 DEF PopFile, commandVars
  <2>2. doing' = [doing EXCEPT ![w] = IF task'[w] = Quit THEN "none" ELSE "fetch"]
    BY <1>7 DEF PopFile
  <2>3. /\ task'[w] # Quit => task'[w] \in File /\ at'[w] = "work"
        /\ task'[w] = Quit => at'[w] = "exit"
        /\ at[w] = "pop"
        /\ \A v \in Worker \ {w} : task'[v] = task[v] /\ at'[v] = at[v]
    BY <2>1, PopsWhat
  <2>4. /\ doing' \in [Worker -> {"none", "fetch", "cut", "insert"}]
        /\ \A v \in Worker \ {w} : doing'[v] = doing[v]
        /\ doing'[w] = IF task'[w] = Quit THEN "none" ELSE "fetch"
    BY <2>2
  <2>5. \A v \in Worker : Busy(v)' <=> at'[v] = "work"
    BY <2>3, <2>4
  <2>6. \A v \in Worker : Busy(v)' => task'[v] \in File
    BY <2>3, <2>4
  <2>7. \A v \in Worker : doing'[v] \in {"cut", "insert"} =>
           v # w /\ doing[v] = doing'[v] /\ task'[v] = task[v]
    BY <2>3, <2>4
  <2>. QED
    BY <2>1, <2>4, <2>5, <2>6, <2>7
<1>8. ASSUME NEW w \in Worker, FetchContentFromFile(w) PROVE WorkInv'
  <2>1. /\ UNCHANGED <<at, task, path, left, datasetPathIndex>>
        /\ doing[w] = "fetch"
        /\ doing' = [doing EXCEPT ![w] = "cut"]
    BY <1>8 DEF FetchContentFromFile, queueVars, commandVars
  <2>2. held' = [held EXCEPT ![w] = IF task[w] \in Unreadable THEN @ ELSE task[w]]
    BY <1>8 DEF FetchContentFromFile
  <2>3. at[w] = "work" /\ task[w] \in File
    BY <2>1
  <2>4. /\ held' \in [Worker -> File \cup {NoFile}]
        /\ task[w] \notin Unreadable => held'[w] = task[w]
        /\ \A v \in Worker \ {w} : held'[v] = held[v]
    BY <2>2, <2>3
  <2>5. /\ doing' \in [Worker -> {"none", "fetch", "cut", "insert"}]
        /\ doing'[w] = "cut"
        /\ \A v \in Worker \ {w} : doing'[v] = doing[v]
    BY <2>1
  <2>6. \A v \in Worker : /\ Busy(v)' <=> Busy(v)
                          /\ doing'[v] = "insert" => v # w /\ doing[v] = "insert"
                          /\ doing'[v] \in {"cut", "insert"} => v = w \/ doing[v] = doing'[v]
    BY <2>1, <2>5
  <2>7. \A v \in Worker : doing'[v] = "insert" =>
           /\ doing[v] = "insert" /\ held'[v] = held[v]
           /\ path'[v] = path[v] /\ left'[v] = left[v] /\ task'[v] = task[v]
    BY <2>1, <2>4, <2>6
  <2>8. \A v \in Worker : doing'[v] \in {"cut", "insert"} /\ task'[v] \notin Unreadable =>
           held'[v] = task'[v]
    BY <2>1, <2>4, <2>6
  <2>. QED
    BY <2>1, <2>4, <2>5, <2>6, <2>7, <2>8
<1>9. ASSUME NEW w \in Worker, CutPath(w) PROVE WorkInv'
  BY <1>9 DEF CutPath, StoredPath, queueVars, commandVars
<1>10. ASSUME NEW w \in Worker, NEW word \in Word, InsertWord(w, word) PROVE WorkInv'
  BY <1>10 DEF InsertWord, queueVars, commandVars
<1>11. ASSUME NEW w \in Worker, FinishFile(w) PROVE WorkInv'
  BY <1>11 DEF FinishFile, FinishTask, QueueTypeOK, commandVars
<1>. QED
  BY <1>2, <1>3, <1>4, <1>5, <1>6, <1>7, <1>8, <1>9, <1>10, <1>11, EngineCases

----------------------------------------------------------------------------
(* The lists and their texts                                               *)

\* What inserting a word does to the lists.
LEMMA InsertEffect ==
    ASSUME WorkInv, TopInv, NEW w \in Worker, NEW word \in Word, InsertWord(w, word)
    PROVE  /\ doing[w] = "insert" /\ word \in left[w] /\ held[w] \in File
           /\ word \in DOMAIN Text[held[w]] /\ Text[held[w]][word] \in Nat
           /\ top' = [v \in Word |-> top'[v]]
           /\ \A v \in Word \ {word} : top'[v] = top[v]
           /\ DOMAIN top'[word] = Store!Largest(DOMAIN top[word] \cup {Text[held[w]][word]})
           /\ \A n \in DOMAIN top'[word] :
                 \/ n \in DOMAIN top[word] /\ top'[word][n] = top[word][n]
                 \/ n = Text[held[w]][word] /\ top'[word][n] = path[w]
<1>1. doing[w] = "insert" /\ word \in left[w] /\ word \in DOMAIN WordFrequency(held[w])
  BY DEF InsertWord, WorkInv
<1>2. held[w] \in File /\ WordFrequency(held[w]) = Text[held[w]]
  BY <1>1 DEF WorkInv, WordFrequency, NoWords
<1>3. Text[held[w]][word] \in Nat
  BY <1>1, <1>2, TextAssumption
<1>4. top' = [top EXCEPT ![word] = Store!With(top[word], Text[held[w]][word], path[w])]
  BY <1>2 DEF InsertWord, Store!Post
<1>. DEFINE S == DOMAIN top[word] \cup {Text[held[w]][word]}
<1>5. top'[word] = [g \in Store!Largest(S) |-> IF g \in DOMAIN top[word] THEN top[word][g] ELSE path[w]]
  BY <1>4 DEF TopInv, Store!With
<1>6. Store!Largest(S) \subseteq S
  BY DEF Store!Largest
<1>7. top' = [v \in Word |-> top'[v]] /\ \A v \in Word \ {word} : top'[v] = top[v]
  BY <1>4 DEF TopInv
<1>. QED
  BY <1>1, <1>2, <1>3, <1>5, <1>6, <1>7

LEMMA TopInvInit == EngineInit => TopInv /\ StoredTextIsTrue
  BY DEF EngineInit, TopInv, StoredTextIsTrue, Store!Init

\* No step but an insertion touches the lists.
LEMMA OnlyInsertionsPost ==
    ASSUME [EngineNext]_allVars
    PROVE  top' = top \/ \E w \in Worker, word \in Word : InsertWord(w, word)
  BY EngineCases DEF allVars, engineVars, workVars, StartThread, AnnounceLaunch, ClearLaunched,
     CompleteIndexing, QueueQuitTask, JoinAll, QuitCommand, QueueDirectoryEntry, IndexFiles,
     WaitForTask, PopFile, FetchContentFromFile, CutPath, FinishFile

LEMMA TopInvStep ==
    WorkInv /\ TopInv /\ StoredTextIsTrue /\ [EngineNext]_allVars => TopInv' /\ StoredTextIsTrue'
<1>. SUFFICES ASSUME WorkInv, TopInv, StoredTextIsTrue, [EngineNext]_allVars
              PROVE  TopInv' /\ StoredTextIsTrue'
  OBVIOUS
<1>1. CASE top' = top
  BY <1>1 DEF TopInv, StoredTextIsTrue
<1>2. ASSUME NEW w \in Worker, NEW word \in Word, InsertWord(w, word)
      PROVE  TopInv' /\ StoredTextIsTrue'
  <2>. DEFINE f == Text[held[w]][word]
  <2>1. /\ \A v \in Word \ {word} : top'[v] = top[v]
        /\ \A n \in DOMAIN top'[word] : \/ n \in DOMAIN top[word] /\ top'[word][n] = top[word][n]
                                        \/ n = f /\ top'[word][n] = path[w]
        /\ f \in Nat /\ top' = [v \in Word |-> top'[v]]
    BY <1>2, InsertEffect
  <2>2. path[w].file \notin Unreadable => held[w] = path[w].file /\ word \in DOMAIN Text[held[w]]
    BY <1>2, InsertEffect DEF WorkInv
  <2>3. \A n \in DOMAIN top'[word] : top'[word][n].file \notin Unreadable =>
           word \in DOMAIN Text[top'[word][n].file] /\ Text[top'[word][n].file][word] = n
    BY <2>1, <2>2 DEF StoredTextIsTrue
  <2>4. StoredTextIsTrue'
    BY <2>1, <2>3 DEF StoredTextIsTrue
  <2>5. TopInv'
    BY <2>1 DEF TopInv
  <2>. QED
    BY <2>4, <2>5
<1>. QED
  BY <1>1, <1>2, OnlyInsertionsPost

----------------------------------------------------------------------------
(* The files                                                               *)

LEMMA FilesInvInit == EngineInit => FilesInv
<1>. SUFFICES ASSUME EngineInit PROVE FilesInv
  OBVIOUS
<1>1. indexings = <<>> /\ todo = {} /\ deque = <<>> /\ inserted = {}
      /\ doing = [w \in Worker |-> "none"]
  BY DEF EngineInit, QueueInit
<1>2. Queued = {}
  BY <1>1 DEF Queued, Range
<1>. QED
  BY <1>1, <1>2 DEF FilesInv, InDeque, UnderWork, Busy

\* An index command adds the files of its directory.
LEMMA QueuedGrows ==
    ASSUME indexings \in Seq(Dir), NEW d \in Dir, indexings' = Append(indexings, d)
    PROVE  Queued' = Queued \cup FilesIn[d]
<1>1. /\ DOMAIN indexings' = DOMAIN indexings \cup {Len(indexings) + 1}
      /\ \A i \in DOMAIN indexings : indexings'[i] = indexings[i]
      /\ indexings'[Len(indexings) + 1] = d
  OBVIOUS
<1>2. Range(indexings') = Range(indexings) \cup {d}
  BY <1>1 DEF Range
<1>. QED
  BY <1>2 DEF Queued

LEMMA FilesInvStep == QueueTypeOK /\ WorkInv /\ FilesInv /\ [EngineNext]_allVars => FilesInv'
<1>. SUFFICES ASSUME QueueTypeOK, WorkInv, FilesInv, [EngineNext]_allVars PROVE FilesInv'
  OBVIOUS
<1>0. deque \in Seq(Task) /\ indexings \in Seq(Dir)
  BY DEF QueueTypeOK, FilesInv
<1>1. ASSUME UNCHANGED <<indexings, todo, deque, task, inserted>>,
             \A w \in Worker : doing'[w] # "none" <=> doing[w] # "none",
             (cmd' # "index" => cmd # "index") \/ (todo = {} /\ deque = <<>>)
      PROVE  FilesInv'
  BY <1>1 DEF FilesInv, Queued, InDeque, UnderWork, Busy
<1>12. ASSUME UNCHANGED <<indexings, todo, deque, task, inserted, doing>>,
              (cmd' # "index" => cmd # "index") \/ (todo = {} /\ deque = <<>>)
       PROVE  FilesInv'
  BY <1>1, <1>12
<1>2. CASE \/ UNCHANGED allVars \/ ClearLaunched \/ CompleteIndexing \/ JoinAll \/ QuitCommand
  BY <1>12, <1>2 DEF allVars, queueVars, engineVars, commandVars, workVars, ClearLaunched,
     CompleteIndexing, JoinAll, QuitCommand, StopWorkers, Prompted
<1>3. ASSUME NEW w \in Worker, StartThread(w) \/ AnnounceLaunch(w) PROVE FilesInv'
  BY <1>12, <1>3 DEF StartThread, AnnounceLaunch, queueVars, workVars
<1>4. ASSUME NEW f \in File, QueueDirectoryEntry(f) PROVE FilesInv'
  <2>1. /\ DOMAIN deque' = DOMAIN deque \cup {Len(deque) + 1}
        /\ \A i \in DOMAIN deque : deque'[i] = deque[i]
        /\ deque'[Len(deque) + 1] = f
    BY <1>0, <1>4 DEF QueueDirectoryEntry, QueueFile, Task
  <2>2. \A g : InDeque(g)' <=> InDeque(g) \/ g = f
    BY <2>1 DEF InDeque
  <2>3. /\ f \in todo /\ todo' = todo \ {f} /\ cmd = "index"
        /\ UNCHANGED <<indexings, task, doing, inserted, cmd>>
    BY <1>4 DEF QueueDirectoryEntry, QueueFile, workVars
  <2>4. \A g : UnderWork(g)' <=> UnderWork(g)
    BY <2>3 DEF UnderWork, Busy
  <2>. QED
    BY <2>2, <2>3, <2>4 DEF FilesInv, Queued
<1>5. CASE QueueQuitTask
  <2>1. /\ DOMAIN deque' = DOMAIN deque \cup {Len(deque) + 1}
        /\ \A i \in DOMAIN deque : deque'[i] = deque[i]
        /\ deque'[Len(deque) + 1] = Quit
    BY <1>0, <1>5 DEF QueueQuitTask, QueueQuit, Task
  <2>2. \A g \in File : InDeque(g)' <=> InDeque(g)
    BY <2>1, QuitAssumption DEF InDeque
  <2>3. cmd = "quit" /\ UNCHANGED <<indexings, todo, task, doing, inserted, cmd>>
    BY <1>5 DEF QueueQuitTask, QueueQuit, engineVars, commandVars, workVars
  <2>4. \A g : UnderWork(g)' <=> UnderWork(g)
    BY <2>3 DEF UnderWork, Busy
  <2>. QED
    BY <2>1, <2>2, <2>3, <2>4 DEF FilesInv, Queued
<1>6. ASSUME NEW d \in Dir, IndexFiles(d) PROVE FilesInv'
  <2>1. /\ cmd # "index" /\ todo' = FilesIn[d] /\ indexings' = Append(indexings, d)
        /\ cmd' # "index" => FilesIn[d] = {}
        /\ UNCHANGED <<deque, task, doing, inserted>>
    BY <1>6 DEF IndexFiles, Prompted, queueVars, workVars
  <2>2. Queued' = Queued \cup FilesIn[d] /\ indexings' \in Seq(Dir) /\ FilesIn[d] \subseteq File
    BY <1>0, <2>1, QueuedGrows, DirAssumption
  <2>3. \A g : (UnderWork(g)' <=> UnderWork(g)) /\ (InDeque(g)' <=> InDeque(g))
    BY <2>1 DEF UnderWork, Busy, InDeque
  <2>. QED
    BY <2>1, <2>2, <2>3 DEF FilesInv
<1>7. ASSUME NEW w \in Worker, WaitForTask(w) PROVE FilesInv'
  BY <1>12, <1>7 DEF WaitForTask, TakeTicket, StopSpinning, engineVars, commandVars, workVars
<1>8. ASSUME NEW w \in Worker, PopFile(w) PROVE FilesInv'
  <2>1. /\ PopTask(w) /\ UNCHANGED <<indexings, todo, inserted, cmd>>
        /\ doing' = [doing EXCEPT ![w] = IF task'[w] = Quit THEN "none" ELSE "fetch"]
    BY <1>8 DEF PopFile, commandVars
  <2>2. /\ 1 \in DOMAIN deque /\ task'[w] = deque[1] /\ ~Busy(w)
        /\ \A v \in Worker \ {w} : task'[v] = task[v]
    BY <2>1, PopsWhat DEF WorkInv
  <2>3. /\ \A i \in DOMAIN deque' : i + 1 \in DOMAIN deque /\ deque'[i] = deque[i + 1]
        /\ \A i \in DOMAIN deque \ {1} : i - 1 \in DOMAIN deque' /\ deque'[i - 1] = deque[i]
    <3>1. /\ deque # <<>> /\ deque' = Tail(deque)
      BY <2>1 DEF PopTask
    <3>2. /\ DOMAIN deque = 1..Len(deque) /\ Len(deque) \in Nat
          /\ DOMAIN deque' = 1..(Len(deque) - 1)
          /\ \A i \in 1..(Len(deque) - 1) : deque'[i] = deque[i + 1]
      BY <1>0, <3>1
    <3>3. ASSUME NEW i \in DOMAIN deque \ {1}
          PROVE  i - 1 \in DOMAIN deque' /\ deque'[i - 1] = deque[i]
      <4>1. i - 1 \in 1..(Len(deque) - 1) /\ (i - 1) + 1 = i
        BY <3>2, <3>3
      <4>. QED
        BY <3>2, <4>1
    <3>4. ASSUME NEW i \in DOMAIN deque'
          PROVE  i + 1 \in DOMAIN deque /\ deque'[i] = deque[i + 1]
      <4>1. i \in 1..(Len(deque) - 1)
        BY <3>2, <3>4
      <4>2. i + 1 \in 1..Len(deque)
        BY <3>2, <4>1
      <4>. QED
        BY <3>2, <4>1, <4>2
    <3>. QED
      BY <3>3, <3>4
  <2>4. \A g : InDeque(g) <=> InDeque(g)' \/ g = deque[1]
    <3>1. ASSUME NEW g, InDeque(g)' PROVE InDeque(g)
      BY <2>3, <3>1 DEF InDeque
    <3>2. ASSUME NEW g, InDeque(g), g # deque[1] PROVE InDeque(g)'
      BY <2>3, <3>2 DEF InDeque
    <3>. QED
      BY <2>2, <3>1, <3>2 DEF InDeque
  <2>5. \A v \in Worker \ {w} : Busy(v)' <=> Busy(v)
    BY <2>1 DEF Busy, WorkInv
  <2>6. Busy(w)' <=> deque[1] # Quit
    BY <2>1, <2>2 DEF Busy, WorkInv
  <2>7. \A g \in File : UnderWork(g)' <=> UnderWork(g) \/ g = deque[1]
    BY <2>2, <2>5, <2>6, QuitAssumption DEF UnderWork
  <2>8. cmd # "index" => \A i \in DOMAIN deque' : deque'[i] = Quit
    BY <2>3 DEF FilesInv
  <2>. QED
    BY <2>1, <2>4, <2>7, <2>8 DEF FilesInv, Queued
<1>9. ASSUME NEW w \in Worker, FetchContentFromFile(w) \/ CutPath(w) PROVE FilesInv'
  <2>1. UNCHANGED <<indexings, todo, deque, task, inserted, cmd>>
    BY <1>9 DEF FetchContentFromFile, CutPath, queueVars, commandVars
  <2>2. \A v \in Worker : doing'[v] # "none" <=> doing[v] # "none"
    BY <1>9 DEF FetchContentFromFile, CutPath, WorkInv
  <2>. QED
    BY <1>1, <2>1, <2>2
<1>10. ASSUME NEW w \in Worker, NEW word \in Word, InsertWord(w, word) PROVE FilesInv'
  BY <1>12, <1>10 DEF InsertWord, queueVars, commandVars
<1>11. ASSUME NEW w \in Worker, FinishFile(w) PROVE FilesInv'
  <2>1. /\ inserted' = inserted \cup {task[w]} /\ Busy(w) /\ ~Busy(w)' /\ task[w] \in File
        /\ \A v \in Worker \ {w} : Busy(v)' <=> Busy(v)
        /\ UNCHANGED <<indexings, todo, deque, task, cmd>>
    BY <1>11 DEF FinishFile, FinishTask, WorkInv, Busy, commandVars
  <2>2. \A g : UnderWork(g) <=> UnderWork(g)' \/ g = task[w]
    BY <2>1 DEF UnderWork
  <2>3. \A g : InDeque(g)' <=> InDeque(g)
    BY <2>1 DEF InDeque
  <2>. QED
    BY <2>1, <2>2, <2>3 DEF FilesInv, Queued
<1>. QED
  BY <1>2, <1>3, <1>4, <1>5, <1>6, <1>7, <1>8, <1>9, <1>10, <1>11, EngineCases

----------------------------------------------------------------------------
(* The paths                                                               *)

LEMMA CutInvInit == EngineInit => CutInv
  BY DEF EngineInit, CutInv, OneCommandCutsRight, Store!Init

\* Nothing is under work before the first command, and only files of its
\* directory before the second.
LEMMA QueuedOfFew ==
    ASSUME indexings \in Seq(Dir)
    PROVE  /\ indexings = <<>> => Queued = {}
           /\ Len(indexings) = 1 => indexings[1] \in Dir /\ Queued = FilesIn[indexings[1]]
<1>1. indexings = <<>> => Range(indexings) = {}
  BY DEF Range
<1>2. Len(indexings) = 1 => indexings[1] \in Dir /\ Range(indexings) = {indexings[1]}
  BY DEF Range
<1>. QED
  BY <1>1, <1>2 DEF Queued

LEMMA BusyWithQueued ==
    ASSUME WorkInv, FilesInv, NEW w \in Worker, doing[w] # "none"
    PROVE  task[w] \in Queued /\ indexings # <<>>
<1>1. Busy(w)
  BY DEF Busy
<1>2. task[w] \in Queued
  BY <1>1 DEF WorkInv, FilesInv, UnderWork
<1>. QED
  BY <1>2, QueuedOfFew DEF FilesInv

LEMMA CutInvStep ==
    WorkInv /\ TopInv /\ FilesInv /\ CutInv /\ [EngineNext]_allVars => CutInv'
<1>. SUFFICES ASSUME WorkInv, TopInv, FilesInv, CutInv, [EngineNext]_allVars PROVE CutInv'
  OBVIOUS
<1>0. /\ indexings \in Seq(Dir) /\ Len(indexings) \in Nat
      /\ indexings # <<>> /\ Len(indexings) # 1 => ~(Len(indexings) <= 1)
  BY DEF FilesInv
<1>1. ASSUME UNCHANGED <<indexings, datasetPathIndex, top, aborted, path>>,
             \A w \in Worker : doing'[w] = "insert" => doing[w] = "insert"
      PROVE  CutInv'
  BY <1>1 DEF CutInv, OneCommandCutsRight
<1>2. CASE \/ UNCHANGED allVars \/ ClearLaunched \/ CompleteIndexing \/ JoinAll \/ QuitCommand
           \/ QueueQuitTask
  BY <1>1, <1>2 DEF allVars, engineVars, commandVars, workVars, ClearLaunched,
     CompleteIndexing, JoinAll, QuitCommand, QueueQuitTask
<1>3. ASSUME NEW w \in Worker, StartThread(w) \/ AnnounceLaunch(w) \/ WaitForTask(w) PROVE CutInv'
  BY <1>1, <1>3 DEF StartThread, AnnounceLaunch, WaitForTask, engineVars, commandVars, workVars
<1>4. ASSUME NEW f \in File, QueueDirectoryEntry(f) PROVE CutInv'
  BY <1>1, <1>4 DEF QueueDirectoryEntry, workVars
<1>5. ASSUME NEW d \in Dir, IndexFiles(d) PROVE CutInv'
  <2>1. /\ indexings' = Append(indexings, d) /\ datasetPathIndex' = PrefixLength[d]
        /\ UNCHANGED <<doing, top, aborted>>
    BY <1>5 DEF IndexFiles, workVars
  <2>2. Len(indexings') = Len(indexings) + 1 /\ indexings' # <<>>
        /\ (indexings = <<>> => indexings'[1] = d)
    BY <1>0, <2>1
  <2>3. CASE indexings = <<>>
    <3>1. \A w \in Worker : doing'[w] # "insert"
      BY <2>1, <2>3, BusyWithQueued
    <3>2. ~aborted /\ \A w \in Word : DOMAIN top[w] = {}
      BY <2>3 DEF CutInv
    <3>. QED
      BY <2>1, <2>2, <2>3, <3>1, <3>2 DEF CutInv, OneCommandCutsRight
  <2>4. CASE indexings # <<>>
    <3>1. ~(Len(indexings') <= 1) /\ Len(indexings') # 1 /\ indexings' # <<>>
      BY <1>0, <2>2, <2>4
    <3>. QED
      BY <3>1 DEF CutInv, OneCommandCutsRight
  <2>. QED
    BY <2>3, <2>4
<1>6. ASSUME NEW w \in Worker, PopFile(w) \/ FetchContentFromFile(w) \/ FinishFile(w) PROVE CutInv'
  <2>1. UNCHANGED <<indexings, datasetPathIndex, top, aborted, path>>
    BY <1>6 DEF PopFile, FetchContentFromFile, FinishFile, commandVars
  <2>2. \A v \in Worker : doing'[v] = "insert" => doing[v] = "insert"
    BY <1>6 DEF PopFile, FetchContentFromFile, FinishFile, WorkInv
  <2>. QED
    BY <1>1, <2>1, <2>2
<1>7. ASSUME NEW w \in Worker, CutPath(w) PROVE CutInv'
  <2>1. doing[w] = "cut" /\ UNCHANGED <<indexings, datasetPathIndex, top>>
    BY <1>7 DEF CutPath, commandVars
  <2>2. task[w] \in Queued /\ indexings # <<>>
    BY <2>1, BusyWithQueued
  <2>3. Len(indexings) = 1 => datasetPathIndex <= PathLength[task[w]]
    BY <1>0, <2>2, QueuedOfFew, PathAssumption DEF CutInv
  <2>4. CASE Len(indexings) = 1
    <3>1. ~(datasetPathIndex > PathLength[task[w]])
      <4>1. task[w] \in File
        BY <2>1 DEF WorkInv, Busy
      <4>. QED
        BY <2>3, <2>4, <4>1, DirAssumption DEF WorkInv
    <3>2. /\ UNCHANGED aborted
          /\ path' = [path EXCEPT ![w] = StoredPath(task[w], datasetPathIndex)]
          /\ doing' = [doing EXCEPT ![w] = "insert"]
      BY <1>7, <3>1 DEF CutPath
    <3>3. \A v \in Worker : doing'[v] = "insert" => path'[v].cut = datasetPathIndex
      BY <2>4, <3>2 DEF CutInv, WorkInv, StoredPath
    <3>. QED
      BY <2>1, <2>2, <3>2, <3>3 DEF CutInv, OneCommandCutsRight
  <2>5. CASE Len(indexings) # 1
    <3>1. ~(Len(indexings) <= 1)
      BY <1>0, <2>2, <2>5
    <3>. QED
      BY <2>1, <2>2, <2>5, <3>1 DEF CutInv, OneCommandCutsRight
  <2>. QED
    BY <2>4, <2>5
<1>8. ASSUME NEW w \in Worker, NEW word \in Word, InsertWord(w, word) PROVE CutInv'
  <2>1. /\ doing[w] = "insert" /\ UNCHANGED <<indexings, datasetPathIndex, doing, path, aborted>>
    BY <1>8 DEF InsertWord, commandVars
  <2>2. indexings # <<>>
    BY <2>1, BusyWithQueued
  <2>3. /\ \A v \in Word \ {word} : top'[v] = top[v]
        /\ \A n \in DOMAIN top'[word] :
              \/ n \in DOMAIN top[word] /\ top'[word][n] = top[word][n]
              \/ n = Text[held[w]][word] /\ top'[word][n] = path[w]
    BY <1>8, InsertEffect
  <2>4. CASE Len(indexings) = 1
    <3>1. path[w].cut = PrefixLength[indexings[1]]
      BY <2>1, <2>4 DEF CutInv
    <3>2. ~aborted /\ \A v \in Word : \A n \in DOMAIN top[v] : top[v][n].cut = PrefixLength[indexings[1]]
      BY <2>4 DEF CutInv, OneCommandCutsRight
    <3>3. \A v \in Word : \A n \in DOMAIN top'[v] : top'[v][n].cut = PrefixLength[indexings[1]]
      BY <2>3, <3>1, <3>2
    <3>. QED
      BY <2>1, <2>2, <2>4, <3>2, <3>3 DEF CutInv, OneCommandCutsRight
  <2>5. CASE Len(indexings) # 1
    <3>1. ~(Len(indexings) <= 1)
      BY <1>0, <2>2, <2>5
    <3>. QED
      BY <2>1, <2>2, <2>5, <3>1 DEF CutInv, OneCommandCutsRight
  <2>. QED
    BY <2>4, <2>5
<1>. QED
  BY <1>2, <1>3, <1>4, <1>5, <1>6, <1>7, <1>8, EngineCases

----------------------------------------------------------------------------
(* The largest frequencies                                                 *)

LEMMA LeastOfNats ==
    ASSUME NEW S \in SUBSET Nat, S # {}
    PROVE  \E m \in S : \A x \in S : m <= x
<1>1. PICK m \in S : \A x \in S : <<x, m>> \notin OpToRel(<, Nat)
  BY NatLessThanWellFounded, WFMin
<1>2. \A x \in S : ~(x < m)
  BY <1>1, Zenon DEF OpToRel
<1>. QED
  BY <1>2

LEMMA LargestIs ==
    ASSUME NEW S PROVE Store!Largest(S) = {f \in S : Cardinality({g \in S : g > f}) < MaxSize}
  BY DEF Store!Largest, Store!Cardinality, Cardinality

\* If D is a full part of P and lies above the rest, it is what is kept of P.
LEMMA LargestCharacterised ==
    ASSUME NEW P \in SUBSET Nat, NEW D \in SUBSET Nat, TopOf(D, P)
    PROVE  Store!Largest(P) = D
<1>0. IsFiniteSet(D) /\ Cardinality(D) \in Nat /\ Cardinality(D) <= MaxSize /\ D \subseteq P
  BY FS_Subset, FS_CardinalityType DEF TopOf
<1>1. ASSUME NEW f \in D PROVE Cardinality({g \in P : g > f}) < MaxSize
  <2>1. {g \in P : g > f} \subseteq D \ {f}
    <3>1. ASSUME NEW g \in P, g > f PROVE g \in D \ {f}
      <4>1. g \notin D => g < f
        BY <3>1 DEF TopOf
      <4>2. g \in Nat /\ f \in Nat
        BY <1>0
      <4>. QED
        BY <3>1, <4>1, <4>2
    <3>. QED
      BY <3>1
  <2>2. IsFiniteSet(D \ {f}) /\ Cardinality(D \ {f}) = Cardinality(D) - 1
    BY <1>0, FS_RemoveElement
  <2>3. /\ IsFiniteSet({g \in P : g > f})
        /\ Cardinality({g \in P : g > f}) <= Cardinality(D) - 1
    BY <2>1, <2>2, FS_Subset
  <2>. QED
    BY <1>0, <2>3, FS_CardinalityType, SizeAssumption
<1>2. ASSUME NEW d \in P \ D PROVE ~(Cardinality({g \in P : g > d}) < MaxSize)
  <2>1. Cardinality(D) >= MaxSize /\ \A g \in D : d < g
    BY DEF TopOf
  <2>2. D \subseteq {g \in P : g > d}
    BY <1>0, <2>1
  <2>3. IsFiniteSet({g \in P : g > d})
    BY FS_Subset DEF TopOf
  <2>4. Cardinality(D) <= Cardinality({g \in P : g > d})
    BY <2>2, <2>3, FS_Subset
  <2>. QED
    BY <1>0, <2>1, <2>3, <2>4, FS_CardinalityType, SizeAssumption
<1>. QED
  BY <1>0, <1>1, <1>2, LargestIs

\* An insertion keeps a list at the top of what was inserted.
LEMMA InsertKeepsTop ==
    ASSUME NEW P \in SUBSET Nat, NEW D \in SUBSET Nat, TopOf(D, P), NEW f \in Nat
    PROVE  TopOf(Store!Largest(D \cup {f}), P \cup {f})
<1>. DEFINE U == D \cup {f}
<1>0. /\ IsFiniteSet(D) /\ Cardinality(D) \in Nat /\ Cardinality(D) <= MaxSize /\ D \subseteq P
      /\ IsFiniteSet(P \cup {f}) /\ MaxSize \in Nat
  BY FS_Subset, FS_CardinalityType, FS_AddElement, SizeAssumption DEF TopOf
<1>1. /\ IsFiniteSet(U) /\ Cardinality(U) \in Nat
      /\ f \in D => U = D
      /\ f \notin D => Cardinality(U) = Cardinality(D) + 1
  BY <1>0, FS_AddElement, FS_CardinalityType
<1>2. CASE Cardinality(U) <= MaxSize
  <2>1. TopOf(U, U)
    BY <1>1, <1>2 DEF TopOf
  <2>2. Store!Largest(U) = U
    BY <2>1, LargestCharacterised
  <2>3. ASSUME NEW d \in (P \cup {f}) \ U PROVE Cardinality(U) >= MaxSize /\ \A g \in U : d < g
    <3>1. d \in P \ D /\ Cardinality(D) >= MaxSize /\ \A g \in D : d < g
      BY DEF TopOf
    <3>2. f \in D
      BY <1>0, <1>1, <1>2, <3>1
    <3>. QED
      BY <1>1, <3>1, <3>2
  <2>. QED
    BY <1>0, <1>2, <2>2, <2>3 DEF TopOf
<1>3. CASE ~(Cardinality(U) <= MaxSize)
  <2>1. f \notin D /\ Cardinality(D) = MaxSize /\ Cardinality(U) = MaxSize + 1
    BY <1>0, <1>1, <1>3
  <2>0. U \in SUBSET Nat /\ U # {}
    OBVIOUS
  <2>2. PICK m \in U : \A x \in U : m <= x
    BY <2>0, LeastOfNats
  <2>3. IsFiniteSet(U \ {m}) /\ Cardinality(U \ {m}) = MaxSize
    <3>1. IsFiniteSet(U \ {m}) /\ Cardinality(U \ {m}) = Cardinality(U) - 1
      BY <1>1, <2>2, FS_RemoveElement
    <3>. QED
      BY <1>0, <2>1, <3>1
  <2>4. \A g \in U \ {m} : m < g
    BY <2>2
  <2>5. TopOf(U \ {m}, U)
    BY <1>0, <1>1, <2>3, <2>4 DEF TopOf
  <2>6. Store!Largest(U) = U \ {m}
    BY <2>5, LargestCharacterised
  <2>7. ASSUME NEW d \in (P \cup {f}) \ (U \ {m}), NEW g \in U \ {m} PROVE d < g
    <3>1. CASE d = m
      BY <2>4, <3>1
    <3>2. CASE d # m
      <4>1. d \in P \ D /\ \A h \in D : d < h
        BY <3>2 DEF TopOf
      <4>2. g \in D \/ (m \in D /\ m < g)
        BY <2>4
      <4>. QED
        BY <4>1, <4>2
    <3>. QED
      BY <3>1, <3>2
  <2>8. U \ {m} \subseteq P \cup {f}
    BY <1>0
  <2>9. TopOf(U \ {m}, P \cup {f})
    BY <1>0, <2>3, <2>7, <2>8 DEF TopOf
  <2>. QED
    BY <2>6, <2>9
<1>. QED
  BY <1>2, <1>3

----------------------------------------------------------------------------
(* The lists are complete                                                  *)

LEMMA ListsCompleteInit == EngineInit => ListsComplete
<1>. SUFFICES ASSUME EngineInit, NEW w \in Word PROVE TopOf(DOMAIN top[w], Posted(w))
  BY DEF ListsComplete
<1>1. DOMAIN top[w] = {}
  BY DEF EngineInit, Store!Init
<1>2. Posted(w) = {}
  BY DEF EngineInit, Posted
<1>. QED
  BY <1>1, <1>2, FS_EmptySet, SizeAssumption DEF TopOf

\* As long as every indexed file can be read, a worker holds the text of its
\* file.
LEMMA HoldsItsFile ==
    ASSUME WorkInv, FilesInv, Queued \cap Unreadable = {},
           NEW w \in Worker, doing[w] \in {"cut", "insert"}
    PROVE  task[w] \in File /\ held[w] = task[w] /\ WordFrequency(held[w]) = Text[task[w]]
<1>1. task[w] \in Queued /\ task[w] \in File
  BY BusyWithQueued DEF WorkInv, Busy
<1>2. held[w] = task[w]
  BY <1>1 DEF WorkInv
<1>. QED
  BY <1>1, <1>2, TextAssumption DEF WordFrequency

LEMMA ListsCompleteStep ==
    /\ QueueTypeOK /\ WorkInv /\ TopInv /\ FilesInv /\ ListsComplete
    /\ [EngineNext]_allVars
    => ListsComplete'
<1>. SUFFICES ASSUME QueueTypeOK, WorkInv, TopInv, FilesInv, ListsComplete,
                     [EngineNext]_allVars, (Queued \cap Unreadable = {})', NEW v \in Word
              PROVE  TopOf(DOMAIN top'[v], Posted(v)')
  BY DEF ListsComplete
<1>0. Queued \cap Unreadable = {} /\ TopOf(DOMAIN top[v], Posted(v))
  <2>1. ASSUME indexings' = indexings PROVE Queued \subseteq Queued'
    BY <2>1 DEF Queued
  <2>2. ASSUME indexings' # indexings PROVE Queued \subseteq Queued'
    <3>1. PICK d \in Dir : IndexFiles(d)
      BY <2>2, EngineCases DEF allVars, engineVars, commandVars, StartThread, AnnounceLaunch,
         ClearLaunched, CompleteIndexing, QueueQuitTask, JoinAll, QuitCommand, QueueDirectoryEntry,
         WaitForTask, PopFile, FetchContentFromFile, CutPath, FinishFile, InsertWord
    <3>2. Queued' = Queued \cup FilesIn[d]
      BY <3>1, QueuedGrows DEF IndexFiles, FilesInv
    <3>. QED
      BY <3>2
  <2>3. Queued \cap Unreadable = {}
    BY <2>1, <2>2
  <2>. QED
    BY <2>3 DEF ListsComplete
<1>1. ASSUME top' = top, Posted(v)' = Posted(v) PROVE TopOf(DOMAIN top'[v], Posted(v)')
  BY <1>0, <1>1
<1>2. ASSUME UNCHANGED <<top, inserted, left>>,
             \A w \in Worker : doing'[w] = "insert" <=> doing[w] = "insert",
             \A w \in Worker : doing[w] = "insert" => task'[w] = task[w]
      PROVE  TopOf(DOMAIN top'[v], Posted(v)')
  <2>1. Posted(v)' = Posted(v)
    BY <1>2 DEF Posted
  <2>. QED
    BY <1>1, <1>2, <2>1
<1>3. CASE \/ UNCHANGED allVars \/ ClearLaunched \/ CompleteIndexing \/ JoinAll \/ QuitCommand
           \/ QueueQuitTask
  BY <1>2, <1>3 DEF allVars, queueVars, engineVars, commandVars, workVars, ClearLaunched,
     CompleteIndexing, JoinAll, QuitCommand, StopWorkers, QueueQuitTask, QueueQuit
<1>4. ASSUME NEW w \in Worker, StartThread(w) \/ AnnounceLaunch(w) \/ WaitForTask(w)
      PROVE  TopOf(DOMAIN top'[v], Posted(v)')
  BY <1>2, <1>4 DEF StartThread, AnnounceLaunch, WaitForTask, TakeTicket, StopSpinning,
     queueVars, engineVars, commandVars, workVars
<1>5. ASSUME NEW f \in File, QueueDirectoryEntry(f) PROVE TopOf(DOMAIN top'[v], Posted(v)')
  BY <1>2, <1>5 DEF QueueDirectoryEntry, QueueFile, workVars
<1>6. ASSUME NEW d \in Dir, IndexFiles(d) PROVE TopOf(DOMAIN top'[v], Posted(v)')
  BY <1>2, <1>6 DEF IndexFiles, queueVars, workVars
<1>7. ASSUME NEW w \in Worker, PopFile(w) PROVE TopOf(DOMAIN top'[v], Posted(v)')
  <2>1. /\ PopTask(w) /\ UNCHANGED <<top, inserted, left>>
        /\ doing' = [doing EXCEPT ![w] = IF task'[w] = Quit THEN "none" ELSE "fetch"]
    BY <1>7 DEF PopFile
  <2>2. doing[w] = "none" /\ \A u \in Worker \ {w} : task'[u] = task[u]
    BY <2>1, PopsWhat DEF WorkInv, Busy
  <2>. QED
    BY <1>2, <2>1, <2>2 DEF WorkInv
<1>8. ASSUME NEW w \in Worker, FetchContentFromFile(w) PROVE TopOf(DOMAIN top'[v], Posted(v)')
  BY <1>2, <1>8 DEF FetchContentFromFile, WorkInv, queueVars
\* Nothing of the text is inserted yet.
<1>9. ASSUME NEW w \in Worker, CutPath(w) PROVE TopOf(DOMAIN top'[v], Posted(v)')
  <2>1. doing[w] = "cut" /\ UNCHANGED <<top, inserted, task>>
    BY <1>9 DEF CutPath, queueVars
  <2>2. CASE UNCHANGED <<doing, left>>
    BY <1>2, <2>1, <2>2
  <2>3. CASE /\ doing' = [doing EXCEPT ![w] = "insert"]
             /\ left' = [left EXCEPT ![w] = DOMAIN WordFrequency(held[w])]
    <3>1. \A u \in Worker \ {w} : doing'[u] = doing[u] /\ left'[u] = left[u]
      BY <2>3 DEF WorkInv
    <3>2. left'[w] = DOMAIN Text[task[w]]
      BY <1>0, <2>1, <2>3, HoldsItsFile DEF WorkInv
    <3>3. Posted(v)' = Posted(v)
      BY <2>1, <3>1, <3>2 DEF Posted
    <3>. QED
      BY <1>1, <2>1, <3>3
  <2>. QED
    BY <1>9, <2>2, <2>3 DEF CutPath
<1>10. ASSUME NEW w \in Worker, NEW word \in Word, InsertWord(w, word)
       PROVE TopOf(DOMAIN top'[v], Posted(v)')
  <2>. DEFINE f == Text[task[w]][word]
  <2>1. /\ doing[w] = "insert" /\ word \in left[w]
        /\ held[w] = task[w] /\ word \in DOMAIN Text[task[w]] /\ f \in Nat
        /\ \A u \in Word \ {word} : top'[u] = top[u]
        /\ DOMAIN top'[word] = Store!Largest(DOMAIN top[word] \cup {f})
    <3>1. /\ doing[w] = "insert" /\ word \in left[w]
          /\ word \in DOMAIN Text[held[w]] /\ Text[held[w]][word] \in Nat
          /\ \A u \in Word \ {word} : top'[u] = top[u]
          /\ DOMAIN top'[word] = Store!Largest(DOMAIN top[word] \cup {Text[held[w]][word]})
      BY <1>10, InsertEffect
    <3>2. held[w] = task[w]
      BY <1>0, <3>1, HoldsItsFile
    <3>. QED
      BY <3>1, <3>2
  <2>2. /\ UNCHANGED <<inserted, doing, task>>
        /\ \A u \in Worker \ {w} : left'[u] = left[u]
        /\ left'[w] = left[w] \ {word}
    BY <1>10 DEF InsertWord, queueVars, WorkInv
  <2>3. CASE v = word
    <3>1. \A n : n \in Posted(v)' <=> n \in Posted(v) \/ n = f
      BY <2>1, <2>2, <2>3 DEF Posted
    <3>2. Posted(v)' = Posted(v) \cup {f}
      BY <3>1
    <3>3. Posted(v) \in SUBSET Nat /\ DOMAIN top[v] \in SUBSET Nat
      BY DEF Posted, TopInv
    <3>. QED
      BY <1>0, <2>1, <2>3, <3>2, <3>3, InsertKeepsTop
  <2>4. CASE v # word
    <3>0. \A u \in Worker : v \in left'[u] <=> v \in left[u]
      BY <2>2, <2>4
    <3>1. Posted(v)' = Posted(v)
      BY <2>2, <3>0 DEF Posted
    <3>2. top'[v] = top[v]
      BY <2>1, <2>4
    <3>. QED
      BY <1>0, <3>1, <3>2
  <2>. QED
    BY <2>3, <2>4
\* What the worker has inserted is that of a file worked off now.
<1>11. ASSUME NEW w \in Worker, FinishFile(w) PROVE TopOf(DOMAIN top'[v], Posted(v)')
  <2>1. /\ doing[w] = "insert" /\ left[w] = {} /\ doing'[w] = "none"
        /\ \A u \in Worker \ {w} : doing'[u] = doing[u]
        /\ inserted' = inserted \cup {task[w]}
        /\ UNCHANGED <<top, task, left>>
    BY <1>11 DEF FinishFile, FinishTask, WorkInv
  <2>2. \A n : n \in Posted(v)' <=> n \in Posted(v)
    BY <2>1 DEF Posted
  <2>3. Posted(v)' = Posted(v)
    BY <2>2
  <2>. QED
    BY <1>1, <2>1, <2>3
<1>. QED
  BY <1>3, <1>4, <1>5, <1>6, <1>7, <1>8, <1>9, <1>10, <1>11, EngineCases

----------------------------------------------------------------------------
(* The theorems                                                            *)

LEMMA EndInvStep == QueueTypeOK /\ WorkInv /\ EndInv /\ [EngineNext]_allVars => EndInv'
<1>. SUFFICES ASSUME QueueTypeOK, WorkInv, EndInv, [EngineNext]_allVars PROVE EndInv'
  OBVIOUS
<1>. USE DEF EndInv
<1>1. ASSUME NEW w \in Worker,
             \/ StartThread(w) \/ AnnounceLaunch(w) \/ WaitForTask(w) \/ PopFile(w)
             \/ FetchContentFromFile(w) \/ CutPath(w) \/ FinishFile(w)
      PROVE  EndInv'
  <2>1. cmd' = "end" => cmd = "end"
    BY <1>1 DEF StartThread, AnnounceLaunch, WaitForTask, PopFile, FetchContentFromFile, CutPath,
       FinishFile, engineVars, commandVars
  <2>2. at[w] = "exit" => at' = at
    BY <1>1 DEF StartThread, AnnounceLaunch, WaitForTask, PopFile, FetchContentFromFile, CutPath,
       FinishFile, queueVars, TakeTicket, StopSpinning, PopTask, FinishTask
  <2>. QED
    BY <2>1, <2>2
<1>2. ASSUME NEW w \in Worker, NEW word \in Word, InsertWord(w, word) PROVE EndInv'
  BY <1>2 DEF InsertWord, queueVars, commandVars
<1>3. CASE UNCHANGED allVars \/ ClearLaunched \/ CompleteIndexing \/ QueueQuitTask \/ QuitCommand
  BY <1>3 DEF allVars, queueVars, engineVars, commandVars, ClearLaunched, CompleteIndexing,
     QueueQuitTask, QueueQuit, QuitCommand
<1>4. CASE JoinAll
  BY <1>4 DEF JoinAll, queueVars
<1>5. ASSUME NEW f \in File, QueueDirectoryEntry(f) PROVE EndInv'
  BY <1>5 DEF QueueDirectoryEntry
<1>6. ASSUME NEW d \in Dir, IndexFiles(d) PROVE EndInv'
  BY <1>6 DEF IndexFiles
<1>. QED
  BY <1>1, <1>2, <1>3, <1>4, <1>5, <1>6, EngineCases

\* Whatever the workers and the command thread interleave: what each worker
\* holds, what the index has of it, and where every file is.
THEOREM EngineInvariant == EngineSpec => []EngineInv
<1>1. EngineInit => EngineInv
  BY WorkInvInit, TopInvInit, FilesInvInit, CutInvInit, ListsCompleteInit
  DEF EngineInv, EndInv, EngineInit
<1>2. QueueTypeOK /\ EngineInv /\ [EngineNext]_allVars => EngineInv'
  BY WorkInvStep, TopInvStep, FilesInvStep, CutInvStep, ListsCompleteStep, EndInvStep
  DEF EngineInv
<1>3. EngineSpec => []QueueTypeOK
  BY EngineUsesTaskQueue, QueueTypeCorrect, PTL
<1>. QED
  BY <1>1, <1>2, <1>3, PTL DEF EngineSpec

\* The words stored under the path of a readable file are those of that file,
\* although FetchContentFromFile leaves the text of the file before in place.
THEOREM StoredTextTrue == EngineSpec => []StoredTextIsTrue
<1>1. EngineInv => StoredTextIsTrue
  BY DEF EngineInv
<1>. QED
  BY EngineInvariant, <1>1, PTL

\* Until a second index command changes the shared prefix length, no substr
\* throws and every stored path is cut after its directory.
THEOREM CutsRight == EngineSpec => []OneCommandCutsRight
<1>1. EngineInv => OneCommandCutsRight
  BY DEF EngineInv, CutInv
<1>. QED
  BY EngineInvariant, <1>1, PTL

\* When stopWorkers has joined the workers the index has the highest MaxSize
\* frequencies of each word in the files of the indexed directories.
THEOREM Complete == EngineSpec => []CompleteAtEnd
<1>1. EngineInv => CompleteAtEnd
  <2>. SUFFICES ASSUME EngineInv, cmd = "end", Queued \cap Unreadable = {}, NEW w \in Word
                PROVE  DOMAIN top[w] =
                          Store!Largest({Text[f][w] : f \in {g \in Queued : w \in DOMAIN Text[g]}})
    BY DEF CompleteAtEnd
  <2>1. \A v \in Worker : ~Busy(v)
    BY DEF EngineInv, EndInv, WorkInv
  <2>2. todo = {} /\ \A f \in File : ~InDeque(f) /\ ~UnderWork(f)
    BY <2>1, QuitAssumption DEF EngineInv, FilesInv, InDeque, UnderWork
  <2>3. Queued \subseteq File
    BY DirAssumption DEF EngineInv, FilesInv, Queued, Range
  <2>4. Queued = inserted
    BY <2>2, <2>3 DEF EngineInv, FilesInv
  <2>5. Posted(w) = {Text[f][w] : f \in {g \in Queued : w \in DOMAIN Text[g]}}
    BY <2>1, <2>3, <2>4, TextAssumption DEF Posted, Busy
  <2>6. TopOf(DOMAIN top[w], Posted(w)) /\ DOMAIN top[w] \in SUBSET Nat /\ Posted(w) \in SUBSET Nat
    BY DEF EngineInv, ListsComplete, TopInv, Posted
  <2>. QED
    BY <2>5, <2>6, LargestCharacterised
<1>. QED
  BY EngineInvariant, <1>1, PTL

\* Seen from the index, the engine does nothing but post entries one by one,
\* each under the path of a file: what IndexStore promises to its callers is
\* all that the engine relies on.
THEOREM EnginePostsOnly == EngineSpec => Store!Spec
<1>1. EngineInit => Store!Init
  BY DEF EngineInit
<1>2. EngineInv /\ [EngineNext]_allVars => [Store!Next]_top
  <2>. SUFFICES ASSUME EngineInv, NEW w \in Worker, NEW word \in Word, InsertWord(w, word)
                PROVE  Store!Next
    BY OnlyInsertionsPost
  <2>1. WorkInv /\ TopInv
    BY DEF EngineInv
  <2>2. /\ doing[w] = "insert" /\ held[w] \in File /\ word \in DOMAIN Text[held[w]]
        /\ Text[held[w]][word] \in Nat
    BY <2>1, InsertEffect
  <2>3. WordFrequency(held[w]) = Text[held[w]]
    BY <2>2, TextAssumption DEF WordFrequency
  <2>4. path[w] \in {StoredPath(f, n) : f \in File, n \in Nat}
    <3>1. path[w] = StoredPath(path[w].file, path[w].cut) /\ path[w].cut \in Nat
      BY <2>1 DEF WorkInv, StoredPath
    <3>2. path[w].file \in File
      BY <2>1, <2>2 DEF WorkInv, Busy
    <3>. QED
      BY <3>1, <3>2
  <2>5. Store!Post(word, Text[held[w]][word], path[w])
    BY <2>3 DEF InsertWord
  <2>. QED
    BY <2>2, <2>4, <2>5 DEF Store!Next
<1>. QED
  BY <1>1, <1>2, EngineInvariant, PTL DEF EngineSpec, Store!Spec

=============================================================================
