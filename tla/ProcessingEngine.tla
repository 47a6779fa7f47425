-------------------------- MODULE ProcessingEngine --------------------------
(***************************************************************************)
(* The local engine: the command thread (AppInterface and the constructor, *)
(* indexFiles and stopWorkers of ProcessingEngine) and the workers, which  *)
(* pop files from the queue of TaskQueue, count their words and insert     *)
(* them into the index.                                                    *)
(*                                                                         *)
(* The index is taken as what IndexStore implements, TopPostings.  A path  *)
(* that is stored has lost the prefix of its directory, whose length the   *)
(* command thread shares with the workers; it is kept as the file and the  *)
(* number of characters cut off.  Counting the words of a text is a        *)
(* function of the text.                                                   *)
(***************************************************************************)
EXTENDS TaskQueue, Functions

CONSTANTS
    Dir,          \* the directories that are named in index commands
    FilesIn,      \* [Dir -> sets of files], empty for one that does not exist
    PrefixLength, \* [Dir -> Nat], the length of the name of a directory
    PathLength,   \* [File -> Nat], the length of the path of a file
    Unreadable,   \* the files that cannot be opened
    Word, MaxSize,
    Text,         \* [File -> [words -> how often the file contains them]]
    NoFile,       \* the contents of no file
    MaxCommands   \* bound: how many index commands are entered

ASSUME UnreadableAssumption == Unreadable \subseteq File
ASSUME DirAssumption ==
    /\ FilesIn \in [Dir -> SUBSET File]
    /\ PrefixLength \in [Dir -> Nat] /\ PathLength \in [File -> Nat]
ASSUME PathAssumption ==
    \A d \in Dir : \A f \in FilesIn[d] : PrefixLength[d] <= PathLength[f]
ASSUME TextAssumption ==
    /\ NoFile \notin File
    /\ \A f \in File : \A w \in DOMAIN Text[f] : w \in Word /\ Text[f][w] \in Nat \ {0}
ASSUME SizeAssumption == MaxSize \in Nat \ {0}

VARIABLES
    cmd,              \* where the command thread is
    born,             \* the worker threads that were started
    running,          \* those of them that have announced themselves
    threadLaunched,   \* the flag they announce themselves with
    datasetPathIndex, \* the length of the prefix, shared by all threads
    todo,             \* the files of the directory not yet queued
    doing,            \* what each worker does with its file
    held,             \* the file whose text the local variable content holds
    path,             \* the path a worker inserts with
    left,             \* the words a worker has still to insert
    top,              \* the index
    aborted,          \* an exception left a worker: the process terminated
    indexings,        \* the directories of the index commands so far
    inserted          \* history: the queued files that were worked off

commandVars == <<cmd, born, running, threadLaunched, datasetPathIndex, todo, indexings>>
workVars == <<doing, held, path, left, top, aborted, inserted>>
engineVars == <<commandVars, workVars>>
allVars == <<queueVars, engineVars>>

StoredPath(f, n) == [file |-> f, cut |-> n]

Store == INSTANCE TopPostings
            WITH Path <- {StoredPath(f, n) : f \in File, n \in Nat}, Freq <- Nat

NoWords == [w \in {} |-> 0]

EngineInit ==
    /\ QueueInit
    /\ Store!Init
    /\ cmd = IF Worker = {} THEN "prompt" ELSE "launch"
    /\ born = {}
    /\ running = {}
    /\ threadLaunched = FALSE
    /\ datasetPathIndex = 0
    /\ todo = {}
    /\ doing = [w \in Worker |-> "none"]
    /\ held = [w \in Worker |-> NoFile]
    /\ path = [w \in Worker |-> StoredPath(NoFile, 0)]
    /\ left = [w \in Worker |-> {}]
    /\ aborted = FALSE
    /\ indexings = <<>>
    /\ inserted = {}

----------------------------------------------------------------------------
(* The constructor starts the workers one after the other                  *)

StartThread(w) ==
    /\ cmd = "launch"
    /\ w \notin born
    /\ born' = born \cup {w}
    /\ cmd' = "handshake"
    /\ UNCHANGED <<queueVars, workVars, running, threadLaunched, datasetPathIndex,
                   todo, indexings>>

\* The first step of RunWorker: threadLaunched = !threadLaunched.
AnnounceLaunch(w) ==
    /\ w \in born \ running
    /\ running' = running \cup {w}
    /\ threadLaunched' = ~threadLaunched
    /\ UNCHANGED <<queueVars, workVars, cmd, born, datasetPathIndex, todo,
                   indexings>>

\* while (!threadLaunched); threadLaunched = !threadLaunched.
ClearLaunched ==
    /\ cmd = "handshake"
    /\ threadLaunched
    /\ threadLaunched' = ~threadLaunched
    /\ cmd' = IF born = Worker THEN "prompt" ELSE "launch"
    /\ UNCHANGED <<queueVars, workVars, born, running, datasetPathIndex, todo,
                   indexings>>

----------------------------------------------------------------------------
(* The commands index and quit                                             *)

Prompted == cmd \in {"prompt", "completed"} /\ ~aborted

\* Bound: the number of commands, and that of all the files they queue.
WithinBounds(d) ==
    /\ Len(indexings) < MaxCommands
    /\ tail + Cardinality(FilesIn[d]) <= MaxTasks

\* Variant: the prefix length of the first directory is kept.
IndexKeepingPrefix(d) ==
    /\ Prompted
    /\ WithinBounds(d)
    /\ todo' = FilesIn[d]
    /\ cmd' = IF FilesIn[d] = {} THEN "completed" ELSE "index"
    /\ indexings' = Append(indexings, d)
    /\ UNCHANGED <<queueVars, workVars, born, running, threadLaunched,
                   datasetPathIndex>>

\* indexFiles stores the length of the prefix before it queues anything and
\* whether the directory exists or not.
IndexFiles(d) ==
    /\ Prompted
    /\ WithinBounds(d)
    /\ datasetPathIndex' = PrefixLength[d]
    /\ todo' = FilesIn[d]
    /\ cmd' = IF FilesIn[d] = {} THEN "completed" ELSE "index"
    /\ indexings' = Append(indexings, d)
    /\ UNCHANGED <<queueVars, workVars, born, running, threadLaunched>>

\* The directory is walked in an order of its own.
QueueDirectoryEntry(f) ==
    /\ cmd = "index" /\ ~aborted
    /\ f \in todo
    /\ QueueFile(f)
    /\ todo' = todo \ {f}
    /\ UNCHANGED <<workVars, cmd, born, running, threadLaunched, datasetPathIndex,
                   indexings>>

\* Variant: waiting for head to meet tail, which it has left behind.
CompleteWhenTicketsMatch ==
    /\ cmd = "index" /\ ~aborted
    /\ todo = {}
    /\ head = tail
    /\ cmd' = "completed"
    /\ UNCHANGED <<queueVars, workVars, born, running, threadLaunched,
                   datasetPathIndex, todo, indexings>>

\* while (queue.deque.size() != 0); then "Completed indexing" is printed.
CompleteIndexing ==
    /\ cmd = "index" /\ ~aborted
    /\ todo = {}
    /\ deque = <<>>
    /\ cmd' = "completed"
    /\ UNCHANGED <<queueVars, workVars, born, running, threadLaunched,
                   datasetPathIndex, todo, indexings>>

\* The command quit calls stopWorkers.
QuitCommand ==
    /\ Prompted
    /\ StopWorkers
    /\ cmd' = "quit"
    /\ UNCHANGED <<workVars, born, running, threadLaunched, datasetPathIndex,
                   todo, indexings>>

\* Variant: one quit for all workers.
QueueOneQuitTask ==
    /\ cmd = "quit" /\ ~aborted
    /\ quits = 0
    /\ QueueQuit
    /\ UNCHANGED engineVars

\* stopWorkers queues one "quit" per worker and then joins them all.
QueueQuitTask ==
    /\ cmd = "quit" /\ ~aborted
    /\ QueueQuit
    /\ UNCHANGED engineVars

\* stopWorkers returns when every worker has ended.
JoinAll ==
    /\ cmd = "quit" /\ ~aborted
    /\ quits = Cardinality(Worker)
    /\ \A w \in Worker : at[w] = "exit"
    /\ cmd' = "end"
    /\ UNCHANGED <<queueVars, workVars, born, running, threadLaunched,
                   datasetPathIndex, todo, indexings>>

----------------------------------------------------------------------------
(* RunWorker                                                               *)

Alive(w) == w \in running /\ ~aborted

\* The loop around the queue.
WaitForTask(w) ==
    /\ Alive(w)
    /\ TakeTicket(w) \/ StopSpinning(w)
    /\ UNCHANGED engineVars

\* A task is popped; "quit" leaves the loop.
PopFile(w) ==
    /\ Alive(w)
    /\ PopTask(w)
    /\ doing' = [doing EXCEPT ![w] = IF task'[w] = Quit THEN "none" ELSE "fetch"]
    /\ UNCHANGED <<commandVars, held, path, left, top, aborted, inserted>>

\* Variant: content is a member that the workers share until its words are
\* counted.
FetchIntoShared(w) ==
    /\ Alive(w)
    /\ doing[w] = "fetch"
    /\ held' = [v \in Worker |->
                  IF (v = w \/ doing[v] = "cut") /\ task[w] \notin Unreadable
                  THEN task[w] ELSE held[v]]
    /\ doing' = [doing EXCEPT ![w] = "cut"]
    /\ UNCHANGED <<queueVars, commandVars, path, left, top, aborted, inserted>>

\* Variant: the worker returns when its file cannot be opened.
FetchOrReturn(w) ==
    /\ Alive(w)
    /\ doing[w] = "fetch"
    /\ held' = [held EXCEPT ![w] = task[w]]
    /\ doing' = [doing EXCEPT ![w] = IF task[w] \in Unreadable THEN "none" ELSE "cut"]
    /\ at' = [at EXCEPT ![w] = IF task[w] \in Unreadable THEN "exit" ELSE @]
    /\ UNCHANGED <<deque, head, tail, ticket, task, quits, stopping, served,
                   commandVars, path, left, top, aborted, inserted>>

\* FetchContentFromFile returns before it clears content when the file cannot
\* be opened, and the worker goes on with the text of its previous file.
FetchContentFromFile(w) ==
    /\ Alive(w)
    /\ doing[w] = "fetch"
    /\ held' = [held EXCEPT ![w] = IF task[w] \in Unreadable THEN @ ELSE task[w]]
    /\ doing' = [doing EXCEPT ![w] = "cut"]
    /\ UNCHANGED <<queueVars, commandVars, path, left, top, aborted, inserted>>

\* CountWordFreq.
WordFrequency(f) == IF f = NoFile THEN NoWords ELSE Text[f]

\* task.substr(datasetPathIndex): a position beyond the end throws, which
\* nobody catches.
CutPath(w) ==
    /\ Alive(w)
    /\ doing[w] = "cut"
    /\ IF datasetPathIndex > PathLength[task[w]]
       THEN aborted' = TRUE /\ UNCHANGED <<doing, path, left>>
       ELSE /\ path' = [path EXCEPT ![w] = StoredPath(task[w], datasetPathIndex)]
            /\ left' = [left EXCEPT ![w] = DOMAIN WordFrequency(held[w])]
            /\ doing' = [doing EXCEPT ![w] = "insert"]
            /\ UNCHANGED aborted
    /\ UNCHANGED <<queueVars, commandVars, held, top, inserted>>

\* The words are inserted one by one, in the order of a hash table.
InsertWord(w, word) ==
    /\ Alive(w)
    /\ doing[w] = "insert"
    /\ word \in left[w]
    /\ Store!Post(word, WordFrequency(held[w])[word], path[w])
    /\ left' = [left EXCEPT ![w] = @ \ {word}]
    /\ UNCHANGED <<queueVars, commandVars, doing, held, path, aborted, inserted>>

\* Variant: the loop over the words is left early.
FinishAfterFirst(w) ==
    /\ Alive(w)
    /\ doing[w] = "insert"
    /\ FinishTask(w)
    /\ doing' = [doing EXCEPT ![w] = "none"]
    /\ inserted' = inserted \cup {task[w]}
    /\ UNCHANGED <<commandVars, held, path, left, top, aborted>>

\* All words are inserted.
FinishFile(w) ==
    /\ Alive(w)
    /\ doing[w] = "insert"
    /\ left[w] = {}
    /\ FinishTask(w)
    /\ doing' = [doing EXCEPT ![w] = "none"]
    /\ inserted' = inserted \cup {task[w]}
    /\ UNCHANGED <<commandVars, held, path, left, top, aborted>>

----------------------------------------------------------------------------

RunWorker(w) ==
    \/ AnnounceLaunch(w)
    \/ WaitForTask(w)
    \/ PopFile(w)
    \/ FetchContentFromFile(w)
    \/ CutPath(w)
    \/ \E word \in Word : InsertWord(w, word)
    \/ FinishFile(w)

\* What the command thread does by itself, without the user.
CommandStep ==
    \/ \E w \in Worker : StartThread(w)
    \/ ClearLaunched
    \/ \E f \in File : QueueDirectoryEntry(f)
    \/ CompleteIndexing
    \/ QueueQuitTask
    \/ JoinAll

EngineNext ==
    \/ CommandStep
    \/ \E d \in Dir : IndexFiles(d)
    \/ QuitCommand
    \/ \E w \in Worker : RunWorker(w)

EngineSpec == EngineInit /\ [][EngineNext]_allVars

\* Every thread keeps running; the user has to enter nothing.
FairEngineSpec ==
    /\ EngineSpec
    /\ WF_allVars(CommandStep)
    /\ \A w \in Worker : WF_allVars(RunWorker(w))

----------------------------------------------------------------------------
(* Properties                                                              *)

Queued == UNION {FilesIn[d] : d \in Range(indexings)}

\* The flag is shared by all workers that start, so they must start one at a
\* time: the constructor leaves its loop with the flag down and no worker
\* that has still to raise it.
LaunchInStep ==
    cmd # "handshake" => ~threadLaunched /\ born = running

\* When the program ends after quit, the index is complete: provided every
\* file could be read, each word has the MaxSize highest frequencies it has in
\* any file of the directories that were indexed, whoever inserted them.
CompleteAtEnd ==
    cmd = "end" /\ Queued \cap Unreadable = {} =>
        \A w \in Word : DOMAIN top[w] =
            Store!Largest({Text[f][w] : f \in {g \in Queued : w \in DOMAIN Text[g]}})

\* The words stored under the path of a file that can be read are those of
\* that file, although a worker keeps the text of the file before.
StoredTextIsTrue ==
    \A w \in Word : \A n \in DOMAIN top[w] :
        LET f == top[w][n].file
        IN  f \notin Unreadable => w \in DOMAIN Text[f] /\ Text[f][w] = n

\* While only one index command has been entered the shared prefix length is
\* right: no worker is terminated and every path is cut after its directory.
OneCommandCutsRight ==
    Len(indexings) <= 1 =>
        /\ ~aborted
        /\ \A w \in Word : \A n \in DOMAIN top[w] :
              top[w][n].cut = PrefixLength[indexings[1]]

\* quit ends the program, whatever the workers are doing and whatever is still
\* in the queue: every worker gets a "quit" and is joined (or an exception has
\* ended the program before).
QuitEnds == cmd = "quit" ~> (cmd = "end" \/ aborted)

\* An index command returns to the prompt.
IndexingReturns == cmd = "index" ~> (cmd = "completed" \/ aborted)

============================================================================
