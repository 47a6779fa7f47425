-------------------------- MODULE ClientSideEngine --------------------------
(***************************************************************************)
(* One client: the command thread ("main"), the thread that reads from the *)
(* server ("reader", GetDataFromServer) and the one local worker that      *)
(* file-retrieval-client.cpp asks for ("worker", RunLocalWorker).          *)
(*                                                                         *)
(* Reader and worker take their tasks from the same queue: the reader      *)
(* until it finds the client connected, when it starts the worker.  Each   *)
(* of the three threads may close the connection and join the worker.      *)
(*                                                                         *)
(* The server is the environment: it greets, answers, shuts down or is     *)
(* lost.  Here each recv returns one message; module Session is about      *)
(* messages that are merged or split.                                      *)
(***************************************************************************)
EXTENDS Integers, Sequences

CONSTANTS
    Words,       \* [files -> Nat], how many different words a file contains
    Unreadable,  \* the files that cannot be opened
    BatchSize,   \* how many words fit into a buffer (MAX_BUFFER_SIZE)
    MaxIndexes,  \* bound: index commands
    MaxCommands  \* bound: index, search and failing connect commands

File == DOMAIN Words

ASSUME WordsAssumption == Words \in [File -> Nat]
ASSUME UnreadableAssumption == Unreadable \subseteq File
ASSUME BatchAssumption == BatchSize \in Nat \ {0}
ASSUME BoundsAssumption == MaxIndexes \in Nat /\ MaxCommands \in Nat

VARIABLES
    process,     \* "running", "ended", "killed" by SIGPIPE, "aborted" by the
                 \* runtime, or "undefined": the pop of an empty deque
    main,        \* where the command thread is
    reader,      \* where GetDataFromServer is
    worker,      \* where RunLocalWorker is, "none" before it is started
    closing,     \* where each thread is in closeConnection and Exit
    toQueue,     \* the files QueueFiles has still to queue
    deque,       \* the queue
    head,        \* its next ticket
    tail,        \* how many tasks were ever queued
    ticket,      \* the local variable head of reader and worker
    joined,      \* the worker was joined
    isClientConnectedToServer,
    sockfd,      \* whether sockfd is a descriptor, or -1
    file,        \* the local variables task,
    content,     \*   content of the worker, how many words it has,
    left,        \*   how many of them its loop has still to visit,
    buf,         \*   and how many it has buffered
    sent,        \* history: how many words of this file it has sent
    clientID,    \* whether the name has been received
    dataSuccessfullyReceived,
    query,       \* how many queries were entered
    searchBuffer,\* the query whose reply it holds, 0 when it is empty
    result,      \* the query whose reply is decoded in results, 0 for none
    indexes,     \* how many index commands were entered,
    fails,       \*   and how many connect commands that fail
    up,          \* messages on their way to the server
    down,        \* messages on their way to the client
    server,      \* "away", "new", "up", "closing", "left" in order, "dead"
    reset        \* the connection was reset

queueVars == <<deque, head, tail, ticket>>
linkVars == <<isClientConnectedToServer, sockfd>>
fileVars == <<file, content, left, buf, sent>>
searchVars == <<query, searchBuffer, result>>
netVars == <<up, down, server, reset>>
commandVars == <<toQueue, indexes, fails>>
vars == <<process, main, reader, worker, closing, commandVars, queueVars, joined,
          linkVars, fileVars, clientID, dataSuccessfullyReceived, searchVars, netVars>>

Thread == {"main", "reader", "worker"}

\* The task that tells the reader to start the worker, and the one that ends
\* a thread.
Connected == "isClientConnectedToServer"
Quit == "quit"

\* A file is queued by the path that the directory iterator gives.
ASSUME FileAssumption == Connected \notin File /\ Quit \notin File

Running == process = "running"
Joinable == worker # "none" /\ ~joined

\* The types of the state; tickets and tasks are counted from 0.
TypeOK ==
    /\ process \in {"running", "ended", "killed", "aborted", "undefined"}
    /\ main \in {"prompt", "connect", "queue", "drain", "finish", "wait", "print",
                 "printOld", "quit", "end"}
    /\ reader \in {"poll", "spin", "pop", "check", "call", "recv", "close", "exit"}
    /\ worker \in {"none", "ticket", "spin", "pop", "count", "fill", "await",
                   "close", "exit"}
    /\ closing \in [Thread -> {"no", "quit", "close", "push", "join", "joining",
                               "leave"}]
    /\ toQueue \subseteq File
    /\ deque \in Seq(File \cup {Connected, Quit})
    /\ head \in Nat /\ tail \in Nat
    /\ ticket \in [{"reader", "worker"} -> Nat]
    /\ joined \in BOOLEAN
    /\ isClientConnectedToServer \in BOOLEAN /\ sockfd \in BOOLEAN
    /\ file \in File \cup {Quit}
    /\ content \in Nat /\ left \in Nat /\ buf \in Nat
    /\ sent \in Nat
    /\ clientID \in BOOLEAN /\ dataSuccessfullyReceived \in BOOLEAN
    /\ query \in 0..MaxCommands
    /\ searchBuffer \in 0..query /\ result \in 0..query
    /\ indexes \in 0..MaxIndexes /\ fails \in 0..MaxCommands
    /\ server \in {"away", "new", "up", "closing", "left", "dead"}
    /\ reset \in BOOLEAN

\* InitializeLocalThreads has started the reader.
Init ==
    /\ process = "running"
    /\ main = "prompt"
    /\ reader = "poll"
    /\ worker = "none"
    /\ closing = [t \in Thread |-> "no"]
    /\ toQueue = {}
    /\ deque = <<>>
    /\ head = 0
    /\ tail = 0
    /\ ticket = [t \in {"reader", "worker"} |-> 0]
    /\ joined = FALSE
    /\ isClientConnectedToServer = FALSE
    /\ sockfd = FALSE
    /\ file = Quit
    /\ content = 0
    /\ left = 0
    /\ buf = 0
    /\ sent = 0
    /\ clientID = FALSE
    /\ dataSuccessfullyReceived = FALSE
    /\ query = 0
    /\ searchBuffer = 0
    /\ result = 0
    /\ indexes = 0
    /\ fails = 0
    /\ up = <<>>
    /\ down = <<>>
    /\ server = "away"
    /\ reset = FALSE

----------------------------------------------------------------------------
(* The connection                                                          *)

Message(k) == [kind |-> k]
SearchMessage(q) == [kind |-> "Search", query |-> q]
ReplyTo(q) == [kind |-> "Success-Search", query |-> q]

Gone == server \in {"left", "dead"}

\* send takes the message.  The server reads it as long as it is there; what
\* reaches a server that has left is answered by a reset.
SendSucceeds(m) ==
    /\ sockfd
    /\ ~reset
    /\ up' = IF Gone THEN up ELSE Append(up, m)
    /\ reset' = Gone
    /\ UNCHANGED <<down, server>>

\* send returns -1: the descriptor is gone or the connection was reset.
SendFails ==
    /\ ~sockfd \/ reset
    /\ UNCHANGED netVars

\* After a reset send may also raise SIGPIPE, which the client does not handle.
SignalKills ==
    /\ sockfd /\ reset
    /\ process' = "killed"
    /\ UNCHANGED <<main, reader, worker, closing, commandVars, queueVars, joined,
                   linkVars, fileVars, clientID, dataSuccessfullyReceived,
                   searchVars, netVars>>

Push(task) ==
    /\ deque' = Append(deque, task)
    /\ tail' = tail + 1
    /\ UNCHANGED <<head, ticket>>

----------------------------------------------------------------------------
(* closeConnection, Exit and StopLocalWorkers, by any thread t             *)

closeUnchanged == <<commandVars, fileVars, clientID, dataSuccessfullyReceived, searchVars>>

\* "quit" is sent, a failure being ignored.
SendQuit(t) ==
    /\ closing[t] = "quit"
    /\ IF isClientConnectedToServer
       THEN SendSucceeds(Message("quit")) \/ SendFails
       ELSE UNCHANGED netVars
    /\ closing' = [closing EXCEPT ![t] = "close"]
    /\ UNCHANGED <<process, main, reader, worker, queueVars, joined, linkVars,
                   closeUnchanged>>

\* close(sockfd); sockfd = -1.
CloseSocket(t) ==
    /\ closing[t] = "close"
    /\ sockfd' = (sockfd /\ ~isClientConnectedToServer)
    /\ closing' = [closing EXCEPT ![t] = "push"]
    /\ UNCHANGED <<process, main, reader, worker, queueVars, joined,
                   isClientConnectedToServer, closeUnchanged, netVars>>

\* One "quit" for each thread of localWorkerThreads.
QueueQuits(t) ==
    /\ closing[t] = "push"
    /\ IF worker = "none" THEN UNCHANGED queueVars ELSE Push(Quit)
    /\ closing' = [closing EXCEPT ![t] = "join"]
    /\ UNCHANGED <<process, main, reader, worker, joined, linkVars, closeUnchanged, netVars>>

\* A thread that is not joinable is passed over.  Joining oneself, or a thread
\* that another thread is joining, throws, and nobody catches it.
JoinWorker(t) ==
    /\ closing[t] = "join"
    /\ LET refused == t = "worker" \/ \E u \in Thread : closing[u] = "joining"
       IN  IF ~Joinable
           THEN /\ closing' = [closing EXCEPT ![t] = "leave"]
                /\ UNCHANGED process
           ELSE /\ closing' = [closing EXCEPT ![t] = IF refused THEN @ ELSE "joining"]
                /\ process' = IF refused THEN "aborted" ELSE process
    /\ UNCHANGED <<main, reader, worker, queueVars, joined, linkVars, closeUnchanged, netVars>>

JoinReturns(t) ==
    /\ closing[t] = "joining"
    /\ worker = "exit"
    /\ joined' = TRUE
    /\ closing' = [closing EXCEPT ![t] = "leave"]
    /\ UNCHANGED <<process, main, reader, worker, queueVars, linkVars, closeUnchanged, netVars>>

\* isClientConnectedToServer = false, and the caller goes on: a command returns
\* to the prompt or prints, quit leaves readCommands, the reader leaves its loop.
LeaveExit(t) ==
    /\ closing[t] = "leave"
    /\ isClientConnectedToServer' = FALSE
    /\ closing' = [closing EXCEPT ![t] = "no"]
    /\ main' = IF t # "main" THEN main
               ELSE CASE main = "finish" -> "prompt"
                      [] main = "wait" -> "printOld"
                      [] OTHER -> "end"
    /\ reader' = IF t = "reader" THEN "exit" ELSE reader
    /\ UNCHANGED <<process, worker, queueVars, joined, sockfd, closeUnchanged, netVars>>

Close(t) ==
    \/ SendQuit(t) \/ CloseSocket(t) \/ QueueQuits(t)
    \/ JoinWorker(t) \/ JoinReturns(t) \/ LeaveExit(t)
    \/ closing[t] = "quit" /\ isClientConnectedToServer /\ SignalKills

----------------------------------------------------------------------------
(* The commands, by the command thread                                     *)

AtPrompt == main = "prompt"
MoreCommands == indexes + fails + query < MaxCommands
Open(t) == closing[t] = "no"

\* connect succeeds.  The flag is set before the task is queued.
OpenConnection ==
    /\ AtPrompt
    /\ server = "away"
    /\ server' = "new"
    /\ sockfd' = TRUE
    /\ isClientConnectedToServer' = TRUE
    /\ main' = "connect"
    /\ UNCHANGED <<process, reader, worker, closing, commandVars, queueVars, joined,
                   fileVars, clientID, dataSuccessfullyReceived, searchVars, up, down, reset>>

\* A further connect that finds no server: sockfd is lost, the connection stays
\* open and the flag set.
ConnectFails ==
    /\ AtPrompt
    /\ MoreCommands
    /\ sockfd
    /\ sockfd' = FALSE
    /\ fails' = fails + 1
    /\ UNCHANGED <<process, main, reader, worker, closing, toQueue, indexes, queueVars, joined,
                   isClientConnectedToServer, fileVars, clientID, dataSuccessfullyReceived,
                   searchVars, netVars>>

QueueConnected ==
    /\ main = "connect"
    /\ Push(Connected)
    /\ main' = "prompt"
    /\ UNCHANGED <<process, reader, worker, closing, commandVars, joined, linkVars,
                   fileVars, clientID, dataSuccessfullyReceived, searchVars, netVars>>

\* index, whether or not the client is connected.
IndexFiles ==
    /\ AtPrompt
    /\ indexes < MaxIndexes /\ MoreCommands
    /\ indexes' = indexes + 1
    /\ toQueue' = File
    /\ main' = IF File = {} THEN "drain" ELSE "queue"
    /\ UNCHANGED <<process, fails, reader, worker, closing, queueVars, joined, linkVars,
                   fileVars, clientID, dataSuccessfullyReceived, searchVars, netVars>>

\* The next file of the directory, in no particular order.
QueueFile ==
    /\ main = "queue"
    /\ \E f \in toQueue : Push(f) /\ toQueue' = toQueue \ {f}
    /\ main' = IF toQueue' = {} THEN "drain" ELSE "queue"
    /\ UNCHANGED <<process, reader, worker, closing, indexes, fails, joined, linkVars,
                   fileVars, clientID, dataSuccessfullyReceived, searchVars, netVars>>

\* Variant: the connection is not looked at.
DrainWhateverHappens ==
    /\ main = "drain"
    /\ deque = <<>>
    /\ main' = "finish"
    /\ UNCHANGED <<process, reader, worker, closing, commandVars, queueVars, joined,
                   linkVars, fileVars, clientID, dataSuccessfullyReceived, searchVars, netVars>>

\* indexFiles waits for an empty deque, as long as the client is connected.
DrainQueue ==
    /\ main = "drain"
    /\ deque = <<>> \/ ~isClientConnectedToServer \/ ~sockfd
    /\ main' = "finish"
    /\ UNCHANGED <<process, reader, worker, closing, commandVars, queueVars, joined,
                   linkVars, fileVars, clientID, dataSuccessfullyReceived, searchVars, netVars>>

\* "Finished indexing client side."; a failure closes the connection.
SendFinished ==
    /\ main = "finish" /\ Open("main")
    /\ \/ SendSucceeds(Message("Finished")) /\ main' = "prompt" /\ UNCHANGED closing
       \/ SendFails /\ closing' = [closing EXCEPT !["main"] = "quit"] /\ UNCHANGED main
    /\ UNCHANGED <<process, reader, worker, commandVars, queueVars, joined, linkVars,
                   fileVars, clientID, dataSuccessfullyReceived, searchVars>>

\* search: the query is sent; a failure closes the connection and leaves the
\* results of an earlier query in place.
SearchFiles ==
    /\ AtPrompt
    /\ MoreCommands
    /\ query' = query + 1
    /\ main' = "wait"
    /\ \/ SendSucceeds(SearchMessage(query')) /\ UNCHANGED closing
       \/ SendFails /\ closing' = [closing EXCEPT !["main"] = "quit"]
    /\ UNCHANGED <<process, reader, worker, commandVars, queueVars, joined, linkVars,
                   fileVars, clientID, dataSuccessfullyReceived, searchBuffer, result>>

\* Variant: searchBuffer is not cleared.
DecodeKeepingBuffer ==
    /\ main = "wait" /\ Open("main")
    /\ searchBuffer # 0 \/ ~isClientConnectedToServer \/ ~sockfd
    /\ result' = searchBuffer
    /\ main' = "print"
    /\ UNCHANGED <<process, reader, worker, closing, commandVars, queueVars, joined, linkVars,
                   fileVars, clientID, dataSuccessfullyReceived, query, searchBuffer, netVars>>

\* searchFiles waits for a reply, as long as the client is connected, and
\* decodes what is in searchBuffer then.
DecodeReply ==
    /\ main = "wait" /\ Open("main")
    /\ searchBuffer # 0 \/ ~isClientConnectedToServer \/ ~sockfd
    /\ result' = searchBuffer
    /\ searchBuffer' = 0
    /\ main' = "print"
    /\ UNCHANGED <<process, reader, worker, closing, commandVars, queueVars, joined, linkVars,
                   fileVars, clientID, dataSuccessfullyReceived, query, netVars>>

\* readCommands prints the results, after a failed send the old ones.
PrintResults ==
    /\ main \in {"print", "printOld"}
    /\ main' = "prompt"
    /\ UNCHANGED <<process, reader, worker, closing, commandVars, queueVars, joined, linkVars,
                   fileVars, clientID, dataSuccessfullyReceived, searchVars, netVars>>

\* quit, or the end of the input.
QuitCommand ==
    /\ AtPrompt
    /\ main' = "quit"
    /\ closing' = [closing EXCEPT !["main"] = "quit"]
    /\ UNCHANGED <<process, reader, worker, commandVars, queueVars, joined, linkVars,
                   fileVars, clientID, dataSuccessfullyReceived, searchVars, netVars>>

\* main returns and the engine is destroyed; a thread that is still joinable
\* makes its destructor terminate the program.
EndOfMain ==
    /\ main = "end"
    /\ process' = IF Joinable THEN "aborted" ELSE "ended"
    /\ UNCHANGED <<main, reader, worker, closing, commandVars, queueVars, joined, linkVars,
                   fileVars, clientID, dataSuccessfullyReceived, searchVars, netVars>>

MainStep ==
    \/ QueueConnected \/ QueueFile \/ DrainQueue \/ SendFinished
    \/ DecodeReply \/ PrintResults \/ EndOfMain \/ Close("main")
    \/ main = "finish" /\ Open("main") /\ SignalKills

Command ==
    \/ OpenConnection \/ ConnectFails \/ IndexFiles \/ SearchFiles \/ QuitCommand
    \/ AtPrompt /\ MoreCommands /\ SignalKills

----------------------------------------------------------------------------
(* Taking a task, by reader and worker                                     *)

TakeTicket(t) ==
    /\ ticket' = [ticket EXCEPT ![t] = head]
    /\ head' = head + 1
    /\ UNCHANGED <<deque, tail>>

\* Variant: the loop ends one task too early.
CalledEarly(t) == ticket[t] <= tail

\* The spinning loop ends.
Called(t) == ticket[t] < tail

----------------------------------------------------------------------------
(* GetDataFromServer                                                       *)

readerUnchanged == <<commandVars, joined, linkVars, fileVars, query, result>>

\* while (isClientConnectedToServer == false): take a ticket; else leave the loop.
PollConnected ==
    /\ reader = "poll"
    /\ IF isClientConnectedToServer
       THEN reader' = "check" /\ UNCHANGED queueVars
       ELSE reader' = "spin" /\ TakeTicket("reader")
    /\ UNCHANGED <<process, main, worker, closing, readerUnchanged, clientID,
                   dataSuccessfullyReceived, searchBuffer, netVars>>

ReaderCalled ==
    /\ reader = "spin"
    /\ Called("reader")
    /\ reader' = "pop"
    /\ UNCHANGED <<process, main, worker, closing, readerUnchanged, queueVars, clientID,
                   dataSuccessfullyReceived, searchBuffer, netVars>>

\* Connected starts the worker, which announces itself at once; a file is
\* dropped; quit leaves the loop.
ReaderPops ==
    /\ reader = "pop"
    /\ IF deque = <<>>
       THEN process' = "undefined" /\ UNCHANGED <<reader, worker, queueVars>>
       ELSE /\ deque' = Tail(deque)
            /\ worker' = IF Head(deque) = Connected THEN "ticket" ELSE worker
            /\ reader' = IF Head(deque) = Quit THEN "check" ELSE "poll"
            /\ UNCHANGED <<process, head, tail, ticket>>
    /\ UNCHANGED <<main, closing, readerUnchanged, clientID,
                   dataSuccessfullyReceived, searchBuffer, netVars>>

\* Behind the loop the flag is read again: a client that is not connected, or
\* no more, fails an assertion.
CheckConnected ==
    /\ reader = "check"
    /\ IF isClientConnectedToServer
       THEN reader' = "call" /\ UNCHANGED process
       ELSE process' = "aborted" /\ UNCHANGED reader
    /\ UNCHANGED <<main, worker, closing, readerUnchanged, queueVars, clientID,
                   dataSuccessfullyReceived, searchBuffer, netVars>>

\* Variant: the loop is left, but the connection is not closed.
CallRecvAndLeave ==
    /\ reader = "call"
    /\ reader' = IF sockfd THEN "recv" ELSE "exit"
    /\ UNCHANGED <<process, main, worker, closing, readerUnchanged, queueVars, clientID,
                   dataSuccessfullyReceived, searchBuffer, netVars>>

\* recv on -1 fails and closes the connection; else it waits, and goes on
\* waiting when the descriptor is closed meanwhile.
CallRecv ==
    /\ reader = "call"
    /\ reader' = IF sockfd THEN "recv" ELSE "close"
    /\ closing' = [closing EXCEPT !["reader"] = IF sockfd THEN @ ELSE "quit"]
    /\ UNCHANGED <<process, main, worker, readerUnchanged, queueVars, clientID,
                   dataSuccessfullyReceived, searchBuffer, netVars>>

\* One message is received and handled.
ReceiveMessage ==
    /\ reader = "recv"
    /\ down # <<>>
    /\ down' = Tail(down)
    /\ Head(down).kind # "Server-ShutDown"
    /\ reader' = "call"
    /\ dataSuccessfullyReceived' = (dataSuccessfullyReceived \/ Head(down).kind = "Success")
    /\ clientID' = (clientID \/ Head(down).kind = "ClientName")
    /\ searchBuffer' = IF Head(down).kind = "Success-Search" THEN Head(down).query
                       ELSE searchBuffer
    /\ UNCHANGED <<process, main, worker, closing, readerUnchanged, queueVars,
                   up, server, reset>>

AnswersShutDown ==
    reader = "recv" /\ down # <<>> /\ Head(down).kind = "Server-ShutDown"

\* Server-ShutDown is answered, if that can still be sent, and Exit called.
ReceiveShutDown ==
    /\ AnswersShutDown
    /\ down' = Tail(down)
    /\ \/ /\ isClientConnectedToServer /\ sockfd /\ ~reset
          /\ up' = IF Gone THEN up ELSE Append(up, Message("Client-ShutDown-Successful"))
          /\ reset' = Gone
       \/ /\ ~isClientConnectedToServer \/ ~sockfd \/ reset
          /\ UNCHANGED <<up, reset>>
    /\ closing' = [closing EXCEPT !["reader"] = "close"]
    /\ reader' = "close"
    /\ UNCHANGED <<process, main, worker, readerUnchanged, queueVars, clientID,
                   dataSuccessfullyReceived, searchBuffer, server>>

\* The server has closed: recv returns 0, time and again, or -1 after a reset.
EndOfStream ==
    /\ reader = "recv"
    /\ down = <<>>
    /\ Gone
    /\ \/ reader' = "call" /\ UNCHANGED closing
       \/ /\ reset
          /\ reader' = "close"
          /\ closing' = [closing EXCEPT !["reader"] = "quit"]
    /\ UNCHANGED <<process, main, worker, readerUnchanged, queueVars, clientID,
                   dataSuccessfullyReceived, searchBuffer, netVars>>

ReaderStep ==
    \/ PollConnected \/ ReaderCalled \/ ReaderPops \/ CheckConnected
    \/ CallRecv \/ ReceiveMessage \/ ReceiveShutDown \/ EndOfStream
    \/ AnswersShutDown /\ isClientConnectedToServer /\ SignalKills
    \/ Close("reader")

----------------------------------------------------------------------------
(* RunLocalWorker                                                          *)

workerUnchanged == <<process, main, reader, commandVars, joined, linkVars, clientID, searchVars>>

WorkerTakesTicket ==
    /\ worker = "ticket"
    /\ TakeTicket("worker")
    /\ worker' = "spin"
    /\ UNCHANGED <<workerUnchanged, closing, fileVars, dataSuccessfullyReceived, netVars>>

WorkerCalled ==
    /\ worker = "spin"
    /\ Called("worker")
    /\ worker' = "pop"
    /\ UNCHANGED <<workerUnchanged, closing, queueVars, fileVars,
                   dataSuccessfullyReceived, netVars>>

WorkerPops ==
    /\ worker = "pop"
    /\ IF deque = <<>>
       THEN process' = "undefined" /\ UNCHANGED <<worker, queueVars, file>>
       ELSE /\ deque' = Tail(deque)
            /\ worker' = IF Head(deque) = Quit THEN "exit" ELSE "count"
            /\ file' = Head(deque)
            /\ UNCHANGED <<process, head, tail, ticket>>
    /\ UNCHANGED <<main, reader, commandVars, joined, linkVars, clientID, searchVars,
                   closing, content, left, buf, sent, dataSuccessfullyReceived, netVars>>

\* The words of a file that cannot be opened are those of the file before.  The
\* file is named after clientID, as far as that is known by now.
CountFile ==
    /\ worker = "count"
    /\ content' = IF file \in Unreadable THEN content ELSE Words[file]
    /\ left' = content'
    /\ buf' = 0
    /\ sent' = 0
    /\ worker' = "fill"
    /\ UNCHANGED <<workerUnchanged, closing, queueVars, file, dataSuccessfullyReceived, netVars>>

\* The path is cut behind datasetPathIndex, which a second index command has
\* changed under the worker: it cuts elsewhere (paths are not looked at here),
\* or behind the end, which throws.
CutPathThrows ==
    /\ worker = "count"
    /\ indexes > 1
    /\ process' = "aborted"
    /\ UNCHANGED <<main, reader, commandVars, joined, linkVars, clientID, searchVars, worker,
                   closing, queueVars, fileVars, dataSuccessfullyReceived, netVars>>

\* Variant: a buffer that is just full counts as overfull.
JustFull == buf + left >= BatchSize

\* Not all of the words that are left fit into the buffer.
Overfull == buf + left > BatchSize

\* The rest of the words fits into the buffer: the file is left, its last
\* buffer unsent.
LeaveFile ==
    /\ worker = "fill"
    /\ ~Overfull
    /\ worker' = "ticket"
    /\ left' = 0
    /\ buf' = buf + left
    /\ UNCHANGED <<workerUnchanged, closing, queueVars, file, content, sent,
                   dataSuccessfullyReceived, netVars>>

\* Variant: the word that did not fit is lost.
EmptyBuffer == 0

\* A sent buffer is started again with the word that did not fit.
NextBuffer == 1

\* A word does not fit: the buffer is sent, and Success awaited.  When it
\* cannot be sent the worker closes the connection.
SendBatch ==
    /\ worker = "fill"
    /\ Overfull
    /\ \/ /\ SendSucceeds(Message("Index"))
          /\ sent' = sent + BatchSize
          /\ left' = left - (BatchSize - buf) - 1
          /\ buf' = NextBuffer
          /\ worker' = "await"
          /\ UNCHANGED closing
       \/ /\ SendFails
          /\ closing' = [closing EXCEPT !["worker"] = "quit"]
          /\ worker' = "close"
          /\ UNCHANGED <<sent, left, buf>>
    /\ UNCHANGED <<workerUnchanged, queueVars, file, content, dataSuccessfullyReceived>>

\* Variant: the worker does not wait.
AcknowledgedAnyway == TRUE

\* while (dataSuccessfullyReceived == false);
Acknowledged == dataSuccessfullyReceived

AwaitSuccess ==
    /\ worker = "await"
    /\ Acknowledged
    /\ dataSuccessfullyReceived' = FALSE
    /\ worker' = "fill"
    /\ UNCHANGED <<workerUnchanged, closing, queueVars, fileVars, netVars>>

WorkerStep ==
    \/ WorkerTakesTicket \/ WorkerCalled \/ WorkerPops
    \/ CountFile \/ CutPathThrows \/ LeaveFile \/ SendBatch \/ AwaitSuccess
    \/ worker = "fill" /\ Overfull /\ SignalKills
    \/ Close("worker")

----------------------------------------------------------------------------
(* The server                                                              *)

clientUnchanged == <<process, main, reader, worker, closing, commandVars, queueVars,
                     joined, linkVars, fileVars, clientID, dataSuccessfullyReceived,
                     searchVars>>

\* The sub-worker sends the client its name.
Greet ==
    /\ server = "new"
    /\ server' = "up"
    /\ down' = Append(down, Message("ClientName"))
    /\ UNCHANGED <<clientUnchanged, up, reset>>

\* The server leaves; what it has not read resets the connection.
Leaves(unread) ==
    /\ server' = "left"
    /\ up' = <<>>
    /\ reset' = (unread # <<>>)
    /\ UNCHANGED down

\* The client has closed the connection: close takes effect when no recv is
\* under way, and a further connect that failed has lost the descriptor.
ClosedByClient == ~sockfd /\ fails = 0 /\ reader # "recv"

\* The sub-worker handles a message.
Serve ==
    /\ server = "up"
    /\ up # <<>>
    /\ Head(up).kind \in {"Index", "Search", "Finished"}
    /\ down' = CASE Head(up).kind = "Index" -> Append(down, Message("Success"))
                   [] Head(up).kind = "Search" -> Append(down, ReplyTo(Head(up).query))
                   [] Head(up).kind = "Finished" -> down
    /\ up' = Tail(up)
    /\ UNCHANGED <<clientUnchanged, server, reset>>

\* The sub-worker ends with the message that asks for it, and with an answer
\* that cannot be sent: it does not see the end of the client's stream.  Behind
\* the server's own close one more recv may get a message, never an answer out.
SubWorkerLeaves ==
    /\ up # <<>>
    /\ \/ server = "up" /\ Head(up).kind \in {"quit", "Client-ShutDown-Successful"}
       \/ server = "up" /\ Head(up).kind \in {"Index", "Search"} /\ ClosedByClient
       \/ server = "closing"
    /\ Leaves(Tail(up))
    /\ UNCHANGED clientUnchanged

\* quit was entered at the server, which notifies the client and closes the
\* descriptor.  A sub-worker outside recv fails with its next call.
ShutDown ==
    /\ server = "up"
    /\ down' = Append(down, Message("Server-ShutDown"))
    /\ \/ server' = "closing" /\ UNCHANGED <<up, reset>>
       \/ server' = "left" /\ up' = <<>> /\ reset' = (up # <<>>)
    /\ UNCHANGED clientUnchanged

\* The server dies, with a reset or an end of the stream, and with a reset the
\* messages on their way may be lost.
Crash ==
    /\ server \in {"new", "up", "closing"}
    /\ server' = "dead"
    /\ up' = <<>>
    /\ \/ reset' = FALSE /\ UNCHANGED down
       \/ reset' = TRUE /\ down' \in {down, <<>>}
    /\ UNCHANGED clientUnchanged

ServerStep == Greet \/ Serve \/ SubWorkerLeaves

Next ==
    /\ Running
    /\ \/ Command \/ MainStep \/ ReaderStep \/ WorkerStep
       \/ ServerStep \/ ShutDown \/ Crash

Spec == Init /\ [][Next]_vars

\* The threads are scheduled, and so are those of a server that runs; no
\* command is ever owed, and no shutdown.
FairSpec ==
    /\ Spec
    /\ WF_vars(Running /\ MainStep)
    /\ WF_vars(Running /\ ReaderStep)
    /\ WF_vars(Running /\ WorkerStep)
    /\ WF_vars(Running /\ ServerStep)

----------------------------------------------------------------------------
(* Properties                                                              *)

\* No thread takes a task from an empty deque, which would be undefined: tickets
\* are given out by a counter, and reader and worker share it while the reader
\* waits for the connection and the three threads queue quits.
NeverPopsEmpty == process # "undefined"

\* What is not sent of a file when the worker goes on to the next is one
\* buffer at most: whatever the acknowledgements' timing, no word is lost
\* between two buffers.
OnlyLastBufferUnsent ==
    worker = "ticket" => content - sent <= BatchSize

\* What search decodes is the reply to this search or nothing: no reply to an
\* earlier one, whichever thread has closed the connection in between.
FreshAnswer == main = "print" => result \in {0, query}

\* A file that is counted after a batch of the file before was acknowledged is
\* sent under the client's name: the greeting comes before every answer.
NamedAfterAnswer ==
    [][worker = "count" /\ worker' = "fill" /\ sent # 0 => clientID]_vars

\* The worker waits for a Success that the server, which has gone, cannot send.
Unanswered == worker = "await" /\ ~dataSuccessfullyReceived /\ Gone /\ down = <<>>

\* The reader receives, or has ended, without having started the worker.
WorkerNeverStarts == worker = "none" /\ reader \notin {"poll", "spin", "pop"}

\* The worker was started when the thread that closes had queued a quit for
\* every thread there was, and the reader takes tasks beside it.
StartedTooLate ==
    closing["main"] = "joining" /\ worker = "spin" /\ deque = <<>> /\ ~isClientConnectedToServer

\* index comes back to the prompt or the process ends, but for three states in
\* which the command hangs: the worker waits for an answer that cannot come, the
\* reader found the client connected before it saw the task that starts the
\* worker, so that nobody takes the files, or the worker was started too late
\* for the quit of a closeConnection that joins it.
IndexReturns ==
    main = "drain"
    ~> AtPrompt \/ ~Running \/ Unanswered \/ WorkerNeverStarts \/ StartedTooLate

\* quit ends the process, in order or by an abort, unless the worker was started
\* too late.  A worker that waits for a server that has gone never ends, and
\* main would join it for ever: but the reader finds the descriptor closed, or
\* has found the connection ended before, and joins it too, which aborts.
QuitEnds == main = "quit" ~> ~Running \/ StartedTooLate

\* Every word of a file is sent to the server before the worker goes on.
AllWordsSent == worker = "ticket" => content = sent

=============================================================================
