----------------------- MODULE ClientSideEngineProofs -----------------------
(***************************************************************************)
(* Theorems about a client's three threads, for any files, any size of the *)
(* buffer and any number of commands.                                      *)
(*                                                                         *)
(* ClientInv is the inductive invariant.  Each of its parts is shown to be *)
(* preserved by every step that begins where all of them hold.             *)
(***************************************************************************)
EXTENDS ClientSideEngine, SequenceTheorems, TLAPS

UpMessage == [kind : {"Index", "Finished", "quit", "Client-ShutDown-Successful"}]
             \cup [kind : {"Search"}, query : Nat]
DownMessage == [kind : {"ClientName", "Success", "Server-ShutDown"}]
               \cup [kind : {"Success-Search"}, query : Nat]

\* Where queries and replies stand among the messages.
Queries(s) == {i \in DOMAIN s : s[i].kind = "Search"}
Replies(s) == {i \in DOMAIN s : s[i].kind = "Success-Search"}

\* The types of what the threads are about.
ControlTypes ==
    /\ process \in {"running", "ended", "killed", "aborted"}
    /\ main \in {"prompt", "connect", "queue", "drain", "finish", "wait", "print",
                 "printOld", "quit", "end"}
    /\ reader \in {"poll", "spin", "pop", "check", "call", "recv", "close", "exit"}
    /\ worker \in {"none", "ticket", "spin", "pop", "count", "fill", "await",
                   "close", "exit"}
    /\ closing \in [Thread -> {"no", "quit", "close", "push", "join", "joining",
                               "leave"}]
    /\ server \in {"away", "new", "up", "closing", "left", "dead"}

FlagTypes ==
    /\ joined \in BOOLEAN
    /\ isClientConnectedToServer \in BOOLEAN /\ sockfd \in BOOLEAN
    /\ reset \in BOOLEAN
    /\ clientID \in BOOLEAN /\ dataSuccessfullyReceived \in BOOLEAN

\* The tasks.  There is one task that starts the worker, the reader takes it,
\* and no worker exists before.
QueueInv ==
    /\ deque \in Seq(File \cup {Connected, Quit})
    /\ toQueue \subseteq File
    /\ file \in File \cup {Quit}
    /\ worker = "count" => file \in File
    /\ \A i, j \in DOMAIN deque : deque[i] = Connected /\ deque[j] = Connected => i = j
    /\ worker # "none" \/ main = "connect" \/ server = "away" =>
          \A i \in DOMAIN deque : deque[i] # Connected
    /\ main = "connect" \/ server = "away" => worker = "none"
    /\ main = "connect" => server # "away"

Holds(t) == IF t = "reader" THEN reader \in {"spin", "pop"} ELSE worker \in {"spin", "pop"}
Consumer == {"reader", "worker"}
One(b) == IF b THEN 1 ELSE 0

\* Who has taken a ticket and not yet a task, and whose turn it is.
HowMany == One(Holds("reader")) + One(Holds("worker"))
HowManyCalled == One(Holds("reader") /\ Called("reader")) + One(Holds("worker") /\ Called("worker"))

\* Each ticket that was given out is held or has taken a task from the deque,
\* and for every ticket whose turn it is there is a task.
TicketInv ==
    /\ head \in Nat /\ tail \in Nat
    /\ ticket \in [Consumer -> Nat]
    /\ \A t \in Consumer : Holds(t) => ticket[t] < head
    /\ Holds("reader") /\ Holds("worker") => ticket["reader"] # ticket["worker"]
    /\ reader = "pop" => Called("reader")
    /\ worker = "pop" => Called("worker")
    /\ Len(deque) + head = tail + HowMany
    /\ HowManyCalled <= Len(deque)

\* Every word of the file is sent, buffered or still to be visited.
WordsInv ==
    /\ content \in Nat /\ left \in Nat /\ buf \in Nat /\ sent \in Nat
    /\ content = sent + buf + left
    /\ buf <= BatchSize
    /\ worker \in {"none", "ticket"} => left = 0

\* The descriptor is lost before anyone takes the client for disconnected, and
\* nobody closes before there is a connection.
LinkInv ==
    /\ sockfd => /\ isClientConnectedToServer
                 /\ \A t \in Thread : closing[t] \in {"no", "quit", "close"}
    /\ closing["main"] # "no" => main \in {"finish", "wait", "quit"}
    /\ closing["reader"] # "no" => reader = "close"
    /\ closing["worker"] # "no" => worker = "close"
    /\ server = "away" => /\ ~sockfd /\ ~isClientConnectedToServer
                          /\ reader \in {"poll", "spin", "pop"}
                          /\ closing["reader"] = "no" /\ closing["worker"] = "no"
                          /\ \A i \in DOMAIN deque : deque[i] # Quit
                          /\ up = <<>> /\ down = <<>>

CommandTypes ==
    /\ indexes \in 0..MaxIndexes /\ fails \in 0..MaxCommands /\ query \in 0..MaxCommands

\* A query was sent and its reply is awaited.
Waiting == main = "wait" /\ Open("main")

\* Nothing of an earlier search is anywhere while a search can be sent.
FreshInv ==
    /\ searchBuffer \in 0..query /\ result \in 0..query
    /\ up \in Seq(UpMessage) /\ down \in Seq(DownMessage)
    /\ \A i \in Queries(up) : up[i].query \in 1..query
    /\ \A i \in Replies(down) : down[i].query \in 1..query
    /\ (sockfd \/ server = "away") /\ ~Waiting =>
          Queries(up) = {} /\ Replies(down) = {} /\ searchBuffer = 0
    /\ Waiting => /\ server # "away"
                  /\ \A i, j \in Queries(up) : i = j /\ up[i].query = query
                  /\ \A i, j \in Replies(down) : i = j /\ down[i].query = query
                  /\ searchBuffer \in {0, query}
                  /\ Queries(up) # {} => Replies(down) = {} /\ searchBuffer = 0
                  /\ Replies(down) # {} => Queries(up) = {} /\ searchBuffer = 0
    /\ FreshAnswer

\* The name precedes every answer on the way down.
NameInv ==
    /\ server = "new" => down = <<>>
    /\ server \in {"up", "closing"} =>
          clientID \/ \E i \in DOMAIN down : down[i].kind = "ClientName"
    /\ \A i \in DOMAIN down : down[i].kind = "Success" =>
          clientID \/ \E j \in DOMAIN down : j < i /\ down[j].kind = "ClientName"
    /\ dataSuccessfullyReceived => clientID
    /\ sent # 0 /\ worker # "await" => clientID

ClientInv ==
    /\ ControlTypes /\ FlagTypes /\ CommandTypes
    /\ QueueInv /\ TicketInv /\ WordsInv /\ LinkInv /\ FreshInv /\ NameInv

----------------------------------------------------------------------------
(* The parts of the invariant hold initially                               *)

LEMMA ClientInvInit == Init => ClientInv
<1>. SUFFICES ASSUME Init PROVE ClientInv
  OBVIOUS
<1>. USE DEF Init
<1>1. ControlTypes
  BY DEF ControlTypes, Thread
<1>8. FlagTypes
  BY DEF FlagTypes
<1>2. QueueInv
  BY DEF QueueInv
<1>3. TicketInv
  BY DEF TicketInv, Holds, HowMany, HowManyCalled, One, Consumer, Called
<1>4. WordsInv
  BY BatchAssumption DEF WordsInv
<1>5. LinkInv
  BY DEF LinkInv, Thread
<1>6. FreshInv
  <2>1. Queries(up) = {} /\ Replies(down) = {}
    BY DEF Queries, Replies
  <2>. QED
    BY <2>1 DEF FreshInv, Waiting, FreshAnswer
<1>7. NameInv
  BY DEF NameInv
<1>9. CommandTypes
  <2>1. 0 \in 0..MaxCommands /\ 0 \in 0..MaxIndexes
    BY BoundsAssumption
  <2>. QED
    BY <2>1 DEF CommandTypes
<1>. QED
  BY <1>1, <1>2, <1>3, <1>4, <1>5, <1>6, <1>7, <1>8, <1>9 DEF ClientInv

----------------------------------------------------------------------------
(* and every step preserves them                                           *)

\* A step that closes a connection, by any thread.
CloseStep(t) ==
    \/ SendQuit(t) \/ CloseSocket(t) \/ QueueQuits(t)
    \/ JoinWorker(t) \/ JoinReturns(t) \/ LeaveExit(t)

\* SIGPIPE changes nothing else.
LEMMA StepCases ==
    ASSUME Next
    PROVE  \/ SignalKills
           \/ \E t \in Thread : CloseStep(t)
           \/ OpenConnection \/ ConnectFails \/ IndexFiles \/ SearchFiles \/ QuitCommand
           \/ QueueConnected \/ QueueFile \/ DrainQueue \/ SendFinished
           \/ DecodeReply \/ PrintResults \/ EndOfMain
           \/ PollConnected \/ ReaderCalled \/ ReaderPops \/ CheckConnected
           \/ CallRecv \/ ReceiveMessage \/ ReceiveShutDown \/ EndOfStream
           \/ WorkerTakesTicket \/ WorkerCalled \/ WorkerPops
           \/ CountFile \/ CutPathThrows \/ LeaveFile \/ SendBatch \/ AwaitSuccess
           \/ Greet \/ Serve \/ SubWorkerLeaves \/ ShutDown \/ Crash
  BY DEF Next, Command, MainStep, ReaderStep, WorkerStep, ServerStep, Close, CloseStep, Thread

\* A thread that has been called finds a task.
LEMMA TaskForTheCalled ==
    ASSUME ClientInv, reader = "pop" \/ worker = "pop"
    PROVE  deque # <<>> /\ Len(deque) > 0
  BY DEF ClientInv, TicketInv, HowManyCalled, Holds, One, QueueInv

LEMMA ControlTypesStep == ClientInv /\ [Next]_vars => ControlTypes'
<1>. SUFFICES ASSUME ClientInv, [Next]_vars PROVE ControlTypes'
  OBVIOUS
<1>. USE DEF ControlTypes, Thread
<1>0. ControlTypes
  BY DEF ClientInv
<1>1. ASSUME UNCHANGED <<process, main, reader, worker, closing, server>> PROVE ControlTypes'
  BY <1>0, <1>1
<1>2. ASSUME NEW t \in Thread, CloseStep(t) PROVE ControlTypes'
  <2>1. CASE SendQuit(t)
    BY <1>0, <2>1 DEF SendQuit, SendSucceeds, SendFails, netVars
  <2>2. CASE CloseSocket(t) \/ QueueQuits(t) \/ JoinWorker(t) \/ JoinReturns(t) \/ LeaveExit(t)
    BY <1>0, <2>2 DEF CloseSocket, QueueQuits, JoinWorker, JoinReturns, LeaveExit, netVars
  <2>. QED
    BY <1>2, <2>1, <2>2 DEF CloseStep
<1>3. CASE SignalKills \/ OpenConnection \/ ConnectFails \/ IndexFiles \/ QuitCommand
  BY <1>0, <1>3
  DEF SignalKills, OpenConnection, ConnectFails, IndexFiles, QuitCommand, netVars
<1>4. CASE SearchFiles \/ SendFinished
  BY <1>0, <1>4 DEF SearchFiles, SendFinished, SendSucceeds, SendFails, netVars
<1>5. CASE \/ QueueConnected \/ QueueFile \/ DrainQueue \/ DecodeReply
           \/ PrintResults \/ EndOfMain
  BY <1>0, <1>5
  DEF QueueConnected, QueueFile, DrainQueue, DecodeReply, PrintResults, EndOfMain, netVars
<1>6. CASE \/ PollConnected \/ ReaderCalled \/ CheckConnected \/ CallRecv \/ ReceiveMessage
           \/ ReceiveShutDown \/ EndOfStream
  BY <1>0, <1>6 DEF PollConnected, ReaderCalled, CheckConnected, CallRecv, ReceiveMessage,
     ReceiveShutDown,
                    EndOfStream, netVars
<1>7. CASE ReaderPops \/ WorkerPops
  BY <1>0, <1>7, TaskForTheCalled DEF ReaderPops, WorkerPops, netVars
<1>8. CASE \/ WorkerTakesTicket \/ WorkerCalled \/ CountFile \/ CutPathThrows
           \/ LeaveFile \/ AwaitSuccess
  BY <1>0, <1>8
  DEF WorkerTakesTicket, WorkerCalled, CountFile, CutPathThrows, LeaveFile, AwaitSuccess,
     workerUnchanged, netVars
<1>9. CASE SendBatch
  BY <1>0, <1>9 DEF SendBatch, SendSucceeds, SendFails, workerUnchanged, netVars
<1>10. CASE Greet \/ Serve \/ SubWorkerLeaves \/ ShutDown \/ Crash
  BY <1>0, <1>10 DEF Greet, Serve, SubWorkerLeaves, Leaves, ShutDown, Crash, clientUnchanged
<1>11. CASE UNCHANGED vars
  BY <1>1, <1>11 DEF vars, netVars
<1>. QED
  BY <1>2, <1>3, <1>4, <1>5, <1>6, <1>7, <1>8, <1>9, <1>10, <1>11, StepCases

LEMMA FlagTypesStep == ClientInv /\ [Next]_vars => FlagTypes'
<1>. SUFFICES ASSUME ClientInv, [Next]_vars PROVE FlagTypes'
  OBVIOUS
<1>. USE DEF FlagTypes, Gone, linkVars, netVars
<1>0. FlagTypes
  BY DEF ClientInv
<1>1. ASSUME UNCHANGED <<joined, linkVars, reset, clientID, dataSuccessfullyReceived>>
      PROVE  FlagTypes'
  BY <1>0, <1>1
<1>2. ASSUME NEW t \in Thread, CloseStep(t) PROVE FlagTypes'
  <2>. USE DEF closeUnchanged
  <2>1. CASE SendQuit(t)
    BY <1>0, <2>1 DEF SendQuit, SendSucceeds, SendFails
  <2>2. CASE CloseSocket(t)
    BY <1>0, <2>2 DEF CloseSocket
  <2>3. CASE QueueQuits(t) \/ JoinWorker(t)
    BY <1>1, <2>3 DEF QueueQuits, JoinWorker
  <2>4. CASE JoinReturns(t)
    BY <1>0, <2>4 DEF JoinReturns
  <2>5. CASE LeaveExit(t)
    BY <1>0, <2>5 DEF LeaveExit
  <2>. QED
    BY <1>2, <2>1, <2>2, <2>3, <2>4, <2>5 DEF CloseStep
<1>3. CASE \/ SignalKills \/ IndexFiles \/ QuitCommand \/ QueueConnected \/ QueueFile
           \/ DrainQueue \/ DecodeReply \/ PrintResults \/ EndOfMain
  BY <1>1, <1>3 DEF SignalKills, IndexFiles, QuitCommand, QueueConnected, QueueFile,
                    DrainQueue, DecodeReply, PrintResults, EndOfMain
<1>4. CASE OpenConnection
  BY <1>0, <1>4 DEF OpenConnection
<1>5. CASE ConnectFails
  BY <1>0, <1>5 DEF ConnectFails
<1>6. CASE SearchFiles
  BY <1>0, <1>6 DEF SearchFiles, SendSucceeds, SendFails
<1>7. CASE SendFinished
  BY <1>0, <1>7 DEF SendFinished, SendSucceeds, SendFails
<1>8. CASE PollConnected \/ ReaderCalled \/ ReaderPops \/ CheckConnected \/ CallRecv \/ EndOfStream
  BY <1>1, <1>8
  DEF PollConnected, ReaderCalled, ReaderPops, CheckConnected, CallRecv, EndOfStream,
     readerUnchanged
<1>9. CASE ReceiveMessage
  BY <1>0, <1>9 DEF ReceiveMessage, readerUnchanged
<1>10. CASE ReceiveShutDown
  BY <1>0, <1>10 DEF ReceiveShutDown, readerUnchanged
<1>11. CASE WorkerTakesTicket \/ WorkerCalled \/ WorkerPops \/ CountFile \/ CutPathThrows \/ LeaveFile
  BY <1>1, <1>11 DEF WorkerTakesTicket, WorkerCalled, WorkerPops, CountFile, CutPathThrows,
     LeaveFile,
                     workerUnchanged
<1>12. CASE SendBatch
  BY <1>0, <1>12 DEF SendBatch, SendSucceeds, SendFails, workerUnchanged
<1>13. CASE AwaitSuccess
  BY <1>0, <1>13 DEF AwaitSuccess, workerUnchanged
<1>14. CASE Greet \/ Serve
  BY <1>1, <1>14 DEF Greet, Serve, clientUnchanged
<1>15. CASE SubWorkerLeaves \/ ShutDown
  BY <1>0, <1>15 DEF SubWorkerLeaves, ShutDown, Leaves, clientUnchanged
<1>16. CASE Crash
  BY <1>0, <1>16 DEF Crash, clientUnchanged
<1>17. CASE UNCHANGED vars
  BY <1>1, <1>17 DEF vars
<1>. QED
  BY <1>2, <1>3, <1>4, <1>5, <1>6, <1>7, <1>8, <1>9, <1>10, <1>11, <1>12, <1>13, <1>14, <1>15,
     <1>16, <1>17, StepCases

LEMMA QueueInvStep == ClientInv /\ [Next]_vars => QueueInv'
<1>. SUFFICES ASSUME ClientInv, [Next]_vars PROVE QueueInv'
  OBVIOUS
<1>. USE DEF QueueInv, queueVars
<1>0. QueueInv /\ ControlTypes
  BY DEF ClientInv
<1>1. ASSUME UNCHANGED <<deque, toQueue, file, worker, main, server>> PROVE QueueInv'
  BY <1>0, <1>1
<1>2. ASSUME NEW t \in Thread, CloseStep(t) PROVE QueueInv'
  <2>. USE DEF closeUnchanged, commandVars, fileVars, netVars
  <2>1. CASE SendQuit(t)
    BY <1>1, <2>1 DEF SendQuit, SendSucceeds, SendFails
  <2>2. CASE CloseSocket(t) \/ JoinWorker(t) \/ JoinReturns(t)
    BY <1>1, <2>2 DEF CloseSocket, JoinWorker, JoinReturns
  <2>3. CASE QueueQuits(t) /\ worker # "none"
    <3>1. Quit # Connected
      BY DEF Quit, Connected
    <3>. QED
      BY <1>0, <2>3, <3>1 DEF QueueQuits, Push
  <2>4. CASE QueueQuits(t) /\ worker = "none"
    BY <1>1, <2>4 DEF QueueQuits
  <2>5. CASE LeaveExit(t)
    BY <1>0, <2>5 DEF LeaveExit
  <2>. QED
    BY <1>2, <2>1, <2>2, <2>3, <2>4, <2>5 DEF CloseStep
<1>3. CASE SignalKills \/ ConnectFails
  BY <1>1, <1>3 DEF SignalKills, ConnectFails, commandVars, fileVars, netVars
<1>4. CASE OpenConnection
  BY <1>0, <1>4 DEF OpenConnection, commandVars, fileVars
<1>5. CASE QueueConnected
  BY <1>0, <1>5 DEF QueueConnected, Push, commandVars, fileVars, netVars
<1>6. CASE IndexFiles \/ SearchFiles \/ SendFinished \/ QuitCommand
  BY <1>0, <1>6 DEF IndexFiles, SearchFiles, SendFinished, QuitCommand, SendSucceeds, SendFails,
                    commandVars, fileVars, netVars
<1>7. CASE QueueFile
  BY <1>0, <1>7, FileAssumption DEF QueueFile, Push, commandVars, fileVars, netVars
<1>8. CASE DrainQueue \/ DecodeReply \/ PrintResults \/ EndOfMain
  BY <1>0, <1>8
  DEF DrainQueue, DecodeReply, PrintResults, EndOfMain, commandVars, fileVars, netVars
<1>9. CASE \/ PollConnected \/ ReaderCalled \/ CheckConnected \/ CallRecv
           \/ ReceiveMessage \/ ReceiveShutDown \/ EndOfStream
  BY <1>1, <1>9 DEF PollConnected, ReaderCalled, CheckConnected, CallRecv, ReceiveMessage,
     ReceiveShutDown,
     EndOfStream, TakeTicket, readerUnchanged, commandVars, fileVars, netVars
<1>10. CASE ReaderPops
  <2>1. /\ deque # <<>> /\ deque' = Tail(deque) /\ Head(deque) = deque[1] /\ 1 \in DOMAIN deque
        /\ worker' = IF Head(deque) = Connected THEN "ticket" ELSE worker
        /\ UNCHANGED <<toQueue, file, main, server>>
    BY <1>0, <1>10, TaskForTheCalled DEF ReaderPops, readerUnchanged, commandVars, fileVars, netVars
  <2>2. /\ deque' \in Seq(File \cup {Connected, Quit})
        /\ \A i \in DOMAIN deque' : i + 1 \in DOMAIN deque /\ i # 0 /\ i \in Nat /\ deque'[i] = deque[i + 1]
    BY <1>0, <2>1
  <2>. QED
    BY <1>0, <2>1, <2>2
<1>11. CASE WorkerPops
  BY <1>0, <1>11, TaskForTheCalled DEF WorkerPops, workerUnchanged, commandVars, netVars
<1>12. CASE \/ WorkerTakesTicket \/ WorkerCalled \/ CountFile \/ CutPathThrows \/ LeaveFile
            \/ SendBatch \/ AwaitSuccess
  BY <1>0, <1>12 DEF WorkerTakesTicket, WorkerCalled, CountFile, CutPathThrows, LeaveFile,
     SendBatch, AwaitSuccess,
     TakeTicket, SendSucceeds, SendFails, workerUnchanged, commandVars, fileVars, netVars
<1>13. CASE Greet \/ Serve \/ SubWorkerLeaves \/ ShutDown \/ Crash
  BY <1>0, <1>13
  DEF Greet, Serve, SubWorkerLeaves, Leaves, ShutDown, Crash, clientUnchanged, commandVars,
     fileVars, netVars
<1>14. CASE UNCHANGED vars
  BY <1>1, <1>14 DEF vars, commandVars, fileVars, netVars
<1>. QED
  BY <1>2, <1>3, <1>4, <1>5, <1>6, <1>7, <1>8, <1>9, <1>10, <1>11, <1>12, <1>13, <1>14, StepCases

\* A thread that spins has a ticket of its own, a thread that is called a task.
LEMMA TicketInvStep == ClientInv /\ [Next]_vars => TicketInv'
<1>. SUFFICES ASSUME ClientInv, [Next]_vars PROVE TicketInv'
  OBVIOUS
<1>. USE DEF TicketInv, Holds, HowMany, HowManyCalled, One, Consumer, Called, queueVars
<1>0. TicketInv /\ ControlTypes /\ deque \in Seq(File \cup {Connected, Quit})
  BY DEF ClientInv, QueueInv
<1>1. ASSUME UNCHANGED <<queueVars, Holds("reader"), Holds("worker")>>,
             reader' = "pop" => reader = "pop", worker' = "pop" => worker = "pop"
      PROVE  TicketInv'
  BY <1>0, <1>1
<1>2. ASSUME NEW task \in File \cup {Connected, Quit}, Push(task), UNCHANGED <<reader, worker>>
      PROVE  TicketInv'
  <2>1. Len(deque') = Len(deque) + 1 /\ tail' = tail + 1 /\ UNCHANGED <<head, ticket>>
    BY <1>0, <1>2 DEF Push
  <2>. QED
    BY <1>0, <1>2, <2>1
<1>3. ASSUME NEW t \in Thread, CloseStep(t) PROVE TicketInv'
  <2>1. CASE QueueQuits(t)
    BY <1>1, <1>2, <2>1 DEF QueueQuits
  <2>2. CASE LeaveExit(t)
    BY <1>0, <1>1, <2>2 DEF LeaveExit, ClientInv, LinkInv
  <2>3. CASE SendQuit(t) \/ CloseSocket(t) \/ JoinWorker(t) \/ JoinReturns(t)
    BY <1>1, <2>3 DEF SendQuit, CloseSocket, JoinWorker, JoinReturns
  <2>. QED
    BY <1>3, <2>1, <2>2, <2>3 DEF CloseStep
<1>4. CASE \/ SignalKills \/ OpenConnection \/ ConnectFails \/ IndexFiles \/ SearchFiles
           \/ QuitCommand \/ DrainQueue \/ SendFinished \/ DecodeReply \/ PrintResults
           \/ EndOfMain
  BY <1>1, <1>4 DEF SignalKills, OpenConnection, ConnectFails, IndexFiles, SearchFiles,
     QuitCommand, DrainQueue, SendFinished, DecodeReply, PrintResults, EndOfMain
<1>5. CASE QueueConnected
  BY <1>2, <1>5 DEF QueueConnected
<1>6. CASE QueueFile
  BY <1>2, <1>6 DEF QueueFile, ClientInv, QueueInv
<1>7. CASE PollConnected /\ ~isClientConnectedToServer
  BY <1>0, <1>7 DEF PollConnected, TakeTicket
<1>8. CASE PollConnected /\ isClientConnectedToServer
  BY <1>1, <1>8 DEF PollConnected
<1>9. CASE ReaderCalled
  BY <1>0, <1>9 DEF ReaderCalled
<1>10. CASE ReaderPops
  <2>1. Len(deque') = Len(deque) - 1 /\ UNCHANGED <<head, tail, ticket>>
    BY <1>0, <1>10, TaskForTheCalled DEF ReaderPops
  <2>2. reader = "pop" /\ reader' \in {"check", "poll"} /\ Holds("worker")' = Holds("worker")
        /\ (worker' = "pop" => worker = "pop")
    BY <1>10, TaskForTheCalled DEF ReaderPops, ClientInv, QueueInv
  <2>. QED
    BY <1>0, <2>1, <2>2
<1>11. CASE CheckConnected \/ CallRecv \/ ReceiveMessage \/ ReceiveShutDown \/ EndOfStream
  BY <1>1, <1>11
  DEF CheckConnected, CallRecv, ReceiveMessage, ReceiveShutDown, AnswersShutDown, EndOfStream
<1>12. CASE WorkerTakesTicket
  BY <1>0, <1>12, SMTT(30) DEF WorkerTakesTicket, TakeTicket, workerUnchanged
<1>13. CASE WorkerCalled
  BY <1>0, <1>13 DEF WorkerCalled, workerUnchanged
<1>14. CASE WorkerPops
  <2>1. Len(deque') = Len(deque) - 1 /\ UNCHANGED <<head, tail, ticket>>
    BY <1>0, <1>14, TaskForTheCalled DEF WorkerPops
  <2>2. worker = "pop" /\ worker' \in {"exit", "count"} /\ reader' = reader
    BY <1>14, TaskForTheCalled DEF WorkerPops
  <2>. QED
    BY <1>0, <2>1, <2>2
<1>15. CASE CountFile \/ CutPathThrows \/ LeaveFile \/ SendBatch \/ AwaitSuccess
  BY <1>1, <1>15 DEF CountFile, CutPathThrows, LeaveFile, SendBatch, AwaitSuccess, workerUnchanged
<1>16. CASE Greet \/ Serve \/ SubWorkerLeaves \/ ShutDown \/ Crash
  BY <1>1, <1>16 DEF Greet, Serve, SubWorkerLeaves, ShutDown, Crash, clientUnchanged
<1>17. CASE UNCHANGED vars
  BY <1>1, <1>17 DEF vars
<1>. QED
  BY <1>3, <1>4, <1>5, <1>6, <1>7, <1>8, <1>9, <1>10, <1>11, <1>12, <1>13, <1>14, <1>15, <1>16,
     <1>17, StepCases

LEMMA WordsInvStep == ClientInv /\ [Next]_vars => WordsInv'
<1>. SUFFICES ASSUME ClientInv, [Next]_vars PROVE WordsInv'
  OBVIOUS
<1>. USE DEF WordsInv, fileVars
<1>0. WordsInv /\ ControlTypes /\ BatchSize \in Nat \ {0}
  BY BatchAssumption DEF ClientInv
<1>1. ASSUME UNCHANGED <<content, left, buf, sent>>,
             worker' \in {"none", "ticket"} => worker \in {"none", "ticket"}
      PROVE  WordsInv'
  BY <1>0, <1>1
<1>2. ASSUME NEW t \in Thread, CloseStep(t) PROVE WordsInv'
  BY <1>1, <1>2 DEF CloseStep, SendQuit, CloseSocket, QueueQuits, JoinWorker, JoinReturns,
     LeaveExit,
     closeUnchanged
<1>3. CASE \/ SignalKills \/ OpenConnection \/ ConnectFails \/ IndexFiles \/ SearchFiles
           \/ QuitCommand \/ QueueConnected \/ QueueFile \/ DrainQueue \/ SendFinished
           \/ DecodeReply \/ PrintResults \/ EndOfMain
  BY <1>1, <1>3 DEF SignalKills, OpenConnection, ConnectFails, IndexFiles, SearchFiles,
     QuitCommand, QueueConnected, QueueFile, DrainQueue, SendFinished, DecodeReply, PrintResults,
     EndOfMain
<1>4. CASE \/ PollConnected \/ ReaderCalled \/ CheckConnected \/ CallRecv \/ ReceiveMessage
           \/ ReceiveShutDown \/ EndOfStream
  BY <1>1, <1>4 DEF PollConnected, ReaderCalled, CheckConnected, CallRecv, ReceiveMessage,
     ReceiveShutDown,
     EndOfStream, readerUnchanged
<1>5. CASE ReaderPops
  <2>1. deque # <<>> /\ 1 \in DOMAIN deque /\ Head(deque) = deque[1]
    BY <1>5, TaskForTheCalled DEF ReaderPops, ClientInv, QueueInv
  <2>2. Head(deque) = Connected => worker = "none"
    BY <2>1 DEF ClientInv, QueueInv
  <2>. QED
    BY <1>1, <1>5, <2>1, <2>2 DEF ReaderPops, readerUnchanged
<1>6. CASE WorkerPops
  BY <1>1, <1>6, TaskForTheCalled DEF WorkerPops
<1>7. CASE WorkerTakesTicket \/ WorkerCalled \/ CutPathThrows \/ AwaitSuccess
  BY <1>1, <1>7 DEF WorkerTakesTicket, WorkerCalled, CutPathThrows, AwaitSuccess
<1>8. CASE CountFile
  <2>1. content' \in Nat
    BY <1>0, <1>8, WordsAssumption DEF CountFile, ClientInv, QueueInv
  <2>. QED
    BY <1>0, <1>8, <2>1 DEF CountFile
<1>9. CASE LeaveFile
  BY <1>0, <1>9 DEF LeaveFile, Overfull
<1>10. CASE SendBatch
  <2>1. CASE /\ sent' = sent + BatchSize
             /\ left' = left - (BatchSize - buf) - 1
             /\ buf' = 1
    <3>1. buf + left > BatchSize /\ content' = content /\ worker' \notin {"none", "ticket"}
      BY <1>10, <2>1 DEF SendBatch, Overfull
    <3>. QED
      BY <1>0, <2>1, <3>1
  <2>2. CASE UNCHANGED <<sent, left, buf>>
    BY <1>1, <1>10, <2>2 DEF SendBatch
  <2>. QED
    BY <1>10, <2>1, <2>2 DEF SendBatch, NextBuffer
<1>11. CASE Greet \/ Serve \/ SubWorkerLeaves \/ ShutDown \/ Crash
  BY <1>1, <1>11 DEF Greet, Serve, SubWorkerLeaves, ShutDown, Crash, clientUnchanged
<1>12. CASE UNCHANGED vars
  BY <1>1, <1>12 DEF vars
<1>. QED
  BY <1>2, <1>3, <1>4, <1>5, <1>6, <1>7, <1>8, <1>9, <1>10, <1>11, <1>12, StepCases

LEMMA LinkInvStep == ClientInv /\ [Next]_vars => LinkInv'
<1>. SUFFICES ASSUME ClientInv, [Next]_vars PROVE LinkInv'
  OBVIOUS
<1>. USE DEF LinkInv, QueueInv, Thread, linkVars, queueVars, netVars
<1>0. LinkInv /\ QueueInv /\ ControlTypes
  BY DEF ClientInv
<1>. USE <1>0 DEF ControlTypes
<1>1. ASSUME UNCHANGED <<linkVars, closing, main, reader, worker, server, deque, up, down>>
      PROVE  LinkInv'
  BY <1>1
<1>2. ASSUME NEW t \in Thread, CloseStep(t) PROVE LinkInv'
  <2>1. CASE SendQuit(t)
    BY <2>1 DEF SendQuit, SendSucceeds, SendFails
  <2>2. CASE CloseSocket(t)
    BY <2>2 DEF CloseSocket
  <2>3. CASE QueueQuits(t)
    BY <2>3 DEF QueueQuits, Push
  <2>4. CASE JoinWorker(t) \/ JoinReturns(t)
    BY <2>4 DEF JoinWorker, JoinReturns
  <2>5. CASE LeaveExit(t)
    BY <2>5 DEF LeaveExit
  <2>. QED
    BY <1>2, <2>1, <2>2, <2>3, <2>4, <2>5 DEF CloseStep
<1>3. CASE SignalKills
  BY <1>1, <1>3 DEF SignalKills
<1>4. CASE OpenConnection
  BY <1>4 DEF OpenConnection, AtPrompt
<1>5. CASE ConnectFails \/ IndexFiles \/ QuitCommand
  BY <1>5 DEF ConnectFails, IndexFiles, QuitCommand, AtPrompt
<1>6. CASE SearchFiles \/ SendFinished
  BY <1>6 DEF SearchFiles, SendFinished, SendSucceeds, SendFails, AtPrompt, Open
<1>7. CASE QueueConnected
  BY <1>7 DEF QueueConnected, Push
<1>8. CASE QueueFile
  BY <1>8, FileAssumption DEF QueueFile, Push
<1>9. CASE DrainQueue \/ DecodeReply \/ PrintResults \/ EndOfMain
  BY <1>9 DEF DrainQueue, DecodeReply, PrintResults, EndOfMain, Open
<1>10. CASE PollConnected \/ ReaderCalled
  BY <1>10 DEF PollConnected, ReaderCalled, TakeTicket, readerUnchanged
<1>11. CASE ReaderPops
  BY <1>11, TaskForTheCalled DEF ReaderPops, readerUnchanged
<1>12. CASE CheckConnected \/ CallRecv \/ ReceiveMessage \/ ReceiveShutDown \/ EndOfStream
  BY <1>12
  DEF CheckConnected, CallRecv, ReceiveMessage, ReceiveShutDown, AnswersShutDown, EndOfStream,
     readerUnchanged
<1>13. CASE WorkerPops
  BY <1>13, TaskForTheCalled DEF WorkerPops
<1>14. CASE \/ WorkerTakesTicket \/ WorkerCalled \/ CountFile \/ CutPathThrows
            \/ LeaveFile \/ AwaitSuccess
  BY <1>14
  DEF WorkerTakesTicket, WorkerCalled, CountFile, CutPathThrows, LeaveFile, AwaitSuccess,
     TakeTicket,
      workerUnchanged
<1>15. CASE SendBatch
  BY <1>15 DEF SendBatch, SendSucceeds, SendFails, workerUnchanged
<1>16. CASE Greet \/ Serve \/ SubWorkerLeaves \/ ShutDown \/ Crash
  BY <1>16 DEF Greet, Serve, SubWorkerLeaves, Leaves, ShutDown, Crash, clientUnchanged
<1>17. CASE UNCHANGED vars
  BY <1>1, <1>17 DEF vars
<1>. QED
  BY <1>2, <1>3, <1>4, <1>5, <1>6, <1>7, <1>8, <1>9, <1>10, <1>11, <1>12, <1>13, <1>14, <1>15,
     <1>16, <1>17, StepCases

LEMMA CommandTypesStep == ClientInv /\ [Next]_vars => CommandTypes'
<1>. SUFFICES ASSUME ClientInv, [Next]_vars PROVE CommandTypes'
  OBVIOUS
<1>. USE DEF CommandTypes, commandVars, searchVars
<1>0. CommandTypes /\ MaxCommands \in Nat /\ MaxIndexes \in Nat
  BY BoundsAssumption DEF ClientInv
<1>1. ASSUME UNCHANGED <<indexes, fails, query>> PROVE CommandTypes'
  BY <1>0, <1>1
<1>2. ASSUME NEW t \in Thread, CloseStep(t) PROVE CommandTypes'
  BY <1>1, <1>2 DEF CloseStep, SendQuit, CloseSocket, QueueQuits, JoinWorker, JoinReturns,
     LeaveExit,
     closeUnchanged
<1>3. CASE IndexFiles \/ ConnectFails \/ SearchFiles
  BY <1>0, <1>3 DEF IndexFiles, ConnectFails, SearchFiles, MoreCommands
<1>4. CASE \/ SignalKills \/ OpenConnection \/ QuitCommand \/ QueueConnected \/ QueueFile
           \/ DrainQueue \/ SendFinished \/ DecodeReply \/ PrintResults \/ EndOfMain
  BY <1>1, <1>4 DEF SignalKills, OpenConnection, QuitCommand, QueueConnected, QueueFile,
     DrainQueue, SendFinished, DecodeReply, PrintResults, EndOfMain
<1>5. CASE \/ PollConnected \/ ReaderCalled \/ ReaderPops \/ CheckConnected \/ CallRecv
           \/ ReceiveMessage \/ ReceiveShutDown \/ EndOfStream
  BY <1>1, <1>5 DEF PollConnected, ReaderCalled, ReaderPops, CheckConnected, CallRecv,
     ReceiveMessage,
     ReceiveShutDown, EndOfStream, readerUnchanged
<1>6. CASE \/ WorkerTakesTicket \/ WorkerCalled \/ WorkerPops \/ CountFile \/ CutPathThrows
           \/ LeaveFile \/ SendBatch \/ AwaitSuccess
  BY <1>1, <1>6 DEF WorkerTakesTicket, WorkerCalled, WorkerPops, CountFile, CutPathThrows,
     LeaveFile, SendBatch,
     AwaitSuccess, workerUnchanged
<1>7. CASE Greet \/ Serve \/ SubWorkerLeaves \/ ShutDown \/ Crash
  BY <1>1, <1>7 DEF Greet, Serve, SubWorkerLeaves, ShutDown, Crash, clientUnchanged
<1>8. CASE UNCHANGED vars
  BY <1>1, <1>8 DEF vars
<1>. QED
  BY <1>2, <1>3, <1>4, <1>5, <1>6, <1>7, <1>8, StepCases

\* No message of the kind comes to a stream: what it holds of them it held
\* before, in the same order.
NoneNew(old, new, k) ==
    \E d \in Nat : \A i \in DOMAIN new : new[i].kind = k => i + d \in DOMAIN old /\ old[i + d] = new[i]

LEMMA NoneNewSame == ASSUME NEW S, NEW s \in Seq(S), NEW k PROVE NoneNew(s, s, k)
<1>1. \A i \in DOMAIN s : i + 0 = i
  OBVIOUS
<1>. QED
  BY <1>1 DEF NoneNew

LEMMA NoneNewEmpty == ASSUME NEW s, NEW k PROVE NoneNew(s, <<>>, k)
  BY DEF NoneNew

LEMMA NoneNewAppend ==
    ASSUME NEW S, NEW s \in Seq(S), NEW m \in S, NEW k, m.kind # k
    PROVE  NoneNew(s, Append(s, m), k)
<1>0. \A i \in DOMAIN s : i + 0 = i
  OBVIOUS
<1>1. \A i \in DOMAIN Append(s, m) :
        \/ i \in DOMAIN s /\ Append(s, m)[i] = s[i]
        \/ Append(s, m)[i] = m
  OBVIOUS
<1>. QED
  BY <1>0, <1>1 DEF NoneNew

LEMMA NoneNewTail ==
    ASSUME NEW S, NEW s \in Seq(S), s # <<>>, NEW k
    PROVE  NoneNew(s, Tail(s), k)
<1>1. \A i \in DOMAIN Tail(s) : i + 1 \in DOMAIN s /\ Tail(s)[i] = s[i + 1]
  OBVIOUS
<1>. QED
  BY <1>1 DEF NoneNew

\* Messages that are no searches and no replies leave the searches alone.
LEMMA FreshKept ==
    ASSUME FreshInv, up' \in Seq(UpMessage), down' \in Seq(DownMessage),
           NoneNew(up, up', "Search"), NoneNew(down, down', "Success-Search"),
           UNCHANGED <<query, searchBuffer, result>>,
           sockfd' \/ server' = "away" => sockfd \/ server = "away",
           server' = "away" => server = "away",
           Waiting' <=> Waiting,
           main' = "print" => main = "print"
    PROVE  FreshInv'
<1>1. PICK d \in Nat : \A i \in Queries(up') : i + d \in Queries(up) /\ up[i + d] = up'[i]
  BY DEF NoneNew, Queries
<1>2. PICK e \in Nat : \A i \in Replies(down') : i + e \in Replies(down) /\ down[i + e] = down'[i]
  BY DEF NoneNew, Replies
<1>3. (\A i \in Queries(up') : i \in Nat) /\ (\A i \in Replies(down') : i \in Nat)
  BY DEF Queries, Replies
<1>4. /\ \A i \in Queries(up') : up'[i].query \in 1..query
      /\ \A i \in Replies(down') : down'[i].query \in 1..query
  BY <1>1, <1>2 DEF FreshInv
<1>5. ASSUME Queries(up) = {} PROVE Queries(up') = {}
  BY <1>1, <1>5
<1>6. ASSUME Replies(down) = {} PROVE Replies(down') = {}
  BY <1>2, <1>6
<1>7. ASSUME Waiting PROVE \A i, j \in Queries(up') : i = j /\ up'[i].query = query
  BY <1>1, <1>3, <1>7 DEF FreshInv
<1>8. ASSUME Waiting PROVE \A i, j \in Replies(down') : i = j /\ down'[i].query = query
  BY <1>2, <1>3, <1>8 DEF FreshInv
<1>9. FreshAnswer'
  BY DEF FreshInv, FreshAnswer
<1>. QED
  BY <1>4, <1>5, <1>6, <1>7, <1>8, <1>9 DEF FreshInv

\* A message but a search or a reply is sent up or down.
LEMMA SendOther ==
    ASSUME NEW s \in Seq(UpMessage), NEW k \in {"Index", "Finished", "quit",
    "Client-ShutDown-Successful"}
    PROVE  Append(s, Message(k)) \in Seq(UpMessage) /\ NoneNew(s, Append(s, Message(k)), "Search")
<1>1. Message(k) \in UpMessage /\ Message(k).kind # "Search"
  BY DEF UpMessage, Message
<1>. QED
  BY <1>1, NoneNewAppend

LEMMA AnswerOther ==
    ASSUME NEW s \in Seq(DownMessage), NEW k \in {"ClientName", "Success", "Server-ShutDown"}
    PROVE  /\ Append(s, Message(k)) \in Seq(DownMessage)
           /\ NoneNew(s, Append(s, Message(k)), "Success-Search")
<1>1. Message(k) \in DownMessage /\ Message(k).kind # "Success-Search"
  BY DEF DownMessage, Message
<1>. QED
  BY <1>1, NoneNewAppend

LEMMA FreshInvStep == ClientInv /\ [Next]_vars => FreshInv'
<1>. SUFFICES ASSUME ClientInv, [Next]_vars PROVE FreshInv'
  OBVIOUS
<1>. USE DEF searchVars, linkVars, netVars
<1>0. FreshInv /\ LinkInv /\ ControlTypes /\ up \in Seq(UpMessage) /\ down \in Seq(DownMessage)
      /\ query \in Nat
  BY DEF ClientInv, FreshInv, CommandTypes
<1>1. /\ NoneNew(up, up, "Search") /\ NoneNew(down, down, "Success-Search")
      /\ NoneNew(up, <<>>, "Search") /\ NoneNew(down, <<>>, "Success-Search")
      /\ up # <<>> => Tail(up) \in Seq(UpMessage) /\ NoneNew(up, Tail(up), "Search")
      /\ down # <<>> => Tail(down) \in Seq(DownMessage) /\ NoneNew(down, Tail(down), "Success-Search")
  BY <1>0, NoneNewSame, NoneNewEmpty, NoneNewTail
<1>2. ASSUME NEW k \in {"Index", "Finished", "quit", "Client-ShutDown-Successful"},
             SendSucceeds(Message(k)) \/ SendFails
      PROVE  /\ up' \in Seq(UpMessage) /\ down' \in Seq(DownMessage)
             /\ NoneNew(up, up', "Search") /\ NoneNew(down, down', "Success-Search")
             /\ server' = server
  BY <1>0, <1>1, <1>2, SendOther DEF SendSucceeds, SendFails
<1>3. ASSUME UNCHANGED <<searchVars, netVars, sockfd>>, Waiting' <=> Waiting,
             main' = "print" => main = "print"
      PROVE  FreshInv'
  BY <1>0, <1>1, <1>3, FreshKept
<1>4. ASSUME NEW t \in Thread, CloseStep(t) PROVE FreshInv'
  <2>. USE DEF Waiting, Open, closeUnchanged, Thread
  <2>1. CASE SendQuit(t)
    BY <1>0, <1>1, <1>2, <2>1, FreshKept DEF SendQuit, ControlTypes
  <2>2. CASE CloseSocket(t)
    BY <1>0, <1>1, <2>2, FreshKept DEF CloseSocket, ControlTypes
  <2>3. CASE QueueQuits(t) \/ JoinWorker(t) \/ JoinReturns(t)
    BY <1>0, <1>3, <2>3 DEF QueueQuits, JoinWorker, JoinReturns, ControlTypes
  <2>4. CASE LeaveExit(t)
    BY <1>0, <1>3, <2>4 DEF LeaveExit, ControlTypes
  <2>. QED
    BY <1>4, <2>1, <2>2, <2>3, <2>4 DEF CloseStep
<1>5. CASE OpenConnection
  BY <1>0, <1>1, <1>5, FreshKept DEF OpenConnection, Waiting, Open, AtPrompt
<1>6. CASE ConnectFails
  BY <1>0, <1>1, <1>6, FreshKept DEF ConnectFails, Waiting, Open
<1>7. CASE \/ SignalKills \/ IndexFiles \/ QuitCommand \/ QueueConnected \/ QueueFile
           \/ DrainQueue \/ PrintResults \/ EndOfMain
  BY <1>3, <1>7 DEF SignalKills, IndexFiles, QuitCommand, QueueConnected, QueueFile, DrainQueue,
     PrintResults, EndOfMain, Waiting, Open, AtPrompt
<1>8. CASE SendFinished
  BY <1>0, <1>1, <1>2, <1>8, FreshKept DEF SendFinished, Waiting, Open
<1>9. CASE SearchFiles
  <2>1. main = "prompt" /\ ~Waiting /\ closing["main"] = "no" /\ main' = "wait" /\ query' = query + 1
        /\ UNCHANGED <<sockfd, searchBuffer, result>>
    BY <1>0, <1>9 DEF SearchFiles, AtPrompt, Waiting, LinkInv
  <2>2. CASE SendSucceeds(SearchMessage(query')) /\ UNCHANGED closing
    <3>1. sockfd /\ server # "away" /\ server' = server /\ down' = down /\ Waiting'
      BY <1>0, <2>1, <2>2 DEF SendSucceeds, LinkInv, Waiting, Open
    <3>2. Queries(up) = {} /\ Replies(down) = {} /\ searchBuffer = 0
      BY <1>0, <2>1, <3>1 DEF FreshInv
    <3>3. SearchMessage(query') \in UpMessage /\ SearchMessage(query').query = query'
      BY <1>0, <2>1 DEF SearchMessage, UpMessage
    <3>4. /\ up' \in Seq(UpMessage)
          /\ \A i \in Queries(up') : i = Len(up) + 1 /\ up'[i].query = query'
      <4>1. CASE up' = up
        BY <1>0, <3>2, <4>1
      <4>2. CASE up' = Append(up, SearchMessage(query'))
        <5>1. /\ up' \in Seq(UpMessage) /\ DOMAIN up' = 1..(Len(up) + 1)
              /\ \A i \in 1..Len(up) : up'[i] = up[i]
              /\ up'[Len(up) + 1] = SearchMessage(query')
          BY <1>0, <3>3, <4>2
        <5>2. \A i \in Queries(up') : i \in Queries(up) \/ i = Len(up) + 1
          BY <1>0, <5>1 DEF Queries
        <5>. QED
          BY <3>2, <3>3, <5>1, <5>2
      <4>. QED
        BY <2>2, <4>1, <4>2 DEF SendSucceeds
    <3>. QED
      BY <1>0, <2>1, <3>1, <3>2, <3>4 DEF FreshInv, FreshAnswer
  <2>3. CASE SendFails /\ closing' = [closing EXCEPT !["main"] = "quit"]
    <3>1. ~Waiting' /\ UNCHANGED netVars
      BY <1>0, <2>3 DEF SendFails, Waiting, Open, ControlTypes, Thread
    <3>. QED
      BY <1>0, <2>1, <3>1 DEF FreshInv, FreshAnswer
  <2>. QED
    BY <1>9, <2>2, <2>3 DEF SearchFiles
<1>10. CASE DecodeReply
  <2>1. Waiting /\ ~Waiting' /\ server # "away" /\ UNCHANGED <<query, netVars, sockfd>>
        /\ result' = searchBuffer /\ searchBuffer' = 0
    BY <1>0, <1>10 DEF DecodeReply, Waiting, FreshInv
  <2>2. sockfd => searchBuffer # 0
    BY <1>0, <1>10 DEF DecodeReply, LinkInv
  <2>3. sockfd => Queries(up) = {} /\ Replies(down) = {}
    BY <1>0, <2>1, <2>2 DEF FreshInv
  <2>. QED
    BY <1>0, <2>1, <2>3 DEF FreshInv, FreshAnswer
<1>11. CASE PollConnected \/ ReaderCalled \/ ReaderPops \/ CheckConnected \/ CallRecv \/ EndOfStream
  BY <1>0, <1>3, <1>11, TaskForTheCalled DEF PollConnected, ReaderCalled, ReaderPops,
     CheckConnected, CallRecv,
     EndOfStream, readerUnchanged, Waiting, Open, ControlTypes, Thread
<1>12. CASE ReceiveMessage
  <2>1. /\ down # <<>> /\ down' = Tail(down) /\ UNCHANGED <<query, result, up, server, sockfd, main>>
        /\ Waiting' <=> Waiting
    BY <1>12 DEF ReceiveMessage, readerUnchanged, Waiting, Open
  <2>2. CASE Head(down).kind # "Success-Search"
    <3>1. searchBuffer' = searchBuffer
      BY <1>12, <2>2 DEF ReceiveMessage
    <3>. QED
      BY <1>0, <1>1, <2>1, <3>1, FreshKept
  <2>3. CASE Head(down).kind = "Success-Search"
    <3>1. 1 \in Replies(down) /\ searchBuffer' = down[1].query
      BY <1>0, <1>12, <2>1, <2>3 DEF ReceiveMessage, Replies
    <3>2. \A i \in Replies(down') : i \in Nat /\ i # 0 /\ i + 1 \in Replies(down)
                                    /\ down'[i] = down[i + 1]
      BY <1>0, <2>1 DEF Replies
    <3>3. searchBuffer' \in 0..query /\ \A i \in Replies(down') : down'[i].query \in 1..query
      BY <1>0, <3>1, <3>2 DEF FreshInv
    <3>4. CASE Waiting
      <4>1. Replies(down') = {} /\ searchBuffer' = query /\ Queries(up) = {}
        BY <1>0, <3>1, <3>2, <3>4 DEF FreshInv
      <4>. QED
        BY <1>0, <1>1, <2>1, <3>1, <3>3, <3>4, <4>1 DEF FreshInv, FreshAnswer
    <3>5. CASE ~Waiting
      <4>1. ~(sockfd \/ server = "away")
        BY <1>0, <3>1, <3>5 DEF FreshInv
      <4>. QED
        BY <1>0, <1>1, <2>1, <3>1, <3>3, <3>5, <4>1 DEF FreshInv, FreshAnswer
    <3>. QED
      BY <3>4, <3>5
  <2>. QED
    BY <2>2, <2>3
<1>13. CASE ReceiveShutDown
  <2>1. /\ down # <<>> /\ down' = Tail(down) /\ (Waiting' <=> Waiting)
        /\ UNCHANGED <<query, searchBuffer, result, sockfd, main, server>>
    BY <1>0, <1>13 DEF ReceiveShutDown, AnswersShutDown, readerUnchanged, Waiting, Open,
                       ControlTypes, Thread
  <2>2. up' \in Seq(UpMessage) /\ NoneNew(up, up', "Search")
    BY <1>0, <1>1, <1>13, SendOther DEF ReceiveShutDown
  <2>. QED
    BY <1>0, <1>1, <2>1, <2>2, FreshKept
<1>14. CASE \/ WorkerTakesTicket \/ WorkerCalled \/ WorkerPops \/ CountFile \/ CutPathThrows
            \/ LeaveFile \/ AwaitSuccess
  BY <1>3, <1>14, TaskForTheCalled DEF WorkerTakesTicket, WorkerCalled, WorkerPops, CountFile,
     CutPathThrows, LeaveFile, AwaitSuccess, workerUnchanged, Waiting, Open
<1>15. CASE SendBatch
  <2>1. UNCHANGED <<searchVars, sockfd, main>> /\ (Waiting' <=> Waiting)
    BY <1>0, <1>15 DEF SendBatch, workerUnchanged, Waiting, Open, ControlTypes, Thread
  <2>2. SendSucceeds(Message("Index")) \/ SendFails
    BY <1>15 DEF SendBatch
  <2>. QED
    BY <1>0, <1>2, <2>1, <2>2, FreshKept
<1>16. CASE Greet \/ ShutDown
  <2>1. /\ down' \in Seq(DownMessage) /\ NoneNew(down, down', "Success-Search")
        /\ server' # "away" /\ server # "away" /\ up' \in {up, <<>>}
    BY <1>0, <1>16, AnswerOther DEF Greet, ShutDown
  <2>2. UNCHANGED <<query, searchBuffer, result, sockfd, main>> /\ (Waiting' <=> Waiting)
    BY <1>16 DEF Greet, ShutDown, clientUnchanged, Waiting, Open
  <2>3. up' \in Seq(UpMessage) /\ NoneNew(up, up', "Search")
    <3>1. <<>> \in Seq(UpMessage)
      OBVIOUS
    <3>. QED
      BY <1>0, <1>1, <2>1, <3>1
  <2>. QED
    BY <1>0, <1>1, <2>1, <2>2, <2>3, FreshKept
<1>17. CASE Serve
  <2>1. up # <<>> /\ 1 \in DOMAIN up /\ Head(up) = up[1] /\ up[1] \in UpMessage
        /\ UNCHANGED <<searchVars, sockfd, main>> /\ (Waiting' <=> Waiting)
    BY <1>0, <1>17 DEF Serve, clientUnchanged, Waiting, Open
  <2>3. CASE up[1].kind \in {"Index", "Finished"}
    <3>1. up' = Tail(up) /\ server' = server /\ down' \in {down, Append(down, Message("Success"))}
      BY <1>17, <2>1, <2>3 DEF Serve
    <3>2. down' \in Seq(DownMessage) /\ NoneNew(down, down', "Success-Search")
      BY <1>0, <1>1, <3>1, AnswerOther
    <3>. QED
      BY <1>0, <1>1, <2>1, <3>1, <3>2, FreshKept
  <2>4. CASE up[1].kind = "Search"
    <3>1. up' = Tail(up) /\ server' = server /\ down' = Append(down, ReplyTo(up[1].query))
      BY <1>17, <2>1, <2>4 DEF Serve
    <3>2. 1 \in Queries(up) /\ up[1].query \in 1..query
      BY <1>0, <2>1, <2>4 DEF Queries, FreshInv
    <3>3. ReplyTo(up[1].query) \in DownMessage /\ ReplyTo(up[1].query).query = up[1].query
      BY <1>0, <3>2 DEF ReplyTo, DownMessage
    <3>4. \A i \in Queries(up') : i \in Nat /\ i # 0 /\ i + 1 \in Queries(up) /\ up'[i] = up[i + 1]
      BY <1>0, <2>1, <3>1 DEF Queries
    <3>5. /\ down' \in Seq(DownMessage) /\ DOMAIN down' = 1..(Len(down) + 1)
          /\ \A i \in 1..Len(down) : down'[i] = down[i]
          /\ down'[Len(down) + 1] = ReplyTo(up[1].query)
      BY <1>0, <3>1, <3>3
    <3>6. \A i \in Replies(down') : \/ i \in Replies(down) /\ down'[i] = down[i]
                                    \/ i = Len(down) + 1 /\ down'[i].query = up[1].query
      BY <1>0, <3>3, <3>5 DEF Replies
    <3>7. \A i \in Queries(up') : up'[i].query \in 1..query
      BY <1>0, <3>4 DEF FreshInv
    <3>8. \A i \in Replies(down') : down'[i].query \in 1..query
      BY <1>0, <3>2, <3>6 DEF FreshInv
    <3>9. CASE Waiting
      <4>1. Replies(down) = {} /\ searchBuffer = 0 /\ up[1].query = query
        BY <1>0, <3>2, <3>9 DEF FreshInv
      <4>2. Queries(up') = {}
        BY <1>0, <3>2, <3>4, <3>9 DEF FreshInv
      <4>3. \A i, j \in Replies(down') : i = j /\ down'[i].query = query
        BY <3>6, <4>1
      <4>. QED
        BY <1>0, <1>1, <2>1, <3>1, <3>5, <3>7, <3>8, <3>9, <4>1, <4>2, <4>3 DEF FreshInv,
           FreshAnswer
    <3>10. CASE ~Waiting
      <4>1. ~(sockfd \/ server = "away")
        BY <1>0, <3>2, <3>10 DEF FreshInv
      <4>. QED
        BY <1>0, <1>1, <2>1, <3>1, <3>5, <3>7, <3>8, <3>10, <4>1 DEF FreshInv, FreshAnswer
    <3>. QED
      BY <3>9, <3>10
  <2>. QED
    BY <1>17, <2>1, <2>3, <2>4 DEF Serve
<1>20. CASE SubWorkerLeaves
  <2>1. up' = <<>> /\ down' = down /\ server' = "left" /\ server # "away"
    BY <1>20 DEF SubWorkerLeaves, Leaves
  <2>2. UNCHANGED <<query, searchBuffer, result, sockfd, main>> /\ (Waiting' <=> Waiting)
    BY <1>20 DEF SubWorkerLeaves, clientUnchanged, Waiting, Open
  <2>3. <<>> \in Seq(UpMessage)
    OBVIOUS
  <2>. QED
    BY <1>0, <1>1, <2>1, <2>2, <2>3, FreshKept
<1>18. CASE Crash
  <2>1. /\ up' = <<>> /\ server' # "away"
        /\ down' \in Seq(DownMessage) /\ NoneNew(down, down', "Success-Search")
    <3>1. up' = <<>> /\ (down' = down \/ down' = <<>>) /\ server' # "away"
      BY <1>18 DEF Crash
    <3>2. <<>> \in Seq(DownMessage)
      OBVIOUS
    <3>3. CASE down' = down
      BY <1>0, <1>1, <3>1, <3>3
    <3>4. CASE down' = <<>>
      BY <1>1, <3>1, <3>2, <3>4
    <3>. QED
      BY <3>1, <3>3, <3>4
  <2>2. UNCHANGED <<query, searchBuffer, result, sockfd, main>> /\ (Waiting' <=> Waiting)
    BY <1>18 DEF Crash, clientUnchanged, Waiting, Open
  <2>3. server # "away"
    BY <1>18 DEF Crash
  <2>. QED
    BY <1>0, <1>1, <2>1, <2>2, <2>3, FreshKept
<1>19. CASE UNCHANGED vars
  BY <1>3, <1>19 DEF vars, Waiting, Open
<1>. QED
  BY <1>4, <1>5, <1>6, <1>7, <1>8, <1>9, <1>10, <1>11, <1>12, <1>13, <1>14, <1>15, <1>16,
     <1>17, <1>18, <1>19, <1>20, StepCases

LEMMA NameInvStep == ClientInv /\ [Next]_vars => NameInv'
<1>. SUFFICES ASSUME ClientInv, [Next]_vars PROVE NameInv'
  OBVIOUS
<1>0. NameInv /\ ControlTypes /\ FlagTypes /\ down \in Seq(DownMessage) /\ up \in Seq(UpMessage)
  BY DEF ClientInv, FreshInv
<1>1. ASSUME UNCHANGED <<down, server, clientID, dataSuccessfullyReceived>>,
             sent' # 0 /\ worker' # "await" => sent # 0 /\ worker # "await"
      PROVE  NameInv'
  BY <1>0, <1>1 DEF NameInv
\* The first message is read.
<1>2. ASSUME down # <<>>, down' = Tail(down), UNCHANGED <<server, worker, sent>>,
             clientID \/ down[1].kind = "ClientName" => clientID',
             down[1].kind = "Success" => clientID, dataSuccessfullyReceived' => clientID'
      PROVE  NameInv'
  <2>1. /\ \A i \in DOMAIN down' : i \in Nat /\ i + 1 \in DOMAIN down /\ down'[i] = down[i + 1]
        /\ \A j \in DOMAIN down : \/ j = 1
                                  \/ j - 1 \in DOMAIN down' /\ down'[j - 1] = down[j]
        /\ \A j \in DOMAIN down : j \in Nat
    BY <1>0, <1>2
  <2>2. server # "new"
    BY <1>0, <1>2 DEF NameInv
  <2>3. ASSUME NEW j \in DOMAIN down, down[j].kind = "ClientName", ~clientID'
        PROVE  j - 1 \in DOMAIN down' /\ down'[j - 1].kind = "ClientName"
    BY <1>2, <2>1, <2>3
  <2>4. server' \in {"up", "closing"} =>
           clientID' \/ \E i \in DOMAIN down' : down'[i].kind = "ClientName"
    BY <1>0, <1>2, <2>3 DEF NameInv
  <2>5. ASSUME NEW i \in DOMAIN down', down'[i].kind = "Success", ~clientID'
        PROVE  \E j \in DOMAIN down' : j < i /\ down'[j].kind = "ClientName"
    <3>1. PICK j \in DOMAIN down : j < i + 1 /\ down[j].kind = "ClientName"
      BY <1>0, <1>2, <2>1, <2>5 DEF NameInv
    <3>2. j - 1 \in DOMAIN down' /\ down'[j - 1].kind = "ClientName" /\ j - 1 < i
      BY <2>1, <2>3, <2>5, <3>1
    <3>. QED
      BY <3>2
  <2>. QED
    BY <1>0, <1>2, <2>2, <2>4, <2>5 DEF NameInv
\* A message follows the others.
<1>3. ASSUME NEW m \in DownMessage, down' = Append(down, m),
             m.kind = "Success" => server \in {"up", "closing"},
             server' # "new",
             server \in {"up", "closing"} \/ m.kind = "ClientName",
             UNCHANGED <<worker, sent, clientID, dataSuccessfullyReceived>>
      PROVE  NameInv'
  <2>1. /\ DOMAIN down' = 1..(Len(down) + 1) /\ DOMAIN down = 1..Len(down) /\ Len(down) \in Nat
        /\ \A i \in DOMAIN down : down'[i] = down[i] /\ i < Len(down) + 1
        /\ down'[Len(down) + 1] = m
        /\ \A i \in DOMAIN down' : i \in DOMAIN down \/ i = Len(down) + 1
    BY <1>0, <1>3
  <2>2. clientID' \/ \E i \in DOMAIN down' : down'[i].kind = "ClientName"
    BY <1>0, <1>3, <2>1, SMTT(20) DEF NameInv
  <2>3. ASSUME NEW i \in DOMAIN down', down'[i].kind = "Success", ~clientID'
        PROVE  \E j \in DOMAIN down' : j < i /\ down'[j].kind = "ClientName"
    BY <1>0, <1>3, <2>1, <2>3 DEF NameInv
  <2>. QED
    BY <1>0, <1>3, <2>2, <2>3 DEF NameInv
<1>4. ASSUME NEW t \in Thread, CloseStep(t) PROVE NameInv'
  BY <1>1, <1>4 DEF CloseStep, SendQuit, CloseSocket, QueueQuits, JoinWorker, JoinReturns,
     LeaveExit,
     SendSucceeds, SendFails, closeUnchanged, fileVars, netVars
<1>5. CASE \/ SignalKills \/ ConnectFails \/ IndexFiles \/ SearchFiles
           \/ QuitCommand \/ QueueConnected \/ QueueFile \/ DrainQueue \/ SendFinished
           \/ DecodeReply \/ PrintResults \/ EndOfMain
  BY <1>1, <1>5 DEF SignalKills, ConnectFails, IndexFiles, SearchFiles,
     QuitCommand, QueueConnected, QueueFile, DrainQueue, SendFinished, DecodeReply, PrintResults,
     EndOfMain, SendSucceeds, SendFails, fileVars, netVars
<1>16. CASE OpenConnection
  <2>1. /\ server' = "new" /\ down' = <<>>
        /\ UNCHANGED <<worker, sent, clientID, dataSuccessfullyReceived>>
    BY <1>16 DEF OpenConnection, fileVars, ClientInv, LinkInv
  <2>. QED
    BY <1>0, <2>1 DEF NameInv
<1>6. CASE \/ PollConnected \/ ReaderCalled \/ CheckConnected \/ CallRecv \/ EndOfStream
           \/ WorkerTakesTicket \/ WorkerCalled \/ WorkerPops \/ CountFile \/ CutPathThrows \/ LeaveFile
  BY <1>1, <1>6, TaskForTheCalled DEF PollConnected, ReaderCalled, CheckConnected, CallRecv,
     EndOfStream,
     readerUnchanged, WorkerTakesTicket, WorkerCalled, WorkerPops, CountFile, CutPathThrows,
     LeaveFile,
     workerUnchanged, fileVars, netVars
<1>7. CASE ReaderPops
  <2>1. /\ deque # <<>> /\ Head(deque) = deque[1] /\ 1 \in DOMAIN deque
        /\ Head(deque) = Connected => worker = "none"
    BY <1>7, TaskForTheCalled DEF ReaderPops, ClientInv, QueueInv
  <2>2. /\ UNCHANGED <<down, server, clientID, dataSuccessfullyReceived, sent>>
        /\ worker' = IF Head(deque) = Connected THEN "ticket" ELSE worker
    BY <1>7, <2>1 DEF ReaderPops, readerUnchanged, fileVars, netVars
  <2>. QED
    BY <1>1, <2>1, <2>2
<1>8. CASE ReceiveMessage
  <2>1. /\ down # <<>> /\ down' = Tail(down) /\ down[1] = Head(down)
        /\ UNCHANGED <<server, worker, sent>>
    BY <1>0, <1>8 DEF ReceiveMessage, readerUnchanged, fileVars
  <2>2. clientID \/ down[1].kind = "ClientName" => clientID'
    BY <1>8, <2>1 DEF ReceiveMessage
  <2>3. down[1].kind = "Success" => clientID
    BY <1>0, <2>1 DEF NameInv
  <2>4. dataSuccessfullyReceived' => dataSuccessfullyReceived \/ down[1].kind = "Success"
    BY <1>8, <2>1 DEF ReceiveMessage
  <2>5. dataSuccessfullyReceived' => clientID'
    BY <1>0, <2>2, <2>3, <2>4 DEF NameInv
  <2>. QED
    BY <1>2, <2>1, <2>2, <2>3, <2>5
<1>9. CASE ReceiveShutDown
  <2>1. /\ down # <<>> /\ down' = Tail(down) /\ down[1] = Head(down)
        /\ UNCHANGED <<server, worker, sent, clientID, dataSuccessfullyReceived>>
        /\ down[1].kind = "Server-ShutDown"
    BY <1>0, <1>9 DEF ReceiveShutDown, AnswersShutDown, readerUnchanged, fileVars
  <2>. QED
    BY <1>0, <1>2, <2>1 DEF NameInv
<1>10. CASE SendBatch
  BY <1>0, <1>1, <1>10 DEF SendBatch, SendSucceeds, SendFails, workerUnchanged, netVars
<1>11. CASE AwaitSuccess
  <2>1. /\ UNCHANGED <<down, server, clientID, sent>> /\ ~dataSuccessfullyReceived'
        /\ dataSuccessfullyReceived
    BY <1>11 DEF AwaitSuccess, Acknowledged, workerUnchanged, fileVars, netVars
  <2>. QED
    BY <1>0, <2>1 DEF NameInv
<1>12. CASE Greet \/ ShutDown
  <2>1. PICK k \in {"ClientName", "Server-ShutDown"} :
           /\ down' = Append(down, Message(k)) /\ server' # "new"
           /\ server \in {"up", "closing"} \/ k = "ClientName"
    BY <1>12 DEF Greet, ShutDown
  <2>2. UNCHANGED <<worker, sent, clientID, dataSuccessfullyReceived>>
    BY <1>12 DEF Greet, ShutDown, clientUnchanged, fileVars
  <2>3. Message(k) \in DownMessage /\ Message(k).kind = k
    BY DEF Message, DownMessage
  <2>. QED
    BY <1>3, <2>1, <2>2, <2>3
<1>13. CASE Serve
  <2>1. UNCHANGED <<worker, sent, clientID, dataSuccessfullyReceived>> /\ server \in {"up", "closing"}
    BY <1>13 DEF Serve, clientUnchanged, fileVars
  <2>2. up # <<>> /\ Head(up) \in UpMessage
    BY <1>0, <1>13 DEF Serve
  <2>4. CASE Head(up).kind = "Finished"
    <3>1. down' = down /\ server' = server
      BY <1>13, <2>4 DEF Serve
    <3>. QED
      BY <1>1, <2>1, <3>1
  <2>5. CASE Head(up).kind = "Index"
    <3>1. down' = Append(down, Message("Success")) /\ server' = server
      BY <1>13, <2>5 DEF Serve
    <3>2. Message("Success") \in DownMessage
      BY DEF Message, DownMessage
    <3>. QED
      BY <1>3, <2>1, <3>1, <3>2
  <2>6. CASE Head(up).kind = "Search"
    <3>1. down' = Append(down, ReplyTo(Head(up).query)) /\ server' = server
      BY <1>13, <2>6 DEF Serve
    <3>2. ReplyTo(Head(up).query) \in DownMessage
      BY <2>2, <2>6 DEF ReplyTo, DownMessage, UpMessage
    <3>. QED
      BY <1>3, <2>1, <3>1, <3>2
  <2>. QED
    BY <1>13, <2>4, <2>5, <2>6 DEF Serve
<1>17. CASE SubWorkerLeaves
  <2>1. down' = down /\ server' = "left" /\ server # "new"
    BY <1>17 DEF SubWorkerLeaves, Leaves
  <2>2. UNCHANGED <<worker, sent, clientID, dataSuccessfullyReceived>>
    BY <1>17 DEF SubWorkerLeaves, clientUnchanged, fileVars
  <2>. QED
    BY <1>0, <2>1, <2>2 DEF NameInv
<1>14. CASE Crash
  <2>1. /\ server' = "dead" /\ (down' = down \/ down' = <<>>)
        /\ UNCHANGED <<worker, sent, clientID, dataSuccessfullyReceived>>
    BY <1>14 DEF Crash, clientUnchanged, fileVars
  <2>. QED
    BY <1>0, <2>1 DEF NameInv
<1>15. CASE UNCHANGED vars
  BY <1>1, <1>15 DEF vars, fileVars, netVars
<1>. QED
  BY <1>4, <1>5, <1>6, <1>7, <1>8, <1>9, <1>10, <1>11, <1>12, <1>13, <1>14, <1>15, <1>16, <1>17,
     StepCases

----------------------------------------------------------------------------
(* The theorems                                                            *)

\* Whatever the three threads, the server and the connection do, the invariant
\* holds: GetDataFromServer, RunLocalWorker, the commands and closeConnection
\* keep what each of them relies on.
THEOREM ClientInvariant == Spec => []ClientInv
<1>1. ClientInv /\ [Next]_vars => ClientInv'
  BY ControlTypesStep, FlagTypesStep, CommandTypesStep, QueueInvStep, TicketInvStep,
     WordsInvStep, LinkInvStep, FreshInvStep, NameInvStep DEF ClientInv
<1>. QED
  BY ClientInvInit, <1>1, PTL DEF Spec

\* Every variable keeps to its type.
THEOREM ClientTypeCorrect == Spec => []TypeOK
<1>1. ClientInv => TypeOK
  BY DEF ClientInv, TypeOK, ControlTypes, FlagTypes, CommandTypes, QueueInv, TicketInv, WordsInv,
         FreshInv, Consumer
<1>. QED
  BY ClientInvariant, <1>1, PTL

\* Neither the reader nor the worker ever takes a task from an empty deque: the
\* pop after the spinning loop of either finds the task it was called for.
THEOREM ClientPopsNonEmpty == Spec => []NeverPopsEmpty
<1>1. ClientInv => NeverPopsEmpty
  BY DEF ClientInv, ControlTypes, NeverPopsEmpty
<1>. QED
  BY ClientInvariant, <1>1, PTL

\* RunLocalWorker loses no word between two buffers: what is unsent of a file
\* when it asks for the next one fits into one buffer.
THEOREM OnlyLastUnsent == Spec => []OnlyLastBufferUnsent
<1>1. ClientInv => OnlyLastBufferUnsent
  BY BatchAssumption DEF ClientInv, WordsInv, OnlyLastBufferUnsent
<1>. QED
  BY ClientInvariant, <1>1, PTL

\* searchFiles decodes the reply to its own query or nothing, whichever thread
\* has closed the connection, and whenever the server has answered.
THEOREM AnswersAreFresh == Spec => []FreshAnswer
<1>1. ClientInv => FreshAnswer
  BY DEF ClientInv, FreshInv
<1>. QED
  BY ClientInvariant, <1>1, PTL

\* RunLocalWorker knows the client's name when it starts a file after the
\* server has acknowledged a batch of the one before.
THEOREM NamedBeforeCounted == Spec => NamedAfterAnswer
<1>1. ClientInv /\ [Next]_vars =>
         [worker = "count" /\ worker' = "fill" /\ sent # 0 => clientID]_vars
  BY DEF ClientInv, NameInv
<1>. QED
  BY ClientInvariant, <1>1, PTL DEF Spec, NamedAfterAnswer

=============================================================================
