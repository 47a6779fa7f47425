-------------------------- MODULE ServerSideEngine --------------------------
(***************************************************************************)
(* The server: the command thread, the dispatcher that accepts connections *)
(* and one sub-worker per connection.  All of them share clientList, a map *)
(* from socket descriptors to clients, without a lock, and refer to a      *)
(* connection by its descriptor, a small number that the operating system  *)
(* hands out again as soon as it is closed.                                *)
(*                                                                         *)
(* The clients are the environment: they connect, send one request at a    *)
(* time, quit whenever they like, crash, and answer the server's shutdown. *)
(* Each recv here returns one message.  One access to clientList is one    *)
(* step; what a request does to the index is the subject of SearchQuery.   *)
(***************************************************************************)
EXTENDS Integers, Sequences, FiniteSets, FiniteSetsExt, Functions

CONSTANTS
    Client,      \* the clients, each of which connects at most once
    Crashing,    \* those of them that may crash
    Fd,          \* the descriptors, enough of them that none runs out
    Self,        \* the connection of the server to itself that ends accept
    SelfEnd,     \* its other end, in the server's own descriptor table
    Free,        \* the descriptor is not open
    Asks,        \* [Client -> sets of Requests], what each client may ask for
    MaxRequests  \* bound: how many requests a client sends

Requests == {"Index", "Search", "Finished", "quit"}

ASSUME CrashingAssumption == Crashing \subseteq Client
ASSUME AsksAssumption == Asks \in [Client -> SUBSET Requests]
ASSUME ClientAssumption == IsFiniteSet(Client) /\ MaxRequests \in Nat
ASSUME FdAssumption == Fd \subseteq Nat /\ Fd # {}
ASSUME ConnectionAssumption ==
    /\ Self \notin Client /\ SelfEnd \notin Client /\ Free \notin Client
    /\ Cardinality({Self, SelfEnd, Free}) = 3

VARIABLES
    server,      \* "up", "ended", "killed" by a signal, "aborted" by the runtime
    quitCommandExecuted,
    op,          \* where the command thread is
    selfFd,      \* sockfd of OnServerQuitEvent
    disp,        \* where the dispatcher is
    clientSock,  \* client_sock, the descriptor accept returned last
    addr,        \* addr and port, the client accept returned last
    bufTesting,  \* whether the dispatcher's buffer is allocated
    threadLocalID,
    threads,     \* the clients for which a sub-worker was started
    cursor,      \* the iterator of SendQuitEventAllClients
    notified,    \* the descriptors it has passed
    clientList,  \* [descriptors -> [client, id]]
    table,       \* the descriptor table of the process
    sub,         \* where the sub-worker of each client is
    sock,        \* the descriptor that sub-worker was given
    peer,        \* the connection it is receiving from
    backlog,     \* connections not yet accepted
    client,      \* where each client is
    sent,        \* how many requests a client has sent
    inbox,       \* messages on their way to the server
    told,        \* Server-ShutDown is on its way to the client
    reset        \* the connection of a client that is gone was reset

commandVars == <<quitCommandExecuted, op, selfFd>>
acceptVars == <<clientSock, addr, bufTesting, threadLocalID, threads, cursor, notified>>
subVars == <<sub, sock, peer>>
clientVars == <<client, sent, inbox, told, reset>>
vars == <<server, commandVars, disp, acceptVars, subVars, clientVars, clientList,
          table, backlog>>

Connection == Client \cup {Self, SelfEnd, Free}

\* The types of the state; numbers of clients stay below the next one.
TypeOK ==
    /\ server \in {"up", "ended", "killed", "aborted", "undefined"}
    /\ quitCommandExecuted \in BOOLEAN
    /\ op \in {"initialize", "prompt", "connect", "ghost", "join", "unwoken"}
    /\ disp \in {"start", "failed", "accept", "greet", "insert", "spawn", "notify", "next",
                 "join", "done"}
    /\ clientSock \in Fd /\ selfFd \in Fd
    /\ addr \in Connection
    /\ bufTesting \in BOOLEAN
    /\ threadLocalID \in 1..(Cardinality(Client) + 1)
    /\ threads \subseteq Client
    /\ cursor \in Fd /\ notified \subseteq Fd
    /\ DOMAIN clientList \subseteq Fd
    /\ \A fd \in DOMAIN clientList :
          clientList[fd].client \in Client \cup {Self} /\ clientList[fd].id \in Int
    /\ table \in [Fd -> Connection]
    /\ sub \in [Client -> {"none", "loop", "recv", "index", "search",
                           "close", "erase", "closeSearch", "eraseSearch", "exit"}]
    /\ sock \in [Client -> Fd]
    /\ peer \in [Client -> Connection]
    /\ backlog \in Seq(Client \cup {Self})
    /\ client \in [Client -> {"away", "idle", "waiting", "gone"}]
    /\ sent \in [Client -> 0..MaxRequests]
    /\ told \in [Client -> BOOLEAN] /\ reset \in [Client -> BOOLEAN]

\* initialize has started the dispatcher.
Init ==
    /\ server = "up"
    /\ quitCommandExecuted = FALSE
    /\ op = "initialize"
    /\ disp = "start"
    /\ clientSock = Min(Fd)
    /\ selfFd = Min(Fd)
    /\ addr = Free
    /\ bufTesting = TRUE
    /\ threadLocalID = 1
    /\ threads = {}
    /\ cursor = Min(Fd)
    /\ notified = {}
    /\ clientList = [fd \in {} |-> 0]
    /\ table = [fd \in Fd |-> Free]
    /\ sub = [c \in Client |-> "none"]
    /\ sock = [c \in Client |-> Min(Fd)]
    /\ peer = [c \in Client |-> Free]
    /\ backlog = <<>>
    /\ client = [c \in Client |-> "away"]
    /\ sent = [c \in Client |-> 0]
    /\ inbox = [c \in Client |-> <<>>]
    /\ told = [c \in Client |-> FALSE]
    /\ reset = [c \in Client |-> FALSE]

----------------------------------------------------------------------------
(* Descriptors and connections                                             *)

Gone(k) == k \in Client /\ client[k] = "gone"

FreeFds == {fd \in Fd : table[fd] = Free}

\* close: closing a descriptor that is not open does nothing.
CloseFd(fd) == table' = [table EXCEPT ![fd] = Free]

\* The message is taken by the operating system.  A client reads its name and
\* the reply to its request right away; sending to a client that is gone is
\* answered by a reset, unless its reader was still in recv when it closed.
SendSucceeds(fd, m) ==
    LET k == table[fd]
        up == k \in Client /\ ~Gone(k)
    IN  /\ k # Free
        /\ client' = IF up /\ m \in {"Success", "Success-Search"}
                     THEN [client EXCEPT ![k] = "idle"] ELSE client
        /\ told' = IF up /\ m = "Server-ShutDown"
                   THEN [told EXCEPT ![k] = TRUE] ELSE told
        /\ \E answered \in BOOLEAN :
              reset' = IF Gone(k) /\ answered THEN [reset EXCEPT ![k] = TRUE] ELSE reset

Resetting(fd) == table[fd] \in Client /\ Gone(table[fd]) /\ reset[table[fd]]

\* send returns -1: the descriptor is closed or the connection was reset.
SendFails(fd) ==
    /\ table[fd] = Free \/ Resetting(fd)
    /\ UNCHANGED <<client, told, reset>>

\* After a reset send may also raise SIGPIPE, which the server does not handle.
SignalKills(fd) ==
    /\ Resetting(fd)
    /\ server' = "killed"
    /\ UNCHANGED <<commandVars, disp, acceptVars, subVars, clientVars, clientList,
                   table, backlog>>

SetEntry(fd, c, id) ==
    clientList' = [g \in DOMAIN clientList \cup {fd} |->
                      IF g = fd THEN [client |-> c, id |-> id] ELSE clientList[g]]

EraseEntry(fd) == clientList' = Restrict(clientList, DOMAIN clientList \ {fd})

----------------------------------------------------------------------------
(* runDispatcherWithoutQueue                                               *)

\* The socket is bound and listens, and threadLaunched is set.
Listen ==
    /\ disp = "start"
    /\ disp' = "accept"
    /\ UNCHANGED <<server, commandVars, acceptVars, subVars, clientVars, clientList,
                   table, backlog>>

\* One of the calls before fails: the dispatcher returns, threadLaunched unset.
ListenFails ==
    /\ disp = "start"
    /\ disp' = "failed"
    /\ UNCHANGED <<server, commandVars, acceptVars, subVars, clientVars, clientList,
                   table, backlog>>

Listening == disp \notin {"start", "failed"}

\* accept returns the lowest free descriptor.  A client that comes when quit
\* was entered is neither served nor closed.
Accept ==
    /\ disp = "accept"
    /\ backlog # <<>>
    /\ FreeFds # {}
    /\ clientSock' = Min(FreeFds)
    /\ addr' = Head(backlog)
    /\ table' = [table EXCEPT ![Min(FreeFds)] = Head(backlog)]
    /\ backlog' = Tail(backlog)
    /\ disp' = IF quitCommandExecuted THEN "notify" ELSE "greet"
    /\ UNCHANGED <<server, commandVars, bufTesting, threadLocalID, threads, cursor, notified,
                   subVars, clientVars, clientList>>

\* accept returns -1 and the loop starts over: a connection was aborted before it
\* was accepted, or there was another error, that leaves the backlog as it is.
AcceptFails ==
    /\ disp = "accept"
    /\ backlog # <<>>
    /\ \/ UNCHANGED backlog
       \/ Gone(Head(backlog)) /\ backlog' = Tail(backlog)
    /\ disp' = IF quitCommandExecuted THEN "notify" ELSE "accept"
    /\ UNCHANGED <<server, commandVars, acceptVars, subVars, clientVars, clientList, table>>

\* The client is sent its name, "ClientName: client" and its number.
SendClientName ==
    /\ disp = "greet"
    /\ SendSucceeds(clientSock, "ClientName")
    /\ disp' = "insert"
    /\ UNCHANGED <<server, commandVars, acceptVars, subVars, client, sent, inbox,
                   clientList, table, backlog>>

\* The dispatcher deletes its buffer and leaves the loop for good, although
\* quit was not entered.
ClientNameFails ==
    /\ disp = "greet"
    /\ SendFails(clientSock)
    /\ CloseFd(clientSock)
    /\ bufTesting' = FALSE
    /\ disp' = "notify"
    /\ UNCHANGED <<server, commandVars, clientSock, addr, threadLocalID, threads,
                   cursor, notified, subVars, sent, inbox, clientList, backlog>>

\* clientList[client_sock] = ...: an entry that is still there is overwritten.
InsertClient ==
    /\ disp = "insert"
    /\ SetEntry(clientSock, addr, threadLocalID)
    /\ disp' = "spawn"
    /\ UNCHANGED <<server, commandVars, acceptVars, subVars, clientVars, table,
                   backlog>>

\* Variant: the number is counted up twice.
SpawnCountingTwice ==
    /\ disp = "spawn"
    /\ threadLocalID' = threadLocalID + 2
    /\ threads' = threads \cup {addr}
    /\ sub' = [sub EXCEPT ![addr] = "loop"]
    /\ sock' = [sock EXCEPT ![addr] = clientSock]
    /\ disp' = IF quitCommandExecuted THEN "notify" ELSE "accept"
    /\ UNCHANGED <<server, commandVars, clientSock, addr, bufTesting, cursor, notified,
                   peer, clientVars, clientList, table, backlog>>

\* The dispatcher starts the sub-worker and waits until it runs; then it looks at
\* the condition of its loop.
SpawnSubWorker ==
    /\ disp = "spawn"
    /\ threadLocalID' = threadLocalID + 1
    /\ threads' = threads \cup {addr}
    /\ sub' = [sub EXCEPT ![addr] = "loop"]
    /\ sock' = [sock EXCEPT ![addr] = clientSock]
    /\ disp' = IF quitCommandExecuted THEN "notify" ELSE "accept"
    /\ UNCHANGED <<server, commandVars, clientSock, addr, bufTesting, cursor, notified,
                   peer, clientVars, clientList, table, backlog>>

----------------------------------------------------------------------------
(* SendQuitEventAllClients, by the dispatcher                              *)

Pending == DOMAIN clientList \ notified

\* Variant: the descriptor is closed without Server-ShutDown.
CloseSilently ==
    /\ disp = "notify"
    /\ \E fd \in Pending : cursor' = fd /\ CloseFd(fd)
    /\ notified' = notified \cup {cursor'}
    /\ disp' = "next"
    /\ UNCHANGED <<server, commandVars, clientSock, addr, bufTesting, threadLocalID,
                   threads, subVars, clientVars, clientList, backlog>>

\* The next entry of the map: its connection is notified, an error of send only
\* being printed, and its descriptor closed.
NotifyClient ==
    /\ disp = "notify"
    /\ \E fd \in Pending :
          /\ cursor' = fd
          /\ notified' = notified \cup {fd}
          /\ SendSucceeds(fd, "Server-ShutDown") \/ SendFails(fd)
          /\ CloseFd(fd)
    /\ disp' = "next"
    /\ UNCHANGED <<server, commandVars, clientSock, addr, bufTesting, threadLocalID,
                   threads, subVars, sent, inbox, clientList, backlog>>

\* ++it is undefined behaviour when a sub-worker has erased the entry meanwhile:
\* the model says nothing of what the server does afterwards.
AdvanceIterator ==
    /\ disp = "next"
    /\ disp' = "notify"
    /\ server' = IF cursor \in DOMAIN clientList THEN server ELSE "undefined"
    /\ UNCHANGED <<commandVars, acceptVars, subVars, clientVars, clientList, table,
                   backlog>>

\* The server's own entry may be missed when it is inserted during the walk.
EndOfClients ==
    /\ disp = "notify"
    /\ \A fd \in Pending : clientList[fd].client = Self
    /\ disp' = "join"
    /\ UNCHANGED <<server, commandVars, acceptVars, subVars, clientVars, clientList,
                   table, backlog>>

\* All sub-workers are joined and the buffer is deleted; deleting it a second
\* time aborts.
JoinSubWorkers ==
    /\ disp = "join"
    /\ \A c \in threads : sub[c] = "exit"
    /\ IF bufTesting THEN UNCHANGED server ELSE server' = "aborted"
    /\ disp' = "done"
    /\ UNCHANGED <<commandVars, acceptVars, subVars, clientVars, clientList, table,
                   backlog>>

----------------------------------------------------------------------------
(* The command thread: initialize and shutdown                             *)

\* initialize spins until threadLaunched is set.
Initialized ==
    /\ op = "initialize"
    /\ Listening
    /\ op' = "prompt"
    /\ UNCHANGED <<server, quitCommandExecuted, selfFd, disp, acceptVars, subVars, clientVars,
                   clientList, table, backlog>>

\* quit was entered.
Shutdown ==
    /\ op = "prompt"
    /\ quitCommandExecuted' = TRUE
    /\ op' = "connect"
    /\ UNCHANGED <<server, selfFd, disp, acceptVars, subVars, clientVars, clientList, table,
                   backlog>>

\* OnServerQuitEvent: the server connects to itself, which ends a pending accept.
ConnectToSelf ==
    /\ op = "connect"
    /\ FreeFds # {}
    /\ selfFd' = Min(FreeFds)
    /\ table' = [table EXCEPT ![Min(FreeFds)] = SelfEnd]
    /\ backlog' = Append(backlog, Self)
    /\ op' = "ghost"
    /\ UNCHANGED <<server, quitCommandExecuted, disp, acceptVars, subVars, clientVars,
                   clientList>>

\* The address is not found or no connection succeeds: shutdown goes on, and
\* joins a dispatcher that nothing has woken.
ConnectToSelfFails ==
    /\ op = "connect"
    /\ op' = "unwoken"
    /\ UNCHANGED <<server, quitCommandExecuted, selfFd, disp, acceptVars, subVars, clientVars,
                   clientList, table, backlog>>

\* clientList[sockfd] = ...: the server lists itself as a client.
InsertSelf ==
    /\ op = "ghost"
    /\ SetEntry(selfFd, Self, -1)
    /\ op' = "join"
    /\ UNCHANGED <<server, quitCommandExecuted, selfFd, disp, acceptVars, subVars, clientVars,
                   table, backlog>>

\* The program ends.
JoinDispatcher ==
    /\ op \in {"join", "unwoken"}
    /\ disp = "done"
    /\ server' = "ended"
    /\ UNCHANGED <<commandVars, disp, acceptVars, subVars, clientVars,
                   clientList, table, backlog>>

----------------------------------------------------------------------------
(* runSubWorker: the sub-worker started for client c                       *)

\* recv fails on a closed descriptor.  Otherwise it waits on the connection the
\* descriptor stands for now, and keeps waiting when the descriptor is closed.
CallRecv(c) ==
    /\ sub[c] = "loop"
    /\ peer' = [peer EXCEPT ![c] = table[sock[c]]]
    /\ sub' = [sub EXCEPT ![c] = IF table[sock[c]] = Free THEN "close" ELSE "recv"]
    /\ UNCHANGED <<server, commandVars, disp, acceptVars, sock,
                   clientVars, clientList, table, backlog>>

Receives(c, m) ==
    LET k == peer[c]
    IN  /\ sub[c] = "recv"
        /\ k \in Client
        /\ inbox[k] # <<>>
        /\ Head(inbox[k]) = m
        /\ inbox' = [inbox EXCEPT ![k] = Tail(@)]
        /\ peer' = [peer EXCEPT ![c] = Free]
        /\ UNCHANGED <<commandVars, disp, acceptVars, sock,
                       client, sent, told, reset, clientList, table, backlog>>

ReceiveRequest(c) ==
    /\ \/ Receives(c, "Index") /\ sub' = [sub EXCEPT ![c] = "index"]
       \/ Receives(c, "Search") /\ sub' = [sub EXCEPT ![c] = "search"]
       \/ Receives(c, "Finished") /\ sub' = [sub EXCEPT ![c] = "loop"]
    /\ UNCHANGED server

\* Variant: the loop is not left after the connection was given up.
ReceiveQuitAndStay(c) ==
    /\ Receives(c, "quit")
    /\ server' = IF sock[c] \in DOMAIN clientList THEN server ELSE "killed"
    /\ sub' = [sub EXCEPT ![c] = "closeSearch"]

\* The address is read through clientList.find(sock), which is a null pointer
\* when the entry is missing.
ReceiveQuit(c) ==
    /\ Receives(c, "quit")
    /\ server' = IF sock[c] \in DOMAIN clientList THEN server ELSE "killed"
    /\ sub' = [sub EXCEPT ![c] = "close"]

\* The loop is left: the descriptor stays open and the entry in the list.
ReceiveShutDownSuccessful(c) ==
    /\ Receives(c, "Client-ShutDown-Successful")
    /\ sub' = [sub EXCEPT ![c] = "exit"]
    /\ UNCHANGED server

\* The client has gone without quit: recv returns 0, which starts the loop
\* over, or -1 after a reset.
RecvEndOfFile(c) ==
    /\ sub[c] = "recv"
    /\ Gone(peer[c])
    /\ inbox[peer[c]] = <<>>
    /\ sub' = [sub EXCEPT ![c] = IF reset[peer[c]] THEN "close" ELSE "loop"]
    /\ peer' = [peer EXCEPT ![c] = Free]
    /\ UNCHANGED <<server, commandVars, disp, acceptVars, sock,
                   clientVars, clientList, table, backlog>>

\* "Success" is sent before the postings are inserted; when it cannot be sent
\* the connection is given up.
ReplyToIndex(c) ==
    /\ sub[c] = "index"
    /\ \/ SendSucceeds(sock[c], "Success") /\ sub' = [sub EXCEPT ![c] = "loop"]
       \/ SendFails(sock[c]) /\ sub' = [sub EXCEPT ![c] = "close"]
    /\ UNCHANGED <<server, commandVars, disp, acceptVars, sock, peer,
                   sent, inbox, clientList, table, backlog>>

\* PerformWordsSearch gives the connection up by itself, and its caller goes
\* on receiving.
ReplyToSearch(c) ==
    /\ sub[c] = "search"
    /\ \/ SendSucceeds(sock[c], "Success-Search") /\ sub' = [sub EXCEPT ![c] = "loop"]
       \/ SendFails(sock[c]) /\ sub' = [sub EXCEPT ![c] = "closeSearch"]
    /\ UNCHANGED <<server, commandVars, disp, acceptVars, sock, peer,
                   sent, inbox, clientList, table, backlog>>

CloseSocket(c) ==
    /\ \/ sub[c] = "close" /\ sub' = [sub EXCEPT ![c] = "erase"]
       \/ sub[c] = "closeSearch" /\ sub' = [sub EXCEPT ![c] = "eraseSearch"]
    /\ CloseFd(sock[c])
    /\ UNCHANGED <<server, commandVars, disp, acceptVars, sock, peer,
                   clientVars, clientList, backlog>>

\* Variant: no erase.
ForgetErase(c) ==
    /\ \/ sub[c] = "erase" /\ sub' = [sub EXCEPT ![c] = "exit"]
       \/ sub[c] = "eraseSearch" /\ sub' = [sub EXCEPT ![c] = "loop"]
    /\ UNCHANGED <<server, commandVars, disp, acceptVars, sock, peer,
                   clientVars, clientList, table, backlog>>

\* Variant: client_sock of the dispatcher is captured by reference.
EraseByReference(c) ==
    /\ \/ sub[c] = "erase" /\ sub' = [sub EXCEPT ![c] = "exit"]
       \/ sub[c] = "eraseSearch" /\ sub' = [sub EXCEPT ![c] = "loop"]
    /\ EraseEntry(clientSock)
    /\ UNCHANGED <<server, commandVars, disp, acceptVars, sock, peer, clientVars,
                   table, backlog>>

\* clientList.erase(sock), after the descriptor was closed.
EraseClient(c) ==
    /\ \/ sub[c] = "erase" /\ sub' = [sub EXCEPT ![c] = "exit"]
       \/ sub[c] = "eraseSearch" /\ sub' = [sub EXCEPT ![c] = "loop"]
    /\ EraseEntry(sock[c])
    /\ UNCHANGED <<server, commandVars, disp, acceptVars, sock, peer,
                   clientVars, table, backlog>>

----------------------------------------------------------------------------
(* The clients                                                             *)

\* openConnection: the connection waits to be accepted.
Connect(c) ==
    /\ client[c] = "away"
    /\ Listening
    /\ client' = [client EXCEPT ![c] = "idle"]
    /\ backlog' = Append(backlog, c)
    /\ UNCHANGED <<server, commandVars, disp, acceptVars, subVars, sent, inbox, told,
                   reset, clientList, table>>

\* Index and search requests are answered before the next is sent.
SendRequest(c, m) ==
    /\ client[c] = "idle"
    /\ sent[c] < MaxRequests
    /\ sent' = [sent EXCEPT ![c] = @ + 1]
    /\ inbox' = [inbox EXCEPT ![c] = Append(@, m)]
    /\ client' = [client EXCEPT ![c] = IF m = "Finished" THEN "idle" ELSE "waiting"]
    /\ UNCHANGED <<server, commandVars, disp, acceptVars, subVars, told, reset,
                   clientList, table, backlog>>

\* closeConnection: send "quit" and close, even while a worker still awaits
\* the answer to its request.
SendQuit(c) ==
    /\ client[c] \in {"idle", "waiting"}
    /\ inbox' = [inbox EXCEPT ![c] = Append(@, "quit")]
    /\ client' = [client EXCEPT ![c] = "gone"]
    /\ UNCHANGED <<server, commandVars, disp, acceptVars, subVars, sent, told, reset,
                   clientList, table, backlog>>

\* The process of the client ends.  If it has not read all it was sent the
\* operating system resets the connection at once.
Crash(c) ==
    /\ c \in Crashing
    /\ client[c] \in {"idle", "waiting"}
    /\ client' = [client EXCEPT ![c] = "gone"]
    /\ \E unread \in BOOLEAN : reset' = [reset EXCEPT ![c] = unread]
    /\ UNCHANGED <<server, commandVars, disp, acceptVars, subVars, sent, inbox, told,
                   clientList, table, backlog>>

\* GetDataFromServer: the shutdown of the server is answered, and the client
\* closes.
AnswerShutDown(c) ==
    /\ client[c] \in {"idle", "waiting"}
    /\ told[c]
    /\ inbox' = [inbox EXCEPT ![c] = Append(@, "Client-ShutDown-Successful")]
    /\ client' = [client EXCEPT ![c] = "gone"]
    /\ UNCHANGED <<server, commandVars, disp, acceptVars, subVars, sent, told, reset,
                   clientList, table, backlog>>

----------------------------------------------------------------------------

RunDispatcher ==
    \/ Listen \/ ListenFails \/ Accept \/ AcceptFails \/ SendClientName \/ ClientNameFails
    \/ InsertClient \/ SpawnSubWorker
    \/ NotifyClient \/ AdvanceIterator \/ EndOfClients
    \/ JoinSubWorkers
    \/ disp = "greet" /\ SignalKills(clientSock)
    \/ disp = "notify" /\ \E fd \in Pending : SignalKills(fd)

RunSubWorker(c) ==
    \/ CallRecv(c)
    \/ ReceiveRequest(c) \/ ReceiveQuit(c) \/ ReceiveShutDownSuccessful(c)
    \/ RecvEndOfFile(c) \/ ReplyToIndex(c) \/ ReplyToSearch(c)
    \/ CloseSocket(c) \/ EraseClient(c)
    \/ sub[c] \in {"index", "search"} /\ SignalKills(sock[c])

RunCommand ==
    Initialized \/ ConnectToSelf \/ ConnectToSelfFails \/ InsertSelf \/ JoinDispatcher

RunClient(c) ==
    \/ Connect(c)
    \/ \E m \in Asks[c] \ {"quit"} : SendRequest(c, m)
    \/ "quit" \in Asks[c] /\ SendQuit(c)
    \/ Crash(c)
    \/ AnswerShutDown(c)

Up == server = "up"

Next ==
    \/ Up /\ RunDispatcher
    \/ Up /\ Shutdown
    \/ Up /\ RunCommand
    \/ \E c \in Client : Up /\ (RunSubWorker(c) \/ RunClient(c))

Spec == Init /\ [][Next]_vars

\* The threads of the server keep running, and clients that are up read what
\* they are sent; no client and no user has to do anything else.
FairSpec ==
    /\ Spec
    /\ WF_vars(Up /\ RunDispatcher)
    /\ WF_vars(Up /\ RunCommand)
    /\ \A c \in Client : WF_vars(Up /\ RunSubWorker(c)) /\ WF_vars(Up /\ AnswerShutDown(c))

----------------------------------------------------------------------------
(* Properties                                                              *)

\* A sub-worker that serves a client, not giving it up.
Serving(c) == sub[c] \in {"loop", "recv", "index", "search"} /\ ~Gone(c)

\* The descriptor was given to a sub-worker of another client too, at any time.
Reused(fd, c) == \E d \in threads \ {c} : sock[d] = fd

\* The dispatcher is in its loop: it has not begun to notify the clients.
Accepting == disp \in {"accept", "greet", "insert", "spawn"}

\* A served client is listed under its descriptor as long as the dispatcher
\* accepts connections and quit was not entered, unless the operating system
\* gave it the descriptor of a client before it, whose sub-worker closes first
\* and erases afterwards.
ListedUnlessReused ==
    Accepting /\ ~quitCommandExecuted =>
        \A c \in threads :
            Serving(c) =>
                \/ sock[c] \in DOMAIN clientList /\ clientList[sock[c]].client = c
                \/ Reused(sock[c], c)

\* No entry outlives its connection: as long as the server accepts connections,
\* the connection of every entry is open or its sub-worker is about to erase it,
\* unless its descriptor was reused.
EntriesAreConnected ==
    Up /\ Accepting =>
        \A fd \in DOMAIN clientList :
            LET c == clientList[fd].client
            IN  c \in Client => \/ table[fd] = c
                               \/ sub[c] \in {"erase", "eraseSearch"}
                               \/ Reused(fd, c)

\* While no connection was reset and quit is not entered, the descriptor a
\* sub-worker receives from, sends to or closes is the one of its own client,
\* although descriptors are reused and clients quit or crash.
OwnDescriptor ==
    (\A c \in Client : ~reset[c]) /\ ~quitCommandExecuted =>
        \A c \in threads :
            sub[c] \in {"loop", "recv", "index", "search", "close"} => table[sock[c]] = c

\* The sub-worker waits for messages of a connection that is not its own.
Strays(c) == sub[c] = "recv" /\ peer[c] # c

\* The server could not connect to itself, and no client comes that would end
\* the pending accept instead.
NothingWakesAccept == op = "unwoken" /\ disp = "accept" /\ backlog = <<>>

\* shutdown ends the server, unless undefined behaviour or a signal has ended
\* it before, or nothing wakes accept, or a descriptor was reused: two
\* sub-workers were given the same one, or one receives from what its descriptor
\* stands for by now.
ShutdownEnds ==
    op = "connect"
    ~> \/ ~Up
       \/ NothingWakesAccept
       \/ \E c \in threads : Reused(sock[c], c) \/ Strays(c)

\* "list the connected clients on the server" (README.md:106).
ServedAreListed ==
    \A c \in threads :
        Serving(c) /\ ~quitCommandExecuted =>
            sock[c] \in DOMAIN clientList /\ clientList[sock[c]].client = c

============================================================================
