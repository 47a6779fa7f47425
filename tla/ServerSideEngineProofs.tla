----------------------- MODULE ServerSideEngineProofs -----------------------
(***************************************************************************)
(* Theorems about the connections of the server, for any number of clients *)
(* that ask for anything and crash at any time, and for any descriptors.   *)
(***************************************************************************)
EXTENDS ServerSideEngine, FiniteSetTheorems, WellFoundedInduction, TLAPS

\* A client was accepted and its sub-worker is not yet started.
Greeting == disp \in {"greet", "insert", "spawn"}

\* Every client is in one place: away, in the backlog, accepted or served.
BacklogInv ==
    /\ \A i \in DOMAIN backlog :
          /\ backlog[i] = Self => quitCommandExecuted
          /\ backlog[i] \in Client => /\ client[backlog[i]] # "away"
                                      /\ backlog[i] \notin threads
                                      /\ Greeting => backlog[i] # addr
    /\ \A i, j \in DOMAIN backlog : backlog[i] = backlog[j] /\ backlog[i] \in Client => i = j

AcceptedInv == Greeting => addr \in Client /\ addr \notin threads /\ client[addr] # "away"

ServedInv ==
    /\ \A c \in threads : client[c] # "away"
    /\ \A c \in Client : sub[c] # "none" <=> c \in threads
    /\ threadLocalID = Cardinality(threads) + 1

\* The server connects to itself after quit was entered.
QuitInv == op \notin {"initialize", "prompt"} => quitCommandExecuted

AcceptInv == BacklogInv /\ AcceptedInv /\ ServedInv /\ QuitInv

\* The dispatcher is in its loop or has not reached it.
Before == disp \in {"start", "failed"} \/ Accepting

\* No descriptor is closed but by the sub-worker it belongs to, and none of them
\* by PerformWordsSearch.
OwnInv ==
    /\ \A c \in Client : reset[c] => client[c] = "gone"
    /\ (\A c \in Client : ~reset[c]) /\ ~quitCommandExecuted =>
          /\ Before
          /\ OwnDescriptor
          /\ \A c \in threads : sub[c] \notin {"closeSearch", "eraseSearch"}
          /\ Greeting => table[clientSock] = addr

\* An entry is made before the sub-worker is started and stays under the
\* descriptor that sub-worker is given.
EntryInv ==
    Before =>
        /\ \A fd \in DOMAIN clientList :
              LET c == clientList[fd].client
              IN  c \in Client =>
                      /\ \/ table[fd] = c
                         \/ sub[c] \in {"erase", "eraseSearch"}
                         \/ Reused(fd, c)
                      /\ c \in threads => sock[c] = fd
                      /\ c \notin threads => disp = "spawn" /\ c = addr /\ fd = clientSock
        /\ Greeting => table[clientSock] = addr \/ Reused(clientSock, addr)

\* The client of the sub-worker is gone or its descriptor was given to another.
Lost(c) == Gone(c) \/ Reused(sock[c], c)

\* Only a sub-worker whose client is lost goes on receiving after it has erased
\* an entry, and the entry made last is overwritten only for a client whose
\* sub-worker is past closing.
ListInv ==
    Before /\ ~quitCommandExecuted =>
        /\ \A c \in threads :
              /\ sub[c] \in {"loop", "recv", "index", "search"} =>
                    \/ sock[c] \in DOMAIN clientList /\ clientList[sock[c]].client = c
                    \/ Lost(c)
              /\ sub[c] \in {"loop", "recv", "index", "search", "close", "closeSearch"} =>
                    table[sock[c]] = c \/ Lost(c)
              /\ sub[c] \in {"closeSearch", "eraseSearch"} => Lost(c)
              /\ Greeting /\ sock[c] = clientSock => sub[c] \in {"erase", "exit"} \/ Lost(c)
        /\ disp = "spawn" =>
              \/ clientSock \in DOMAIN clientList /\ clientList[clientSock].client = addr
              \/ Reused(clientSock, addr)

ServerInv == TypeOK /\ AcceptInv /\ OwnInv /\ EntryInv /\ ListInv

----------------------------------------------------------------------------
(* Descriptors                                                             *)

LEMMA MinOfDescriptors ==
    ASSUME NEW S \in SUBSET Fd, S # {}
    PROVE  Min(S) \in S
<1>1. S \in SUBSET Nat
  BY FdAssumption
<1>2. PICK x \in S : \A y \in S : <<y, x>> \notin OpToRel(<, Nat)
  BY <1>1, NatLessThanWellFounded, WFMin
<1>3. \A y \in S : ~(y < x)
  BY <1>1, <1>2, Zenon DEF OpToRel
<1>4. \A y \in S : x <= y
  BY <1>1, <1>3
<1>. QED
  BY <1>4 DEF Min

\* What is free has no client.
LEMMA FreeDescriptor ==
    ASSUME FreeFds # {}
    PROVE  Min(FreeFds) \in Fd /\ table[Min(FreeFds)] = Free
  BY MinOfDescriptors DEF FreeFds

\* A message changes the client it is for and no other.
LEMMA SendEffect ==
    ASSUME TypeOK, NEW fd \in Fd, NEW m, SendSucceeds(fd, m) \/ SendFails(fd)
    PROVE  /\ client' \in [Client -> {"away", "idle", "waiting", "gone"}]
           /\ told' \in [Client -> BOOLEAN]
           /\ reset' \in [Client -> BOOLEAN]
           /\ \A c \in Client : /\ client[c] = "gone" <=> client'[c] = "gone"
                                /\ client[c] # "away" => client'[c] # "away"
                                /\ reset[c] => reset'[c]
                                /\ reset'[c] => reset[c] \/ client[c] = "gone"
<1>1. CASE SendSucceeds(fd, m)
  BY <1>1, ConnectionAssumption DEF TypeOK, SendSucceeds, Gone
<1>2. CASE SendFails(fd)
  BY <1>2 DEF TypeOK, SendFails
<1>. QED
  BY <1>1, <1>2

\* SIGPIPE changes nothing else.
LEMMA StepCases ==
    ASSUME Next
    PROVE  \/ \E fd : SignalKills(fd)
           \/ Listen \/ ListenFails \/ Accept \/ AcceptFails \/ SendClientName \/ ClientNameFails
           \/ InsertClient \/ SpawnSubWorker
           \/ NotifyClient \/ AdvanceIterator \/ EndOfClients \/ JoinSubWorkers
           \/ Initialized \/ Shutdown \/ ConnectToSelf \/ ConnectToSelfFails \/ InsertSelf
           \/ JoinDispatcher
           \/ \E c \in Client :
                 \/ CallRecv(c) \/ ReceiveRequest(c) \/ ReceiveQuit(c)
                 \/ ReceiveShutDownSuccessful(c) \/ RecvEndOfFile(c)
                 \/ ReplyToIndex(c) \/ ReplyToSearch(c) \/ CloseSocket(c) \/ EraseClient(c)
                 \/ Connect(c) \/ (\E m : SendRequest(c, m)) \/ SendQuit(c)
                 \/ Crash(c) \/ AnswerShutDown(c)
  BY DEF Next, RunDispatcher, RunSubWorker, RunCommand, RunClient

----------------------------------------------------------------------------
(* The types                                                               *)

ThreadTypes ==
    /\ server \in {"up", "ended", "killed", "aborted", "undefined"}
    /\ quitCommandExecuted \in BOOLEAN
    /\ op \in {"initialize", "prompt", "connect", "ghost", "join", "unwoken"}
    /\ disp \in {"start", "failed", "accept", "greet", "insert", "spawn", "notify", "next",
                 "join", "done"}
    /\ selfFd \in Fd
    /\ bufTesting \in BOOLEAN

AcceptTypes ==
    /\ clientSock \in Fd
    /\ addr \in Connection
    /\ threadLocalID \in 1..(Cardinality(Client) + 1)
    /\ threads \subseteq Client
    /\ cursor \in Fd /\ notified \subseteq Fd

ListTypes ==
    /\ DOMAIN clientList \subseteq Fd
    /\ \A fd \in DOMAIN clientList :
          clientList[fd].client \in Client \cup {Self} /\ clientList[fd].id \in Int

PlaceTypes ==
    /\ table \in [Fd -> Connection]
    /\ sub \in [Client -> {"none", "loop", "recv", "index", "search",
                           "close", "erase", "closeSearch", "eraseSearch", "exit"}]
    /\ sock \in [Client -> Fd]
    /\ peer \in [Client -> Connection]
    /\ backlog \in Seq(Client \cup {Self})

ClientTypes ==
    /\ client \in [Client -> {"away", "idle", "waiting", "gone"}]
    /\ sent \in [Client -> 0..MaxRequests]
    /\ told \in [Client -> BOOLEAN] /\ reset \in [Client -> BOOLEAN]

LEMMA Types ==
    /\ TypeOK <=> ThreadTypes /\ AcceptTypes /\ ListTypes /\ PlaceTypes /\ ClientTypes
    /\ TypeOK' <=> ThreadTypes' /\ AcceptTypes' /\ ListTypes' /\ PlaceTypes' /\ ClientTypes'
  BY DEF TypeOK, ThreadTypes, AcceptTypes, ListTypes, PlaceTypes, ClientTypes

LEMMA TypeOKInit == Init => TypeOK
<1>. SUFFICES ASSUME Init PROVE TypeOK
  OBVIOUS
<1>. USE DEF Init
<1>1. Min(Fd) \in Fd
  BY MinOfDescriptors, FdAssumption
<1>2. ThreadTypes
  BY <1>1 DEF ThreadTypes
<1>3. AcceptTypes
  <2>1. 1 \in 1..(Cardinality(Client) + 1)
    BY ClientAssumption, FS_CardinalityType
  <2>. QED
    BY <1>1, <2>1 DEF AcceptTypes, Connection
<1>4. ListTypes
  BY DEF ListTypes
<1>5. PlaceTypes
  BY <1>1 DEF PlaceTypes, Connection
<1>6. ClientTypes
  <2>1. 0 \in 0..MaxRequests
    BY ClientAssumption
  <2>. QED
    BY <2>1 DEF ClientTypes
<1>. QED
  BY <1>2, <1>3, <1>4, <1>5, <1>6, Types

LEMMA ThreadTypesStep == TypeOK /\ [Next]_vars => ThreadTypes'
<1>. SUFFICES ASSUME TypeOK, [Next]_vars PROVE ThreadTypes'
  OBVIOUS
<1>. USE DEF ThreadTypes, commandVars, acceptVars
<1>0. ThreadTypes
  BY Types
<1>1. CASE UNCHANGED vars
  BY <1>0, <1>1 DEF vars
<1>2. CASE \/ Listen \/ ListenFails \/ AcceptFails \/ AdvanceIterator \/ EndOfClients
           \/ JoinSubWorkers \/ Initialized \/ ConnectToSelfFails \/ Shutdown \/ JoinDispatcher
  BY <1>0, <1>2 DEF Listen, ListenFails, AcceptFails, AdvanceIterator, EndOfClients, JoinSubWorkers,
                    Initialized, ConnectToSelfFails, Shutdown, JoinDispatcher
<1>3. ASSUME NEW fd, SignalKills(fd) PROVE ThreadTypes'
  BY <1>0, <1>3 DEF SignalKills
<1>4. CASE \/ Accept \/ SendClientName \/ ClientNameFails \/ InsertClient \/ SpawnSubWorker
           \/ NotifyClient
  BY <1>0, <1>4 DEF Accept, SendClientName, ClientNameFails, InsertClient, SpawnSubWorker,
                    NotifyClient
<1>5. CASE ConnectToSelf \/ InsertSelf
  BY <1>0, <1>5, FreeDescriptor DEF ConnectToSelf, InsertSelf
<1>6. ASSUME NEW c \in Client,
             \/ CallRecv(c) \/ ReceiveRequest(c) \/ ReceiveQuit(c)
             \/ ReceiveShutDownSuccessful(c) \/ RecvEndOfFile(c)
             \/ ReplyToIndex(c) \/ ReplyToSearch(c) \/ CloseSocket(c) \/ EraseClient(c)
       PROVE  ThreadTypes'
  BY <1>0, <1>6 DEF CallRecv, Receives, ReceiveRequest, ReceiveQuit, ReceiveShutDownSuccessful,
                    RecvEndOfFile, ReplyToIndex, ReplyToSearch, CloseSocket, EraseClient
<1>7. ASSUME NEW c \in Client, NEW m,
             \/ Connect(c) \/ SendRequest(c, m) \/ SendQuit(c) \/ Crash(c) \/ AnswerShutDown(c)
       PROVE  ThreadTypes'
  BY <1>0, <1>7 DEF Connect, SendRequest, SendQuit, Crash, AnswerShutDown
<1>. QED
  BY <1>1, <1>2, <1>3, <1>4, <1>5, <1>6, <1>7, StepCases

\* The steps of the sub-workers and of the clients leave the dispatcher alone.
LEMMA OthersStep ==
    ASSUME NEW c, NEW m,
           \/ CallRecv(c) \/ ReceiveRequest(c) \/ ReceiveQuit(c)
           \/ ReceiveShutDownSuccessful(c) \/ RecvEndOfFile(c)
           \/ ReplyToIndex(c) \/ ReplyToSearch(c) \/ CloseSocket(c) \/ EraseClient(c)
           \/ Connect(c) \/ SendRequest(c, m) \/ SendQuit(c) \/ Crash(c) \/ AnswerShutDown(c)
    PROVE  UNCHANGED <<quitCommandExecuted, op, disp, clientSock, addr, threadLocalID,
                       threads, cursor, notified, sock>>
<1>. USE DEF commandVars, acceptVars, subVars
<1>1. CASE \/ CallRecv(c) \/ ReceiveRequest(c) \/ ReceiveQuit(c)
           \/ ReceiveShutDownSuccessful(c) \/ RecvEndOfFile(c)
           \/ ReplyToIndex(c) \/ ReplyToSearch(c) \/ CloseSocket(c) \/ EraseClient(c)
  BY <1>1 DEF CallRecv, Receives, ReceiveRequest, ReceiveQuit, ReceiveShutDownSuccessful,
              RecvEndOfFile, ReplyToIndex, ReplyToSearch, CloseSocket, EraseClient
<1>2. CASE Connect(c) \/ SendRequest(c, m) \/ SendQuit(c) \/ Crash(c) \/ AnswerShutDown(c)
  BY <1>2 DEF Connect, SendRequest, SendQuit, Crash, AnswerShutDown
<1>. QED
  BY <1>1, <1>2

\* Each sub-worker and each client makes one of these steps.
OtherStep(c) ==
    \/ CallRecv(c) \/ ReceiveRequest(c) \/ ReceiveQuit(c)
    \/ ReceiveShutDownSuccessful(c) \/ RecvEndOfFile(c)
    \/ ReplyToIndex(c) \/ ReplyToSearch(c) \/ CloseSocket(c) \/ EraseClient(c)
    \/ Connect(c) \/ (\E m : SendRequest(c, m)) \/ SendQuit(c) \/ Crash(c) \/ AnswerShutDown(c)

\* Only the dispatcher and the command thread insert into the list of clients,
\* and only the sub-workers erase.
LEMMA ListStep ==
    ASSUME [Next]_vars
    PROVE  \/ UNCHANGED clientList
           \/ InsertClient \/ InsertSelf
           \/ \E c \in Client : EraseClient(c)
<1>1. CASE UNCHANGED vars
  BY <1>1 DEF vars
<1>2. CASE \/ Listen \/ ListenFails \/ AcceptFails \/ AdvanceIterator \/ EndOfClients
           \/ JoinSubWorkers \/ Initialized \/ Shutdown \/ JoinDispatcher
           \/ ConnectToSelf \/ ConnectToSelfFails
           \/ Accept \/ SendClientName \/ ClientNameFails \/ SpawnSubWorker \/ NotifyClient
  BY <1>2 DEF Listen, ListenFails, AcceptFails, AdvanceIterator, EndOfClients, JoinSubWorkers,
              Initialized, ConnectToSelfFails, Shutdown, JoinDispatcher, ConnectToSelf,
              Accept, SendClientName, ClientNameFails, SpawnSubWorker, NotifyClient
<1>3. ASSUME NEW fd, SignalKills(fd) PROVE UNCHANGED clientList
  BY <1>3 DEF SignalKills
<1>4. ASSUME NEW c,
             \/ CallRecv(c) \/ ReceiveRequest(c) \/ ReceiveQuit(c)
             \/ ReceiveShutDownSuccessful(c) \/ RecvEndOfFile(c)
             \/ ReplyToIndex(c) \/ ReplyToSearch(c) \/ CloseSocket(c)
       PROVE  UNCHANGED clientList
  BY <1>4 DEF CallRecv, Receives, ReceiveRequest, ReceiveQuit, ReceiveShutDownSuccessful,
              RecvEndOfFile, ReplyToIndex, ReplyToSearch, CloseSocket
<1>5. ASSUME NEW c, NEW m,
             \/ Connect(c) \/ SendRequest(c, m) \/ SendQuit(c) \/ Crash(c) \/ AnswerShutDown(c)
       PROVE  UNCHANGED clientList
  BY <1>5 DEF Connect, SendRequest, SendQuit, Crash, AnswerShutDown
<1>. QED
  BY <1>1, <1>2, <1>3, <1>4, <1>5, StepCases

LEMMA AcceptTypesStep == TypeOK /\ AcceptInv /\ [Next]_vars => AcceptTypes'
<1>. SUFFICES ASSUME TypeOK, AcceptInv, [Next]_vars PROVE AcceptTypes'
  OBVIOUS
<1>. USE DEF AcceptTypes, acceptVars
<1>0. AcceptTypes
  BY Types
<1>1. CASE UNCHANGED vars
  BY <1>0, <1>1 DEF vars
<1>2. CASE \/ Listen \/ ListenFails \/ AcceptFails \/ AdvanceIterator \/ EndOfClients
           \/ JoinSubWorkers \/ Initialized \/ ConnectToSelfFails \/ Shutdown \/ JoinDispatcher
  BY <1>0, <1>2 DEF Listen, ListenFails, AcceptFails, AdvanceIterator, EndOfClients, JoinSubWorkers,
                    Initialized, ConnectToSelfFails, Shutdown, JoinDispatcher
<1>3. ASSUME NEW fd, SignalKills(fd) PROVE AcceptTypes'
  BY <1>0, <1>3 DEF SignalKills
<1>4. CASE SendClientName \/ ClientNameFails \/ InsertClient \/ ConnectToSelf \/ InsertSelf
  BY <1>0, <1>4 DEF SendClientName, ClientNameFails, InsertClient, ConnectToSelf, InsertSelf
<1>5. CASE Accept
  <2>1. Head(backlog) \in Connection
    BY <1>5 DEF TypeOK, Accept, Connection
  <2>. QED
    BY <1>0, <1>5, <2>1, FreeDescriptor DEF Accept
<1>6. CASE SpawnSubWorker
  <2>1. addr \in Client /\ addr \notin threads
    BY <1>6 DEF AcceptInv, AcceptedInv, Greeting, SpawnSubWorker
  <2>2. IsFiniteSet(threads) /\ threads' \subseteq Client
    BY <1>0, <1>6, <2>1, ClientAssumption, FS_Subset DEF SpawnSubWorker
  <2>3. Cardinality(threads') = Cardinality(threads) + 1
    BY <1>6, <2>1, <2>2, FS_AddElement DEF SpawnSubWorker
  <2>4. Cardinality(threads') <= Cardinality(Client) /\ Cardinality(Client) \in Nat
    BY <2>2, ClientAssumption, FS_Subset, FS_CardinalityType
  <2>5. threadLocalID' \in 1..(Cardinality(Client) + 1)
    BY <1>0, <1>6, <2>3, <2>4 DEF AcceptInv, ServedInv, SpawnSubWorker
  <2>. QED
    BY <1>0, <1>6, <2>2, <2>5 DEF SpawnSubWorker
<1>7. CASE NotifyClient
  BY <1>0, <1>7 DEF NotifyClient, Pending, TypeOK
<1>8. ASSUME NEW c \in Client, OtherStep(c) PROVE AcceptTypes'
  BY <1>0, <1>8, OthersStep DEF OtherStep
<1>. QED
  BY <1>1, <1>2, <1>3, <1>4, <1>5, <1>6, <1>7, <1>8, StepCases DEF OtherStep

LEMMA ListTypesStep == TypeOK /\ AcceptInv /\ [Next]_vars => ListTypes'
<1>. SUFFICES ASSUME TypeOK, AcceptInv, [Next]_vars PROVE ListTypes'
  OBVIOUS
<1>. USE DEF ListTypes
<1>0. ListTypes
  BY Types
<1>1. CASE UNCHANGED clientList
  BY <1>0, <1>1
<1>2. CASE InsertClient
  <2>1. addr \in Client /\ clientSock \in Fd /\ threadLocalID \in Int
    BY <1>2 DEF AcceptInv, AcceptedInv, Greeting, InsertClient, TypeOK
  <2>. QED
    BY <1>0, <1>2, <2>1 DEF InsertClient, SetEntry
<1>3. CASE InsertSelf
  BY <1>0, <1>3 DEF InsertSelf, SetEntry, TypeOK
<1>4. ASSUME NEW c \in Client, EraseClient(c) PROVE ListTypes'
  BY <1>0, <1>4 DEF EraseClient, EraseEntry, Restrict
<1>. QED
  BY <1>1, <1>2, <1>3, <1>4, ListStep

\* Descriptors are opened by accept and connect and closed by the dispatcher and
\* the sub-workers.
LEMMA TableStep ==
    ASSUME [Next]_vars
    PROVE  \/ UNCHANGED table
           \/ Accept \/ ClientNameFails \/ NotifyClient \/ ConnectToSelf
           \/ \E c \in Client : CloseSocket(c)
<1>1. CASE UNCHANGED vars
  BY <1>1 DEF vars
<1>2. CASE \/ Listen \/ ListenFails \/ AcceptFails \/ AdvanceIterator \/ EndOfClients
           \/ JoinSubWorkers \/ Initialized \/ ConnectToSelfFails \/ Shutdown \/ JoinDispatcher
           \/ SendClientName \/ InsertClient \/ InsertSelf \/ SpawnSubWorker
  BY <1>2 DEF Listen, ListenFails, AcceptFails, AdvanceIterator, EndOfClients, JoinSubWorkers,
              Initialized, ConnectToSelfFails, Shutdown, JoinDispatcher,
              SendClientName, InsertClient, InsertSelf, SpawnSubWorker
<1>3. ASSUME NEW fd, SignalKills(fd) PROVE UNCHANGED table
  BY <1>3 DEF SignalKills
<1>4. ASSUME NEW c,
             \/ CallRecv(c) \/ ReceiveRequest(c) \/ ReceiveQuit(c)
             \/ ReceiveShutDownSuccessful(c) \/ RecvEndOfFile(c)
             \/ ReplyToIndex(c) \/ ReplyToSearch(c) \/ EraseClient(c)
       PROVE  UNCHANGED table
  BY <1>4 DEF CallRecv, Receives, ReceiveRequest, ReceiveQuit, ReceiveShutDownSuccessful,
              RecvEndOfFile, ReplyToIndex, ReplyToSearch, EraseClient
<1>5. ASSUME NEW c, NEW m,
             \/ Connect(c) \/ SendRequest(c, m) \/ SendQuit(c) \/ Crash(c) \/ AnswerShutDown(c)
       PROVE  UNCHANGED table
  BY <1>5 DEF Connect, SendRequest, SendQuit, Crash, AnswerShutDown
<1>. QED
  BY <1>1, <1>2, <1>3, <1>4, <1>5, StepCases

\* Where a sub-worker is changes when it is started and by its own steps.
LEMMA SubStep ==
    ASSUME [Next]_vars
    PROVE  \/ UNCHANGED <<sub, peer>>
           \/ SpawnSubWorker
           \/ \E c \in Client :
                 \/ CallRecv(c) \/ ReceiveRequest(c) \/ ReceiveQuit(c)
                 \/ ReceiveShutDownSuccessful(c) \/ RecvEndOfFile(c)
                 \/ ReplyToIndex(c) \/ ReplyToSearch(c) \/ CloseSocket(c) \/ EraseClient(c)
<1>. USE DEF subVars
<1>1. CASE UNCHANGED vars
  BY <1>1 DEF vars
<1>2. CASE \/ Listen \/ ListenFails \/ AcceptFails \/ AdvanceIterator \/ EndOfClients
           \/ JoinSubWorkers \/ Initialized \/ Shutdown \/ JoinDispatcher
           \/ ConnectToSelf \/ ConnectToSelfFails
           \/ InsertSelf
           \/ Accept \/ SendClientName \/ ClientNameFails \/ InsertClient \/ NotifyClient
  BY <1>2 DEF Listen, ListenFails, AcceptFails, AdvanceIterator, EndOfClients, JoinSubWorkers,
              Initialized, ConnectToSelfFails, Shutdown, JoinDispatcher, ConnectToSelf, InsertSelf,
              Accept, SendClientName, ClientNameFails, InsertClient, NotifyClient
<1>3. ASSUME NEW fd, SignalKills(fd) PROVE UNCHANGED <<sub, peer>>
  BY <1>3 DEF SignalKills
<1>4. ASSUME NEW c, NEW m,
             \/ Connect(c) \/ SendRequest(c, m) \/ SendQuit(c) \/ Crash(c) \/ AnswerShutDown(c)
       PROVE  UNCHANGED <<sub, peer>>
  BY <1>4 DEF Connect, SendRequest, SendQuit, Crash, AnswerShutDown
<1>. QED
  BY <1>1, <1>2, <1>3, <1>4, StepCases

\* Threads are started by the dispatcher and keep their descriptors.
LEMMA ThreadsStep ==
    ASSUME [Next]_vars
    PROVE  UNCHANGED <<threads, sock, threadLocalID>> \/ SpawnSubWorker
<1>. USE DEF acceptVars, subVars
<1>1. CASE UNCHANGED vars
  BY <1>1 DEF vars
<1>2. CASE \/ Listen \/ ListenFails \/ AcceptFails \/ AdvanceIterator \/ EndOfClients
           \/ JoinSubWorkers \/ Initialized \/ Shutdown \/ JoinDispatcher
           \/ ConnectToSelf \/ ConnectToSelfFails
           \/ InsertSelf
           \/ Accept \/ SendClientName \/ ClientNameFails \/ InsertClient \/ NotifyClient
  BY <1>2 DEF Listen, ListenFails, AcceptFails, AdvanceIterator, EndOfClients, JoinSubWorkers,
              Initialized, ConnectToSelfFails, Shutdown, JoinDispatcher, ConnectToSelf, InsertSelf,
              Accept, SendClientName, ClientNameFails, InsertClient, NotifyClient
<1>3. ASSUME NEW fd, SignalKills(fd) PROVE UNCHANGED <<threads, sock, threadLocalID>>
  BY <1>3 DEF SignalKills
<1>4. ASSUME NEW c \in Client, OtherStep(c) PROVE UNCHANGED <<threads, sock, threadLocalID>>
  BY <1>4, OthersStep DEF OtherStep
<1>. QED
  BY <1>1, <1>2, <1>3, <1>4, StepCases DEF OtherStep

\* Who has connected stays so, who is gone does not come back, and only the
\* connection of who is gone is reset.
LEMMA ClientStep ==
    ASSUME TypeOK, [Next]_vars
    PROVE  /\ ClientTypes'
           /\ \A c \in Client : /\ client[c] = "gone" => client'[c] = "gone"
                                /\ client[c] # "away" => client'[c] # "away"
                                /\ reset[c] => reset'[c] \/ client[c] # "gone"
                                /\ reset'[c] => reset[c] \/ client'[c] = "gone"
<1>. USE DEF ClientTypes, clientVars
<1>0. ClientTypes
  BY Types
<1>1. ASSUME UNCHANGED <<client, sent, told, reset>>
      PROVE  /\ ClientTypes'
             /\ \A c \in Client : /\ client[c] = client'[c]
                                  /\ reset'[c] = reset[c]
  BY <1>0, <1>1
<1>2. CASE \/ UNCHANGED vars
           \/ Listen \/ ListenFails \/ AcceptFails \/ AdvanceIterator \/ EndOfClients
           \/ JoinSubWorkers \/ Initialized \/ Shutdown \/ JoinDispatcher
           \/ ConnectToSelf \/ ConnectToSelfFails
           \/ InsertSelf \/ Accept \/ InsertClient \/ SpawnSubWorker
           \/ \E fd : SignalKills(fd)
  BY <1>1, <1>2 DEF vars, Listen, ListenFails, AcceptFails, AdvanceIterator, EndOfClients,
     JoinSubWorkers,
              Initialized, ConnectToSelfFails, Shutdown, JoinDispatcher, ConnectToSelf, InsertSelf,
              Accept, InsertClient, SpawnSubWorker, SignalKills
<1>3. ASSUME NEW fd \in Fd, NEW m, SendSucceeds(fd, m) \/ SendFails(fd), UNCHANGED sent
      PROVE  /\ ClientTypes'
             /\ \A c \in Client : /\ client[c] = "gone" <=> client'[c] = "gone"
                                  /\ client[c] # "away" => client'[c] # "away"
                                  /\ reset[c] => reset'[c]
                                  /\ reset'[c] => reset[c] \/ client[c] = "gone"
  BY <1>0, <1>3, SendEffect
<1>4. CASE SendClientName \/ ClientNameFails
  <2>1. clientSock \in Fd /\ UNCHANGED sent
    BY <1>4 DEF TypeOK, SendClientName, ClientNameFails
  <2>2. SendSucceeds(clientSock, "ClientName") \/ SendFails(clientSock)
    BY <1>4 DEF SendClientName, ClientNameFails
  <2>. QED
    BY <1>3, <2>1, <2>2
<1>5. CASE NotifyClient
  <2>1. PICK fd \in Pending : SendSucceeds(fd, "Server-ShutDown") \/ SendFails(fd)
    BY <1>5 DEF NotifyClient
  <2>2. fd \in Fd /\ UNCHANGED sent
    BY <1>5 DEF TypeOK, Pending, NotifyClient
  <2>. QED
    BY <1>3, <2>1, <2>2
<1>6. ASSUME NEW c \in Client,
             \/ CallRecv(c) \/ ReceiveRequest(c) \/ ReceiveQuit(c)
             \/ ReceiveShutDownSuccessful(c) \/ RecvEndOfFile(c)
             \/ CloseSocket(c) \/ EraseClient(c)
      PROVE  UNCHANGED <<client, sent, told, reset>>
  BY <1>6 DEF CallRecv, Receives, ReceiveRequest, ReceiveQuit, ReceiveShutDownSuccessful,
              RecvEndOfFile, CloseSocket, EraseClient
<1>7. ASSUME NEW c \in Client, ReplyToIndex(c) \/ ReplyToSearch(c)
      PROVE  /\ sock[c] \in Fd /\ UNCHANGED sent
             /\ \E m : SendSucceeds(sock[c], m) \/ SendFails(sock[c])
  BY <1>7 DEF TypeOK, ReplyToIndex, ReplyToSearch
<1>8. ASSUME NEW k \in Client, NEW m,
             \/ Connect(k) \/ SendRequest(k, m) \/ SendQuit(k) \/ Crash(k) \/ AnswerShutDown(k)
      PROVE  /\ ClientTypes'
             /\ \A c \in Client : /\ client[c] = "gone" => client'[c] = "gone"
                                  /\ client[c] # "away" => client'[c] # "away"
                                  /\ reset[c] => reset'[c] \/ client[c] # "gone"
                                  /\ reset'[c] => reset[c] \/ client'[c] = "gone"
  <2>1. CASE Connect(k) \/ SendQuit(k)
    BY <1>0, <1>8, <2>1 DEF Connect, SendQuit
  <2>2. CASE SendRequest(k, m)
    BY <1>0, <2>2, ClientAssumption DEF SendRequest
  <2>3. CASE Crash(k) \/ AnswerShutDown(k)
    BY <1>0, <1>8, <2>3 DEF Crash, AnswerShutDown
  <2>. QED
    BY <1>8, <2>1, <2>2, <2>3
<1>. QED
  BY <1>1, <1>2, <1>3, <1>4, <1>5, <1>6, <1>7, <1>8, StepCases

\* The dispatcher leaves its loop for good.
LEMMA DispatcherStep ==
    ASSUME [Next]_vars
    PROVE  \/ UNCHANGED <<disp, clientSock, addr>>
           \/ Listen \/ ListenFails \/ Accept
           \/ SendClientName \/ ClientNameFails \/ InsertClient \/ SpawnSubWorker
           \/ (~Before \/ quitCommandExecuted) /\ ~Before' /\ ~Greeting'
<1>. USE DEF acceptVars
<1>1. CASE UNCHANGED vars
  BY <1>1 DEF vars
<1>2. CASE \/ Initialized \/ Shutdown \/ JoinDispatcher
           \/ ConnectToSelf \/ ConnectToSelfFails \/ InsertSelf
  BY <1>2 DEF Initialized, ConnectToSelfFails, Shutdown, JoinDispatcher, ConnectToSelf, InsertSelf
<1>3. CASE AcceptFails \/ AdvanceIterator \/ EndOfClients \/ JoinSubWorkers \/ NotifyClient
  BY <1>3 DEF AcceptFails, AdvanceIterator, EndOfClients, JoinSubWorkers, NotifyClient,
              Before, Accepting, Greeting
<1>4. ASSUME NEW fd, SignalKills(fd) PROVE UNCHANGED <<disp, clientSock, addr>>
  BY <1>4 DEF SignalKills
<1>5. ASSUME NEW c \in Client, OtherStep(c) PROVE UNCHANGED <<disp, clientSock, addr>>
  BY <1>5, OthersStep DEF OtherStep
<1>. QED
  BY <1>1, <1>2, <1>3, <1>4, <1>5, StepCases DEF OtherStep

LEMMA BacklogStep ==
    ASSUME [Next]_vars
    PROVE  \/ UNCHANGED backlog
           \/ Accept \/ AcceptFails \/ ConnectToSelf \/ \E c \in Client : Connect(c)
<1>1. CASE UNCHANGED vars
  BY <1>1 DEF vars
<1>2. CASE \/ Listen \/ ListenFails \/ AdvanceIterator \/ EndOfClients
           \/ JoinSubWorkers \/ Initialized \/ ConnectToSelfFails \/ Shutdown \/ JoinDispatcher
           \/ SendClientName \/ ClientNameFails \/ NotifyClient
           \/ InsertClient \/ InsertSelf \/ SpawnSubWorker
  BY <1>2 DEF Listen, ListenFails, AdvanceIterator, EndOfClients, JoinSubWorkers,
              Initialized, ConnectToSelfFails, Shutdown, JoinDispatcher,
              SendClientName, ClientNameFails, NotifyClient,
              InsertClient, InsertSelf, SpawnSubWorker
<1>3. ASSUME NEW fd, SignalKills(fd) PROVE UNCHANGED backlog
  BY <1>3 DEF SignalKills
<1>4. ASSUME NEW c,
             \/ CallRecv(c) \/ ReceiveRequest(c) \/ ReceiveQuit(c)
             \/ ReceiveShutDownSuccessful(c) \/ RecvEndOfFile(c)
             \/ ReplyToIndex(c) \/ ReplyToSearch(c) \/ CloseSocket(c) \/ EraseClient(c)
       PROVE  UNCHANGED backlog
  BY <1>4 DEF CallRecv, Receives, ReceiveRequest, ReceiveQuit, ReceiveShutDownSuccessful,
              RecvEndOfFile, ReplyToIndex, ReplyToSearch, CloseSocket, EraseClient
<1>5. ASSUME NEW c, NEW m, SendRequest(c, m) \/ SendQuit(c) \/ Crash(c) \/ AnswerShutDown(c)
       PROVE  UNCHANGED backlog
  BY <1>5 DEF SendRequest, SendQuit, Crash, AnswerShutDown
<1>. QED
  BY <1>1, <1>2, <1>3, <1>4, <1>5, StepCases

LEMMA PlaceTypesStep == TypeOK /\ AcceptInv /\ [Next]_vars => PlaceTypes'
<1>. SUFFICES ASSUME TypeOK, AcceptInv, [Next]_vars PROVE PlaceTypes'
  OBVIOUS
<1>. USE DEF PlaceTypes
<1>0. PlaceTypes
  BY Types
<1>1. table' \in [Fd -> Connection]
  <2>1. CASE Accept
    BY <1>0, <2>1, FreeDescriptor DEF Accept, Connection
  <2>2. CASE ConnectToSelf
    BY <1>0, <2>2, FreeDescriptor DEF ConnectToSelf, Connection
  <2>3. CASE ClientNameFails \/ NotifyClient
    BY <1>0, <2>3 DEF ClientNameFails, NotifyClient, CloseFd, Connection
  <2>4. ASSUME NEW c \in Client, CloseSocket(c) PROVE table' \in [Fd -> Connection]
    BY <1>0, <2>4 DEF CloseSocket, CloseFd, Connection
  <2>. QED
    BY <1>0, <2>1, <2>2, <2>3, <2>4, TableStep
<1>. DEFINE SubTypes ==
                /\ sub \in [Client -> {"none", "loop", "recv", "index", "search", "close",
                                       "erase", "closeSearch", "eraseSearch", "exit"}]
                /\ peer \in [Client -> Connection]
<1>2. SubTypes'
  <2>1. CASE SpawnSubWorker
    BY <1>0, <2>1 DEF SpawnSubWorker
  <2>2. ASSUME NEW c \in Client,
             \/ CallRecv(c) \/ ReceiveRequest(c) \/ ReceiveQuit(c)
             \/ ReceiveShutDownSuccessful(c) \/ RecvEndOfFile(c)
        PROVE  SubTypes'
    BY <1>0, <2>2 DEF CallRecv, Receives, ReceiveRequest, ReceiveQuit,
                      ReceiveShutDownSuccessful, RecvEndOfFile, Connection
  <2>3. ASSUME NEW c \in Client,
               ReplyToIndex(c) \/ ReplyToSearch(c) \/ CloseSocket(c) \/ EraseClient(c)
        PROVE  SubTypes'
    BY <1>0, <2>3 DEF ReplyToIndex, ReplyToSearch, CloseSocket, EraseClient
  <2>. QED
    BY <1>0, <2>1, <2>2, <2>3, SubStep
<1>3. sock' \in [Client -> Fd]
  <2>1. CASE SpawnSubWorker
    BY <1>0, <2>1 DEF SpawnSubWorker, TypeOK
  <2>. QED
    BY <1>0, <2>1, ThreadsStep
<1>4. backlog' \in Seq(Client \cup {Self})
  <2>1. CASE Accept
    BY <1>0, <2>1 DEF Accept
  <2>4. CASE AcceptFails
    <3>. DEFINE S == Client \cup {Self}
    <3>1. backlog # <<>> /\ (backlog' = backlog \/ backlog' = Tail(backlog))
      BY <2>4 DEF AcceptFails
    <3>2. backlog \in Seq(S)
      BY <1>0
    <3>. HIDE DEF S
    <3>3. backlog' \in Seq(S)
      BY <3>1, <3>2
    <3>. QED
      BY <3>3 DEF S
  <2>2. CASE ConnectToSelf
    BY <1>0, <2>2 DEF ConnectToSelf
  <2>3. ASSUME NEW c \in Client, Connect(c) PROVE backlog' \in Seq(Client \cup {Self})
    BY <1>0, <2>3 DEF Connect
  <2>. QED
    BY <1>0, <2>1, <2>2, <2>3, <2>4, BacklogStep
<1>. QED
  BY <1>1, <1>2, <1>3, <1>4

LEMMA TypeOKStep == TypeOK /\ AcceptInv /\ [Next]_vars => TypeOK'
  BY ThreadTypesStep, AcceptTypesStep, ListTypesStep, PlaceTypesStep, ClientStep, Types

----------------------------------------------------------------------------
(* Every client is in one place                                            *)

LEMMA AcceptInvInit == Init => AcceptInv
  BY FS_EmptySet DEF Init, AcceptInv, BacklogInv, AcceptedInv, ServedInv, QuitInv, Greeting

LEMMA QuitInvStep ==
    ASSUME TypeOK, QuitInv, [Next]_vars
    PROVE  QuitInv' /\ (quitCommandExecuted => quitCommandExecuted')
<1>. USE DEF QuitInv, commandVars
<1>1. CASE UNCHANGED vars
  BY <1>1 DEF vars
<1>2. CASE \/ Initialized \/ Shutdown \/ JoinDispatcher
           \/ ConnectToSelf \/ ConnectToSelfFails \/ InsertSelf
  BY <1>2 DEF Initialized, ConnectToSelfFails, Shutdown, ConnectToSelf, InsertSelf, JoinDispatcher
<1>3. CASE \/ Listen \/ ListenFails \/ AcceptFails \/ AdvanceIterator \/ EndOfClients \/ JoinSubWorkers
           \/ Accept \/ SendClientName \/ ClientNameFails \/ InsertClient \/ SpawnSubWorker
           \/ NotifyClient
  BY <1>3 DEF Listen, ListenFails, AcceptFails, AdvanceIterator, EndOfClients, JoinSubWorkers,
              Accept, SendClientName, ClientNameFails, InsertClient, SpawnSubWorker, NotifyClient
<1>4. ASSUME NEW fd, SignalKills(fd) PROVE UNCHANGED <<quitCommandExecuted, op>>
  BY <1>4 DEF SignalKills
<1>5. ASSUME NEW c \in Client, OtherStep(c) PROVE UNCHANGED <<quitCommandExecuted, op>>
  BY <1>5, OthersStep DEF OtherStep
<1>. QED
  BY <1>1, <1>2, <1>3, <1>4, <1>5, StepCases DEF OtherStep

\* The first connection of the backlog is taken out.
LEMMA RestOfBacklog ==
    ASSUME TypeOK, BacklogInv, backlog # <<>>, backlog' = Tail(backlog)
    PROVE  /\ \A i \in DOMAIN backlog' : i + 1 \in DOMAIN backlog /\ backlog'[i] = backlog[i + 1]
           /\ 1 \in DOMAIN backlog /\ Head(backlog) = backlog[1]
           /\ Head(backlog) \in Client => \A i \in DOMAIN backlog' : backlog'[i] # Head(backlog)
<1>. DEFINE S == Client \cup {Self}
<1>1. backlog \in Seq(S)
  BY DEF TypeOK
<1>2. /\ DOMAIN backlog = 1..Len(backlog) /\ Len(backlog) \in Nat \ {0}
      /\ DOMAIN backlog' = 1..(Len(backlog) - 1)
      /\ Head(backlog) = backlog[1]
  BY <1>1
<1>3. ASSUME NEW i \in DOMAIN backlog'
      PROVE  i + 1 \in DOMAIN backlog /\ backlog'[i] = backlog[i + 1] /\ i + 1 # 1
  BY <1>1, <1>2, <1>3
<1>4. 1 \in DOMAIN backlog
  BY <1>2
<1>. QED
  BY <1>2, <1>3, <1>4 DEF BacklogInv

\* A connection is put at the end.
LEMMA MoreOfBacklog ==
    ASSUME TypeOK, NEW k \in Client \cup {Self}, backlog' = Append(backlog, k)
    PROVE  \A i \in DOMAIN backlog' :
              \/ i \in DOMAIN backlog /\ backlog'[i] = backlog[i]
              \/ i = Len(backlog) + 1 /\ backlog'[i] = k
<1>. DEFINE S == Client \cup {Self}
<1>1. backlog \in Seq(S)
  BY DEF TypeOK
<1>. QED
  BY <1>1

LEMMA BacklogInvStep == TypeOK /\ AcceptInv /\ [Next]_vars => BacklogInv'
<1>. SUFFICES ASSUME TypeOK, AcceptInv, [Next]_vars PROVE BacklogInv'
  OBVIOUS
<1>0. BacklogInv /\ AcceptedInv /\ ServedInv /\ QuitInv
  BY DEF AcceptInv
<1>1. quitCommandExecuted => quitCommandExecuted'
  BY <1>0, QuitInvStep
<1>2. \A c \in Client : client[c] # "away" => client'[c] # "away"
  BY ClientStep
<1>3. CASE Accept
  <2>1. ~Greeting /\ threads' = threads /\ addr' = Head(backlog)
    BY <1>3 DEF Accept, Greeting, acceptVars
  <2>2. ASSUME NEW i \in DOMAIN backlog'
        PROVE  i + 1 \in DOMAIN backlog /\ backlog'[i] = backlog[i + 1]
    BY <1>0, <1>3, RestOfBacklog DEF Accept
  <2>3. ASSUME NEW i \in DOMAIN backlog', backlog'[i] \in Client PROVE backlog'[i] # addr'
    BY <1>0, <1>3, <2>1, <2>3, RestOfBacklog DEF Accept
  <2>4. ASSUME NEW i \in DOMAIN backlog', NEW j \in DOMAIN backlog',
               backlog'[i] = backlog'[j], backlog'[i] \in Client
        PROVE  i = j
    <3>1. i \in Int /\ j \in Int
      BY <1>3 DEF Accept, TypeOK
    <3>2. i + 1 = j + 1
      BY <1>0, <2>2, <2>4 DEF BacklogInv
    <3>. QED
      BY <3>1, <3>2
  <2>. QED
    BY <1>0, <1>1, <1>2, <2>1, <2>2, <2>3, <2>4 DEF BacklogInv
<1>4. ASSUME NEW c \in Client, Connect(c) PROVE BacklogInv'
  <2>1. UNCHANGED <<threads, disp, addr>>
    BY <1>4 DEF Connect, acceptVars
  <2>2. client[c] = "away" /\ client'[c] # "away"
    BY <1>4 DEF Connect, TypeOK
  <2>3. c \notin threads /\ (Greeting => c # addr)
    BY <1>0, <2>2 DEF ServedInv, AcceptedInv
  <2>4. \A i \in DOMAIN backlog' :
           \/ i \in DOMAIN backlog /\ backlog'[i] = backlog[i]
           \/ i = Len(backlog) + 1 /\ backlog'[i] = c
    BY <1>4, MoreOfBacklog DEF Connect
  <2>5. \A i \in DOMAIN backlog : backlog[i] # c
    BY <1>0, <2>2 DEF BacklogInv
  <2>. QED
    BY <1>0, <1>1, <1>2, <2>1, <2>2, <2>3, <2>4, <2>5, ConnectionAssumption
    DEF BacklogInv, Greeting
<1>5. CASE ConnectToSelf
  <2>1. UNCHANGED <<threads, disp, addr>> /\ quitCommandExecuted
    BY <1>0, <1>5 DEF ConnectToSelf, acceptVars, QuitInv
  <2>2. \A i \in DOMAIN backlog' :
           \/ i \in DOMAIN backlog /\ backlog'[i] = backlog[i]
           \/ i = Len(backlog) + 1 /\ backlog'[i] = Self
    BY <1>5, MoreOfBacklog DEF ConnectToSelf
  <2>. QED
    BY <1>0, <1>1, <1>2, <2>1, <2>2, ConnectionAssumption DEF BacklogInv, Greeting
<1>6. CASE UNCHANGED backlog /\ SpawnSubWorker
  BY <1>0, <1>1, <1>2, <1>6 DEF BacklogInv, SpawnSubWorker, Greeting
<1>8. CASE AcceptFails /\ backlog' = Tail(backlog)
  <2>1. ~Greeting' /\ threads' = threads /\ backlog # <<>>
    BY <1>8 DEF AcceptFails, Greeting, acceptVars
  <2>2. \A i \in DOMAIN backlog' : i + 1 \in DOMAIN backlog /\ backlog'[i] = backlog[i + 1]
    BY <1>0, <1>8, <2>1, RestOfBacklog
  <2>3. ASSUME NEW i \in DOMAIN backlog', NEW j \in DOMAIN backlog',
               backlog'[i] = backlog'[j], backlog'[i] \in Client
        PROVE  i = j
    <3>1. i \in Int /\ j \in Int
      BY <1>8, <2>1 DEF TypeOK
    <3>2. i + 1 = j + 1
      BY <1>0, <2>2, <2>3 DEF BacklogInv
    <3>. QED
      BY <3>1, <3>2
  <2>. QED
    BY <1>0, <1>1, <1>2, <2>1, <2>2, <2>3 DEF BacklogInv
<1>7. CASE ~Accept /\ UNCHANGED <<backlog, threads>>
  <2>1. ASSUME Greeting' PROVE Greeting /\ addr' = addr
    BY <1>7, <2>1, DispatcherStep
    DEF Greeting, Listen, ListenFails, SendClientName, ClientNameFails, InsertClient,
        SpawnSubWorker, acceptVars
  <2>. QED
    BY <1>0, <1>1, <1>2, <1>7, <2>1 DEF BacklogInv
<1>. QED
  BY <1>3, <1>4, <1>5, <1>6, <1>7, <1>8, BacklogStep, ThreadsStep DEF SpawnSubWorker, AcceptFails,
     acceptVars

LEMMA AcceptedInvStep == TypeOK /\ AcceptInv /\ [Next]_vars => AcceptedInv'
<1>. SUFFICES ASSUME TypeOK, AcceptInv, [Next]_vars PROVE AcceptedInv'
  OBVIOUS
<1>0. BacklogInv /\ AcceptedInv /\ ServedInv /\ QuitInv
  BY DEF AcceptInv
<1>2. \A c \in Client : client[c] # "away" => client'[c] # "away"
  BY ClientStep
<1>3. CASE Accept /\ ~quitCommandExecuted
  <2>1. addr' = backlog[1] /\ 1 \in DOMAIN backlog /\ threads' = threads
    BY <1>0, <1>3, RestOfBacklog DEF Accept, acceptVars
  <2>2. backlog[1] \in Client
    BY <1>0, <1>3, <2>1 DEF BacklogInv, TypeOK
  <2>. QED
    BY <1>0, <1>2, <2>1, <2>2 DEF BacklogInv, AcceptedInv
<1>4. CASE SpawnSubWorker \/ ListenFails \/ Listen \/ ClientNameFails
           \/ (Accept /\ quitCommandExecuted)
  BY <1>4 DEF SpawnSubWorker, ListenFails, Listen, ClientNameFails, Accept, AcceptedInv, Greeting
<1>5. CASE SendClientName \/ InsertClient
  BY <1>0, <1>2, <1>5 DEF SendClientName, InsertClient, AcceptedInv, Greeting, acceptVars
<1>6. CASE UNCHANGED <<disp, clientSock, addr>> /\ UNCHANGED <<threads, sock, threadLocalID>>
  BY <1>0, <1>2, <1>6 DEF AcceptedInv, Greeting
<1>7. CASE ~Greeting'
  BY <1>7 DEF AcceptedInv
<1>8. CASE UNCHANGED <<disp, clientSock, addr>>
  BY <1>4, <1>6, <1>8, ThreadsStep
<1>9. CASE Accept \/ Listen \/ ListenFails \/ SendClientName \/ ClientNameFails \/ InsertClient
           \/ SpawnSubWorker
  BY <1>3, <1>4, <1>5, <1>9
<1>. QED
  BY <1>7, <1>8, <1>9, DispatcherStep

LEMMA ServedInvStep == TypeOK /\ AcceptInv /\ [Next]_vars => ServedInv'
<1>. SUFFICES ASSUME TypeOK, AcceptInv, [Next]_vars PROVE ServedInv'
  OBVIOUS
<1>0. AcceptedInv /\ ServedInv
  BY DEF AcceptInv
<1>1. threads \subseteq Client /\ sub \in [Client -> {"none", "loop", "recv", "index", "search",
                              "close", "erase", "closeSearch", "eraseSearch", "exit"}]
  BY DEF TypeOK
<1>2. \A c \in Client : client[c] # "away" => client'[c] # "away"
  BY ClientStep
<1>3. CASE SpawnSubWorker
  <2>1. addr \in Client /\ addr \notin threads /\ client[addr] # "away"
    BY <1>0, <1>3 DEF AcceptedInv, Greeting, SpawnSubWorker
  <2>2. IsFiniteSet(threads)
    BY <1>1, ClientAssumption, FS_Subset
  <2>3. Cardinality(threads') = Cardinality(threads) + 1
    BY <1>3, <2>1, <2>2, FS_AddElement DEF SpawnSubWorker
  <2>4. threadLocalID' = Cardinality(threads') + 1
    BY <1>0, <1>3, <2>3 DEF ServedInv, SpawnSubWorker
  <2>. QED
    BY <1>0, <1>1, <1>2, <1>3, <2>1, <2>4 DEF ServedInv, SpawnSubWorker
<1>4. CASE UNCHANGED <<threads, sock, threadLocalID>>
  <2>1. ASSUME NEW c \in Client, ~SpawnSubWorker PROVE sub'[c] # "none" <=> sub[c] # "none"
    <3>1. CASE UNCHANGED sub
      BY <3>1
    <3>2. ASSUME NEW d \in Client,
                 \/ CallRecv(d) \/ ReceiveRequest(d) \/ ReceiveQuit(d)
                 \/ ReceiveShutDownSuccessful(d) \/ RecvEndOfFile(d)
                 \/ ReplyToIndex(d) \/ ReplyToSearch(d) \/ CloseSocket(d) \/ EraseClient(d)
          PROVE  sub'[c] # "none" <=> sub[c] # "none"
      BY <1>1, <3>2
      DEF CallRecv, Receives, ReceiveRequest, ReceiveQuit, ReceiveShutDownSuccessful,
          RecvEndOfFile, ReplyToIndex, ReplyToSearch, CloseSocket, EraseClient
    <3>. QED
      BY <2>1, <3>1, <3>2, SubStep
  <2>. QED
    BY <1>0, <1>1, <1>2, <1>3, <1>4, <2>1 DEF ServedInv
<1>. QED
  BY <1>3, <1>4, ThreadsStep

LEMMA AcceptInvStep == TypeOK /\ AcceptInv /\ [Next]_vars => AcceptInv'
  BY BacklogInvStep, AcceptedInvStep, ServedInvStep, QuitInvStep DEF AcceptInv

----------------------------------------------------------------------------
(* The descriptor of a sub-worker is its own                               *)

\* No connection was reset and quit is not entered.
Undisturbed == (\A c \in Client : ~reset[c]) /\ ~quitCommandExecuted

LEMMA OwnInvInit == Init => OwnInv
  BY DEF Init, OwnInv, OwnDescriptor, Before, Accepting, Greeting

\* There is no way back to such a state.
LEMMA UndisturbedBefore ==
    ASSUME TypeOK, AcceptInv, OwnInv, [Next]_vars, Undisturbed'
    PROVE  Undisturbed
<1>1. quitCommandExecuted => quitCommandExecuted'
  BY QuitInvStep DEF AcceptInv
<1>2. \A c \in Client : reset[c] => reset'[c]
  BY ClientStep DEF OwnInv
<1>. QED
  BY <1>1, <1>2 DEF Undisturbed

\* In such a state no send fails, unless on a closed descriptor.
LEMMA UndisturbedSend ==
    ASSUME Undisturbed, NEW fd, SendFails(fd)
    PROVE  table[fd] = Free
  BY DEF Undisturbed, SendFails, Resetting

LEMMA OwnInvStep == TypeOK /\ AcceptInv /\ OwnInv /\ [Next]_vars => OwnInv'
<1>. SUFFICES ASSUME TypeOK, AcceptInv, OwnInv, [Next]_vars PROVE OwnInv'
  OBVIOUS
<1>1. \A c \in Client : reset'[c] => client'[c] = "gone"
  BY ClientStep DEF OwnInv
<1>. DEFINE Inside == {"loop", "recv", "index", "search", "close"}
            Own == /\ Before
                   /\ \A c \in threads : sub[c] \in Inside => table[sock[c]] = c
                   /\ \A c \in threads : sub[c] \notin {"closeSearch", "eraseSearch"}
                   /\ Greeting => table[clientSock] = addr
<1>. SUFFICES ASSUME Undisturbed' PROVE Own'
  BY <1>1 DEF OwnInv, OwnDescriptor, Undisturbed
<1>2. Undisturbed
  BY UndisturbedBefore
<1>3. Own
  BY <1>2 DEF OwnInv, OwnDescriptor, Undisturbed
<1>4. /\ threads \subseteq Client /\ sock \in [Client -> Fd] /\ table \in [Fd -> Connection]
      /\ sub \in [Client -> {"none", "loop", "recv", "index", "search", "close", "erase",
                             "closeSearch", "eraseSearch", "exit"}]
      /\ clientSock \in Fd
  BY DEF TypeOK
<1>5. \A c \in Client : sub[c] # "none" => c \in threads
  BY DEF AcceptInv, ServedInv
\* The dispatcher stays in its loop: it was sending to a connection that is open.
<1>6. ~ClientNameFails /\ Before'
  <2>1. ~ClientNameFails
    <3>. SUFFICES ASSUME ClientNameFails PROVE FALSE
      OBVIOUS
    <3>1. Greeting /\ SendFails(clientSock)
      BY DEF ClientNameFails, Greeting
    <3>. QED
      BY <1>2, <1>3, <3>1, UndisturbedSend, ConnectionAssumption
      DEF AcceptInv, AcceptedInv
  <2>2. ~quitCommandExecuted /\ ~quitCommandExecuted'
    BY <1>2 DEF Undisturbed
  <2>3. CASE UNCHANGED <<disp, clientSock, addr>>
    BY <1>3, <2>1, <2>3 DEF Before, Accepting
  <2>4. CASE \/ Listen \/ ListenFails \/ Accept
             \/ SendClientName \/ InsertClient \/ SpawnSubWorker
    BY <2>1, <2>2, <2>4 DEF Listen, ListenFails, Accept, SendClientName, InsertClient,
       SpawnSubWorker,
                      Before, Accepting
  <2>. QED
    BY <1>3, <2>1, <2>2, <2>3, <2>4, DispatcherStep
\* A descriptor is opened where it was free, and closed by its own sub-worker.
<1>7. \/ UNCHANGED table
      \/ \E fd \in Fd : table[fd] = Free /\ \A g \in Fd \ {fd} : table'[g] = table[g]
      \/ \E c \in threads : CloseSocket(c) /\ sub[c] = "close"
  <2>1. CASE Accept
    BY <1>4, <2>1, FreeDescriptor DEF Accept
  <2>2. CASE ConnectToSelf
    BY <1>4, <2>2, FreeDescriptor DEF ConnectToSelf
  <2>3. ~NotifyClient
    BY <1>3 DEF NotifyClient, Before, Accepting
  <2>4. ASSUME NEW c \in Client, CloseSocket(c) PROVE c \in threads /\ sub[c] = "close"
    BY <1>3, <1>5, <2>4 DEF CloseSocket
  <2>. QED
    BY <1>6, <2>1, <2>2, <2>3, <2>4, TableStep
\* The sub-workers.
<1>8. \/ UNCHANGED sub
      \/ SpawnSubWorker
      \/ \E c \in threads :
            /\ sub[c] \in Inside => sub'[c] \in Inside \cup {"exit", "erase"}
            /\ sub[c] \notin Inside => sub'[c] \notin Inside
            /\ sub'[c] \notin {"closeSearch", "eraseSearch"}
            /\ \A d \in Client \ {c} : sub'[d] = sub[d]
            /\ table' # table => sub'[c] = "erase"
  <2>1. ASSUME NEW c \in Client, CallRecv(c)
        PROVE  sub[c] = "loop" /\ sub'[c] = "recv" /\ table' = table
    <3>1. table[sock[c]] # Free
      BY <1>3, <1>5, <2>1, ConnectionAssumption DEF CallRecv
    <3>. QED
      BY <1>4, <2>1, <3>1 DEF CallRecv
  <2>2. ASSUME NEW c \in Client,
               \/ ReceiveRequest(c) \/ ReceiveQuit(c) \/ ReceiveShutDownSuccessful(c)
               \/ RecvEndOfFile(c)
        PROVE  sub[c] = "recv" /\ sub'[c] \in Inside \cup {"exit"} /\ table' = table
    BY <1>4, <2>2
    DEF Receives, ReceiveRequest, ReceiveQuit, ReceiveShutDownSuccessful, RecvEndOfFile
  <2>3. ASSUME NEW c \in Client, ReplyToIndex(c) \/ ReplyToSearch(c)
        PROVE  sub[c] \in {"index", "search"} /\ sub'[c] = "loop" /\ table' = table
    <3>1. sub[c] \in {"index", "search"} /\ table' = table
      BY <2>3 DEF ReplyToIndex, ReplyToSearch
    <3>2. table[sock[c]] # Free
      BY <1>3, <1>5, <3>1, ConnectionAssumption
    <3>3. ~SendFails(sock[c])
      BY <1>2, <3>2, UndisturbedSend
    <3>. QED
      BY <1>4, <2>3, <3>1, <3>3 DEF ReplyToIndex, ReplyToSearch
  <2>4. ASSUME NEW c \in Client, CloseSocket(c)
        PROVE  sub[c] = "close" /\ sub'[c] = "erase"
    BY <1>3, <1>4, <1>5, <2>4 DEF CloseSocket
  <2>5. ASSUME NEW c \in Client, EraseClient(c)
        PROVE  sub[c] = "erase" /\ sub'[c] = "exit" /\ table' = table
    BY <1>3, <1>4, <1>5, <2>5 DEF EraseClient
  <2>6. ASSUME NEW c \in Client,
               \/ CallRecv(c) \/ ReceiveRequest(c) \/ ReceiveQuit(c)
               \/ ReceiveShutDownSuccessful(c) \/ RecvEndOfFile(c)
               \/ ReplyToIndex(c) \/ ReplyToSearch(c) \/ CloseSocket(c) \/ EraseClient(c)
        PROVE  \A d \in Client \ {c} : sub'[d] = sub[d]
    BY <1>4, <2>6
    DEF CallRecv, Receives, ReceiveRequest, ReceiveQuit, ReceiveShutDownSuccessful,
        RecvEndOfFile, ReplyToIndex, ReplyToSearch, CloseSocket, EraseClient
  <2>7. ASSUME NEW c \in Client,
               \/ CallRecv(c) \/ ReceiveRequest(c) \/ ReceiveQuit(c)
               \/ ReceiveShutDownSuccessful(c) \/ RecvEndOfFile(c)
               \/ ReplyToIndex(c) \/ ReplyToSearch(c) \/ CloseSocket(c) \/ EraseClient(c)
        PROVE  /\ c \in threads
               /\ sub[c] \in Inside => sub'[c] \in Inside \cup {"exit", "erase"}
               /\ sub[c] \notin Inside => sub'[c] \notin Inside
               /\ sub'[c] \notin {"closeSearch", "eraseSearch"}
               /\ table' # table => sub'[c] = "erase"
    <3>1. sub[c] # "none"
      BY <2>1, <2>2, <2>3, <2>4, <2>5, <2>7
    <3>. QED
      BY <1>5, <2>1, <2>2, <2>3, <2>4, <2>5, <2>7, <3>1
  <2>. QED
    BY <2>6, <2>7, SubStep
<1>9. CASE SpawnSubWorker
  <2>1. addr \in Client /\ addr \notin threads /\ table[clientSock] = addr
    BY <1>3, <1>9 DEF SpawnSubWorker, Greeting, AcceptInv, AcceptedInv
  <2>2. UNCHANGED table
    BY <1>9 DEF SpawnSubWorker
  <2>3. ~Greeting'
    BY <1>9 DEF SpawnSubWorker, Greeting
  <2>. QED
    BY <1>3, <1>4, <1>6, <1>9, <2>1, <2>2, <2>3 DEF SpawnSubWorker
<1>10. CASE UNCHANGED <<threads, sock>> /\ ~SpawnSubWorker
  <2>1. \A c \in threads : sub'[c] \notin {"closeSearch", "eraseSearch"}
    BY <1>3, <1>4, <1>8, <1>10
  <2>2. ASSUME NEW c \in threads, sub'[c] \in Inside PROVE table'[sock[c]] = c
    <3>1. sub[c] \in Inside /\ table[sock[c]] = c /\ c # Free
      BY <1>3, <1>4, <1>8, <1>10, <2>2, ConnectionAssumption
    <3>2. ASSUME NEW d \in threads, CloseSocket(d), sub[d] = "close"
          PROVE  table'[sock[c]] = c
      <4>1. d # c
        BY <1>4, <2>2, <3>2 DEF CloseSocket
      <4>2. table[sock[d]] = d
        BY <1>3, <3>2
      <4>3. sock[d] # sock[c]
        BY <3>1, <4>1, <4>2
      <4>. QED
        BY <1>4, <3>1, <3>2, <4>3 DEF CloseSocket, CloseFd
    <3>3. ASSUME NEW fd \in Fd, table[fd] = Free, \A g \in Fd \ {fd} : table'[g] = table[g]
          PROVE  table'[sock[c]] = c
      BY <1>4, <3>1, <3>3
    <3>. QED
      BY <1>7, <3>1, <3>2, <3>3
  <2>3. ASSUME Greeting' PROVE table'[clientSock'] = addr'
    <3>1. CASE Accept
      BY <1>4, <3>1, FreeDescriptor DEF Accept
    <3>2. CASE Greeting /\ UNCHANGED <<clientSock, addr>>
      <4>1. addr \notin threads /\ table[clientSock] = addr /\ addr # Free
        BY <1>3, <3>2, ConnectionAssumption DEF AcceptInv, AcceptedInv
      <4>2. ASSUME NEW d \in threads, CloseSocket(d), sub[d] = "close"
            PROVE  table'[clientSock] = addr
        <5>1. table[sock[d]] = d /\ d # addr
          BY <1>3, <4>1, <4>2
        <5>. QED
          BY <1>4, <4>1, <4>2, <5>1 DEF CloseSocket, CloseFd
      <4>3. ASSUME NEW fd \in Fd, table[fd] = Free, \A g \in Fd \ {fd} : table'[g] = table[g]
            PROVE  table'[clientSock] = addr
        BY <1>4, <4>1, <4>3
      <4>. QED
        BY <1>7, <3>2, <4>1, <4>2, <4>3
    <3>3. \/ Accept
          \/ Greeting /\ UNCHANGED <<clientSock, addr>>
      BY <1>6, <1>10, <2>3, DispatcherStep
      DEF Listen, ListenFails, SendClientName, InsertClient, Greeting, acceptVars
    <3>. QED
      BY <3>1, <3>2, <3>3
  <2>. QED
    BY <1>6, <1>10, <2>1, <2>2, <2>3
<1>. QED
  BY <1>9, <1>10, ThreadsStep

----------------------------------------------------------------------------
(* The entries and the connections                                         *)

LEMMA BeforeStep ==
    ASSUME [Next]_vars, Before'
    PROVE  Before /\ ~NotifyClient /\ ~ClientNameFails
<1>1. ~ClientNameFails
  BY DEF ClientNameFails, Before, Accepting
<1>2. ~((~Before \/ quitCommandExecuted) /\ ~Before' /\ ~Greeting')
  OBVIOUS
<1>3. Before
  BY <1>1, <1>2, DispatcherStep
  DEF Listen, ListenFails, Accept, SendClientName, InsertClient, SpawnSubWorker, Before, Accepting
<1>. QED
  BY <1>1, <1>3 DEF NotifyClient, Before, Accepting

\* A sub-worker keeps the descriptor it was given.
LEMMA ThreadsKeep ==
    ASSUME TypeOK, AcceptInv, [Next]_vars
    PROVE  /\ \A d \in threads : d \in threads' /\ sock'[d] = sock[d]
           /\ \A d \in threads' \ threads :
                 SpawnSubWorker /\ d = addr /\ sock'[d] = clientSock /\ sub'[d] = "loop"
<1>1. /\ threads \subseteq Client /\ sock \in [Client -> Fd]
      /\ sub \in [Client -> {"none", "loop", "recv", "index", "search", "close", "erase",
                             "closeSearch", "eraseSearch", "exit"}]
  BY DEF TypeOK
<1>2. CASE SpawnSubWorker
  <2>1. addr \in Client /\ addr \notin threads
    BY <1>2 DEF SpawnSubWorker, Greeting, AcceptInv, AcceptedInv
  <2>. QED
    BY <1>1, <1>2, <2>1 DEF SpawnSubWorker
<1>3. CASE UNCHANGED <<threads, sock, threadLocalID>>
  BY <1>3
<1>. QED
  BY <1>2, <1>3, ThreadsStep

LEMMA ReusedStays ==
    ASSUME TypeOK, AcceptInv, [Next]_vars, NEW fd, NEW c, Reused(fd, c)
    PROVE  \E d \in threads' \ {c} : sock'[d] = fd
  BY ThreadsKeep DEF Reused

\* Before the dispatcher notifies the clients only sub-workers close connections.
LEMMA TableKeeps ==
    ASSUME TypeOK, AcceptInv, [Next]_vars, Before',
           NEW fd \in Fd, NEW c \in Client, table[fd] = c
    PROVE  table'[fd] = c \/ \E d \in threads : sock[d] = fd /\ CloseSocket(d)
<1>1. table \in [Fd -> Connection] /\ c # Free
  BY ConnectionAssumption DEF TypeOK
<1>2. CASE Accept \/ ConnectToSelf
  BY <1>1, <1>2, FreeDescriptor DEF Accept, ConnectToSelf
<1>3. ASSUME NEW d \in Client, CloseSocket(d)
      PROVE  d \in threads /\ (table'[fd] = c \/ sock[d] = fd)
  <2>1. sub[d] # "none"
    BY <1>3 DEF CloseSocket
  <2>2. d \in threads
    BY <2>1 DEF AcceptInv, ServedInv
  <2>3. table' = [table EXCEPT ![sock[d]] = Free]
    BY <1>3 DEF CloseSocket, CloseFd
  <2>. QED
    BY <1>1, <2>2, <2>3
<1>. QED
  BY <1>2, <1>3, BeforeStep, TableStep

\* A sub-worker that erases does so in its next step.
LEMMA ErasesNext ==
    ASSUME TypeOK, AcceptInv, [Next]_vars, NEW c \in Client, sub[c] \in {"erase", "eraseSearch"}
    PROVE  sub'[c] = sub[c] \/ EraseClient(c)
<1>1. sub \in [Client -> {"none", "loop", "recv", "index", "search", "close", "erase",
                          "closeSearch", "eraseSearch", "exit"}]
  BY DEF TypeOK
<1>2. CASE SpawnSubWorker
  <2>1. addr # c
    BY <1>2 DEF SpawnSubWorker, Greeting, AcceptInv, AcceptedInv, ServedInv
  <2>. QED
    BY <1>1, <1>2, <2>1 DEF SpawnSubWorker
<1>3. ASSUME NEW d \in Client,
             \/ CallRecv(d) \/ ReceiveRequest(d) \/ ReceiveQuit(d)
             \/ ReceiveShutDownSuccessful(d) \/ RecvEndOfFile(d)
             \/ ReplyToIndex(d) \/ ReplyToSearch(d) \/ CloseSocket(d)
      PROVE  sub'[c] = sub[c] \/ EraseClient(c)
  BY <1>1, <1>3
  DEF CallRecv, Receives, ReceiveRequest, ReceiveQuit, ReceiveShutDownSuccessful,
      RecvEndOfFile, ReplyToIndex, ReplyToSearch, CloseSocket
<1>4. ASSUME NEW d \in Client, EraseClient(d), d # c
      PROVE  sub'[c] = sub[c]
  BY <1>1, <1>4 DEF EraseClient
<1>. QED
  BY <1>2, <1>3, <1>4, SubStep

\* Where the entries of the next state come from.
LEMMA EntryOrigin ==
    ASSUME TypeOK, [Next]_vars, NEW fd \in DOMAIN clientList', clientList'[fd].client \in Client
    PROVE  \/ /\ fd \in DOMAIN clientList /\ clientList'[fd] = clientList[fd]
              /\ \A c \in Client : EraseClient(c) => sock[c] # fd
              /\ InsertClient => fd # clientSock
           \/ InsertClient /\ fd = clientSock /\ clientList'[fd].client = addr
<1>1. CASE UNCHANGED clientList /\ (\A c \in Client : ~EraseClient(c)) /\ ~InsertClient
  BY <1>1
<1>2. CASE InsertClient
  <2>1. \A c \in Client : ~EraseClient(c)
    BY <1>2 DEF InsertClient, EraseClient, subVars, TypeOK
  <2>. QED
    BY <1>2, <2>1 DEF InsertClient, SetEntry
<1>3. CASE InsertSelf
  <2>1. ~InsertClient
    BY <1>3 DEF InsertSelf, InsertClient
  <2>2. \A c \in Client : ~EraseClient(c)
    BY <1>3 DEF InsertSelf, EraseClient, subVars, TypeOK
  <2>. QED
    BY <1>3, <2>1, <2>2, ConnectionAssumption DEF InsertSelf, SetEntry
<1>4. ASSUME NEW c \in Client, EraseClient(c)
      PROVE  /\ fd \in DOMAIN clientList /\ clientList'[fd] = clientList[fd] /\ ~InsertClient
             /\ \A d \in Client : EraseClient(d) => sock[d] # fd
  <2>1. ~InsertClient
    BY <1>4 DEF InsertClient, EraseClient
  <2>2. \A d \in Client : EraseClient(d) => sock[d] # fd
    BY <1>4 DEF EraseClient, EraseEntry, Restrict
  <2>. QED
    BY <1>4, <2>1, <2>2 DEF EraseClient, EraseEntry, Restrict
<1>. QED
  BY <1>1, <1>2, <1>3, <1>4, ListStep

LEMMA EntryInvInit == Init => EntryInv
  BY DEF Init, EntryInv, Greeting

\* The connection accepted last is open until the sub-worker of an earlier client
\* with its descriptor closes it.
LEMMA AcceptedStaysOpen ==
    ASSUME TypeOK, AcceptInv, EntryInv, [Next]_vars, Before', Greeting'
    PROVE  table'[clientSock'] = addr' \/ \E d \in threads' \ {addr'} : sock'[d] = clientSock'
<1>1. CASE Accept
  <2>1. table \in [Fd -> Connection]
    BY DEF TypeOK
  <2>. QED
    BY <1>1, <2>1, FreeDescriptor DEF Accept
<1>2. CASE Greeting /\ UNCHANGED <<clientSock, addr>>
  <2>1. addr \in Client /\ addr \notin threads /\ clientSock \in Fd
    BY <1>2 DEF AcceptInv, AcceptedInv, TypeOK
  <2>2. table[clientSock] = addr \/ Reused(clientSock, addr)
    BY <1>2, BeforeStep DEF EntryInv
  <2>3. CASE Reused(clientSock, addr)
    BY <1>2, <2>3, ThreadsKeep DEF Reused
  <2>4. CASE table[clientSock] = addr
    <3>1. table'[clientSock] = addr \/ \E d \in threads : sock[d] = clientSock
      BY <2>1, <2>4, TableKeeps
    <3>. QED
      BY <1>2, <2>1, <3>1, ThreadsKeep
  <2>. QED
    BY <2>2, <2>3, <2>4
<1>3. Accept \/ (Greeting /\ UNCHANGED <<clientSock, addr>>)
  BY BeforeStep, DispatcherStep
  DEF Listen, ListenFails, SendClientName, InsertClient, SpawnSubWorker, Greeting, acceptVars
<1>. QED
  BY <1>1, <1>2, <1>3

LEMMA EntryInvStep == TypeOK /\ AcceptInv /\ EntryInv /\ [Next]_vars => EntryInv'
<1>. SUFFICES ASSUME TypeOK, AcceptInv, EntryInv, [Next]_vars, Before'
              PROVE  EntryInv'
  BY DEF EntryInv
<1>1. Before
  BY BeforeStep
<1>2. /\ threads \subseteq Client /\ DOMAIN clientList \subseteq Fd /\ clientSock \in Fd
  BY DEF TypeOK
<1>3. ASSUME NEW fd \in DOMAIN clientList', NEW c \in Client, clientList'[fd].client = c
      PROVE  /\ \/ table'[fd] = c
                \/ sub'[c] \in {"erase", "eraseSearch"}
                \/ \E d \in threads' \ {c} : sock'[d] = fd
             /\ c \in threads' => sock'[c] = fd
             /\ c \notin threads' => disp' = "spawn" /\ c = addr' /\ fd = clientSock'
  <2>1. CASE /\ fd \in DOMAIN clientList /\ clientList'[fd] = clientList[fd]
             /\ \A d \in Client : EraseClient(d) => sock[d] # fd
             /\ InsertClient => fd # clientSock
    <3>1. /\ \/ table[fd] = c
             \/ sub[c] \in {"erase", "eraseSearch"}
             \/ Reused(fd, c)
          /\ c \in threads => sock[c] = fd
          /\ c \notin threads => disp = "spawn" /\ c = addr /\ fd = clientSock
      BY <1>1, <1>3, <2>1 DEF EntryInv
    <3>2. c \in threads' => sock'[c] = fd
      BY <3>1, ThreadsKeep
    <3>3. c \notin threads' => disp' = "spawn" /\ c = addr' /\ fd = clientSock'
      <4>. SUFFICES ASSUME c \notin threads'
                    PROVE  disp' = "spawn" /\ c = addr' /\ fd = clientSock'
        OBVIOUS
      <4>1. disp = "spawn" /\ c = addr /\ fd = clientSock
        BY <3>1, ThreadsKeep
      <4>2. ~SpawnSubWorker
        BY <4>1 DEF SpawnSubWorker
      <4>. QED
        BY <4>1, <4>2, DispatcherStep, BeforeStep
        DEF Listen, ListenFails, Accept, SendClientName, InsertClient
    <3>4. CASE table[fd] = c
      <4>1. CASE table'[fd] = c
        BY <4>1, <3>2, <3>3
      <4>2. ASSUME NEW d \in threads, sock[d] = fd, CloseSocket(d), d # c
            PROVE  \E e \in threads' \ {c} : sock'[e] = fd
        BY <4>2, ThreadsKeep
      <4>3. CASE CloseSocket(c)
        <5>1. sub'[c] \in {"erase", "eraseSearch"}
          BY <4>3 DEF CloseSocket, TypeOK
        <5>. QED
          BY <5>1, <3>2, <3>3
      <4>. QED
        BY <1>2, <3>2, <3>3, <3>4, <4>1, <4>2, <4>3, <2>1, TableKeeps
    <3>5. CASE sub[c] \in {"erase", "eraseSearch"}
      <4>1. c \in threads
        BY <3>5 DEF AcceptInv, ServedInv
      <4>2. ~EraseClient(c)
        BY <2>1, <3>1, <4>1
      <4>3. sub'[c] = sub[c]
        BY <3>5, <4>2, ErasesNext
      <4>. QED
        BY <3>2, <3>3, <3>5, <4>3
    <3>6. CASE Reused(fd, c)
      BY <3>2, <3>3, <3>6, ReusedStays
    <3>. QED
      BY <3>1, <3>4, <3>5, <3>6
  <2>2. CASE InsertClient /\ fd = clientSock /\ clientList'[fd].client = addr
    <3>1. c = addr /\ UNCHANGED <<threads, sock, table, clientSock, addr>> /\ disp' = "spawn"
      BY <1>3, <2>2 DEF InsertClient, acceptVars, subVars
    <3>2. Greeting /\ c \notin threads
      BY <2>2, <3>1 DEF InsertClient, Greeting, AcceptInv, AcceptedInv
    <3>3. table[clientSock] = addr \/ Reused(clientSock, addr)
      BY <1>1, <3>2 DEF EntryInv
    <3>. QED
      BY <2>2, <3>1, <3>2, <3>3 DEF Reused
  <2>. QED
    BY <1>3, <2>1, <2>2, EntryOrigin
<1>4. Greeting' => table'[clientSock'] = addr'
                   \/ \E d \in threads' \ {addr'} : sock'[d] = clientSock'
  BY AcceptedStaysOpen
<1>5. ASSUME NEW fd \in DOMAIN clientList', clientList'[fd].client \in Client
      PROVE  LET c == clientList'[fd].client
             IN  /\ \/ table'[fd] = c
                    \/ sub'[c] \in {"erase", "eraseSearch"}
                    \/ \E d \in threads' \ {c} : sock'[d] = fd
                 /\ c \in threads' => sock'[c] = fd
                 /\ c \notin threads' => disp' = "spawn" /\ c = addr' /\ fd = clientSock'
  BY <1>3, <1>5
<1>. QED
  BY <1>4, <1>5 DEF EntryInv, Reused

----------------------------------------------------------------------------
(* Who is served is listed                                                 *)

LEMMA ListInvInit == Init => ListInv
  BY DEF Init, ListInv

Receiving == {"loop", "recv", "index", "search"}

\* The way of a sub-worker.
LEMMA WorkerStep ==
    ASSUME TypeOK, AcceptInv, [Next]_vars, NEW c \in threads
    PROVE  \/ sub'[c] = sub[c]
           \/ sub[c] \in Receiving /\ sub'[c] \in Receiving \cup {"close", "exit"}
           \/ sub[c] = "search" /\ sub'[c] = "closeSearch" /\ SendFails(sock[c])
           \/ sub[c] = "close" /\ sub'[c] = "erase"
           \/ sub[c] = "closeSearch" /\ sub'[c] = "eraseSearch"
           \/ sub[c] = "erase" /\ sub'[c] = "exit"
           \/ sub[c] = "eraseSearch" /\ sub'[c] = "loop"
<1>1. /\ c \in Client
      /\ sub \in [Client -> {"none", "loop", "recv", "index", "search", "close", "erase",
                             "closeSearch", "eraseSearch", "exit"}]
  BY DEF TypeOK
<1>2. CASE SpawnSubWorker
  <2>1. addr # c
    BY <1>2 DEF SpawnSubWorker, Greeting, AcceptInv, AcceptedInv
  <2>. QED
    BY <1>1, <1>2, <2>1 DEF SpawnSubWorker
<1>3. ASSUME NEW d \in Client, d # c,
             \/ CallRecv(d) \/ ReceiveRequest(d) \/ ReceiveQuit(d)
             \/ ReceiveShutDownSuccessful(d) \/ RecvEndOfFile(d)
             \/ ReplyToIndex(d) \/ ReplyToSearch(d) \/ CloseSocket(d) \/ EraseClient(d)
      PROVE  sub'[c] = sub[c]
  BY <1>1, <1>3
  DEF CallRecv, Receives, ReceiveRequest, ReceiveQuit, ReceiveShutDownSuccessful,
      RecvEndOfFile, ReplyToIndex, ReplyToSearch, CloseSocket, EraseClient
<1>4. CASE \/ CallRecv(c) \/ ReceiveRequest(c) \/ ReceiveQuit(c)
           \/ ReceiveShutDownSuccessful(c) \/ RecvEndOfFile(c) \/ ReplyToIndex(c)
  BY <1>1, <1>4
  DEF CallRecv, Receives, ReceiveRequest, ReceiveQuit, ReceiveShutDownSuccessful,
      RecvEndOfFile, ReplyToIndex, Receiving
<1>5. CASE ReplyToSearch(c)
  BY <1>1, <1>5 DEF ReplyToSearch, Receiving
<1>6. CASE CloseSocket(c) \/ EraseClient(c)
  BY <1>1, <1>6 DEF CloseSocket, EraseClient
<1>. QED
  BY <1>1, <1>2, <1>3, <1>4, <1>5, <1>6, SubStep

\* A lost client stays lost.
LEMMA LostStays ==
    ASSUME TypeOK, AcceptInv, [Next]_vars, NEW c \in threads, Lost(c)
    PROVE  c \in Client /\ (client'[c] = "gone" \/ \E d \in threads' \ {c} : sock'[d] = sock'[c])
<1>1. c \in Client
  BY DEF TypeOK
<1>2. CASE Gone(c)
  BY <1>1, <1>2, ClientStep DEF Gone
<1>3. CASE Reused(sock[c], c)
  BY <1>1, <1>3, ThreadsKeep DEF Reused
<1>. QED
  BY <1>1, <1>2, <1>3 DEF Lost

\* An entry stays until it is erased or overwritten.
LEMMA EntryStays ==
    ASSUME TypeOK, AcceptInv, [Next]_vars, ~quitCommandExecuted',
           NEW fd \in DOMAIN clientList
    PROVE  \/ fd \in DOMAIN clientList' /\ clientList'[fd] = clientList[fd]
           \/ InsertClient /\ clientSock = fd
           \/ \E d \in threads : sock[d] = fd /\ EraseClient(d)
<1>1. ~quitCommandExecuted
  BY QuitInvStep DEF AcceptInv
<1>2. ~InsertSelf
  BY <1>1 DEF InsertSelf, AcceptInv, QuitInv
<1>3. CASE InsertClient
  BY <1>3 DEF InsertClient, SetEntry
<1>4. ASSUME NEW d \in Client, EraseClient(d)
      PROVE  d \in threads /\ (\/ fd \in DOMAIN clientList' /\ clientList'[fd] = clientList[fd]
                               \/ sock[d] = fd)
  <2>1. d \in threads
    BY <1>4 DEF EraseClient, AcceptInv, ServedInv
  <2>. QED
    BY <1>4, <2>1 DEF EraseClient, EraseEntry, Restrict
<1>. QED
  BY <1>2, <1>3, <1>4, ListStep

LEMMA ListInvStep == TypeOK /\ AcceptInv /\ EntryInv /\ ListInv /\ [Next]_vars => ListInv'
<1>. SUFFICES ASSUME TypeOK, AcceptInv, EntryInv, ListInv, [Next]_vars,
                     Before', ~quitCommandExecuted'
              PROVE  ListInv'
  BY DEF ListInv
<1>1. Before /\ ~quitCommandExecuted
  BY BeforeStep, QuitInvStep DEF AcceptInv
<1>2. /\ threads \subseteq Client /\ DOMAIN clientList \subseteq Fd /\ clientSock \in Fd
      /\ sock \in [Client -> Fd] /\ table \in [Fd -> Connection]
      /\ sub \in [Client -> {"none", "loop", "recv", "index", "search", "close", "erase",
                             "closeSearch", "eraseSearch", "exit"}]
  BY DEF TypeOK
<1>. DEFINE Lost1(c) == client'[c] = "gone" \/ \E d \in threads' \ {c} : sock'[d] = sock'[c]
            Goal(c) ==
              /\ sub'[c] \in Receiving =>
                    \/ sock'[c] \in DOMAIN clientList' /\ clientList'[sock'[c]].client = c
                    \/ Lost1(c)
              /\ sub'[c] \in Receiving \cup {"close", "closeSearch"} =>
                    table'[sock'[c]] = c \/ Lost1(c)
              /\ sub'[c] \in {"closeSearch", "eraseSearch"} => Lost1(c)
              /\ Greeting' /\ sock'[c] = clientSock' => sub'[c] \in {"erase", "exit"} \/ Lost1(c)
<1>3. ASSUME NEW c \in threads PROVE Goal(c)
  <2>1. CASE Lost(c)
    BY <2>1, LostStays
  <2>2. CASE ~Lost(c)
    <3>1. /\ sub[c] \in Receiving => /\ sock[c] \in DOMAIN clientList
                                     /\ clientList[sock[c]].client = c
          /\ sub[c] \in Receiving \cup {"close", "closeSearch"} => table[sock[c]] = c
          /\ sub[c] \notin {"closeSearch", "eraseSearch"}
          /\ Greeting /\ sock[c] = clientSock => sub[c] \in {"erase", "exit"}
      BY <1>1, <2>2 DEF ListInv, Receiving
    <3>2. c \in Client /\ c # Free /\ sub[c] # "none" /\ sock'[c] = sock[c] /\ sock[c] \in Fd
      BY <1>2, ConnectionAssumption, ThreadsKeep DEF AcceptInv, ServedInv
    <3>3. \A d \in threads : sock[d] = sock[c] => d = c
      BY <2>2 DEF Lost, Reused
    \* PerformWordsSearch gives no open connection up.
    <3>4. sub[c] = "search" => ~SendFails(sock[c])
      <4>. SUFFICES ASSUME sub[c] = "search", SendFails(sock[c]) PROVE FALSE
        OBVIOUS
      <4>1. table[sock[c]] = c
        BY <3>1 DEF Receiving
      <4>2. Gone(c)
        BY <3>2, <4>1 DEF SendFails, Resetting
      <4>. QED
        BY <2>2, <4>2 DEF Lost
    <3>5. \/ sub'[c] = sub[c]
          \/ sub[c] \in Receiving /\ sub'[c] \in Receiving \cup {"close", "exit"}
          \/ sub[c] = "close" /\ sub'[c] = "erase"
          \/ sub[c] = "erase" /\ sub'[c] = "exit"
      BY <3>1, <3>4, WorkerStep
    <3>6. ASSUME sub'[c] \in Receiving
          PROVE  sock'[c] \in DOMAIN clientList' /\ clientList'[sock'[c]].client = c
      <4>1. sub[c] \in Receiving
        BY <3>5, <3>6 DEF Receiving
      <4>2. ~(InsertClient /\ clientSock = sock[c])
        BY <3>1, <4>1 DEF InsertClient, Greeting, Receiving
      <4>3. \A d \in threads : sock[d] = sock[c] => ~EraseClient(d)
        BY <3>3, <4>1 DEF EraseClient, Receiving
      <4>. QED
        BY <3>1, <3>2, <4>1, <4>2, <4>3, EntryStays
    <3>7. ASSUME sub'[c] \in Receiving \cup {"close", "closeSearch"}
          PROVE  table'[sock'[c]] = c
      <4>1. table[sock[c]] = c
        BY <3>1, <3>5, <3>7 DEF Receiving
      <4>2. ~CloseSocket(c)
        BY <1>2, <3>2, <3>7 DEF CloseSocket, Receiving
      <4>. QED
        BY <3>2, <3>3, <4>1, <4>2, TableKeeps
    <3>8. sub'[c] \notin {"closeSearch", "eraseSearch"}
      BY <3>1, <3>5 DEF Receiving
    <3>9. ASSUME Greeting', sock'[c] = clientSock' PROVE sub'[c] \in {"erase", "exit"}
      <4>1. CASE Accept
        <5>1. table[sock[c]] = Free /\ sub' = sub
          BY <3>2, <3>9, <4>1, FreeDescriptor DEF Accept, subVars
        <5>. QED
          BY <1>2, <3>1, <3>2, <5>1 DEF Receiving
      <4>2. CASE Greeting /\ UNCHANGED <<clientSock, addr>>
        BY <3>1, <3>2, <3>5, <3>9, <4>2 DEF Receiving
      <4>3. Accept \/ (Greeting /\ UNCHANGED <<clientSock, addr>>)
        BY <3>9, BeforeStep, DispatcherStep
        DEF Listen, ListenFails, SendClientName, InsertClient, SpawnSubWorker, Greeting, acceptVars
      <4>. QED
        BY <4>1, <4>2, <4>3
    <3>. QED
      BY <3>6, <3>7, <3>8, <3>9
  <2>. QED
    BY <2>1, <2>2
<1>4. ASSUME NEW c \in threads', c \notin threads PROVE Goal(c)
  <2>1. SpawnSubWorker /\ c = addr /\ sock'[c] = clientSock /\ sub'[c] = "loop"
    BY <1>4, ThreadsKeep
  <2>2. UNCHANGED <<clientList, table>> /\ disp = "spawn" /\ ~Greeting'
    BY <2>1 DEF SpawnSubWorker, Greeting
  <2>3. \/ clientSock \in DOMAIN clientList /\ clientList[clientSock].client = addr
        \/ Reused(clientSock, addr)
    BY <1>1, <2>2 DEF ListInv
  <2>4. table[clientSock] = addr \/ Reused(clientSock, addr)
    BY <1>1, <2>2 DEF EntryInv, Greeting
  <2>5. Reused(clientSock, addr) => Lost1(c)
    BY <2>1, ThreadsKeep DEF Reused
  <2>. QED
    BY <2>1, <2>2, <2>3, <2>4, <2>5
<1>5. ASSUME disp' = "spawn"
      PROVE  \/ clientSock' \in DOMAIN clientList' /\ clientList'[clientSock'].client = addr'
             \/ \E d \in threads' \ {addr'} : sock'[d] = clientSock'
  <2>1. CASE InsertClient
    BY <2>1 DEF InsertClient, SetEntry, acceptVars
  <2>2. CASE disp = "spawn" /\ UNCHANGED <<clientSock, addr>>
    <3>1. addr \notin threads
      BY <2>2 DEF AcceptInv, AcceptedInv, Greeting
    <3>2. CASE Reused(clientSock, addr)
      BY <2>2, <3>2, ThreadsKeep DEF Reused
    <3>3. CASE clientSock \in DOMAIN clientList /\ clientList[clientSock].client = addr
      <4>1. ~InsertClient
        BY <2>2 DEF InsertClient
      <4>2. \/ clientSock \in DOMAIN clientList' /\ clientList'[clientSock] = clientList[clientSock]
            \/ \E d \in threads : sock[d] = clientSock
        BY <3>3, <4>1, EntryStays
      <4>. QED
        BY <2>2, <3>1, <3>3, <4>2, ThreadsKeep
    <3>. QED
      BY <1>1, <2>2, <3>2, <3>3 DEF ListInv
  <2>3. InsertClient \/ (disp = "spawn" /\ UNCHANGED <<clientSock, addr>>)
    BY <1>5, BeforeStep, DispatcherStep
    DEF Listen, ListenFails, Accept, SendClientName, SpawnSubWorker
  <2>. QED
    BY <2>1, <2>2, <2>3
<1>6. \A c \in threads' : Goal(c) /\ c \in Client
  BY <1>3, <1>4, TypeOKStep DEF TypeOK
<1>. QED
  BY <1>5, <1>6 DEF ListInv, Lost, Gone, Reused, Receiving

----------------------------------------------------------------------------
(* The theorems                                                            *)

\* The invariant of the connections: every client is away, in the backlog,
\* accepted or served; descriptors and entries belong to sub-workers.
THEOREM ServerInvariant == Spec => []ServerInv
<1>1. Init => ServerInv
  BY TypeOKInit, AcceptInvInit, OwnInvInit, EntryInvInit, ListInvInit DEF ServerInv
<1>2. ServerInv /\ [Next]_vars => ServerInv'
  BY TypeOKStep, AcceptInvStep, OwnInvStep, EntryInvStep, ListInvStep DEF ServerInv
<1>. QED
  BY <1>1, <1>2, PTL DEF Spec

\* The types of the state: that the number of the next client stays within the
\* number of clients is part of them, and holds because a client is accepted
\* once.
THEOREM ServerTypeCorrect == Spec => []TypeOK
<1>1. ServerInv => TypeOK
  BY DEF ServerInv
<1>. QED
  BY <1>1, ServerInvariant, PTL

\* A sub-worker receives from, sends to and closes the descriptor of its own
\* client as long as no connection was reset and quit is not entered, although
\* descriptors are handed out again as soon as they are closed.
THEOREM DescriptorIsOwn == Spec => []OwnDescriptor
<1>1. ServerInv => OwnDescriptor
  BY DEF ServerInv, OwnInv, OwnDescriptor
<1>. QED
  BY <1>1, ServerInvariant, PTL

\* No entry of the list of clients outlives its connection while the server
\* accepts connections, unless its descriptor was reused.
THEOREM EntriesConnected == Spec => []EntriesAreConnected
<1>1. ServerInv => EntriesAreConnected
  BY DEF ServerInv, EntryInv, Before, EntriesAreConnected
<1>. QED
  BY <1>1, ServerInvariant, PTL

\* A served client is in the list while the server accepts connections, unless
\* its descriptor was reused.
THEOREM ServedListed == Spec => []ListedUnlessReused
<1>1. ServerInv => ListedUnlessReused
  BY DEF ServerInv, ListInv, Before, Serving, Lost, ListedUnlessReused
<1>. QED
  BY <1>1, ServerInvariant, PTL

=============================================================================
