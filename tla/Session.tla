------------------------------ MODULE Session ------------------------------
(***************************************************************************)
(* One client and its sub-worker over the two byte streams of a TCP        *)
(* connection.  Both ends take what a recv returns for one message, but    *)
(* the client has two threads that send (worker and command thread), the   *)
(* server one that answers both, and a recv returns whatever has arrived:  *)
(* several messages at once, the beginning of one, or the first            *)
(* MAX_BUFFER_SIZE - 1 bytes.                                              *)
(*                                                                         *)
(* Bytes are counted in parts: a short message has Short parts, a batch of *)
(* words up to Capacity.  The first part holds the prefix that the server  *)
(* tests.  What the tests on lengths and prefixes and the parsing of the   *)
(* rest make of a chunk is one action per branch.                          *)
(***************************************************************************)
EXTENDS Integers, Sequences, FiniteSets

CONSTANTS
    Capacity,    \* what one recv returns at most (MAX_BUFFER_SIZE - 1)
    Short,       \* the parts of a short message
    BatchParts,  \* the parts a batch may be cut into
    MaxBatches,  \* bound: batches
    MaxFinishes, \* bound: index commands that end
    MaxSearches  \* bound: searches

ASSUME CapacityAssumption == Capacity \in Nat \ {0}
ASSUME ShortAssumption == Short \in 1..Capacity
ASSUME BatchPartsAssumption == BatchParts \subseteq Nat \ {0}
ASSUME BoundsAssumption ==
    MaxBatches \in Nat /\ MaxFinishes \in Nat /\ MaxSearches \in Nat

VARIABLES
    main,         \* the command thread: "idle", "wait" for a reply, "quit"
    worker,       \* the local worker: "fill" or "await"
    reader,       \* GetDataFromServer: "recv" or "exit"
    server,       \* "serving", "closing", "left", "aborted"
    inserting,    \* the batch the sub-worker has answered and now inserts, as
                  \* received, <<>> when it receives
    dataSuccessfullyReceived,
    searchBuffer, \* a reply has been stored
    up,           \* parts on their way to the server
    down,         \* messages on their way to the client
    sent,         \* history: batches sent,
    acked,        \*   taken for acknowledged by the worker,
    stored,       \*   and how many parts of each the server has stored
    finishes,     \* how many index commands have ended
    searches      \* how many searches were sent

clientVars == <<main, worker, reader, dataSuccessfullyReceived, searchBuffer>>
serverVars == <<server, inserting>>
countVars == <<sent, acked, stored, finishes, searches>>
vars == <<clientVars, serverVars, up, down, countVars>>

UpKinds == {"Index", "Finished", "Search", "quit", "Client-ShutDown-Successful"}
\* "rest" is what a recv may cut from a reply that is longer than a segment.
DownKinds == {"ClientName", "Success", "Success-Search", "rest", "Server-ShutDown"}

Part == [kind : UpKinds, no : Nat, part : Nat \ {0}, of : Nat \ {0}]

\* The n parts of a message; no is the number of a batch.
Message(kind, no, n) ==
    [i \in 1..n |-> [kind |-> kind, no |-> no, part |-> i, of |-> n]]
ShortMessage(kind) == Message(kind, 0, Short)

\* The types of the state.
TypeOK ==
    /\ main \in {"idle", "wait", "quit"}
    /\ worker \in {"fill", "await"}
    /\ reader \in {"recv", "exit"}
    /\ server \in {"serving", "closing", "left", "aborted"}
    /\ dataSuccessfullyReceived \in BOOLEAN /\ searchBuffer \in BOOLEAN
    /\ inserting \in Seq(Part)
    /\ up \in Seq(Part) /\ down \in Seq(DownKinds)
    /\ sent \in 0..MaxBatches /\ acked \in 0..sent
    /\ stored \in [1..MaxBatches -> Nat]
    /\ finishes \in 0..MaxFinishes /\ searches \in 0..MaxSearches

\* The client is connected, and its name under way.
Init ==
    /\ main = "idle"
    /\ worker = "fill"
    /\ reader = "recv"
    /\ server = "serving"
    /\ inserting = <<>>
    /\ dataSuccessfullyReceived = FALSE
    /\ searchBuffer = FALSE
    /\ up = <<>>
    /\ down = <<"ClientName">>
    /\ sent = 0
    /\ acked = 0
    /\ stored = [b \in 1..MaxBatches |-> 0]
    /\ finishes = 0
    /\ searches = 0

----------------------------------------------------------------------------
(* The client sends                                                        *)

CanSend == reader = "recv" /\ main # "quit"

\* What the worker puts into a buffer fits into the buffer of a recv.
Fits(n) == n <= Capacity

SendBatch ==
    /\ worker = "fill"
    /\ CanSend
    /\ sent < MaxBatches
    /\ \E n \in BatchParts : Fits(n) /\ up' = up \o Message("Index", sent + 1, n)
    /\ sent' = sent + 1
    /\ worker' = "await"
    /\ UNCHANGED <<main, reader, serverVars, dataSuccessfullyReceived, searchBuffer, down,
                   acked, stored, finishes, searches>>

\* Variant: the flag is not reset.
KeepAcknowledgement ==
    /\ worker = "await"
    /\ dataSuccessfullyReceived
    /\ acked' = acked + 1
    /\ worker' = "fill"
    /\ UNCHANGED <<main, reader, serverVars, dataSuccessfullyReceived, searchBuffer, up, down,
                   sent, stored, finishes, searches>>

\* The spinning worker sees the flag and resets it.
TakeAcknowledgement ==
    /\ worker = "await"
    /\ dataSuccessfullyReceived
    /\ dataSuccessfullyReceived' = FALSE
    /\ acked' = acked + 1
    /\ worker' = "fill"
    /\ UNCHANGED <<main, reader, serverVars, searchBuffer, up, down, sent, stored, finishes,
                   searches>>

\* indexFiles ends when the deque is empty, whatever the worker still sends.
SendFinished ==
    /\ main = "idle"
    /\ CanSend
    /\ finishes < MaxFinishes
    /\ finishes' = finishes + 1
    /\ up' = up \o ShortMessage("Finished")
    /\ UNCHANGED <<clientVars, serverVars, down, sent, acked, stored, searches>>

SendSearch ==
    /\ main = "idle"
    /\ CanSend
    /\ searches < MaxSearches
    /\ searches' = searches + 1
    /\ up' = up \o ShortMessage("Search")
    /\ main' = "wait"
    /\ UNCHANGED <<worker, reader, serverVars, dataSuccessfullyReceived, searchBuffer, down,
                   sent, acked, stored, finishes>>

\* A reply is decoded, or the wait given up after the end of the connection.
LeaveSearch ==
    /\ main = "wait"
    /\ searchBuffer \/ reader = "exit"
    /\ searchBuffer' = FALSE
    /\ main' = "idle"
    /\ UNCHANGED <<worker, reader, serverVars, dataSuccessfullyReceived, up, down, countVars>>

\* quit is sent; what the threads do then is the subject of ClientSideEngine.
SendQuit ==
    /\ main = "idle"
    /\ CanSend
    /\ up' = up \o ShortMessage("quit")
    /\ main' = "quit"
    /\ UNCHANGED <<worker, reader, serverVars, dataSuccessfullyReceived, searchBuffer, down,
                   countVars>>

----------------------------------------------------------------------------
(* The sub-worker receives                                                 *)

\* A recv returns any beginning of what was sent, up to a full buffer.  Only a
\* short message that stands at the front is one segment and comes whole.
Received(k) ==
    /\ k \in 1..Len(up) \cap 1..Capacity
    /\ up[1].kind \notin {"Index", "Search"} /\ up[1].part = 1 => up[1].of <= k

Chunk(k) == SubSeq(up, 1, k)
Consume(k) == up' = SubSeq(up, k + 1, Len(up))
BeginsWith(k, kind) == Chunk(k)[1].kind = kind /\ Chunk(k)[1].part = 1

serverUnchanged == <<clientVars, sent, acked, finishes, searches>>

\* numBytes == 4 and quit.
ReceiveQuit(k) ==
    /\ Chunk(k) = ShortMessage("quit")
    /\ Consume(k)
    /\ server' = "left"
    /\ UNCHANGED <<serverUnchanged, inserting, down, stored>>

\* The prefix Index:.  Success is sent before anything is inserted.
ReceiveIndex(k) ==
    /\ BeginsWith(k, "Index")
    /\ Consume(k)
    /\ down' = Append(down, "Success")
    /\ inserting' = Chunk(k)
    /\ UNCHANGED <<serverUnchanged, server, stored>>

\* What stands in a chunk behind the batch it begins with.
Behind(chunk) == SubSeq(chunk, chunk[1].of + 1, Len(chunk))

\* The words are inserted by threes as far as they were received, and what
\* stands behind the batch is read as threes too: the third word of "Finished
\* indexing client side." is not a number, which ends the server, and so may
\* the words of a query.
InsertBatch ==
    /\ inserting # <<>>
    /\ inserting' = <<>>
    /\ stored' = [stored EXCEPT ![inserting[1].no] = Len(inserting) - Len(Behind(inserting))]
    /\ LET rest == Behind(inserting)
       IN  \/ /\ \E i \in DOMAIN rest : rest[i].kind \in {"Finished", "Search"}
              /\ server' = "aborted"
           \/ /\ ~\E i \in DOMAIN rest : /\ rest[i].kind = "Finished"
                                          /\ rest[i].part = rest[i].of
              /\ UNCHANGED server
    /\ UNCHANGED <<serverUnchanged, up, down>>


\* The prefix Search:.  What stands behind is taken for more words of the query.
ReceiveSearch(k) ==
    /\ BeginsWith(k, "Search")
    /\ Consume(k)
    /\ down' \in {Append(down, "Success-Search"), down \o <<"Success-Search", "rest">>}
    /\ UNCHANGED <<serverUnchanged, serverVars, stored>>

\* numBytes == 26 and Client-ShutDown-Successful.
ReceiveShutDownSuccessful(k) ==
    /\ Chunk(k) = ShortMessage("Client-ShutDown-Successful")
    /\ Consume(k)
    /\ server' = "left"
    /\ UNCHANGED <<serverUnchanged, inserting, down, stored>>

\* The end of an index command is only printed, and everything else, the rest
\* of a message or short messages that came together, is lost.
ReceiveOther(k) ==
    /\ ~BeginsWith(k, "Index") /\ ~BeginsWith(k, "Search")
    /\ Chunk(k) \notin {ShortMessage("quit"), ShortMessage("Client-ShutDown-Successful")}
    /\ Consume(k)
    /\ UNCHANGED <<serverUnchanged, serverVars, down, stored>>

\* After the close no send succeeds, and no recv but one that had begun: what
\* that returns is not answered, and nothing of it is inserted.
Leave ==
    /\ server = "closing"
    /\ inserting = <<>>
    /\ server' = "left"
    /\ UNCHANGED up \/ \E k \in 1..Len(up) : Received(k) /\ Consume(k)
    /\ UNCHANGED <<serverUnchanged, inserting, down, stored>>

SubWorkerStep ==
    \/ server \in {"serving", "closing"} /\ InsertBatch
    \/ /\ server = "serving"
       /\ inserting = <<>>
       /\ \E k \in 1..Len(up) :
             /\ Received(k)
             /\ \/ ReceiveQuit(k) \/ ReceiveIndex(k) \/ ReceiveSearch(k)
                \/ ReceiveShutDownSuccessful(k) \/ ReceiveOther(k)
    \/ Leave

\* quit at the server: Server-ShutDown is sent and the descriptor closed, while
\* the sub-worker may be anywhere in its loop.
ShutDown ==
    /\ server = "serving"
    /\ server' = "closing"
    /\ down' = Append(down, "Server-ShutDown")
    /\ UNCHANGED <<clientVars, inserting, up, countVars>>

----------------------------------------------------------------------------
(* GetDataFromServer receives                                              *)

ConsumeDown(k) == down' = SubSeq(down, k + 1, Len(down))

\* Variant: only the prefix is compared.
ReceiveSuccessPrefix(k) ==
    /\ down[1] \in {"Success", "Success-Search"}
    /\ ConsumeDown(k)
    /\ dataSuccessfullyReceived' = TRUE
    /\ UNCHANGED <<main, worker, reader, searchBuffer, serverVars, up, countVars>>

\* Seven bytes, Success.
ReceiveSuccess(k) ==
    /\ SubSeq(down, 1, k) = <<"Success">>
    /\ ConsumeDown(k)
    /\ dataSuccessfullyReceived' = TRUE
    /\ UNCHANGED <<main, worker, reader, searchBuffer, serverVars, up, countVars>>

\* The prefix Success-Search.  What stands behind is ignored by the decoding.
ReceiveReply(k) ==
    /\ down[1] = "Success-Search"
    /\ ConsumeDown(k)
    /\ searchBuffer' = TRUE
    /\ UNCHANGED <<main, worker, reader, dataSuccessfullyReceived, serverVars, up, countVars>>

\* Fifteen bytes, Server-ShutDown.
ReceiveServerShutDown(k) ==
    /\ SubSeq(down, 1, k) = <<"Server-ShutDown">>
    /\ ConsumeDown(k)
    /\ reader' = "exit"
    /\ up' = IF main = "quit" THEN up ELSE up \o ShortMessage("Client-ShutDown-Successful")
    /\ UNCHANGED <<main, worker, dataSuccessfullyReceived, searchBuffer, serverVars, countVars>>

\* The prefix of a name, behind which nothing is looked at, or the rest of a
\* reply or messages that came together, which are not known.
ReceiveUnknown(k) ==
    /\ down[1] # "Success-Search"
    /\ SubSeq(down, 1, k) \notin {<<"Success">>, <<"Server-ShutDown">>}
    /\ ConsumeDown(k)
    /\ UNCHANGED <<clientVars, serverVars, up, countVars>>

ReaderStep ==
    /\ reader = "recv"
    /\ \E k \in 1..Len(down) :
        ReceiveSuccess(k) \/ ReceiveReply(k) \/ ReceiveServerShutDown(k) \/ ReceiveUnknown(k)

\* When the other end has gone a send or a recv fails, and closeConnection ends
\* the loop of the reader.
ConnectionFails ==
    /\ server \in {"left", "aborted"}
    /\ reader = "recv"
    /\ reader' = "exit"
    /\ UNCHANGED <<main, worker, dataSuccessfullyReceived, searchBuffer, serverVars, up, down,
                   countVars>>

Next ==
    \/ SendBatch \/ TakeAcknowledgement
    \/ SendFinished \/ SendSearch \/ LeaveSearch \/ SendQuit
    \/ SubWorkerStep \/ ShutDown \/ ReaderStep \/ ConnectionFails

Spec == Init /\ [][Next]_vars

\* The threads that have something to do are scheduled; no command is owed.
FairSpec ==
    /\ Spec
    /\ WF_vars(TakeAcknowledgement)
    /\ WF_vars(LeaveSearch)
    /\ WF_vars(SubWorkerStep)
    /\ WF_vars(ReaderStep)

----------------------------------------------------------------------------
(* Properties                                                              *)

\* How many acknowledgements are owed, under way or not yet taken.
Outstanding ==
    Cardinality({i \in DOMAIN up : up[i].kind = "Index" /\ up[i].part = 1})
    + Cardinality({i \in DOMAIN down : down[i] = "Success"})
    + (IF dataSuccessfullyReceived THEN 1 ELSE 0)

\* A worker that waits waits for one acknowledgement at most, and while it does
\* not wait there is none it could take for a later batch's, in spite of the
\* messages of the command thread between.
AcknowledgedInStep == Outstanding <= (IF worker = "await" THEN 1 ELSE 0)

\* Success is sent before the first insertion and for what one recv returned.
\* Of every batch the worker takes for acknowledged the beginning has been
\* stored, or the batch is being inserted; as the sub-worker receives nothing
\* until it has inserted it, a search finds of every batch acknowledged before
\* as much as a recv returned.  The rest of a batch that a recv cuts is lost.
AcknowledgedIsStored ==
    \A b \in 1..acked : \/ stored[b] > 0
                        \/ inserting # <<>> /\ inserting[1].no = b


=============================================================================
