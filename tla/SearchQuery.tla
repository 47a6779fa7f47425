---------------------------- MODULE SearchQuery ----------------------------
(***************************************************************************)
(* One search request, end to end: the client sends the words of a query   *)
(* and waits (ClientSideEngine::searchFiles), the sub-worker of its        *)
(* connection looks the words up one after the other and combines what it  *)
(* finds (PerformWordsSearch), sends one reply, and the client decodes it  *)
(* into the list it prints.  Either send may fail, and another thread of   *)
(* the client may close the connection at any time; a closed connection    *)
(* is not opened again here (ClientSideEngine models that).  Other         *)
(* sub-workers insert into the same store meanwhile.                       *)
(*                                                                         *)
(* The local engine's ProcessingEngine::searchFiles combines lookups the   *)
(* same way and keys its result list by score as the client does.          *)
(***************************************************************************)
EXTENDS IndexStore, Sequences

CONSTANTS
    Searcher,   \* the sub-workers whose client searches
    Query,      \* the queries the clients send: sequences of words
    Oversized   \* the sets of documents that do not fit into MAX_BUFFER_SIZE - 1 bytes

ASSUME SearcherAssumption == Searcher \subseteq Thread
ASSUME QueryAssumption == Query \subseteq Seq(Word)
ASSUME ReplyAssumption == Oversized \subseteq SUBSET Path

VARIABLES
    client,     \* where the main thread of a client is in its search command
    connected,  \* [Searcher -> BOOLEAN], isClientConnectedToServer
    phase,      \* what the sub-worker of the client's connection does
    rest,       \* the words of the query not yet looked up
    result,     \* [documents -> scores], what the words so far combine to
    reply,      \* the reply to the query
    unread,     \* the documents of the reply that are not decoded yet
    shown,      \* [scores -> documents], the list of results of readCommands
    query,      \* history: the query that was sent last
    answers     \* history: the words that were found, with what was returned

clientVars == <<client, connected, unread, shown>>
searchVars == <<clientVars, phase, rest, result, reply, query, answers>>
allVars == <<vars, searchVars>>

NoDocs == EmptyList
NoReply == [kind |-> "none", docs |-> NoDocs]

SearchInit ==
    /\ Init
    /\ client = [t \in Searcher |-> "prompt"]
    /\ connected = [t \in Searcher |-> TRUE]
    /\ phase = [t \in Searcher |-> "idle"]
    /\ rest = [t \in Searcher |-> <<>>]
    /\ result = [t \in Searcher |-> NoDocs]
    /\ reply = [t \in Searcher |-> NoReply]
    /\ unread = [t \in Searcher |-> {}]
    /\ shown = [t \in Searcher |-> NoDocs]
    /\ query = [t \in Searcher |-> <<>>]
    /\ answers = [t \in Searcher |-> <<>>]

----------------------------------------------------------------------------
(* Combining lookups                                                       *)

\* Documents of both, with their scores added.
Intersect(docs, found) ==
    [d \in DOMAIN docs \cap DOMAIN found |-> docs[d] + found[d]]

\* Variant: the scores of a later word are not added.
CombineFirstScore(docs, found) ==
    IF DOMAIN docs # {} THEN Restrict(docs, DOMAIN docs \cap DOMAIN found) ELSE found

\* Variant: documents without the word are kept.
CombineKeepingAll(docs, found) ==
    [d \in DOMAIN docs \cup DOMAIN found |->
        IF d \notin DOMAIN found THEN docs[d]
        ELSE IF d \in DOMAIN docs THEN docs[d] + found[d] ELSE found[d]]

\* A word that was found narrows a nonempty result and replaces an empty one.
Combine(docs, found) ==
    IF DOMAIN docs # {} THEN Intersect(docs, found) ELSE found

----------------------------------------------------------------------------
(* The client sends a query                                                *)

\* A sub-worker that has left lets the query lie in its socket.
SendQuery(t, q) ==
    /\ client[t] = "prompt"
    /\ connected[t]
    /\ client' = [client EXCEPT ![t] = "waiting"]
    /\ IF phase[t] = "closed"
       THEN UNCHANGED <<phase, rest>>
       ELSE /\ phase' = [phase EXCEPT ![t] = "words"]
            /\ rest' = [rest EXCEPT ![t] = q]
    /\ result' = [result EXCEPT ![t] = NoDocs]
    /\ reply' = [reply EXCEPT ![t] = NoReply]
    /\ query' = [query EXCEPT ![t] = q]
    /\ answers' = [answers EXCEPT ![t] = <<>>]
    /\ UNCHANGED <<vars, connected, unread, shown>>

\* The send fails: the connection is closed and searchFiles returns before it
\* clears the list, so that the list of the search before is printed again.
SendQueryFails(t) ==
    /\ client[t] = "prompt"
    /\ client' = [client EXCEPT ![t] = "printed"]
    /\ connected' = [connected EXCEPT ![t] = FALSE]
    /\ UNCHANGED <<vars, phase, rest, result, reply, unread, shown, query, answers>>

\* Another thread of the client closes the connection.
Disconnect(t) ==
    /\ connected[t]
    /\ connected' = [connected EXCEPT ![t] = FALSE]
    /\ UNCHANGED <<vars, client, phase, rest, result, reply, unread, shown, query, answers>>

----------------------------------------------------------------------------
(* PerformWordsSearch                                                      *)

\* lookupIndex is called for the next word.
LookupWord(t) ==
    /\ phase[t] = "words"
    /\ rest[t] # <<>>
    /\ LookupIndex(t, Head(rest[t]))
    /\ UNCHANGED searchVars

\* lookupIndex returns false: the word is passed over.
SkipUnknown(t) ==
    /\ phase[t] = "words"
    /\ pc[t] = "idle"
    /\ rest[t] # <<>>
    /\ Head(rest[t]) \notin DOMAIN indexMap
    /\ rest' = [rest EXCEPT ![t] = Tail(@)]
    /\ UNCHANGED <<vars, clientVars, phase, result, reply, query, answers>>

\* lookupIndex returned true: its documents are combined with the result.
CombineFound(t) ==
    /\ phase[t] = "words"
    /\ ClearTemporary(t)
    /\ result' = [result EXCEPT ![t] = Combine(@, resultOut[t])]
    /\ answers' = [answers EXCEPT ![t] = Append(@,
                      [word |-> Head(rest[t]), found |-> resultOut[t]])]
    /\ rest' = [rest EXCEPT ![t] = Tail(@)]
    /\ UNCHANGED <<clientVars, phase, reply, query>>

\* The reply lists the documents, unless there are none or they do not fit.
ReplyOf(docs) ==
    IF DOMAIN docs = {} THEN [kind |-> "Empty", docs |-> NoDocs]
    ELSE IF DOMAIN docs \in Oversized THEN [kind |-> "Overflow", docs |-> NoDocs]
    ELSE [kind |-> "Docs", docs |-> docs]

\* All words are looked up: one reply is sent.  A client that has closed the
\* connection never reads it.
SendReply(t) ==
    /\ phase[t] = "words"
    /\ pc[t] = "idle"
    /\ rest[t] = <<>>
    /\ phase' = [phase EXCEPT ![t] = "idle"]
    /\ reply' = IF connected[t] THEN [reply EXCEPT ![t] = ReplyOf(result[t])] ELSE reply
    /\ UNCHANGED <<vars, clientVars, rest, result, query, answers>>

\* The send fails: the sub-worker closes the connection and leaves.
SendReplyFails(t) ==
    /\ phase[t] = "words"
    /\ pc[t] = "idle"
    /\ rest[t] = <<>>
    /\ phase' = [phase EXCEPT ![t] = "closed"]
    /\ UNCHANGED <<vars, clientVars, rest, result, reply, query, answers>>

----------------------------------------------------------------------------
(* The client decodes the reply                                            *)

\* The branches of searchFiles in their order: Empty, then the common prefix
\* of all three replies, so that the branch for Overflow is never reached.
\* The word Overflow is left alone at the end of the line and lists nothing.
ReadReply(t) ==
    /\ client[t] = "waiting"
    /\ reply[t] # NoReply
    /\ client' = [client EXCEPT ![t] = IF reply[t].kind = "Empty" THEN "printed" ELSE "decode"]
    /\ unread' = [unread EXCEPT ![t] = DOMAIN reply[t].docs]
    /\ shown' = [shown EXCEPT ![t] = NoDocs]
    /\ UNCHANGED <<vars, connected, phase, rest, result, reply, query, answers>>

\* The connection is closed while the client waits: it prints that there are
\* no results.  A reply that is on its way is lost.
GiveUp(t) ==
    /\ client[t] = "waiting"
    /\ ~connected[t]
    /\ client' = [client EXCEPT ![t] = "printed"]
    /\ reply' = [reply EXCEPT ![t] = NoReply]
    /\ shown' = [shown EXCEPT ![t] = NoDocs]
    /\ UNCHANGED <<vars, connected, phase, rest, result, unread, query, answers>>

\* results.list[score] = document, in the order the server listed them, which
\* is that of a hash table: any document that is left may be the next one.  A
\* document replaces the one that is listed with its score.
DecodeEntry(t) ==
    /\ client[t] = "decode"
    /\ \E d \in unread[t] :
        /\ shown' = [shown EXCEPT ![t] = Assign(@, reply[t].docs[d], d)]
        /\ unread' = [unread EXCEPT ![t] = @ \ {d}]
        /\ UNCHANGED <<vars, client, connected, phase, rest, result, reply, query, answers>>

\* Variant: the loop ends before the last pair.
DecodeEndEarly(t) ==
    /\ client[t] = "decode"
    /\ Cardinality(unread[t]) <= 1
    /\ client' = [client EXCEPT ![t] = "printed"]
    /\ UNCHANGED <<vars, connected, unread, shown, phase, rest, result, reply, query, answers>>

\* The reply is read to its end and the list is printed.
DecodeEnd(t) ==
    /\ client[t] = "decode"
    /\ unread[t] = {}
    /\ client' = [client EXCEPT ![t] = "printed"]
    /\ UNCHANGED <<vars, connected, unread, shown, phase, rest, result, reply, query, answers>>

\* The user enters the next command.
NextCommand(t) ==
    /\ client[t] = "printed"
    /\ client' = [client EXCEPT ![t] = "prompt"]
    /\ UNCHANGED <<vars, connected, unread, shown, phase, rest, result, reply, query, answers>>

----------------------------------------------------------------------------

SubWorker(t) ==
    \/ LookupWord(t)
    \/ SkipUnknown(t)
    \/ Scan(t) /\ UNCHANGED searchVars
    \/ CombineFound(t)
    \/ SendReply(t)
    \/ SendReplyFails(t)

Client(t) ==
    \/ \E q \in Query : SendQuery(t, q)
    \/ SendQueryFails(t)
    \/ Disconnect(t)
    \/ ReadReply(t)
    \/ GiveUp(t)
    \/ DecodeEntry(t)
    \/ DecodeEnd(t)
    \/ NextCommand(t)

Index(t) == (Insert(t) \/ EvictSmallest(t)) /\ UNCHANGED searchVars

SearchNext ==
    \/ \E t \in Searcher : SubWorker(t) \/ Client(t)
    \/ \E t \in Thread \ Searcher : Index(t)

SearchSpec == SearchInit /\ [][SearchNext]_allVars

----------------------------------------------------------------------------
(* Properties                                                              *)

\* The documents that are in every one of a sequence of answers, their scores
\* added up: what a conjunctive query means.
Conjunction(seq) ==
    IF seq = <<>> THEN NoDocs
    ELSE [d \in {p \in Path : \A i \in DOMAIN seq : p \in DOMAIN seq[i].found} |->
            SumFunction([i \in DOMAIN seq |-> seq[i].found[d]])]

Matches(seq) == DOMAIN Conjunction(seq)

\* PerformWordsSearch computes the conjunction of the words it found, but
\* starts over whenever a conjunction comes out empty: the result belongs to
\* the words after the last such point, and to all words if there is none.
ResultIsSuffixConjunction ==
    \A t \in Searcher :
        LET n == Len(answers[t])
        IN  \E i \in 1..(n + 1) :
              /\ result[t] = Conjunction(SubSeq(answers[t], i, n))
              /\ i = 1 \/ \E j \in 1..(i - 1) : Matches(SubSeq(answers[t], j, i - 1)) = {}

Inserted(w, f, p) == f \in DOMAIN posted[w] /\ posted[w][f] = p

\* Whatever ran beside the search and whichever send failed, a document the
\* client prints was inserted with every word it is counted for, and its score
\* is the sum of frequencies it was inserted with.  The words are those of the
\* last query that was sent: after a failed send its list is printed again.
ShownComesFromIndex ==
    \A t \in Searcher : client[t] = "printed" =>
        \A s \in DOMAIN shown[t] : \E i \in 1..Len(answers[t]) :
            LET counted == SubSeq(answers[t], i, Len(answers[t]))
                d == shown[t][s]
            IN  /\ d \in Matches(counted)
                /\ s = Conjunction(counted)[d]
                /\ \A j \in DOMAIN counted : Inserted(counted[j].word, counted[j].found[d], d)

\* When a reply with documents has been printed, each document the search
\* found is on the list, or another one that ties with it: a document is lost
\* to an equal score and to nothing else, in whatever order the reply lists
\* them.
OnlyTiesAreLost ==
    \A t \in Searcher : client[t] = "printed" /\ reply[t].kind = "Docs" =>
        \A d \in DOMAIN result[t] :
            /\ result[t][d] \in DOMAIN shown[t]
            /\ shown[t][result[t][d]] \in DOMAIN result[t]
            /\ result[t][shown[t][result[t][d]]] = result[t][d]

\* "search supports AND queries" (README.md:9): a document that is printed was
\* inserted with every word of the query.
UnknownWordMatchesNothing ==
    \A t \in Searcher : client[t] = "printed" =>
        \A d \in Range(shown[t]), i \in DOMAIN query[t] : d \in Range(posted[query[t][i]])

============================================================================
