---------------------------- MODULE IndexStore ----------------------------
(***************************************************************************)
(* The inverted index of the server and of the local engine.               *)
(*                                                                         *)
(* indexMap maps a word to its IndexingData: a std::map from a frequency   *)
(* to the path of one document, limited to MaxSize entries.  insertIndex   *)
(* runs under the mutex; lookupIndex takes no lock and walks the list with *)
(* an iterator, so its visits interleave with the two steps of an          *)
(* insertion (emplace, then erase the smallest when the list is too long). *)
(*                                                                         *)
(* An update of one std::map or of the hash table is a single step here.   *)
(***************************************************************************)
EXTENDS Integers, FiniteSets, FiniteSetsExt, Functions

CONSTANTS
    Word,      \* the words that documents and queries contain
    Path,      \* the paths of the documents
    Freq,      \* the frequencies a word may have in a document
    Posting,   \* what may be inserted: triples of word, frequency and path
    MaxSize,   \* IndexingData::MAX_SIZE
    Thread,    \* the threads that call the store
    NoThread   \* no thread holds the mutex

ASSUME FreqAssumption == Freq \subseteq Nat
ASSUME PostingAssumption == Posting \subseteq Word \X Freq \X Path
ASSUME SizeAssumption == MaxSize \in Nat /\ MaxSize >= 1
ASSUME WordAssumption == Word # {}
ASSUME ThreadAssumption == NoThread \notin Thread

VARIABLES
    indexMap,  \* [known words -> lists], a list being [frequencies -> paths]
    mtx,       \* the thread that holds the mutex between two steps
    pc,        \* where each thread is in its call
    word,      \* the word of the call in progress
    seen,      \* the frequencies a lookup has visited
    resultOut, \* the map a lookup fills
    posted,    \* history: the first path inserted with each frequency
    before     \* history: the frequencies in the list when the lookup began

vars == <<indexMap, mtx, pc, word, seen, resultOut, posted, before>>

----------------------------------------------------------------------------
(* Lists                                                                   *)

Lists == UNION {[S -> Path] : S \in SUBSET Freq}

EmptyList == [f \in {} |-> {}]

Size(list) == Cardinality(DOMAIN list)

\* Variant: key and value swapped.
PathToFrequency(f, p) == [g \in {p} |-> f]

\* The constructor IndexingData(frequency, filePath).
IndexingData(f, p) == [g \in {f} |-> p]

\* Variant: operator[] in the place of emplace.
EmplaceOverwriting(list, f, p) ==
    [g \in DOMAIN list \cup {f} |-> IF g = f THEN p ELSE list[g]]

\* std::map::emplace: an entry that is already there is kept as it is.
Emplace(list, f, p) ==
    [g \in DOMAIN list \cup {f} |-> IF g \in DOMAIN list THEN list[g] ELSE p]

\* Variant: erase(list.begin()).
EraseFirst(list) == Restrict(list, DOMAIN list \ {Max(DOMAIN list)})

\* list.erase(--list.end()): the list is in descending order.
EraseSmallest(list) == Restrict(list, DOMAIN list \ {Min(DOMAIN list)})

\* Variants: no condition, and no comparison with the smallest entry.
AdmitsAlways(list, f) == TRUE

AdmitsNothing(list, f) == Size(list) < MaxSize

\* The condition under which an insertion touches an existing list.
Admits(list, f) == Size(list) < MaxSize \/ f > Min(DOMAIN list)

\* resultOut[path] = frequency: a later visit overwrites an earlier one.
Assign(result, p, f) ==
    [q \in DOMAIN result \cup {p} |-> IF q = p THEN f ELSE result[q]]

\* The MaxSize largest frequencies of S.
Top(S) == {f \in S : Cardinality({g \in S : g > f}) < MaxSize}

\* The entries that survive in a list of at most MaxSize entries.
Best(list) == Restrict(list, Top(DOMAIN list))

ListOf(w) == IF w \in DOMAIN indexMap THEN indexMap[w] ELSE EmptyList

----------------------------------------------------------------------------

\* The types of the store's and of its callers' state.
TypeOK ==
    /\ DOMAIN indexMap \subseteq Word
    /\ \A w \in DOMAIN indexMap : indexMap[w] \in Lists
    /\ mtx \in Thread \cup {NoThread}
    /\ pc \in [Thread -> {"idle", "evict", "scan", "found", "undefined"}]
    /\ word \in [Thread -> Word]
    /\ seen \in [Thread -> SUBSET Freq]
    /\ DOMAIN resultOut = Thread
    /\ \A t \in Thread : /\ DOMAIN resultOut[t] \subseteq Path
                         /\ \A p \in DOMAIN resultOut[t] : resultOut[t][p] \in Freq
    /\ posted \in [Word -> Lists]
    /\ before \in [Thread -> SUBSET Freq]

Init ==
    /\ indexMap = [w \in {} |-> EmptyList]
    /\ mtx = NoThread
    /\ pc = [t \in Thread |-> "idle"]
    /\ word = [t \in Thread |-> CHOOSE w \in Word : TRUE]
    /\ seen = [t \in Thread |-> {}]
    /\ resultOut = [t \in Thread |-> EmptyList]
    /\ posted = [w \in Word |-> EmptyList]
    /\ before = [t \in Thread |-> {}]

SetList(w, list) ==
    indexMap' = [v \in DOMAIN indexMap \cup {w} |->
                    IF v = w THEN list ELSE indexMap[v]]

----------------------------------------------------------------------------
(* insertIndex                                                             *)

\* lock_guard: the mutex is free.
Unlocked == mtx = NoThread

\* The call takes the mutex, finds the word and emplaces the entry.  A list
\* left with more than MaxSize entries is shortened in a step of its own.
InsertIndex(t, w, f, p) ==
    /\ pc[t] = "idle"
    /\ Unlocked
    /\ posted' = [posted EXCEPT ![w] = Emplace(@, f, p)]
    /\ \/ /\ w \notin DOMAIN indexMap
          /\ SetList(w, IndexingData(f, p))
          /\ UNCHANGED <<mtx, pc, word>>
       \/ /\ w \in DOMAIN indexMap
          /\ ~Admits(indexMap[w], f)
          /\ UNCHANGED <<indexMap, mtx, pc, word>>
       \/ /\ w \in DOMAIN indexMap
          /\ Admits(indexMap[w], f)
          /\ SetList(w, Emplace(indexMap[w], f, p))
          /\ IF Size(Emplace(indexMap[w], f, p)) > MaxSize
             THEN /\ mtx' = t
                  /\ pc' = [pc EXCEPT ![t] = "evict"]
                  /\ word' = [word EXCEPT ![t] = w]
             ELSE UNCHANGED <<mtx, pc, word>>
    /\ UNCHANGED <<seen, resultOut, before>>

EvictSmallest(t) ==
    /\ pc[t] = "evict"
    /\ SetList(word[t], EraseSmallest(indexMap[word[t]]))
    /\ mtx' = NoThread
    /\ pc' = [pc EXCEPT ![t] = "idle"]
    /\ UNCHANGED <<word, seen, resultOut, posted, before>>

----------------------------------------------------------------------------
(* lookupIndex: no lock is taken                                           *)

\* The word is known: an iterator is placed at the beginning of its list.  A
\* lookup of an unknown word returns false and changes nothing.
LookupIndex(t, w) ==
    /\ pc[t] = "idle"
    /\ w \in DOMAIN indexMap
    /\ pc' = [pc EXCEPT ![t] = "scan"]
    /\ word' = [word EXCEPT ![t] = w]
    /\ before' = [before EXCEPT ![t] = DOMAIN indexMap[w]]
    /\ UNCHANGED <<indexMap, mtx, seen, resultOut, posted>>

\* The iterator stands on the last visited entry, the smallest of seen[t].
\* It is lost when that entry has been erased from the list.
IteratorValid(t) ==
    seen[t] = {} \/ \E f \in seen[t] : /\ f \in DOMAIN indexMap[word[t]]
                                       /\ \A g \in seen[t] : f <= g

\* The entries between the iterator and the end of the list.
Ahead(t) == {f \in DOMAIN indexMap[word[t]] : \A g \in seen[t] : f < g}

\* The next entry in descending order is read: resultOut[path] = frequency.
VisitEntry(t, f) ==
    /\ pc[t] = "scan"
    /\ IteratorValid(t)
    /\ f \in Ahead(t)
    /\ \A g \in Ahead(t) : g <= f
    /\ seen' = [seen EXCEPT ![t] = @ \cup {f}]
    /\ resultOut' = [resultOut EXCEPT ![t] = Assign(@, indexMap[word[t]][f], f)]
    /\ UNCHANGED <<indexMap, mtx, pc, word, posted, before>>

\* Variant: the scan ends after one entry.
ReturnAfterFirst(t) ==
    /\ pc[t] = "scan"
    /\ seen[t] # {}
    /\ pc' = [pc EXCEPT ![t] = "found"]
    /\ UNCHANGED <<indexMap, mtx, word, seen, resultOut, posted, before>>

\* The end of the list is reached: return true.
ReturnFound(t) ==
    /\ pc[t] = "scan"
    /\ IteratorValid(t)
    /\ Ahead(t) = {}
    /\ pc' = [pc EXCEPT ![t] = "found"]
    /\ UNCHANGED <<indexMap, mtx, word, seen, resultOut, posted, before>>

\* Advancing an iterator to an erased entry is undefined behaviour: the
\* model says nothing of what the thread does afterwards.
LoseIterator(t) ==
    /\ pc[t] = "scan"
    /\ ~IteratorValid(t)
    /\ pc' = [pc EXCEPT ![t] = "undefined"]
    /\ UNCHANGED <<indexMap, mtx, word, seen, resultOut, posted, before>>

\* The caller is done with what lookupIndex returned: temporary.clear().
ClearTemporary(t) ==
    /\ pc[t] = "found"
    /\ pc' = [pc EXCEPT ![t] = "idle"]
    /\ seen' = [seen EXCEPT ![t] = {}]
    /\ resultOut' = [resultOut EXCEPT ![t] = EmptyList]
    /\ before' = [before EXCEPT ![t] = {}]
    /\ UNCHANGED <<indexMap, mtx, word, posted>>

----------------------------------------------------------------------------

Insert(t) == \E w \in Word, f \in Freq, p \in Path :
                /\ <<w, f, p>> \in Posting
                /\ InsertIndex(t, w, f, p)

Lookup(t) == \E w \in Word : LookupIndex(t, w)

Scan(t) == (\E f \in Freq : VisitEntry(t, f)) \/ ReturnFound(t) \/ LoseIterator(t)

Next == \E t \in Thread : \/ Insert(t)
                          \/ EvictSmallest(t)
                          \/ Lookup(t)
                          \/ Scan(t)
                          \/ ClearTemporary(t)

Spec == Init /\ [][Next]_vars

----------------------------------------------------------------------------
(* Properties                                                              *)

Evicting(w) == \E t \in Thread : pc[t] = "evict" /\ word[t] = w

\* The mutex protects the insertion: a thread is between its two steps
\* exactly when it holds the mutex (the lock_guard of insertIndex).
MutexHeldByEvictor == \A t \in Thread : pc[t] = "evict" <=> mtx = t

\* Whatever was inserted, in whatever order, the list of a word holds the
\* MaxSize highest frequencies ever inserted for it, each with the first path
\* it was inserted with; only between emplace and erase is there one entry
\* more (insertIndex).
KeepsHighestFrequencies ==
    \A w \in Word : IF Evicting(w)
                    THEN /\ Best(ListOf(w)) = Best(posted[w])
                         /\ Size(ListOf(w)) = MaxSize + 1
                    ELSE ListOf(w) = Best(posted[w])

\* A frequency that was inserted and is not in the list never comes back, so
\* an iterator cannot find the entry it lost in the list again.
EvictedNeverReturns ==
    [][\A w \in Word : \A f \in DOMAIN posted[w] :
          f \notin DOMAIN ListOf(w) => f \notin DOMAIN ListOf(w)']_vars

\* Without the lock a lookup is only regular: the entries it has passed by
\* were not there all along, that is, an entry that was in the list when the
\* lookup began and still is has been visited, unless it lies ahead.
ScanMissesNothingOld ==
    \A t \in Thread : pc[t] \in {"scan", "found"} =>
        \A f \in before[t] \cap DOMAIN indexMap[word[t]] :
            f \in seen[t] \/ (pc[t] = "scan" /\ f \in Ahead(t))

\* A lookup whose iterator is still good can trust all it has read: erasing
\* any of the visited entries erases the one the iterator stands on as well.
ScanStaysOnList ==
    \A t \in Thread : pc[t] = "scan" /\ IteratorValid(t) =>
        seen[t] \subseteq DOMAIN indexMap[word[t]]

\* The two-step insertion, seen through the entries that will survive it, is
\* the one-step posting of TopPostings, and lookups change nothing.
Postings == INSTANCE TopPostings WITH top <- [w \in Word |-> Best(ListOf(w))]
ImplementsTopPostings == Postings!Spec

----------------------------------------------------------------------------
(* The inductive invariant of the proofs, see SearchQueryProofs            *)

\* list is a full part of what was posted, or all of it: what is missing from
\* it lies below it.
KeepsTopOf(list, all) ==
    /\ IsFiniteSet(DOMAIN all)
    /\ DOMAIN list \subseteq DOMAIN all
    /\ \A f \in DOMAIN list : list[f] = all[f]
    /\ \A d \in DOMAIN all \ DOMAIN list :
          Size(list) >= MaxSize /\ \A g \in DOMAIN list : d < g

ListsInv ==
    \A w \in Word : /\ KeepsTopOf(ListOf(w), posted[w])
                    /\ IF Evicting(w) THEN Size(ListOf(w)) = MaxSize + 1
                                      ELSE Size(ListOf(w)) <= MaxSize

CallsInv ==
    \A t \in Thread :
        /\ pc[t] \in {"evict", "scan", "found"} => word[t] \in DOMAIN indexMap
        /\ pc[t] \in {"idle", "evict"} => seen[t] = {}
        /\ pc[t] \in {"scan", "found"} =>
              /\ seen[t] \subseteq DOMAIN posted[word[t]]
              /\ before[t] \subseteq DOMAIN posted[word[t]]

IndexInv == TypeOK /\ MutexHeldByEvictor /\ ListsInv /\ CallsInv
============================================================================
