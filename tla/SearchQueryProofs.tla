------------------------- MODULE SearchQueryProofs -------------------------
(***************************************************************************)
(* Proofs about the index and about the searches in it, for every set of   *)
(* words, paths, frequencies and threads, every MaxSize and any queries.   *)
(*                                                                         *)
(* First the store by itself, under IndexStore's specification.  The       *)
(* inductive invariant describes the list of a word without counting       *)
(* anything that was ever inserted: what was dropped is below everything   *)
(* that was kept, and something is dropped only from a full list.          *)
(*                                                                         *)
(* Then searches beside insertions.  A search uses the store by the        *)
(* store's own operations, so the store's invariant holds under it.        *)
(* Scores are sums; a sum is taken here for the size of a set, which needs *)
(* no recursion.                                                           *)
(***************************************************************************)
EXTENDS SearchQuery, FiniteSetTheorems, SequenceTheorems, WellFoundedInduction, TLAPS

----------------------------------------------------------------------------
(* Finite sets of numbers                                                  *)

\* A nonempty set of naturals has a least member, and Min returns it.
LEMMA MinOfNats ==
    ASSUME NEW S \in SUBSET Nat, S # {}
    PROVE  Min(S) \in S /\ \A x \in S : Min(S) <= x
<1>1. PICK x \in S : \A y \in S : <<y, x>> \notin OpToRel(<, Nat)
  BY NatLessThanWellFounded, WFMin
<1>2. \A y \in S : ~(y < x)
  BY <1>1, Zenon DEF OpToRel
<1>3. \A y \in S : x <= y
  BY <1>2
<1>. QED
  BY <1>3 DEF Min

\* A list that is not too long is its own Top.
LEMMA TopOfShort ==
    ASSUME NEW S \in SUBSET Nat, IsFiniteSet(S), Cardinality(S) <= MaxSize
    PROVE  Top(S) = S
<1>1. ASSUME NEW f \in S PROVE Cardinality({g \in S : g > f}) < MaxSize
  <2>1. {g \in S : g > f} \subseteq S \ {f}
    OBVIOUS
  <2>2. /\ IsFiniteSet(S \ {f})
        /\ Cardinality(S \ {f}) = Cardinality(S) - 1
    BY FS_RemoveElement
  <2>3. Cardinality({g \in S : g > f}) <= Cardinality(S) - 1
    BY <2>1, <2>2, FS_Subset
  <2>. QED
    BY <2>1, <2>2, <2>3, FS_Subset, FS_CardinalityType, SizeAssumption
<1>. QED
  BY <1>1 DEF Top

\* If L is a full part of D and lies above the rest of D, it is the Top of D.
LEMMA TopCharacterised ==
    ASSUME NEW D \in SUBSET Nat, IsFiniteSet(D), NEW L \in SUBSET D,
           Cardinality(L) <= MaxSize,
           \A d \in D \ L : Cardinality(L) >= MaxSize /\ \A g \in L : d < g
    PROVE  Top(D) = L
<1>0. IsFiniteSet(L) /\ Cardinality(L) \in Nat
  BY FS_Subset, FS_CardinalityType
<1>1. ASSUME NEW f \in L PROVE Cardinality({g \in D : g > f}) < MaxSize
  <2>0. \A d \in D \ L : d < f
    OBVIOUS
  <2>1. {g \in D : g > f} \subseteq L \ {f}
    <3>1. ASSUME NEW g \in D, g > f PROVE g \in L \ {f}
      <4>1. g \in L
        BY <2>0, <3>1
      <4>. QED
        BY <3>1, <4>1
    <3>. QED
      BY <3>1
  <2>2. /\ IsFiniteSet(L \ {f})
        /\ Cardinality(L \ {f}) = Cardinality(L) - 1
    BY <1>0, FS_RemoveElement
  <2>3. /\ IsFiniteSet({g \in D : g > f})
        /\ Cardinality({g \in D : g > f}) <= Cardinality(L) - 1
    BY <2>1, <2>2, FS_Subset
  <2>. QED
    BY <1>0, <2>3, FS_CardinalityType, SizeAssumption
<1>2. ASSUME NEW d \in D \ L PROVE ~(Cardinality({g \in D : g > d}) < MaxSize)
  <2>1. L \subseteq {g \in D : g > d}
    OBVIOUS
  <2>2. IsFiniteSet({g \in D : g > d})
    BY FS_Subset
  <2>3. Cardinality(L) <= Cardinality({g \in D : g > d})
    BY <2>1, <2>2, FS_Subset
  <2>. QED
    BY <1>0, <2>2, <2>3, FS_CardinalityType, SizeAssumption
<1>. QED
  BY <1>1, <1>2 DEF Top

\* A list one entry too long loses its smallest.
LEMMA TopOfLong ==
    ASSUME NEW S \in SUBSET Nat, IsFiniteSet(S), Cardinality(S) = MaxSize + 1
    PROVE  /\ S # {}
           /\ Top(S) = S \ {Min(S)}
           /\ Cardinality(S \ {Min(S)}) = MaxSize
<1>1. S # {}
  BY FS_EmptySet, SizeAssumption
<1>2. Min(S) \in S /\ \A x \in S : Min(S) <= x
  BY <1>1, MinOfNats
<1>3. Cardinality(S \ {Min(S)}) = MaxSize
  BY <1>2, FS_RemoveElement, SizeAssumption
<1>4. \A d \in S \ (S \ {Min(S)}) : \A g \in S \ {Min(S)} : d < g
  BY <1>2
<1>. QED
  BY <1>1, <1>3, <1>4, TopCharacterised, SizeAssumption

----------------------------------------------------------------------------
(* Lists                                                                   *)

LEMMA ListType ==
    ASSUME NEW list
    PROVE  list \in Lists <=> /\ list = [f \in DOMAIN list |-> list[f]]
                              /\ DOMAIN list \subseteq Freq
                              /\ \A f \in DOMAIN list : list[f] \in Path
  BY DEF Lists

LEMMA EmptyListType == EmptyList \in Lists /\ DOMAIN EmptyList = {}
  BY DEF Lists, EmptyList

\* emplace yields a list with f in it and keeps the entries there were.
LEMMA EmplaceType ==
    ASSUME NEW list \in Lists, NEW f \in Freq, NEW p \in Path
    PROVE  /\ Emplace(list, f, p) \in Lists
           /\ DOMAIN Emplace(list, f, p) = DOMAIN list \cup {f}
           /\ \A g \in DOMAIN list : Emplace(list, f, p)[g] = list[g]
           /\ f \notin DOMAIN list => Emplace(list, f, p)[f] = p
  BY ListType DEF Emplace

LEMMA RestrictType ==
    ASSUME NEW list \in Lists, NEW S \in SUBSET DOMAIN list
    PROVE  /\ Restrict(list, S) \in Lists
           /\ DOMAIN Restrict(list, S) = S
           /\ \A g \in S : Restrict(list, S)[g] = list[g]
  BY ListType DEF Restrict

\* Creating the entry of an unknown word is emplacing into an empty list.
LEMMA NewIsEmplace ==
    ASSUME NEW f \in Freq, NEW p \in Path
    PROVE  /\ IndexingData(f, p) = Emplace(EmptyList, f, p)
           /\ Admits(EmptyList, f)
  BY FS_EmptySet, SizeAssumption DEF IndexingData, Emplace, EmptyList, Admits, Size

\* The guard of an insertion into a list that is not too long is right: a
\* rejected frequency is below all that is kept (or is kept already), and an
\* admitted one is above all that was dropped.
LEMMA InsertKeepsTop ==
    ASSUME NEW list \in Lists, NEW all \in Lists, NEW f \in Freq, NEW p \in Path,
           KeepsTopOf(list, all), Size(list) <= MaxSize
    PROVE  /\ ~Admits(list, f) => KeepsTopOf(list, Emplace(all, f, p))
           /\ Admits(list, f) =>
                 /\ KeepsTopOf(Emplace(list, f, p), Emplace(all, f, p))
                 /\ Size(Emplace(list, f, p)) <= MaxSize + 1
                 /\ f \notin DOMAIN list => f \notin DOMAIN all
<1>. DEFINE L == DOMAIN list  D == DOMAIN all
<1>1. /\ L \subseteq Nat /\ D \subseteq Nat /\ f \in Nat
      /\ IsFiniteSet(L) /\ IsFiniteSet(D) /\ L \subseteq D
      /\ Cardinality(L) \in Nat
      /\ Size(list) = Cardinality(L)
  BY ListType, FreqAssumption, FS_Subset, FS_CardinalityType DEF KeepsTopOf, Size
<1>2. /\ DOMAIN Emplace(all, f, p) = D \cup {f}
      /\ \A g \in D : Emplace(all, f, p)[g] = all[g]
      /\ f \notin D => Emplace(all, f, p)[f] = p
      /\ IsFiniteSet(D \cup {f})
  <2>1. IsFiniteSet(D \cup {f})
    BY <1>1, FS_AddElement
  <2>. QED
    BY <2>1, EmplaceType
<1>3. ASSUME ~Admits(list, f) PROVE KeepsTopOf(list, Emplace(all, f, p))
  <2>1. Cardinality(L) = MaxSize /\ ~(f > Min(L))
    BY <1>1, <1>3, SizeAssumption DEF Admits
  <2>2. L # {} /\ Min(L) \in L /\ \A g \in L : Min(L) <= g
    BY <1>1, <2>1, FS_EmptySet, SizeAssumption, MinOfNats
  <2>3. \A g \in L : f \notin L => f < g
    BY <1>1, <2>1, <2>2
  <2>4. \A d \in (D \cup {f}) \ L : Size(list) >= MaxSize /\ \A g \in L : d < g
    BY <1>1, <2>1, <2>3, SizeAssumption DEF KeepsTopOf
  <2>. QED
    BY <1>1, <1>2, <2>4 DEF KeepsTopOf
<1>4. ASSUME Admits(list, f)
      PROVE  /\ KeepsTopOf(Emplace(list, f, p), Emplace(all, f, p))
             /\ Size(Emplace(list, f, p)) <= MaxSize + 1
             /\ f \notin L => f \notin D
  <2>1. /\ DOMAIN Emplace(list, f, p) = L \cup {f}
        /\ \A g \in L : Emplace(list, f, p)[g] = list[g]
        /\ f \notin L => Emplace(list, f, p)[f] = p
    BY EmplaceType
  <2>2. /\ IsFiniteSet(L \cup {f})
        /\ Cardinality(L \cup {f}) =
              IF f \in L THEN Cardinality(L) ELSE Cardinality(L) + 1
        /\ Size(Emplace(list, f, p)) = Cardinality(L \cup {f})
    BY <1>1, <2>1, FS_AddElement DEF Size
  <2>3. ASSUME NEW d \in D \ L PROVE d < f
    <3>1. Cardinality(L) >= MaxSize /\ \A g \in L : d < g
      BY <1>1, <2>3 DEF KeepsTopOf
    <3>2. L # {} /\ f > Min(L)
      BY <1>1, <1>4, <3>1, FS_EmptySet, SizeAssumption DEF Admits
    <3>3. Min(L) \in L
      BY <1>1, <3>2, MinOfNats
    <3>. QED
      BY <1>1, <3>1, <3>2, <3>3
  <2>4. f \notin L => f \notin D
    BY <1>1, <2>3
  <2>5. ASSUME NEW d \in D \ L
        PROVE  Cardinality(L \cup {f}) >= MaxSize /\ \A g \in L \cup {f} : d < g
    BY <1>1, <2>2, <2>3, <2>5, SizeAssumption DEF KeepsTopOf
  <2>6. \A g \in L \cup {f} : Emplace(list, f, p)[g] = Emplace(all, f, p)[g]
    BY <1>1, <1>2, <2>1, <2>4 DEF KeepsTopOf
  <2>7. KeepsTopOf(Emplace(list, f, p), Emplace(all, f, p))
    BY <1>1, <1>2, <2>1, <2>2, <2>5, <2>6 DEF KeepsTopOf
  <2>. QED
    BY <1>1, <2>2, <2>4, <2>7, SizeAssumption
<1>. QED
  BY <1>3, <1>4

\* Erasing the smallest entry of a list that is one too long restores it.
LEMMA EvictKeepsTop ==
    ASSUME NEW list \in Lists, NEW all \in Lists,
           KeepsTopOf(list, all), Size(list) = MaxSize + 1
    PROVE  /\ KeepsTopOf(EraseSmallest(list), all)
           /\ Size(EraseSmallest(list)) = MaxSize
           /\ EraseSmallest(list) \in Lists
           /\ Min(DOMAIN list) \in DOMAIN list
           /\ DOMAIN EraseSmallest(list) = DOMAIN list \ {Min(DOMAIN list)}
           /\ \A g \in DOMAIN list : Min(DOMAIN list) <= g
<1>. DEFINE L == DOMAIN list  D == DOMAIN all  K == L \ {Min(L)}
<1>1. /\ L \subseteq Nat /\ D \subseteq Nat /\ L \subseteq D
      /\ IsFiniteSet(L) /\ IsFiniteSet(D)
      /\ Cardinality(L) = MaxSize + 1
  BY ListType, FreqAssumption, FS_Subset DEF KeepsTopOf, Size
<1>2. L # {} /\ Cardinality(K) = MaxSize
  BY <1>1, TopOfLong
<1>3. Min(L) \in L /\ \A g \in L : Min(L) <= g
  BY <1>1, <1>2, MinOfNats
<1>4. /\ EraseSmallest(list) \in Lists
      /\ DOMAIN EraseSmallest(list) = K
      /\ \A g \in K : EraseSmallest(list)[g] = list[g]
  BY RestrictType DEF EraseSmallest
<1>5. Size(EraseSmallest(list)) = MaxSize
  BY <1>2, <1>4 DEF Size
<1>6. ASSUME NEW d \in D \ K PROVE \A g \in K : d < g
  BY <1>1, <1>3 DEF KeepsTopOf
<1>7. KeepsTopOf(EraseSmallest(list), all)
  BY <1>1, <1>4, <1>5, <1>6, SizeAssumption DEF KeepsTopOf
<1>. QED
  BY <1>3, <1>4, <1>5, <1>7

----------------------------------------------------------------------------
(* What the actions do to the lists                                        *)

\* insertIndex on an unknown word, a full list and a list with room is one
\* conditional emplace into the list of the word.
LEMMA InsertEffect ==
    ASSUME TypeOK, NEW t \in Thread, NEW w \in Word, NEW f \in Freq, NEW p \in Path,
           InsertIndex(t, w, f, p)
    PROVE  /\ ListOf(w)' = IF Admits(ListOf(w), f) THEN Emplace(ListOf(w), f, p)
                                                   ELSE ListOf(w)
           /\ \A v \in Word \ {w} : ListOf(v)' = ListOf(v)
           /\ DOMAIN indexMap' = DOMAIN indexMap \cup {w}
           /\ posted' = [posted EXCEPT ![w] = Emplace(posted[w], f, p)]
<1>1. CASE w \notin DOMAIN indexMap
  BY <1>1, NewIsEmplace DEF InsertIndex, SetList, ListOf
<1>2. CASE w \in DOMAIN indexMap /\ ~Admits(indexMap[w], f)
  BY <1>2 DEF InsertIndex, ListOf
<1>3. CASE w \in DOMAIN indexMap /\ Admits(indexMap[w], f)
  BY <1>3 DEF InsertIndex, SetList, ListOf
<1>. QED
  BY <1>1, <1>2, <1>3

LEMMA EvictEffect ==
    ASSUME TypeOK, CallsInv, NEW t \in Thread, EvictSmallest(t)
    PROVE  /\ word[t] \in Word
           /\ \A v \in Word : ListOf(v)' = IF v = word[t] THEN EraseSmallest(ListOf(v))
                                                          ELSE ListOf(v)
           /\ DOMAIN indexMap' = DOMAIN indexMap
           /\ posted' = posted
  BY DEF TypeOK, CallsInv, EvictSmallest, SetList, ListOf

LEMMA ListOfType ==
    ASSUME TypeOK, NEW w \in Word
    PROVE  ListOf(w) \in Lists /\ posted[w] \in Lists
  BY EmptyListType DEF TypeOK, ListOf

----------------------------------------------------------------------------
(* Type correctness                                                        *)

LEMMA InitTypeOK == Init => TypeOK
  BY EmptyListType, WordAssumption DEF Init, TypeOK

\* TypeOK alone is not inductive: a thread that evicts does so from the list
\* of a known word, which CallsInv says.
LEMMA NextTypeOK == TypeOK /\ CallsInv /\ ListsInv /\ [Next]_vars => TypeOK'
<1>. SUFFICES ASSUME TypeOK, CallsInv, ListsInv, [Next]_vars PROVE TypeOK'
  OBVIOUS
<1>1. ASSUME NEW t \in Thread, NEW w \in Word, NEW f \in Freq, NEW p \in Path,
             InsertIndex(t, w, f, p)
      PROVE  TypeOK'
  <2>1. /\ IndexingData(f, p) \in Lists
        /\ Emplace(posted[w], f, p) \in Lists
        /\ w \in DOMAIN indexMap => Emplace(indexMap[w], f, p) \in Lists
    <3>1. IndexingData(f, p) \in Lists
      BY ListType DEF IndexingData
    <3>2. posted[w] \in Lists
      BY DEF TypeOK
    <3>3. w \in DOMAIN indexMap => indexMap[w] \in Lists
      BY DEF TypeOK
    <3>. QED
      BY <3>1, <3>2, <3>3, EmplaceType
  <2>2. /\ DOMAIN indexMap' \subseteq Word
        /\ \A v \in DOMAIN indexMap' : indexMap'[v] \in Lists
    BY <1>1, <2>1 DEF TypeOK, InsertIndex, SetList
  <2>3. posted' \in [Word -> Lists]
    BY <1>1, <2>1 DEF TypeOK, InsertIndex
  <2>4. /\ mtx' \in Thread \cup {NoThread}
        /\ pc' \in [Thread -> {"idle", "evict", "scan", "found", "undefined"}]
        /\ word' \in [Thread -> Word]
    BY <1>1 DEF TypeOK, InsertIndex
  <2>. QED
    BY <1>1, <2>2, <2>3, <2>4 DEF TypeOK, InsertIndex
<1>2. ASSUME NEW t \in Thread, EvictSmallest(t)
      PROVE  TypeOK'
  <2>1. word[t] \in DOMAIN indexMap /\ word[t] \in Word
    BY <1>2 DEF TypeOK, CallsInv, EvictSmallest
  <2>2. indexMap[word[t]] \in Lists
    BY <2>1 DEF TypeOK
  <2>3. EraseSmallest(indexMap[word[t]]) \in Lists
    BY <2>2, RestrictType DEF EraseSmallest
  <2>4. /\ DOMAIN indexMap' \subseteq Word
        /\ \A v \in DOMAIN indexMap' : indexMap'[v] \in Lists
    BY <1>2, <2>1, <2>3 DEF TypeOK, EvictSmallest, SetList
  <2>. QED
    BY <1>2, <2>4 DEF TypeOK, EvictSmallest
<1>3. ASSUME NEW t \in Thread, NEW w \in Word, LookupIndex(t, w)
      PROVE  TypeOK'
  <2>1. DOMAIN indexMap[w] \subseteq Freq
    BY <1>3, ListType DEF TypeOK, LookupIndex
  <2>. QED
    BY <1>3, <2>1 DEF TypeOK, LookupIndex
<1>4. ASSUME NEW t \in Thread, NEW f \in Freq, VisitEntry(t, f)
      PROVE  TypeOK'
  <2>1. word[t] \in DOMAIN indexMap /\ f \in DOMAIN indexMap[word[t]]
    BY <1>4 DEF CallsInv, VisitEntry, Ahead
  <2>2. indexMap[word[t]][f] \in Path
    BY <2>1, ListType DEF TypeOK
  <2>3. /\ DOMAIN resultOut' = Thread
        /\ \A u \in Thread : /\ DOMAIN resultOut'[u] \subseteq Path
                             /\ \A p \in DOMAIN resultOut'[u] : resultOut'[u][p] \in Freq
    BY <1>4, <2>2 DEF TypeOK, VisitEntry, Assign
  <2>. QED
    BY <1>4, <2>3 DEF TypeOK, VisitEntry
<1>5. ASSUME NEW t \in Thread, ReturnFound(t) \/ LoseIterator(t)
      PROVE  TypeOK'
  BY <1>5 DEF TypeOK, ReturnFound, LoseIterator
<1>6. ASSUME NEW t \in Thread, ClearTemporary(t)
      PROVE  TypeOK'
  BY <1>6, EmptyListType DEF TypeOK, ClearTemporary
<1>7. CASE UNCHANGED vars
  BY <1>7 DEF TypeOK, vars
<1>. QED
  BY <1>1, <1>2, <1>3, <1>4, <1>5, <1>6, <1>7 DEF Next, Insert, Lookup, Scan

----------------------------------------------------------------------------
(* The index holds the highest frequencies                                 *)

\* The mutex makes the two steps of an insertion one: at most one thread is
\* between them, and only for one word.
LEMMA EvictingIsHolder ==
    ASSUME TypeOK, MutexHeldByEvictor, NEW w \in Word
    PROVE  Evicting(w) <=> mtx \in Thread /\ word[mtx] = w
  BY ThreadAssumption DEF TypeOK, MutexHeldByEvictor, Evicting

LEMMA InitIndexInv == Init => IndexInv
<1>. SUFFICES ASSUME Init PROVE IndexInv
  OBVIOUS
<1>1. TypeOK
  BY InitTypeOK
<1>2. MutexHeldByEvictor
  BY ThreadAssumption DEF Init, MutexHeldByEvictor
<1>3. CallsInv
  BY DEF Init, CallsInv
<1>4. ASSUME NEW w \in Word
      PROVE  /\ KeepsTopOf(ListOf(w), posted[w])
             /\ ~Evicting(w)
             /\ Size(ListOf(w)) <= MaxSize
  <2>1. ListOf(w) = EmptyList /\ posted[w] = EmptyList /\ ~Evicting(w)
    BY DEF Init, ListOf, Evicting
  <2>2. IsFiniteSet({}) /\ Cardinality({}) = 0
    BY FS_EmptySet
  <2>. QED
    BY <2>1, <2>2, EmptyListType, SizeAssumption DEF KeepsTopOf, Size
<1>. QED
  BY <1>1, <1>2, <1>3, <1>4 DEF IndexInv, ListsInv

\* MutexHeldByEvictor is kept by every step.
LEMMA NextMutex == TypeOK /\ MutexHeldByEvictor /\ [Next]_vars => MutexHeldByEvictor'
<1>. SUFFICES ASSUME TypeOK, MutexHeldByEvictor, [Next]_vars
              PROVE  MutexHeldByEvictor'
  OBVIOUS
<1>. USE ThreadAssumption DEF TypeOK, MutexHeldByEvictor
<1>1. ASSUME NEW t \in Thread, NEW w \in Word, NEW f \in Freq, NEW p \in Path,
             InsertIndex(t, w, f, p)
      PROVE  MutexHeldByEvictor'
  BY <1>1 DEF InsertIndex, Unlocked
<1>2. ASSUME NEW t \in Thread, EvictSmallest(t)
      PROVE  MutexHeldByEvictor'
  BY <1>2 DEF EvictSmallest
<1>3. ASSUME NEW t \in Thread, NEW w \in Word, LookupIndex(t, w)
      PROVE  MutexHeldByEvictor'
  BY <1>3 DEF LookupIndex
<1>4. ASSUME NEW t \in Thread, NEW f \in Freq, VisitEntry(t, f)
      PROVE  MutexHeldByEvictor'
  BY <1>4 DEF VisitEntry
<1>5. ASSUME NEW t \in Thread, ReturnFound(t) \/ LoseIterator(t) \/ ClearTemporary(t)
      PROVE  MutexHeldByEvictor'
  BY <1>5 DEF ReturnFound, LoseIterator, ClearTemporary
<1>6. CASE UNCHANGED vars
  BY <1>6 DEF vars
<1>. QED
  BY <1>1, <1>2, <1>3, <1>4, <1>5, <1>6 DEF Next, Insert, Lookup, Scan

\* Steps that change neither the lists nor who evicts keep ListsInv.
LEMMA SameListsInv ==
    ASSUME ListsInv, UNCHANGED <<indexMap, posted>>,
           \A w \in Word : Evicting(w)' <=> Evicting(w)
    PROVE  ListsInv'
  BY DEF ListsInv, ListOf

LEMMA NextListsInv == IndexInv /\ [Next]_vars => ListsInv'
<1>. SUFFICES ASSUME IndexInv, [Next]_vars PROVE ListsInv'
  OBVIOUS
<1>0. TypeOK /\ MutexHeldByEvictor /\ ListsInv /\ CallsInv
  BY DEF IndexInv
<1>1. ASSUME NEW t \in Thread, NEW w \in Word, NEW f \in Freq, NEW p \in Path,
             InsertIndex(t, w, f, p)
      PROVE  ListsInv'
  <2>. DEFINE list == ListOf(w)
  <2>1. \A v \in Word : ~Evicting(v)
    BY <1>0, <1>1, ThreadAssumption, EvictingIsHolder DEF InsertIndex, Unlocked
  <2>2. list \in Lists /\ posted[w] \in Lists
    BY <1>0, ListOfType
  <2>3. KeepsTopOf(list, posted[w]) /\ Size(list) <= MaxSize
    BY <1>0, <2>1 DEF ListsInv
  <2>4. /\ list' = IF Admits(list, f) THEN Emplace(list, f, p) ELSE list
        /\ posted'[w] = Emplace(posted[w], f, p)
        /\ \A v \in Word \ {w} : ListOf(v)' = ListOf(v) /\ posted'[v] = posted[v]
    <3>1. /\ ListOf(w)' = IF Admits(ListOf(w), f) THEN Emplace(ListOf(w), f, p)
                                                  ELSE ListOf(w)
          /\ \A v \in Word \ {w} : ListOf(v)' = ListOf(v)
          /\ posted' = [posted EXCEPT ![w] = Emplace(posted[w], f, p)]
      BY <1>0, <1>1, InsertEffect
    <3>. QED
      BY <1>0, <3>1 DEF TypeOK
  <2>5. ASSUME NEW v \in Word \ {w}
        PROVE  /\ KeepsTopOf(ListOf(v), posted[v])'
               /\ Size(ListOf(v))' <= MaxSize
               /\ ~Evicting(v)'
    <3>1. ~Evicting(v)'
      BY <1>0, <1>1, <2>1, <2>5 DEF TypeOK, InsertIndex, Evicting
    <3>. QED
      BY <1>0, <2>1, <2>4, <3>1 DEF ListsInv, KeepsTopOf, Size
  <2>6. KeepsTopOf(list, posted[w])'
    BY <2>2, <2>3, <2>4, InsertKeepsTop DEF KeepsTopOf, Size
  <2>7. IF Evicting(w)' THEN Size(list)' = MaxSize + 1 ELSE Size(list)' <= MaxSize
    <3>1. Size(list)' = Size(list')
      BY DEF Size
    <3>2. CASE ~Admits(list, f)
      <4>1. ~Evicting(w)'
        BY <1>0, <1>1, <2>1, <3>2, NewIsEmplace DEF TypeOK, InsertIndex, Evicting, ListOf
      <4>. QED
        BY <2>3, <2>4, <3>1, <3>2, <4>1
    <3>3. CASE Admits(list, f)
      <4>1. Size(Emplace(list, f, p)) <= MaxSize + 1
        BY <2>2, <2>3, <3>3, InsertKeepsTop
      <4>2. Size(Emplace(list, f, p)) \in Nat
        <5>1. IsFiniteSet(DOMAIN list)
          BY <2>3, FS_Subset DEF KeepsTopOf
        <5>. QED
          <6>1. DOMAIN Emplace(list, f, p) = DOMAIN list \cup {f}
            BY <2>2, EmplaceType
          <6>2. Cardinality(DOMAIN list \cup {f}) \in Nat
            BY <5>1, FS_AddElement, FS_CardinalityType
          <6>. QED
            BY <6>1, <6>2 DEF Size
      <4>3. CASE w \in DOMAIN indexMap
        <5>1. Evicting(w)' <=> Size(Emplace(list, f, p)) > MaxSize
          BY <1>0, <1>1, <2>1, <3>3, <4>3 DEF TypeOK, InsertIndex, Evicting, ListOf
        <5>. QED
          BY <2>4, <3>1, <3>3, <4>1, <4>2, <5>1, SizeAssumption
      <4>4. CASE w \notin DOMAIN indexMap
        <5>1. ~Evicting(w)'
          BY <1>0, <1>1, <2>1, <4>4 DEF TypeOK, InsertIndex, Evicting
        <5>2. list = EmptyList
          BY <4>4 DEF ListOf
        <5>3. DOMAIN Emplace(list, f, p) = {f}
          BY <5>2 DEF Emplace, EmptyList
        <5>4. Size(Emplace(list, f, p)) = 1
          BY <5>3, FS_Singleton DEF Size
        <5>. QED
          BY <2>4, <3>1, <3>3, <5>1, <5>4, SizeAssumption
      <4>. QED
        BY <4>3, <4>4
    <3>. QED
      BY <3>2, <3>3
  <2>. QED
    BY <2>5, <2>6, <2>7 DEF ListsInv
<1>2. ASSUME NEW t \in Thread, EvictSmallest(t)
      PROVE  ListsInv'
  <2>. DEFINE w == word[t]
  <2>1. /\ w \in Word
        /\ \A v \in Word : ListOf(v)' = IF v = w THEN EraseSmallest(ListOf(v))
                                                 ELSE ListOf(v)
        /\ posted' = posted
    BY <1>0, <1>2, EvictEffect
  <2>2. Evicting(w) /\ \A v \in Word \ {w} : ~Evicting(v)
    BY <1>0, <1>2, <2>1, EvictingIsHolder DEF EvictSmallest, MutexHeldByEvictor
  <2>3. \A v \in Word : ~Evicting(v)'
    BY <1>0, <1>2, NextMutex, ThreadAssumption
       DEF EvictSmallest, MutexHeldByEvictor, Evicting, TypeOK
  <2>4. ListOf(w) \in Lists /\ posted[w] \in Lists
    BY <1>0, <2>1, ListOfType
  <2>5. KeepsTopOf(ListOf(w), posted[w]) /\ Size(ListOf(w)) = MaxSize + 1
    BY <1>0, <2>1, <2>2 DEF ListsInv
  <2>6. /\ KeepsTopOf(EraseSmallest(ListOf(w)), posted[w])
        /\ Size(EraseSmallest(ListOf(w))) = MaxSize
    BY <2>4, <2>5, EvictKeepsTop
  <2>7. ASSUME NEW v \in Word
        PROVE  KeepsTopOf(ListOf(v)', posted[v]) /\ Size(ListOf(v)') <= MaxSize
    <3>1. CASE v = w
      BY <2>1, <2>6, <3>1, SizeAssumption
    <3>2. CASE v # w
      BY <1>0, <2>1, <2>2, <3>2 DEF ListsInv
    <3>. QED
      BY <3>1, <3>2
  <2>. QED
    BY <2>1, <2>3, <2>7 DEF ListsInv, KeepsTopOf, Size
<1>3. ASSUME NEW t \in Thread, NEW w \in Word, LookupIndex(t, w)
      PROVE  ListsInv'
  <2>1. \A v \in Word : Evicting(v)' <=> Evicting(v)
    BY <1>0, <1>3 DEF LookupIndex, Evicting, TypeOK
  <2>. QED
    BY <1>0, <1>3, <2>1, SameListsInv DEF LookupIndex
<1>4. ASSUME NEW t \in Thread, NEW f \in Freq, VisitEntry(t, f)
      PROVE  ListsInv'
  <2>1. \A v \in Word : Evicting(v)' <=> Evicting(v)
    BY <1>4 DEF VisitEntry, Evicting
  <2>. QED
    BY <1>0, <1>4, <2>1, SameListsInv DEF VisitEntry
<1>5. ASSUME NEW t \in Thread, ReturnFound(t) \/ LoseIterator(t) \/ ClearTemporary(t)
      PROVE  ListsInv'
  <2>1. \A v \in Word : Evicting(v)' <=> Evicting(v)
    BY <1>0, <1>5 DEF ReturnFound, LoseIterator, ClearTemporary, Evicting, TypeOK
  <2>. QED
    BY <1>0, <1>5, <2>1, SameListsInv DEF ReturnFound, LoseIterator, ClearTemporary
<1>6. CASE UNCHANGED vars
  <2>1. \A v \in Word : Evicting(v)' <=> Evicting(v)
    BY <1>6 DEF vars, Evicting
  <2>. QED
    BY <1>0, <1>6, <2>1, SameListsInv DEF vars
<1>. QED
  BY <1>1, <1>2, <1>3, <1>4, <1>5, <1>6 DEF Next, Insert, Lookup, Scan

\* What a step may do to the list of a word: nothing dropped returns, and
\* only the smallest entry is dropped.
LEMMA NextLists ==
    ASSUME IndexInv, [Next]_vars, NEW w \in Word
    PROVE  /\ DOMAIN indexMap \subseteq DOMAIN indexMap'
           /\ DOMAIN posted[w] \subseteq DOMAIN posted'[w]
           /\ DOMAIN ListOf(w) \subseteq DOMAIN posted[w]
           /\ \A f \in DOMAIN posted[w] :
                 f \notin DOMAIN ListOf(w) => f \notin DOMAIN ListOf(w)'
           /\ \A f \in DOMAIN ListOf(w) \ DOMAIN ListOf(w)' :
                 \A g \in DOMAIN ListOf(w) : f <= g
<1>0. TypeOK /\ MutexHeldByEvictor /\ ListsInv /\ CallsInv
  BY DEF IndexInv
<1>a. /\ ListOf(w) \in Lists /\ posted[w] \in Lists
      /\ KeepsTopOf(ListOf(w), posted[w])
      /\ DOMAIN ListOf(w) \subseteq DOMAIN posted[w]
  BY <1>0, ListOfType DEF ListsInv, KeepsTopOf
<1>1. ASSUME NEW t \in Thread, NEW v \in Word, NEW f \in Freq, NEW p \in Path,
             InsertIndex(t, v, f, p)
      PROVE  /\ DOMAIN indexMap \subseteq DOMAIN indexMap'
             /\ DOMAIN posted[w] \subseteq DOMAIN posted'[w]
             /\ DOMAIN ListOf(w)' \subseteq DOMAIN ListOf(w)
                   \cup (IF w = v /\ f \notin DOMAIN posted[w] THEN {f} ELSE {})
             /\ DOMAIN ListOf(w) \subseteq DOMAIN ListOf(w)'
  <2>1. /\ ListOf(v)' = IF Admits(ListOf(v), f) THEN Emplace(ListOf(v), f, p)
                                                ELSE ListOf(v)
        /\ \A u \in Word \ {v} : ListOf(u)' = ListOf(u)
        /\ DOMAIN indexMap' = DOMAIN indexMap \cup {v}
        /\ posted' = [posted EXCEPT ![v] = Emplace(posted[v], f, p)]
    BY <1>0, <1>1, InsertEffect
  <2>2. CASE w # v
    BY <1>0, <2>1, <2>2 DEF TypeOK
  <2>3. CASE w = v
    <3>1. posted'[w] = Emplace(posted[w], f, p)
      BY <1>0, <2>1, <2>3 DEF TypeOK
    <3>2. DOMAIN posted'[w] = DOMAIN posted[w] \cup {f}
      <4>1. DOMAIN Emplace(posted[w], f, p) = DOMAIN posted[w] \cup {f}
        BY <1>a, EmplaceType
      <4>. QED
        BY <3>1, <4>1
    <3>3. ~Evicting(w)
      BY <1>0, <1>1, ThreadAssumption, EvictingIsHolder DEF InsertIndex, Unlocked
    <3>4. Size(ListOf(w)) <= MaxSize
      BY <1>0, <3>3 DEF ListsInv
    <3>5. DOMAIN Emplace(ListOf(w), f, p) = DOMAIN ListOf(w) \cup {f}
      BY <1>a, EmplaceType
    <3>6. Admits(ListOf(w), f) /\ f \notin DOMAIN ListOf(w) => f \notin DOMAIN posted[w]
      BY <1>a, <3>4, InsertKeepsTop
    <3>. QED
      BY <2>1, <2>3, <3>2, <3>5, <3>6
  <2>. QED
    BY <2>2, <2>3
<1>2. ASSUME NEW t \in Thread, EvictSmallest(t)
      PROVE  /\ DOMAIN indexMap' = DOMAIN indexMap
             /\ posted' = posted
             /\ DOMAIN ListOf(w)' \subseteq DOMAIN ListOf(w)
             /\ \A f \in DOMAIN ListOf(w) \ DOMAIN ListOf(w)' :
                   \A g \in DOMAIN ListOf(w) : f <= g
  <2>1. /\ word[t] \in Word
        /\ \A v \in Word : ListOf(v)' = IF v = word[t] THEN EraseSmallest(ListOf(v))
                                                       ELSE ListOf(v)
        /\ DOMAIN indexMap' = DOMAIN indexMap
        /\ posted' = posted
    BY <1>0, <1>2, EvictEffect
  <2>2. CASE w = word[t]
    <3>1. Evicting(w)
      BY <1>2, <2>2 DEF EvictSmallest, Evicting
    <3>2. Size(ListOf(w)) = MaxSize + 1
      BY <1>0, <3>1 DEF ListsInv
    <3>3. /\ DOMAIN EraseSmallest(ListOf(w)) = DOMAIN ListOf(w) \ {Min(DOMAIN ListOf(w))}
          /\ \A g \in DOMAIN ListOf(w) : Min(DOMAIN ListOf(w)) <= g
      BY <1>a, <3>2, EvictKeepsTop
    <3>. QED
      BY <2>1, <2>2, <3>3
  <2>3. CASE w # word[t]
    BY <2>1, <2>3
  <2>. QED
    BY <2>2, <2>3
<1>3. CASE UNCHANGED <<indexMap, posted>>
  BY <1>a, <1>3 DEF ListOf
<1>4. \/ \E t \in Thread, v \in Word, f \in Freq, p \in Path : InsertIndex(t, v, f, p)
      \/ \E t \in Thread : EvictSmallest(t)
      \/ UNCHANGED <<indexMap, posted>>
  BY DEF Next, Insert, Lookup, Scan, LookupIndex, VisitEntry, ReturnFound,
         LoseIterator, ClearTemporary, vars
<1>. QED
  BY <1>a, <1>1, <1>2, <1>3, <1>4

LEMMA NextCallsInv == IndexInv /\ [Next]_vars => CallsInv'
<1>. SUFFICES ASSUME IndexInv, [Next]_vars PROVE CallsInv'
  OBVIOUS
<1>0. TypeOK /\ MutexHeldByEvictor /\ ListsInv /\ CallsInv
  BY DEF IndexInv
<1>a. /\ DOMAIN indexMap \subseteq DOMAIN indexMap'
      /\ \A w \in Word : /\ DOMAIN posted[w] \subseteq DOMAIN posted'[w]
                         /\ DOMAIN ListOf(w) \subseteq DOMAIN posted[w]
  BY WordAssumption, NextLists
<1>1. ASSUME NEW t \in Thread, NEW w \in Word, NEW f \in Freq, NEW p \in Path,
             InsertIndex(t, w, f, p)
      PROVE  CallsInv'
  BY <1>0, <1>1, <1>a DEF TypeOK, CallsInv, InsertIndex
<1>2. ASSUME NEW t \in Thread, EvictSmallest(t)
      PROVE  CallsInv'
  BY <1>0, <1>2, <1>a DEF TypeOK, CallsInv, EvictSmallest
<1>3. ASSUME NEW t \in Thread, NEW w \in Word, LookupIndex(t, w)
      PROVE  CallsInv'
  BY <1>0, <1>3, <1>a DEF TypeOK, CallsInv, LookupIndex, ListOf
<1>4. ASSUME NEW t \in Thread, NEW f \in Freq, VisitEntry(t, f)
      PROVE  CallsInv'
  <2>1. word[t] \in DOMAIN indexMap /\ f \in DOMAIN ListOf(word[t])
    BY <1>0, <1>4 DEF CallsInv, VisitEntry, Ahead, ListOf
  <2>2. f \in DOMAIN posted[word[t]]
    BY <1>0, <1>a, <2>1 DEF TypeOK
  <2>. QED
    BY <1>0, <1>4, <2>2 DEF TypeOK, CallsInv, VisitEntry
<1>5. ASSUME NEW t \in Thread, ReturnFound(t) \/ LoseIterator(t) \/ ClearTemporary(t)
      PROVE  CallsInv'
  BY <1>0, <1>5 DEF TypeOK, CallsInv, ReturnFound, LoseIterator, ClearTemporary
<1>6. CASE UNCHANGED vars
  BY <1>0, <1>6 DEF CallsInv, vars
<1>. QED
  BY <1>1, <1>2, <1>3, <1>4, <1>5, <1>6 DEF Next, Insert, Lookup, Scan

\* The invariant holds in every state of every behaviour of the store.
THEOREM IndexInvariant == Spec => []IndexInv
<1>1. Init => IndexInv
  BY InitIndexInv
<1>2. IndexInv /\ [Next]_vars => IndexInv'
  BY NextTypeOK, NextMutex, NextListsInv, NextCallsInv DEF IndexInv
<1>. QED
  BY <1>1, <1>2, PTL DEF Spec

\* Every variable keeps its type.
THEOREM TypeCorrect == Spec => []TypeOK
  BY IndexInvariant, PTL DEF IndexInv

----------------------------------------------------------------------------
(* The properties                                                          *)

\* A thread is between the two steps of an insertion exactly when it holds
\* the mutex.
THEOREM MutexCorrect == Spec => []MutexHeldByEvictor
  BY IndexInvariant, PTL DEF IndexInv

\* In every reachable state the list of a word holds the MaxSize highest
\* frequencies ever inserted, each with the first path inserted with it.
THEOREM KeepsHighest == Spec => []KeepsHighestFrequencies
<1>1. IndexInv => KeepsHighestFrequencies
  <2>. SUFFICES ASSUME IndexInv, NEW w \in Word
                PROVE  IF Evicting(w)
                       THEN /\ Best(ListOf(w)) = Best(posted[w])
                            /\ Size(ListOf(w)) = MaxSize + 1
                       ELSE ListOf(w) = Best(posted[w])
    BY DEF KeepsHighestFrequencies
  <2>. DEFINE list == ListOf(w)  all == posted[w]
              L == DOMAIN list  D == DOMAIN all
  <2>1. /\ list \in Lists /\ all \in Lists
        /\ KeepsTopOf(list, all)
        /\ IF Evicting(w) THEN Size(list) = MaxSize + 1 ELSE Size(list) <= MaxSize
    BY ListOfType DEF IndexInv, ListsInv
  <2>2. /\ L \subseteq D /\ D \subseteq Nat /\ IsFiniteSet(D) /\ IsFiniteSet(L)
        /\ \A f \in L : list[f] = all[f]
        /\ \A d \in D \ L : Cardinality(L) >= MaxSize /\ \A g \in L : d < g
    BY <2>1, ListType, FreqAssumption, FS_Subset DEF KeepsTopOf, Size
  <2>3. CASE ~Evicting(w)
    <3>1. Cardinality(L) <= MaxSize
      BY <2>1, <2>3 DEF Size
    <3>2. Top(D) = L
      BY <2>2, <3>1, TopCharacterised
    <3>3. list = [f \in L |-> list[f]]
      BY <2>1, ListType
    <3>. QED
      BY <2>2, <2>3, <3>2, <3>3 DEF Best, Restrict
  <2>4. CASE Evicting(w)
    <3>. DEFINE K == L \ {Min(L)}
    <3>1. Cardinality(L) = MaxSize + 1
      BY <2>1, <2>4 DEF Size
    <3>2. L # {} /\ Top(L) = K /\ Cardinality(K) = MaxSize
      BY <2>2, <3>1, TopOfLong
    <3>3. Min(L) \in L /\ \A g \in L : Min(L) <= g
      BY <2>2, <3>2, MinOfNats
    <3>4. \A d \in D \ K : Cardinality(K) >= MaxSize /\ \A g \in K : d < g
      BY <2>2, <3>2, <3>3, SizeAssumption
    <3>5. Top(D) = K
      BY <2>2, <3>2, <3>4, TopCharacterised, SizeAssumption
    <3>. QED
      BY <2>1, <2>2, <2>4, <3>2, <3>5 DEF Best, Restrict
  <2>. QED
    BY <2>3, <2>4
<1>. QED
  BY <1>1, IndexInvariant, PTL

\* What an insertion dropped or refused is never in the list again.
THEOREM NothingReturns == Spec => EvictedNeverReturns
<1>1. IndexInv /\ [Next]_vars =>
        [\A w \in Word : \A f \in DOMAIN posted[w] :
            f \notin DOMAIN ListOf(w) => f \notin DOMAIN ListOf(w)']_vars
  BY NextLists
<1>. QED
  BY <1>1, IndexInvariant, PTL DEF Spec, EvictedNeverReturns

----------------------------------------------------------------------------
(* Lookups                                                                 *)

\* How a thread comes to be in, or to have ended, a lookup.
LEMMA LookupSteps ==
    ASSUME TypeOK, [Next]_vars, NEW u \in Thread, pc'[u] \in {"scan", "found"}
    PROVE  \/ /\ pc'[u] = pc[u] /\ word'[u] = word[u]
              /\ seen'[u] = seen[u] /\ before'[u] = before[u]
           \/ \E w \in Word : LookupIndex(u, w)
           \/ \E f \in Freq : VisitEntry(u, f)
           \/ ReturnFound(u)
<1>. DEFINE Same == /\ pc'[u] = pc[u] /\ word'[u] = word[u]
                    /\ seen'[u] = seen[u] /\ before'[u] = before[u]
<1>1. ASSUME NEW t \in Thread, NEW w \in Word, NEW f \in Freq, NEW p \in Path,
             InsertIndex(t, w, f, p)
      PROVE  Same
  BY <1>1 DEF TypeOK, InsertIndex
<1>2. ASSUME NEW t \in Thread, EvictSmallest(t) PROVE Same
  BY <1>2 DEF TypeOK, EvictSmallest
<1>3. ASSUME NEW t \in Thread, NEW w \in Word, LookupIndex(t, w), t # u PROVE Same
  BY <1>3 DEF TypeOK, LookupIndex
<1>4. ASSUME NEW t \in Thread, NEW f \in Freq, VisitEntry(t, f), t # u PROVE Same
  BY <1>4 DEF TypeOK, VisitEntry
<1>5. ASSUME NEW t \in Thread, ReturnFound(t), t # u PROVE Same
  BY <1>5 DEF TypeOK, ReturnFound
<1>6. ASSUME NEW t \in Thread, LoseIterator(t) \/ ClearTemporary(t) PROVE Same
  BY <1>6 DEF TypeOK, LoseIterator, ClearTemporary
<1>7. CASE UNCHANGED vars
  BY <1>7 DEF vars
<1>. QED
  BY <1>1, <1>2, <1>3, <1>4, <1>5, <1>6, <1>7 DEF Next, Insert, Lookup, Scan

\* As long as the entry the iterator stands on is in the list, everything the
\* lookup has read is.
THEOREM ScanStays == Spec => []ScanStaysOnList
<1>1. Init => ScanStaysOnList
  BY DEF Init, ScanStaysOnList
<1>2. IndexInv /\ ScanStaysOnList /\ [Next]_vars => ScanStaysOnList'
  <2>. SUFFICES ASSUME IndexInv, ScanStaysOnList, [Next]_vars, NEW u \in Thread,
                       pc'[u] = "scan", IteratorValid(u)'
                PROVE  seen'[u] \subseteq DOMAIN indexMap'[word'[u]]
    BY DEF ScanStaysOnList
  <2>0. TypeOK /\ CallsInv /\ seen'[u] \subseteq Freq
    BY NextTypeOK DEF IndexInv, TypeOK
  <2>1. CASE /\ pc'[u] = pc[u] /\ word'[u] = word[u]
             /\ seen'[u] = seen[u] /\ before'[u] = before[u]
    <3>0. PICK w \in Word : w = word[u]
      BY <2>0 DEF TypeOK
    <3>1. w \in DOMAIN indexMap /\ seen[u] \subseteq DOMAIN posted[w]
      BY <2>0, <2>1, <3>0 DEF CallsInv
    <3>2. /\ DOMAIN indexMap \subseteq DOMAIN indexMap'
          /\ \A f \in DOMAIN posted[w] :
                f \notin DOMAIN ListOf(w) => f \notin DOMAIN ListOf(w)'
          /\ \A f \in DOMAIN ListOf(w) \ DOMAIN ListOf(w)' :
                \A g \in DOMAIN ListOf(w) : f <= g
      BY NextLists
    <3>3. /\ DOMAIN ListOf(w) = DOMAIN indexMap[w]
          /\ DOMAIN ListOf(w)' = DOMAIN indexMap'[w]
      BY <3>1, <3>2 DEF ListOf
    <3>4. CASE seen[u] = {}
      BY <2>1, <3>4
    <3>5. CASE seen[u] # {}
      <4>1. PICK f \in seen[u] : /\ f \in DOMAIN indexMap'[w]
                                 /\ \A g \in seen[u] : f <= g
        BY <2>1, <3>0, <3>5 DEF IteratorValid
      <4>2. f \in DOMAIN indexMap[w]
        BY <3>1, <3>2, <3>3, <4>1
      <4>3. seen[u] \subseteq DOMAIN indexMap[w]
        BY <2>1, <3>0, <4>1, <4>2 DEF ScanStaysOnList, IteratorValid
      <4>4. ASSUME NEW g \in seen[u], g \notin DOMAIN indexMap'[w] PROVE FALSE
        <5>1. g <= f
          BY <3>2, <3>3, <4>2, <4>3, <4>4
        <5>2. g = f
          <6>1. f \in Nat /\ g \in Nat /\ f <= g
            BY <2>0, <2>1, <4>1, FreqAssumption
          <6>. QED
            BY <5>1, <6>1
        <5>. QED
          BY <4>1, <4>4, <5>2
      <4>. QED
        BY <2>1, <3>0, <4>4
    <3>. QED
      BY <3>4, <3>5
  <2>2. ASSUME NEW w \in Word, LookupIndex(u, w)
        PROVE  seen'[u] = {}
    BY <2>0, <2>2 DEF CallsInv, LookupIndex
  <2>3. ASSUME NEW f \in Freq, VisitEntry(u, f)
        PROVE  seen'[u] \subseteq DOMAIN indexMap'[word'[u]]
    <3>1. seen[u] \subseteq DOMAIN indexMap[word[u]]
      BY <2>3 DEF VisitEntry, ScanStaysOnList
    <3>. QED
      BY <2>0, <2>3, <3>1 DEF TypeOK, VisitEntry, Ahead
  <2>4. ~ReturnFound(u)
    BY <2>0 DEF ReturnFound, TypeOK
  <2>. QED
    BY <2>0, <2>1, <2>2, <2>3, <2>4, LookupSteps
<1>. QED
  BY <1>1, <1>2, IndexInvariant, PTL DEF Spec

\* An entry that is in the list from the beginning of a lookup to its end has
\* been visited by it.
THEOREM ScanMissesNothing == Spec => []ScanMissesNothingOld
<1>1. Init => ScanMissesNothingOld
  BY DEF Init, ScanMissesNothingOld
<1>2. IndexInv /\ ScanMissesNothingOld /\ [Next]_vars => ScanMissesNothingOld'
  <2>. SUFFICES ASSUME IndexInv, ScanMissesNothingOld, [Next]_vars,
                       NEW u \in Thread, pc'[u] \in {"scan", "found"},
                       NEW f \in before'[u] \cap DOMAIN indexMap'[word'[u]]
                PROVE  f \in seen'[u] \/ (pc'[u] = "scan" /\ f \in Ahead(u)')
    BY DEF ScanMissesNothingOld
  <2>0. TypeOK /\ CallsInv
    BY DEF IndexInv
  <2>1. CASE /\ pc'[u] = pc[u] /\ word'[u] = word[u]
             /\ seen'[u] = seen[u] /\ before'[u] = before[u]
    <3>0. PICK w \in Word : w = word[u]
      BY <2>0 DEF TypeOK
    <3>1. w \in DOMAIN indexMap /\ before[u] \subseteq DOMAIN posted[w]
      BY <2>0, <2>1, <3>0 DEF CallsInv
    <3>2. /\ DOMAIN indexMap \subseteq DOMAIN indexMap'
          /\ \A g \in DOMAIN posted[w] :
                g \notin DOMAIN ListOf(w) => g \notin DOMAIN ListOf(w)'
      BY NextLists
    <3>3. /\ DOMAIN ListOf(w) = DOMAIN indexMap[w]
          /\ DOMAIN ListOf(w)' = DOMAIN indexMap'[w]
      BY <3>1, <3>2 DEF ListOf
    <3>4. f \in DOMAIN indexMap[w]
      BY <2>1, <3>0, <3>1, <3>2, <3>3
    <3>5. f \in seen[u] \/ (pc[u] = "scan" /\ f \in Ahead(u))
      BY <2>1, <3>0, <3>4 DEF ScanMissesNothingOld
    <3>. QED
      BY <2>1, <3>5 DEF Ahead
  <2>2. ASSUME NEW w \in Word, LookupIndex(u, w)
        PROVE  pc'[u] = "scan" /\ f \in Ahead(u)'
    <3>1. seen'[u] = {} /\ pc'[u] = "scan"
      BY <2>0, <2>2 DEF CallsInv, TypeOK, LookupIndex
    <3>. QED
      BY <3>1 DEF Ahead
  <2>3. ASSUME NEW h \in Freq, VisitEntry(u, h)
        PROVE  f \in seen'[u] \/ (pc'[u] = "scan" /\ f \in Ahead(u)')
    <3>1. /\ pc[u] = "scan" /\ pc'[u] = "scan"
          /\ f \in before[u] \cap DOMAIN indexMap[word[u]]
          /\ seen'[u] = seen[u] \cup {h}
          /\ indexMap' = indexMap /\ word' = word
      BY <2>0, <2>3 DEF TypeOK, VisitEntry
    <3>2. CASE f \in seen[u]
      BY <3>1, <3>2
    <3>3. CASE f \in Ahead(u)
      <4>1. f <= h
        BY <2>3, <3>3 DEF VisitEntry
      <4>2. f \in Nat /\ h \in Nat
        BY <2>0, <3>1, FreqAssumption DEF TypeOK
      <4>3. f = h \/ f < h
        BY <4>1, <4>2
      <4>. QED
        BY <3>1, <3>3, <4>3 DEF Ahead
    <3>. QED
      BY <3>1, <3>2, <3>3 DEF ScanMissesNothingOld
  <2>4. ASSUME ReturnFound(u)
        PROVE  f \in seen'[u]
    BY <2>0, <2>4 DEF TypeOK, ReturnFound, ScanMissesNothingOld
  <2>. QED
    BY <2>0, <2>1, <2>2, <2>3, <2>4, LookupSteps
<1>. QED
  BY <1>1, <1>2, IndexInvariant, PTL DEF Spec

----------------------------------------------------------------------------
(* Refinement                                                              *)

\* Shortening a list that was short enough already changes nothing.
LEMMA BestOfShort ==
    ASSUME NEW list \in Lists, IsFiniteSet(DOMAIN list), Size(list) <= MaxSize
    PROVE  Best(list) = list
<1>1. DOMAIN list \subseteq Nat
  BY ListType, FreqAssumption
<1>2. Top(DOMAIN list) = DOMAIN list
  BY <1>1, TopOfShort DEF Size
<1>. QED
  BY <1>2, ListType DEF Best, Restrict

\* One insertion, whatever its branch, is With on the entries that survive.
LEMMA InsertIsWith ==
    ASSUME NEW list \in Lists, NEW f \in Freq, NEW p \in Path,
           IsFiniteSet(DOMAIN list), Size(list) <= MaxSize
    PROVE  Postings!With(list, f, p) =
             IF Admits(list, f) THEN Best(Emplace(list, f, p)) ELSE list
<1>. DEFINE L == DOMAIN list
<1>1. /\ L \subseteq Nat /\ f \in Nat /\ Cardinality(L) \in Nat
      /\ Size(list) = Cardinality(L)
      /\ list = [g \in L |-> list[g]]
  BY ListType, FreqAssumption, FS_CardinalityType DEF Size
<1>2. Postings!With(list, f, p) =
        [g \in Top(L \cup {f}) |-> IF g \in L THEN list[g] ELSE p]
  BY DEF Postings!With, Postings!Largest, Top, Postings!Cardinality, Cardinality
<1>3. CASE Admits(list, f)
  <2>1. Top(L \cup {f}) \subseteq L \cup {f}
    BY DEF Top
  <2>2. Best(Emplace(list, f, p)) =
          [g \in Top(L \cup {f}) |-> IF g \in L THEN list[g] ELSE p]
    BY <2>1 DEF Best, Restrict, Emplace
  <2>. QED
    BY <1>2, <1>3, <2>2
<1>4. CASE ~Admits(list, f)
  <2>1. Cardinality(L) = MaxSize /\ ~(f > Min(L))
    BY <1>1, <1>4, SizeAssumption DEF Admits
  <2>2. L # {} /\ Min(L) \in L /\ \A g \in L : Min(L) <= g
    BY <1>1, <2>1, FS_EmptySet, SizeAssumption, MinOfNats
  <2>3. IsFiniteSet(L \cup {f})
    BY FS_AddElement
  <2>4. \A d \in (L \cup {f}) \ L : Cardinality(L) >= MaxSize /\ \A g \in L : d < g
    BY <1>1, <2>1, <2>2, SizeAssumption
  <2>5. Top(L \cup {f}) = L
    BY <1>1, <2>1, <2>3, <2>4, TopCharacterised
  <2>. QED
    BY <1>1, <1>2, <1>4, <2>5
<1>. QED
  BY <1>3, <1>4

\* The index implements the one-step postings of TopPostings.
THEOREM Implements == Spec => ImplementsTopPostings
<1>. DEFINE top == [w \in Word |-> Best(ListOf(w))]
<1>1. Init => Postings!Init
  <2>. SUFFICES ASSUME Init PROVE top = [w \in Word |-> [f \in {} |-> {}]]
    BY DEF Postings!Init
  <2>1. ASSUME NEW w \in Word PROVE Best(ListOf(w)) = [f \in {} |-> {}]
    BY <2>1 DEF Init, ListOf, EmptyList, Best, Top, Restrict
  <2>. QED
    BY <2>1
<1>2. IndexInv /\ [Next]_vars => [Postings!Next]_top
  <2>. SUFFICES ASSUME IndexInv, [Next]_vars PROVE Postings!Next \/ top' = top
    OBVIOUS
  <2>0. TypeOK /\ MutexHeldByEvictor /\ ListsInv /\ CallsInv
    BY DEF IndexInv
  <2>1. ASSUME NEW t \in Thread, NEW w \in Word, NEW f \in Freq, NEW p \in Path,
               InsertIndex(t, w, f, p)
        PROVE  Postings!Next
    <3>1. ~Evicting(w)
      BY <2>0, <2>1, ThreadAssumption, EvictingIsHolder DEF InsertIndex, Unlocked
    <3>2. /\ ListOf(w) \in Lists /\ IsFiniteSet(DOMAIN ListOf(w))
          /\ Size(ListOf(w)) <= MaxSize
      BY <2>0, <3>1, ListOfType, FS_Subset DEF ListsInv, KeepsTopOf
    <3>3. Best(ListOf(w)) = ListOf(w)
      BY <3>2, BestOfShort
    <3>4. /\ ListOf(w)' = IF Admits(ListOf(w), f) THEN Emplace(ListOf(w), f, p)
                                                  ELSE ListOf(w)
          /\ \A v \in Word \ {w} : ListOf(v)' = ListOf(v)
      BY <2>0, <2>1, InsertEffect
    <3>5. Best(ListOf(w)') = Postings!With(Best(ListOf(w)), f, p)
      BY <3>2, <3>3, <3>4, InsertIsWith
    <3>6. top' = [v \in Word |-> Best(ListOf(v)')]
      BY DEF Best, Top, Restrict
    <3>7. top' = [top EXCEPT ![w] = Postings!With(@, f, p)]
      BY <3>4, <3>5, <3>6
    <3>. QED
      BY <3>7 DEF Postings!Next, Postings!Post
  <2>2. ASSUME NEW t \in Thread, EvictSmallest(t)
        PROVE  top' = top
    <3>1. /\ word[t] \in Word
          /\ \A v \in Word : ListOf(v)' = IF v = word[t] THEN EraseSmallest(ListOf(v))
                                                         ELSE ListOf(v)
      BY <2>0, <2>2, EvictEffect
    <3>2. ASSUME NEW w \in Word, w = word[t]
          PROVE  Best(EraseSmallest(ListOf(w))) = Best(ListOf(w))
      <4>. DEFINE L == DOMAIN ListOf(w)
      <4>1. Evicting(w)
        BY <2>2, <3>2 DEF EvictSmallest, Evicting
      <4>2. /\ ListOf(w) \in Lists /\ posted[w] \in Lists
            /\ KeepsTopOf(ListOf(w), posted[w])
            /\ Size(ListOf(w)) = MaxSize + 1
        BY <2>0, <4>1, ListOfType DEF ListsInv
      <4>3. L \subseteq Nat /\ IsFiniteSet(L) /\ Cardinality(L) = MaxSize + 1
        BY <4>2, ListType, FreqAssumption, FS_Subset DEF KeepsTopOf, Size
      <4>4. Top(L) = L \ {Min(L)}
        BY <4>3, TopOfLong
      <4>5. /\ EraseSmallest(ListOf(w)) \in Lists
            /\ DOMAIN EraseSmallest(ListOf(w)) = L \ {Min(L)}
            /\ Size(EraseSmallest(ListOf(w))) = MaxSize
        BY <4>2, EvictKeepsTop
      <4>6. IsFiniteSet(L \ {Min(L)})
        BY <4>3, FS_RemoveElement
      <4>7. Best(EraseSmallest(ListOf(w))) = EraseSmallest(ListOf(w))
        BY <4>5, <4>6, BestOfShort, SizeAssumption
      <4>. QED
        BY <4>4, <4>7 DEF Best, EraseSmallest
    <3>3. top' = [v \in Word |-> Best(ListOf(v)')]
      BY DEF Best, Top, Restrict
    <3>4. \A v \in Word : Best(ListOf(v)') = Best(ListOf(v))
      BY <3>1, <3>2
    <3>. QED
      BY <3>3, <3>4
  <2>3. CASE UNCHANGED indexMap
    BY <2>3 DEF ListOf, Best, Top, Restrict
  <2>4. \/ \E t \in Thread, w \in Word, f \in Freq, p \in Path : InsertIndex(t, w, f, p)
        \/ \E t \in Thread : EvictSmallest(t)
        \/ UNCHANGED indexMap
    BY DEF Next, Insert, Lookup, Scan, LookupIndex, VisitEntry, ReturnFound,
           LoseIterator, ClearTemporary, vars
  <2>. QED
    BY <2>1, <2>2, <2>3, <2>4
<1>. QED
  BY <1>1, <1>2, IndexInvariant, PTL DEF Spec, ImplementsTopPostings, Postings!Spec

----------------------------------------------------------------------------
(* Sums of naturals                                                        *)

\* What the fold of SumFunction computes, step by step.
Steps(f, S, g) ==
    g = [s \in SUBSET S |->
           IF s = {} THEN 0
           ELSE LET x == CHOOSE x \in s : TRUE
                IN  f[x] + g[s \ {x}]]

LEMMA SumIsSteps ==
    ASSUME NEW f
    PROVE  SumFunction(f) = (CHOOSE g : Steps(f, DOMAIN f, g))[DOMAIN f]
  BY Zenon DEF SumFunction, SumFunctionOnSet, FoldFunctionOnSet, MapThenFoldSet, Steps

\* A sum of naturals without recursion: f[x] pairs for each x.
Block(f, x) == {x} \X (1..f[x])
Blocks(f, s) == UNION {Block(f, x) : x \in s}

LEMMA BlockSize ==
    ASSUME NEW f, NEW x, f[x] \in Nat
    PROVE  IsFiniteSet(Block(f, x)) /\ Cardinality(Block(f, x)) = f[x]
<1>1. IsFiniteSet({x}) /\ Cardinality({x}) = 1
  BY FS_Singleton
<1>2. PICK n \in Nat : n = f[x]
  OBVIOUS
<1>3. IsFiniteSet(1..n) /\ Cardinality(1..n) = n
  BY FS_Interval
<1>4. IsFiniteSet({x} \X (1..n)) /\ Cardinality({x} \X (1..n)) = 1 * n
  <2>1. /\ IsFiniteSet({x} \X (1..n))
        /\ Cardinality({x} \X (1..n)) = Cardinality({x}) * Cardinality(1..n)
    BY <1>1, <1>3, FS_Product, Zenon
  <2>. QED
    BY <1>1, <1>3, <2>1, Zenon
<1>5. 1 * n = n
  OBVIOUS
<1>. QED
  BY <1>2, <1>4, <1>5, Zenon DEF Block

LEMMA BlocksFinite ==
    ASSUME NEW f, NEW s, IsFiniteSet(s), \A x \in s : f[x] \in Nat
    PROVE  IsFiniteSet(Blocks(f, s))
<1>. DEFINE T == {Block(f, x) : x \in s}
            h == [x \in s |-> Block(f, x)]
<1>1. h \in Surjection(s, T)
  BY DEF Surjection
<1>2. IsFiniteSet(T)
  BY <1>1, FS_Surjection
<1>3. \A t \in T : IsFiniteSet(t)
  BY BlockSize
<1>. QED
  BY <1>2, <1>3, FS_UNION DEF Blocks

LEMMA BlocksAdd ==
    ASSUME NEW f, NEW s, IsFiniteSet(s), NEW x \in s, \A y \in s : f[y] \in Nat
    PROVE  /\ Cardinality(Blocks(f, s)) = f[x] + Cardinality(Blocks(f, s \ {x}))
           /\ Cardinality(Blocks(f, s \ {x})) \in Nat
<1>1. IsFiniteSet(s \ {x})
  BY FS_RemoveElement
<1>2. IsFiniteSet(Blocks(f, s \ {x})) /\ Cardinality(Blocks(f, s \ {x})) \in Nat
  BY <1>1, BlocksFinite, FS_CardinalityType
<1>3. IsFiniteSet(Block(f, x)) /\ Cardinality(Block(f, x)) = f[x]
  BY BlockSize
<1>4. Blocks(f, s) = Block(f, x) \cup Blocks(f, s \ {x})
  BY DEF Blocks
<1>5. Block(f, x) \cap Blocks(f, s \ {x}) = {}
  BY DEF Blocks, Block
<1>6. Cardinality(Block(f, x) \cap Blocks(f, s \ {x})) = 0
  BY <1>5, FS_EmptySet
<1>7. Cardinality(Blocks(f, s)) =
        Cardinality(Block(f, x)) + Cardinality(Blocks(f, s \ {x})) - 0
  BY <1>2, <1>3, <1>4, <1>6, FS_Union
<1>. QED
  BY <1>2, <1>3, <1>7

LEMMA BlocksEmpty == ASSUME NEW f PROVE Cardinality(Blocks(f, {})) = 0
<1>1. Blocks(f, {}) = {}
  BY DEF Blocks
<1>. QED
  BY <1>1, FS_EmptySet

\* The steps can be taken, and can only end in one way.
LEMMA StepsExist ==
    ASSUME NEW f, NEW S, IsFiniteSet(S), \A x \in S : f[x] \in Nat
    PROVE  \E g : Steps(f, S, g)
<1>. DEFINE g == [s \in SUBSET S |-> Cardinality(Blocks(f, s))]
<1>1. ASSUME NEW s \in SUBSET S
      PROVE  g[s] = IF s = {} THEN 0
                    ELSE LET x == CHOOSE x \in s : TRUE IN f[x] + g[s \ {x}]
  <2>1. CASE s = {}
    BY <2>1, BlocksEmpty
  <2>2. CASE s # {}
    <3>. DEFINE x == CHOOSE x \in s : TRUE
    <3>1. x \in s
      BY <2>2
    <3>2. IsFiniteSet(s) /\ \A y \in s : f[y] \in Nat
      BY FS_Subset
    <3>3. ASSUME NEW y \in s
          PROVE  Cardinality(Blocks(f, s)) = f[y] + Cardinality(Blocks(f, s \ {y}))
      BY <3>2, BlocksAdd
    <3>4. g[s] = f[x] + g[s \ {x}]
      BY <3>1, <3>3
    <3>. QED
      BY <2>2, <3>4
  <2>. QED
    BY <2>1, <2>2
<1>2. Steps(f, S, g)
  BY <1>1 DEF Steps
<1>. QED
  BY <1>2

LEMMA StepsUnique ==
    ASSUME NEW f, NEW S, IsFiniteSet(S), \A x \in S : f[x] \in Nat,
           NEW g, Steps(f, S, g)
    PROVE  \A s \in SUBSET S : g[s] = Cardinality(Blocks(f, s))
<1>. DEFINE Bad == {s \in SUBSET S : g[s] # Cardinality(Blocks(f, s))}
            Sizes == {n \in Nat : \E s \in Bad : Cardinality(s) = n}
<1>. SUFFICES ASSUME Bad # {} PROVE FALSE
  OBVIOUS
<1>1. \A s \in SUBSET S : IsFiniteSet(s) /\ Cardinality(s) \in Nat
  BY FS_Subset, FS_CardinalityType
<1>2. Sizes # {} /\ Sizes \subseteq Nat
  BY <1>1
<1>3. PICK n \in Sizes : \A m \in Sizes : <<m, n>> \notin OpToRel(<, Nat)
  BY <1>2, NatLessThanWellFounded, WFMin
<1>4. \A m \in Sizes : ~(m < n)
  BY <1>3, Zenon DEF OpToRel
<1>5. PICK s \in Bad : Cardinality(s) = n
  OBVIOUS
<1>6. s # {}
  BY BlocksEmpty DEF Steps
<1>. DEFINE x == CHOOSE x \in s : TRUE
<1>7. x \in s
  BY <1>6
<1>8. g[s] = f[x] + g[s \ {x}]
  BY <1>6 DEF Steps
<1>9. ASSUME NEW y \in s
      PROVE  Cardinality(Blocks(f, s)) = f[y] + Cardinality(Blocks(f, s \ {y}))
  BY <1>1, BlocksAdd
<1>10. Cardinality(s \ {x}) = n - 1 /\ n \in Nat
  BY <1>1, <1>5, <1>7, FS_RemoveElement
<1>11. s \ {x} \in Bad
  BY <1>7, <1>8, <1>9
<1>12. n - 1 \in Sizes
  BY <1>1, <1>10, <1>11
<1>. QED
  BY <1>4, <1>10, <1>12

LEMMA SumIsSize ==
    ASSUME NEW f, IsFiniteSet(DOMAIN f), \A x \in DOMAIN f : f[x] \in Nat
    PROVE  SumFunction(f) = Cardinality(Blocks(f, DOMAIN f))
<1>. DEFINE g == CHOOSE g : Steps(f, DOMAIN f, g)
<1>1. Steps(f, DOMAIN f, g)
  BY StepsExist
<1>. QED
  BY <1>1, StepsUnique, SumIsSteps

\* Two functions with the same values on a set have the same sum over it.
LEMMA BlocksSame ==
    ASSUME NEW f, NEW g, NEW s, \A x \in s : f[x] = g[x]
    PROVE  Blocks(f, s) = Blocks(g, s)
  BY DEF Blocks, Block

----------------------------------------------------------------------------
(* A search uses the store                                                 *)

\* What a lookup may return, with its frequencies, and a result, with scores.
Founds == UNION {[S -> Freq] : S \in SUBSET Path}
Scores == UNION {[S -> Nat] : S \in SUBSET Path}
Answers == [word : Word, found : Founds]
Replies == [kind : {"none", "Empty", "Overflow", "Docs"}, docs : Scores]

SearchTypes ==
    /\ client \in [Searcher -> {"prompt", "waiting", "decode", "printed"}]
    /\ connected \in [Searcher -> BOOLEAN]
    /\ phase \in [Searcher -> {"idle", "words", "closed"}]
    /\ rest \in [Searcher -> Seq(Word)]
    /\ result \in [Searcher -> Scores]
    /\ reply \in [Searcher -> Replies]
    /\ DOMAIN unread = Searcher
    /\ DOMAIN shown = Searcher
    /\ answers \in [Searcher -> Seq(Answers)]

\* A searching thread in lookupIndex is there for the next word of its query.
LookupInv ==
    \A t \in Searcher : pc[t] \in {"scan", "found"} =>
        phase[t] = "words" /\ rest[t] # <<>> /\ word[t] = Head(rest[t])

\* What a lookup has read was inserted, and is still the posting it was.
ReadInv ==
    \A t \in Thread :
        /\ IsFiniteSet(DOMAIN resultOut[t])
        /\ resultOut[t] \in Founds
        /\ pc[t] \in {"idle", "evict"} => resultOut[t] = EmptyList
        /\ pc[t] \in {"scan", "found"} =>
              \A p \in DOMAIN resultOut[t] : Inserted(word[t], resultOut[t][p], p)

LEMMA EmptyIs ==
    /\ EmptyList \in Founds /\ EmptyList \in Scores
    /\ DOMAIN EmptyList = {} /\ IsFiniteSet(DOMAIN EmptyList)
<1>1. DOMAIN EmptyList = {}
  BY DEF EmptyList
<1>2. EmptyList \in [{} -> Freq] /\ EmptyList \in [{} -> Nat]
  BY DEF EmptyList
<1>. QED
  BY <1>1, <1>2, FS_EmptySet DEF Founds, Scores

\* Postings stay.
LEMMA PostedStays ==
    ASSUME TypeOK, [Next]_vars, NEW w \in Word, NEW f, NEW p, Inserted(w, f, p)
    PROVE  Inserted(w, f, p)'
<1>1. CASE UNCHANGED posted
  BY <1>1 DEF Inserted
<1>2. ASSUME NEW t \in Thread, NEW v \in Word, NEW g \in Freq, NEW q \in Path,
             InsertIndex(t, v, g, q)
      PROVE  Inserted(w, f, p)'
  <2>1. posted' = [posted EXCEPT ![v] = Emplace(@, g, q)] /\ posted \in [Word -> Lists]
    BY <1>2 DEF InsertIndex, TypeOK
  <2>2. CASE v = w
    <3>1. posted'[w] = Emplace(posted[w], g, q)
      BY <2>1, <2>2
    <3>. QED
      BY <3>1 DEF Inserted, Emplace
  <2>3. CASE v # w
    BY <2>1, <2>3 DEF Inserted
  <2>. QED
    BY <2>2, <2>3
<1>. QED
  BY <1>1, <1>2 DEF Next, vars, Insert, EvictSmallest, Lookup, LookupIndex, Scan, VisitEntry,
     ReturnFound, LoseIterator, ClearTemporary

\* Every step of a search or of an insertion beside it is one of the store.
LEMMA SearchStepIsStoreStep == TypeOK /\ [SearchNext]_allVars => [Next]_vars
<1>. SUFFICES ASSUME TypeOK, [SearchNext]_allVars PROVE [Next]_vars
  OBVIOUS
<1>1. ASSUME NEW t \in Searcher, LookupWord(t) PROVE Next
  <2>1. LookupIndex(t, Head(rest[t])) /\ Head(rest[t]) \in DOMAIN indexMap
    BY <1>1 DEF LookupWord, LookupIndex
  <2>2. Head(rest[t]) \in Word /\ t \in Thread
    BY <2>1, SearcherAssumption DEF TypeOK
  <2>. QED
    BY <2>1, <2>2 DEF Next, Lookup
<1>2. ASSUME NEW t \in Searcher, Scan(t) \/ CombineFound(t) PROVE Next
  BY <1>2, SearcherAssumption DEF CombineFound, Next
<1>3. ASSUME NEW t \in Searcher,
             SkipUnknown(t) \/ SendReply(t) \/ SendReplyFails(t) \/ Client(t)
      PROVE  UNCHANGED vars
  BY <1>3 DEF SkipUnknown, SendReply, SendReplyFails, Client, SendQuery, SendQueryFails,
     Disconnect, ReadReply, GiveUp, DecodeEntry, DecodeEnd, NextCommand
<1>4. ASSUME NEW t \in Thread \ Searcher, Index(t) PROVE Next
  BY <1>4 DEF Index, Next
<1>5. CASE UNCHANGED allVars
  BY <1>5 DEF allVars
<1>. QED
  BY <1>1, <1>2, <1>3, <1>4, <1>5 DEF SearchNext, SubWorker

LEMMA StoreInvariant == SearchSpec => []IndexInv
<1>1. SearchInit => IndexInv
  BY InitIndexInv DEF SearchInit
<1>2. IndexInv /\ [SearchNext]_allVars => IndexInv'
  BY SearchStepIsStoreStep, NextTypeOK, NextMutex, NextListsInv, NextCallsInv DEF IndexInv
<1>. QED
  BY <1>1, <1>2, PTL DEF SearchSpec

\* Seen from the store, every behaviour of searches and insertions is one of
\* IndexStore: what is proved about the store holds beside searches.
THEOREM SearchUsesStore == SearchSpec => Spec
<1>1. SearchInit => Init
  BY DEF SearchInit
<1>2. IndexInv => TypeOK
  BY DEF IndexInv
<1>. QED
  BY <1>1, <1>2, StoreInvariant, SearchStepIsStoreStep, PTL DEF SearchSpec, Spec

----------------------------------------------------------------------------
(* What a lookup reads                                                     *)

LEMMA AssignReads ==
    ASSUME NEW found \in Founds, IsFiniteSet(DOMAIN found), NEW p \in Path, NEW f \in Freq
    PROVE  /\ Assign(found, p, f) \in Founds
           /\ IsFiniteSet(DOMAIN Assign(found, p, f))
           /\ \A q \in DOMAIN Assign(found, p, f) :
                 \/ q = p /\ Assign(found, p, f)[q] = f
                 \/ q \in DOMAIN found /\ Assign(found, p, f)[q] = found[q]
<1>. DEFINE S == DOMAIN found \cup {p}
<1>1. DOMAIN found \in SUBSET Path /\ found \in [DOMAIN found -> Freq]
  BY DEF Founds
<1>2. Assign(found, p, f) \in [S -> Freq] /\ S \in SUBSET Path
  BY <1>1 DEF Assign
<1>3. IsFiniteSet(S)
  BY FS_AddElement
<1>4. Assign(found, p, f) \in Founds
  BY <1>2 DEF Founds
<1>5. DOMAIN Assign(found, p, f) = S
  BY <1>2
<1>6. \A q \in S : Assign(found, p, f)[q] = IF q = p THEN f ELSE found[q]
  BY DEF Assign
<1>. QED
  BY <1>3, <1>4, <1>5, <1>6

\* The entry an iterator reads was inserted.
LEMMA VisitReads ==
    ASSUME IndexInv, NEW t \in Thread, NEW f \in Freq, VisitEntry(t, f)
    PROVE  /\ indexMap[word[t]][f] \in Path
           /\ Inserted(word[t], f, indexMap[word[t]][f])
<1>. DEFINE w == word[t]
<1>1. w \in Word /\ w \in DOMAIN indexMap
  BY DEF IndexInv, TypeOK, CallsInv, VisitEntry
<1>2. ListOf(w) = indexMap[w] /\ indexMap[w] \in Lists
  BY <1>1 DEF ListOf, IndexInv, TypeOK
<1>3. f \in DOMAIN indexMap[w]
  BY DEF VisitEntry, Ahead
<1>4. KeepsTopOf(indexMap[w], posted[w])
  BY <1>1, <1>2 DEF IndexInv, ListsInv
<1>5. f \in DOMAIN posted[w] /\ indexMap[w][f] = posted[w][f]
  BY <1>3, <1>4 DEF KeepsTopOf
<1>6. indexMap[w][f] \in Path
  BY <1>2, <1>3 DEF Lists
<1>. QED
  BY <1>5, <1>6 DEF Inserted

LEMMA NextReadInv == IndexInv /\ ReadInv /\ [Next]_vars => ReadInv'
<1>. SUFFICES ASSUME IndexInv, ReadInv, [Next]_vars PROVE ReadInv'
  OBVIOUS
<1>0. /\ pc \in [Thread -> {"idle", "evict", "scan", "found", "undefined"}]
      /\ word \in [Thread -> Word] /\ DOMAIN resultOut = Thread
  BY DEF IndexInv, TypeOK
<1>1. ASSUME NEW w \in Word, NEW f, NEW p, Inserted(w, f, p) PROVE Inserted(w, f, p)'
  BY <1>1, PostedStays DEF IndexInv
<1>2. CASE UNCHANGED <<pc, word, resultOut>>
  BY <1>0, <1>1, <1>2 DEF ReadInv
<1>3. ASSUME NEW t \in Thread, resultOut' = resultOut, UNCHANGED word,
             \A v \in Thread \ {t} : pc'[v] = pc[v],
             pc[t] \in {"scan", "found", "undefined"}, pc'[t] \in {"found", "undefined"},
             pc'[t] = "found" => pc[t] = "scan"
      PROVE  ReadInv'
  BY <1>0, <1>1, <1>3 DEF ReadInv
<1>4. ASSUME NEW t \in Thread, resultOut' = resultOut,
             \A v \in Thread \ {t} : pc'[v] = pc[v] /\ word'[v] = word[v],
             pc[t] \in {"idle", "evict"}, pc'[t] \in {"idle", "evict", "scan"}
      PROVE  ReadInv'
  <2>1. resultOut[t] = EmptyList /\ DOMAIN resultOut[t] = {}
    BY <1>4, EmptyIs DEF ReadInv
  <2>. QED
    BY <1>0, <1>1, <1>4, <2>1 DEF ReadInv
<1>5. ASSUME NEW t \in Thread, Insert(t) PROVE ReadInv'
  <2>1. PICK w \in Word, f \in Freq, p \in Path : InsertIndex(t, w, f, p)
    BY <1>5 DEF Insert
  <2>2. CASE UNCHANGED <<pc, word>>
    BY <1>2, <2>1, <2>2 DEF InsertIndex
  <2>3. CASE pc' = [pc EXCEPT ![t] = "evict"] /\ word' = [word EXCEPT ![t] = w]
    <3>1. pc[t] = "idle" /\ resultOut' = resultOut
      BY <2>1 DEF InsertIndex
    <3>. QED
      BY <1>0, <1>4, <2>3, <3>1
  <2>. QED
    BY <2>1, <2>2, <2>3 DEF InsertIndex
<1>6. ASSUME NEW t \in Thread, EvictSmallest(t) PROVE ReadInv'
  BY <1>0, <1>4, <1>6 DEF EvictSmallest
<1>7. ASSUME NEW t \in Thread, Lookup(t) PROVE ReadInv'
  BY <1>0, <1>4, <1>7 DEF Lookup, LookupIndex
<1>8. ASSUME NEW t \in Thread, ReturnFound(t) \/ LoseIterator(t) PROVE ReadInv'
  BY <1>0, <1>3, <1>8 DEF ReturnFound, LoseIterator
<1>9. ASSUME NEW t \in Thread, ClearTemporary(t) PROVE ReadInv'
  <2>1. /\ pc' = [pc EXCEPT ![t] = "idle"] /\ UNCHANGED word
        /\ resultOut' = [resultOut EXCEPT ![t] = EmptyList]
    BY <1>9 DEF ClearTemporary
  <2>2. ASSUME NEW v \in Thread \ {t}
        PROVE  pc'[v] = pc[v] /\ resultOut'[v] = resultOut[v] /\ word'[v] = word[v]
    BY <2>1
  <2>3. pc'[t] = "idle" /\ resultOut'[t] = EmptyList
    BY <1>0, <2>1
  <2>. QED
    BY <1>0, <1>1, <2>2, <2>3, EmptyIs DEF ReadInv
<1>10. ASSUME NEW t \in Thread, NEW f \in Freq, VisitEntry(t, f) PROVE ReadInv'
  <2>. DEFINE p == indexMap[word[t]][f]
  <2>1. p \in Path /\ Inserted(word[t], f, p)
    BY <1>10, VisitReads
  <2>2. /\ resultOut' = [resultOut EXCEPT ![t] = Assign(@, p, f)]
        /\ UNCHANGED <<pc, word>> /\ pc[t] = "scan"
    BY <1>10 DEF VisitEntry
  <2>3. resultOut[t] \in Founds /\ IsFiniteSet(DOMAIN resultOut[t])
    BY DEF ReadInv
  <2>4. /\ Assign(resultOut[t], p, f) \in Founds
        /\ IsFiniteSet(DOMAIN Assign(resultOut[t], p, f))
        /\ \A q \in DOMAIN Assign(resultOut[t], p, f) :
              \/ q = p /\ Assign(resultOut[t], p, f)[q] = f
              \/ q \in DOMAIN resultOut[t] /\ Assign(resultOut[t], p, f)[q] = resultOut[t][q]
    BY <2>1, <2>3, AssignReads
  <2>. HIDE DEF p
  <2>5. resultOut'[t] = Assign(resultOut[t], p, f)
    BY <1>0, <2>2
  <2>6. \A q \in DOMAIN resultOut'[t] : Inserted(word[t], resultOut'[t][q], q)
    BY <2>1, <2>2, <2>4, <2>5 DEF ReadInv
  <2>7. (\A q \in DOMAIN resultOut[t] : Inserted(word[t], resultOut[t][q], q))'
    <3>1. ASSUME NEW q \in DOMAIN resultOut'[t], NEW g, g = resultOut'[t][q],
                 NEW v, v = word[t]
          PROVE  g \in DOMAIN posted'[v] /\ posted'[v][g] = q
      <4>1. v \in Word /\ Inserted(v, g, q)
        BY <1>0, <2>6, <3>1
      <4>2. Inserted(v, g, q)'
        BY <1>1, <4>1
      <4>. QED
        BY <4>2 DEF Inserted
    <3>. QED
      BY <2>2, <3>1 DEF Inserted
  <2>8. ASSUME NEW v \in Thread \ {t} PROVE resultOut'[v] = resultOut[v]
    BY <2>2
  <2>. QED
    BY <1>0, <1>1, <2>2, <2>4, <2>5, <2>7, <2>8 DEF ReadInv
<1>. QED
  BY <1>2, <1>5, <1>6, <1>7, <1>8, <1>9, <1>10 DEF Next, Scan, vars

----------------------------------------------------------------------------
(* Conjunctions                                                            *)

FoundsOf(seq, d) == [i \in DOMAIN seq |-> seq[i].found[d]]
InEvery(seq, d) == \A i \in DOMAIN seq : d \in DOMAIN seq[i].found

LEMMA FoundValue ==
    ASSUME NEW found \in Founds, NEW d \in DOMAIN found
    PROVE  found[d] \in Freq /\ found[d] \in Nat /\ d \in Path
  BY FreqAssumption DEF Founds

LEMMA ConjunctionIs ==
    ASSUME NEW seq \in Seq(Answers), seq # <<>>
    PROVE  /\ DOMAIN Conjunction(seq) = {d \in Path : InEvery(seq, d)}
           /\ \A d \in DOMAIN Conjunction(seq) :
                 Conjunction(seq)[d] = SumFunction(FoundsOf(seq, d))
           /\ Conjunction(seq) = [d \in DOMAIN Conjunction(seq) |-> Conjunction(seq)[d]]
  BY DEF Conjunction, InEvery, FoundsOf

\* The sum over an answer more is the sum and the answer.
LEMMA SumAppend ==
    ASSUME NEW seq \in Seq(Answers), NEW a \in Answers, NEW d,
           InEvery(seq, d), d \in DOMAIN a.found
    PROVE  SumFunction(FoundsOf(Append(seq, a), d)) = SumFunction(FoundsOf(seq, d)) + a.found[d]
<1>. DEFINE n == Len(seq)
            f == FoundsOf(seq, d)
            g == FoundsOf(Append(seq, a), d)
<1>1. /\ n \in Nat /\ DOMAIN seq = 1..n /\ DOMAIN Append(seq, a) = 1..(n + 1)
      /\ \A i \in 1..n : Append(seq, a)[i] = seq[i]
      /\ Append(seq, a)[n + 1] = a
  OBVIOUS
<1>2. DOMAIN f = 1..n /\ DOMAIN g = 1..(n + 1)
  BY <1>1 DEF FoundsOf
<1>3. \A i \in 1..n : g[i] = f[i]
  BY <1>1 DEF FoundsOf
<1>4. g[n + 1] = a.found[d]
  BY <1>1 DEF FoundsOf
<1>5. \A i \in 1..n : f[i] \in Nat
  <2>1. ASSUME NEW i \in 1..n PROVE f[i] \in Nat
    <3>1. seq[i] \in Answers /\ d \in DOMAIN seq[i].found
      BY <1>1 DEF InEvery
    <3>2. seq[i].found \in Founds /\ f[i] = seq[i].found[d]
      BY <1>1, <3>1 DEF Answers, FoundsOf
    <3>. QED
      BY <3>1, <3>2, FoundValue
  <2>. QED
    BY <2>1
<1>6. a.found[d] \in Nat
  BY FoundValue DEF Answers
<1>. HIDE DEF f, g, n
<1>7. IsFiniteSet(1..n) /\ IsFiniteSet(1..(n + 1))
  BY <1>1, FS_Interval
<1>8. \A i \in 1..(n + 1) : g[i] \in Nat
  BY <1>1, <1>3, <1>4, <1>5, <1>6
<1>9. SumFunction(f) = Cardinality(Blocks(f, 1..n))
  BY <1>2, <1>5, <1>7, SumIsSize
<1>10. SumFunction(g) = Cardinality(Blocks(g, 1..(n + 1)))
  BY <1>2, <1>7, <1>8, SumIsSize
<1>11. n + 1 \in 1..(n + 1) /\ (1..(n + 1)) \ {n + 1} = 1..n
  BY <1>1
<1>12. /\ Cardinality(Blocks(g, 1..(n + 1))) = g[n + 1] + Cardinality(Blocks(g, 1..n))
       /\ Cardinality(Blocks(g, 1..n)) \in Nat
  <2>1. ASSUME NEW S, S = 1..(n + 1), NEW x, x = n + 1
        PROVE  /\ Cardinality(Blocks(g, S)) = g[x] + Cardinality(Blocks(g, S \ {x}))
               /\ Cardinality(Blocks(g, S \ {x})) \in Nat
    <3>1. IsFiniteSet(S) /\ x \in S /\ \A y \in S : g[y] \in Nat
      BY <1>7, <1>8, <1>11, <2>1
    <3>. QED
      BY <3>1, BlocksAdd
  <2>2. /\ Cardinality(Blocks(g, 1..(n + 1))) =
              g[n + 1] + Cardinality(Blocks(g, (1..(n + 1)) \ {n + 1}))
        /\ Cardinality(Blocks(g, (1..(n + 1)) \ {n + 1})) \in Nat
    BY <2>1
  <2>. QED
    BY <1>11, <2>2
<1>13. Blocks(g, 1..n) = Blocks(f, 1..n)
  BY <1>3, BlocksSame
<1>14. SumFunction(g) = SumFunction(f) + a.found[d]
  BY <1>4, <1>6, <1>9, <1>10, <1>12, <1>13
<1>. QED
  BY <1>14 DEF f, g

LEMMA SumOne ==
    ASSUME NEW a \in Answers, NEW d \in DOMAIN a.found
    PROVE  SumFunction(FoundsOf(<<a>>, d)) = a.found[d]
<1>. DEFINE e == <<>>
<1>1. e \in Seq(Answers) /\ Append(e, a) = <<a>> /\ InEvery(e, d)
  BY DEF InEvery
<1>2. FoundsOf(e, d) = [i \in {} |-> 0]
  BY DEF FoundsOf
<1>3. SumFunction(FoundsOf(e, d)) = 0
  <2>. DEFINE f == FoundsOf(e, d)
  <2>1. DOMAIN f = {}
    BY <1>2
  <2>. HIDE DEF f
  <2>2. SumFunction(f) = Cardinality(Blocks(f, {}))
    BY <2>1, SumIsSize, FS_EmptySet
  <2>. QED
    BY <2>2, BlocksEmpty DEF f
<1>4. a.found[d] \in Nat
  BY FoundValue DEF Answers
<1>5. SumFunction(FoundsOf(Append(e, a), d)) = SumFunction(FoundsOf(e, d)) + a.found[d]
  BY <1>1, SumAppend
<1>. QED
  BY <1>1, <1>3, <1>4, <1>5

\* One answer alone is its own conjunction.
LEMMA ConjunctionOne ==
    ASSUME NEW a \in Answers
    PROVE  Conjunction(<<a>>) = a.found
<1>. DEFINE s == <<a>>
<1>1. s \in Seq(Answers) /\ s # <<>> /\ DOMAIN s = {1} /\ s[1] = a
  OBVIOUS
<1>2. a.found \in Founds
  BY DEF Answers
<1>3. DOMAIN a.found \subseteq Path /\ a.found = [d \in DOMAIN a.found |-> a.found[d]]
  BY <1>2 DEF Founds
<1>4. \A d : InEvery(s, d) <=> d \in DOMAIN a.found
  BY <1>1 DEF InEvery
<1>5. DOMAIN Conjunction(s) = DOMAIN a.found
  BY <1>1, <1>3, <1>4, ConjunctionIs
<1>6. \A d \in DOMAIN a.found : Conjunction(s)[d] = a.found[d]
  BY <1>1, <1>5, ConjunctionIs, SumOne
<1>. HIDE DEF s
<1>7. Conjunction(s) = [d \in DOMAIN Conjunction(s) |-> Conjunction(s)[d]]
  BY <1>1, ConjunctionIs
<1>8. Conjunction(s) = a.found
  BY <1>3, <1>5, <1>6, <1>7
<1>. QED
  BY <1>8 DEF s

\* Intersecting with one answer more is the conjunction with it.
LEMMA ConjunctionAppend ==
    ASSUME NEW seq \in Seq(Answers), seq # <<>>, NEW a \in Answers
    PROVE  Conjunction(Append(seq, a)) = Intersect(Conjunction(seq), a.found)
<1>. DEFINE s == Append(seq, a)
            n == Len(seq)
<1>1. /\ s \in Seq(Answers) /\ s # <<>>
      /\ n \in Nat /\ DOMAIN seq = 1..n /\ DOMAIN s = 1..(n + 1)
      /\ \A i \in 1..n : s[i] = seq[i]
      /\ s[n + 1] = a
  OBVIOUS
<1>2. \A d : InEvery(s, d) <=> InEvery(seq, d) /\ d \in DOMAIN a.found
  BY <1>1 DEF InEvery
<1>3. DOMAIN Conjunction(s) = DOMAIN Conjunction(seq) \cap DOMAIN a.found
  BY <1>1, <1>2, ConjunctionIs
<1>4. ASSUME NEW d \in DOMAIN Conjunction(s)
      PROVE  Conjunction(s)[d] = Conjunction(seq)[d] + a.found[d]
  <2>1. d \in DOMAIN Conjunction(seq) /\ d \in DOMAIN a.found
    BY <1>3
  <2>2. InEvery(seq, d)
    BY <2>1, ConjunctionIs
  <2>3. SumFunction(FoundsOf(s, d)) = SumFunction(FoundsOf(seq, d)) + a.found[d]
    BY <2>1, <2>2, SumAppend
  <2>4. Conjunction(s)[d] = SumFunction(FoundsOf(s, d))
    BY <1>1, ConjunctionIs
  <2>5. Conjunction(seq)[d] = SumFunction(FoundsOf(seq, d))
    BY <2>1, ConjunctionIs
  <2>. QED
    BY <2>3, <2>4, <2>5
<1>. HIDE DEF s
<1>5. Conjunction(s) = [d \in DOMAIN Conjunction(s) |-> Conjunction(s)[d]]
  BY <1>1, ConjunctionIs
<1>6. Conjunction(s) = Intersect(Conjunction(seq), a.found)
  BY <1>3, <1>4, <1>5 DEF Intersect
<1>. QED
  BY <1>6 DEF s

----------------------------------------------------------------------------
(* The result of a search                                                  *)

SuffixOf(seq, docs) ==
    \E i \in 1..(Len(seq) + 1) :
        /\ docs = Conjunction(SubSeq(seq, i, Len(seq)))
        /\ i = 1 \/ \E j \in 1..(i - 1) : Matches(SubSeq(seq, j, i - 1)) = {}

LEMMA SubSeqType ==
    ASSUME NEW S, NEW seq \in Seq(S), NEW i \in 1..(Len(seq) + 1), NEW n \in Nat, n <= Len(seq)
    PROVE  /\ SubSeq(seq, i, n) \in Seq(S)
           /\ i > n => SubSeq(seq, i, n) = <<>>
           /\ i <= n => SubSeq(seq, i, n) # <<>>
           /\ Len(SubSeq(seq, i, n)) = IF i <= n THEN n - i + 1 ELSE 0
           /\ \A j \in 1..(n - i + 1) : SubSeq(seq, i, n)[j] = seq[i + j - 1]
<1>1. i \in Int /\ n \in Int /\ \A k \in i..n : seq[k] \in S
  OBVIOUS
<1>2. /\ SubSeq(seq, i, n) \in Seq(S)
      /\ Len(SubSeq(seq, i, n)) = IF i <= n THEN n - i + 1 ELSE 0
      /\ \A j \in 1..(n - i + 1) : SubSeq(seq, i, n)[j] = seq[i + j - 1]
  BY <1>1, SubSeqProperties
<1>3. PICK u \in Seq(S) : u = SubSeq(seq, i, n)
  BY <1>2
<1>4. Len(u) = IF i <= n THEN n - i + 1 ELSE 0
  BY <1>2, <1>3
<1>5. (i > n => Len(u) = 0) /\ (i <= n => Len(u) > 0)
  BY <1>1, <1>4
<1>6. (i > n => u = <<>>) /\ (i <= n => u # <<>>)
  BY <1>5, EmptySeq
<1>. QED
  BY <1>2, <1>3, <1>6

PartOf(u, S, seq, i, n) ==
    /\ u \in Seq(S)
    /\ i > n => u = <<>>
    /\ i <= n => u # <<>>
    /\ Len(u) = IF i <= n THEN n - i + 1 ELSE 0
    /\ \A j \in 1..(n - i + 1) : u[j] = seq[i + j - 1]

LEMMA SubSeqIsPart ==
    ASSUME NEW S, NEW seq \in Seq(S), NEW i \in 1..(Len(seq) + 1), NEW n \in Nat, n <= Len(seq)
    PROVE  PartOf(SubSeq(seq, i, n), S, seq, i, n)
  BY SubSeqType, SMTT(30) DEF PartOf

LEMMA AppendIs ==
    ASSUME NEW S, NEW u \in Seq(S), NEW a \in S
    PROVE  /\ Append(u, a) \in Seq(S) /\ Len(Append(u, a)) = Len(u) + 1
           /\ \A j \in 1..Len(u) : Append(u, a)[j] = u[j]
           /\ Append(u, a)[Len(u) + 1] = a
  OBVIOUS

LEMMA SubSeqOfAppend ==
    ASSUME NEW S, NEW seq \in Seq(S), NEW a \in S, NEW i \in 1..(Len(seq) + 1)
    PROVE  /\ SubSeq(Append(seq, a), i, Len(seq) + 1) = Append(SubSeq(seq, i, Len(seq)), a)
           /\ \A k \in 0..Len(seq) : SubSeq(Append(seq, a), i, k) = SubSeq(seq, i, k)
<1>. DEFINE n == Len(seq)
            s == Append(seq, a)
<1>1. /\ n \in Nat /\ s \in Seq(S) /\ Len(s) = n + 1 /\ s[n + 1] = a
      /\ \A k \in 1..n : s[k] = seq[k]
  OBVIOUS
<1>2. ASSUME NEW k \in 0..n PROVE SubSeq(s, i, k) = SubSeq(seq, i, k)
  <2>1. /\ SubSeq(seq, i, k) \in Seq(S)
        /\ Len(SubSeq(seq, i, k)) = IF i <= k THEN k - i + 1 ELSE 0
        /\ \A j \in 1..(k - i + 1) : SubSeq(seq, i, k)[j] = seq[i + j - 1]
    BY <1>1, SubSeqType
  <2>2. /\ SubSeq(s, i, k) \in Seq(S)
        /\ Len(SubSeq(s, i, k)) = IF i <= k THEN k - i + 1 ELSE 0
        /\ \A j \in 1..(k - i + 1) : SubSeq(s, i, k)[j] = s[i + j - 1]
    BY <1>1, SubSeqType
  <2>3. \A j \in 1..Len(SubSeq(s, i, k)) : SubSeq(s, i, k)[j] = SubSeq(seq, i, k)[j]
    BY <1>1, <2>1, <2>2
  <2>. QED
    BY <2>1, <2>2, <2>3, SeqEqual
<1>3. SubSeq(s, i, n + 1) = Append(SubSeq(seq, i, n), a)
  <2>. DEFINE u == SubSeq(seq, i, n)
              v == SubSeq(s, i, n + 1)
  <2>1. /\ u \in Seq(S) /\ Len(u) = n - i + 1
        /\ \A j \in 1..(n - i + 1) : u[j] = seq[i + j - 1]
    BY <1>1, SubSeqType
  <2>2. /\ v \in Seq(S) /\ Len(v) = n - i + 2
        /\ \A j \in 1..(n - i + 2) : v[j] = s[i + j - 1]
    BY <1>1, SubSeqType
  <2>. HIDE DEF u, v
  <2>3. /\ Append(u, a) \in Seq(S) /\ Len(Append(u, a)) = n - i + 2
        /\ \A j \in 1..(n - i + 1) : Append(u, a)[j] = u[j]
        /\ Append(u, a)[n - i + 2] = a
    <3>1. Len(u) + 1 = n - i + 2
      BY <1>1, <2>1
    <3>2. /\ Append(u, a) \in Seq(S) /\ Len(Append(u, a)) = Len(u) + 1
          /\ \A j \in 1..Len(u) : Append(u, a)[j] = u[j]
          /\ Append(u, a)[Len(u) + 1] = a
      BY <2>1, AppendIs
    <3>. QED
      BY <2>1, <3>1, <3>2
  <2>4. ASSUME NEW j \in 1..(n - i + 2) PROVE v[j] = Append(u, a)[j]
    <3>1. CASE j = n - i + 2
      <4>1. i + j - 1 = n + 1
        BY <1>1, <3>1
      <4>. QED
        BY <1>1, <2>2, <2>3, <3>1, <4>1
    <3>2. CASE j \in 1..(n - i + 1)
      <4>1. i + j - 1 \in 1..n
        BY <1>1, <3>2
      <4>2. v[j] = seq[i + j - 1]
        BY <1>1, <2>2, <4>1
      <4>. QED
        BY <2>1, <2>3, <3>2, <4>2
    <3>3. j = n - i + 2 \/ j \in 1..(n - i + 1)
      <4>1. n \in Int /\ i \in Int
        BY <1>1
      <4>. HIDE DEF n
      <4>. QED
        BY <4>1
    <3>. QED
      BY <3>1, <3>2, <3>3
  <2>5. v = Append(u, a)
    BY <2>2, <2>3, <2>4, SeqEqual
  <2>. QED
    BY <2>5 DEF u, v
<1>. QED
  BY <1>2, <1>3

\* One answer more: the conjunction goes on, or starts over with that answer.
LEMMA SuffixAppend ==
    ASSUME NEW seq \in Seq(Answers), NEW docs, SuffixOf(seq, docs), NEW a \in Answers
    PROVE  SuffixOf(Append(seq, a), Combine(docs, a.found))
<1>. DEFINE n == Len(seq)
            s == Append(seq, a)
<1>1. n \in Nat /\ s \in Seq(Answers) /\ Len(s) = n + 1
  OBVIOUS
<1>2. PICK i \in 1..(n + 1) :
        /\ docs = Conjunction(SubSeq(seq, i, n))
        /\ i = 1 \/ \E j \in 1..(i - 1) : Matches(SubSeq(seq, j, i - 1)) = {}
  BY DEF SuffixOf
<1>3. \A j \in 1..(n + 1), k \in 0..n : SubSeq(s, j, k) = SubSeq(seq, j, k)
  BY <1>1, SubSeqOfAppend
<1>4. \A j \in 1..(n + 1) : SubSeq(s, j, n + 1) = Append(SubSeq(seq, j, n), a)
  BY <1>1, SubSeqOfAppend
<1>5. SubSeq(seq, i, n) \in Seq(Answers) /\ (i = n + 1 => SubSeq(seq, i, n) = <<>>)
  BY <1>1, SubSeqType
<1>6. Conjunction(<<>>) = NoDocs /\ DOMAIN NoDocs = {}
  BY DEF Conjunction, NoDocs, EmptyList
<1>. HIDE DEF s
<1>9. i = 1 \/ \E j \in 1..(i - 1) : Matches(SubSeq(s, j, i - 1)) = {}
  <2>. SUFFICES ASSUME i # 1 PROVE \E j \in 1..(i - 1) : Matches(SubSeq(s, j, i - 1)) = {}
    OBVIOUS
  <2>1. PICK j \in 1..(i - 1) : Matches(SubSeq(seq, j, i - 1)) = {}
    BY <1>2
  <2>2. j \in 1..(n + 1) /\ i - 1 \in 0..n
    BY <1>1
  <2>3. SubSeq(s, j, i - 1) = SubSeq(seq, j, i - 1)
    BY <1>3, <2>2
  <2>. QED
    BY <2>1, <2>3
<1>7. CASE DOMAIN docs # {}
  <2>1. SubSeq(seq, i, n) # <<>>
    BY <1>2, <1>6, <1>7
  <2>2. Conjunction(SubSeq(s, i, n + 1)) = Intersect(docs, a.found)
    BY <1>2, <1>4, <1>5, <2>1, ConjunctionAppend
  <2>3. Combine(docs, a.found) = Intersect(docs, a.found)
    BY <1>7 DEF Combine
  <2>4. i = 1 \/ \E j \in 1..(i - 1) : Matches(SubSeq(s, j, i - 1)) = {}
    BY <1>9
  <2>5. i \in 1..(n + 2)
    BY <1>1
  <2>6. SuffixOf(s, Combine(docs, a.found))
    BY <1>1, <2>2, <2>3, <2>4, <2>5 DEF SuffixOf
  <2>. QED
    BY <2>6 DEF s
<1>8. CASE DOMAIN docs = {}
  <2>1. SubSeq(s, n + 1, n + 1) = <<a>>
    <3>1. SubSeq(seq, n + 1, n) = <<>>
      BY <1>1, SubSeqType
    <3>2. n + 1 \in 1..(n + 1) /\ Append(<<>>, a) = <<a>>
      BY <1>1
    <3>. QED
      BY <1>4, <3>1, <3>2
  <2>2. Combine(docs, a.found) = Conjunction(SubSeq(s, n + 1, n + 1))
    BY <1>8, <2>1, ConjunctionOne DEF Combine
  <2>3. n + 1 = 1 \/ \E j \in 1..n : Matches(SubSeq(s, j, n)) = {}
    <3>1. CASE i = n + 1
      <4>1. i - 1 = n
        BY <1>1, <3>1
      <4>. QED
        BY <1>9, <3>1, <4>1
    <3>2. CASE i # n + 1
      <4>1. i \in 1..n /\ n \in 0..n
        BY <1>1, <3>2
      <4>2. SubSeq(s, i, n) = SubSeq(seq, i, n)
        BY <1>3, <4>1
      <4>3. Matches(SubSeq(s, i, n)) = {}
        BY <1>2, <1>8, <4>2 DEF Matches
      <4>. QED
        BY <4>1, <4>3
    <3>. QED
      BY <3>1, <3>2
  <2>4. n + 1 \in 1..(n + 2) /\ n + 1 - 1 = n
    BY <1>1
  <2>6. SuffixOf(s, Combine(docs, a.found))
    BY <1>1, <2>2, <2>3, <2>4 DEF SuffixOf
  <2>. QED
    BY <2>6 DEF s
<1>. QED
  BY <1>7, <1>8

----------------------------------------------------------------------------
(* The invariant of a search                                               *)

ResultInv ==
    \A t \in Searcher : IsFiniteSet(DOMAIN result[t]) /\ SuffixOf(answers[t], result[t])

\* Every posting that was counted is still one.
AnswersInv ==
    \A t \in Searcher : \A j \in DOMAIN answers[t] : \A d \in DOMAIN answers[t][j].found :
        Inserted(answers[t][j].word, answers[t][j].found[d], d)

\* A reply answers the words looked up so far, and none is sent to a client
\* that does not wait for it.
ReplyInv ==
    \A t \in Searcher :
        /\ reply[t] # NoReply => phase[t] # "words" /\ reply[t] = ReplyOf(result[t])
        /\ phase[t] = "words" /\ connected[t] => client[t] = "waiting"

\* What is listed of the documents of a reply when those of left are not read
\* yet: each listed document has its score, and each score is listed.
Listed(docs, left, list) ==
    /\ left \subseteq DOMAIN docs
    /\ \A s \in DOMAIN list : list[s] \in DOMAIN docs /\ docs[list[s]] = s
    /\ \A d \in DOMAIN docs \ left : docs[d] \in DOMAIN list

DecodeInv ==
    \A t \in Searcher :
        /\ client[t] # "decode" => unread[t] = {}
        /\ client[t] # "waiting" => Listed(reply[t].docs, unread[t], shown[t])

SearchInv ==
    /\ SearchTypes /\ LookupInv /\ ReadInv
    /\ ResultInv /\ AnswersInv /\ ReplyInv /\ DecodeInv

LEMMA SuffixEmpty == SuffixOf(<<>>, NoDocs)
<1>1. SubSeq(<<>>, 1, Len(<<>>)) = <<>> /\ Len(<<>>) = 0
  OBVIOUS
<1>2. Conjunction(<<>>) = NoDocs
  BY DEF Conjunction
<1>3. 1 \in 1..(Len(<<>>) + 1)
  BY <1>1
<1>. QED
  BY <1>1, <1>2, <1>3 DEF SuffixOf

LEMMA CombineType ==
    ASSUME NEW docs \in Scores, IsFiniteSet(DOMAIN docs),
           NEW found \in Founds, IsFiniteSet(DOMAIN found)
    PROVE  Combine(docs, found) \in Scores /\ IsFiniteSet(DOMAIN Combine(docs, found))
<1>1. /\ DOMAIN docs \in SUBSET Path /\ docs \in [DOMAIN docs -> Nat]
      /\ DOMAIN found \in SUBSET Path /\ found \in [DOMAIN found -> Freq]
  BY DEF Scores, Founds
<1>2. found \in Scores
  <2>1. found \in [DOMAIN found -> Nat]
    BY <1>1, FreqAssumption
  <2>. QED
    BY <1>1, <2>1 DEF Scores
<1>. DEFINE both == DOMAIN docs \cap DOMAIN found
<1>3. Intersect(docs, found) \in [both -> Nat]
  BY <1>1, FreqAssumption DEF Intersect
<1>4. both \in SUBSET Path /\ IsFiniteSet(both)
  BY <1>1, FS_Subset
<1>5. Intersect(docs, found) \in Scores /\ IsFiniteSet(DOMAIN Intersect(docs, found))
  <2>1. DOMAIN Intersect(docs, found) = both
    BY DEF Intersect
  <2>. QED
    BY <1>3, <1>4, <2>1 DEF Scores
<1>. QED
  BY <1>2, <1>5 DEF Combine

LEMMA ReplyType == ASSUME NEW docs \in Scores PROVE ReplyOf(docs) \in Replies
  BY EmptyIs DEF ReplyOf, Replies, NoDocs

\* What the steps of searches and insertions are.
LEMMA SearchCases ==
    ASSUME [SearchNext]_allVars
    PROVE  \/ UNCHANGED allVars
           \/ \E t \in Searcher :
                \/ LookupWord(t) \/ SkipUnknown(t) \/ (Scan(t) /\ UNCHANGED searchVars)
                \/ CombineFound(t) \/ SendReply(t) \/ SendReplyFails(t)
                \/ \E q \in Query : SendQuery(t, q)
                \/ SendQueryFails(t) \/ Disconnect(t) \/ ReadReply(t) \/ GiveUp(t)
                \/ DecodeEntry(t) \/ DecodeEnd(t) \/ NextCommand(t)
           \/ \E t \in Thread \ Searcher : Index(t)
  BY DEF SearchNext, SubWorker, Client

LEMMA InitSearchInv == SearchInit => SearchInv
<1>. SUFFICES ASSUME SearchInit PROVE SearchInv
  OBVIOUS
<1>1. NoDocs \in Scores /\ IsFiniteSet(DOMAIN NoDocs) /\ NoReply \in Replies
  BY EmptyIs DEF NoDocs, NoReply, Replies
<1>2. SearchTypes
  BY <1>1 DEF SearchInit, SearchTypes
<1>3. LookupInv
  BY SearcherAssumption DEF SearchInit, Init, LookupInv
<1>4. ReadInv
  BY EmptyIs DEF SearchInit, Init, ReadInv
<1>5. ResultInv
  BY <1>1, SuffixEmpty DEF SearchInit, ResultInv
<1>6. AnswersInv
  BY DEF SearchInit, AnswersInv
<1>7. ReplyInv
  BY DEF SearchInit, ReplyInv
<1>8. DecodeInv
  <2>1. DOMAIN NoDocs = {} /\ NoReply.docs = NoDocs
    BY EmptyIs DEF NoDocs, NoReply
  <2>. QED
    BY <2>1 DEF SearchInit, DecodeInv, Listed
<1>. QED
  BY <1>2, <1>3, <1>4, <1>5, <1>6, <1>7, <1>8 DEF SearchInv

\* What the lookup of a word returned is an answer.
LEMMA FoundIsAnswer ==
    ASSUME SearchTypes, LookupInv, ReadInv, NEW t \in Searcher, CombineFound(t)
    PROVE  /\ resultOut[t] \in Founds /\ IsFiniteSet(DOMAIN resultOut[t])
           /\ [word |-> Head(rest[t]), found |-> resultOut[t]] \in Answers
           /\ rest[t] \in Seq(Word) /\ Tail(rest[t]) \in Seq(Word)
           /\ \A p \in DOMAIN resultOut[t] : Inserted(Head(rest[t]), resultOut[t][p], p)
<1>1. pc[t] = "found" /\ t \in Thread
  BY SearcherAssumption DEF CombineFound, ClearTemporary
<1>2. rest[t] # <<>> /\ word[t] = Head(rest[t])
  BY <1>1 DEF LookupInv
<1>3. rest[t] \in Seq(Word) /\ Head(rest[t]) \in Word /\ Tail(rest[t]) \in Seq(Word)
  BY <1>2 DEF SearchTypes
<1>4. /\ resultOut[t] \in Founds /\ IsFiniteSet(DOMAIN resultOut[t])
      /\ \A p \in DOMAIN resultOut[t] : Inserted(word[t], resultOut[t][p], p)
  BY <1>1 DEF ReadInv
<1>. QED
  BY <1>2, <1>3, <1>4 DEF Answers

LEMMA NextSearchTypes ==
    ASSUME SearchTypes, LookupInv, ReadInv, ResultInv, [SearchNext]_allVars
    PROVE  SearchTypes'
<1>. USE DEF SearchTypes
<1>0. NoDocs \in Scores /\ NoReply \in Replies
  BY EmptyIs DEF NoDocs, NoReply, Replies
<1>1. CASE UNCHANGED searchVars
  BY <1>1 DEF searchVars, clientVars
<1>2. ASSUME NEW t \in Searcher, NEW q \in Query, SendQuery(t, q) PROVE SearchTypes'
  <2>1. q \in Seq(Word)
    BY QueryAssumption
  <2>2. /\ client' = [client EXCEPT ![t] = "waiting"]
        /\ \/ UNCHANGED <<phase, rest>>
           \/ /\ phase' = [phase EXCEPT ![t] = "words"]
              /\ rest' = [rest EXCEPT ![t] = q]
        /\ result' = [result EXCEPT ![t] = NoDocs]
        /\ reply' = [reply EXCEPT ![t] = NoReply]
        /\ answers' = [answers EXCEPT ![t] = <<>>]
        /\ UNCHANGED <<connected, unread, shown>>
    BY <1>2 DEF SendQuery
  <2>3. <<>> \in Seq(Answers)
    OBVIOUS
  <2>4. (phase \in [Searcher -> {"idle", "words", "closed"}])'
    BY <2>2
  <2>5. (rest \in [Searcher -> Seq(Word)])'
    BY <2>1, <2>2
  <2>6. (client \in [Searcher -> {"prompt", "waiting", "decode", "printed"}])'
    BY <2>2
  <2>7. (result \in [Searcher -> Scores] /\ reply \in [Searcher -> Replies])'
    BY <1>0, <2>2
  <2>8. (answers \in [Searcher -> Seq(Answers)])'
    BY <2>2, <2>3
  <2>. QED
    BY <2>2, <2>4, <2>5, <2>6, <2>7, <2>8
<1>3. ASSUME NEW t \in Searcher, SkipUnknown(t) PROVE SearchTypes'
  <2>1. Tail(rest[t]) \in Seq(Word)
    BY <1>3 DEF SkipUnknown
  <2>. QED
    BY <1>3, <2>1 DEF SkipUnknown, clientVars
<1>4. ASSUME NEW t \in Searcher, CombineFound(t) PROVE SearchTypes'
  <2>. DEFINE a == [word |-> Head(rest[t]), found |-> resultOut[t]]
              r == Combine(result[t], resultOut[t])
  <2>1. a \in Answers /\ Tail(rest[t]) \in Seq(Word)
    BY <1>4, FoundIsAnswer
  <2>2. r \in Scores
    <3>1. result[t] \in Scores /\ IsFiniteSet(DOMAIN result[t])
      BY DEF ResultInv
    <3>2. resultOut[t] \in Founds /\ IsFiniteSet(DOMAIN resultOut[t])
      BY <1>4, FoundIsAnswer
    <3>. QED
      BY <3>1, <3>2, CombineType
  <2>3. Append(answers[t], a) \in Seq(Answers)
    <3>1. answers[t] \in Seq(Answers)
      OBVIOUS
    <3>. QED
      BY <2>1, <3>1, AppendProperties
  <2>4. /\ result' = [result EXCEPT ![t] = r]
        /\ answers' = [answers EXCEPT ![t] = Append(answers[t], a)]
        /\ rest' = [rest EXCEPT ![t] = Tail(rest[t])]
        /\ UNCHANGED <<client, connected, phase, reply, unread, shown>>
    BY <1>4 DEF CombineFound, clientVars
  <2>. HIDE DEF a, r
  <2>. QED
    BY <2>1, <2>2, <2>3, <2>4
<1>5. ASSUME NEW t \in Searcher, SendReply(t) PROVE SearchTypes'
  <2>1. ReplyOf(result[t]) \in Replies
    BY ReplyType
  <2>. QED
    BY <1>5, <2>1 DEF SendReply, clientVars
<1>6. ASSUME NEW t \in Searcher, SendReplyFails(t) PROVE SearchTypes'
  BY <1>6 DEF SendReplyFails, clientVars
<1>7. ASSUME NEW t \in Searcher,
             \/ SendQueryFails(t) \/ Disconnect(t) \/ ReadReply(t) \/ DecodeEnd(t)
             \/ NextCommand(t)
      PROVE  SearchTypes'
  BY <1>7 DEF SendQueryFails, Disconnect, ReadReply, DecodeEnd, NextCommand
<1>8. ASSUME NEW t \in Searcher, GiveUp(t) PROVE SearchTypes'
  BY <1>0, <1>8 DEF GiveUp
<1>9. ASSUME NEW t \in Searcher, DecodeEntry(t) PROVE SearchTypes'
  BY <1>9 DEF DecodeEntry
<1>. QED
  BY <1>1, <1>2, <1>3, <1>4, <1>5, <1>6, <1>7, <1>8, <1>9, SearchCases
  DEF allVars, LookupWord, Index

LEMMA NextLookupInv ==
    ASSUME IndexInv, SearchTypes, LookupInv, ReplyInv, [SearchNext]_allVars
    PROVE  LookupInv'
<1>0. /\ pc \in [Thread -> {"idle", "evict", "scan", "found", "undefined"}]
      /\ word \in [Thread -> Word] /\ Searcher \subseteq Thread
      /\ phase \in [Searcher -> {"idle", "words", "closed"}]
      /\ rest \in [Searcher -> Seq(Word)]
  BY SearcherAssumption DEF IndexInv, TypeOK, SearchTypes
<1>1. ASSUME UNCHANGED <<phase, rest>>,
             \A t \in Searcher : UNCHANGED <<pc[t], word[t]>>
                                \/ pc'[t] \notin {"scan", "found"}
                                \/ (pc[t] = "scan" /\ pc'[t] = "found" /\ word'[t] = word[t])
      PROVE  LookupInv'
  BY <1>0, <1>1 DEF LookupInv
<1>2. ASSUME NEW t \in Searcher, UNCHANGED <<pc, word>>, pc[t] \notin {"scan", "found"},
             \A u \in Searcher \ {t} : UNCHANGED <<phase[u], rest[u]>>
      PROVE  LookupInv'
  BY <1>0, <1>2 DEF LookupInv
<1>3. ASSUME NEW t \in Searcher, LookupWord(t) PROVE LookupInv'
  <2>1. /\ phase[t] = "words" /\ rest[t] # <<>> /\ UNCHANGED <<phase, rest>>
        /\ pc' = [pc EXCEPT ![t] = "scan"] /\ word' = [word EXCEPT ![t] = Head(rest[t])]
    BY <1>3 DEF LookupWord, LookupIndex, searchVars
  <2>2. word'[t] = Head(rest[t])
    BY <1>0, <2>1
  <2>. QED
    BY <1>0, <2>1, <2>2 DEF LookupInv
<1>4. ASSUME NEW t \in Searcher, Scan(t), UNCHANGED searchVars PROVE LookupInv'
  <2>1. /\ UNCHANGED <<phase, rest, word>>
        /\ \/ pc' = pc
           \/ pc[t] = "scan" /\ pc' = [pc EXCEPT ![t] = "found"]
           \/ pc' = [pc EXCEPT ![t] = "undefined"]
    BY <1>4 DEF Scan, VisitEntry, ReturnFound, LoseIterator, searchVars
  <2>. QED
    BY <1>0, <1>1, <2>1
<1>5. ASSUME NEW t \in Searcher, CombineFound(t) PROVE LookupInv'
  <2>1. /\ UNCHANGED <<phase, word>> /\ pc' = [pc EXCEPT ![t] = "idle"]
        /\ rest' = [rest EXCEPT ![t] = Tail(@)]
    BY <1>5 DEF CombineFound, ClearTemporary
  <2>2. pc'[t] = "idle" /\ \A u \in Searcher \ {t} : pc'[u] = pc[u] /\ rest'[u] = rest[u]
    BY <1>0, <2>1
  <2>. QED
    BY <1>0, <2>1, <2>2 DEF LookupInv
<1>6. ASSUME NEW t \in Searcher, SkipUnknown(t) PROVE LookupInv'
  BY <1>0, <1>2, <1>6 DEF SkipUnknown, vars
<1>7. ASSUME NEW t \in Searcher, SendReply(t) \/ SendReplyFails(t) PROVE LookupInv'
  <2>1. UNCHANGED <<pc, word>> /\ pc[t] = "idle"
    BY <1>7 DEF SendReply, SendReplyFails, vars
  <2>2. \A u \in Searcher \ {t} : UNCHANGED <<phase[u], rest[u]>>
    BY <1>0, <1>7 DEF SendReply, SendReplyFails
  <2>. QED
    BY <1>2, <2>1, <2>2
<1>10. ASSUME NEW t \in Searcher, NEW q \in Query, SendQuery(t, q) PROVE LookupInv'
  <2>1. UNCHANGED <<pc, word>> /\ phase[t] # "words"
    BY <1>10 DEF SendQuery, vars, ReplyInv
  <2>2. pc[t] \notin {"scan", "found"}
    BY <2>1 DEF LookupInv
  <2>3. \A u \in Searcher \ {t} : UNCHANGED <<phase[u], rest[u]>>
    BY <1>0, <1>10 DEF SendQuery
  <2>. QED
    BY <1>2, <2>1, <2>2, <2>3
<1>11. ASSUME NEW t \in Searcher,
              \/ SendQueryFails(t) \/ Disconnect(t) \/ ReadReply(t) \/ GiveUp(t)
              \/ DecodeEntry(t) \/ DecodeEnd(t) \/ NextCommand(t)
       PROVE  LookupInv'
  <2>1. UNCHANGED <<pc, word, phase, rest>>
    BY <1>11 DEF SendQueryFails, Disconnect, ReadReply, GiveUp, DecodeEntry, DecodeEnd,
       NextCommand, vars
  <2>. QED
    BY <1>1, <2>1
<1>8. ASSUME NEW t \in Thread \ Searcher, Index(t) PROVE LookupInv'
  <2>1. UNCHANGED <<phase, rest>>
    BY <1>8 DEF Index, searchVars
  <2>2. \A u \in Searcher : UNCHANGED <<pc[u], word[u]>>
    BY <1>0, <1>8 DEF Index, Insert, InsertIndex, EvictSmallest
  <2>. QED
    BY <1>1, <2>1, <2>2
<1>9. CASE UNCHANGED allVars
  BY <1>1, <1>9 DEF allVars, vars, searchVars
<1>. QED
  BY <1>3, <1>4, <1>5, <1>6, <1>7, <1>8, <1>9, <1>10, <1>11, SearchCases

\* Only a query and a word that was found change the answers.
LEMMA AnswersStay ==
    ASSUME [SearchNext]_allVars
    PROVE  \/ UNCHANGED <<result, answers>>
           \/ \E t \in Searcher, q \in Query : SendQuery(t, q)
           \/ \E t \in Searcher : CombineFound(t)
<1>1. ASSUME NEW t \in Searcher,
             \/ LookupWord(t) \/ SkipUnknown(t) \/ (Scan(t) /\ UNCHANGED searchVars)
             \/ SendReply(t) \/ SendReplyFails(t)
             \/ SendQueryFails(t) \/ Disconnect(t) \/ ReadReply(t) \/ GiveUp(t)
             \/ DecodeEntry(t) \/ DecodeEnd(t) \/ NextCommand(t)
      PROVE  UNCHANGED <<result, answers>>
  BY <1>1 DEF searchVars, LookupWord, SkipUnknown, SendReply, SendReplyFails, SendQueryFails,
     Disconnect, ReadReply, GiveUp, DecodeEntry, DecodeEnd, NextCommand
<1>2. ASSUME NEW t \in Thread \ Searcher, Index(t) PROVE UNCHANGED <<result, answers>>
  BY <1>2 DEF Index, searchVars
<1>3. CASE UNCHANGED allVars
  BY <1>3 DEF allVars, searchVars
<1>. QED
  BY <1>1, <1>2, <1>3, SearchCases

LEMMA NextResultInv ==
    ASSUME SearchTypes, LookupInv, ReadInv, ResultInv, [SearchNext]_allVars
    PROVE  ResultInv'
<1>0. /\ result \in [Searcher -> Scores] /\ answers \in [Searcher -> Seq(Answers)]
  BY DEF SearchTypes
<1>1. CASE UNCHANGED <<result, answers>>
  BY <1>1 DEF ResultInv
<1>2. ASSUME NEW t \in Searcher,
             result' = [result EXCEPT ![t] = NoDocs], answers' = [answers EXCEPT ![t] = <<>>]
      PROVE  ResultInv'
  <2>1. result'[t] = NoDocs /\ answers'[t] = <<>>
    BY <1>0, <1>2
  <2>2. \A u \in Searcher \ {t} : result'[u] = result[u] /\ answers'[u] = answers[u]
    BY <1>2
  <2>3. IsFiniteSet(DOMAIN NoDocs)
    BY EmptyIs DEF NoDocs
  <2>4. \A u \in Searcher : IsFiniteSet(DOMAIN result'[u]) /\ SuffixOf(answers'[u], result'[u])
    BY <2>1, <2>2, <2>3, SuffixEmpty DEF ResultInv
  <2>. QED
    BY <2>4 DEF ResultInv
<1>3. ASSUME NEW t \in Searcher, CombineFound(t) PROVE ResultInv'
  <2>. DEFINE a == [word |-> Head(rest[t]), found |-> resultOut[t]]
              r == Combine(result[t], resultOut[t])
  <2>1. /\ a \in Answers /\ a.found = resultOut[t]
        /\ resultOut[t] \in Founds /\ IsFiniteSet(DOMAIN resultOut[t])
    BY <1>3, FoundIsAnswer
  <2>2. /\ result[t] \in Scores /\ IsFiniteSet(DOMAIN result[t])
        /\ answers[t] \in Seq(Answers) /\ SuffixOf(answers[t], result[t])
    BY <1>0 DEF ResultInv
  <2>3. IsFiniteSet(DOMAIN r)
    BY <2>1, <2>2, CombineType
  <2>4. SuffixOf(Append(answers[t], a), Combine(result[t], a.found))
    BY <2>1, <2>2, SuffixAppend
  <2>5. SuffixOf(Append(answers[t], a), r)
    BY <2>1, <2>4
  <2>6. /\ result' = [result EXCEPT ![t] = r]
        /\ answers' = [answers EXCEPT ![t] = Append(answers[t], a)]
    BY <1>3 DEF CombineFound
  <2>. HIDE DEF a, r
  <2>7. result'[t] = r /\ answers'[t] = Append(answers[t], a)
    BY <1>0, <2>6
  <2>8. \A u \in Searcher \ {t} : result'[u] = result[u] /\ answers'[u] = answers[u]
    BY <2>6
  <2>9. \A u \in Searcher : IsFiniteSet(DOMAIN result'[u]) /\ SuffixOf(answers'[u], result'[u])
    BY <2>3, <2>5, <2>7, <2>8 DEF ResultInv
  <2>. QED
    BY <2>9 DEF ResultInv
<1>4. ASSUME NEW t \in Searcher, NEW q \in Query, SendQuery(t, q) PROVE ResultInv'
  BY <1>2, <1>4 DEF SendQuery
<1>. QED
  BY <1>1, <1>3, <1>4, AnswersStay

LEMMA NextAnswersInv ==
    ASSUME IndexInv, SearchTypes, LookupInv, ReadInv, AnswersInv, [SearchNext]_allVars
    PROVE  AnswersInv'
<1>0. answers \in [Searcher -> Seq(Answers)] /\ TypeOK
  BY DEF SearchTypes, IndexInv
<1>1. ASSUME NEW w \in Word, NEW f, NEW p, Inserted(w, f, p)
      PROVE  f \in DOMAIN posted'[w] /\ posted'[w][f] = p
  <2>1. [Next]_vars
    BY <1>0, SearchStepIsStoreStep
  <2>2. Inserted(w, f, p)'
    BY <1>0, <1>1, <2>1, PostedStays
  <2>. QED
    BY <2>2 DEF Inserted
\* Answers that were there are still justified.
<1>2. ASSUME NEW t \in Searcher, NEW j \in DOMAIN answers[t], NEW a, a = answers[t][j],
             NEW d \in DOMAIN a.found
      PROVE  a.found[d] \in DOMAIN posted'[a.word] /\ posted'[a.word][a.found[d]] = d
  <2>1. a \in Answers /\ a.word \in Word
    <3>1. answers[t] \in Seq(Answers)
      BY <1>0
    <3>2. a \in Answers
      BY <1>2, <3>1
    <3>. QED
      BY <3>2 DEF Answers
  <2>2. Inserted(a.word, a.found[d], d)
    BY <1>2 DEF AnswersInv
  <2>. QED
    BY <1>1, <2>1, <2>2
<1>3. CASE UNCHANGED answers
  BY <1>2, <1>3 DEF AnswersInv, Inserted
<1>4. ASSUME NEW t \in Searcher, answers' = [answers EXCEPT ![t] = <<>>] PROVE AnswersInv'
  <2>1. answers'[t] = <<>> /\ \A u \in Searcher \ {t} : answers'[u] = answers[u]
    BY <1>0, <1>4
  <2>2. DOMAIN answers'[t] = {}
    BY <2>1
  <2>3. ASSUME NEW u \in Searcher, NEW j \in DOMAIN answers'[u],
               NEW d \in DOMAIN answers'[u][j].found
        PROVE  Inserted(answers[u][j].word, answers[u][j].found[d], d)'
    <3>1. u # t
      BY <2>2
    <3>2. answers'[u] = answers[u]
      BY <2>1, <3>1
    <3>. QED
      BY <1>2, <3>2 DEF Inserted
  <2>. QED
    BY <2>3 DEF AnswersInv
<1>5. ASSUME NEW t \in Searcher, CombineFound(t) PROVE AnswersInv'
  <2>. DEFINE a == [word |-> Head(rest[t]), found |-> resultOut[t]]
  <2>1. /\ a \in Answers
        /\ \A p \in DOMAIN a.found : Inserted(a.word, a.found[p], p)
    BY <1>5, FoundIsAnswer
  <2>2. \A d \in DOMAIN a.found :
           a.found[d] \in DOMAIN posted'[a.word] /\ posted'[a.word][a.found[d]] = d
    <3>1. a.word \in Word
      BY <2>1 DEF Answers
    <3>. HIDE DEF a
    <3>. QED
      BY <1>1, <2>1, <3>1
  <2>3. answers' = [answers EXCEPT ![t] = Append(answers[t], a)]
    BY <1>5 DEF CombineFound
  <2>. HIDE DEF a
  <2>4. /\ answers'[t] = Append(answers[t], a)
        /\ \A u \in Searcher \ {t} : answers'[u] = answers[u]
    BY <1>0, <2>3
  <2>5. \A j \in DOMAIN answers'[t] :
           answers'[t][j] = a \/ (j \in DOMAIN answers[t] /\ answers'[t][j] = answers[t][j])
    <3>1. answers[t] \in Seq(Answers)
      BY <1>0
    <3>. QED
      BY <2>1, <2>4, <3>1
  <2>6. ASSUME NEW u \in Searcher, NEW j \in DOMAIN answers'[u], NEW b, b = answers'[u][j],
               NEW d \in DOMAIN b.found
        PROVE  b.found[d] \in DOMAIN posted'[b.word] /\ posted'[b.word][b.found[d]] = d
    <3>1. CASE u = t /\ b = a
      BY <2>2, <2>6, <3>1
    <3>2. CASE j \in DOMAIN answers[u] /\ b = answers[u][j]
      BY <1>2, <2>6, <3>2
    <3>. QED
      BY <2>4, <2>5, <2>6, <3>1, <3>2
  <2>. QED
    BY <2>6 DEF AnswersInv, Inserted
<1>6. ASSUME NEW t \in Searcher, NEW q \in Query, SendQuery(t, q) PROVE AnswersInv'
  BY <1>4, <1>6 DEF SendQuery
<1>. QED
  BY <1>3, <1>5, <1>6, AnswersStay

LEMMA NextReplyInv ==
    ASSUME SearchTypes, ReplyInv, [SearchNext]_allVars
    PROVE  ReplyInv'
<1>0. /\ client \in [Searcher -> {"prompt", "waiting", "decode", "printed"}]
      /\ connected \in [Searcher -> BOOLEAN]
      /\ phase \in [Searcher -> {"idle", "words", "closed"}]
      /\ result \in [Searcher -> Scores] /\ reply \in [Searcher -> Replies]
  BY DEF SearchTypes
<1>1. CASE UNCHANGED <<client, connected, phase, result, reply>>
  BY <1>1 DEF ReplyInv
\* A step of one search leaves the others alone.
<1>2. ASSUME NEW t \in Searcher,
             \A u \in Searcher \ {t} :
                UNCHANGED <<client[u], connected[u], phase[u], result[u], reply[u]>>,
             reply'[t] # NoReply => phase'[t] # "words" /\ reply'[t] = ReplyOf(result'[t]),
             phase'[t] = "words" /\ connected'[t] => client'[t] = "waiting"
      PROVE  ReplyInv'
  BY <1>2 DEF ReplyInv
<1>3. ASSUME NEW t \in Searcher, NEW q \in Query, SendQuery(t, q) PROVE ReplyInv'
  <2>1. /\ reply'[t] = NoReply /\ client'[t] = "waiting"
        /\ \A u \in Searcher \ {t} :
              UNCHANGED <<client[u], connected[u], phase[u], result[u], reply[u]>>
    BY <1>0, <1>3 DEF SendQuery
  <2>. QED
    BY <1>2, <2>1
<1>4. ASSUME NEW t \in Searcher,
             \/ SendQueryFails(t) \/ Disconnect(t) \/ DecodeEntry(t) \/ DecodeEnd(t)
             \/ NextCommand(t)
      PROVE  ReplyInv'
  <2>1. /\ UNCHANGED <<phase, result, reply>>
        /\ connected'[t] => connected[t] /\ (client[t] = "waiting" => client'[t] = "waiting")
        /\ \A u \in Searcher \ {t} : UNCHANGED <<client[u], connected[u]>>
    BY <1>0, <1>4 DEF SendQueryFails, Disconnect, DecodeEntry, DecodeEnd, NextCommand
  <2>. QED
    BY <1>2, <2>1 DEF ReplyInv
<1>5. ASSUME NEW t \in Searcher, ReadReply(t) PROVE ReplyInv'
  <2>1. /\ UNCHANGED <<connected, phase, result, reply>> /\ reply[t] # NoReply
        /\ \A u \in Searcher \ {t} : UNCHANGED client[u]
    BY <1>0, <1>5 DEF ReadReply
  <2>. QED
    BY <1>2, <2>1 DEF ReplyInv
<1>6. ASSUME NEW t \in Searcher, GiveUp(t) PROVE ReplyInv'
  <2>1. /\ UNCHANGED <<connected, phase, result>> /\ reply'[t] = NoReply /\ ~connected[t]
        /\ \A u \in Searcher \ {t} : UNCHANGED <<client[u], reply[u]>>
    BY <1>0, <1>6 DEF GiveUp
  <2>. QED
    BY <1>2, <2>1
<1>7. ASSUME NEW t \in Searcher, SkipUnknown(t) PROVE ReplyInv'
  BY <1>1, <1>7 DEF SkipUnknown, clientVars
<1>8. ASSUME NEW t \in Searcher, CombineFound(t) PROVE ReplyInv'
  <2>1. /\ UNCHANGED <<client, connected, phase, reply>> /\ phase[t] = "words"
        /\ \A u \in Searcher \ {t} : UNCHANGED result[u]
    BY <1>0, <1>8 DEF CombineFound, clientVars
  <2>2. reply[t] = NoReply /\ (connected[t] => client[t] = "waiting")
    BY <2>1 DEF ReplyInv
  <2>. QED
    BY <1>2, <2>1, <2>2
<1>9. ASSUME NEW t \in Searcher, SendReply(t) PROVE ReplyInv'
  <2>1. /\ UNCHANGED <<client, connected, result>> /\ phase[t] = "words" /\ phase'[t] = "idle"
        /\ reply'[t] = IF connected[t] THEN ReplyOf(result[t]) ELSE reply[t]
        /\ \A u \in Searcher \ {t} : UNCHANGED <<phase[u], reply[u]>>
    BY <1>0, <1>9 DEF SendReply, clientVars
  <2>2. reply[t] = NoReply
    BY <2>1 DEF ReplyInv
  <2>. QED
    BY <1>2, <2>1, <2>2
<1>10. ASSUME NEW t \in Searcher, SendReplyFails(t) PROVE ReplyInv'
  <2>1. /\ UNCHANGED <<client, connected, result, reply>> /\ phase[t] = "words"
        /\ phase'[t] = "closed"
        /\ \A u \in Searcher \ {t} : UNCHANGED phase[u]
    BY <1>0, <1>10 DEF SendReplyFails, clientVars
  <2>2. reply[t] = NoReply
    BY <2>1 DEF ReplyInv
  <2>. QED
    BY <1>2, <2>1, <2>2
<1>. QED
  BY <1>1, <1>3, <1>4, <1>5, <1>6, <1>7, <1>8, <1>9, <1>10, SearchCases
  DEF allVars, searchVars, clientVars, LookupWord, Index

\* One document of the reply more is listed.
LEMMA ListedEntry ==
    ASSUME NEW docs, NEW left, NEW list, Listed(docs, left, list), NEW d \in left
    PROVE  Listed(docs, left \ {d}, Assign(list, docs[d], d))
<1>1. /\ DOMAIN Assign(list, docs[d], d) = DOMAIN list \cup {docs[d]}
      /\ \A s \in DOMAIN list \cup {docs[d]} :
            Assign(list, docs[d], d)[s] = IF s = docs[d] THEN d ELSE list[s]
  BY DEF Assign
<1>. QED
  BY <1>1 DEF Listed

LEMMA NextDecodeInv ==
    ASSUME SearchTypes, ReplyInv, DecodeInv, [SearchNext]_allVars
    PROVE  DecodeInv'
<1>0. /\ client \in [Searcher -> {"prompt", "waiting", "decode", "printed"}]
      /\ reply \in [Searcher -> Replies]
      /\ DOMAIN unread = Searcher /\ DOMAIN shown = Searcher
  BY DEF SearchTypes
<1>1. CASE UNCHANGED <<client, reply, unread, shown>>
  BY <1>1 DEF DecodeInv
<1>2. ASSUME NEW t \in Searcher,
             \A u \in Searcher \ {t} :
                UNCHANGED <<client[u], reply[u], unread[u], shown[u]>>,
             client'[t] # "decode" => unread'[t] = {},
             client'[t] # "waiting" => Listed(reply'[t].docs, unread'[t], shown'[t])
      PROVE  DecodeInv'
  BY <1>2 DEF DecodeInv
<1>3. DOMAIN NoDocs = {} /\ NoReply.docs = NoDocs
  BY EmptyIs DEF NoDocs, NoReply
<1>4. ASSUME NEW t \in Searcher, NEW q \in Query, SendQuery(t, q) PROVE DecodeInv'
  <2>1. /\ client[t] = "prompt" /\ client'[t] = "waiting" /\ UNCHANGED <<unread, shown>>
        /\ \A u \in Searcher \ {t} : UNCHANGED <<client[u], reply[u]>>
    BY <1>0, <1>4 DEF SendQuery
  <2>. QED
    BY <1>2, <2>1 DEF DecodeInv
<1>5. ASSUME NEW t \in Searcher, SendQueryFails(t) \/ DecodeEnd(t) \/ NextCommand(t)
      PROVE  DecodeInv'
  <2>1. /\ client[t] # "waiting" /\ client'[t] # "waiting" /\ client'[t] # "decode"
        /\ client[t] # "decode" \/ unread[t] = {}
        /\ UNCHANGED <<reply, unread, shown>>
        /\ \A u \in Searcher \ {t} : UNCHANGED client[u]
    BY <1>0, <1>5 DEF SendQueryFails, DecodeEnd, NextCommand
  <2>. QED
    BY <1>2, <2>1 DEF DecodeInv
<1>6. ASSUME NEW t \in Searcher, ReadReply(t) PROVE DecodeInv'
  <2>1. /\ client'[t] = IF reply[t].kind = "Empty" THEN "printed" ELSE "decode"
        /\ unread'[t] = DOMAIN reply[t].docs /\ shown'[t] = NoDocs /\ UNCHANGED reply
        /\ \A u \in Searcher \ {t} : UNCHANGED <<client[u], unread[u], shown[u]>>
    BY <1>0, <1>6 DEF ReadReply
  <2>2. reply[t] = ReplyOf(result[t])
    BY <1>6 DEF ReadReply, ReplyInv
  <2>3. reply[t].kind = "Empty" => DOMAIN reply[t].docs = {}
    BY <1>3, <2>2 DEF ReplyOf
  <2>4. Listed(reply[t].docs, DOMAIN reply[t].docs, NoDocs)
    BY <1>3 DEF Listed
  <2>. QED
    BY <1>2, <2>1, <2>3, <2>4
<1>7. ASSUME NEW t \in Searcher, GiveUp(t) PROVE DecodeInv'
  <2>1. /\ client[t] = "waiting" /\ client'[t] = "printed" /\ shown'[t] = NoDocs
        /\ reply'[t] = NoReply /\ UNCHANGED unread
        /\ \A u \in Searcher \ {t} : UNCHANGED <<client[u], reply[u], shown[u]>>
    BY <1>0, <1>7 DEF GiveUp
  <2>2. unread[t] = {}
    BY <2>1 DEF DecodeInv
  <2>3. Listed(NoReply.docs, {}, NoDocs)
    BY <1>3 DEF Listed
  <2>. QED
    BY <1>2, <2>1, <2>2, <2>3
<1>8. ASSUME NEW t \in Searcher, DecodeEntry(t) PROVE DecodeInv'
  <2>1. PICK d \in unread[t] :
          /\ shown' = [shown EXCEPT ![t] = Assign(@, reply[t].docs[d], d)]
          /\ unread' = [unread EXCEPT ![t] = @ \ {d}]
          /\ UNCHANGED <<client, reply>>
    BY <1>8 DEF DecodeEntry
  <2>2. /\ shown'[t] = Assign(shown[t], reply[t].docs[d], d) /\ unread'[t] = unread[t] \ {d}
        /\ \A u \in Searcher \ {t} : UNCHANGED <<unread[u], shown[u]>>
    BY <1>0, <2>1
  <2>3. client[t] = "decode"
    BY <1>8 DEF DecodeEntry
  <2>4. Listed(reply[t].docs, unread[t], shown[t])
    BY <2>3 DEF DecodeInv
  <2>5. Listed(reply[t].docs, unread'[t], shown'[t])
    BY <2>2, <2>4, ListedEntry
  <2>. QED
    BY <1>2, <2>1, <2>2, <2>3, <2>5
<1>9. ASSUME NEW t \in Searcher, SendReply(t) PROVE DecodeInv'
  <2>1. /\ UNCHANGED <<client, unread, shown>> /\ phase[t] = "words"
        /\ connected[t] \/ UNCHANGED reply
        /\ \A u \in Searcher \ {t} : UNCHANGED reply[u]
    BY <1>0, <1>9 DEF SendReply, clientVars
  <2>2. client[t] = "waiting" \/ UNCHANGED reply
    BY <2>1 DEF ReplyInv
  <2>. QED
    BY <1>1, <1>2, <2>1, <2>2 DEF DecodeInv
<1>10. ASSUME NEW t \in Searcher,
              SendReplyFails(t) \/ SkipUnknown(t) \/ CombineFound(t) \/ Disconnect(t)
       PROVE  DecodeInv'
  BY <1>1, <1>10 DEF SendReplyFails, SkipUnknown, CombineFound, Disconnect, clientVars
<1>. QED
  BY <1>1, <1>4, <1>5, <1>6, <1>7, <1>8, <1>9, <1>10, SearchCases
  DEF allVars, searchVars, clientVars, LookupWord, Index

\* The invariant of searches beside insertions.
THEOREM SearchInvariant == SearchSpec => []SearchInv
<1>1. SearchInit => SearchInv
  BY InitSearchInv
<1>2. IndexInv /\ SearchInv /\ [SearchNext]_allVars => SearchInv'
  <2>. SUFFICES ASSUME IndexInv, SearchInv, [SearchNext]_allVars PROVE SearchInv'
    OBVIOUS
  <2>1. /\ SearchTypes /\ LookupInv /\ ReadInv /\ ResultInv /\ AnswersInv /\ ReplyInv
        /\ DecodeInv /\ TypeOK
    BY DEF SearchInv, IndexInv
  <2>2. ReadInv'
    BY <2>1, NextReadInv, SearchStepIsStoreStep
  <2>. QED
    BY <2>1, <2>2, NextSearchTypes, NextLookupInv, NextResultInv, NextAnswersInv, NextReplyInv,
       NextDecodeInv
    DEF SearchInv
<1>. QED
  BY <1>1, <1>2, StoreInvariant, PTL DEF SearchSpec

----------------------------------------------------------------------------
(* The properties                                                          *)

\* PerformWordsSearch computes the conjunction of the words it found since a
\* conjunction last came out empty, whatever is inserted between its lookups.
THEOREM ResultIsConjunction == SearchSpec => []ResultIsSuffixConjunction
<1>1. SearchInv => ResultIsSuffixConjunction
  BY DEF SearchInv, ResultInv, SuffixOf, ResultIsSuffixConjunction
<1>. QED
  BY <1>1, SearchInvariant, PTL

\* What is shown is taken from a reply that fits, and has its score there.
LEMMA ShownIsResult ==
    ASSUME SearchInv, NEW t \in Searcher, client[t] = "printed", NEW s \in DOMAIN shown[t]
    PROVE  shown[t][s] \in DOMAIN result[t] /\ result[t][shown[t][s]] = s
<1>. DEFINE docs == reply[t].docs
<1>1. shown[t][s] \in DOMAIN docs /\ docs[shown[t][s]] = s
  BY DEF SearchInv, DecodeInv, Listed
<1>2. DOMAIN NoDocs = {} /\ NoReply.docs = NoDocs
  BY EmptyIs DEF NoDocs, NoReply
<1>3. reply[t] = ReplyOf(result[t])
  BY <1>1, <1>2 DEF SearchInv, ReplyInv
<1>4. docs = result[t]
  BY <1>1, <1>2, <1>3 DEF ReplyOf
<1>. QED
  BY <1>1, <1>4

\* A document that is shown was inserted with every word it is counted for, and
\* its score is the sum of the frequencies it was inserted with.
THEOREM ShownFromIndex == SearchSpec => []ShownComesFromIndex
<1>1. SearchInv => ShownComesFromIndex
  <2>. SUFFICES ASSUME SearchInv, NEW t \in Searcher, client[t] = "printed",
                       NEW s \in DOMAIN shown[t]
                PROVE  \E i \in 1..Len(answers[t]) :
                         LET counted == SubSeq(answers[t], i, Len(answers[t]))
                             d == shown[t][s]
                         IN  /\ d \in Matches(counted)
                             /\ s = Conjunction(counted)[d]
                             /\ \A j \in DOMAIN counted :
                                   Inserted(counted[j].word, counted[j].found[d], d)
    BY DEF ShownComesFromIndex
  <2>. DEFINE n == Len(answers[t])
              d == shown[t][s]
  <2>1. d \in DOMAIN result[t] /\ result[t][d] = s
    BY ShownIsResult
  <2>2. answers[t] \in Seq(Answers) /\ n \in Nat
    BY DEF SearchInv, SearchTypes
  <2>3. PICK i \in 1..(n + 1) : result[t] = Conjunction(SubSeq(answers[t], i, n))
    BY DEF SearchInv, ResultInv, SuffixOf
  <2>. DEFINE counted == SubSeq(answers[t], i, n)
  <2>4. /\ counted \in Seq(Answers)
        /\ i > n => counted = <<>>
        /\ i <= n => counted # <<>>
        /\ Len(counted) = IF i <= n THEN n - i + 1 ELSE 0
        /\ \A j \in 1..(n - i + 1) : counted[j] = answers[t][i + j - 1]
    <3>1. n <= Len(answers[t]) /\ i \in 1..(Len(answers[t]) + 1)
      BY <2>2
    <3>2. PartOf(counted, Answers, answers[t], i, n)
      BY <2>2, <3>1, SubSeqIsPart
    <3>. HIDE DEF n, counted
    <3>. QED
      BY <3>2 DEF PartOf
  <2>5. i \in 1..n
    <3>1. Conjunction(<<>>) = NoDocs /\ DOMAIN NoDocs = {}
      BY EmptyIs DEF Conjunction, NoDocs
    <3>2. ~(i > n)
      BY <2>1, <2>3, <2>4, <3>1
    <3>. QED
      BY <2>2, <3>2
  <2>. HIDE DEF counted, d
  <2>6. d \in Matches(counted) /\ s = Conjunction(counted)[d]
    BY <2>1, <2>3 DEF Matches, counted
  <2>7. ASSUME NEW j \in DOMAIN counted
        PROVE  Inserted(counted[j].word, counted[j].found[d], d)
    <3>1. j \in 1..(n - i + 1)
      BY <2>2, <2>4, <2>5
    <3>2. counted[j] = answers[t][i + j - 1] /\ i + j - 1 \in DOMAIN answers[t]
      BY <2>2, <2>4, <2>5, <3>1, SMTT(20)
    <3>3. d \in DOMAIN counted[j].found
      <4>1. counted # <<>>
        BY <2>4, <2>5
      <4>2. InEvery(counted, d)
        BY <2>4, <2>6, <4>1, ConjunctionIs DEF Matches
      <4>. QED
        BY <4>2 DEF InEvery
    <3>. QED
      BY <3>2, <3>3 DEF SearchInv, AnswersInv
  <2>. QED
    BY <2>5, <2>6, <2>7 DEF counted, d
<1>. QED
  BY <1>1, SearchInvariant, PTL

\* A found document is on the printed list, or one that ties with it.
THEOREM TiesAlone == SearchSpec => []OnlyTiesAreLost
<1>1. SearchInv => OnlyTiesAreLost
  <2>. SUFFICES ASSUME SearchInv, NEW t \in Searcher,
                       client[t] = "printed", reply[t].kind = "Docs",
                       NEW d \in DOMAIN result[t]
                PROVE  /\ result[t][d] \in DOMAIN shown[t]
                       /\ shown[t][result[t][d]] \in DOMAIN result[t]
                       /\ result[t][shown[t][result[t][d]]] = result[t][d]
    BY DEF OnlyTiesAreLost
  <2>1. reply[t] # NoReply
    BY DEF NoReply
  <2>2. reply[t] = ReplyOf(result[t])
    BY <2>1 DEF SearchInv, ReplyInv
  <2>3. reply[t].docs = result[t]
    BY <2>2 DEF ReplyOf
  <2>4. Listed(result[t], {}, shown[t])
    BY <2>3 DEF SearchInv, DecodeInv
  <2>5. result[t][d] \in DOMAIN shown[t]
    BY <2>4 DEF Listed
  <2>. QED
    BY <2>5, ShownIsResult
<1>. QED
  BY <1>1, SearchInvariant, PTL

=============================================================================
