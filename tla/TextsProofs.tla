----------------------------- MODULE TextsProofs -----------------------------
(***************************************************************************)
(* Proofs about the operators on texts: the members of a set in order, the *)
(* items at some positions of a sequence, and the words of a text.         *)
(***************************************************************************)
EXTENDS Texts, FiniteSetTheorems, SequenceTheorems, WellFoundedInduction, TLAPS

----------------------------------------------------------------------------
(* Numbers in order                                                        *)

LEMMA LeastOf ==
    ASSUME NEW S \in SUBSET Nat, S # {}
    PROVE  Min(S) \in S /\ \A y \in S : Min(S) <= y
<1>1. PICK x \in S : \A y \in S : <<y, x>> \notin OpToRel(<, Nat)
  BY NatLessThanWellFounded, WFMin
<1>2. \A y \in S : ~(y < x)
  BY <1>1, Zenon DEF OpToRel
<1>3. \A y \in S : x <= y
  BY <1>2
<1>. QED
  BY <1>3 DEF Min

Below(S, x) == {y \in S : y < x}

LEMMA ProperSubset ==
    ASSUME NEW S, IsFiniteSet(S), NEW T \in SUBSET S
    PROVE  /\ IsFiniteSet(T) /\ Cardinality(T) \in Nat /\ Cardinality(S) \in Nat
           /\ Cardinality(T) <= Cardinality(S)
           /\ T # S => Cardinality(T) < Cardinality(S)
<1>1. /\ IsFiniteSet(T) /\ Cardinality(T) <= Cardinality(S)
      /\ Cardinality(S) = Cardinality(T) => S = T
  BY FS_Subset
<1>2. Cardinality(S) \in Nat /\ Cardinality(T) \in Nat
  BY <1>1, FS_CardinalityType
<1>. QED
  BY <1>1, <1>2

LEMMA BelowIs ==
    ASSUME NEW S \in SUBSET Nat, IsFiniteSet(S)
    PROVE  /\ \A x \in S : Cardinality(Below(S, x)) \in 0..(Cardinality(S) - 1)
           /\ \A x, y \in S : x < y => Cardinality(Below(S, x)) < Cardinality(Below(S, y))
<1>1. ASSUME NEW x \in S PROVE Cardinality(Below(S, x)) \in 0..(Cardinality(S) - 1)
  <2>1. x \in Nat
    OBVIOUS
  <2>2. Below(S, x) \in SUBSET S /\ Below(S, x) # S
    BY <2>1 DEF Below
  <2>3. /\ Cardinality(Below(S, x)) \in Nat /\ Cardinality(S) \in Nat
        /\ Cardinality(Below(S, x)) < Cardinality(S)
    BY <2>2, ProperSubset
  <2>. QED
    BY <2>3
<1>2. ASSUME NEW x \in S, NEW y \in S, x < y
      PROVE  Cardinality(Below(S, x)) < Cardinality(Below(S, y))
  <2>1. x \in Nat /\ y \in Nat /\ \A z \in S : z \in Nat
    OBVIOUS
  <2>2. ~(x < x) /\ \A z \in S : z < x => z < y
    BY <1>2, <2>1
  <2>3. Below(S, x) \in SUBSET Below(S, y) /\ x \notin Below(S, x) /\ x \in Below(S, y)
    BY <1>2, <2>2, Zenon DEF Below
  <2>4. Below(S, x) # Below(S, y)
    BY <2>3
  <2>5. Below(S, y) \in SUBSET S
    BY DEF Below
  <2>6. IsFiniteSet(Below(S, y))
    BY <2>5, ProperSubset
  <2>. QED
    BY <2>3, <2>4, <2>6, ProperSubset
<1>. QED
  BY <1>1, <1>2

\* Each place is taken by one member.
LEMMA PlaceTaken ==
    ASSUME NEW S \in SUBSET Nat, IsFiniteSet(S), NEW k \in 1..Cardinality(S)
    PROVE  \E x \in S : Cardinality(Below(S, x)) = k - 1
<1>. DEFINE n == Cardinality(S)
            place == [x \in S |-> Cardinality(Below(S, x)) + 1]
<1>1. n \in Nat
  BY FS_CardinalityType
<1>2. place \in [S -> 1..n]
  BY <1>1, BelowIs
<1>3. \A x, y \in S : x # y => place[x] # place[y]
  <2>1. \A x, y \in S : x < y => place[x] # place[y]
    BY BelowIs
  <2>. QED
    BY <2>1
<1>4. place \in Injection(S, 1..n)
  BY <1>2, <1>3 DEF Injection, IsInjective
<1>5. IsFiniteSet(1..n) /\ Cardinality(1..n) = Cardinality(S)
  BY <1>1, FS_Interval
<1>6. place \in Surjection(S, 1..n)
  BY <1>4, <1>5, FS_Injection
<1>7. PICK x \in S : place[x] = k
  BY <1>6 DEF Surjection
<1>8. Cardinality(Below(S, x)) \in Int /\ place[x] = Cardinality(Below(S, x)) + 1
  BY BelowIs
<1>. HIDE DEF place
<1>. QED
  BY <1>7, <1>8

\* The sequence has the members of the set, each once, in order.
InOrderOf(order, S) ==
    /\ order \in Seq(S)
    /\ Len(order) = Cardinality(S)
    /\ \A j, k \in DOMAIN order : j < k => order[j] < order[k]
    /\ \A x \in S : \E k \in DOMAIN order : order[k] = x

LEMMA InOrderIs ==
    ASSUME NEW S \in SUBSET Nat, IsFiniteSet(S)
    PROVE  /\ InOrderOf(InOrder(S), S)
           /\ \A k \in 1..Cardinality(S) :
                 InOrder(S)[k] \in S /\ Cardinality(Below(S, InOrder(S)[k])) = k - 1
<1>. DEFINE n == Cardinality(S)
            order == InOrder(S)
<1>1. n \in Nat
  BY FS_CardinalityType
<1>2. order = [k \in 1..n |-> CHOOSE x \in S : Cardinality(Below(S, x)) = k - 1]
  BY Zenon DEF InOrder, Below
<1>3. \A k \in 1..n : order[k] \in S /\ Cardinality(Below(S, order[k])) = k - 1
  BY <1>2, PlaceTaken
<1>. HIDE DEF order
<1>4. order \in Seq(S) /\ Len(order) = n /\ DOMAIN order = 1..n
  BY <1>1, <1>2, <1>3
<1>5. ASSUME NEW j \in 1..n, NEW k \in 1..n, j < k PROVE order[j] < order[k]
  <2>1. order[j] \in S /\ order[k] \in S
    BY <1>3
  <2>2. Cardinality(Below(S, order[j])) < Cardinality(Below(S, order[k]))
    BY <1>3, <1>5
  <2>3. ~(order[k] < order[j]) /\ order[k] # order[j]
    <3>1. order[k] < order[j] => Cardinality(Below(S, order[k])) < Cardinality(Below(S, order[j]))
      BY <2>1, BelowIs
    <3>. QED
      BY <1>3, <2>2, <3>1
  <2>4. order[j] \in Nat /\ order[k] \in Nat
    BY <2>1
  <2>. QED
    BY <2>3, <2>4
<1>6. ASSUME NEW x \in S PROVE \E k \in 1..n : order[k] = x
  <2>1. PICK c : c = Cardinality(Below(S, x))
    OBVIOUS
  <2>2. c \in 0..(n - 1)
    BY <2>1, BelowIs
  <2>3. PICK k \in 1..n : c = k - 1
    <3>1. c + 1 \in 1..n /\ c = (c + 1) - 1
      BY <1>1, <2>2
    <3>. QED
      BY <3>1
  <2>4. order[k] \in S /\ Cardinality(Below(S, order[k])) = Cardinality(Below(S, x))
    BY <1>3, <2>1, <2>3
  <2>5. ~(order[k] < x) /\ ~(x < order[k])
    <3>1. order[k] < x => Cardinality(Below(S, order[k])) < Cardinality(Below(S, x))
      BY <2>4, BelowIs
    <3>2. x < order[k] => Cardinality(Below(S, x)) < Cardinality(Below(S, order[k]))
      BY <2>4, BelowIs
    <3>. QED
      BY <2>1, <2>2, <2>4, <3>1, <3>2
  <2>6. order[k] \in Nat /\ x \in Nat
    BY <2>4
  <2>. QED
    BY <2>5, <2>6
<1>7. InOrderOf(order, S)
  BY <1>4, <1>5, <1>6, Zenon DEF InOrderOf
<1>. QED
  BY <1>3, <1>7 DEF order

\* Between two neighbours there is no member.
LEMMA NeighboursInOrder ==
    ASSUME NEW S \in SUBSET Nat, NEW order, InOrderOf(order, S),
           NEW k \in 2..Len(order), NEW y \in S, order[k - 1] < y, y < order[k]
    PROVE  FALSE
<1>1. PICK j \in DOMAIN order : order[j] = y
  BY DEF InOrderOf
<1>2. /\ DOMAIN order = 1..Len(order) /\ Len(order) \in Nat
      /\ \A i \in DOMAIN order : order[i] \in Nat
      /\ \A i, l \in DOMAIN order : i < l => order[i] < order[l]
  <2>1. order \in Seq(S) /\ \A i, l \in DOMAIN order : i < l => order[i] < order[l]
    BY DEF InOrderOf
  <2>2. /\ DOMAIN order = 1..Len(order) /\ Len(order) \in Nat
        /\ \A i \in DOMAIN order : order[i] \in S
    BY <2>1
  <2>. QED
    BY <2>1, <2>2
<1>3. k - 1 \in DOMAIN order /\ k \in DOMAIN order /\ j \in Nat /\ k \in Nat
  BY <1>2
<1>4. ~(j < k - 1) /\ j # k - 1 /\ j # k /\ ~(k < j)
  <2>1. j < k - 1 => order[j] < order[k - 1]
    BY <1>2, <1>3
  <2>2. k < j => order[k] < order[j]
    BY <1>2, <1>3
  <2>3. y \in Nat /\ order[k - 1] \in Nat /\ order[k] \in Nat
    BY <1>2, <1>3
  <2>. QED
    BY <1>1, <2>1, <2>2, <2>3
<1>. QED
  BY <1>3, <1>4

\* A member above all others comes last.
LEMMA InOrderAppend ==
    ASSUME NEW S \in SUBSET Nat, IsFiniteSet(S), NEW x \in Nat, \A y \in S : y < x
    PROVE  InOrder(S \cup {x}) = Append(InOrder(S), x)
<1>. DEFINE n == Cardinality(S)
            T == S \cup {x}
            o == InOrder(S)
            p == InOrder(T)
<1>1. n \in Nat /\ x \notin S /\ T \in SUBSET Nat
  <2>1. ~(x < x)
    OBVIOUS
  <2>. QED
    BY <2>1, FS_CardinalityType
<1>2. IsFiniteSet(T) /\ Cardinality(T) = n + 1
  BY <1>1, FS_AddElement
<1>3. /\ \A y \in S : Below(T, y) = Below(S, y)
      /\ Below(T, x) = S
  <2>1. ~(x < x) /\ \A y \in S : ~(x < y)
    OBVIOUS
  <2>. QED
    BY <2>1 DEF Below
<1>4. /\ o \in Seq(S) /\ Len(o) = n
      /\ \A k \in 1..n : o[k] \in S /\ Cardinality(Below(S, o[k])) = k - 1
  BY InOrderIs DEF InOrderOf
<1>5. /\ p \in Seq(T) /\ Len(p) = n + 1
      /\ \A k \in 1..(n + 1) : p[k] \in T /\ Cardinality(Below(T, p[k])) = k - 1
  BY <1>1, <1>2, InOrderIs DEF InOrderOf
<1>. HIDE DEF o, p, T
<1>6. \A y, z \in T : Cardinality(Below(T, y)) = Cardinality(Below(T, z)) => y = z
  <2>1. ASSUME NEW y \in T, NEW z \in T,
               Cardinality(Below(T, y)) = Cardinality(Below(T, z))
        PROVE  y = z
    <3>1. /\ y < z => Cardinality(Below(T, y)) < Cardinality(Below(T, z))
          /\ z < y => Cardinality(Below(T, z)) < Cardinality(Below(T, y))
          /\ Cardinality(Below(T, y)) \in Int
      BY <1>1, <1>2, BelowIs
    <3>2. y \in Nat /\ z \in Nat
      BY <1>1
    <3>. QED
      BY <2>1, <3>1, <3>2
  <2>. QED
    BY <2>1
<1>7. ASSUME NEW k \in 1..n PROVE p[k] = o[k]
  <2>1. k \in 1..(n + 1)
    BY <1>1
  <2>2. o[k] \in T /\ Cardinality(Below(T, o[k])) = k - 1
    BY <1>3, <1>4 DEF T
  <2>. QED
    BY <1>5, <1>6, <2>1, <2>2
<1>8. p[n + 1] = x
  <2>1. n + 1 \in 1..(n + 1) /\ n = (n + 1) - 1
    BY <1>1
  <2>2. x \in T /\ Cardinality(Below(T, x)) = n
    BY <1>3 DEF T
  <2>. QED
    BY <1>5, <1>6, <2>1, <2>2
<1>9. Append(o, x) = p
  <2>1. o \in Seq(T) /\ x \in T
    BY <1>4 DEF T
  <2>2. /\ Append(o, x) \in Seq(T) /\ Len(Append(o, x)) = n + 1
        /\ \A k \in 1..n : Append(o, x)[k] = o[k]
        /\ Append(o, x)[n + 1] = x
    BY <1>4, <2>1, AppendProperties
  <2>3. \A k \in 1..(n + 1) : Append(o, x)[k] = p[k]
    <3>1. \A k \in 1..(n + 1) : k \in 1..n \/ k = n + 1
      BY <1>1
    <3>. QED
      BY <1>7, <1>8, <2>2, <3>1
  <2>. QED
    BY <1>5, <2>2, <2>3, SeqEqual
<1>. QED
  BY <1>9 DEF o, p, T

----------------------------------------------------------------------------
(* Items at positions                                                      *)

LEMMA PositionsAreFinite ==
    ASSUME NEW T, NEW seq \in Seq(T), NEW P \in SUBSET (DOMAIN seq)
    PROVE  P \in SUBSET Nat /\ IsFiniteSet(P) /\ \A i \in P : i \in 1..Len(seq)
<1>1. Len(seq) \in Nat /\ DOMAIN seq = 1..Len(seq)
  OBVIOUS
<1>2. IsFiniteSet(1..Len(seq))
  BY <1>1, FS_Interval
<1>. QED
  BY <1>1, <1>2, ProperSubset

LEMMA AppendIs ==
    ASSUME NEW T, NEW seq \in Seq(T), NEW a \in T
    PROVE  /\ Append(seq, a) \in Seq(T) /\ Len(Append(seq, a)) = Len(seq) + 1
           /\ \A i \in 1..Len(seq) : Append(seq, a)[i] = seq[i]
           /\ Append(seq, a)[Len(seq) + 1] = a
           /\ Len(seq) \in Nat
  OBVIOUS

LEMMA ItemsAtIs ==
    ASSUME NEW T, NEW seq \in Seq(T), NEW P \in SUBSET (DOMAIN seq)
    PROVE  \E order \in Seq(P) :
              /\ order = InOrder(P) /\ InOrderOf(order, P)
              /\ ItemsAt(seq, P) \in Seq(T)
              /\ Len(ItemsAt(seq, P)) = Len(order)
              /\ \A k \in 1..Len(order) :
                    ItemsAt(seq, P)[k] = seq[order[k]] /\ order[k] \in P
<1>1. InOrderOf(InOrder(P), P)
  BY PositionsAreFinite, InOrderIs
<1>2. PICK order \in Seq(P) : order = InOrder(P)
  BY <1>1 DEF InOrderOf
<1>3. ItemsAt(seq, P) = [k \in DOMAIN order |-> seq[order[k]]]
  BY <1>2 DEF ItemsAt
<1>4. DOMAIN order = 1..Len(order) /\ Len(order) \in Nat /\ \A k \in DOMAIN order : order[k] \in P
  BY <1>2
<1>5. \A i \in P : seq[i] \in T
  OBVIOUS
<1>6. \A k \in DOMAIN order : seq[order[k]] \in T
  BY <1>4, <1>5
<1>7. ItemsAt(seq, P) \in Seq(T) /\ Len(ItemsAt(seq, P)) = Len(order)
  BY <1>3, <1>4, <1>6
<1>. QED
  BY <1>1, <1>2, <1>3, <1>4, <1>7

\* A position above all others adds its item at the end.
LEMMA ItemsAtNext ==
    ASSUME NEW T, NEW seq \in Seq(T), NEW x \in DOMAIN seq,
           NEW P \in SUBSET (DOMAIN seq), \A y \in P : y < x
    PROVE  ItemsAt(seq, P \cup {x}) = Append(ItemsAt(seq, P), seq[x])
<1>1. P \in SUBSET Nat /\ IsFiniteSet(P) /\ x \in Nat /\ seq[x] \in T
  <2>1. x \in Nat /\ seq[x] \in T
    OBVIOUS
  <2>. QED
    BY <2>1, PositionsAreFinite
<1>2. PICK items : items = ItemsAt(seq, P)
  OBVIOUS
<1>3. PICK order \in Seq(P) :
         /\ order = InOrder(P) /\ items \in Seq(T) /\ Len(items) = Len(order)
         /\ \A k \in 1..Len(order) : items[k] = seq[order[k]] /\ order[k] \in P
  BY <1>2, ItemsAtIs
<1>4. PICK Q : Q = P \cup {x}
  OBVIOUS
<1>5. Q \in SUBSET (DOMAIN seq)
  BY <1>4
<1>6. PICK longer : longer = ItemsAt(seq, Q)
  OBVIOUS
<1>7. PICK o \in Seq(Q) :
         /\ o = InOrder(Q) /\ longer \in Seq(T) /\ Len(longer) = Len(o)
         /\ \A k \in 1..Len(o) : longer[k] = seq[o[k]]
  BY <1>5, <1>6, ItemsAtIs
<1>8. /\ Len(o) = Len(order) + 1 /\ o[Len(order) + 1] = x /\ Len(order) \in Nat
      /\ \A k \in 1..Len(order) : o[k] = order[k]
  <2>1. order \in Seq(Q) /\ x \in Q
    BY <1>4
  <2>2. o = Append(order, x)
    BY <1>1, <1>3, <1>4, <1>7, InOrderAppend
  <2>. QED
    BY <2>1, <2>2, AppendIs
<1>9. PICK more : more = Append(items, seq[x])
  OBVIOUS
<1>10. /\ more \in Seq(T) /\ Len(more) = Len(items) + 1
       /\ \A k \in 1..Len(items) : more[k] = items[k]
       /\ more[Len(items) + 1] = seq[x]
  BY <1>1, <1>3, <1>9, AppendIs
<1>11. ASSUME NEW k \in 1..(Len(order) + 1) PROVE longer[k] = more[k]
  <2>1. CASE k = Len(order) + 1
    BY <1>3, <1>7, <1>8, <1>10, <2>1
  <2>2. CASE k \in 1..Len(order)
    <3>1. longer[k] = seq[order[k]]
      BY <1>7, <1>8, <2>2
    <3>. QED
      BY <1>3, <1>10, <2>2, <3>1
  <2>. QED
    BY <1>8, <2>1, <2>2
<1>12. longer = more
  <2>1. Len(longer) = Len(order) + 1 /\ Len(more) = Len(longer)
    BY <1>3, <1>7, <1>8, <1>10
  <2>2. \A k \in 1..Len(longer) : longer[k] = more[k]
    BY <1>11, <2>1
  <2>. QED
    BY <1>7, <1>10, <2>1, <2>2, SeqEqual
<1>. QED
  BY <1>2, <1>4, <1>6, <1>9, <1>12

----------------------------------------------------------------------------
(* Words                                                                   *)

\* Where the word ends that begins at a position.
EndsAt(text, chars, i, e) ==
    /\ e \in i..Len(text)
    /\ e = Len(text) \/ text[e + 1] \notin chars
    /\ \A j \in i..(e - 1) : text[j + 1] \in chars

LEMMA WordEnds ==
    ASSUME NEW C, NEW text \in Seq(C), NEW chars, NEW i \in 1..Len(text)
    PROVE  \E e \in Nat : /\ EndsAt(text, chars, i, e)
                          /\ WordFrom(text, chars, i) = SubSeq(text, i, e)
<1>1. Len(text) \in Nat /\ i \in Nat
  OBVIOUS
<1>2. PICK J : J = {j \in i..Len(text) : j = Len(text) \/ text[j + 1] \notin chars}
  OBVIOUS
<1>3. J \in SUBSET Nat /\ Len(text) \in J
  BY <1>1, <1>2
<1>4. PICK e : e = Min(J)
  OBVIOUS
<1>5. e \in J /\ \A y \in J : e <= y
  BY <1>3, <1>4, LeastOf
<1>6. WordFrom(text, chars, i) = SubSeq(text, i, e)
  BY <1>2, <1>4, Zenon DEF WordFrom
<1>7. e \in i..Len(text) /\ (e = Len(text) \/ text[e + 1] \notin chars)
  BY <1>2, <1>5
<1>8. ASSUME NEW j \in i..(e - 1) PROVE text[j + 1] \in chars
  <2>1. ~(e <= j) /\ j \in i..Len(text)
    BY <1>1, <1>7
  <2>2. j \notin J
    BY <1>5, <2>1
  <2>. QED
    BY <1>2, <2>1, <2>2
<1>. QED
  BY <1>1, <1>6, <1>7, <1>8 DEF EndsAt

LEMMA OneEnd ==
    ASSUME NEW C, NEW text \in Seq(C), NEW chars, NEW i \in 1..Len(text),
           NEW e \in Nat, EndsAt(text, chars, i, e),
           NEW f \in Nat, EndsAt(text, chars, i, f)
    PROVE  e = f
<1>1. /\ e < f => e \in i..(f - 1) /\ e # Len(text)
      /\ f < e => f \in i..(e - 1) /\ f # Len(text)
  BY DEF EndsAt
<1>2. ~(e < f)
  BY <1>1 DEF EndsAt
<1>3. ~(f < e)
  BY <1>1 DEF EndsAt
<1>. QED
  BY <1>2, <1>3

LEMMA WordFromIs ==
    ASSUME NEW C, NEW text \in Seq(C), NEW chars, NEW i \in 1..Len(text),
           NEW e \in Nat, EndsAt(text, chars, i, e)
    PROVE  WordFrom(text, chars, i) = SubSeq(text, i, e)
<1>1. PICK f \in Nat : /\ EndsAt(text, chars, i, f)
                       /\ WordFrom(text, chars, i) = SubSeq(text, i, f)
  BY WordEnds
<1>2. e = f
  BY <1>1, OneEnd
<1>. QED
  BY <1>1, <1>2

LEMMA WordsAre ==
    ASSUME NEW C, NEW text \in Seq(C), NEW chars,
           NEW o, o = InOrder(WordStarts(text, chars)),
           NEW words, words = WordsOf(text, chars)
    PROVE  /\ InOrderOf(o, WordStarts(text, chars))
           /\ words \in Seq(Seq(C)) /\ Len(words) = Len(o)
           /\ \A k \in 1..Len(o) : /\ o[k] \in WordStarts(text, chars) /\ o[k] \in 1..Len(text)
                                   /\ words[k] = WordFrom(text, chars, o[k])
<1>1. PICK S : S = WordStarts(text, chars)
  OBVIOUS
<1>2. S \in SUBSET (DOMAIN text)
  BY <1>1 DEF WordStarts
<1>3. S \in SUBSET Nat /\ IsFiniteSet(S) /\ \A i \in S : i \in 1..Len(text)
  BY <1>2, PositionsAreFinite
<1>5. InOrderOf(o, S)
  BY <1>1, <1>3, InOrderIs
<1>6. /\ o \in Seq(S) /\ Len(o) \in Nat /\ DOMAIN o = 1..Len(o)
      /\ \A k \in 1..Len(o) : o[k] \in S /\ o[k] \in 1..Len(text)
  <2>1. o \in Seq(S)
    BY <1>5 DEF InOrderOf
  <2>2. Len(o) \in Nat /\ DOMAIN o = 1..Len(o) /\ \A k \in 1..Len(o) : o[k] \in S
    BY <2>1
  <2>. QED
    BY <1>3, <2>1, <2>2
<1>7. words = [k \in 1..Len(o) |-> WordFrom(text, chars, o[k])]
  BY <1>1, <1>6, Zenon DEF WordsOf
<1>8. ASSUME NEW i \in 1..Len(text) PROVE WordFrom(text, chars, i) \in Seq(C)
  <2>1. PICK e \in Nat : /\ EndsAt(text, chars, i, e)
                         /\ WordFrom(text, chars, i) = SubSeq(text, i, e)
    BY WordEnds
  <2>2. i \in Int /\ e \in Int /\ \A j \in i..e : text[j] \in C
    BY <2>1 DEF EndsAt
  <2>. QED
    BY <2>1, <2>2, SubSeqProperties
<1>9. /\ words \in Seq(Seq(C)) /\ Len(words) = Len(o)
      /\ \A k \in 1..Len(o) : words[k] = WordFrom(text, chars, o[k])
  BY <1>6, <1>7, <1>8
<1>. QED
  BY <1>1, <1>5, <1>6, <1>9

LEMMA WordsOfType ==
    ASSUME NEW C, NEW text \in Seq(C), NEW chars
    PROVE  WordsOf(text, chars) \in Seq(Seq(C))
<1>1. PICK o : o = InOrder(WordStarts(text, chars))
  OBVIOUS
<1>. QED
  BY <1>1, WordsAre

\* Two texts with the same starts and the same words there have the same words.
LEMMA WordsByStart ==
    ASSUME NEW C, NEW s \in Seq(C), NEW t \in Seq(C), NEW A, NEW B,
           WordStarts(s, A) = WordStarts(t, B),
           \A i \in WordStarts(s, A) : WordFrom(s, A, i) = WordFrom(t, B, i)
    PROVE  WordsOf(s, A) = WordsOf(t, B)
<1>1. PICK o : o = InOrder(WordStarts(s, A))
  OBVIOUS
<1>2. o = InOrder(WordStarts(t, B))
  BY <1>1
<1>3. /\ WordsOf(s, A) \in Seq(Seq(C)) /\ Len(WordsOf(s, A)) = Len(o)
      /\ \A k \in 1..Len(o) : o[k] \in WordStarts(s, A) /\ WordsOf(s, A)[k] = WordFrom(s, A, o[k])
  BY <1>1, WordsAre
<1>4. /\ WordsOf(t, B) \in Seq(Seq(C)) /\ Len(WordsOf(t, B)) = Len(o)
      /\ \A k \in 1..Len(o) : WordsOf(t, B)[k] = WordFrom(t, B, o[k])
  BY <1>2, WordsAre
<1>5. \A k \in 1..Len(o) : WordsOf(s, A)[k] = WordsOf(t, B)[k]
  BY <1>3, <1>4
<1>. QED
  BY <1>3, <1>4, <1>5, SeqEqual

\* Two sets of characters that a text does not tell apart give the same words.
LEMMA WordsSame ==
    ASSUME NEW C, NEW text \in Seq(C), NEW A, NEW B,
           \A i \in 1..Len(text) : text[i] \in A <=> text[i] \in B
    PROVE  WordsOf(text, A) = WordsOf(text, B)
<1>0. Len(text) \in Nat /\ DOMAIN text = 1..Len(text)
  OBVIOUS
<1>1. WordStarts(text, A) = WordStarts(text, B)
  <2>1. \A i \in 1..Len(text) : i > 1 => i - 1 \in 1..Len(text)
    BY <1>0
  <2>. QED
    BY <1>0, <2>1 DEF WordStarts
<1>2. ASSUME NEW i \in WordStarts(text, A) PROVE WordFrom(text, A, i) = WordFrom(text, B, i)
  <2>1. i \in 1..Len(text)
    BY <1>0, <1>2 DEF WordStarts
  <2>2. PICK e \in Nat : /\ EndsAt(text, A, i, e)
                         /\ WordFrom(text, A, i) = SubSeq(text, i, e)
    BY <2>1, WordEnds
  <2>3. EndsAt(text, B, i, e)
    <3>1. /\ \A j \in i..(e - 1) : j + 1 \in 1..Len(text)
          /\ e # Len(text) => e + 1 \in 1..Len(text)
      <4>1. e \in i..Len(text)
        BY <2>2 DEF EndsAt
      <4>2. Len(text) \in Int /\ i \in Int /\ 1 <= i /\ e \in Int /\ i <= e /\ e <= Len(text)
        BY <1>0, <2>1, <4>1
      <4>. QED
        BY <4>2
    <3>. QED
      BY <2>2, <3>1 DEF EndsAt
  <2>. QED
    BY <2>1, <2>2, <2>3, WordFromIs
<1>. QED
  BY <1>1, <1>2, WordsByStart

\* A part on which two texts agree.
LEMMA SamePart ==
    ASSUME NEW C, NEW s \in Seq(C), NEW t, NEW i \in 1..Len(s), NEW e \in i..Len(s),
           \A j \in 1..Len(s) : t[j] = s[j]
    PROVE  SubSeq(t, i, e) = SubSeq(s, i, e)
<1>1. /\ i \in Int /\ e \in Int /\ i <= e
      /\ \A j \in i..e : j \in 1..Len(s)
      /\ \A j \in 1..(e - i + 1) : i + j - 1 \in 1..Len(s)
  OBVIOUS
<1>2. \A j \in i..e : s[j] \in C /\ t[j] \in C
  BY <1>1
<1>3. PICK u : u = SubSeq(s, i, e)
  OBVIOUS
<1>4. PICK v : v = SubSeq(t, i, e)
  OBVIOUS
<1>5. /\ u \in Seq(C) /\ Len(u) = e - i + 1
      /\ \A j \in 1..(e - i + 1) : u[j] = s[i + j - 1]
  BY <1>1, <1>2, <1>3, SubSeqProperties
<1>6. /\ v \in Seq(C) /\ Len(v) = e - i + 1
      /\ \A j \in 1..(e - i + 1) : v[j] = t[i + j - 1]
  BY <1>1, <1>2, <1>4, SubSeqProperties
<1>7. \A j \in 1..Len(u) : u[j] = v[j]
  BY <1>1, <1>5, <1>6
<1>. QED
  BY <1>3, <1>4, <1>5, <1>6, <1>7, SeqEqual

\* One more start, above all others: one more word.
OneMoreStart(s, t, chars, w) ==
    /\ WordStarts(t, chars) = WordStarts(s, chars) \cup {Len(s) + 1}
    /\ \A i \in WordStarts(s, chars) : WordFrom(t, chars, i) = WordFrom(s, chars, i)
    /\ WordFrom(t, chars, Len(s) + 1) = w

LEMMA OneMoreWord ==
    ASSUME NEW C, NEW s \in Seq(C), NEW t \in Seq(C), NEW chars, NEW w,
           OneMoreStart(s, t, chars, w)
    PROVE  WordsOf(t, chars) = Append(WordsOf(s, chars), w)
<1>1. PICK S : S = WordStarts(s, chars)
  OBVIOUS
<1>2. PICK n : n = Len(s)
  OBVIOUS
<1>3. n \in Nat /\ DOMAIN s = 1..n /\ S \in SUBSET (DOMAIN s)
  BY <1>1, <1>2 DEF WordStarts
<1>4. S \in SUBSET Nat /\ IsFiniteSet(S) /\ \A i \in S : i \in 1..n
  BY <1>2, <1>3, PositionsAreFinite
<1>5. PICK o : o = InOrder(S)
  OBVIOUS
<1>6. PICK p : p = InOrder(S \cup {n + 1})
  OBVIOUS
<1>7. p = Append(o, n + 1) /\ n + 1 \in Nat
  <2>1. n + 1 \in Nat /\ \A y \in S : y < n + 1
    BY <1>3, <1>4
  <2>. QED
    BY <1>4, <1>5, <1>6, <2>1, InOrderAppend
<1>8. o \in Seq(S) /\ o \in Seq(S \cup {n + 1})
  <2>1. o \in Seq(S)
    BY <1>4, <1>5, InOrderIs DEF InOrderOf
  <2>. QED
    BY <2>1
<1>9. /\ Len(o) \in Nat /\ Len(p) = Len(o) + 1
      /\ \A k \in 1..Len(o) : p[k] = o[k] /\ o[k] \in S
      /\ p[Len(o) + 1] = n + 1
  <2>1. n + 1 \in S \cup {n + 1}
    OBVIOUS
  <2>2. /\ Len(o) \in Nat /\ Len(p) = Len(o) + 1
        /\ \A k \in 1..Len(o) : p[k] = o[k]
        /\ p[Len(o) + 1] = n + 1
    BY <1>7, <1>8, <2>1, AppendIs
  <2>3. \A k \in 1..Len(o) : o[k] \in S
    BY <1>8
  <2>. QED
    BY <2>2, <2>3
<1>10. PICK ws : ws = WordsOf(s, chars)
  OBVIOUS
<1>11. PICK wt : wt = WordsOf(t, chars)
  OBVIOUS
<1>12. /\ ws \in Seq(Seq(C)) /\ Len(ws) = Len(o)
       /\ \A k \in 1..Len(o) : ws[k] = WordFrom(s, chars, o[k])
  BY <1>1, <1>5, <1>10, WordsAre
<1>13. /\ wt \in Seq(Seq(C)) /\ Len(wt) = Len(p)
       /\ \A k \in 1..Len(p) : wt[k] = WordFrom(t, chars, p[k])
  <2>1. p = InOrder(WordStarts(t, chars))
    BY <1>1, <1>2, <1>6 DEF OneMoreStart
  <2>. QED
    BY <1>11, <2>1, WordsAre
<1>14. wt[Len(o) + 1] = w /\ w \in Seq(C)
  <2>1. Len(o) + 1 \in 1..Len(p)
    BY <1>9
  <2>2. wt[Len(o) + 1] = w
    BY <1>2, <1>9, <1>13, <2>1 DEF OneMoreStart
  <2>. QED
    BY <1>13, <2>1, <2>2
<1>15. PICK aw : aw = Append(ws, w)
  OBVIOUS
<1>16. /\ aw \in Seq(Seq(C)) /\ Len(aw) = Len(o) + 1 /\ aw[Len(o) + 1] = w
       /\ \A k \in 1..Len(o) : aw[k] = ws[k]
  BY <1>12, <1>14, <1>15, AppendIs
<1>17. ASSUME NEW k \in 1..(Len(o) + 1) PROVE wt[k] = aw[k]
  <2>1. CASE k = Len(o) + 1
    BY <1>14, <1>16, <2>1
  <2>2. CASE k \in 1..Len(o)
    <3>1. k \in 1..Len(p)
      BY <1>9
    <3>2. wt[k] = WordFrom(t, chars, o[k]) /\ o[k] \in S
      BY <1>9, <1>13, <2>2, <3>1
    <3>. QED
      BY <1>1, <1>12, <1>16, <2>2, <3>2 DEF OneMoreStart
  <2>. QED
    BY <1>9, <2>1, <2>2
<1>18. wt = aw
  BY <1>9, <1>13, <1>16, <1>17, SeqEqual
<1>. QED
  BY <1>10, <1>11, <1>15, <1>18

\* A character behind the text that is in no word adds none.
LEMMA WordsOfAppendOther ==
    ASSUME NEW C, NEW s \in Seq(C), NEW chars, NEW b \in C, b \notin chars
    PROVE  WordsOf(Append(s, b), chars) = WordsOf(s, chars)
<1>1. PICK n : n = Len(s)
  OBVIOUS
<1>2. PICK t : t = Append(s, b)
  OBVIOUS
<1>3. /\ n \in Nat /\ DOMAIN s = 1..n
      /\ t \in Seq(C) /\ Len(t) = n + 1 /\ DOMAIN t = 1..(n + 1) /\ t[n + 1] = b
      /\ \A i \in 1..n : t[i] = s[i]
  BY <1>1, <1>2, AppendIs
<1>4. WordStarts(s, chars) = WordStarts(t, chars)
  <2>1. \A i \in 1..n : i > 1 => i - 1 \in 1..n
    BY <1>3
  <2>2. \A i : i \in 1..(n + 1) <=> i \in 1..n \/ i = n + 1
    BY <1>3
  <2>. QED
    BY <1>3, <2>1, <2>2 DEF WordStarts
<1>5. ASSUME NEW i \in WordStarts(s, chars) PROVE WordFrom(s, chars, i) = WordFrom(t, chars, i)
  <2>1. i \in 1..n /\ i \in 1..(n + 1)
    BY <1>3, <1>5 DEF WordStarts
  <2>2. PICK e \in Nat : /\ EndsAt(s, chars, i, e)
                         /\ WordFrom(s, chars, i) = SubSeq(s, i, e)
    BY <1>1, <1>3, <2>1, WordEnds
  <2>3. e \in i..n /\ e \in i..(n + 1)
    <3>1. e \in i..n
      BY <1>1, <2>2 DEF EndsAt
    <3>. QED
      BY <1>3, <2>1, <3>1
  <2>4. EndsAt(t, chars, i, e)
    <3>1. \A j \in i..(e - 1) : j + 1 \in 1..n
      BY <1>3, <2>1, <2>3
    <3>2. \A j \in i..(e - 1) : t[j + 1] \in chars
      BY <1>3, <2>2, <3>1 DEF EndsAt
    <3>3. t[e + 1] \notin chars
      <4>1. CASE e = n
        BY <1>3, <4>1
      <4>2. CASE e # n
        <5>1. e + 1 \in 1..n
          BY <1>3, <2>1, <2>3, <4>2
        <5>. QED
          BY <1>1, <1>3, <2>2, <4>2, <5>1 DEF EndsAt
      <4>. QED
        BY <4>1, <4>2
    <3>. QED
      BY <1>3, <2>3, <3>2, <3>3 DEF EndsAt
  <2>5. WordFrom(t, chars, i) = SubSeq(t, i, e)
    BY <1>3, <2>1, <2>2, <2>4, WordFromIs
  <2>6. SubSeq(t, i, e) = SubSeq(s, i, e)
    BY <1>1, <1>3, <2>1, <2>3, SamePart
  <2>. QED
    BY <2>2, <2>5, <2>6
<1>6. WordsOf(s, chars) = WordsOf(t, chars)
  BY <1>3, <1>4, <1>5, WordsByStart
<1>. QED
  BY <1>2, <1>6

\* A word behind a text that is empty or does not end in a word is one more word.
LEMMA WordsOfAppendWord ==
    ASSUME NEW C, NEW s \in Seq(C), NEW chars \in SUBSET C, NEW w \in Seq(chars), Len(w) > 0,
           Len(s) > 0 => s[Len(s)] \notin chars
    PROVE  WordsOf(s \o w, chars) = Append(WordsOf(s, chars), w)
<1>1. PICK n : n = Len(s)
  OBVIOUS
<1>2. PICK t : t = s \o w
  OBVIOUS
<1>3. PICK m : m = Len(w)
  OBVIOUS
<1>4. /\ n \in Nat /\ m \in Nat /\ m > 0
      /\ w \in Seq(C) /\ \A i \in 1..m : w[i] \in chars
  BY <1>1, <1>3
<1>5. /\ t \in Seq(C) /\ Len(t) = n + m /\ DOMAIN t = 1..(n + m) /\ DOMAIN s = 1..n
      /\ \A i \in 1..n : t[i] = s[i]
      /\ \A i \in (n + 1)..(n + m) : t[i] = w[i - n] /\ t[i] \in chars
  <2>1. /\ t \in Seq(C) /\ Len(t) = n + m
        /\ \A i \in 1..(n + m) : t[i] = IF i <= n THEN s[i] ELSE w[i - n]
    BY <1>1, <1>2, <1>3, <1>4, ConcatProperties
  <2>2. DOMAIN t = 1..(n + m) /\ DOMAIN s = 1..n
    BY <1>1, <2>1
  <2>3. \A i \in 1..n : i \in 1..(n + m) /\ i <= n
    BY <1>4
  <2>4. \A i \in (n + 1)..(n + m) : i \in 1..(n + m) /\ ~(i <= n) /\ i - n \in 1..m
    BY <1>4
  <2>5. \A i \in (n + 1)..(n + m) : t[i] = w[i - n] /\ w[i - n] \in chars
    BY <1>4, <2>1, <2>4
  <2>. QED
    BY <2>1, <2>2, <2>3, <2>5
<1>6. PICK S : S = WordStarts(s, chars)
  OBVIOUS
<1>7. WordStarts(t, chars) = S \cup {n + 1}
  <2>1. \A i : i \in 1..(n + m) <=> i \in 1..n \/ i = n + 1 \/ i \in (n + 2)..(n + m)
    BY <1>4
  <2>2. \A i \in 1..n : i > 1 => i - 1 \in 1..n
    BY <1>4
  <2>3. \A i \in 1..n : i \in WordStarts(t, chars) <=> i \in S
    BY <1>5, <1>6, <2>1, <2>2 DEF WordStarts
  <2>4. n + 1 \in WordStarts(t, chars)
    <3>1. n + 1 \in (n + 1)..(n + m) /\ n + 1 \in 1..(n + m)
      BY <1>4
    <3>2. n + 1 > 1 => n \in 1..n /\ n > 0 /\ (n + 1) - 1 = n
      BY <1>4
    <3>3. n > 0 => t[n] \notin chars
      BY <1>1, <1>5, <3>2
    <3>. QED
      BY <1>4, <1>5, <3>1, <3>2, <3>3 DEF WordStarts
  <2>5. \A i \in (n + 2)..(n + m) : i \notin WordStarts(t, chars)
    <3>1. \A i \in (n + 2)..(n + m) : i > 1 /\ i - 1 \in (n + 1)..(n + m)
      BY <1>4
    <3>. QED
      BY <1>5, <3>1 DEF WordStarts
  <2>6. S \subseteq 1..n /\ WordStarts(t, chars) \subseteq 1..(n + m)
    BY <1>5, <1>6 DEF WordStarts
  <2>. QED
    BY <2>1, <2>3, <2>4, <2>5, <2>6
<1>8. ASSUME NEW i \in S PROVE WordFrom(t, chars, i) = WordFrom(s, chars, i)
  <2>1. i \in 1..n /\ i \in 1..(n + m) /\ s[i] \in chars
    <3>1. i \in 1..n /\ s[i] \in chars
      BY <1>5, <1>6, <1>8 DEF WordStarts
    <3>. QED
      BY <1>4, <3>1
  <2>2. PICK e \in Nat : /\ EndsAt(s, chars, i, e)
                         /\ WordFrom(s, chars, i) = SubSeq(s, i, e)
    BY <1>1, <2>1, WordEnds
  <2>3. e \in i..n
    BY <1>1, <2>2 DEF EndsAt
  <2>4. s[e] \in chars
    <3>1. CASE e = i
      BY <2>1, <3>1
    <3>2. CASE e # i
      <4>1. e - 1 \in i..(e - 1) /\ (e - 1) + 1 = e
        BY <1>4, <2>1, <2>3, <3>2
      <4>. QED
        BY <2>2, <4>1 DEF EndsAt
    <3>. QED
      BY <3>1, <3>2
  <2>5. e # n
    BY <1>1, <1>4, <2>1, <2>3, <2>4
  <2>6. e + 1 \in 1..n /\ e \in i..(n + m) /\ \A j \in i..(e - 1) : j + 1 \in 1..n
    BY <1>4, <2>1, <2>3, <2>5
  <2>7. EndsAt(t, chars, i, e)
    <3>1. t[e + 1] \notin chars
      BY <1>1, <1>5, <2>2, <2>5, <2>6 DEF EndsAt
    <3>2. \A j \in i..(e - 1) : t[j + 1] \in chars
      BY <1>5, <2>2, <2>6 DEF EndsAt
    <3>3. e \in i..Len(t)
      BY <1>5, <2>6
    <3>. QED
      BY <3>1, <3>2, <3>3, Zenon DEF EndsAt
  <2>8. WordFrom(t, chars, i) = SubSeq(t, i, e)
    <3>1. t \in Seq(C) /\ i \in 1..Len(t)
      BY <1>5, <2>1
    <3>. QED
      BY <2>7, <3>1, WordFromIs
  <2>9. SubSeq(t, i, e) = SubSeq(s, i, e)
    BY <1>1, <1>5, <2>1, <2>3, SamePart
  <2>. QED
    BY <2>2, <2>8, <2>9
<1>9. WordFrom(t, chars, n + 1) = w
  <2>1. n + 1 \in 1..(n + m) /\ n + m \in Nat /\ n + m \in (n + 1)..(n + m)
    BY <1>4
  <2>2. \A j \in (n + 1)..((n + m) - 1) : j + 1 \in (n + 1)..(n + m)
    BY <1>4
  <2>3. EndsAt(t, chars, n + 1, n + m)
    <3>1. n + m \in (n + 1)..Len(t) /\ n + m = Len(t)
      BY <1>5, <2>1
    <3>2. \A j \in (n + 1)..((n + m) - 1) : t[j + 1] \in chars
      BY <1>5, <2>2
    <3>. QED
      BY <3>1, <3>2, Zenon DEF EndsAt
  <2>4. WordFrom(t, chars, n + 1) = SubSeq(t, n + 1, n + m)
    BY <1>5, <2>1, <2>3, WordFromIs
  <2>5. PICK v : v = SubSeq(t, n + 1, n + m)
    OBVIOUS
  <2>6. /\ n + 1 \in Int /\ n + m \in Int /\ n + 1 <= n + m
        /\ (n + m) - (n + 1) + 1 = m
        /\ \A i \in (n + 1)..(n + m) : i \in 1..(n + m)
    BY <1>4
  <2>7. \A i \in (n + 1)..(n + m) : t[i] \in C
    BY <1>5
  <2>8. /\ v \in Seq(C) /\ Len(v) = m
        /\ \A i \in 1..m : v[i] = t[(n + 1) + i - 1]
    BY <2>5, <2>6, <2>7, SubSeqProperties, SMTT(20)
  <2>9. \A i \in 1..m : /\ (n + 1) + i - 1 \in (n + 1)..(n + m)
                        /\ ((n + 1) + i - 1) - n = i
    BY <1>4
  <2>10. \A i \in 1..m : v[i] = w[i]
    BY <1>5, <2>8, <2>9
  <2>11. v = w
    BY <1>3, <1>4, <2>8, <2>10, SeqEqual
  <2>. QED
    BY <2>4, <2>5, <2>11
<1>10. OneMoreStart(s, t, chars, w)
  BY <1>1, <1>6, <1>7, <1>8, <1>9 DEF OneMoreStart
<1>11. WordsOf(t, chars) = Append(WordsOf(s, chars), w)
  BY <1>5, <1>10, OneMoreWord
<1>. QED
  BY <1>2, <1>11

=============================================================================
