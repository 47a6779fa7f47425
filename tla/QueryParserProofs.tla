------------------------- MODULE QueryParserProofs -------------------------
(***************************************************************************)
(* Proofs about the reading of a query, for queries of every length over   *)
(* any letters.                                                            *)
(*                                                                         *)
(* The loop reads characters; the property is about words.  The invariant  *)
(* relates the two: the loop is always in one token of the query, at the   *)
(* blank behind it, or at the A of an AND.                                 *)
(***************************************************************************)
EXTENDS QueryParser, TextsProofs

----------------------------------------------------------------------------
(* The tokens of a query                                                   *)

\* Where a token ends.
EndIn(tokens, starts, k) == starts[k] + Len(tokens[k]) - 1

\* Token after token, with one blank between them.
TakenApart(text, tokens, starts) ==
    /\ tokens \in Seq(Seq(Char)) /\ Len(tokens) > 0
    /\ starts[1] = 1
    /\ \A k \in 1..Len(tokens) :
          /\ starts[k] \in 1..Len(text)
          /\ EndIn(tokens, starts, k) \in starts[k]..Len(text)
          /\ tokens[k] = SubSeq(text, starts[k], EndIn(tokens, starts, k))
          /\ \A j \in starts[k]..EndIn(tokens, starts, k) : text[j] \in NotBlank
          /\ k = Len(tokens) => EndIn(tokens, starts, k) = Len(text)
          /\ k < Len(tokens) => /\ EndIn(tokens, starts, k) + 1 \in 1..Len(text)
                                /\ text[EndIn(tokens, starts, k) + 1] = Blank
                                /\ starts[k + 1] = EndIn(tokens, starts, k) + 2

SingleBlanks(text) ==
    /\ text[1] # Blank /\ text[Len(text)] # Blank
    /\ \A k \in 2..Len(text) : ~(text[k - 1] = Blank /\ text[k] = Blank)

\* One token: its characters, and what stands behind it.
TokenAt(text, n, x, e) ==
    /\ x \in 1..n /\ e \in x..n
    /\ WordFrom(text, NotBlank, x) = SubSeq(text, x, e)
    /\ e = x + Len(WordFrom(text, NotBlank, x)) - 1
    /\ \A j \in x..e : text[j] \in NotBlank
    /\ e # n => text[e + 1] = Blank

LEMMA OneToken ==
    ASSUME NEW text \in Seq(Char), NEW n \in Nat, n = Len(text),
           NEW x \in WordStarts(text, NotBlank)
    PROVE  \E e \in Nat : TokenAt(text, n, x, e)
<1>1. DOMAIN text = 1..n /\ \A j \in 1..n : text[j] \in Char
  OBVIOUS
<1>2. x \in 1..n /\ text[x] \in NotBlank
  BY <1>1 DEF WordStarts
<1>3. PICK e \in Nat : /\ EndsAt(text, NotBlank, x, e)
                       /\ WordFrom(text, NotBlank, x) = SubSeq(text, x, e)
  BY <1>2, WordEnds
<1>4. e \in x..n
  BY <1>3 DEF EndsAt
<1>5. ASSUME NEW j \in x..e PROVE text[j] \in NotBlank
  <2>1. CASE j = x
    BY <1>2, <2>1
  <2>2. CASE j # x
    <3>1. j - 1 \in x..(e - 1) /\ (j - 1) + 1 = j
      BY <1>2, <1>4, <2>2
    <3>. QED
      BY <1>3, <3>1 DEF EndsAt
  <2>. QED
    BY <2>1, <2>2
<1>6. ASSUME e # n PROVE text[e + 1] = Blank
  <2>1. e + 1 \in 1..n
    BY <1>2, <1>4, <1>6
  <2>2. text[e + 1] \notin NotBlank
    BY <1>3, <1>6 DEF EndsAt
  <2>. QED
    BY <1>1, <2>1, <2>2 DEF NotBlank
<1>7. e = x + Len(SubSeq(text, x, e)) - 1
  <2>1. x \in Int /\ e \in Int /\ x <= e /\ \A j \in x..e : j \in 1..n
    BY <1>2, <1>4
  <2>2. \A j \in x..e : text[j] \in Char
    BY <1>1, <2>1
  <2>3. Len(SubSeq(text, x, e)) = e - x + 1
    BY <2>1, <2>2, SubSeqProperties
  <2>. QED
    BY <2>1, <2>3
<1>. QED
  BY <1>2, <1>3, <1>4, <1>5, <1>6, <1>7 DEF TokenAt

\* The starts of the tokens of such a text.
AreStarts(S, text, n) ==
    \A x : x \in S <=> x \in 1..n /\ text[x] # Blank /\ (x > 1 => text[x - 1] = Blank)

LEMMA StartsAre ==
    ASSUME NEW text \in Seq(Char), NEW n \in Nat, n = Len(text)
    PROVE  AreStarts(WordStarts(text, NotBlank), text, n)
<1>1. DOMAIN text = 1..n /\ \A x \in 1..n : x > 1 => x - 1 \in 1..n
  OBVIOUS
<1>2. \A j \in 1..n : text[j] \in NotBlank <=> text[j] # Blank
  <2>1. \A j \in 1..n : text[j] \in Char
    OBVIOUS
  <2>. QED
    BY <2>1 DEF NotBlank
<1>. QED
  BY <1>1, <1>2 DEF WordStarts, AreStarts

\* Where the token behind the one from x to e starts.
Followed(S, n, x, e) ==
    /\ x <= e /\ e <= n
    /\ \A y \in S : x < y => e + 2 <= y
    /\ e # n => e + 2 \in S /\ e + 1 \in 1..n

LEMMA NextStart ==
    ASSUME NEW text, NEW n \in Nat, n = Len(text), SingleBlanks(text),
           NEW S, AreStarts(S, text, n),
           NEW x, NEW e, TokenAt(text, n, x, e)
    PROVE  Followed(S, n, x, e)
<1>1. /\ x \in Nat /\ e \in Nat /\ x >= 1 /\ x <= e /\ e <= n
      /\ e # n => text[e + 1] = Blank
  BY DEF TokenAt
<1>2. \A j \in x..e : text[j] # Blank
  BY DEF TokenAt, NotBlank
<1>3. ASSUME NEW y \in S, x < y PROVE e + 2 <= y
  <2>1. y \in 1..n /\ text[y] # Blank /\ text[y - 1] = Blank
    BY <1>1, <1>3 DEF AreStarts
  <2>2. y - 1 \notin x..e
    BY <1>2, <2>1
  <2>3. y > e
    BY <1>1, <1>3, <2>1, <2>2
  <2>4. y # e + 1
    BY <1>1, <2>1, <2>2
  <2>. QED
    BY <1>1, <2>1, <2>3, <2>4
<1>4. ASSUME e # n PROVE e + 2 \in S /\ e + 1 \in 1..n
  <2>1. e + 1 \in 1..n /\ text[e + 1] = Blank
    BY <1>1, <1>4
  <2>2. e + 1 # n
    BY <2>1 DEF SingleBlanks
  <2>3. e + 2 \in 2..n /\ e + 2 \in 1..n /\ (e + 2) - 1 = e + 1
    BY <1>1, <2>1, <2>2
  <2>4. text[e + 2] # Blank
    BY <2>1, <2>3 DEF SingleBlanks
  <2>. QED
    BY <2>1, <2>3, <2>4 DEF AreStarts
<1>. QED
  BY <1>1, <1>3, <1>4 DEF Followed

\* The next token in order starts there, and the last one ends the text.
LastOrNext(starts, m, k, n, e) ==
    /\ k = m => e = n
    /\ k < m => e # n /\ starts[k + 1] = e + 2

LEMMA NextInOrder ==
    ASSUME NEW S \in SUBSET Nat, NEW starts, InOrderOf(starts, S),
           NEW m \in Nat, m = Len(starts), NEW k \in 1..m,
           NEW n \in Nat, \A y \in S : y <= n,
           NEW e \in Nat, Followed(S, n, starts[k], e)
    PROVE  LastOrNext(starts, m, k, n, e)
<1>0. /\ \A j \in 1..m : starts[j] \in S
      /\ \A j, l \in 1..m : j < l => starts[j] < starts[l]
      /\ \A x \in S : \E l \in 1..m : starts[l] = x
      /\ starts[k] <= e /\ e <= n
      /\ \A y \in S : starts[k] < y => e + 2 <= y
      /\ e # n => e + 2 \in S
  <2>1. starts \in Seq(S)
    BY DEF InOrderOf
  <2>2. DOMAIN starts = 1..m /\ \A j \in 1..m : starts[j] \in S
    BY <2>1
  <2>. QED
    BY <2>2 DEF InOrderOf, Followed
<1>1. ASSUME k < m PROVE k + 1 \in 1..m /\ e + 2 <= starts[k + 1] /\ e # n /\ starts[k + 1] \in Nat
  <2>1. k + 1 \in 1..m /\ k < k + 1
    BY <1>1
  <2>2. PICK y \in S : y = starts[k + 1]
    BY <1>0, <2>1
  <2>3. starts[k] < y
    BY <1>0, <2>1, <2>2
  <2>4. e + 2 <= y /\ y <= n /\ y \in Nat
    BY <1>0, <2>2, <2>3
  <2>. QED
    BY <1>0, <2>1, <2>2, <2>4
<1>2. ASSUME e # n PROVE k < m /\ starts[k + 1] <= e + 2
  <2>1. PICK l \in 1..m : starts[l] = e + 2
    BY <1>0, <1>2
  <2>2. starts[k] \in Nat /\ starts[k] < e + 2
    <3>1. starts[k] \in Nat
      BY <1>0
    <3>. QED
      BY <1>0, <3>1
  <2>3. ~(l < k) /\ l # k
    BY <1>0, <2>1, <2>2
  <2>4. k < l /\ k < m /\ k + 1 \in 1..m
    BY <2>3
  <2>5. CASE k + 1 = l
    BY <2>1, <2>4, <2>5
  <2>6. CASE k + 1 < l
    <3>1. starts[k + 1] < starts[l] /\ starts[k + 1] \in Nat
      BY <1>0, <2>4, <2>6
    <3>. QED
      BY <2>1, <2>4, <3>1
  <2>. QED
    BY <2>4, <2>5, <2>6
<1>. QED
  BY <1>1, <1>2 DEF LastOrNext

LEMMA TokensAre ==
    ASSUME NEW text \in Seq(Char), Len(text) > 0, SingleBlanks(text),
           NEW tokens, tokens = WordsOf(text, NotBlank),
           NEW starts, starts = InOrder(WordStarts(text, NotBlank))
    PROVE  TakenApart(text, tokens, starts)
<1>1. PICK n \in Nat : n = Len(text) /\ n > 0
  OBVIOUS
<1>2. PICK S : S = WordStarts(text, NotBlank)
  OBVIOUS
<1>3. /\ InOrderOf(starts, S)
      /\ tokens \in Seq(Seq(Char)) /\ Len(tokens) = Len(starts)
      /\ \A k \in 1..Len(starts) : /\ starts[k] \in S /\ starts[k] \in 1..n
                                   /\ tokens[k] = WordFrom(text, NotBlank, starts[k])
  BY <1>1, <1>2, WordsAre
<1>4. PICK m \in Nat : m = Len(tokens) /\ m = Len(starts)
  BY <1>3
<1>5. /\ \A j, k \in 1..m : j < k => starts[j] < starts[k]
      /\ \A x \in S : \E k \in 1..m : starts[k] = x
      /\ \A k \in 1..m : /\ starts[k] \in S /\ starts[k] \in 1..n
                         /\ tokens[k] = WordFrom(text, NotBlank, starts[k])
  <2>1. DOMAIN starts = 1..m
    BY <1>3, <1>4 DEF InOrderOf
  <2>. QED
    BY <1>3, <1>4, <2>1 DEF InOrderOf
<1>6. AreStarts(S, text, n)
  BY <1>1, <1>2, StartsAre
<1>7. S \in SUBSET Nat /\ \A y \in S : y <= n
  BY <1>6 DEF AreStarts
<1>8. m > 0 /\ starts[1] = 1
  <2>1. 1 \in S
    BY <1>1, <1>6 DEF AreStarts, SingleBlanks
  <2>2. PICK k \in 1..m : starts[k] = 1
    BY <1>5, <2>1
  <2>3. m > 0 /\ 1 \in 1..m
    OBVIOUS
  <2>4. k # 1 => starts[1] < starts[k]
    BY <1>5, <2>3
  <2>5. starts[1] \in 1..n
    BY <1>5, <2>3
  <2>. QED
    BY <2>2, <2>3, <2>4, <2>5
<1>9. ASSUME NEW k \in 1..m
      PROVE  \E e \in Nat :
                /\ e = EndIn(tokens, starts, k)
                /\ starts[k] \in 1..n /\ e \in starts[k]..n
                /\ tokens[k] = SubSeq(text, starts[k], e)
                /\ \A j \in starts[k]..e : text[j] \in NotBlank
                /\ k = m => e = n
                /\ k < m => e + 1 \in 1..n /\ text[e + 1] = Blank /\ starts[k + 1] = e + 2
  <2>1. PICK x \in S : x = starts[k] /\ x \in 1..n /\ tokens[k] = WordFrom(text, NotBlank, x)
    BY <1>5
  <2>2. PICK e \in Nat : TokenAt(text, n, x, e)
    BY <1>1, <1>2, OneToken
  <2>3. e = EndIn(tokens, starts, k)
    BY <2>1, <2>2, Zenon DEF EndIn, TokenAt
  <2>4. Followed(S, n, starts[k], e)
    BY <1>1, <1>6, <2>1, <2>2, NextStart
  <2>5. LastOrNext(starts, m, k, n, e)
    <3>1. InOrderOf(starts, S) /\ m = Len(starts)
      BY <1>3, <1>4
    <3>. QED
      BY <1>7, <2>4, <3>1, NextInOrder
  <2>. QED
    BY <2>1, <2>2, <2>3, <2>4, <2>5 DEF TokenAt, Followed, LastOrNext
<1>10. Len(tokens) > 0
  BY <1>4, <1>8
<1>11. \A k \in 1..m :
          /\ starts[k] \in 1..n
          /\ EndIn(tokens, starts, k) \in starts[k]..n
          /\ tokens[k] = SubSeq(text, starts[k], EndIn(tokens, starts, k))
          /\ \A j \in starts[k]..EndIn(tokens, starts, k) : text[j] \in NotBlank
          /\ k = m => EndIn(tokens, starts, k) = n
          /\ k < m => /\ EndIn(tokens, starts, k) + 1 \in 1..n
                     /\ text[EndIn(tokens, starts, k) + 1] = Blank
                     /\ starts[k + 1] = EndIn(tokens, starts, k) + 2
  BY <1>9, Zenon
<1>12. /\ tokens \in Seq(Seq(Char)) /\ starts[1] = 1
       /\ n = Len(text) /\ m = Len(tokens)
  BY <1>1, <1>3, <1>4, <1>8
<1>. QED
  BY <1>10, <1>11, <1>12, Zenon DEF TakenApart

----------------------------------------------------------------------------
(* The words before a token                                                *)

\* The tokens before the k-th that are words.
WordsUpTo(tokens, k) == {j \in 1..(k - 1) : tokens[j] # Operator}

WordsBefore(tokens, k) == ItemsAt(tokens, WordsUpTo(tokens, k))

LEMMA WordsBeforeNext ==
    ASSUME NEW T, NEW tokens \in Seq(T), NEW k \in 1..Len(tokens)
    PROVE  WordsBefore(tokens, k + 1) =
              IF tokens[k] = Operator THEN WordsBefore(tokens, k)
              ELSE Append(WordsBefore(tokens, k), tokens[k])
<1>1. DOMAIN tokens = 1..Len(tokens) /\ Len(tokens) \in Nat
  OBVIOUS
<1>2. \A j : j \in 1..((k + 1) - 1) <=> j \in 1..(k - 1) \/ j = k
  OBVIOUS
<1>3. CASE tokens[k] = Operator
  <2>1. WordsUpTo(tokens, k + 1) = WordsUpTo(tokens, k)
    BY <1>2, <1>3, Zenon DEF WordsUpTo
  <2>. QED
    BY <1>3, <2>1 DEF WordsBefore
<1>4. CASE tokens[k] # Operator
  <2>1. WordsUpTo(tokens, k + 1) = WordsUpTo(tokens, k) \cup {k}
    BY <1>2, <1>4 DEF WordsUpTo
  <2>2. k \in DOMAIN tokens /\ \A j \in 1..(k - 1) : j \in DOMAIN tokens /\ j < k
    BY <1>1
  <2>3. WordsUpTo(tokens, k) \in SUBSET (DOMAIN tokens) /\ \A y \in WordsUpTo(tokens, k) : y < k
    BY <2>2 DEF WordsUpTo
  <2>4. ItemsAt(tokens, WordsUpTo(tokens, k) \cup {k})
           = Append(ItemsAt(tokens, WordsUpTo(tokens, k)), tokens[k])
    BY <2>2, <2>3, ItemsAtNext
  <2>. QED
    BY <1>4, <2>1, <2>4 DEF WordsBefore
<1>. QED
  BY <1>3, <1>4

LEMMA WordsBeforeFirst ==
    ASSUME NEW T, NEW tokens \in Seq(T)
    PROVE  WordsBefore(tokens, 1) = <<>>
<1>1. WordsUpTo(tokens, 1) = {}
  <2>1. 1..(1 - 1) = {}
    OBVIOUS
  <2>. QED
    BY <2>1, Zenon DEF WordsUpTo
<1>2. PICK P \in SUBSET (DOMAIN tokens) : P = {} /\ P = WordsUpTo(tokens, 1)
  BY <1>1
<1>3. PICK order \in Seq(P) : /\ ItemsAt(tokens, P) \in Seq(T)
                              /\ Len(ItemsAt(tokens, P)) = Len(order)
  BY ItemsAtIs
<1>4. Len(order) = 0
  BY <1>2
<1>5. ItemsAt(tokens, P) = <<>>
  BY <1>3, <1>4
<1>. QED
  BY <1>2, <1>5 DEF WordsBefore

LEMMA WordsBeforeEnd ==
    ASSUME NEW T, NEW text, WordsOf(text, NotBlank) \in Seq(T)
    PROVE  Keywords(text) = WordsBefore(WordsOf(text, NotBlank), Len(WordsOf(text, NotBlank)) + 1)
<1>1. PICK tokens \in Seq(T) : tokens = WordsOf(text, NotBlank)
  OBVIOUS
<1>2. DOMAIN tokens = 1..((Len(tokens) + 1) - 1)
  OBVIOUS
<1>3. Keywords(text) = ItemsAt(tokens, {k \in DOMAIN tokens : tokens[k] # Operator})
  BY <1>1 DEF Keywords
<1>. QED
  BY <1>1, <1>2, <1>3, Zenon DEF WordsBefore, WordsUpTo

----------------------------------------------------------------------------
(* The invariant                                                           *)

Tokens == WordsOf(command, NotBlank)
Starts == InOrder(WordStarts(command, NotBlank))

\* The loop is in the k-th token or at the blank behind it, and temp has what
\* it has read of it.
InWord(tokens, starts, k) ==
    /\ tokens[k] # Operator
    /\ i \in starts[k]..(EndIn(tokens, starts, k) + 1)
    /\ temp = SubSeq(command, starts[k], i - 1)
    /\ wordsInput = WordsBefore(tokens, k)

\* The loop is at the A of AND.
AtOperator(tokens, starts, k) ==
    /\ tokens[k] = Operator
    /\ i = starts[k]
    /\ temp = <<>>
    /\ wordsInput = WordsBefore(tokens, k)

Underway(tokens, starts) ==
    /\ status = "reading"
    /\ \E k \in 1..Len(tokens) : InWord(tokens, starts, k) \/ AtOperator(tokens, starts, k)

\* The message so far is taken apart into the words so far.
MessageInv ==
    /\ wordsInputString \in Seq(Char)
    /\ wordsInput \in Seq(Seq(Char))
    /\ Len(wordsInputString) > 0 => wordsInputString[Len(wordsInputString)] = Blank
    /\ WordsReceived = wordsInput

ReadInv ==
    /\ command \in Seq(Char) /\ Len(command) > 0
    /\ WellFormed(command) =>
          /\ MessageInv
          /\ \/ Underway(Tokens, Starts)
             \/ status = "sent" /\ wordsInput = Keywords(command)

----------------------------------------------------------------------------
(* One step                                                                *)

\* What the tokens of a well-formed query are.
WordsAndOperators(tokens) ==
    \A k \in DOMAIN tokens :
       \/ "A" \notin ToSet(tokens[k])
       \/ /\ tokens[k] = Operator
          /\ 1 < k /\ k < Len(tokens)
          /\ tokens[k - 1] # Operator /\ tokens[k + 1] # Operator

LEMMA WellFormedIs ==
    ASSUME NEW text \in Seq(Char), Len(text) > 0, WellFormed(text)
    PROVE  /\ TakenApart(text, WordsOf(text, NotBlank), InOrder(WordStarts(text, NotBlank)))
           /\ WordsAndOperators(WordsOf(text, NotBlank))
<1>1. WordsAndOperators(WordsOf(text, NotBlank))
  BY Zenon DEF WellFormed, WordsAndOperators
<1>2. SingleBlanks(text)
  <2>1. /\ text[1] # Blank /\ text[Len(text)] # Blank
        /\ \A k \in DOMAIN text \ {1} : ~(text[k - 1] = Blank /\ text[k] = Blank)
    BY Zenon DEF WellFormed, Last
  <2>2. \A k \in 2..Len(text) : k \in DOMAIN text \ {1}
    OBVIOUS
  <2>. QED
    BY <2>1, <2>2, Zenon DEF SingleBlanks
<1>. QED
  BY <1>1, <1>2, TokensAre

\* One more character of a word.
LEMMA OneMoreCharacter ==
    ASSUME NEW C, NEW text \in Seq(C), NEW x \in 1..Len(text), NEW j \in x..Len(text)
    PROVE  SubSeq(text, x, j) = Append(SubSeq(text, x, j - 1), text[j])
<1>1. /\ x \in Int /\ j \in Int /\ j - 1 \in Int /\ x <= j
      /\ \A l \in x..j : text[l] \in C
      /\ \A l \in x..(j - 1) : text[l] \in C
      /\ j - x + 1 \in Nat /\ (j - 1) - x + 1 = j - x /\ j - x \in Nat
  OBVIOUS
<1>2. PICK u : u = SubSeq(text, x, j - 1)
  OBVIOUS
<1>3. /\ u \in Seq(C) /\ Len(u) = j - x
      /\ \A l \in 1..(j - x) : u[l] = text[x + l - 1]
  <2>1. /\ u \in Seq(C)
        /\ Len(u) = IF x <= j - 1 THEN (j - 1) - x + 1 ELSE 0
        /\ \A l \in 1..((j - 1) - x + 1) : u[l] = text[x + l - 1]
    BY <1>1, <1>2, SubSeqProperties
  <2>. QED
    BY <1>1, <2>1
<1>4. PICK v : v = SubSeq(text, x, j)
  OBVIOUS
<1>5. /\ v \in Seq(C) /\ Len(v) = j - x + 1
      /\ \A l \in 1..(j - x + 1) : v[l] = text[x + l - 1]
  BY <1>1, <1>4, SubSeqProperties
<1>6. PICK w : w = Append(u, text[j])
  OBVIOUS
<1>7. /\ w \in Seq(C) /\ Len(w) = j - x + 1 /\ w[j - x + 1] = text[j]
      /\ \A l \in 1..(j - x) : w[l] = u[l]
  <2>1. text[j] \in C
    BY <1>1
  <2>2. /\ w \in Seq(C) /\ Len(w) = Len(u) + 1 /\ w[Len(u) + 1] = text[j]
        /\ \A l \in 1..Len(u) : w[l] = u[l]
    <3>1. u \in Seq(C)
      BY <1>3
    <3>. QED
      BY <1>6, <2>1, <3>1, AppendIs
  <2>3. Len(u) = j - x
    BY <1>3
  <2>. QED
    BY <2>2, <2>3, Zenon
<1>8. ASSUME NEW l \in 1..(j - x + 1) PROVE v[l] = w[l]
  <2>1. CASE l = j - x + 1
    <3>1. x + l - 1 = j
      BY <1>1, <2>1
    <3>. QED
      BY <1>5, <1>7, <2>1, <3>1
  <2>2. CASE l \in 1..(j - x)
    BY <1>3, <1>5, <1>7, <2>2
  <2>. QED
    BY <1>1, <2>1, <2>2
<1>9. v = w
  BY <1>5, <1>7, <1>8, SeqEqual
<1>. QED
  BY <1>2, <1>4, <1>6, <1>9

\* One more word and a blank at the end of the message.
LEMMA OneMoreSent ==
    ASSUME MessageInv, NEW w \in Seq(NotBlank), Len(w) > 0,
           wordsInput' = Append(wordsInput, w),
           wordsInputString' = wordsInputString \o w \o <<Blank>>
    PROVE  MessageInv'
<1>1. NotBlank \in SUBSET Char /\ Blank \in Char /\ Blank \notin NotBlank
  BY DEF NotBlank, Char
<1>2. w \in Seq(Char)
  BY <1>1
<1>3. PICK s \in Seq(Char) : s = wordsInputString
  BY DEF MessageInv
<1>4. PICK t : t = s \o w
  OBVIOUS
<1>5. t \in Seq(Char)
  BY <1>2, <1>4, ConcatProperties
<1>6. PICK u : u = Append(t, Blank)
  OBVIOUS
<1>7. /\ u \in Seq(Char) /\ Len(u) = Len(t) + 1 /\ u[Len(t) + 1] = Blank
      /\ u = t \o <<Blank>>
  BY <1>1, <1>5, <1>6, AppendIs, AppendIsConcat
<1>8. wordsInputString' = u
  BY <1>3, <1>4, <1>7
<1>9. WordsOf(t, NotBlank) = Append(WordsOf(s, NotBlank), w)
  <2>1. Len(s) > 0 => s[Len(s)] \notin NotBlank
    BY <1>1, <1>3 DEF MessageInv
  <2>. QED
    BY <1>1, <1>4, <2>1, WordsOfAppendWord
<1>10. WordsOf(u, NotBlank) = WordsOf(t, NotBlank)
  BY <1>1, <1>5, <1>6, WordsOfAppendOther
<1>11. WordsOf(s, NotBlank) = wordsInput
  BY <1>3, Zenon DEF MessageInv, WordsReceived
<1>12. WordsReceived' = wordsInput'
  BY <1>8, <1>9, <1>10, <1>11, Zenon DEF WordsReceived
<1>13. wordsInput' \in Seq(Seq(Char))
  BY <1>2 DEF MessageInv
<1>14. wordsInputString'[Len(wordsInputString')] = Blank
  BY <1>7, <1>8
<1>. QED
  BY <1>7, <1>8, <1>12, <1>13, <1>14 DEF MessageInv

\* Where the loop is in the query.
AtToken(tokens, starts, k, x, e) ==
    /\ k \in 1..Len(tokens) /\ Len(tokens) \in Nat
    /\ x = starts[k] /\ e = EndIn(tokens, starts, k)
    /\ x \in 1..Len(command) /\ e \in x..Len(command)
    /\ tokens[k] = SubSeq(command, x, e)
    /\ tokens[k] \in Seq(Char) /\ Len(tokens[k]) = e - x + 1
    /\ \A j \in x..e : command[j] \in NotBlank /\ command[j] = tokens[k][j - x + 1]
    /\ k = Len(tokens) => e = Len(command)
    /\ k < Len(tokens) => /\ e + 1 \in 1..Len(command)
                          /\ command[e + 1] = Blank
                          /\ starts[k + 1] = e + 2

LEMMA TokenPlace ==
    ASSUME command \in Seq(Char),
           NEW tokens, NEW starts, TakenApart(command, tokens, starts),
           NEW k \in 1..Len(tokens)
    PROVE  \E x, e \in Nat : AtToken(tokens, starts, k, x, e)
<1>1. PICK x : x = starts[k]
  OBVIOUS
<1>2. PICK e : e = EndIn(tokens, starts, k)
  OBVIOUS
<1>3. PICK w : w = tokens[k]
  OBVIOUS
<1>4. /\ tokens \in Seq(Seq(Char))
      /\ x \in 1..Len(command) /\ e \in x..Len(command)
      /\ w = SubSeq(command, x, e)
      /\ \A j \in x..e : command[j] \in NotBlank
      /\ k = Len(tokens) => e = Len(command)
      /\ k < Len(tokens) => /\ e + 1 \in 1..Len(command)
                            /\ command[e + 1] = Blank
                            /\ starts[k + 1] = e + 2
  BY <1>1, <1>2, <1>3, Zenon DEF TakenApart
<1>5. /\ Len(command) \in Nat /\ x \in Int /\ e \in Int /\ x <= e /\ x \in Nat /\ e \in Nat
      /\ \A j \in x..e : j \in 1..Len(command)
  BY <1>4
<1>6. \A j \in x..e : command[j] \in Char
  BY <1>5
<1>7. /\ w \in Seq(Char) /\ Len(w) = e - x + 1
      /\ \A l \in 1..(e - x + 1) : w[l] = command[x + l - 1]
  <2>1. w = SubSeq(command, x, e)
    BY <1>4
  <2>. QED
    BY <1>5, <1>6, <2>1, SubSeqProperties
<1>8. ASSUME NEW j \in x..e PROVE command[j] = w[j - x + 1]
  <2>1. j - x + 1 \in 1..(e - x + 1) /\ x + (j - x + 1) - 1 = j
    BY <1>5
  <2>. QED
    BY <1>7, <2>1
<1>9. Len(tokens) \in Nat
  BY <1>4
<1>10. AtToken(tokens, starts, k, x, e)
  BY <1>1, <1>2, <1>3, <1>4, <1>7, <1>8, <1>9 DEF AtToken
<1>. QED
  BY <1>5, <1>10

LEMMA NoA == "A" # Blank /\ "A" \in NotBlank
<1>1. "A" # Blank
  BY Zenon DEF Blank
<1>2. "A" \in Char
  BY Zenon DEF Char
<1>. QED
  BY <1>1, <1>2, Zenon DEF NotBlank

\* Inside a word there is neither a blank nor an A.
LEMMA InsideWord ==
    ASSUME NEW tokens, NEW starts, NEW k, NEW x \in Nat, NEW e \in Nat,
           AtToken(tokens, starts, k, x, e),
           tokens \in Seq(Seq(Char)), WordsAndOperators(tokens), tokens[k] # Operator,
           NEW j \in x..e
    PROVE  command[j] \in NotBlank /\ command[j] # "A" /\ command[j] # Blank
<1>1. /\ k \in 1..Len(tokens) /\ tokens[k] \in Seq(Char) /\ Len(tokens[k]) = e - x + 1
      /\ command[j] \in NotBlank /\ command[j] = tokens[k][j - x + 1]
  BY Zenon DEF AtToken
<1>2. j - x + 1 \in 1..(e - x + 1)
  OBVIOUS
<1>3. k \in DOMAIN tokens
  BY <1>1
<1>4. "A" \notin ToSet(tokens[k])
  BY <1>3, Zenon DEF WordsAndOperators
<1>5. j - x + 1 \in DOMAIN tokens[k]
  BY <1>1, <1>2
<1>6. command[j] \in ToSet(tokens[k])
  BY <1>1, <1>5, Zenon DEF ToSet
<1>. QED
  BY <1>1, <1>4, <1>6, Zenon DEF NotBlank

\* In a word the loop reads on, to the blank and to the next token.
LEMMA InWordStep ==
    ASSUME command \in Seq(Char),
           NEW tokens, NEW starts,
           TakenApart(command, tokens, starts), WordsAndOperators(tokens),
           MessageInv, status = "reading",
           NEW k \in 1..Len(tokens), InWord(tokens, starts, k),
           Next
    PROVE  /\ MessageInv'
           /\ \/ Underway(tokens, starts)'
              \/ status' = "sent" /\ wordsInput' = WordsBefore(tokens, Len(tokens) + 1)
<1>1. PICK x \in Nat, e \in Nat : AtToken(tokens, starts, k, x, e)
  BY TokenPlace
<1>2. tokens \in Seq(Seq(Char))
  BY DEF TakenApart
<1>3. /\ tokens[k] # Operator /\ i \in x..(e + 1) /\ i \in Nat
      /\ temp = SubSeq(command, x, i - 1)
      /\ wordsInput = WordsBefore(tokens, k)
  <2>1. x = starts[k] /\ e = EndIn(tokens, starts, k)
    BY <1>1, Zenon DEF AtToken
  <2>2. /\ tokens[k] # Operator /\ i \in x..(e + 1)
        /\ temp = SubSeq(command, x, i - 1)
        /\ wordsInput = WordsBefore(tokens, k)
    BY <2>1, Zenon DEF InWord
  <2>. QED
    BY <2>2
<1>4. /\ x \in 1..Len(command) /\ e \in x..Len(command) /\ Len(command) \in Nat
      /\ Len(tokens) \in Nat /\ k \in 1..Len(tokens)
  BY <1>1 DEF AtToken
<1>5. wordsInput' = Append(wordsInput, tokens[k]) =>
         wordsInput' = WordsBefore(tokens, k + 1)
  BY <1>2, <1>3, WordsBeforeNext
<1>6. /\ tokens[k] \in Seq(NotBlank) /\ Len(tokens[k]) > 0
      /\ tokens[k] = SubSeq(command, x, e)
  <2>1. \A j \in x..e : command[j] \in NotBlank
    BY <1>1, Zenon DEF AtToken
  <2>2. SubSeq(command, x, e) \in Seq(NotBlank)
    BY <1>4, <2>1, SubSeqProperties
  <2>3. tokens[k] = SubSeq(command, x, e) /\ Len(tokens[k]) = e - x + 1
    BY <1>1, Zenon DEF AtToken
  <2>. QED
    BY <1>4, <2>2, <2>3
<1>7. CASE i \in x..e
  <2>1. command[i] \in NotBlank /\ command[i] # "A" /\ command[i] # Blank
    BY <1>1, <1>2, <1>3, <1>7, InsideWord
  <2>2. i <= Len(command) /\ i \in x..Len(command)
    BY <1>4, <1>7
  <2>3. ReadLetter
    BY <2>1, <2>2 DEF Next, EndWord, ReadAnd, DropA, AssertionFails, SendWords
  <2>4. InWord(tokens, starts, k)'
    <3>1. SubSeq(command, x, i) = Append(SubSeq(command, x, i - 1), command[i])
      BY <1>4, <2>2, OneMoreCharacter
    <3>2. i' = i + 1 /\ temp' = Append(temp, command[i]) /\ command' = command /\ wordsInput' = wordsInput
      BY <2>3 DEF ReadLetter
    <3>3. i' - 1 = i /\ i' \in x..(e + 1)
      BY <1>4, <1>7, <3>2
    <3>4. temp' = SubSeq(command', x, i' - 1)
      BY <1>3, <3>1, <3>2, <3>3
    <3>5. x = starts[k] /\ e = EndIn(tokens, starts, k)
      BY <1>1, Zenon DEF AtToken
    <3>. QED
      BY <1>3, <3>2, <3>3, <3>4, <3>5, Zenon DEF InWord
  <2>5. Underway(tokens, starts)'
    BY <2>3, <2>4 DEF Underway, ReadLetter, Reading
  <2>6. MessageInv'
    BY <2>3 DEF ReadLetter, MessageInv, WordsReceived
  <2>. QED
    BY <2>5, <2>6
<1>8. CASE i = e + 1
  <2>1. temp = tokens[k]
    <3>1. i - 1 = e
      BY <1>4, <1>8
    <3>. QED
      BY <1>3, <1>6, <3>1
  <2>2. CASE k < Len(tokens)
    <3>1. i \in 1..Len(command) /\ command[i] = Blank /\ starts[k + 1] = i + 1
      <4>1. e + 1 \in 1..Len(command) /\ command[e + 1] = Blank /\ starts[k + 1] = e + 2
        BY <1>1, <2>2, Zenon DEF AtToken
      <4>. QED
        BY <1>4, <1>8, <4>1
    <3>2. EndWord
      <4>1. command[i] # "A" /\ command[i] \notin NotBlank
        BY <3>1, NoA, Zenon DEF NotBlank
      <4>2. ~(i > Len(command))
        BY <1>4, <3>1
      <4>. QED
        BY <4>1, <4>2, Zenon DEF Next, ReadAnd, DropA, AssertionFails, ReadLetter, SendWords
    <3>3. /\ wordsInput' = Append(wordsInput, tokens[k]) /\ i' = i + 1 /\ temp' = <<>>
          /\ wordsInputString' = wordsInputString \o tokens[k] \o <<Blank>>
          /\ command' = command /\ status' = "reading"
      BY <2>1, <3>2 DEF EndWord, Reading
    <3>4. MessageInv'
      BY <1>6, <3>3, OneMoreSent
    <3>5. k + 1 \in 1..Len(tokens) /\ i' = starts[k + 1]
      BY <1>4, <2>2, <3>1, <3>3
    <3>6. wordsInput' = WordsBefore(tokens, k + 1)
      BY <1>5, <3>3
    <3>7. CASE tokens[k + 1] = Operator
      <4>1. AtOperator(tokens, starts, k + 1)'
        BY <3>3, <3>5, <3>6, <3>7, Zenon DEF AtOperator
      <4>. QED
        BY <3>3, <3>4, <3>5, <4>1 DEF Underway
    <3>8. CASE tokens[k + 1] # Operator
      <4>1. PICK y \in Nat, f \in Nat : AtToken(tokens, starts, k + 1, y, f)
        BY <3>5, TokenPlace
      <4>2. y = starts[k + 1] /\ f = EndIn(tokens, starts, k + 1) /\ f \in y..Len(command)
        BY <4>1, Zenon DEF AtToken
      <4>3. i' \in y..(f + 1) /\ i' = y /\ i' - 1 \in Int /\ i' - 1 < y
        BY <1>4, <3>5, <4>2
      <4>4. temp' = SubSeq(command', y, i' - 1)
        <5>1. SubSeq(command', y, i' - 1) = <<>>
          BY <4>3, SubSeqEmpty
        <5>. QED
          BY <3>3, <5>1
      <4>5. InWord(tokens, starts, k + 1)'
        BY <3>6, <3>8, <4>2, <4>3, <4>4, Zenon DEF InWord
      <4>. QED
        BY <3>3, <3>4, <3>5, <4>5 DEF Underway
    <3>. QED
      BY <3>7, <3>8
  <2>3. CASE k = Len(tokens)
    <3>1. e = Len(command)
      BY <1>1, <2>3, Zenon DEF AtToken
    <3>2. ~(i <= Len(command))
      BY <1>4, <1>8, <3>1
    <3>3. SendWords
      BY <3>2 DEF Next, EndWord, ReadAnd, DropA, AssertionFails, ReadLetter, Reading
    <3>4. temp # <<>>
      <4>1. PICK w \in Seq(NotBlank) : w = tokens[k] /\ Len(w) > 0
        BY <1>6
      <4>2. w # <<>>
        BY <4>1
      <4>. QED
        BY <2>1, <4>1, <4>2
    <3>5. /\ wordsInput' = Append(wordsInput, tokens[k]) /\ status' = "sent"
          /\ wordsInputString' = wordsInputString \o tokens[k] \o <<Blank>>
      BY <2>1, <3>3, <3>4 DEF SendWords
    <3>6. MessageInv'
      BY <1>6, <3>5, OneMoreSent
    <3>7. wordsInput' = WordsBefore(tokens, Len(tokens) + 1)
      BY <1>5, <2>3, <3>5
    <3>. QED
      BY <3>5, <3>6, <3>7
  <2>. QED
    BY <1>4, <2>2, <2>3
<1>. QED
  BY <1>3, <1>4, <1>7, <1>8

\* From an AND the loop gets to the second letter of the next word.
AtAnd(tokens, starts, k) ==
    /\ k < Len(tokens) /\ k + 1 \in 1..Len(tokens)
    /\ tokens[k + 1] # Operator
    /\ command[i] = "A" /\ command[i + 1] = "N" /\ command[i + 2] = "D"
    /\ starts[k + 1] = i + 4
    /\ i + 4 \in 1..Len(command) /\ i \in 1..Len(command)

LEMMA OperatorPlace ==
    ASSUME command \in Seq(Char),
           NEW tokens, NEW starts,
           TakenApart(command, tokens, starts), WordsAndOperators(tokens),
           NEW k \in 1..Len(tokens), AtOperator(tokens, starts, k)
    PROVE  AtAnd(tokens, starts, k)
<1>1. PICK x \in Nat, e \in Nat : AtToken(tokens, starts, k, x, e)
  BY TokenPlace
<1>2. /\ tokens[k] = <<"A", "N", "D">> /\ i = x
      /\ Len(tokens[k]) = e - x + 1
      /\ \A j \in x..e : command[j] = tokens[k][j - x + 1]
      /\ x \in 1..Len(command) /\ e \in x..Len(command)
      /\ k < Len(tokens) => e + 1 \in 1..Len(command) /\ starts[k + 1] = e + 2
  BY <1>1, Zenon DEF AtToken, AtOperator, Operator
<1>3. Len(<<"A", "N", "D">>) = 3
  OBVIOUS
<1>4. e = x + 2
  BY <1>2, <1>3
<1>5. command[i] = "A" /\ command[i + 1] = "N" /\ command[i + 2] = "D"
  <2>1. PICK w : w = tokens[k]
    OBVIOUS
  <2>2. w[1] = "A" /\ w[2] = "N" /\ w[3] = "D"
    BY <1>2, <2>1
  <2>3. \A j \in x..e : command[j] = w[j - x + 1]
    BY <1>2, <2>1, Zenon
  <2>4. /\ x \in x..e /\ x + 1 \in x..e /\ x + 2 \in x..e
        /\ x - x + 1 = 1 /\ (x + 1) - x + 1 = 2 /\ (x + 2) - x + 1 = 3
    BY <1>4
  <2>5. command[x] = w[1] /\ command[x + 1] = w[2] /\ command[x + 2] = w[3]
    BY <2>3, <2>4
  <2>. QED
    BY <1>2, <2>2, <2>5
<1>6. k < Len(tokens) /\ tokens[k + 1] # Operator
  <2>1. tokens[k] = Operator
    BY Zenon DEF AtOperator
  <2>2. k \in DOMAIN tokens
    BY <1>1 DEF TakenApart
  <2>3. 1 \in DOMAIN tokens[k] /\ tokens[k][1] = "A"
    BY <2>1 DEF Operator
  <2>4. "A" \in ToSet(tokens[k])
    BY <2>3, Zenon DEF ToSet
  <2>. QED
    BY <2>2, <2>4, Zenon DEF WordsAndOperators
<1>7. k + 1 \in 1..Len(tokens)
  BY <1>1, <1>6 DEF AtToken
<1>8. starts[k + 1] = i + 4 /\ i + 4 \in 1..Len(command) /\ i \in 1..Len(command)
  <2>1. PICK y \in Nat, f \in Nat : AtToken(tokens, starts, k + 1, y, f)
    BY <1>7, TokenPlace
  <2>2. y = starts[k + 1] /\ y \in 1..Len(command)
    BY <2>1, Zenon DEF AtToken
  <2>3. starts[k + 1] = e + 2
    BY <1>2, <1>6
  <2>4. e + 2 = i + 4
    BY <1>2, <1>4
  <2>. QED
    BY <1>2, <2>2, <2>3, <2>4
<1>. QED
  BY <1>5, <1>6, <1>7, <1>8 DEF AtAnd

LEMMA AtOperatorStep ==
    ASSUME command \in Seq(Char),
           NEW tokens, NEW starts,
           TakenApart(command, tokens, starts), WordsAndOperators(tokens),
           MessageInv, status = "reading",
           NEW k \in 1..Len(tokens), AtOperator(tokens, starts, k),
           Next
    PROVE  MessageInv' /\ Underway(tokens, starts)'
<1>1. AtAnd(tokens, starts, k)
  BY OperatorPlace
<1>2. /\ k + 1 \in 1..Len(tokens)
      /\ tokens[k + 1] # Operator
      /\ command[i] = "A" /\ command[i + 1] = "N" /\ command[i + 2] = "D"
      /\ starts[k + 1] = i + 4
      /\ i + 4 \in 1..Len(command) /\ i \in 1..Len(command) /\ Len(command) \in Nat
  <2>1. Len(command) \in Nat
    OBVIOUS
  <2>. QED
    BY <1>1, <2>1, Zenon DEF AtAnd
<1>3. ReadAnd
  <2>1. command[i] # Blank
    BY <1>2, NoA
  <2>2. i <= Len(command) /\ ~(i > Len(command)) /\ i + 4 <= Len(command) /\ ~(i + 4 > Len(command))
    BY <1>2
  <2>3. command[i] \notin NotBlank \ {"A"}
    BY <1>2
  <2>. QED
    BY <1>2, <2>1, <2>2, <2>3, Zenon DEF Next, EndWord, DropA, AssertionFails, ReadLetter, SendWords
<1>4. /\ temp' = Append(<<>>, command[i + 4]) /\ i' = i + 5
      /\ command' = command /\ wordsInput' = wordsInput
      /\ wordsInputString' = wordsInputString /\ status' = "reading"
  <2>1. temp = <<>>
    BY Zenon DEF AtOperator
  <2>2. /\ temp' = Append(<<>>, command[i + 4]) /\ i' = i + 4 + 1
        /\ command' = command /\ wordsInput' = wordsInput
        /\ wordsInputString' = wordsInputString /\ status' = "reading"
    BY <1>3, <2>1 DEF ReadAnd, SkipAND
  <2>3. i + 4 + 1 = i + 5
    BY <1>2
  <2>. QED
    BY <2>2, <2>3
<1>5. tokens \in Seq(Seq(Char))
  BY DEF TakenApart
<1>6. wordsInput' = WordsBefore(tokens, k + 1)
  <2>1. wordsInput = WordsBefore(tokens, k) /\ tokens[k] = Operator
    BY Zenon DEF AtOperator
  <2>. QED
    BY <1>4, <1>5, <2>1, WordsBeforeNext
<1>7. PICK y \in Nat, f \in Nat : AtToken(tokens, starts, k + 1, y, f)
  BY <1>2, TokenPlace
<1>8. /\ y = starts[k + 1] /\ f = EndIn(tokens, starts, k + 1)
      /\ f \in y..Len(command) /\ y \in 1..Len(command)
  BY <1>7, Zenon DEF AtToken
<1>9. y = i + 4 /\ i' - 1 = y /\ i' \in y..(f + 1)
  BY <1>2, <1>4, <1>8
<1>10. temp' = SubSeq(command', y, i' - 1)
  <2>1. SubSeq(command, y, y) = Append(SubSeq(command, y, y - 1), command[y])
    <3>1. y \in y..Len(command)
      BY <1>8
    <3>. QED
      BY <1>8, <3>1, OneMoreCharacter
  <2>2. SubSeq(command, y, y - 1) = <<>>
    BY <1>8, SubSeqEmpty
  <2>. QED
    BY <1>4, <1>9, <2>1, <2>2
<1>11. InWord(tokens, starts, k + 1)'
  BY <1>2, <1>6, <1>8, <1>9, <1>10, Zenon DEF InWord
<1>12. Underway(tokens, starts)'
  BY <1>2, <1>4, <1>11 DEF Underway
<1>13. MessageInv'
  BY <1>4 DEF MessageInv, WordsReceived
<1>. QED
  BY <1>12, <1>13

----------------------------------------------------------------------------
(* The invariant holds                                                     *)

\* Of a well-formed query the first token is no AND.
LEMMA ReadInit == Init => ReadInv
<1>. SUFFICES ASSUME Init PROVE ReadInv
  OBVIOUS
<1>1. command \in Seq(Char) /\ Len(command) > 0
  <2>1. PICK n \in 1..MaxLength : command \in [1..n -> Char]
    BY Zenon DEF Init
  <2>. QED
    BY <2>1, LengthAssumption
<1>. SUFFICES ASSUME WellFormed(command)
             PROVE  MessageInv /\ Underway(Tokens, Starts)
  BY <1>1 DEF ReadInv
<1>2. PICK tokens : tokens = Tokens
  OBVIOUS
<1>3. PICK starts : starts = Starts
  OBVIOUS
<1>4. TakenApart(command, tokens, starts) /\ WordsAndOperators(tokens)
  BY <1>1, <1>2, <1>3, WellFormedIs DEF Tokens, Starts
<1>5. /\ i = 1 /\ temp = <<>> /\ wordsInput = <<>>
      /\ wordsInputString = <<>> /\ status = "reading"
  BY Zenon DEF Init
<1>6. tokens \in Seq(Seq(Char)) /\ 1 \in 1..Len(tokens) /\ starts[1] = 1 /\ 1 \in DOMAIN tokens
  BY <1>4 DEF TakenApart
<1>7. wordsInput = WordsBefore(tokens, 1)
  BY <1>5, <1>6, WordsBeforeFirst
<1>8. tokens[1] # Operator
  <2>1. ASSUME tokens[1] = Operator PROVE FALSE
    <3>1. 1 \in DOMAIN tokens[1] /\ tokens[1][1] = "A"
      BY <2>1 DEF Operator
    <3>2. "A" \in ToSet(tokens[1])
      BY <3>1, Zenon DEF ToSet
    <3>3. 1 < 1
      BY <1>4, <1>6, <3>2, Zenon DEF WordsAndOperators
    <3>. QED
      BY <3>3
  <2>. QED
    BY <2>1
<1>9. PICK x \in Nat, e \in Nat : AtToken(tokens, starts, 1, x, e)
  BY <1>1, <1>4, <1>6, TokenPlace
<1>10. x = starts[1] /\ e = EndIn(tokens, starts, 1) /\ e \in x..Len(command)
  BY <1>9, Zenon DEF AtToken
<1>11. i \in x..(e + 1) /\ i - 1 \in Int /\ i - 1 < x
  BY <1>5, <1>6, <1>10
<1>12. temp = SubSeq(command, x, i - 1)
  BY <1>5, <1>11, SubSeqEmpty
<1>13. InWord(tokens, starts, 1)
  BY <1>7, <1>8, <1>10, <1>11, <1>12, Zenon DEF InWord
<1>14. Underway(tokens, starts)
  BY <1>5, <1>6, <1>13 DEF Underway
<1>15. MessageInv
  <2>1. PICK s \in Seq(Char) : s = <<>>
    <3>1. <<>> \in Seq(Char)
      OBVIOUS
    <3>. QED
      BY <3>1
  <2>2. PICK w : w = WordsOf(s, NotBlank)
    OBVIOUS
  <2>3. PICK o : o = InOrder(WordStarts(s, NotBlank))
    OBVIOUS
  <2>4. /\ w \in Seq(Seq(Char)) /\ Len(w) = Len(o)
        /\ \A j \in 1..Len(o) : o[j] \in 1..Len(s)
    BY <2>2, <2>3, WordsAre
  <2>5. Len(w) = 0
    <3>1. Len(w) \in Nat /\ 1..Len(s) = {}
      BY <2>1, <2>4
    <3>2. ~(1 \in 1..Len(o))
      BY <2>4, <3>1
    <3>. QED
      BY <2>4, <3>1, <3>2
  <2>6. w = <<>>
    BY <2>4, <2>5
  <2>7. WordsReceived = wordsInput
    BY <1>5, <2>1, <2>2, <2>6, Zenon DEF WordsReceived
  <2>. QED
    BY <1>5, <2>7 DEF MessageInv
<1>. QED
  BY <1>2, <1>3, <1>14, <1>15

LEMMA ReadNext == ReadInv /\ [Next]_vars => ReadInv'
<1>. SUFFICES ASSUME ReadInv, [Next]_vars PROVE ReadInv'
  OBVIOUS
<1>1. command' = command
  BY DEF Next, EndWord, ReadAnd, DropA, AssertionFails, ReadLetter, SendWords, vars
<1>2. command \in Seq(Char) /\ Len(command) > 0
  BY Zenon DEF ReadInv
<1>3. Tokens' = Tokens /\ Starts' = Starts
  BY <1>1, Zenon DEF Tokens, Starts
<1>. SUFFICES ASSUME WellFormed(command)
             PROVE  /\ MessageInv'
                    /\ \/ Underway(Tokens, Starts)'
                       \/ status' = "sent" /\ wordsInput' = Keywords(command)
  BY <1>1, <1>2, Zenon DEF ReadInv
<1>4. /\ MessageInv
      /\ \/ Underway(Tokens, Starts)
         \/ status = "sent" /\ wordsInput = Keywords(command)
  BY Zenon DEF ReadInv
<1>5. PICK tokens : tokens = Tokens
  OBVIOUS
<1>6. PICK starts : starts = Starts
  OBVIOUS
<1>7. TakenApart(command, tokens, starts) /\ WordsAndOperators(tokens)
  BY <1>2, <1>5, <1>6, WellFormedIs DEF Tokens, Starts
<1>8. Keywords(command) = WordsBefore(tokens, Len(tokens) + 1)
  <2>1. WordsOf(command, NotBlank) \in Seq(Seq(Char))
    BY <1>5, <1>7 DEF TakenApart, Tokens
  <2>. QED
    BY <1>5, <2>1, WordsBeforeEnd DEF Tokens
<1>9. Underway(tokens, starts)' => Underway(Tokens, Starts)'
  BY <1>3, <1>5, <1>6
<1>10. CASE UNCHANGED vars
  <2>1. MessageInv'
    BY <1>4, <1>10 DEF MessageInv, WordsReceived, vars
  <2>2. CASE Underway(Tokens, Starts)
    <3>1. Underway(tokens, starts)
      BY <1>5, <1>6, <2>2
    <3>2. Underway(tokens, starts)'
      BY <1>10, <3>1 DEF Underway, InWord, AtOperator, vars
    <3>. QED
      BY <1>9, <2>1, <3>2
  <2>3. CASE status = "sent" /\ wordsInput = Keywords(command)
    BY <1>10, <2>1, <2>3 DEF vars
  <2>. QED
    BY <1>4, <2>2, <2>3
<1>11. CASE Next /\ Underway(Tokens, Starts)
  <2>1. Underway(tokens, starts)
    BY <1>5, <1>6, <1>11
  <2>2. PICK k \in 1..Len(tokens) : InWord(tokens, starts, k) \/ AtOperator(tokens, starts, k)
    BY <2>1 DEF Underway
  <2>3. status = "reading"
    BY <2>1 DEF Underway
  <2>4. CASE InWord(tokens, starts, k)
    <3>1. /\ MessageInv'
          /\ \/ Underway(tokens, starts)'
             \/ status' = "sent" /\ wordsInput' = WordsBefore(tokens, Len(tokens) + 1)
      BY <1>2, <1>4, <1>7, <1>11, <2>3, <2>4, InWordStep
    <3>. QED
      BY <1>8, <1>9, <3>1
  <2>5. CASE AtOperator(tokens, starts, k)
    <3>1. MessageInv' /\ Underway(tokens, starts)'
      BY <1>2, <1>4, <1>7, <1>11, <2>3, <2>5, AtOperatorStep
    <3>. QED
      BY <1>9, <3>1
  <2>. QED
    BY <2>2, <2>4, <2>5
<1>12. CASE Next /\ status = "sent"
  <2>1. "sent" # "reading"
    OBVIOUS
  <2>. QED
    BY <1>12, <2>1, Zenon DEF Next, EndWord, ReadAnd, DropA, AssertionFails, ReadLetter, SendWords,
       Reading
<1>. QED
  BY <1>4, <1>10, <1>11, <1>12, Zenon

\* While a well-formed query is read, the loop is in one token of it or at the
\* A of an AND, it has taken exactly the words of the tokens before, and the
\* message so far is taken apart into these words: the skip over AND never lands
\* anywhere else.
THEOREM ReadInvariant == Spec => []ReadInv
  BY ReadInit, ReadNext, PTL DEF Spec

\* A query of words without a capital A, with AND between some of them, is read
\* and sent as these words, and neither program is aborted: for queries of every
\* length over any letters.
THEOREM QueryAsTyped == Spec => []QueryReadAsTyped
<1>1. ReadInv => QueryReadAsTyped
  <2>. SUFFICES ASSUME ReadInv, WellFormed(command)
               PROVE  /\ status # "aborted"
                      /\ status = "sent" => /\ wordsInput = Keywords(command)
                                            /\ WordsReceived = Keywords(command)
    BY Zenon DEF QueryReadAsTyped
  <2>1. /\ WordsReceived = wordsInput
        /\ \/ Underway(Tokens, Starts)
           \/ status = "sent" /\ wordsInput = Keywords(command)
    BY Zenon DEF ReadInv, MessageInv
  <2>2. Underway(Tokens, Starts) => status = "reading"
    BY Zenon DEF Underway
  <2>3. "aborted" # "reading" /\ "sent" # "reading" /\ "aborted" # "sent"
    OBVIOUS
  <2>. QED
    BY <2>1, <2>2, <2>3, Zenon
<1>. QED
  BY <1>1, ReadInvariant, PTL

============================================================================
