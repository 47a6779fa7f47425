------------------------------- MODULE Texts -------------------------------
(***************************************************************************)
(* Texts as sequences of characters, and the words in them: what the       *)
(* loops over characters and the stream operator >> of the programs take   *)
(* a text apart into.                                                      *)
(***************************************************************************)
EXTENDS Integers, Sequences, FiniteSets, SequencesExt, FiniteSetsExt

\* The members of a finite set of numbers, the smallest first: the k-th has k - 1
\* below it.
InOrder(numbers) ==
    [k \in 1..Cardinality(numbers) |->
        CHOOSE x \in numbers : Cardinality({y \in numbers : y < x}) = k - 1]

\* The items of a sequence at some positions, in order.
ItemsAt(seq, positions) ==
    LET order == InOrder(positions)
    IN  [k \in DOMAIN order |-> seq[order[k]]]

\* Where the words begin that are made of the given characters.
WordStarts(text, chars) ==
    {i \in DOMAIN text : text[i] \in chars /\ (i > 1 => text[i - 1] \notin chars)}

WordFrom(text, chars, i) ==
    SubSeq(text, i, Min({j \in i..Len(text) : j = Len(text) \/ text[j + 1] \notin chars}))

\* The longest stretches of the given characters, in order.
WordsOf(text, chars) ==
    LET starts == InOrder(WordStarts(text, chars))
    IN  [k \in DOMAIN starts |-> WordFrom(text, chars, starts[k])]

=============================================================================
