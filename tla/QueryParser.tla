---------------------------- MODULE QueryParser ----------------------------
(***************************************************************************)
(* How search reads a query: the loop over the characters behind "search " *)
(* which the client and the local engine have in common.  The client joins *)
(* the words to the message that the server takes apart again.             *)
(*                                                                         *)
(* One step is one iteration.  Positions are counted from 1.               *)
(***************************************************************************)
EXTENDS Texts

CONSTANTS
    Letter,      \* the letters of the queries besides A, N and D
    MaxLength    \* bound: how long a query is

Blank == " "

Char == Letter \cup {"A", "N", "D", Blank}
NotBlank == Char \ {Blank}

ASSUME LetterAssumption == Letter \cap {"A", "N", "D", Blank} = {}
ASSUME LengthAssumption == MaxLength \in Nat

VARIABLES
    command,          \* what stands behind "search "
    i,                \* the next character
    temp,             \* the word so far
    wordsInput,       \* the words before
    wordsInputString, \* what is sent, behind "Search: "
    status            \* "reading", "sent" or "aborted"

vars == <<command, i, temp, wordsInput, wordsInputString, status>>

Init ==
    /\ command \in UNION {[1..n -> Char] : n \in 1..MaxLength}
    /\ i = 1
    /\ temp = <<>>
    /\ wordsInput = <<>>
    /\ wordsInputString = <<>>
    /\ status = "reading"

Reading == status = "reading" /\ i <= Len(command)

\* A blank ends a word, an empty one too.
EndWord ==
    /\ Reading
    /\ command[i] = Blank
    /\ wordsInput' = Append(wordsInput, temp)
    /\ wordsInputString' = wordsInputString \o temp \o <<Blank>>
    /\ temp' = <<>>
    /\ i' = i + 1
    /\ UNCHANGED <<command, status>>

\* Variant: the D and the blank are not passed over.
SkipAN == 3

\* How far the first letter of the next word is from the A of AND.
SkipAND == 4

\* An A that begins "AND": the character four places on belongs to the next
\* word.
ReadAnd ==
    /\ Reading
    /\ command[i] = "A"
    /\ i + 4 <= Len(command)
    /\ command[i + 1] = "N" /\ command[i + 2] = "D"
    /\ temp' = Append(temp, command[i + SkipAND])
    /\ i' = i + SkipAND + 1
    /\ UNCHANGED <<command, wordsInput, wordsInputString, status>>

\* Any other A is dropped.
DropA ==
    /\ Reading
    /\ command[i] = "A"
    /\ i + 4 <= Len(command)
    /\ ~(command[i + 1] = "N" /\ command[i + 2] = "D")
    /\ i' = i + 1
    /\ UNCHANGED <<command, temp, wordsInput, wordsInputString, status>>

\* Fewer than four characters behind an A fail the assertion.
AssertionFails ==
    /\ Reading
    /\ command[i] = "A"
    /\ i + 4 > Len(command)
    /\ status' = "aborted"
    /\ UNCHANGED <<command, i, temp, wordsInput, wordsInputString>>

ReadLetter ==
    /\ Reading
    /\ command[i] \in NotBlank \ {"A"}
    /\ temp' = Append(temp, command[i])
    /\ i' = i + 1
    /\ UNCHANGED <<command, wordsInput, wordsInputString, status>>

\* The last word, and the query is searched for.
SendWords ==
    /\ status = "reading"
    /\ i > Len(command)
    /\ status' = "sent"
    /\ wordsInput' = IF temp = <<>> THEN wordsInput ELSE Append(wordsInput, temp)
    /\ wordsInputString' = IF temp = <<>> THEN wordsInputString
                           ELSE wordsInputString \o temp \o <<Blank>>
    /\ UNCHANGED <<command, i, temp>>

Next == EndWord \/ ReadAnd \/ DropA \/ AssertionFails \/ ReadLetter \/ SendWords

Spec == Init /\ [][Next]_vars

\* The words that the server takes from the message with >>.
WordsReceived == WordsOf(wordsInputString, NotBlank)

----------------------------------------------------------------------------
(* Properties                                                              *)

Operator == <<"A", "N", "D">>

\* Words without an A, single blanks between them, and AND only between words.
WellFormed(query) ==
    LET tokens == WordsOf(query, NotBlank)
    IN  /\ query[1] # Blank /\ Last(query) # Blank
        /\ \A k \in DOMAIN query \ {1} : ~(query[k - 1] = Blank /\ query[k] = Blank)
        /\ \A k \in DOMAIN tokens :
              \/ "A" \notin ToSet(tokens[k])
              \/ /\ tokens[k] = Operator
                 /\ 1 < k /\ k < Len(tokens)
                 /\ tokens[k - 1] # Operator /\ tokens[k + 1] # Operator

Keywords(query) ==
    LET words == WordsOf(query, NotBlank)
    IN  ItemsAt(words, {k \in DOMAIN words : words[k] # Operator})

\* A query of words without a capital A, with or without AND between them, is
\* read as these words by both programs, sent as these words, and neither
\* program is aborted: the skip over AND lands on the next word's first letter,
\* wherever the line ends.
QueryReadAsTyped ==
    WellFormed(command) =>
        /\ status # "aborted"
        /\ status = "sent" => /\ wordsInput = Keywords(command)
                              /\ WordsReceived = Keywords(command)

=============================================================================
