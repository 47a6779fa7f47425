---------------------------- MODULE DatasetTools ----------------------------
(***************************************************************************)
(* The three programs that prepare a data set, one after the other:        *)
(* clean_dataset reads the raw files, count_words what that has written,   *)
(* sort_words what that has written.                                       *)
(*                                                                         *)
(* Each walks a directory tree in pre-order and writes every file under    *)
(* its name into currentDatasetFolder, the directory it has seen last.     *)
(* A tree is a set of directories and a function from the paths of its     *)
(* files to their contents; a path is a sequence of names.                 *)
(***************************************************************************)
EXTENDS Texts, FiniteSets

CONSTANTS
    Alnum,       \* letters and digits
    Delimiter,   \* blank, tab and newline
    CR,          \* \r
    Other,       \* all other characters
    Name,        \* the names of files and directories
    FolderNames, \* those in which "folder" occurs
    RawTrees     \* the data sets the tools are tried on

Char == Alnum \cup Delimiter \cup {CR} \cup Other
Blank == Delimiter \cup {CR}

ASSUME CharAssumption ==
    /\ Alnum \cap Delimiter = {} /\ Alnum \cap Other = {} /\ Delimiter \cap Other = {}
    /\ CR \notin Alnum \cup Delimiter \cup Other

\* Every file and directory of a tree lies in a directory of it.
IsTree(tree) ==
    /\ tree.dirs \cup DOMAIN tree.files \subseteq Seq(Name)
    /\ \A path \in tree.dirs \cup DOMAIN tree.files :
          Len(path) > 0 /\ (Len(path) > 1 => Front(path) \in tree.dirs)

ASSUME NameAssumption == FolderNames \subseteq Name
ASSUME TreesAssumption ==
    \A tree \in RawTrees :
        IsTree(tree) /\ \A path \in DOMAIN tree.files : tree.files[path] \in Seq(Char)

VARIABLES
    tool,     \* the tool that runs, "done" after the last one, or "aborted"
    trees,    \* what it reads and what the tools have written
    pending,  \* the entries still to visit, of each directory on the way down
    currentDatasetFolder

vars == <<tool, trees, pending, currentDatasetFolder>>

Tools == {"clean", "count", "sort"}

\* The tree a tool reads.
Reads(t) ==
    CASE t = "clean" -> "raw"
      [] t = "count" -> "clean"
      [] t = "sort" -> "count"

Source(t) == trees[Reads(t)]

After(t) ==
    CASE t = "clean" -> "count"
      [] t = "count" -> "sort"
      [] t = "sort" -> "done"

Root == <<>>
Children(tree, dir) ==
    {path \in tree.dirs \cup DOMAIN tree.files : Front(path) = dir}

NoFiles == [path \in {} |-> <<>>]

\* The folders of the cleaned data set may exist from an earlier run.
Init ==
    /\ tool = "clean"
    /\ \E raw \in RawTrees :
        /\ \E existing \in {{}, {path \in raw.dirs : Len(path) = 1}} :
            trees = [t \in Tools \cup {"raw"} |->
                        IF t = "raw" THEN raw
                        ELSE [dirs |-> IF t = "clean" THEN existing ELSE {}, files |-> NoFiles]]
        /\ pending = <<Children(raw, Root)>>
    /\ currentDatasetFolder = Root

----------------------------------------------------------------------------
(* CleanFile                                                               *)

\* A delimiter goes when another one or \r follows; everything else goes that
\* is no letter or digit.
IsUnwantedChar(text, i) ==
    IF text[i] \in Delimiter
    THEN i < Len(text) /\ text[i + 1] \in Blank
    ELSE text[i] \notin Alnum

RemoveUnwanted(text) ==
    ItemsAt(text, {i \in DOMAIN text : ~IsUnwantedChar(text, i)})

\* Variant: the characters are removed once.
CleanOnce(text) == RemoveUnwanted(text)

CleanFile(text) == RemoveUnwanted(RemoveUnwanted(text))

----------------------------------------------------------------------------
(* count_words                                                             *)

Occurrences(words, word) == Cardinality({k \in DOMAIN words : words[k] = word})

\* Variant: a word stays in the map when it has been written.
CountEveryTime(text) ==
    LET words == WordsOf(text, Char \ Blank)
    IN  [k \in DOMAIN words |-> <<words[k], Occurrences(words, words[k])>>]

\* Each word once, where it occurs first, with its count.
CountWordsInFile(text) ==
    LET words == WordsOf(text, Char \ Blank)
        once == ItemsAt(words, {k \in DOMAIN words : \A j \in 1..(k - 1) : words[j] # words[k]})
    IN  [k \in DOMAIN once |-> <<once[k], Occurrences(words, once[k])>>]

----------------------------------------------------------------------------
(* sort_words                                                              *)

\* Variant: the last word of a count replaces the first.
InsertLast(wordMap, pair) ==
    [n \in DOMAIN wordMap \cup {pair[2]} |-> IF n = pair[2] THEN pair[1] ELSE wordMap[n]]

\* wordMap.insert, from counts to words: a count that is there keeps its word.
InsertWord(wordMap, pair) ==
    [n \in DOMAIN wordMap \cup {pair[2]} |->
        IF n \in DOMAIN wordMap THEN wordMap[n] ELSE pair[1]]

SortedWords(pairs) ==
    LET wordMap == FoldLeft(InsertWord, [n \in {} |-> <<>>], pairs)
        order == Reverse(InOrder(DOMAIN wordMap))
    IN  [k \in DOMAIN order |-> <<wordMap[order[k]], order[k]>>]

Output(t, content) ==
    CASE t = "clean" -> CleanFile(content)
      [] t = "count" -> CountWordsInFile(content)
      [] t = "sort" -> SortedWords(content)

----------------------------------------------------------------------------
(* The walk, the same in the three programs                                *)

Visits(path) ==
    /\ tool \in Tools
    /\ pending # <<>>
    /\ path \in Head(pending)

PendingWithout(path) == <<Head(pending) \ {path}>> \o Tail(pending)

Abort ==
    /\ tool' = "aborted"
    /\ UNCHANGED <<trees, pending, currentDatasetFolder>>

\* Variant: a folder that exists is not made the current one.
FolderIfCreated(name) ==
    IF <<name>> \in trees[tool].dirs THEN currentDatasetFolder ELSE <<name>>

\* Whatever the depth of a directory, its folder stands directly under the
\* data set.
FolderOf(name) == <<name>>

\* A directory: its name must contain "folder"; its entries come next.
ProcessFolder(path) ==
    /\ Visits(path)
    /\ path \in Source(tool).dirs
    /\ IF Last(path) \notin FolderNames THEN Abort
       ELSE /\ currentDatasetFolder' = FolderOf(Last(path))
            /\ trees' = [trees EXCEPT ![tool].dirs = @ \cup {<<Last(path)>>}]
            /\ pending' = <<Children(Source(tool), path)>> \o PendingWithout(path)
            /\ UNCHANGED tool

\* A file before any directory goes to the root of the file system, if that can
\* be written; else the program aborts.
ProcessStray(path) ==
    /\ Visits(path)
    /\ path \in DOMAIN Source(tool).files
    /\ currentDatasetFolder = Root
    /\ \/ Abort
       \/ pending' = PendingWithout(path) /\ UNCHANGED <<tool, trees, currentDatasetFolder>>

\* A file: a file of its name in the current folder is written anew.
ProcessFile(path) ==
    /\ Visits(path)
    /\ path \in DOMAIN Source(tool).files
    /\ currentDatasetFolder # Root
    /\ LET written == Append(currentDatasetFolder, Last(path))
           old == trees[tool].files
       IN  trees' = [trees EXCEPT ![tool].files =
                        [p \in DOMAIN old \cup {written} |->
                            IF p = written THEN Output(tool, Source(tool).files[path])
                            ELSE old[p]]]
    /\ pending' = PendingWithout(path)
    /\ UNCHANGED <<tool, currentDatasetFolder>>

\* The entries of a directory are exhausted; currentDatasetFolder stays.
LeaveFolder ==
    /\ tool \in Tools
    /\ pending # <<>> /\ Head(pending) = {}
    /\ pending' = Tail(pending)
    /\ UNCHANGED <<tool, trees, currentDatasetFolder>>

\* The next program is started on what this one has written.
NextTool ==
    /\ tool \in Tools
    /\ pending = <<>>
    /\ tool' = After(tool)
    /\ pending' = IF tool' = "done" THEN <<>> ELSE <<Children(trees[tool], Root)>>
    /\ currentDatasetFolder' = Root
    /\ UNCHANGED trees

Paths(tree) == tree.dirs \cup DOMAIN tree.files

Next ==
    \/ \E path \in UNION {Paths(trees[t]) : t \in DOMAIN trees} :
        ProcessFolder(path) \/ ProcessStray(path) \/ ProcessFile(path)
    \/ LeaveFolder
    \/ NextTool

Spec == Init /\ [][Next]_vars

----------------------------------------------------------------------------
(* Properties                                                              *)

\* A data set with files in folders, and nothing else.
Flat(tree) ==
    /\ tree.dirs \subseteq {<<name>> : name \in FolderNames}
    /\ \A path \in DOMAIN tree.files : Len(path) = 2

Finished(t) == CASE t = "clean" -> tool \in {"count", "sort", "done"}
                 [] t = "count" -> tool \in {"sort", "done"}
                 [] t = "sort" -> tool = "done"

\* A data set of files in folders goes through all three tools: no program
\* aborts, and every file is in the folder it came from, though the walk keeps
\* its folder in a variable and the order of the entries is not defined.
MirroredTree ==
    Flat(trees["raw"]) =>
        /\ tool # "aborted"
        /\ \A t \in Tools : Finished(t) => DOMAIN trees[t].files = DOMAIN trees["raw"].files

\* A cleaned file consists of letters, digits and single delimiters: two passes
\* are enough, whatever stood between two delimiters.  Every \r goes, also the
\* one before \n that the comment at clean_dataset.cpp:55 would keep: the branch
\* below it is never taken, since c is a delimiter there.
CleanedIsNormal ==
    \A path \in DOMAIN trees["clean"].files :
        LET text == trees["clean"].files[path]
        IN  /\ \A i \in DOMAIN text : text[i] \in Alnum \cup Delimiter
            /\ \A i \in DOMAIN text \ {1} : ~(text[i - 1] \in Delimiter /\ text[i] \in Delimiter)

\* "Remove any repeating sequence of delimiters. Replace it with the last
\* delimiter in the sequence." (clean_dataset.cpp:42-43): what delimiters separate
\* in the raw file is separated in the cleaned file, word by word.
DelimitersSeparate ==
    Flat(trees["raw"]) =>
        \A path \in DOMAIN trees["clean"].files :
            Len(WordsOf(trees["clean"].files[path], Alnum)) =
            Len(SelectSeq(WordsOf(trees["raw"].files[path], Char \ Delimiter),
                          LAMBDA w : ToSet(w) \cap Alnum # {}))

\* The counts written for a cleaned file are those with which the engine indexes
\* it (CountWordFreq, which splits at everything but letters and digits), each
\* word once.
CountsAgreeWithEngine ==
    \A path \in DOMAIN trees["count"].files :
        LET pairs == trees["count"].files[path]
            words == WordsOf(trees["clean"].files[path], Alnum)
        IN  /\ ToSet(pairs) = {<<w, Occurrences(words, w)>> : w \in ToSet(words)}
            /\ Len(pairs) = Cardinality(ToSet(words))

\* A sorted file has each count of the counted file once, the largest first, with
\* the word that came first in the text: of words with equal counts the others
\* are dropped.
SortedListsFirstOfEach ==
    \A path \in DOMAIN trees["sort"].files :
        LET pairs == trees["count"].files[path]
            sorted == trees["sort"].files[path]
        IN  /\ \A k \in DOMAIN sorted \ {1} : sorted[k - 1][2] > sorted[k][2]
            /\ \A k \in DOMAIN pairs :
                \E j \in 1..k : pairs[j] \in ToSet(sorted) /\ pairs[j][2] = pairs[k][2]
            /\ ToSet(sorted) \subseteq ToSet(pairs)

=============================================================================
