--------------------------- MODULE MCDatasetTools ---------------------------
(***************************************************************************)
(* Every short text as the only file of a data set, and a few trees: two   *)
(* folders, a folder in a folder with a file of the same name, a file      *)
(* beside the folders, a directory with another name.                      *)
(***************************************************************************)
EXTENDS DatasetTools

CONSTANT MaxLength

MCAlnum == {"a", "b"}
MCDelimiter == {" ", "\n"}
MCCR == "\r"
MCOther == {","}
MCName == {"folder1", "folder2", "other", "f", "g"}
MCFolderNames == {"folder1", "folder2"}

TextsUpTo(n) == UNION {[1..k -> {"a", "b", " ", "\n", "\r", ","}] : k \in 0..n}

OneFile(text) == [dirs |-> {<<"folder1">>}, files |-> [p \in {<<"folder1", "f">>} |-> text]]
SameText(dirs, paths) == [dirs |-> dirs, files |-> [p \in paths |-> <<"a", " ", "b", " ", "a">>]]

MCRawTrees ==
    {OneFile(text) : text \in TextsUpTo(MaxLength)}
    \cup {SameText({<<"folder1">>, <<"folder2">>},
                   {<<"folder1", "f">>, <<"folder1", "g">>, <<"folder2", "f">>}),
          SameText({<<"folder1">>, <<"folder1", "folder2">>},
                   {<<"folder1", "f">>, <<"folder1", "folder2", "f">>}),
          SameText({<<"folder1">>}, {<<"folder1", "f">>, <<"g">>}),
          SameText({<<"folder1">>, <<"other">>}, {<<"folder1", "f">>, <<"other", "f">>})}
=============================================================================
