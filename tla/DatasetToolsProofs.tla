------------------------- MODULE DatasetToolsProofs -------------------------
(***************************************************************************)
(* Proofs about the three tools, for every order of the entries of a       *)
(* directory: the walk, for every data set of files in folders, and what   *)
(* is written, for every data set and every text.                          *)
(*                                                                         *)
(* A cleaned text is normal because the second pass reads only what the    *)
(* first one kept: behind a delimiter that stays it finds a letter or a    *)
(* digit, which stays too.                                                 *)
(***************************************************************************)
EXTENDS DatasetTools, TextsProofs

----------------------------------------------------------------------------
(* Paths of folders and of files in them                                   *)

Folders == {<<n>> : n \in FolderNames}

LEMMA FolderPath ==
    ASSUME NEW n
    PROVE  Front(<<n>>) = Root /\ Last(<<n>>) = n /\ <<n>> # Root
  BY DEF Front, Last, Root

LEMMA AppendOne ==
    ASSUME NEW S, NEW u \in Seq(S), Len(u) = 1, NEW m \in S,
           NEW s \in Seq(S), Len(s) = 2, s[1] = u[1], s[2] = m
    PROVE  Append(u, m) = s
<1>1. \A i \in 1..Len(s) : i = 1 \/ i = 2
  OBVIOUS
<1>2. /\ Append(u, m) \in Seq(S) /\ Len(Append(u, m)) = Len(u) + 1
      /\ \A i \in 1..Len(u) : Append(u, m)[i] = u[i]
      /\ Append(u, m)[Len(u) + 1] = m
  BY AppendProperties, SMTT(30)
<1>3. /\ Len(Append(u, m)) = Len(s)
      /\ Append(u, m)[1] = s[1] /\ Append(u, m)[2] = s[2]
  BY <1>2
<1>4. \A i \in 1..Len(s) : Append(u, m)[i] = s[i]
  BY <1>1, <1>3
<1>. QED
  BY <1>2, <1>3, <1>4, SeqEqual

LEMMA FilePath ==
    ASSUME NEW n, NEW m
    PROVE  /\ Front(<<n, m>>) = <<n>> /\ Last(<<n, m>>) = m
           /\ Append(<<n>>, m) = <<n, m>> /\ <<n, m>> # <<n>>
<1>. DEFINE S == {n, m}
            s == <<n, m>>
<1>1. s \in Seq(S) /\ Len(s) = 2 /\ s[1] = n /\ s[2] = m
  OBVIOUS
<1>2. <<n>> \in Seq(S) /\ Len(<<n>>) = 1 /\ <<n>>[1] = n
  OBVIOUS
<1>3. Append(<<n>>, m) = s
  BY <1>1, <1>2, AppendOne
<1>. HIDE DEF s
<1>4. \A i \in 1..1 : s[i] \in S
  BY <1>1
<1>5. /\ SubSeq(s, 1, 1) \in Seq(S) /\ Len(SubSeq(s, 1, 1)) = 1
      /\ SubSeq(s, 1, 1)[1] = s[1]
  BY <1>4, SubSeqProperties
<1>6. SubSeq(s, 1, 1) = <<n>>
  <2>. DEFINE u == <<n>>
              v == SubSeq(s, 1, 1)
  <2>1. u \in Seq(S) /\ v \in Seq(S) /\ Len(u) = 1 /\ Len(v) = 1 /\ u[1] = v[1]
    BY <1>1, <1>2, <1>5
  <2>. HIDE DEF u, v
  <2>2. \A i \in 1..1 : v[i] = u[i]
    BY <2>1
  <2>3. v = u
    BY <2>1, <2>2, SeqEqual
  <2>. QED
    BY <2>3 DEF u, v
<1>7. Front(s) = <<n>> /\ Last(s) = m
  BY <1>1, <1>6 DEF Front, Last
<1>8. s # <<n>>
  BY <1>1, <1>2
<1>. QED
  BY <1>3, <1>7, <1>8 DEF s

\* A tree of files in folders.
FolderTree(tree) ==
    /\ tree.dirs \subseteq Folders
    /\ \A path \in DOMAIN tree.files :
          \E n \in FolderNames, m \in Name : path = <<n, m>> /\ <<n>> \in tree.dirs

LEMMA FlatIsFolderTree ==
    ASSUME NEW tree, IsTree(tree), Flat(tree)
    PROVE  FolderTree(tree)
<1>1. tree.dirs \subseteq Folders
  BY DEF Flat, Folders
<1>2. ASSUME NEW path \in DOMAIN tree.files
      PROVE  \E n \in FolderNames, m \in Name : path = <<n, m>> /\ <<n>> \in tree.dirs
  <2>1. path \in Seq(Name) /\ Len(path) = 2 /\ Front(path) \in tree.dirs
    BY DEF Flat, IsTree
  <2>2. path = <<path[1], path[2]>> /\ path[1] \in Name /\ path[2] \in Name
    <3>1. path[1] \in Name /\ path[2] \in Name
      <4>1. 1 \in 1..2 /\ 2 \in 1..2
        OBVIOUS
      <4>2. \A i \in 1..2 : path[i] \in Name
        BY <2>1, ElementOfSeq
      <4>. QED
        BY <4>1, <4>2
    <3>2. <<path[1], path[2]>> \in Seq(Name) /\ Len(<<path[1], path[2]>>) = 2
      BY <3>1
    <3>3. \A i \in 1..2 : path[i] = <<path[1], path[2]>>[i]
      OBVIOUS
    <3>. QED
      BY <2>1, <3>1, <3>2, <3>3, SeqEqual
  <2>3. Front(path) = <<path[1]>>
    BY <2>2, FilePath
  <2>4. PICK n \in FolderNames : <<path[1]>> = <<n>>
    BY <1>1, <2>1, <2>3 DEF Folders
  <2>5. path[1] = n
    BY <2>4
  <2>. QED
    BY <2>1, <2>2, <2>3, <2>5
<1>. QED
  BY <1>1, <1>2 DEF FolderTree

\* The entries of the data set are its folders, those of a folder its files.
LEMMA ChildrenAre ==
    ASSUME NEW tree, FolderTree(tree)
    PROVE  /\ Children(tree, Root) = tree.dirs
           /\ \A folder \in Folders :
                 Children(tree, folder) = {path \in DOMAIN tree.files : Front(path) = folder}
           /\ \A path \in DOMAIN tree.files : Front(path) \in tree.dirs
           /\ tree.dirs \cap DOMAIN tree.files = {}
<1>1. \A path \in tree.dirs : Front(path) = Root /\ path # Root /\ path \in Folders
  BY FolderPath DEF FolderTree, Folders
<1>2. ASSUME NEW path \in DOMAIN tree.files
      PROVE  Front(path) \in tree.dirs /\ Front(path) # Root /\ path \notin Folders
  <2>1. PICK n \in FolderNames, m \in Name : path = <<n, m>> /\ <<n>> \in tree.dirs
    BY DEF FolderTree
  <2>2. Front(path) = <<n>>
    BY <2>1, FilePath
  <2>3. \A k : <<n, m>> # <<k>>
    OBVIOUS
  <2>. QED
    BY <2>1, <2>2, <2>3, FolderPath DEF Folders
<1>3. Root \notin Folders
  BY FolderPath DEF Folders
<1>. QED
  BY <1>1, <1>2, <1>3 DEF Children

----------------------------------------------------------------------------
(* The walk                                                                *)

RawFiles == DOMAIN trees["raw"].files

\* Every file of the data set is in its folder.
Done(t) == FolderTree(trees[t]) /\ DOMAIN trees[t].files = RawFiles

\* The files already written while some folders are still to visit, and some
\* files of the current one.
Written(folders, here) ==
    DOMAIN trees[tool].files =
        {path \in RawFiles : Front(path) \notin folders /\ path \notin here}

\* Where the walk of the running tool is.
AtTop(top) ==
    /\ pending = <<top>>
    /\ top \subseteq Source(tool).dirs
    /\ Written(top, {})

InFolder(here, top) ==
    /\ pending = <<here, top>>
    /\ top \subseteq Source(tool).dirs
    /\ currentDatasetFolder \in trees[tool].dirs \ top
    /\ here \subseteq {path \in RawFiles : Front(path) = currentDatasetFolder}
    /\ Written(top, here)

AtEnd == pending = <<>> /\ Written({}, {})

WalkInv ==
    /\ FolderTree(trees[tool])
    /\ \/ AtEnd
       \/ \E top \in SUBSET Folders : AtTop(top)
       \/ \E top \in SUBSET Folders, here \in SUBSET RawFiles : InFolder(here, top)

\* The trees of the tools that ran are done, those of the others not begun.
ToolsInv ==
    /\ FolderTree(trees["raw"])
    /\ \A t \in Tools : Finished(t) => Done(t)
    /\ tool = "clean" => trees["count"].dirs = {} /\ DOMAIN trees["count"].files = {}
    /\ tool \in {"clean", "count"} => trees["sort"].dirs = {} /\ DOMAIN trees["sort"].files = {}

\* The trees are those of the tools, the raw one given.
ShapeInv ==
    /\ tool \in Tools \cup {"done", "aborted"}
    /\ DOMAIN trees = Tools \cup {"raw"}
    /\ trees["raw"] \in RawTrees
    /\ \A t \in Tools : trees[t] = [dirs |-> trees[t].dirs, files |-> trees[t].files]

MirrorInv ==
    /\ ShapeInv
    /\ Flat(trees["raw"]) =>
          /\ tool # "aborted"
          /\ ToolsInv
          /\ tool \in Tools => WalkInv

----------------------------------------------------------------------------
(* The stack of entries still to visit                                     *)

LEMMA PushOne ==
    ASSUME NEW x, NEW y
    PROVE  /\ Head(<<x>>) = x /\ Tail(<<x>>) = <<>> /\ <<x>> # <<>>
           /\ Head(<<x, y>>) = x /\ Tail(<<x, y>>) = <<y>> /\ <<x, y>> # <<>>
           /\ <<x>> \o <<>> = <<x>> /\ <<x>> \o <<y>> = <<x, y>>
<1>1. Head(<<x>>) = x /\ Tail(<<x>>) = <<>> /\ <<x>> # <<>>
  OBVIOUS
<1>2. Head(<<x, y>>) = x /\ <<x, y>> # <<>>
  OBVIOUS
<1>. DEFINE S == {x, y}
            u == <<x>>
            v == <<y>>
            s == <<x, y>>
<1>3. /\ u \in Seq(S) /\ Len(u) = 1 /\ u[1] = x
      /\ v \in Seq(S) /\ Len(v) = 1 /\ v[1] = y
      /\ s \in Seq(S) /\ Len(s) = 2 /\ s[1] = x /\ s[2] = y
  OBVIOUS
<1>. HIDE DEF u, v, s, S
<1>4. u \o <<>> = u
  BY <1>3, ConcatEmptySeq
<1>5. \A i \in 1..2 : i = 1 \/ i = 2
  OBVIOUS
<1>6. u \o v = s
  <2>1. /\ u \o v \in Seq(S) /\ Len(u \o v) = 2
        /\ (u \o v)[1] = x /\ (u \o v)[2] = y
    <3>1. /\ u \o v \in Seq(S) /\ Len(u \o v) = Len(u) + Len(v)
          /\ \A i \in 1..Len(u) + Len(v) :
                (u \o v)[i] = IF i <= Len(u) THEN u[i] ELSE v[i - Len(u)]
      BY <1>3, ConcatProperties
    <3>. QED
      BY <1>3, <3>1
  <2>2. \A i \in 1..2 : (u \o v)[i] = s[i]
    BY <1>3, <1>5, <2>1
  <2>. QED
    BY <1>3, <2>1, <2>2, SeqEqual
<1>7. Tail(s) = v
  <2>1. /\ Tail(s) \in Seq(S) /\ Len(Tail(s)) = 1 /\ Tail(s)[1] = y
    BY <1>3, HeadTailProperties
  <2>2. \A i \in 1..1 : Tail(s)[i] = v[i]
    BY <1>3, <2>1
  <2>. QED
    BY <1>3, <2>1, <2>2, SeqEqual
<1>. QED
  BY <1>1, <1>2, <1>4, <1>6, <1>7 DEF u, v, s

----------------------------------------------------------------------------
(* The steps                                                               *)

LEMMA InitShape == Init => ShapeInv
  BY DEF Init, ShapeInv, Tools

LEMMA NextShape ==
    ASSUME ShapeInv, [Next]_vars
    PROVE  /\ ShapeInv' /\ trees'["raw"] = trees["raw"]
<1>. USE DEF ShapeInv
<1>0. "raw" \notin Tools
  BY DEF Tools
<1>1. CASE UNCHANGED vars
  BY <1>1 DEF vars
<1>2. ASSUME NEW path, ProcessFolder(path)
      PROVE  ShapeInv' /\ trees'["raw"] = trees["raw"]
  <2>1. CASE Abort
    BY <2>1 DEF Abort
  <2>2. CASE /\ trees' = [trees EXCEPT ![tool].dirs = @ \cup {<<Last(path)>>}]
             /\ UNCHANGED tool
    BY <1>0, <1>2, <2>2 DEF ProcessFolder, Visits
  <2>. QED
    BY <1>2, <2>1, <2>2 DEF ProcessFolder
<1>3. ASSUME NEW path, ProcessStray(path)
      PROVE  ShapeInv' /\ trees'["raw"] = trees["raw"]
  BY <1>3 DEF ProcessStray, Abort
<1>4. ASSUME NEW path, ProcessFile(path)
      PROVE  ShapeInv' /\ trees'["raw"] = trees["raw"]
  <2>1. PICK f : trees' = [trees EXCEPT ![tool].files = f]
    BY <1>4 DEF ProcessFile
  <2>. QED
    BY <1>0, <1>4, <2>1 DEF ProcessFile, Visits
<1>5. CASE LeaveFolder
  BY <1>5 DEF LeaveFolder
<1>6. CASE NextTool
  BY <1>6 DEF NextTool, After, Tools
<1>. QED
  BY <1>1, <1>2, <1>3, <1>4, <1>5, <1>6 DEF Next

\* What the running tool reads is done.
LEMMA SourceDone ==
    ASSUME ShapeInv, tool \in Tools, ToolsInv
    PROVE  /\ Reads(tool) # tool /\ Reads(tool) \in Tools \cup {"raw"}
           /\ FolderTree(Source(tool)) /\ DOMAIN Source(tool).files = RawFiles
<1>1. CASE tool = "clean"
  BY <1>1 DEF Reads, Source, ToolsInv, RawFiles
<1>2. CASE tool = "count"
  <2>1. Done("clean")
    BY <1>2 DEF ToolsInv, Finished, Tools
  <2>. QED
    BY <1>2, <2>1 DEF Reads, Source, Done, Tools
<1>3. CASE tool = "sort"
  <2>1. Done("count")
    BY <1>3 DEF ToolsInv, Finished, Tools
  <2>. QED
    BY <1>3, <2>1 DEF Reads, Source, Done, Tools
<1>. QED
  BY <1>1, <1>2, <1>3 DEF Tools

LEMMA InitMirror == Init => MirrorInv
<1>. SUFFICES ASSUME Init, Flat(trees["raw"]) PROVE ToolsInv /\ WalkInv
  BY InitShape DEF MirrorInv, Init
<1>0. PICK raw \in RawTrees :
        /\ \E existing \in {{}, {path \in raw.dirs : Len(path) = 1}} :
            trees = [t \in Tools \cup {"raw"} |->
                        IF t = "raw" THEN raw
                        ELSE [dirs |-> IF t = "clean" THEN existing ELSE {}, files |-> NoFiles]]
        /\ pending = <<Children(raw, Root)>>
  BY DEF Init
<1>1. PICK existing \in {{}, {path \in raw.dirs : Len(path) = 1}} :
        trees = [t \in Tools \cup {"raw"} |->
                    IF t = "raw" THEN raw
                    ELSE [dirs |-> IF t = "clean" THEN existing ELSE {}, files |-> NoFiles]]
  BY <1>0
<1>2. /\ tool = "clean" /\ trees["raw"] = raw
      /\ trees["clean"].dirs = existing /\ DOMAIN trees["clean"].files = {}
      /\ trees["count"].dirs = {} /\ DOMAIN trees["count"].files = {}
      /\ trees["sort"].dirs = {} /\ DOMAIN trees["sort"].files = {}
  BY <1>1 DEF Init, NoFiles, Tools
<1>3. FolderTree(raw)
  BY <1>2, TreesAssumption, FlatIsFolderTree
<1>4. existing \subseteq raw.dirs /\ raw.dirs \subseteq Folders
  BY <1>1, <1>3 DEF FolderTree
<1>5. ToolsInv
  BY <1>2, <1>3 DEF ToolsInv, Finished, Tools
<1>6. FolderTree(trees[tool])
  BY <1>2, <1>4 DEF FolderTree
<1>7. AtTop(raw.dirs)
  <2>1. Source(tool) = raw /\ pending = <<raw.dirs>>
    BY <1>0, <1>2, <1>3, ChildrenAre DEF Source, Reads
  <2>2. Written(raw.dirs, {})
    BY <1>2, <1>3, ChildrenAre DEF Written, RawFiles
  <2>. QED
    BY <2>1, <2>2 DEF AtTop
<1>. QED
  BY <1>4, <1>5, <1>6, <1>7 DEF WalkInv

\* A step of the running tool leaves what it reads and what was written before.
LEMMA OthersStay ==
    ASSUME ShapeInv, tool \in Tools, ToolsInv, tool' = tool,
           \A t \in (Tools \cup {"raw"}) \ {tool} : trees'[t] = trees[t]
    PROVE  /\ ToolsInv' /\ RawFiles' = RawFiles
           /\ Source(tool)' = Source(tool)
<1>1. tool # "raw" /\ trees'["raw"] = trees["raw"]
  BY DEF Tools
<1>2. RawFiles' = RawFiles
  BY <1>1 DEF RawFiles
<1>3. Source(tool)' = Source(tool)
  BY SourceDone DEF Source
<1>4. \A t \in Tools : Finished(t) => t # tool
  BY DEF Finished, Tools
<1>5. \A t \in Tools : Finished(t)' => Done(t)'
  <2>1. ASSUME NEW t \in Tools, Finished(t) PROVE Done(t)'
    <3>1. Done(t) /\ trees'[t] = trees[t]
      BY <1>4, <2>1 DEF ToolsInv
    <3>. QED
      BY <1>2, <3>1 DEF Done
  <2>. QED
    BY <2>1 DEF Finished
<1>6. /\ tool = "clean" => trees'["count"] = trees["count"]
      /\ tool \in {"clean", "count"} => trees'["sort"] = trees["sort"]
  BY DEF Tools
<1>. QED
  BY <1>1, <1>2, <1>3, <1>5, <1>6 DEF ToolsInv

LEMMA FolderStep ==
    ASSUME ShapeInv, tool \in Tools, ToolsInv, WalkInv, NEW path, ProcessFolder(path)
    PROVE  tool' = tool /\ ToolsInv' /\ WalkInv'
<1>. DEFINE src == Source(tool)
<1>1. FolderTree(src) /\ DOMAIN src.files = RawFiles
  BY SourceDone
<1>2. pending # <<>> /\ path \in Head(pending) /\ path \in src.dirs
  BY DEF ProcessFolder, Visits
<1>3. path \in Folders /\ path \notin DOMAIN src.files
  BY <1>1, <1>2, ChildrenAre DEF FolderTree
<1>4. ~AtEnd /\ \A here, top : ~InFolder(here, top)
  <2>1. ~AtEnd
    BY <1>2 DEF AtEnd
  <2>2. ASSUME NEW here, NEW top, InFolder(here, top) PROVE FALSE
    BY <1>1, <1>2, <1>3, <2>2, PushOne DEF InFolder
  <2>. QED
    BY <2>1, <2>2
<1>5. PICK top \in SUBSET Folders : AtTop(top)
  BY <1>4 DEF WalkInv
<1>6. PICK n \in FolderNames : path = <<n>>
  BY <1>3 DEF Folders
<1>7. <<Last(path)>> = path /\ Last(path) \in FolderNames
  BY <1>6, FolderPath
<1>8. /\ currentDatasetFolder' = path
      /\ trees' = [trees EXCEPT ![tool].dirs = @ \cup {path}]
      /\ pending' = <<Children(src, path)>> \o PendingWithout(path)
      /\ tool' = tool
  BY <1>7 DEF ProcessFolder, FolderOf
<1>9. /\ trees'[tool].dirs = trees[tool].dirs \cup {path}
      /\ trees'[tool].files = trees[tool].files
      /\ \A t \in (Tools \cup {"raw"}) \ {tool} : trees'[t] = trees[t]
  BY <1>8 DEF ShapeInv
<1>10. ToolsInv' /\ RawFiles' = RawFiles /\ Source(tool)' = src
  BY <1>8, <1>9, OthersStay
<1>11. FolderTree(trees[tool])'
  BY <1>3, <1>8, <1>9 DEF WalkInv, FolderTree
<1>a. PICK here : here = {p \in RawFiles : Front(p) = path}
  OBVIOUS
<1>b. PICK rest : rest = top \ {path}
  OBVIOUS
<1>12. Children(src, path) = here /\ \A p \in RawFiles : Front(p) \in src.dirs
  BY <1>1, <1>3, <1>a, ChildrenAre
<1>13. pending = <<top>> /\ path \in top /\ top \subseteq src.dirs /\ Written(top, {})
  BY <1>2, <1>5, PushOne DEF AtTop
<1>14. PendingWithout(path) = <<rest>>
  BY <1>13, <1>b, PushOne DEF PendingWithout
<1>15. pending' = <<here, rest>>
  BY <1>8, <1>12, <1>14, PushOne
<1>16. Written(rest, here)'
  <2>1. DOMAIN trees'[tool].files = {p \in RawFiles : Front(p) \notin top}
    BY <1>9, <1>13 DEF Written
  <2>2. {p \in RawFiles : Front(p) \notin top} =
          {p \in RawFiles : Front(p) \notin rest /\ p \notin here}
    BY <1>13, <1>a, <1>b
  <2>. QED
    BY <1>8, <1>10, <2>1, <2>2 DEF Written
<1>17. InFolder(here, rest)'
  BY <1>8, <1>9, <1>10, <1>13, <1>15, <1>16, <1>a, <1>b DEF InFolder
<1>18. rest \in SUBSET Folders /\ here \in SUBSET RawFiles
  BY <1>a, <1>b
<1>. QED
  BY <1>8, <1>10, <1>11, <1>17, <1>18 DEF WalkInv

LEMMA FileStep ==
    ASSUME ShapeInv, tool \in Tools, ToolsInv, WalkInv, NEW path,
           ProcessStray(path) \/ ProcessFile(path)
    PROVE  tool' = tool /\ ToolsInv' /\ WalkInv'
<1>. DEFINE src == Source(tool)
<1>1. FolderTree(src) /\ DOMAIN src.files = RawFiles
  BY SourceDone
<1>2. pending # <<>> /\ path \in Head(pending) /\ path \in RawFiles
  BY <1>1 DEF ProcessStray, ProcessFile, Visits
<1>3. path \notin src.dirs
  BY <1>1, <1>2, ChildrenAre
<1>4. ~AtEnd /\ \A top : ~AtTop(top)
  <2>1. ASSUME NEW top, AtTop(top) PROVE FALSE
    BY <1>2, <1>3, <2>1, PushOne DEF AtTop
  <2>. QED
    BY <1>2, <2>1 DEF AtEnd
<1>5. PICK top \in SUBSET Folders, here \in SUBSET RawFiles : InFolder(here, top)
  BY <1>4 DEF WalkInv
<1>6. PICK n \in FolderNames, m \in Name : path = <<n, m>>
  BY <1>1, <1>2 DEF FolderTree
<1>7. /\ pending = <<here, top>> /\ path \in here /\ top \subseteq src.dirs
      /\ currentDatasetFolder \in trees[tool].dirs \ top
      /\ here \subseteq {p \in RawFiles : Front(p) = currentDatasetFolder}
      /\ Written(top, here)
  BY <1>2, <1>5, PushOne DEF InFolder
<1>8. currentDatasetFolder = <<n>>
  BY <1>6, <1>7, FilePath
<1>9. ProcessFile(path)
  BY <1>8, FolderPath DEF ProcessStray
<1>10. Append(currentDatasetFolder, Last(path)) = path
  BY <1>6, <1>8, FilePath
<1>11. PICK f : trees' = [trees EXCEPT ![tool].files = f]
                /\ DOMAIN f = DOMAIN trees[tool].files \cup {path}
  <2>. DEFINE g == [p \in DOMAIN trees[tool].files \cup {path} |->
                      IF p = path THEN Output(tool, Source(tool).files[path])
                      ELSE trees[tool].files[p]]
  <2>1. trees' = [trees EXCEPT ![tool].files = g]
    BY <1>9, <1>10, Zenon DEF ProcessFile
  <2>2. DOMAIN g = DOMAIN trees[tool].files \cup {path}
    OBVIOUS
  <2>. HIDE DEF g
  <2>. QED
    BY <2>1, <2>2
<1>12. /\ pending' = PendingWithout(path) /\ UNCHANGED <<tool, currentDatasetFolder>>
  BY <1>9 DEF ProcessFile
<1>13. /\ trees'[tool].dirs = trees[tool].dirs
       /\ DOMAIN trees'[tool].files = DOMAIN trees[tool].files \cup {path}
       /\ \A t \in (Tools \cup {"raw"}) \ {tool} : trees'[t] = trees[t]
  BY <1>11 DEF ShapeInv
<1>14. ToolsInv' /\ RawFiles' = RawFiles /\ Source(tool)' = src
  BY <1>12, <1>13, OthersStay
<1>15. FolderTree(trees[tool])'
  <2>1. path = <<n, m>> /\ <<n>> \in trees[tool].dirs
    BY <1>6, <1>7, <1>8
  <2>. QED
    BY <1>12, <1>13, <2>1 DEF WalkInv, FolderTree
<1>b. PICK rest : rest = here \ {path}
  OBVIOUS
<1>16. pending' = <<rest, top>>
  BY <1>7, <1>12, <1>b, PushOne DEF PendingWithout
<1>17. Written(top, rest)'
  <2>1. DOMAIN trees[tool].files = {p \in RawFiles : Front(p) \notin top /\ p \notin here}
    BY <1>7 DEF Written
  <2>2. Front(path) \notin top
    BY <1>7
  <2>3. DOMAIN trees[tool].files \cup {path} =
          {p \in RawFiles : Front(p) \notin top /\ p \notin rest}
    BY <1>2, <1>b, <2>1, <2>2
  <2>. QED
    BY <1>12, <1>13, <1>14, <2>3 DEF Written
<1>18. InFolder(rest, top)'
  BY <1>7, <1>12, <1>13, <1>14, <1>16, <1>17, <1>b DEF InFolder
<1>19. rest \in SUBSET RawFiles
  BY <1>b
<1>. QED
  BY <1>12, <1>14, <1>15, <1>18, <1>19 DEF WalkInv

LEMMA LeaveStep ==
    ASSUME ShapeInv, tool \in Tools, ToolsInv, WalkInv, LeaveFolder
    PROVE  tool' = tool /\ ToolsInv' /\ WalkInv'
<1>1. /\ UNCHANGED <<tool, trees, currentDatasetFolder>> /\ pending' = Tail(pending)
      /\ pending # <<>> /\ Head(pending) = {}
  BY DEF LeaveFolder
<1>2. ToolsInv' /\ RawFiles' = RawFiles /\ Source(tool)' = Source(tool)
  BY <1>1, OthersStay
<1>3. FolderTree(trees[tool])'
  BY <1>1 DEF WalkInv, FolderTree
<1>4. CASE \E top \in SUBSET Folders : AtTop(top)
  <2>1. PICK top \in SUBSET Folders : AtTop(top)
    BY <1>4
  <2>2. top = {} /\ pending' = <<>>
    BY <1>1, <2>1, PushOne DEF AtTop
  <2>3. AtEnd'
    BY <1>1, <1>2, <2>1, <2>2 DEF AtTop, AtEnd, Written
  <2>. QED
    BY <1>1, <1>2, <1>3, <2>3 DEF WalkInv
<1>5. CASE \E top \in SUBSET Folders, here \in SUBSET RawFiles : InFolder(here, top)
  <2>1. PICK top \in SUBSET Folders, here \in SUBSET RawFiles : InFolder(here, top)
    BY <1>5
  <2>2. here = {} /\ pending' = <<top>>
    BY <1>1, <2>1, PushOne DEF InFolder
  <2>3. AtTop(top)'
    BY <1>1, <1>2, <2>1, <2>2 DEF InFolder, AtTop, Written
  <2>. QED
    BY <1>1, <1>2, <1>3, <2>3 DEF WalkInv
<1>. QED
  BY <1>1, <1>4, <1>5 DEF WalkInv, AtEnd

LEMMA NextToolStep ==
    ASSUME ShapeInv, tool \in Tools, ToolsInv, WalkInv, NextTool
    PROVE  tool' # "aborted" /\ ToolsInv' /\ (tool' \in Tools => WalkInv')
<1>1. /\ pending = <<>> /\ tool' = After(tool) /\ UNCHANGED trees
      /\ tool' # "done" => pending' = <<Children(trees[tool], Root)>>
  BY DEF NextTool
<1>2. AtEnd
  BY <1>1, PushOne DEF WalkInv, AtTop, InFolder
<1>3. Done(tool)
  BY <1>2 DEF WalkInv, AtEnd, Written, Done
<1>4. /\ tool = "clean" => tool' = "count"
      /\ tool = "count" => tool' = "sort"
      /\ tool = "sort" => tool' = "done"
  BY <1>1 DEF After
<1>5. RawFiles' = RawFiles /\ \A t : Done(t) => Done(t)'
  BY <1>1 DEF RawFiles, Done
<1>6. \A t \in Tools : Finished(t)' => Finished(t) \/ t = tool
  <2>1. /\ Finished("clean") <=> tool \in {"count", "sort", "done"}
        /\ Finished("count") <=> tool \in {"sort", "done"}
        /\ Finished("sort") <=> tool = "done"
    BY DEF Finished
  <2>2. /\ Finished("clean")' <=> tool' \in {"count", "sort", "done"}
        /\ Finished("count")' <=> tool' \in {"sort", "done"}
        /\ Finished("sort")' <=> tool' = "done"
    BY DEF Finished
  <2>3. tool \in {"clean", "count", "sort"}
    BY DEF Tools
  <2>4. ASSUME Finished("clean")' PROVE Finished("clean") \/ tool = "clean"
    BY <1>4, <2>1, <2>3
  <2>5. ASSUME Finished("count")' PROVE Finished("count") \/ tool = "count"
    BY <1>4, <2>1, <2>2, <2>3, <2>5
  <2>6. ASSUME Finished("sort")' PROVE Finished("sort") \/ tool = "sort"
    BY <1>4, <2>1, <2>2, <2>3, <2>6
  <2>. QED
    BY <2>4, <2>5, <2>6 DEF Tools
<1>7. ToolsInv'
  <2>1. \A t \in Tools : Finished(t)' => Done(t)'
    BY <1>3, <1>5, <1>6 DEF ToolsInv
  <2>. QED
    BY <1>1, <1>4, <2>1 DEF ToolsInv, Tools
<1>8. ASSUME tool' \in Tools PROVE WalkInv'
  <2>1. Source(tool)' = trees[tool]
    BY <1>1, <1>4, <1>8 DEF Source, Reads, Tools
  <2>2. trees[tool'].dirs = {} /\ DOMAIN trees[tool'].files = {}
    BY <1>4, <1>8 DEF ToolsInv, Tools
  <2>3. FolderTree(trees[tool])'
    BY <1>1, <2>2 DEF FolderTree
  <2>4. PICK top : top = trees[tool].dirs
    OBVIOUS
  <2>5. top \in SUBSET Folders /\ Children(trees[tool], Root) = top
    BY <1>3, <2>4, ChildrenAre DEF Done, FolderTree
  <2>6. \A p \in RawFiles : Front(p) \in top
    BY <1>3, <2>4, ChildrenAre DEF Done
  <2>7. Written(top, {})'
    BY <1>1, <1>5, <2>2, <2>6 DEF Written
  <2>8. AtTop(top)'
    BY <1>1, <1>8, <2>1, <2>4, <2>5, <2>7 DEF AtTop, Tools
  <2>. QED
    BY <2>3, <2>5, <2>8 DEF WalkInv
<1>. QED
  BY <1>4, <1>7, <1>8 DEF Tools

LEMMA NextMirror == MirrorInv /\ [Next]_vars => MirrorInv'
<1>. SUFFICES ASSUME MirrorInv, [Next]_vars PROVE MirrorInv'
  OBVIOUS
<1>1. ShapeInv /\ ShapeInv' /\ trees'["raw"] = trees["raw"]
  BY NextShape DEF MirrorInv
<1>. SUFFICES ASSUME Flat(trees'["raw"])
              PROVE  tool' # "aborted" /\ ToolsInv' /\ (tool' \in Tools => WalkInv')
  BY <1>1 DEF MirrorInv
<1>2. tool # "aborted" /\ ToolsInv /\ (tool \in Tools => WalkInv)
  BY <1>1 DEF MirrorInv
<1>3. CASE UNCHANGED vars
  BY <1>2, <1>3 DEF vars, ToolsInv, WalkInv, AtEnd, AtTop, InFolder, Written, Finished, Done,
     RawFiles, Source
<1>4. CASE Next
  <2>1. tool \in Tools /\ WalkInv
    BY <1>2, <1>4 DEF Next, ProcessFolder, ProcessStray, ProcessFile, Visits, LeaveFolder, NextTool
  <2>2. ASSUME NEW path, ProcessFolder(path)
        PROVE  tool' # "aborted" /\ ToolsInv' /\ WalkInv'
    BY <1>1, <1>2, <2>1, <2>2, FolderStep
  <2>3. ASSUME NEW path, ProcessStray(path) \/ ProcessFile(path)
        PROVE  tool' # "aborted" /\ ToolsInv' /\ WalkInv'
    BY <1>1, <1>2, <2>1, <2>3, FileStep
  <2>4. CASE LeaveFolder
    BY <1>1, <1>2, <2>1, <2>4, LeaveStep
  <2>5. CASE NextTool
    BY <1>1, <1>2, <2>1, <2>5, NextToolStep
  <2>. QED
    BY <1>4, <2>2, <2>3, <2>4, <2>5 DEF Next
<1>. QED
  BY <1>3, <1>4

----------------------------------------------------------------------------
(* What the tools make of a text                                           *)

\* Letters, digits and single delimiters.
Kept == Alnum \cup Delimiter

Normal(text) ==
    /\ \A i \in 1..Len(text) : text[i] \in Kept
    /\ \A i \in 2..Len(text) : ~(text[i - 1] \in Delimiter /\ text[i] \in Delimiter)

\* The positions of the characters that stay.
Stays(text) == {i \in DOMAIN text : ~IsUnwantedChar(text, i)}

LEMMA PassIs ==
    ASSUME NEW text \in Seq(Char)
    PROVE  \E order \in Seq(Stays(text)) :
              /\ InOrderOf(order, Stays(text))
              /\ RemoveUnwanted(text) \in Seq(Char)
              /\ Len(RemoveUnwanted(text)) = Len(order)
              /\ \A k \in 1..Len(order) :
                    RemoveUnwanted(text)[k] = text[order[k]] /\ order[k] \in Stays(text)
<1>1. PICK P : P = Stays(text)
  OBVIOUS
<1>2. P \in SUBSET (DOMAIN text)
  BY <1>1 DEF Stays
<1>3. RemoveUnwanted(text) = ItemsAt(text, P)
  BY <1>1 DEF RemoveUnwanted, Stays
<1>. QED
  BY <1>1, <1>2, <1>3, ItemsAtIs

LEMMA OnePass ==
    ASSUME NEW text \in Seq(Char)
    PROVE  /\ RemoveUnwanted(text) \in Seq(Char)
           /\ \A k \in 1..Len(RemoveUnwanted(text)) : RemoveUnwanted(text)[k] \in Kept
<1>1. PICK order \in Seq(Stays(text)) :
         /\ RemoveUnwanted(text) \in Seq(Char)
         /\ Len(RemoveUnwanted(text)) = Len(order)
         /\ \A k \in 1..Len(order) :
               RemoveUnwanted(text)[k] = text[order[k]] /\ order[k] \in Stays(text)
  BY PassIs
<1>2. \A i \in Stays(text) : text[i] \in Kept
  BY DEF Stays, IsUnwantedChar, Kept
<1>. QED
  BY <1>1, <1>2

\* Behind a delimiter that stays stands a letter or digit, which stays too.
LEMMA SecondPass ==
    ASSUME NEW text \in Seq(Char), \A i \in 1..Len(text) : text[i] \in Kept
    PROVE  Normal(RemoveUnwanted(text))
<1>1. PICK order \in Seq(Stays(text)) :
         /\ InOrderOf(order, Stays(text))
         /\ RemoveUnwanted(text) \in Seq(Char)
         /\ Len(RemoveUnwanted(text)) = Len(order)
         /\ \A k \in 1..Len(order) :
               RemoveUnwanted(text)[k] = text[order[k]] /\ order[k] \in Stays(text)
  BY PassIs
<1>2. PICK r : r = RemoveUnwanted(text)
  OBVIOUS
<1>3. \A k \in 1..Len(r) : r[k] \in Kept
  BY <1>2, OnePass
<1>4. /\ Len(order) \in Nat /\ DOMAIN order = 1..Len(order)
      /\ \A j, k \in DOMAIN order : j < k => order[j] < order[k]
      /\ Stays(text) \in SUBSET Nat
      /\ DOMAIN text = 1..Len(text) /\ Len(text) \in Nat
  <2>1. Len(order) \in Nat /\ DOMAIN order = 1..Len(order)
    OBVIOUS
  <2>2. DOMAIN text = 1..Len(text) /\ Len(text) \in Nat
    OBVIOUS
  <2>3. Stays(text) \in SUBSET Nat
    BY <2>2 DEF Stays
  <2>. QED
    BY <1>1, <2>1, <2>2, <2>3 DEF InOrderOf
<1>5. ASSUME NEW k \in 2..Len(r), r[k - 1] \in Delimiter PROVE r[k] \notin Delimiter
  <2>1. k \in 1..Len(order) /\ k - 1 \in 1..Len(order) /\ k - 1 < k /\ k \in 2..Len(order)
    BY <1>1, <1>2, <1>4, <1>5
  <2>2. PICK p : p = order[k - 1]
    OBVIOUS
  <2>3. PICK q : q = order[k]
    OBVIOUS
  <2>4. /\ p \in Stays(text) /\ q \in Stays(text) /\ r[k - 1] = text[p] /\ r[k] = text[q]
        /\ p < q
    BY <1>1, <1>2, <1>4, <2>1, <2>2, <2>3
  <2>5. p \in 1..Len(text) /\ q \in 1..Len(text) /\ p + 1 \in 1..Len(text) /\ p < Len(text)
    <3>1. p \in 1..Len(text) /\ q \in 1..Len(text)
      BY <1>4, <2>4 DEF Stays
    <3>. QED
      BY <1>4, <2>4, <3>1
  <2>6. text[p + 1] \in Alnum
    <3>1. ~IsUnwantedChar(text, p) /\ text[p] \in Delimiter
      BY <1>5, <2>4 DEF Stays
    <3>2. text[p + 1] \notin Blank
      BY <2>5, <3>1 DEF IsUnwantedChar
    <3>. QED
      BY <2>5, <3>2 DEF Kept, Blank
  <2>7. p + 1 \in Stays(text)
    <3>1. text[p + 1] \notin Delimiter
      BY <2>6, CharAssumption
    <3>. QED
      BY <1>4, <2>5, <2>6, <3>1 DEF Stays, IsUnwantedChar
  <2>8. ~(p + 1 < q)
    <3>1. p < p + 1
      BY <2>5
    <3>2. ASSUME p + 1 < q PROVE FALSE
      BY <1>1, <1>4, <2>1, <2>2, <2>3, <2>7, <3>1, <3>2, NeighboursInOrder
    <3>. QED
      BY <3>2
  <2>9. q = p + 1
    BY <2>4, <2>5, <2>8
  <2>. QED
    BY <2>4, <2>6, <2>9, CharAssumption
<1>. QED
  BY <1>2, <1>3, <1>5 DEF Normal

LEMMA CleanFileIs ==
    ASSUME NEW text \in Seq(Char)
    PROVE  CleanFile(text) \in Seq(Char) /\ Normal(CleanFile(text))
  BY OnePass, SecondPass DEF CleanFile

----------------------------------------------------------------------------
(* Counts                                                                  *)

\* The positions at which a word occurs first.
Firsts(words) == {k \in DOMAIN words : \A j \in 1..(k - 1) : words[j] # words[k]}

LEMMA OccurrencesType ==
    ASSUME NEW T, NEW words \in Seq(T), NEW w
    PROVE  Occurrences(words, w) \in Nat
<1>1. {k \in DOMAIN words : words[k] = w} \in SUBSET (DOMAIN words)
  OBVIOUS
<1>2. IsFiniteSet({k \in DOMAIN words : words[k] = w})
  BY <1>1, PositionsAreFinite
<1>. QED
  BY <1>2, FS_CardinalityType DEF Occurrences

\* Splitting a cleaned text at the blanks and at everything but letters and
\* digits gives the same words.
LEMMA CleanWords ==
    ASSUME NEW text \in Seq(Char), Normal(text)
    PROVE  WordsOf(text, Char \ Blank) = WordsOf(text, Alnum)
<1>1. ASSUME NEW i \in 1..Len(text)
      PROVE  text[i] \in Char \ Blank <=> text[i] \in Alnum
  <2>1. text[i] \in Kept
    BY DEF Normal
  <2>. QED
    BY <2>1, CharAssumption DEF Kept, Blank, Char
<1>. QED
  BY <1>1, WordsSame

\* What count_words makes of the words of a text.
Counted(words) ==
    LET once == ItemsAt(words, Firsts(words))
    IN  [k \in DOMAIN once |-> <<once[k], Occurrences(words, once[k])>>]

LEMMA CountedWords ==
    ASSUME NEW text \in Seq(Char), Normal(text)
    PROVE  /\ WordsOf(text, Alnum) \in Seq(Seq(Char))
           /\ CountWordsInFile(text) = Counted(WordsOf(text, Alnum))
<1>1. CountWordsInFile(text) = Counted(WordsOf(text, Char \ Blank))
  BY Zenon DEF CountWordsInFile, Counted, Firsts
<1>. QED
  BY <1>1, CleanWords, WordsOfType

\* There is a pair for each first occurrence, in order.
PairsFor(words, order, pairs) ==
    /\ InOrderOf(order, Firsts(words)) /\ Len(pairs) = Len(order)
    /\ \A k \in 1..Len(order) :
          pairs[k] = <<words[order[k]], Occurrences(words, words[order[k]])>>

LEMMA CountIs ==
    ASSUME NEW T, NEW words \in Seq(T), NEW pairs, pairs = Counted(words)
    PROVE  pairs \in Seq(T \X Nat) /\ \E order : PairsFor(words, order, pairs)
<1>1. PICK F : F = Firsts(words)
  OBVIOUS
<1>2. F \in SUBSET (DOMAIN words)
  BY <1>1 DEF Firsts
<1>3. PICK once : once = ItemsAt(words, F)
  OBVIOUS
<1>4. PICK order \in Seq(F) :
         /\ InOrderOf(order, F)
         /\ once \in Seq(T) /\ Len(once) = Len(order)
         /\ \A k \in 1..Len(order) : once[k] = words[order[k]] /\ order[k] \in F
  BY <1>2, <1>3, ItemsAtIs
<1>5. PICK n : n = Len(order)
  OBVIOUS
<1>6. n \in Nat /\ DOMAIN once = 1..n /\ \A k \in 1..n : once[k] \in T
  BY <1>4, <1>5
<1>7. pairs = [k \in 1..n |-> <<once[k], Occurrences(words, once[k])>>]
  BY <1>1, <1>3, <1>6, Zenon DEF Counted
<1>8. \A w : Occurrences(words, w) \in Nat
  BY OccurrencesType
<1>9. pairs \in Seq(T \X Nat) /\ Len(pairs) = n
  <2>1. PICK U : U = T \X Nat
    OBVIOUS
  <2>2. \A k \in 1..n : <<once[k], Occurrences(words, once[k])>> \in U
    BY <1>6, <1>8, <2>1
  <2>3. pairs \in [1..n -> U]
    BY <1>7, <2>2
  <2>4. pairs \in Seq(U) /\ Len(pairs) = n
    BY <1>6, <2>3
  <2>. QED
    BY <2>1, <2>4
<1>10. \A k \in 1..n : pairs[k] = <<words[order[k]], Occurrences(words, words[order[k]])>>
  BY <1>4, <1>5, <1>7
<1>11. PairsFor(words, order, pairs)
  BY <1>1, <1>4, <1>5, <1>9, <1>10 DEF PairsFor
<1>. QED
  BY <1>9, <1>11

\* Every word has a first occurrence, and only one.
LEMMA FirstOccurrence ==
    ASSUME NEW T, NEW words \in Seq(T)
    PROVE  /\ \A w \in ToSet(words) : \E i \in Firsts(words) : words[i] = w
           /\ \A i \in Firsts(words) : words[i] \in ToSet(words)
           /\ \A i, j \in Firsts(words) : words[i] = words[j] => i = j
<1>0. DOMAIN words = 1..Len(words) /\ Len(words) \in Nat
  OBVIOUS
<1>1. ASSUME NEW w \in ToSet(words) PROVE \E i \in Firsts(words) : words[i] = w
  <2>1. PICK P : P = {i \in DOMAIN words : words[i] = w}
    OBVIOUS
  <2>2. P \in SUBSET Nat /\ P # {}
    BY <1>0, <2>1 DEF ToSet
  <2>3. PICK i : i = Min(P)
    OBVIOUS
  <2>4. i \in P /\ \A j \in P : i <= j
    BY <2>2, <2>3, LeastOf
  <2>5. ASSUME NEW j \in 1..(i - 1), words[j] = w PROVE FALSE
    <3>1. i \in 1..Len(words)
      BY <1>0, <2>1, <2>4
    <3>2. j \in 1..Len(words) /\ ~(i <= j)
      BY <1>0, <3>1
    <3>. QED
      BY <1>0, <2>1, <2>4, <2>5, <3>2
  <2>6. i \in DOMAIN words /\ words[i] = w
    BY <2>1, <2>4
  <2>. QED
    BY <2>5, <2>6 DEF Firsts
<1>2. \A i \in Firsts(words) : words[i] \in ToSet(words)
  BY DEF Firsts, ToSet
<1>3. ASSUME NEW i \in Firsts(words), NEW j \in Firsts(words), words[i] = words[j] PROVE i = j
  <2>1. i \in 1..Len(words) /\ j \in 1..Len(words)
    BY <1>0 DEF Firsts
  <2>2. ~(i < j)
    <3>1. i < j => i \in 1..(j - 1)
      BY <2>1
    <3>. QED
      BY <1>3, <3>1 DEF Firsts
  <2>3. ~(j < i)
    <3>1. j < i => j \in 1..(i - 1)
      BY <2>1
    <3>. QED
      BY <1>3, <3>1 DEF Firsts
  <2>. QED
    BY <2>1, <2>2, <2>3
<1>. QED
  BY <1>1, <1>2, <1>3

LEMMA CountsAre ==
    ASSUME NEW T, NEW words \in Seq(T), NEW pairs, pairs = Counted(words)
    PROVE  /\ ToSet(pairs) = {<<w, Occurrences(words, w)>> : w \in ToSet(words)}
           /\ Len(pairs) = Cardinality(ToSet(words))
<1>0. pairs \in Seq(T \X Nat) /\ \E order : PairsFor(words, order, pairs)
  BY CountIs
<1>1. pairs \in Seq(T \X Nat) /\ DOMAIN words = 1..Len(words)
  BY <1>0
<1>2. PICK F : F = Firsts(words)
  OBVIOUS
<1>3. PICK order :
         /\ order \in Seq(F) /\ InOrderOf(order, F) /\ Len(pairs) = Len(order)
         /\ \A k \in 1..Len(order) :
               pairs[k] = <<words[order[k]], Occurrences(words, words[order[k]])>>
  BY <1>0, <1>2 DEF PairsFor, InOrderOf
<1>4. /\ DOMAIN order = 1..Len(order) /\ Len(order) \in Nat
      /\ DOMAIN pairs = 1..Len(order)
      /\ \A k \in 1..Len(order) : order[k] \in F
      /\ \A i \in F : \E k \in 1..Len(order) : order[k] = i
  <2>1. DOMAIN order = 1..Len(order) /\ Len(order) \in Nat /\ \A k \in 1..Len(order) : order[k] \in F
    BY <1>3
  <2>2. DOMAIN pairs = 1..Len(order)
    BY <1>1, <1>3
  <2>. QED
    BY <1>3, <2>1, <2>2 DEF InOrderOf
<1>5. /\ \A w \in ToSet(words) : \E i \in F : words[i] = w
      /\ \A i \in F : words[i] \in ToSet(words)
      /\ \A i, j \in F : words[i] = words[j] => i = j
      /\ \A i \in F : i \in Nat
  <2>1. \A i \in F : i \in Nat
    BY <1>1, <1>2 DEF Firsts
  <2>. QED
    BY <1>2, <2>1, FirstOccurrence
<1>6. ToSet(pairs) = {<<w, Occurrences(words, w)>> : w \in ToSet(words)}
  <2>1. ASSUME NEW k \in 1..Len(order)
        PROVE  pairs[k] \in {<<w, Occurrences(words, w)>> : w \in ToSet(words)}
    <3>1. PICK w \in ToSet(words) : w = words[order[k]]
      BY <1>4, <1>5
    <3>2. pairs[k] = <<w, Occurrences(words, w)>>
      BY <1>3, <3>1
    <3>. QED
      BY <3>2
  <2>2. ASSUME NEW w \in ToSet(words)
        PROVE  \E k \in 1..Len(order) : pairs[k] = <<w, Occurrences(words, w)>>
    <3>1. PICK i \in F : words[i] = w
      BY <1>5
    <3>2. PICK k \in 1..Len(order) : order[k] = i
      BY <1>4
    <3>. QED
      BY <1>3, <3>1, <3>2
  <2>3. ToSet(pairs) = {pairs[k] : k \in 1..Len(order)}
    BY <1>4 DEF ToSet
  <2>. QED
    BY <2>1, <2>2, <2>3
<1>7. Cardinality(ToSet(words)) = Len(order)
  <2>. DEFINE f == [k \in 1..Len(order) |-> words[order[k]]]
  <2>1. f \in [1..Len(order) -> ToSet(words)]
    BY <1>4, <1>5
  <2>2. \A j, k \in 1..Len(order) : j # k => f[j] # f[k]
    <3>1. ASSUME NEW j \in 1..Len(order), NEW k \in 1..Len(order), j < k
          PROVE  words[order[j]] # words[order[k]]
      <4>1. order[j] < order[k] /\ order[j] \in F /\ order[k] \in F
        BY <1>3, <1>4, <3>1 DEF InOrderOf
      <4>2. order[j] \in Nat /\ order[k] \in Nat
        BY <1>5, <4>1
      <4>3. order[j] # order[k]
        BY <4>1, <4>2
      <4>. QED
        BY <1>5, <4>1, <4>3
    <3>2. \A j, k \in 1..Len(order) : j # k => j < k \/ k < j
      BY <1>4
    <3>. QED
      BY <3>1, <3>2
  <2>3. \A w \in ToSet(words) : \E k \in 1..Len(order) : f[k] = w
    <3>1. ASSUME NEW w \in ToSet(words) PROVE \E k \in 1..Len(order) : words[order[k]] = w
      <4>1. PICK i \in F : words[i] = w
        BY <1>5
      <4>. QED
        BY <1>4, <4>1
    <3>. QED
      BY <3>1
  <2>4. f \in Bijection(1..Len(order), ToSet(words))
    BY <2>1, <2>2, <2>3 DEF Bijection, Injection, Surjection, IsInjective
  <2>5. IsFiniteSet(1..Len(order)) /\ Cardinality(1..Len(order)) = Len(order)
    <3>1. PICK n : n = Len(order)
      OBVIOUS
    <3>2. n \in Nat
      BY <1>4, <3>1
    <3>3. IsFiniteSet(1..n) /\ Cardinality(1..n) = n
      BY <3>2, FS_Interval
    <3>. QED
      BY <3>1, <3>3
  <2>. QED
    BY <2>4, <2>5, FS_Bijection DEF ExistsBijection
<1>. QED
  BY <1>3, <1>6, <1>7

----------------------------------------------------------------------------
(* The word of each count                                                  *)

\* What the fold over the pairs of a file computes, step by step.
MapSteps(pairs, S, g) ==
    g = [s \in SUBSET S |->
           IF s = {} THEN [n \in {} |-> <<>>]
           ELSE LET i == Max(s)
                IN  InsertWord(g[s \ {i}], pairs[i])]

LEMMA WordMapIsSteps ==
    ASSUME NEW pairs
    PROVE  FoldLeft(InsertWord, [n \in {} |-> <<>>], pairs)
              = (CHOOSE g : MapSteps(pairs, DOMAIN pairs, g))[DOMAIN pairs]
  BY Zenon DEF FoldLeft, MapThenFoldSet, MapSteps

\* The same without recursion: the counts at some positions, each with the word
\* of the first of them that has it.
CountsAt(pairs, s) == {pairs[i][2] : i \in s}
PlacesOf(pairs, s, c) == {i \in s : pairs[i][2] = c}
FirstWords(pairs, s) ==
    [c \in CountsAt(pairs, s) |-> pairs[Min(PlacesOf(pairs, s, c))][1]]

LEMMA GreatestOf ==
    ASSUME NEW n \in Nat, NEW s \in SUBSET (1..n), s # {}
    PROVE  Max(s) \in s /\ \A y \in s : y <= Max(s)
<1>1. PICK D : D = {n - x : x \in s}
  OBVIOUS
<1>2. D \in SUBSET Nat /\ D # {}
  <2>1. \A x \in s : n - x \in Nat
    OBVIOUS
  <2>. QED
    BY <1>1, <2>1
<1>3. PICK m \in D : \A y \in D : m <= y
  BY <1>2, LeastOf
<1>4. PICK x \in s : m = n - x
  BY <1>1
<1>5. \A y \in s : y <= x
  <2>1. ASSUME NEW y \in s PROVE y <= x
    <3>1. m <= n - y
      BY <1>1, <1>3
    <3>2. x \in 1..n /\ y \in 1..n
      OBVIOUS
    <3>. QED
      BY <1>4, <3>1, <3>2
  <2>. QED
    BY <2>1
<1>6. \A y \in s : x >= y
  BY <1>5
<1>. QED
  BY <1>6 DEF Max

LEMMA FirstWordsAdd ==
    ASSUME NEW n \in Nat, NEW s \in SUBSET (1..n), NEW i \in s, \A j \in s : j <= i, NEW pairs
    PROVE  FirstWords(pairs, s) = InsertWord(FirstWords(pairs, s \ {i}), pairs[i])
<1>1. PICK r : r = s \ {i}
  OBVIOUS
<1>2. /\ s = r \cup {i} /\ i \notin r /\ r \in SUBSET Nat /\ i \in Nat
      /\ \A j \in r : j < i
  BY <1>1
<1>3. CountsAt(pairs, s) = CountsAt(pairs, r) \cup {pairs[i][2]}
  BY <1>2 DEF CountsAt
<1>4. ASSUME NEW c \in CountsAt(pairs, r)
      PROVE  Min(PlacesOf(pairs, s, c)) = Min(PlacesOf(pairs, r, c))
  <2>1. PICK P : P = PlacesOf(pairs, r, c)
    OBVIOUS
  <2>2. PICK Q : Q = PlacesOf(pairs, s, c)
    OBVIOUS
  <2>3. /\ P \in SUBSET Nat /\ P # {} /\ Q \in SUBSET Nat /\ Q # {} /\ P \subseteq Q
        /\ \A q \in Q : q \in P \/ q = i
        /\ \A p \in P : p \in r
    BY <1>2, <2>1, <2>2 DEF PlacesOf, CountsAt
  <2>4. PICK p : p = Min(P)
    OBVIOUS
  <2>5. PICK q : q = Min(Q)
    OBVIOUS
  <2>6. p \in P /\ (\A y \in P : p <= y) /\ q \in Q /\ (\A y \in Q : q <= y)
    BY <2>3, <2>4, <2>5, LeastOf
  <2>7. q <= p /\ p < i /\ p \in Nat /\ q \in Nat
    BY <1>2, <2>3, <2>6
  <2>8. q \in P /\ p <= q
    BY <1>2, <2>3, <2>6, <2>7
  <2>9. p = q
    BY <2>7, <2>8
  <2>. QED
    BY <2>1, <2>2, <2>4, <2>5, <2>9
<1>5. pairs[i][2] \notin CountsAt(pairs, r) => Min(PlacesOf(pairs, s, pairs[i][2])) = i
  <2>. SUFFICES ASSUME pairs[i][2] \notin CountsAt(pairs, r)
                PROVE  Min(PlacesOf(pairs, s, pairs[i][2])) = i
    OBVIOUS
  <2>1. PICK Q : Q = PlacesOf(pairs, s, pairs[i][2])
    OBVIOUS
  <2>2. Q = {i}
    BY <1>2, <2>1 DEF PlacesOf, CountsAt
  <2>3. Min(Q) \in Q
    BY <1>2, <2>2, LeastOf
  <2>. QED
    BY <2>1, <2>2, <2>3
<1>6. PICK small : small = FirstWords(pairs, r)
  OBVIOUS
<1>7. /\ DOMAIN small = CountsAt(pairs, r)
      /\ \A c \in CountsAt(pairs, r) : small[c] = pairs[Min(PlacesOf(pairs, r, c))][1]
  BY <1>6 DEF FirstWords
<1>8. \A c \in CountsAt(pairs, s) :
         pairs[Min(PlacesOf(pairs, s, c))][1] =
            IF c \in DOMAIN small THEN small[c] ELSE pairs[i][1]
  BY <1>3, <1>4, <1>5, <1>7
<1>9. FirstWords(pairs, s) = InsertWord(small, pairs[i])
  BY <1>3, <1>7, <1>8 DEF FirstWords, InsertWord
<1>. QED
  BY <1>1, <1>6, <1>9

LEMMA FirstWordsNone ==
    ASSUME NEW pairs
    PROVE  FirstWords(pairs, {}) = [n \in {} |-> <<>>]
<1>1. CountsAt(pairs, {}) = {}
  BY DEF CountsAt
<1>. QED
  BY <1>1 DEF FirstWords

\* The fold can be computed, and can only end in one way.
LEMMA WordMapIs ==
    ASSUME NEW U, NEW pairs \in Seq(U)
    PROVE  FoldLeft(InsertWord, [n \in {} |-> <<>>], pairs) = FirstWords(pairs, DOMAIN pairs)
<1>1. PICK n \in Nat : n = Len(pairs)
  OBVIOUS
<1>2. PICK S : S = 1..n
  OBVIOUS
<1>3. DOMAIN pairs = S
  BY <1>1, <1>2
<1>4. ASSUME NEW s \in SUBSET S, s # {}
      PROVE  /\ Max(s) \in s
             /\ FirstWords(pairs, s) = InsertWord(FirstWords(pairs, s \ {Max(s)}), pairs[Max(s)])
  <2>1. PICK i : i = Max(s)
    OBVIOUS
  <2>2. i \in s /\ \A y \in s : y <= i
    BY <1>2, <1>4, <2>1, GreatestOf
  <2>3. FirstWords(pairs, s) = InsertWord(FirstWords(pairs, s \ {i}), pairs[i])
    BY <1>2, <2>2, FirstWordsAdd
  <2>. QED
    BY <2>1, <2>2, <2>3
<1>5. \E g : MapSteps(pairs, S, g)
  <2>1. PICK g : g = [s \in SUBSET S |-> FirstWords(pairs, s)]
    OBVIOUS
  <2>2. ASSUME NEW s \in SUBSET S
        PROVE  FirstWords(pairs, s) =
                 IF s = {} THEN [k \in {} |-> <<>>]
                 ELSE InsertWord(g[s \ {Max(s)}], pairs[Max(s)])
    <3>1. CASE s = {}
      BY <3>1, FirstWordsNone
    <3>2. CASE s # {}
      <4>1. s \ {Max(s)} \in SUBSET S
        OBVIOUS
      <4>2. g[s \ {Max(s)}] = FirstWords(pairs, s \ {Max(s)})
        BY <2>1, <4>1
      <4>3. FirstWords(pairs, s) = InsertWord(FirstWords(pairs, s \ {Max(s)}), pairs[Max(s)])
        BY <1>4, <3>2
      <4>. QED
        BY <3>2, <4>2, <4>3
    <3>. QED
      BY <3>1, <3>2
  <2>3. g = [s \in SUBSET S |->
               IF s = {} THEN [k \in {} |-> <<>>]
               ELSE InsertWord(g[s \ {Max(s)}], pairs[Max(s)])]
    BY <2>1, <2>2
  <2>4. MapSteps(pairs, S, g)
    BY <2>3, Zenon DEF MapSteps
  <2>. QED
    BY <2>4
<1>6. PICK g : g = CHOOSE h : MapSteps(pairs, S, h)
  OBVIOUS
<1>7. MapSteps(pairs, S, g)
  BY <1>5, <1>6
<1>8. g = [s \in SUBSET S |->
             IF s = {} THEN [k \in {} |-> <<>>]
             ELSE InsertWord(g[s \ {Max(s)}], pairs[Max(s)])]
  BY <1>7, Zenon DEF MapSteps
<1>9. \A s \in SUBSET S : g[s] = FirstWords(pairs, s)
  <2>1. PICK Bad : Bad = {s \in SUBSET S : g[s] # FirstWords(pairs, s)}
    OBVIOUS
  <2>2. PICK Sizes : Sizes = {m \in Nat : \E s \in Bad : Cardinality(s) = m}
    OBVIOUS
  <2>. SUFFICES ASSUME Bad # {} PROVE FALSE
    BY <2>1
  <2>3. \A s \in SUBSET S : IsFiniteSet(s) /\ Cardinality(s) \in Nat
    <3>1. IsFiniteSet(S)
      BY <1>2, FS_Interval
    <3>. QED
      BY <3>1, ProperSubset
  <2>4. Sizes \in SUBSET Nat /\ Sizes # {}
    BY <2>1, <2>2, <2>3
  <2>5. PICK m \in Sizes : \A y \in Sizes : m <= y
    BY <2>4, LeastOf
  <2>6. PICK s \in Bad : Cardinality(s) = m
    BY <2>2
  <2>7. s \in SUBSET S /\ g[s] # FirstWords(pairs, s)
    BY <2>1
  <2>8. s # {}
    BY <1>8, <2>7, FirstWordsNone
  <2>9. PICK i : i = Max(s)
    OBVIOUS
  <2>10. i \in s /\ FirstWords(pairs, s) = InsertWord(FirstWords(pairs, s \ {i}), pairs[i])
    BY <1>4, <2>7, <2>8, <2>9
  <2>11. g[s] = InsertWord(g[s \ {i}], pairs[i])
    BY <1>8, <2>7, <2>8, <2>9
  <2>12. s \ {i} \in Bad
    BY <2>1, <2>7, <2>10, <2>11
  <2>13. Cardinality(s \ {i}) = m - 1 /\ m \in Nat /\ m - 1 \in Nat
    <3>1. Cardinality(s \ {i}) = Cardinality(s) - 1 /\ Cardinality(s \ {i}) \in Nat
      BY <2>3, <2>7, <2>10, FS_RemoveElement
    <3>. QED
      BY <2>3, <2>6, <2>7, <3>1
  <2>14. m - 1 \in Sizes
    BY <2>2, <2>12, <2>13
  <2>. QED
    BY <2>5, <2>13, <2>14
<1>10. g[S] = FirstWords(pairs, S)
  BY <1>9
<1>. QED
  BY <1>3, <1>6, <1>10, WordMapIsSteps

\* Each count once, the largest first, with the word that came first.
FirstOfEach(pairs, sorted) ==
    /\ \A k \in DOMAIN sorted \ {1} : sorted[k - 1][2] > sorted[k][2]
    /\ \A k \in DOMAIN pairs :
          \E j \in 1..k : pairs[j] \in ToSet(sorted) /\ pairs[j][2] = pairs[k][2]
    /\ ToSet(sorted) \subseteq ToSet(pairs)

LEMMA SortedAre ==
    ASSUME NEW T, NEW pairs \in Seq(T \X Nat), NEW sorted, sorted = SortedWords(pairs)
    PROVE  FirstOfEach(pairs, sorted)
<1>1. PICK n \in Nat : n = Len(pairs) /\ DOMAIN pairs = 1..n
  OBVIOUS
<1>2. PICK wordMap : wordMap = FirstWords(pairs, 1..n)
  OBVIOUS
<1>3. PICK D : D = CountsAt(pairs, 1..n)
  OBVIOUS
<1>4. wordMap = FoldLeft(InsertWord, [k \in {} |-> <<>>], pairs) /\ DOMAIN wordMap = D
  <2>1. FoldLeft(InsertWord, [k \in {} |-> <<>>], pairs) = FirstWords(pairs, DOMAIN pairs)
    BY WordMapIs
  <2>2. DOMAIN FirstWords(pairs, 1..n) = D
    BY <1>3 DEF FirstWords
  <2>. QED
    BY <1>1, <1>2, <2>1, <2>2
<1>5. \A i \in 1..n : pairs[i] = <<pairs[i][1], pairs[i][2]>> /\ pairs[i][2] \in Nat
  <2>1. \A i \in 1..n : pairs[i] \in T \X Nat
    BY <1>1
  <2>. QED
    BY <2>1
<1>6. ASSUME NEW i \in 1..n
      PROVE  \E j \in 1..i : pairs[j] = <<wordMap[pairs[i][2]], pairs[i][2]>>
  <2>1. PICK c : c = pairs[i][2]
    OBVIOUS
  <2>2. PICK P : P = PlacesOf(pairs, 1..n, c)
    OBVIOUS
  <2>3. P \in SUBSET Nat /\ P # {} /\ i \in P
    <3>1. P = {k \in 1..n : pairs[k][2] = c}
      BY <2>2 DEF PlacesOf
    <3>2. i \in P
      BY <2>1, <3>1
    <3>3. \A k \in P : k \in 1..n
      BY <3>1
    <3>4. P \subseteq 1..n
      BY <3>3
    <3>. QED
      BY <3>2, <3>4
  <2>4. PICK j : j = Min(P)
    OBVIOUS
  <2>5. j \in P /\ j <= i
    BY <2>3, <2>4, LeastOf
  <2>6. j \in 1..n /\ pairs[j][2] = c
    BY <2>2, <2>5 DEF PlacesOf
  <2>7. wordMap[c] = pairs[j][1]
    <3>1. c \in CountsAt(pairs, 1..n)
      BY <2>1 DEF CountsAt
    <3>. QED
      BY <1>2, <2>2, <2>4, <3>1 DEF FirstWords
  <2>8. j \in 1..i
    BY <2>5, <2>6
  <2>. QED
    BY <1>5, <2>1, <2>6, <2>7, <2>8
<1>7. D \in SUBSET Nat /\ IsFiniteSet(D)
  <2>1. D = {pairs[i][2] : i \in 1..n}
    BY <1>3 DEF CountsAt
  <2>2. IsFiniteSet(1..n)
    BY FS_Interval
  <2>3. PICK f : f = [i \in 1..n |-> pairs[i][2]]
    OBVIOUS
  <2>4. f \in Surjection(1..n, D)
    BY <2>1, <2>3 DEF Surjection
  <2>. QED
    BY <1>5, <2>1, <2>2, <2>4, FS_Surjection
<1>8. PICK o : o = InOrder(D) /\ InOrderOf(o, D)
  BY <1>7, InOrderIs
<1>9. PICK m \in Nat :
         /\ m = Len(o) /\ DOMAIN o = 1..m
         /\ \A k \in 1..m : o[k] \in D
         /\ \A j, k \in 1..m : j < k => o[j] < o[k]
         /\ \A c \in D : \E k \in 1..m : o[k] = c
  <2>1. o \in Seq(D)
    BY <1>8 DEF InOrderOf
  <2>2. PICK m \in Nat : m = Len(o) /\ DOMAIN o = 1..m /\ \A k \in 1..m : o[k] \in D
    BY <2>1
  <2>. QED
    BY <1>8, <2>2 DEF InOrderOf
<1>10. sorted = [k \in 1..m |-> <<wordMap[o[(m - k) + 1]], o[(m - k) + 1]>>]
  <2>1. Reverse(o) = [k \in 1..m |-> o[(m - k) + 1]]
    BY <1>9 DEF Reverse
  <2>2. PICK order : order = Reverse(o)
    OBVIOUS
  <2>3. DOMAIN order = 1..m /\ \A k \in 1..m : order[k] = o[(m - k) + 1]
    BY <2>1, <2>2
  <2>4. sorted = [k \in DOMAIN order |-> <<wordMap[order[k]], order[k]>>]
    BY <1>4, <1>8, <2>2, Zenon DEF SortedWords
  <2>. QED
    BY <2>3, <2>4
<1>11. \A k \in 1..m : (m - k) + 1 \in 1..m
  OBVIOUS
<1>12. /\ DOMAIN sorted = 1..m
       /\ \A k \in 1..m : /\ sorted[k] = <<wordMap[o[(m - k) + 1]], o[(m - k) + 1]>>
                          /\ sorted[k][2] = o[(m - k) + 1]
  BY <1>10
<1>13. ASSUME NEW k \in DOMAIN sorted \ {1} PROVE sorted[k - 1][2] > sorted[k][2]
  <2>1. k \in 1..m /\ k - 1 \in 1..m /\ (m - k) + 1 \in 1..m /\ (m - (k - 1)) + 1 \in 1..m
    BY <1>12
  <2>2. (m - k) + 1 < (m - (k - 1)) + 1
    BY <2>1
  <2>3. PICK a : a = o[(m - k) + 1]
    OBVIOUS
  <2>4. PICK b : b = o[(m - (k - 1)) + 1]
    OBVIOUS
  <2>5. a < b /\ a \in Nat /\ b \in Nat
    BY <1>7, <1>9, <2>1, <2>2, <2>3, <2>4
  <2>6. sorted[k - 1][2] = b /\ sorted[k][2] = a
    BY <1>12, <2>1, <2>3, <2>4
  <2>. QED
    BY <2>5, <2>6
<1>14. ASSUME NEW c \in D PROVE <<wordMap[c], c>> \in ToSet(sorted)
  <2>1. PICK k \in 1..m : o[k] = c
    BY <1>9
  <2>2. (m - k) + 1 \in 1..m /\ (m - ((m - k) + 1)) + 1 = k
    BY <1>11
  <2>3. sorted[(m - k) + 1] = <<wordMap[c], c>>
    BY <1>12, <2>1, <2>2
  <2>. QED
    BY <1>12, <2>2, <2>3 DEF ToSet
<1>15. ASSUME NEW k \in DOMAIN pairs
       PROVE  \E j \in 1..k : pairs[j] \in ToSet(sorted) /\ pairs[j][2] = pairs[k][2]
  <2>1. PICK j \in 1..k : pairs[j] = <<wordMap[pairs[k][2]], pairs[k][2]>>
    BY <1>1, <1>6
  <2>2. pairs[k][2] \in D
    BY <1>1, <1>3 DEF CountsAt
  <2>. QED
    BY <1>14, <2>1, <2>2
<1>16. ASSUME NEW k \in 1..m PROVE sorted[k] \in ToSet(pairs)
  <2>1. PICK c : c = o[(m - k) + 1]
    OBVIOUS
  <2>2. c \in D /\ sorted[k] = <<wordMap[c], c>>
    BY <1>9, <1>11, <1>12, <2>1
  <2>3. PICK i \in 1..n : pairs[i][2] = c
    BY <1>3, <2>2 DEF CountsAt
  <2>4. PICK j \in 1..i : pairs[j] = <<wordMap[c], c>>
    BY <1>6, <2>3
  <2>5. j \in DOMAIN pairs
    BY <1>1
  <2>. QED
    BY <2>2, <2>4, <2>5 DEF ToSet
<1>17. ToSet(sorted) \subseteq ToSet(pairs)
  <2>1. ToSet(sorted) = {sorted[k] : k \in 1..m}
    BY <1>12 DEF ToSet
  <2>. QED
    BY <1>16, <2>1
<1>. QED
  BY <1>13, <1>15, <1>17 DEF FirstOfEach

----------------------------------------------------------------------------
(* What is written is made of what is read                                 *)

\* Every cleaned file is what CleanFile makes of some text.
CleanedInv ==
    \A path \in DOMAIN trees["clean"].files :
        \E text \in Seq(Char) : trees["clean"].files[path] = CleanFile(text)

\* A data set with files in its folders and none deeper, as the tools write it.
Shallow(tree) ==
    /\ \A path \in tree.dirs : \E n \in Name : path = <<n>>
    /\ \A path \in DOMAIN tree.files : \E n, m \in Name : path = <<n, m>>

\* Every file of a tree is what its tool makes of the file with the same path in
\* the tree that it reads.
MadeOf(t) ==
    \A path \in DOMAIN trees[t].files :
        /\ path \in DOMAIN Source(t).files
        /\ trees[t].files[path] = Output(t, Source(t).files[path])

\* The entries still to visit are folders of the data set and files of the
\* current folder.
VisitInv ==
    \/ pending = <<>>
    \/ \E top \in SUBSET Source(tool).dirs : pending = <<top>>
    \/ \E top \in SUBSET Source(tool).dirs, here \in SUBSET DOMAIN Source(tool).files :
          /\ pending = <<here, top>>
          /\ \A path \in here : Front(path) = currentDatasetFolder

ContentInv ==
    /\ CleanedInv
    /\ \A t \in Tools : Shallow(trees[t])
    /\ currentDatasetFolder = Root \/ \E n \in Name : currentDatasetFolder = <<n>>
    /\ tool = "clean" => DOMAIN trees["count"].files = {}
    /\ tool \in {"clean", "count"} => DOMAIN trees["sort"].files = {}
    /\ MadeOf("count") /\ MadeOf("sort")
    /\ tool \in {"count", "sort"} => VisitInv

LEMMA SourceIs ==
    /\ Source("count") = trees["clean"] /\ Source("sort") = trees["count"]
    /\ Source("clean") = trees["raw"]
  BY DEF Source, Reads

\* In such a data set the folders are at the top, the files in them.
LEMMA ShallowChildren ==
    ASSUME NEW tree, Shallow(tree)
    PROVE  /\ Children(tree, Root) \subseteq tree.dirs
           /\ \A path \in tree.dirs :
                 /\ Children(tree, path) \subseteq DOMAIN tree.files
                 /\ path \notin DOMAIN tree.files /\ path = <<Last(path)>>
           /\ \A path \in DOMAIN tree.files :
                 /\ Front(path) # Root /\ path = Append(Front(path), Last(path))
           /\ \A dir : \A path \in Children(tree, dir) : Front(path) = dir
<1>1. ASSUME NEW path \in tree.dirs
      PROVE  Front(path) = Root /\ path = <<Last(path)>> /\ path # Root /\ Len(path) = 1
  <2>1. PICK n \in Name : path = <<n>>
    BY DEF Shallow
  <2>. QED
    BY <2>1, FolderPath
<1>2. ASSUME NEW path \in DOMAIN tree.files
      PROVE  Front(path) # Root /\ path = Append(Front(path), Last(path)) /\ Len(path) = 2
  <2>1. PICK n \in Name, m \in Name : path = <<n, m>>
    BY DEF Shallow
  <2>2. Front(path) = <<n>> /\ Last(path) = m /\ Append(<<n>>, m) = path
    BY <2>1, FilePath
  <2>3. Len(path) = 2 /\ <<n>> # Root
    BY <2>1, FolderPath
  <2>. QED
    BY <2>2, <2>3
<1>3. ASSUME NEW dir, NEW path \in Children(tree, dir)
      PROVE  Front(path) = dir /\ (path \in tree.dirs \/ path \in DOMAIN tree.files)
  BY DEF Children
<1>4. \A path \in tree.dirs : path \notin DOMAIN tree.files
  BY <1>1, <1>2
<1>5. Children(tree, Root) \subseteq tree.dirs
  BY <1>2, <1>3
<1>6. \A path \in tree.dirs : Children(tree, path) \subseteq DOMAIN tree.files
  BY <1>1, <1>3
<1>. QED
  BY <1>1, <1>2, <1>3, <1>4, <1>5, <1>6

LEMMA InitContent == Init => ContentInv
<1>. SUFFICES ASSUME Init PROVE ContentInv
  OBVIOUS
<1>0. PICK raw \in RawTrees :
        \E existing \in {{}, {path \in raw.dirs : Len(path) = 1}} :
            trees = [t \in Tools \cup {"raw"} |->
                        IF t = "raw" THEN raw
                        ELSE [dirs |-> IF t = "clean" THEN existing ELSE {}, files |-> NoFiles]]
  BY DEF Init
<1>1. PICK existing \in {{}, {path \in raw.dirs : Len(path) = 1}} :
        trees = [t \in Tools \cup {"raw"} |->
                    IF t = "raw" THEN raw
                    ELSE [dirs |-> IF t = "clean" THEN existing ELSE {}, files |-> NoFiles]]
  BY <1>0
<1>2. \A t \in Tools : trees[t].files = NoFiles /\ trees[t].dirs \subseteq existing
  BY <1>1 DEF Tools
<1>3. DOMAIN NoFiles = {}
  BY DEF NoFiles
<1>4. ASSUME NEW path \in existing PROVE \E n \in Name : path = <<n>>
  <2>1. path \in raw.dirs /\ Len(path) = 1
    BY <1>1
  <2>2. path \in Seq(Name)
    BY <2>1, TreesAssumption DEF IsTree
  <2>3. path[1] \in Name /\ path = <<path[1]>>
    BY <2>1, <2>2
  <2>. QED
    BY <2>3
<1>5. \A t \in Tools : Shallow(trees[t])
  BY <1>2, <1>3, <1>4 DEF Shallow
<1>6. CleanedInv /\ MadeOf("count") /\ MadeOf("sort")
  BY <1>2, <1>3 DEF CleanedInv, MadeOf, Tools
<1>7. tool = "clean" /\ currentDatasetFolder = Root
  BY DEF Init
<1>. QED
  BY <1>2, <1>3, <1>5, <1>6, <1>7 DEF ContentInv, Tools

\* The files are the same after the step.
LEMMA FilesStay ==
    ASSUME ContentInv, \A t \in Tools : trees'[t].files = trees[t].files
    PROVE  CleanedInv' /\ MadeOf("count")' /\ MadeOf("sort")'
<1>1. \A t \in {"clean", "count", "sort"} : trees'[t].files = trees[t].files
  BY DEF Tools
<1>2. /\ Source("count").files = trees["clean"].files
      /\ Source("sort").files = trees["count"].files
      /\ Source("count")'.files = trees["clean"].files
      /\ Source("sort")'.files = trees["count"].files
  BY <1>1 DEF Source, Reads
<1>3. CleanedInv'
  BY <1>1 DEF ContentInv, CleanedInv
<1>4. MadeOf("count")'
  BY <1>1, <1>2, Zenon DEF ContentInv, MadeOf
<1>5. MadeOf("sort")'
  BY <1>1, <1>2, Zenon DEF ContentInv, MadeOf
<1>. QED
  BY <1>3, <1>4, <1>5

\* Nothing is written.
LEMMA TreesStay ==
    ASSUME ContentInv, trees' = trees,
           tool' = "clean" => tool = "clean",
           tool' \in {"clean", "count"} => tool \in {"clean", "count"},
           currentDatasetFolder' = Root \/ currentDatasetFolder' = currentDatasetFolder,
           tool' \in {"count", "sort"} => VisitInv'
    PROVE  ContentInv'
<1>1. CleanedInv' /\ MadeOf("count")' /\ MadeOf("sort")'
  BY FilesStay
<1>2. \A t \in Tools : Shallow(trees[t])'
  BY DEF ContentInv, Shallow
<1>. QED
  BY <1>1, <1>2 DEF ContentInv

\* What the second and the third tool visit.
LEMMA Visiting ==
    ASSUME ShapeInv, ContentInv, tool \in {"count", "sort"}, NEW path, Visits(path)
    PROVE  /\ Reads(tool) \in Tools \ {tool} /\ Shallow(Source(tool)) /\ VisitInv
           /\ \/ /\ path \in Source(tool).dirs
                 /\ \E top \in SUBSET Source(tool).dirs :
                       pending = <<top>> /\ PendingWithout(path) = <<top \ {path}>>
              \/ /\ path \in DOMAIN Source(tool).files
                 /\ Front(path) = currentDatasetFolder
                 /\ \E top \in SUBSET Source(tool).dirs,
                       here \in SUBSET DOMAIN Source(tool).files :
                       /\ pending = <<here, top>>
                       /\ PendingWithout(path) = <<here \ {path}, top>>
                       /\ \A p \in here : Front(p) = currentDatasetFolder
<1>1. Reads(tool) \in Tools \ {tool} /\ Shallow(Source(tool)) /\ VisitInv
  BY DEF ContentInv, Source, Reads, Tools
<1>2. pending # <<>> /\ path \in Head(pending)
  BY DEF Visits
<1>3. CASE \E top \in SUBSET Source(tool).dirs : pending = <<top>>
  <2>1. PICK top \in SUBSET Source(tool).dirs : pending = <<top>>
    BY <1>3
  <2>2. path \in top /\ PendingWithout(path) = <<top \ {path}>>
    BY <1>2, <2>1, PushOne DEF PendingWithout
  <2>. QED
    BY <1>1, <2>1, <2>2
<1>4. CASE \E top \in SUBSET Source(tool).dirs, here \in SUBSET DOMAIN Source(tool).files :
              /\ pending = <<here, top>>
              /\ \A p \in here : Front(p) = currentDatasetFolder
  <2>1. PICK top \in SUBSET Source(tool).dirs, here \in SUBSET DOMAIN Source(tool).files :
              /\ pending = <<here, top>>
              /\ \A p \in here : Front(p) = currentDatasetFolder
    BY <1>4
  <2>2. path \in here /\ PendingWithout(path) = <<here \ {path}, top>>
    BY <1>2, <2>1, PushOne DEF PendingWithout
  <2>. QED
    BY <1>1, <2>1, <2>2
<1>. QED
  BY <1>1, <1>2, <1>3, <1>4 DEF VisitInv

\* Only the running tool's tree changes, by a file.
LEMMA WriteStep ==
    ASSUME ShapeInv, ContentInv, tool \in Tools, NEW path, ProcessFile(path)
    PROVE  ContentInv'
<1>. DEFINE written == Append(currentDatasetFolder, Last(path))
            output == Output(tool, Source(tool).files[path])
<1>1. PICK f : /\ trees' = [trees EXCEPT ![tool].files = f]
               /\ DOMAIN f = DOMAIN trees[tool].files \cup {written}
               /\ f[written] = output
               /\ \A p \in DOMAIN trees[tool].files : p # written => f[p] = trees[tool].files[p]
  <2>. DEFINE g == [p \in DOMAIN trees[tool].files \cup {written} |->
                      IF p = written THEN output ELSE trees[tool].files[p]]
  <2>1. trees' = [trees EXCEPT ![tool].files = g]
    BY Zenon DEF ProcessFile
  <2>2. /\ DOMAIN g = DOMAIN trees[tool].files \cup {written} /\ g[written] = output
        /\ \A p \in DOMAIN trees[tool].files : p # written => g[p] = trees[tool].files[p]
    OBVIOUS
  <2>. HIDE DEF g, written, output
  <2>. QED
    BY <2>1, <2>2
<1>2. /\ pending' = PendingWithout(path) /\ UNCHANGED <<tool, currentDatasetFolder>>
      /\ Visits(path) /\ path \in DOMAIN Source(tool).files /\ currentDatasetFolder # Root
  BY DEF ProcessFile
<1>3. /\ trees'[tool].dirs = trees[tool].dirs /\ trees'[tool].files = f
      /\ \A t \in (Tools \cup {"raw"}) \ {tool} : trees'[t] = trees[t]
  BY <1>1 DEF ShapeInv
<1>. HIDE DEF written, output
<1>4. Last(path) \in Name
  <2>1. CASE tool = "clean"
    <3>1. path \in Seq(Name) /\ Len(path) > 0
      BY <1>2, <2>1, SourceIs, TreesAssumption DEF ShapeInv, IsTree
    <3>. QED
      BY <3>1 DEF Last
  <2>2. CASE tool # "clean"
    <3>1. tool \in {"count", "sort"}
      BY <2>2 DEF Tools
    <3>2. Shallow(Source(tool))
      BY <1>2, <3>1, Visiting
    <3>3. PICK n \in Name, m \in Name : path = <<n, m>>
      BY <1>2, <3>2 DEF Shallow
    <3>. QED
      BY <3>3, FilePath
  <2>. QED
    BY <2>1, <2>2
<1>5. \E n, m \in Name : written = <<n, m>>
  <2>1. PICK n \in Name : currentDatasetFolder = <<n>>
    BY <1>2 DEF ContentInv
  <2>2. written = <<n, Last(path)>>
    BY <2>1, FilePath DEF written
  <2>. QED
    BY <1>4, <2>2
<1>6. \A t \in Tools : Shallow(trees[t])'
  <2>1. Shallow(trees[tool])'
    BY <1>1, <1>2, <1>3, <1>5 DEF ContentInv, Shallow
  <2>2. \A t \in Tools \ {tool} : Shallow(trees[t])'
    BY <1>3 DEF ContentInv, Shallow
  <2>. QED
    BY <1>2, <2>1, <2>2
<1>7. CASE tool = "clean"
  <2>1. /\ trees'["count"] = trees["count"] /\ trees'["sort"] = trees["sort"]
        /\ DOMAIN trees["count"].files = {} /\ DOMAIN trees["sort"].files = {}
    BY <1>3, <1>7 DEF ContentInv, Tools
  <2>2. output = CleanFile(Source(tool).files[path]) /\ Source(tool).files[path] \in Seq(Char)
    BY <1>2, <1>7, SourceIs, TreesAssumption DEF output, Output, ShapeInv
  <2>3. CleanedInv'
    <3>1. \A p \in DOMAIN f : \E text \in Seq(Char) : f[p] = CleanFile(text)
      BY <1>1, <1>7, <2>2 DEF ContentInv, CleanedInv
    <3>. QED
      BY <1>3, <1>7, <3>1 DEF CleanedInv
  <2>4. MadeOf("count")' /\ MadeOf("sort")'
    BY <2>1 DEF MadeOf
  <2>. QED
    BY <1>2, <1>6, <1>7, <2>1, <2>3, <2>4 DEF ContentInv
<1>8. CASE tool \in {"count", "sort"}
  <2>1. /\ path \in DOMAIN Source(tool).files /\ Reads(tool) \in Tools \ {tool}
        /\ Shallow(Source(tool)) /\ Front(path) = currentDatasetFolder
        /\ \E top \in SUBSET Source(tool).dirs,
              here \in SUBSET DOMAIN Source(tool).files :
              /\ pending = <<here, top>>
              /\ PendingWithout(path) = <<here \ {path}, top>>
              /\ \A p \in here : Front(p) = currentDatasetFolder
    <3>1. path \notin Source(tool).dirs
      BY <1>2, <1>8, Visiting, ShallowChildren
    <3>. QED
      BY <1>2, <1>8, <3>1, Visiting
  <2>2. written = path
    BY <2>1, ShallowChildren DEF written
  <2>3. Source(tool)' = Source(tool)
    BY <1>2, <1>3, <2>1 DEF Source
  <2>4. MadeOf(tool)'
    <3>1. MadeOf(tool)
      BY <1>8 DEF ContentInv
    <3>2. \A p \in DOMAIN f : p \in DOMAIN Source(tool).files /\ f[p] = Output(tool, Source(tool).files[p])
      BY <1>1, <2>1, <2>2, <3>1 DEF MadeOf, output
    <3>. QED
      BY <1>2, <1>3, <2>3, <3>2 DEF MadeOf
  <2>5. CleanedInv'
    <3>1. trees'["clean"] = trees["clean"]
      BY <1>3, <1>8 DEF Tools
    <3>. QED
      BY <3>1 DEF ContentInv, CleanedInv
  <2>6. MadeOf("count")' /\ MadeOf("sort")'
    <3>1. CASE tool = "count"
      <4>1. trees'["sort"] = trees["sort"] /\ DOMAIN trees["sort"].files = {}
        BY <1>3, <3>1 DEF ContentInv, Tools
      <4>2. MadeOf("sort")'
        BY <4>1 DEF MadeOf
      <4>3. MadeOf("count")'
        BY <1>2, <2>4, <3>1 DEF MadeOf
      <4>. QED
        BY <4>2, <4>3
    <3>2. CASE tool = "sort"
      <4>1. trees'["count"] = trees["count"] /\ trees'["clean"] = trees["clean"]
        BY <1>3, <3>2 DEF Tools
      <4>2. Source("count")' = Source("count")
        BY <4>1 DEF Source, Reads
      <4>3. MadeOf("count")'
        BY <4>1, <4>2 DEF ContentInv, MadeOf
      <4>4. MadeOf("sort")'
        BY <1>2, <2>4, <3>2 DEF MadeOf
      <4>. QED
        BY <4>3, <4>4
    <3>. QED
      BY <1>8, <3>1, <3>2
  <2>7. VisitInv'
    <3>1. PICK top \in SUBSET Source(tool).dirs, here \in SUBSET DOMAIN Source(tool).files :
              /\ PendingWithout(path) = <<here \ {path}, top>>
              /\ \A p \in here : Front(p) = currentDatasetFolder
      BY <2>1
    <3>2. PICK rest : rest = here \ {path}
      OBVIOUS
    <3>3. /\ pending' = <<rest, top>> /\ rest \in SUBSET DOMAIN Source(tool)'.files
          /\ top \in SUBSET Source(tool)'.dirs
          /\ \A p \in rest : Front(p) = currentDatasetFolder'
      BY <1>2, <2>3, <3>1, <3>2
    <3>. QED
      BY <3>3 DEF VisitInv
  <2>8. /\ tool' # "clean"
        /\ tool' = "count" => DOMAIN trees'["sort"].files = {}
    BY <1>2, <1>3, <1>8 DEF ContentInv, Tools
  <2>. QED
    BY <1>2, <1>6, <2>5, <2>6, <2>7, <2>8 DEF ContentInv
<1>. QED
  BY <1>7, <1>8 DEF Tools

LEMMA EnterStep ==
    ASSUME ShapeInv, ContentInv, tool \in Tools, NEW path, ProcessFolder(path)
    PROVE  ContentInv'
<1>1. CASE Abort
  <2>1. trees' = trees /\ tool' = "aborted" /\ currentDatasetFolder' = currentDatasetFolder
    BY <1>1 DEF Abort
  <2>. QED
    BY <2>1, TreesStay
<1>2. CASE ~Abort
  <2>1. /\ Last(path) \in Name
        /\ currentDatasetFolder' = <<Last(path)>>
        /\ trees' = [trees EXCEPT ![tool].dirs = @ \cup {<<Last(path)>>}]
        /\ pending' = <<Children(Source(tool), path)>> \o PendingWithout(path)
        /\ tool' = tool /\ Visits(path) /\ path \in Source(tool).dirs
    BY <1>2, NameAssumption DEF ProcessFolder, FolderOf
  <2>2. /\ trees'[tool].dirs = trees[tool].dirs \cup {<<Last(path)>>}
        /\ \A t \in Tools : trees'[t].files = trees[t].files
        /\ \A t \in (Tools \cup {"raw"}) \ {tool} : trees'[t] = trees[t]
    BY <2>1 DEF ShapeInv
  <2>3. CleanedInv' /\ MadeOf("count")' /\ MadeOf("sort")'
    BY <2>2, FilesStay
  <2>4. \A t \in Tools : Shallow(trees[t])'
    <3>1. Shallow(trees[tool])'
      BY <2>1, <2>2 DEF ContentInv, Shallow
    <3>2. \A t \in Tools \ {tool} : Shallow(trees[t])'
      BY <2>2 DEF ContentInv, Shallow
    <3>. QED
      BY <2>1, <3>1, <3>2
  <2>5. ASSUME tool \in {"count", "sort"} PROVE VisitInv'
    <3>1. /\ Reads(tool) \in Tools \ {tool} /\ Shallow(Source(tool))
      BY <2>1, <2>5, Visiting
    <3>2. Source(tool)' = Source(tool)
      BY <2>1, <2>2, <3>1 DEF Source
    <3>3. path \notin DOMAIN Source(tool).files
      BY <2>1, <3>1, ShallowChildren
    <3>4. PICK top \in SUBSET Source(tool).dirs : PendingWithout(path) = <<top \ {path}>>
      BY <2>1, <2>5, <3>3, Visiting
    <3>5. PICK rest : rest = top \ {path}
      OBVIOUS
    <3>6. PICK here : here = Children(Source(tool), path)
      OBVIOUS
    <3>7. pending' = <<here, rest>>
      BY <2>1, <3>4, <3>5, <3>6, PushOne
    <3>8. /\ here \in SUBSET DOMAIN Source(tool).files
          /\ \A p \in here : Front(p) = path
          /\ path = <<Last(path)>>
      BY <2>1, <3>1, <3>6, ShallowChildren
    <3>9. /\ rest \in SUBSET Source(tool)'.dirs /\ here \in SUBSET DOMAIN Source(tool)'.files
          /\ \A p \in here : Front(p) = currentDatasetFolder'
      BY <2>1, <3>2, <3>5, <3>8
    <3>. QED
      BY <3>7, <3>9 DEF VisitInv
  <2>6. /\ tool' = "clean" => DOMAIN trees'["count"].files = {}
        /\ tool' \in {"clean", "count"} => DOMAIN trees'["sort"].files = {}
    BY <2>1, <2>2 DEF ContentInv, Tools
  <2>. QED
    BY <2>1, <2>3, <2>4, <2>5, <2>6 DEF ContentInv
<1>. QED
  BY <1>1, <1>2

LEMMA StrayStep ==
    ASSUME ShapeInv, ContentInv, tool \in Tools, NEW path, ProcessStray(path)
    PROVE  ContentInv'
<1>1. /\ Visits(path) /\ path \in DOMAIN Source(tool).files /\ currentDatasetFolder = Root
      /\ trees' = trees /\ currentDatasetFolder' = currentDatasetFolder
      /\ tool' \in {tool, "aborted"}
  BY DEF ProcessStray, Abort
<1>2. ~(tool \in {"count", "sort"})
  BY <1>1, Visiting, ShallowChildren
<1>. QED
  BY <1>1, <1>2, TreesStay DEF Tools

LEMMA LeaveContent ==
    ASSUME ShapeInv, ContentInv, tool \in Tools, LeaveFolder
    PROVE  ContentInv'
<1>1. /\ UNCHANGED <<tool, trees, currentDatasetFolder>> /\ pending' = Tail(pending)
      /\ pending # <<>>
  BY DEF LeaveFolder
<1>2. Source(tool)' = Source(tool)
  BY <1>1 DEF Source
<1>3. ASSUME tool \in {"count", "sort"} PROVE VisitInv'
  <2>1. VisitInv
    BY <1>3 DEF ContentInv
  <2>2. pending' = <<>> \/ \E top \in SUBSET Source(tool).dirs : pending' = <<top>>
    <3>1. ASSUME NEW top \in SUBSET Source(tool).dirs, pending = <<top>> PROVE pending' = <<>>
      BY <1>1, <3>1, PushOne
    <3>2. ASSUME NEW top \in SUBSET Source(tool).dirs, NEW here, pending = <<here, top>>
          PROVE  pending' = <<top>>
      BY <1>1, <3>2, PushOne
    <3>. QED
      BY <1>1, <2>1, <3>1, <3>2 DEF VisitInv
  <2>. QED
    BY <1>2, <2>2 DEF VisitInv
<1>. QED
  BY <1>1, <1>3, TreesStay

LEMMA StartContent ==
    ASSUME ShapeInv, ContentInv, tool \in Tools, NextTool
    PROVE  ContentInv'
<1>1. /\ trees' = trees /\ currentDatasetFolder' = Root /\ tool' = After(tool)
      /\ tool' # "done" => pending' = <<Children(trees[tool], Root)>>
  BY DEF NextTool
<1>2. /\ tool = "clean" => tool' = "count"
      /\ tool = "count" => tool' = "sort"
      /\ tool = "sort" => tool' = "done"
      /\ tool \in {"clean", "count", "sort"}
  BY <1>1 DEF After, Tools
<1>3. ASSUME tool' \in {"count", "sort"} PROVE VisitInv'
  <2>1. Source(tool)' = trees[tool]
    BY <1>1, <1>2, <1>3 DEF Source, Reads
  <2>2. Children(trees[tool], Root) \subseteq trees[tool].dirs
    BY ShallowChildren DEF ContentInv
  <2>3. \E top \in SUBSET Source(tool)'.dirs : pending' = <<top>>
    BY <1>1, <1>3, <2>1, <2>2
  <2>. QED
    BY <2>3 DEF VisitInv
<1>. QED
  BY <1>1, <1>2, <1>3, TreesStay

LEMMA NextContent == ShapeInv /\ ContentInv /\ [Next]_vars => ContentInv'
<1>. SUFFICES ASSUME ShapeInv, ContentInv, [Next]_vars PROVE ContentInv'
  OBVIOUS
<1>1. CASE UNCHANGED vars
  <2>1. /\ trees' = trees /\ currentDatasetFolder' = currentDatasetFolder /\ tool' = tool
        /\ pending' = pending
    BY <1>1 DEF vars
  <2>2. tool \in {"count", "sort"} => VisitInv'
    BY <2>1 DEF ContentInv, VisitInv, Source
  <2>. QED
    BY <2>1, <2>2, TreesStay
<1>2. CASE Next
  <2>1. tool \in Tools
    BY <1>2 DEF Next, ProcessFolder, ProcessStray, ProcessFile, Visits, LeaveFolder, NextTool
  <2>. QED
    BY <1>2, <2>1, EnterStep, StrayStep, WriteStep, LeaveContent, StartContent DEF Next
<1>. QED
  BY <1>1, <1>2

----------------------------------------------------------------------------

\* The invariant of the walks of the three tools.
THEOREM WalkInvariant == Spec => []MirrorInv
  BY InitMirror, NextMirror, PTL DEF Spec

\* A data set of files in folders goes through all three tools: no program
\* aborts and every file ends in the folder it came from, though the walk keeps
\* its folder in a variable and takes the entries in any order.
THEOREM Mirrored == Spec => []MirroredTree
<1>1. MirrorInv => MirroredTree
  BY DEF MirrorInv, ToolsInv, Done, RawFiles, MirroredTree
<1>. QED
  BY <1>1, WalkInvariant, PTL

\* The invariant of what the three tools write, for every data set.
THEOREM ContentInvariant == Spec => [](ShapeInv /\ ContentInv)
  BY InitShape, NextShape, InitContent, NextContent, PTL DEF Spec

\* A cleaned file consists of letters, digits and single delimiters, whatever
\* text was read and however deep it lay.
THEOREM CleanIsNormal == Spec => []CleanedIsNormal
<1>1. ContentInv => CleanedIsNormal
  <2>. SUFFICES ASSUME ContentInv, NEW path \in DOMAIN trees["clean"].files,
                       NEW text, text = trees["clean"].files[path]
                PROVE  /\ \A i \in DOMAIN text : text[i] \in Alnum \cup Delimiter
                       /\ \A i \in DOMAIN text \ {1} :
                             ~(text[i - 1] \in Delimiter /\ text[i] \in Delimiter)
    BY Zenon DEF CleanedIsNormal
  <2>1. text \in Seq(Char) /\ Normal(text)
    BY CleanFileIs DEF ContentInv, CleanedInv
  <2>2. DOMAIN text = 1..Len(text) /\ \A i \in DOMAIN text \ {1} : i \in 2..Len(text)
    BY <2>1
  <2>. QED
    BY <2>1, <2>2 DEF Normal, Kept
<1>. QED
  BY <1>1, ContentInvariant, PTL

\* What the counted file was made of.
LEMMA CountedText ==
    ASSUME ContentInv, NEW path \in DOMAIN trees["count"].files
    PROVE  \E text \in Seq(Char) :
              /\ trees["clean"].files[path] = text /\ Normal(text)
              /\ trees["count"].files[path] = CountWordsInFile(text)
<1>1. /\ path \in DOMAIN trees["clean"].files
      /\ trees["count"].files[path] = CountWordsInFile(trees["clean"].files[path])
  BY SourceIs DEF ContentInv, MadeOf, Output
<1>2. PICK raw \in Seq(Char) : trees["clean"].files[path] = CleanFile(raw)
  BY <1>1 DEF ContentInv, CleanedInv
<1>. QED
  BY <1>1, <1>2, CleanFileIs

\* The counts written for a cleaned file are those with which the engine indexes
\* it, each word once, though the two programs split a text by different rules.
THEOREM CountsAgree == Spec => []CountsAgreeWithEngine
<1>1. ContentInv => CountsAgreeWithEngine
  <2>1. ASSUME ContentInv, NEW path \in DOMAIN trees["count"].files,
               NEW pairs, pairs = trees["count"].files[path],
               NEW words, words = WordsOf(trees["clean"].files[path], Alnum)
        PROVE  /\ ToSet(pairs) = {<<w, Occurrences(words, w)>> : w \in ToSet(words)}
               /\ Len(pairs) = Cardinality(ToSet(words))
    <3>1. PICK text \in Seq(Char) :
              /\ trees["clean"].files[path] = text /\ Normal(text)
              /\ trees["count"].files[path] = CountWordsInFile(text)
      BY <2>1, CountedText
    <3>2. words \in Seq(Seq(Char)) /\ pairs = Counted(words)
      BY <2>1, <3>1, CountedWords
    <3>. QED
      BY <3>2, CountsAre
  <2>. QED
    BY <2>1, Zenon DEF CountsAgreeWithEngine
<1>. QED
  BY <1>1, ContentInvariant, PTL

\* A sorted file has each count of the counted file once, the largest first, with
\* the word that comes first in the text.
THEOREM SortedLists == Spec => []SortedListsFirstOfEach
<1>1. ContentInv => SortedListsFirstOfEach
  <2>1. ASSUME ContentInv, NEW path \in DOMAIN trees["sort"].files,
               NEW pairs, pairs = trees["count"].files[path],
               NEW sorted, sorted = trees["sort"].files[path]
        PROVE  FirstOfEach(pairs, sorted)
    <3>1. path \in DOMAIN trees["count"].files /\ sorted = SortedWords(pairs)
      BY <2>1, SourceIs DEF ContentInv, MadeOf, Output
    <3>2. PICK text \in Seq(Char) : Normal(text) /\ pairs = CountWordsInFile(text)
      BY <2>1, <3>1, CountedText
    <3>3. PICK words \in Seq(Seq(Char)) : pairs = Counted(words)
      BY <3>2, CountedWords
    <3>4. pairs \in Seq(Seq(Char) \X Nat)
      BY <3>3, CountIs
    <3>. QED
      BY <3>1, <3>4, SortedAre
  <2>2. SortedListsFirstOfEach <=>
          \A path \in DOMAIN trees["sort"].files :
             FirstOfEach(trees["count"].files[path], trees["sort"].files[path])
    BY Zenon DEF SortedListsFirstOfEach, FirstOfEach
  <2>. QED
    BY <2>1, <2>2, Zenon
<1>. QED
  BY <1>1, ContentInvariant, PTL

============================================================================
