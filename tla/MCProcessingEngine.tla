------------------------- MODULE MCProcessingEngine -------------------------
(* A small instance of ProcessingEngine for TLC.                           *)
EXTENDS ProcessingEngine, TLC

CONSTANTS short, long, missing, f1, f2, g1, w1, w2

\* Two files in one directory, a file that cannot be opened among those of
\* the other, and a directory that does not exist.  The name of "long" is
\* longer than the path of f1.
MCDir == {short, long, missing}
MCFilesIn == (short :> {f1, f2}) @@ (long :> {g1}) @@ (missing :> {})
MCPrefixLength == (short :> 1) @@ (long :> 3) @@ (missing :> 1)
MCPathLength == (f1 :> 2) @@ (f2 :> 3) @@ (g1 :> 4)

\* The files compete for the one place of w1, and only one of them has w2.
MCText == (f1 :> ((w1 :> 1) @@ (w2 :> 1))) @@ (f2 :> (w1 :> 2)) @@ (g1 :> (w2 :> 1))
============================================================================
