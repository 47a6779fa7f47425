------------------------- MODULE MCClientSideEngine -------------------------
(***************************************************************************)
(* Two files, one of three words and one that cannot be opened.            *)
(***************************************************************************)
EXTENDS ClientSideEngine

CONSTANTS f, g

MCWords == [x \in {f, g} |-> IF x = f THEN 3 ELSE 0]
=============================================================================
