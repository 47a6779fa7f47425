------------------------- MODULE MCServerSideEngine -------------------------
(* A small instance of ServerSideEngine for TLC.                           *)
EXTENDS ServerSideEngine, TLC

CONSTANTS c1, c2

\* One client is served and may crash meanwhile, so that its descriptor may be
\* closed in any of its requests; the other connects at any time.
MCAsks == (c1 :> Requests) @@ (c2 :> {})
============================================================================
