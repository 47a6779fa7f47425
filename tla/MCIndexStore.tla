---------------------------- MODULE MCIndexStore ----------------------------
(* Small instances of IndexStore for TLC.                                  *)
EXTENDS IndexStore, TLC

MCFreq == 1..4

\* Any document may contain any word with any frequency.
MCPosting == Word \X Freq \X Path

============================================================================
