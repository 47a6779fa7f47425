--------------------------- MODULE MCSearchQuery ---------------------------
(* Small instances of SearchQuery for TLC.                                 *)
EXTENDS SearchQuery, TLC

CONSTANTS w1, w2, p1, p2, p3

MCFreq == 1..3

\* Three postings of each word, so that a list of two entries overflows.  The
\* scores of p1 and p2 may tie, one document has only one of the words, and
\* two documents compete for the same frequency of w2.
MCPosting == {<<w1, 1, p1>>, <<w1, 2, p2>>, <<w1, 3, p1>>,
              <<w2, 1, p2>>, <<w2, 2, p1>>, <<w2, 2, p3>>}

\* One word, two words, and a word again after another.
MCQuery == {<<w1>>, <<w1, w2>>, <<w1, w2, w1>>}

\* One listing that does not fit into a buffer.
MCOversized == {{p2, p3}}
============================================================================
