---------------------------- MODULE MCCoherence ----------------------------
(***************************************************************************)
(* Instance of Coherence and DataCache for TLC.  Six bytes of memory in    *)
(* three lines of two bytes; caches of two lines, so that the first and    *)
(* the last line of memory compete for index 0.                            *)
(***************************************************************************)
EXTENDS DataCache

\* One byte of every line, and one aligned two-byte access that fills a line.
AlignedAccesses == {<<0, 1>>, <<2, 1>>, <<4, 1>>, <<1, 1>>, <<4, 2>>}

\* A two-byte access at an odd address touches two lines.
StraddlingAccesses == {<<0, 1>>, <<2, 1>>, <<1, 2>>}
=============================================================================
