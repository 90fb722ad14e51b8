--------------------------- MODULE MCReleaseDocs ----------------------------
(* Instances of ReleaseDocs.                                               *)
EXTENDS ReleaseDocs

CONSTANTS v1, v2, j1, j2, w1

MCPages == <<"releasenotes">>
Interchangeable == Permutations(Jobs) \cup Permutations(Tags)
=============================================================================
