------------------------- MODULE MCDownloadManager -------------------------
(* Finite instances of DownloadManager for TLC. *)
EXTENDS DownloadManager, TLC

\* Tasks, callers, hashes and anime are interchangeable (safety runs only).
Symmetry == Permutations(Task) \cup Permutations(Caller)
            \cup Permutations(Hash \ Known) \cup Permutations(Anime)
=============================================================================
