----------------------------- MODULE MCPlayback -----------------------------
(* Finite instances of Playback for TLC. *)
EXTENDS Playback, TLC

\* Sessions, threads and lock objects are interchangeable (safety runs only).
Symmetry == Permutations(Session) \cup Permutations(Thread) \cup Permutations(Lock)
=============================================================================
