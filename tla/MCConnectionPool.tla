-------------------------- MODULE MCConnectionPool --------------------------
(* ConnectionPool with interchangeable threads and connections. *)
EXTENDS ConnectionPool, TLC

Symmetry == Permutations(Thread) \cup Permutations(Conn)
=============================================================================
