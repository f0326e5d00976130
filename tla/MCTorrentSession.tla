-------------------------- MODULE MCTorrentSession --------------------------
(* TorrentSession with interchangeable hashes and callers. *)
EXTENDS TorrentSession, TLC

Embedded == [remote |-> FALSE, foldered |-> {}]
EmbeddedFoldered == [remote |-> FALSE, foldered |-> Hash]
Daemon == [remote |-> TRUE, foldered |-> {}]
AllSites == {Embedded, EmbeddedFoldered, Daemon}

\* The parts of the state that a later step or a property can still tell apart:
\* the folder of a torrent is looked at only while it has no row, and no row ever
\* goes away; a listed status is read in "weigh" only; what an overlapping call
\* exempts needs no second exemption; and a process that no longer accepts calls
\* reads neither its failures nor whether it was restored.
Unindexed == {h \in site.foldered : row[h] = "absent"}
Weighed == [c \in Caller |-> IF cpc[c] = "weigh" THEN seen[c] ELSE None]
Blamed == IF Connected THEN failed \ raced ELSE {}
View == <<site.remote, Unindexed, diskVars, phase, libVars, handles, pending,
          Connected /\ restored, rst, cpc, req, Weighed, raced, hurried \ raced, Blamed>>

Symmetry == Permutations(Hash) \cup Permutations(Caller)
=============================================================================
