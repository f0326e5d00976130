------------------------------ MODULE Catalog ------------------------------
(***************************************************************************)
(* The catalogue's identities: application/services/catalog_identity.py,   *)
(* catalog_merge.py, catalog_enrichment.py and                             *)
(* adapters/persistence/catalog_repository.py, with the part of            *)
(* api_coordinator.py that turns provider payloads into catalogue records  *)
(* and ingestion_pipeline.deduplicate_records.                             *)
(*                                                                         *)
(* A row of indexList is the set of its (provider key, external id) pairs, *)
(* at most one per key.  The tables that hang off an anime id              *)
(* (torrentsIndex, genres, title_synonyms, pictures, relations, tags) are  *)
(* one set of (id, item) links: they are repointed and deleted alike.      *)
(* Each statement, or run of statements that no other one can separate in  *)
(* a way that matters, is a step; its effect is seen at once by the other  *)
(* threads, because a pinned connection is shared by all of them.  Rows    *)
(* come back in the order of their primary key.  The schema is not in the  *)
(* repository; no column of indexList is taken to be unique.               *)
(***************************************************************************)
EXTENDS Integers, Sequences, FiniteSets, FiniteSetsExt, SequencesExt

CONSTANTS
    Worker,      \* threads: searches, schedule fetches, startup jobs
    Key,         \* INDEX_PROVIDER_KEYS
    Payloads,    \* external ids providers report: sets of pairs
    Starts,      \* tables to start from: the pairs of each row
    Item,        \* rows of dependent tables; each starts on one id
    Ops,         \* operations of the instance
    MaxBatch,    \* bound on the payloads of a batch
    MaxId        \* bound on the rows ever allocated

AllOps == {"ingest", "enrich", "link", "repair"}
Id == 1..MaxId
Pair == UNION Payloads
NoId == 0

Functional(ps) == \A p, q \in ps : p[1] = q[1] => p = q

ASSUME CatalogPayloads ==
    IsFiniteSet(Key) /\ \A ps \in Payloads : ps # {} /\ Functional(ps) /\ \A p \in ps : p[1] \in Key
ASSUME CatalogStarts ==
    \A table \in Starts : table \in Seq({ps \in SUBSET Pair : Functional(ps)}) /\ Len(table) <= MaxId
ASSUME CatalogOps == Ops \subseteq AllOps /\ MaxBatch \in Nat /\ MaxId \in Nat

VARIABLES
    rows,     \* ids present in indexList
    ext,      \* their external ids
    next,     \* AUTO_INCREMENT
    links,    \* dependent rows
    anime,    \* ids present in the anime table
    pc,       \* the workers
    job,      \* what each of them is working on
    overlap,  \* two workers have been active at once (history)
    batched,  \* a batch of several payloads has been resolved (history)
    alone     \* the last repair ran by itself and nothing started since (history)

vars == <<rows, ext, next, links, anime, pc, job, overlap, batched, alone>>

Record == [id : Id, ids : {ps \in SUBSET Pair : Functional(ps)}]
Job == [op : AllOps \cup {"none"}, todo : Seq(Payloads), lookup : SUBSET (Pair \X Id),
        canon : Id \cup {NoId}, dups : SUBSET Id, keys : SUBSET Pair, out : Seq(Record)]
NoJob == [op |-> "none", todo |-> <<>>, lookup |-> {}, canon |-> NoId, dups |-> {},
          keys |-> {}, out |-> <<>>]
PC == {"idle", "lookup", "find", "mergeBackfill", "mergeRepoint", "mergeDelete", "backfill",
       "allocate", "insert", "persist", "linkKeys", "scan", "groups"}

TypeOK ==
    /\ rows \subseteq Id /\ anime \subseteq Id
    /\ ext \in [Id -> SUBSET Pair] /\ \A i \in Id : Functional(ext[i])
    /\ \A i \in Id \ rows : ext[i] = {}
    /\ next \in 1..(MaxId + 1) /\ \A i \in rows : i < next
    /\ links \subseteq Id \X Item
    /\ pc \in [Worker -> PC] /\ job \in [Worker -> Job]
    /\ overlap \in BOOLEAN /\ batched \in BOOLEAN /\ alone \in BOOLEAN

Init ==
    /\ \E table \in Starts :
         /\ rows = 1..Len(table) /\ next = Len(table) + 1
         /\ ext = [i \in Id |-> IF i \in rows THEN table[i] ELSE {}]
    /\ anime = rows
    /\ links \in {{<<f[x], x>> : x \in Item} : f \in [Item -> rows]}
    /\ pc = [w \in Worker |-> "idle"] /\ job = [w \in Worker |-> NoJob]
    /\ overlap = FALSE /\ batched = FALSE /\ alone = FALSE

-----------------------------------------------------------------------------
(* catalog_repository.py. *)

Having(p) == {i \in rows : p \in ext[i]}

\* find_by_external takes the first row, find_by_external_batch the last.
FindFirst(p) == IF Having(p) = {} THEN NoId ELSE Min(Having(p))
FindLast(ps) == {<<p, Max(Having(p))>> : p \in {q \in ps : Having(q) # {}}}

\* UPDATE indexList SET key=? WHERE id=? AND key IS NULL
Filled(i, ps) ==
    IF i \in rows
    THEN [ext EXCEPT ![i] = @ \cup {p \in ps : \A q \in ext[i] : q[1] # p[1]}]
    ELSE ext

\* Fault: what hangs off the duplicate is left where it is.
RepointNothing(d, c) == links

\* _repoint_*: moved to the canonical id, dropped where it has them already.
Repointed(d, c) == {<<IF l[1] = d THEN c ELSE l[1], l[2]>> : l \in links}

\* DELETE FROM indexList WHERE id=?
IndexWithout(d) == rows \ {d}

Goto(w, l) == pc' = [pc EXCEPT ![w] = l]
Set(w, j) == job' = [job EXCEPT ![w] = j]

\* Fault: the external ids of the duplicate go with it.
ForgetIds(w) ==
    /\ pc[w] = "mergeBackfill"
    /\ Goto(w, "mergeRepoint")
    /\ UNCHANGED <<rows, ext, next, links, anime, job, overlap, batched, alone>>

\* CatalogMergeRepository.merge(dup, canonical): the external ids, ...
Dup(w) == Min(job[w].dups)

MergeBackfill(w) ==
    /\ pc[w] = "mergeBackfill"
    /\ ext' = Filled(job[w].canon, ext[Dup(w)])
    /\ Goto(w, "mergeRepoint")
    /\ UNCHANGED <<rows, next, links, anime, job, overlap, batched, alone>>

\* ... the dependent rows, ...
MergeRepoint(w) ==
    /\ pc[w] = "mergeRepoint"
    /\ links' = Repointed(Dup(w), job[w].canon)
    /\ Goto(w, "mergeDelete")
    /\ UNCHANGED <<rows, ext, next, anime, job, overlap, batched, alone>>

\* ... and the duplicate goes from every table (_DELETE_ID_TABLES).
MergeDelete(w) ==
    LET d == Dup(w)
        rest == job[w].dups \ {d}
    IN
    /\ pc[w] = "mergeDelete"
    /\ rows' = IndexWithout(d)
    /\ ext' = [i \in Id |-> IF i \in rows' THEN ext[i] ELSE {}]
    /\ anime' = anime \ {d}
    /\ links' = {l \in links : l[1] # d}
    /\ Set(w, [job[w] EXCEPT !.dups = rest])
    /\ Goto(w, CASE rest # {} -> "mergeBackfill"
                 [] rest = {} /\ job[w].op = "link" -> "linkKeys"
                 [] rest = {} /\ job[w].op = "repair" -> "groups"
                 [] OTHER -> "backfill")
    /\ UNCHANGED <<next, overlap, batched, alone>>

-----------------------------------------------------------------------------
(* catalog_identity.py. *)

Active == {w \in Worker : pc[w] # "idle"}

\* A worker starts; the history variables note who else is active.
Begin(w, o, l, b, j) ==
    /\ pc[w] = "idle" /\ o \in Ops
    /\ Goto(w, l) /\ Set(w, [j EXCEPT !.op = o])
    /\ overlap' = (overlap \/ Active # {})
    /\ batched' = (batched \/ b)
    /\ alone' = (o = "repair" /\ Active = {})
    /\ UNCHANGED <<rows, ext, next, links, anime>>

\* A search or schedule fetch resolves the payloads of a batch.
Ingest(w, batch) ==
    Begin(w, "ingest", "lookup", Len(batch) > 1, [NoJob EXCEPT !.todo = batch])

\* _enrich_one: the one external id of a row, expanded by the mapping port.
Enrich(w, i, ps) ==
    /\ i \in rows /\ Cardinality(ext[i]) = 1 /\ ext[i] \subseteq ps /\ ps # ext[i]
    /\ Begin(w, "enrich", "find", FALSE, [NoJob EXCEPT !.todo = <<ps>>])

\* link(internal_id, external_ids).
Link(w, i, ps) ==
    /\ i \in anime
    /\ Begin(w, "link", "linkKeys", FALSE, [NoJob EXCEPT !.todo = <<ps>>, !.canon = i, !.keys = ps])

\* find_by_external_batch, before the transaction opens.
Lookup(w) ==
    /\ pc[w] = "lookup"
    /\ Set(w, [job[w] EXCEPT !.lookup = FindLast(UNION Range(job[w].todo))])
    /\ Goto(w, "find")
    /\ UNCHANGED <<rows, ext, next, links, anime, overlap, batched, alone>>

\* The ids the external ids of the payload are known under: from the batch's
\* lookup table if it has them, or from the table.
Known(w, p) ==
    IF \E e \in job[w].lookup : e[1] = p
    THEN (CHOOSE e \in job[w].lookup : e[1] = p)[2]
    ELSE FindFirst(p)

\* preferred_catalog_id: every id here is positive.
Preferred(ids) == Min(ids)

Find(w) ==
    LET found == {Known(w, p) : p \in Head(job[w].todo)} \ {NoId} IN
    /\ pc[w] = "find"
    /\ IF found = {}
         THEN Goto(w, "allocate") /\ UNCHANGED job
         ELSE /\ Set(w, [job[w] EXCEPT !.canon = Preferred(found),
                                       !.dups = found \ {Preferred(found)}])
              /\ Goto(w, IF Cardinality(found) > 1 THEN "mergeBackfill" ELSE "backfill")
    /\ UNCHANGED <<rows, ext, next, links, anime, overlap, batched, alone>>

\* The payload is resolved to canon: the lookup table learns its ids.
Resolved(w, c) ==
    LET ps == Head(job[w].todo)
        kept == {e \in job[w].lookup : e[1] \notin ps}
        rest == Tail(job[w].todo)
    IN IF job[w].op = "ingest"
       THEN /\ Set(w, [job[w] EXCEPT !.todo = rest, !.canon = NoId,
                                     !.lookup = kept \cup (ps \X {c}),
                                     !.out = Append(@, [id |-> c, ids |-> ps])])
            /\ Goto(w, IF rest = <<>> THEN "persist" ELSE "find")
       ELSE Set(w, NoJob) /\ Goto(w, "idle")

\* backfill_external_ids of what the payload adds.
Backfill(w) ==
    /\ pc[w] = "backfill"
    /\ ext' = Filled(job[w].canon, Head(job[w].todo))
    /\ Resolved(w, job[w].canon)
    /\ UNCHANGED <<rows, next, links, anime, overlap, batched, alone>>

\* allocate looks once more, and so does getId for the primary key.
Allocate(w) ==
    LET there == {FindFirst(p) : p \in Head(job[w].todo)} \ {NoId} IN
    /\ pc[w] = "allocate"
    /\ IF there = {}
         THEN Goto(w, "insert") /\ UNCHANGED job
         ELSE \E i \in there : Set(w, [job[w] EXCEPT !.canon = i]) /\ Goto(w, "backfill")
    /\ UNCHANGED <<rows, ext, next, links, anime, overlap, batched, alone>>

\* getId inserts the primary key (the first key that sorts) without looking
\* again and reads the id back: the first row that has it.
Insert(w) ==
    LET p == CHOOSE q \in Head(job[w].todo) : TRUE IN
    /\ pc[w] = "insert" /\ next <= MaxId
    /\ rows' = rows \cup {next}
    /\ ext' = [ext EXCEPT ![next] = {p}]
    /\ next' = next + 1
    /\ Set(w, [job[w] EXCEPT !.canon = Min(Having(p) \cup {next})])
    /\ Goto(w, "backfill")
    /\ UNCHANGED <<links, anime, overlap, batched, alone>>

\* link: the row is merged into whichever row has one of the ids already.
LinkKey(w, p) ==
    /\ pc[w] = "linkKeys" /\ p \in job[w].keys
    /\ IF FindFirst(p) \in {NoId, job[w].canon}
         THEN Set(w, [job[w] EXCEPT !.keys = @ \ {p}]) /\ Goto(w, "linkKeys")
         ELSE /\ Set(w, [job[w] EXCEPT !.keys = @ \ {p}, !.canon = FindFirst(p),
                                       !.dups = {job[w].canon}])
              /\ Goto(w, "mergeBackfill")
    /\ UNCHANGED <<rows, ext, next, links, anime, overlap, batched, alone>>

LinkDone(w) ==
    /\ pc[w] = "linkKeys" /\ job[w].keys = {}
    /\ ext' = Filled(job[w].canon, Head(job[w].todo))
    /\ Set(w, NoJob) /\ Goto(w, "idle")
    /\ UNCHANGED <<rows, next, links, anime, overlap, batched, alone>>

-----------------------------------------------------------------------------
(* api_coordinator.py: the records of the batch are deduplicated, stored. *)

\* _deduplicate: the first record of each id.
FirstOfId(rs) ==
    FoldLeft(LAMBDA acc, r : IF \E k \in DOMAIN acc : acc[k].id = r.id THEN acc ELSE Append(acc, r),
             <<>>, rs)

\* Fault: the two ids change their root, what is under it does not.
JoinPairOnly(root, a, b) ==
    LET best == Preferred({root[a], root[b]}) IN [root EXCEPT ![a] = best, ![b] = best]

\* union(a, b): everything under either root comes under the preferred one.
Union(root, a, b) ==
    LET best == Preferred({root[a], root[b]}) IN
    [i \in DOMAIN root |-> IF root[i] \in {root[a], root[b]} THEN best ELSE root[i]]

\* A record joins the ids that its external ids were seen under.
JoinSeen(root, r, shared) == FoldSet(LAMBDA e, acc : Union(acc, r.id, e[2]), root, shared)

\* seen maps an external id to the first record's id that has it.
Visit(acc, r) ==
    LET shared == {e \in acc.seen : e[1] \in r.ids}
        new == r.ids \ {e[1] : e \in shared}
    IN [root |-> JoinSeen(acc.root, r, shared), seen |-> acc.seen \cup (new \X {r.id})]

\* One pass over the records: an external id seen before joins the two ids.
Joined(rs) ==
    FoldLeft(Visit, [root |-> [i \in {rs[k].id : k \in DOMAIN rs} |-> i], seen |-> {}], rs).root

\* deduplicate_records, by the ids it keeps.
DeduplicatedIds(rs) ==
    LET root == Joined(FirstOfId(rs)) IN {root[i] : i \in DOMAIN root}

\* _persist_catalog_records: the anime rows of the records are upserted.
Persist(w) ==
    /\ pc[w] = "persist"
    /\ anime' = anime \cup DeduplicatedIds(job[w].out)
    /\ Set(w, NoJob) /\ Goto(w, "idle")
    /\ UNCHANGED <<rows, ext, next, links, overlap, batched, alone>>

-----------------------------------------------------------------------------
(* repair_duplicates(PROVIDER_ID): column by column, a scan, then merges. *)

Repair(w) == Begin(w, "repair", "scan", FALSE, [NoJob EXCEPT !.keys = Pair])

\* Fault: a pair of rows is not a group.
MoreThanTwo(p) == Cardinality(Having(p)) > 2

\* Rows that share an external id are a group to be merged.
Duplicated(p) == Cardinality(Having(p)) >= 2

\* SELECT id, col FROM indexList: the groups of the column are fixed here.
RepairScan(w, k) ==
    LET column == {p \in job[w].keys : p[1] = k} IN
    /\ pc[w] = "scan" /\ column # {}
    /\ Set(w, [job[w] EXCEPT !.keys = @ \ column,
                             !.lookup = UNION {{p} \X Having(p) : p \in {q \in column : Duplicated(q)}}])
    /\ Goto(w, "groups")
    /\ UNCHANGED <<rows, ext, next, links, anime, overlap, batched, alone>>

\* One group: everything is merged into the preferred id.
RepairGroup(w, p) ==
    LET ids == {e[2] : e \in {f \in job[w].lookup : f[1] = p}} IN
    /\ pc[w] = "groups" /\ ids # {}
    /\ Set(w, [job[w] EXCEPT !.lookup = {e \in @ : e[1] # p}, !.canon = Preferred(ids),
                             !.dups = ids \ {Preferred(ids)}])
    /\ Goto(w, "mergeBackfill")
    /\ UNCHANGED <<rows, ext, next, links, anime, overlap, batched, alone>>

\* The next column, or the end.
RepairNext(w) ==
    /\ pc[w] = "groups" /\ job[w].lookup = {}
    /\ IF job[w].keys = {}
         THEN Set(w, NoJob) /\ Goto(w, "idle")
         ELSE Goto(w, "scan") /\ UNCHANGED job
    /\ UNCHANGED <<rows, ext, next, links, anime, overlap, batched, alone>>

-----------------------------------------------------------------------------
Batches == UNION {[1..n -> Payloads] : n \in 1..MaxBatch}

Next ==
    \E w \in Worker :
        \/ \E b \in Batches : Ingest(w, b)
        \/ \E i \in Id, ps \in Payloads : Enrich(w, i, ps) \/ Link(w, i, ps)
        \/ Repair(w) \/ Lookup(w) \/ Find(w)
        \/ MergeBackfill(w) \/ MergeRepoint(w) \/ MergeDelete(w)
        \/ Backfill(w) \/ Allocate(w) \/ Insert(w) \/ Persist(w)
        \/ \E p \in Pair : LinkKey(w, p) \/ RepairGroup(w, p)
        \/ LinkDone(w) \/ RepairNext(w)
        \/ \E k \in Key : RepairScan(w, k)

Spec == Init /\ [][Next]_vars

-----------------------------------------------------------------------------
(* Properties. *)

\* Nothing that hangs off an anime is lost, and everything in the catalogue can
\* be opened: while one operation runs at a time, on one payload at a time,
\* every dependent row belongs to an id of indexList, and so does every anime.
\* merge repoints before it deletes, and deletes a duplicate from all tables.
NothingOrphaned ==
    ~overlap /\ ~batched =>
        /\ anime \subseteq rows
        /\ \A x \in Item : \E i \in rows : <<i, x>> \in links

\* The rows that a merge is about to make one.
Merged(w) == IF job[w].dups = {} THEN {} ELSE job[w].dups \cup {job[w].canon}

\* External ids that two rows have, other than rows that are being merged.
SharedPairs ==
    {p \in Pair : \E i, j \in Having(p) :
        i # j /\ \A w \in Worker : ~({i, j} \subseteq Merged(w))}

\* An anime has both external ids: one row, or rows that are being merged.
Together(p, q) ==
    \E i \in Having(p), j \in Having(q) : i = j \/ \E w \in Worker : {i, j} \subseteq Merged(w)

\* No row has the external id any more: the row that its own was merged into
\* has another one of that provider.
Superseded(p) ==
    /\ Having(p)' = {}
    /\ \E w \in Worker :
         job[w].canon \in rows /\ \E q \in ext[job[w].canon] : q[1] = p[1]

\* Resolving, linking and repairing, one at a time and on one payload each, never
\* make two rows share an external id that no two rows shared before, whatever
\* duplicates the catalogue has; and where no two rows share one, they neither
\* take an anime apart nor lose an external id, unless the anime is merged into
\* one that has another id of the provider (catalog_identity.py's purpose).
IdentityKept ==
    [][~overlap' /\ ~batched' =>
        /\ SharedPairs' \subseteq SharedPairs
        /\ SharedPairs = {} =>
             \A p, q \in Pair :
               Together(p, q) => Together(p, q)' \/ Superseded(p) \/ Superseded(q)]_vars

\* Whatever concurrent searches left behind, a repair that runs by itself leaves
\* no two rows with the same external id: merges of a later column do not undo
\* the work on an earlier one.
RepairHeals == alone /\ (\A w \in Worker : pc[w] = "idle") => SharedPairs = {}

\* Reference: the records connected to the k-th, which are those in every set
\* around it that sharing an external id does not leave.
Connected(rs, k) ==
    LET closed(S) == \A a \in S, b \in DOMAIN rs : rs[a].ids \cap rs[b].ids # {} => b \in S
    IN {b \in DOMAIN rs : \A S \in SUBSET DOMAIN rs : k \in S /\ closed(S) => b \in S}

\* Records with ids of their own that other providers may add to a batch.
FurtherRecords(rs) ==
    LET fresh == {r \in Record : /\ r.id \notin {rs[k].id : k \in DOMAIN rs}
                                /\ r.ids # {}}
    IN {<<>>} \cup {<<r>> : r \in fresh} \cup {<<r, t>> : r, t \in fresh}

\* The first record of each id.
Firsts(rs) == {n \in DOMAIN rs : \A k \in 1..(n - 1) : rs[k].id # rs[n].id}

\* The smallest id of each group of connected records.
GroupIds(rs) ==
    LET first == [n \in Firsts(rs) |-> rs[n]]
    IN {Min({rs[b].id : b \in Connected(first, k)}) : k \in Firsts(rs)}

\* deduplicate_records keeps exactly one id per group of records connected by
\* shared external ids, the smallest, in whatever order the records come, also
\* when a later record joins two groups.  The pass reads nothing but its records,
\* so that further ones are tried only while one worker is active.
DedupeIsExact ==
    \A w \in Worker :
        pc[w] = "persist" =>
            \A more \in (IF overlap THEN {<<>>} ELSE FurtherRecords(job[w].out)) :
                DeduplicatedIds(job[w].out \o more) = GroupIds(job[w].out \o more)
============================================================================
