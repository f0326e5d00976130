--------------------------- MODULE CatalogProofs ---------------------------
(***************************************************************************)
(* Machine-checked proofs about Catalog, for every number of workers, ids, *)
(* providers and payloads, from whatever the table holds at the start:     *)
(* NothingOrphaned, RepairHeals, IdentityKept, the type invariant, and     *)
(* that deduplicate_records keeps the smallest id of each connected group. *)
(*                                                                         *)
(* IndInv adds what a job holds at each point (JobInv, RepairInv), when    *)
(* the history variables promise that nobody else is active (QuietInv),    *)
(* what a worker that is by itself may rely on (SoloInv), and which rows   *)
(* a repair has still to merge (HealInv).                                  *)
(***************************************************************************)
EXTENDS Catalog, FiniteSetTheorems, TLAPS

Merging == {"mergeBackfill", "mergeRepoint", "mergeDelete"}
Resolving == {"find", "allocate", "insert", "backfill"}
Busy(w) == pc[w] # "idle"

RowTypes ==
    /\ rows \subseteq Id
    /\ ext \in [Id -> SUBSET Pair] /\ \A i \in Id : Functional(ext[i])
    /\ \A i \in Id \ rows : ext[i] = {}
    /\ next \in 1..(MaxId + 1) /\ \A i \in rows : i < next
    /\ links \subseteq Id \X Item

JobTypes ==
    /\ pc \in [Worker -> PC] /\ job \in [Worker -> Job]
    /\ overlap \in BOOLEAN /\ batched \in BOOLEAN /\ alone \in BOOLEAN

\* While operations follow each other, and while a repair runs by itself, one
\* worker at most is active.
QuietInv ==
    /\ ~overlap \/ alone => \A v, w \in Worker : Busy(v) /\ Busy(w) => v = w
    /\ alone => \A w \in Worker : Busy(w) => job[w].op = "repair"

\* What a job holds at each point.
JobAt(w) ==
    /\ ~Busy(w) => job[w] = NoJob
    /\ pc[w] \in Merging <=> job[w].dups # {}
    /\ pc[w] \in Merging => job[w].canon \in Id \ job[w].dups
    /\ pc[w] \in {"lookup", "persist"} => job[w].op = "ingest"
    /\ pc[w] \in {"scan", "groups"} => job[w].op = "repair"
    /\ pc[w] = "linkKeys" => job[w].op = "link"
    /\ pc[w] \in Resolving => job[w].op \in {"ingest", "enrich"}
    /\ Busy(w) => job[w].op # "none"
    /\ Busy(w) /\ job[w].op # "repair" /\ pc[w] # "persist" => job[w].todo # <<>>
    /\ job[w].op \in {"ingest", "enrich"} => job[w].keys = {}
    /\ pc[w] \in {"backfill", "linkKeys"} => job[w].canon \in Id
    /\ ~batched => /\ Len(job[w].todo) <= 1
                   /\ pc[w] # "persist" => job[w].out = <<>>
JobInv == \A w \in Worker : JobAt(w)

\* A group has two rows at least, and the groups of a column do not meet, also
\* while one of them is being merged.
RepairAt(w) ==
    job[w].op = "repair" =>
        /\ pc[w] = "scan" => job[w].lookup = {}
        /\ \A e \in job[w].lookup : \E f \in job[w].lookup : f[1] = e[1] /\ f[2] # e[2]
        /\ \A e, f \in job[w].lookup : e[2] = f[2] => e[1] = f[1]
        /\ pc[w] \in Merging => \A e \in job[w].lookup : e[2] \notin job[w].dups \cup {job[w].canon}
RepairInv == \A w \in Worker : RepairAt(w)

\* A worker that nobody disturbs, on one payload, works on rows that exist.
Undisturbed == alone \/ (~overlap /\ ~batched)
SoloAt(w) ==
    /\ pc[w] \in Merging => job[w].canon \in rows /\ job[w].dups \subseteq rows
    /\ pc[w] \in {"backfill", "linkKeys"} => job[w].canon \in rows
    /\ pc[w] = "find" \/ job[w].op = "repair" =>
          \A e \in job[w].lookup : e[2] \in rows /\ e[1] \in ext[e[2]]
    /\ pc[w] = "mergeDelete" => \A l \in links : l[1] # Dup(w)
    /\ pc[w] = "persist" => \E r \in Record : job[w].out = <<r>> /\ r.id \in rows
SoloInv == Undisturbed => \A w \in Worker : Busy(w) => SoloAt(w)

\* An external id that two rows share.
Share(p, i, j) == i \in rows /\ j \in rows /\ i # j /\ p \in ext[i] /\ p \in ext[j]

\* The rows of the group that a worker is merging.
Group(w) == IF pc[w] \in Merging THEN job[w].dups \cup {job[w].canon} ELSE {}

\* Where a repair has passed, rows share an external id only if their group is
\* waiting or being merged; a repair that has ended left none.
HealAt(w) ==
    \A p \in Pair \ job[w].keys : \A i, j \in Id : Share(p, i, j) =>
        \/ <<p, i>> \in job[w].lookup /\ <<p, j>> \in job[w].lookup
        \/ i \in Group(w) /\ j \in Group(w)
HealInv ==
    alone => /\ \A w \in Worker : Busy(w) => HealAt(w)
             /\ (\A w \in Worker : ~Busy(w)) => \A p \in Pair : \A i, j \in Id : ~Share(p, i, j)

IndInv == /\ RowTypes /\ JobTypes /\ QuietInv /\ JobInv /\ RepairInv /\ SoloInv /\ HealInv
          /\ NothingOrphaned

\* The row has an id of the provider.
Provided(i, k) == \E q \in ext[i] : q[1] = k

\* An external id of the payload that is in the table has been found, so that its
\* provider has an id in the worker's group; a duplicate that is deleted leaves
\* none behind; nothing has an id of a payload that gets a new row.
Settled(w) == IF job[w].op = "link" THEN Head(job[w].todo) \ job[w].keys ELSE Head(job[w].todo)
FoundAt(w) ==
    /\ job[w].op # "repair" /\ pc[w] \in Merging \cup {"backfill", "linkKeys"} =>
          \A p \in Settled(w) :
              Having(p) # {} => \E i \in job[w].dups \cup {job[w].canon} : Provided(i, p[1])
    /\ pc[w] \in {"mergeRepoint", "mergeDelete"} =>
          \A q \in ext[Dup(w)] : Provided(job[w].canon, q[1])
    /\ pc[w] \in {"allocate", "insert"} => \A p \in Head(job[w].todo) : Having(p) = {}
FoundInv == ~overlap /\ ~batched => \A w \in Worker : FoundAt(w)

-----------------------------------------------------------------------------
(* Numbers and sets. *)

Less == {p \in Nat \X Nat : p[1] < p[2]}

\* preferred_catalog_id, and the first and the last row of a query.
LEMMA Ends ==
    ASSUME NEW S \in SUBSET Id, S # {}
    PROVE  /\ Min(S) \in S /\ \A i \in S : Min(S) <= i
           /\ Max(S) \in S /\ \A i \in S : Max(S) >= i
<1>0. MaxId \in Nat /\ S \subseteq Nat
  BY CatalogOps DEF Id
<1>1. IsWellFoundedOn(Less, Nat)
  BY NatLessThanWellFounded DEF OpToRel, Less
<1>2. \E m \in S : \A i \in S : m <= i
  <2>1. PICK m \in S : \A i \in S : <<i, m>> \notin Less
    BY <1>0, <1>1, WFMin
  <2>2. ASSUME NEW i \in S PROVE m <= i
    <3>1. <<i, m>> \in Nat \X Nat /\ ~(i < m)
      BY <1>0, <2>1 DEF Less
    <3> QED
      BY <1>0, <3>1
  <2> QED
    BY <2>2
<1>3. \E m \in S : \A i \in S : m >= i
  <2> DEFINE D == {MaxId - i : i \in S}
  <2>1. D \subseteq Nat /\ D # {}
    BY <1>0 DEF Id
  <2>2. PICK d \in D : \A e \in D : <<e, d>> \notin Less
    <3> HIDE DEF D
    <3> QED
      BY <1>1, <2>1, WFMin
  <2>3. PICK m \in S : d = MaxId - m
    OBVIOUS
  <2>4. ASSUME NEW i \in S PROVE m >= i
    <3>1. MaxId - i \in D /\ MaxId - i \in Nat /\ d \in Nat
      BY <2>1
    <3>2. ~(MaxId - i < MaxId - m)
      BY <2>2, <2>3, <3>1 DEF Less
    <3> QED
      BY <1>0, <3>2
  <2> QED
    BY <2>4
<1> QED
  BY <1>2, <1>3 DEF Min, Max

\* A finite set in which no two elements differ counts at most one.
LEMMA AtMostOne ==
    ASSUME NEW S \in SUBSET Id
    PROVE  Cardinality(S) > 1 <=> \E i, j \in S : i # j
<1>1. IsFiniteSet(S) /\ Cardinality(S) \in Nat
  <2>1. IsFiniteSet(Id)
    BY CatalogOps, FS_Interval DEF Id
  <2> QED
    BY <2>1, FS_Subset, FS_CardinalityType
<1>2. ASSUME NEW i \in S, NEW j \in S, i # j PROVE Cardinality(S) > 1
  <2>1. Cardinality({i, j}) = 2 /\ {i, j} \subseteq S
    <3>1. IsFiniteSet({i}) /\ Cardinality({i}) = 1 /\ j \notin {i} /\ {i} \cup {j} = {i, j}
      BY <1>2, FS_Singleton
    <3>2. Cardinality({i} \cup {j}) = Cardinality({i}) + 1
      BY <3>1, FS_AddElement
    <3> QED
      BY <3>1, <3>2
  <2>2. Cardinality({i, j}) <= Cardinality(S)
    BY <1>1, <2>1, FS_Subset
  <2> QED
    BY <1>1, <2>1, <2>2
<1>3. ASSUME \A i, j \in S : i = j PROVE ~(Cardinality(S) > 1)
  <2>1. CASE S = {}
    BY <2>1, FS_EmptySet
  <2>2. CASE S # {}
    <3>1. PICK i \in S : S = {i}
      BY <1>3, <2>2
    <3> QED
      BY <3>1, FS_Singleton
  <2> QED
    BY <2>1, <2>2
<1> QED
  BY <1>2, <1>3

\* NoId is no row.
LEMMA Names == MaxId \in Nat /\ NoId \notin Id
  BY CatalogOps DEF NoId, Id

\* FindFirst, FindLast: rows that have the external id, if there are any.
LEMMA FoundRow ==
    ASSUME rows \subseteq Id, NEW p
    PROVE  /\ Having(p) \subseteq rows
           /\ FindFirst(p) = NoId <=> Having(p) = {}
           /\ FindFirst(p) # NoId => FindFirst(p) \in Having(p) /\ FindFirst(p) \in Id
<1>1. Having(p) \subseteq rows
  BY DEF Having
<1>2. Having(p) # {} => Min(Having(p)) \in Having(p)
  BY <1>1, Ends
<1> QED
  BY <1>1, <1>2, Names DEF FindFirst

\* The duplicate that is merged next is one of them.
LEMMA DupIn ==
    ASSUME NEW w \in Worker, job[w].dups \in SUBSET Id, job[w].dups # {}
    PROVE  Dup(w) \in job[w].dups /\ Dup(w) \in Id
  BY Ends DEF Dup

\* UPDATE ... WHERE key IS NULL keeps what a row has and one id per provider.
LEMMA FilledRow ==
    ASSUME RowTypes, NEW c \in Id, NEW ps \in SUBSET Pair, Functional(ps)
    PROVE  /\ Filled(c, ps) \in [Id -> SUBSET Pair]
           /\ \A i \in Id : Functional(Filled(c, ps)[i])
           /\ \A i \in Id \ {c} : Filled(c, ps)[i] = ext[i]
           /\ ext[c] \subseteq Filled(c, ps)[c]
           /\ \A p \in Filled(c, ps)[c] : p \in ext[c] \/ (p \in ps /\ c \in rows)
           /\ \A i \in Id \ rows : Filled(c, ps)[i] = {}
<1> DEFINE add == {p \in ps : \A q \in ext[c] : q[1] # p[1]}
<1>1. CASE c \notin rows
  BY <1>1 DEF Filled, RowTypes
<1>2. CASE c \in rows
  <2>1. Filled(c, ps) = [ext EXCEPT ![c] = ext[c] \cup add]
    BY <1>2 DEF Filled
  <2>2. Functional(ext[c] \cup add)
    BY DEF RowTypes, Functional
  <2> QED
    BY <1>2, <2>1, <2>2 DEF RowTypes
<1> QED
  BY <1>1, <1>2

\* Payloads are sets of external ids, at most one per provider.
LEMMA PayloadPairs == \A ps \in Payloads : ps \in SUBSET Pair /\ Functional(ps) /\ ps # {}
  BY CatalogPayloads DEF Pair

\* The job of an idle worker.
LEMMA NoJobType ==
    /\ NoJob \in Job
    /\ NoJob.op = "none" /\ NoJob.dups = {} /\ NoJob.keys = {} /\ NoJob.lookup = {}
    /\ NoJob.todo = <<>> /\ NoJob.out = <<>> /\ Len(NoJob.todo) = 0
  BY Names DEF NoJob, Job

-----------------------------------------------------------------------------
(* Induction and folds, over sets instead of predicates. *)

\* A set of numbers that has 0 and the successor of each of its members has all.
LEMMA Naturals ==
    ASSUME NEW G, 0 \in G, \A n \in Nat : n \in G => n + 1 \in G
    PROVE  Nat \subseteq G
<1> SUFFICES ASSUME Nat \ G # {} PROVE FALSE
  OBVIOUS
<1>1. IsWellFoundedOn(Less, Nat)
  BY NatLessThanWellFounded DEF OpToRel, Less
<1>2. PICK m \in Nat \ G : \A i \in Nat \ G : <<i, m>> \notin Less
  BY <1>1, WFMin
<1>3. m # 0 /\ m - 1 \in Nat
  OBVIOUS
<1>4. m - 1 \in G
  <2>1. <<m - 1, m>> \in Less
    BY <1>3 DEF Less
  <2> QED
    BY <1>2, <1>3, <2>1
<1> QED
  BY <1>3, <1>4

\* G has a set when it has what is left without the element that is picked.
Grows(G, S, pick) == \A s \in SUBSET S : s # {} /\ s \ {pick[s]} \in G => s \in G

\* A set of subsets of a finite set that has the empty set, and every set of
\* which it has what is left without the element that is picked, has the whole.
LEMMA Subsets ==
    ASSUME NEW S, IsFiniteSet(S), NEW pick, \A s \in SUBSET S : s # {} => pick[s] \in s,
           NEW G, {} \in G, Grows(G, S, pick)
    PROVE  S \in G
<1> DEFINE D == {n \in Nat : \A s \in SUBSET S : Cardinality(s) = n => s \in G}
<1>1. 0 \in D
  BY FS_Subset, FS_EmptySet
<1>2. ASSUME NEW n \in Nat, n \in D PROVE n + 1 \in D
  <2>1. ASSUME NEW s \in SUBSET S, Cardinality(s) = n + 1 PROVE s \in G
    <3>1. IsFiniteSet(s) /\ s # {} /\ pick[s] \in s
      BY <2>1, FS_Subset, FS_EmptySet
    <3> DEFINE x == pick[s]
    <3>2. Cardinality(s \ {x}) = n
      <4> HIDE DEF x, D
      <4>1. Cardinality(s \ {x}) = IF x \in s THEN Cardinality(s) - 1 ELSE Cardinality(s)
        BY <3>1, FS_RemoveElement
      <4>2. x \in s
        BY <3>1 DEF x
      <4> QED
        BY <2>1, <4>1, <4>2
    <3> QED
      BY <1>2, <3>1, <3>2 DEF Grows
  <2> QED
    BY <2>1
<1>3. Nat \subseteq D
  <2> HIDE DEF D
  <2> QED
    BY <1>1, <1>2, Naturals
<1> QED
  BY <1>3, FS_CardinalityType

\* g is the fold of step over the subsets of S.
FoldOf(g, S, pick, base, step) ==
    \A s \in SUBSET S : g[s] = IF s = {} THEN base ELSE step[<<pick[s], g[s \ {pick[s]}]>>]

\* A fold over a finite set is defined.
LEMMA FoldDefined ==
    ASSUME NEW S, IsFiniteSet(S), NEW pick, \A s \in SUBSET S : s # {} => pick[s] \in s,
           NEW A, NEW base \in A, NEW step \in [S \X A -> A]
    PROVE  \E g \in [SUBSET S -> A] : FoldOf(g, S, pick, base, step)
<1> DEFINE Of(n) == {s \in SUBSET S : Cardinality(s) <= n}
           Fold(n, g) == \A s \in Of(n) :
                            g[s] = IF s = {} THEN base ELSE step[<<pick[s], g[s \ {pick[s]}]>>]
           D == {n \in Nat : \E g \in [Of(n) -> A] : Fold(n, g)}
<1>0. /\ {} \in SUBSET S /\ Cardinality({}) = 0
      /\ \A s \in SUBSET S : IsFiniteSet(s) /\ Cardinality(s) \in Nat /\ (Cardinality(s) = 0 <=> s = {})
  BY FS_Subset, FS_EmptySet, FS_CardinalityType
<1>1. 0 \in D
  <2>1. \A s \in Of(0) : s = {}
    BY <1>0
  <2>2. [s \in Of(0) |-> base] \in [Of(0) -> A] /\ Fold(0, [s \in Of(0) |-> base])
    BY <2>1
  <2> QED
    BY <2>2
<1>2. ASSUME NEW n \in Nat, n \in D PROVE n + 1 \in D
  <2>1. PICK g \in [Of(n) -> A] : Fold(n, g)
    BY <1>2
  <2> DEFINE h == [s \in Of(n + 1) |->
                     IF s = {} THEN base ELSE step[<<pick[s], g[s \ {pick[s]}]>>]]
  <2>2. ASSUME NEW s \in Of(n + 1), s # {} PROVE s \ {pick[s]} \in Of(n) /\ pick[s] \in S
    <3>1. Cardinality(s \ {pick[s]}) = Cardinality(s) - 1 /\ pick[s] \in s
      BY <1>0, <2>2, FS_RemoveElement
    <3> QED
      BY <1>0, <3>1
  <2>3. \A s \in Of(n) : s \in Of(n + 1) /\ h[s] = g[s]
    <3>1. \A s \in Of(n) : s \in Of(n + 1)
      BY <1>0
    <3> QED
      BY <2>1, <3>1
  <2>4. h \in [Of(n + 1) -> A]
    <3>1. ASSUME NEW s \in Of(n + 1) PROVE h[s] \in A
      <4>1. CASE s = {}
        BY <4>1
      <4>2. CASE s # {}
        <5>1. <<pick[s], g[s \ {pick[s]}]>> \in S \X A
          BY <2>1, <2>2, <4>2
        <5> QED
          BY <4>2, <5>1
      <4> QED
        BY <4>1, <4>2
    <3> QED
      BY <3>1
  <2>5. Fold(n + 1, h)
    BY <2>2, <2>3
  <2> HIDE DEF h, Fold, Of
  <2> QED
    BY <2>4, <2>5
<1>3. Cardinality(S) \in D
  <2> HIDE DEF D
  <2> QED
    BY <1>0, <1>1, <1>2, Naturals
<1>4. Of(Cardinality(S)) = SUBSET S
  BY FS_Subset
<1>5. PICK g \in [Of(Cardinality(S)) -> A] : Fold(Cardinality(S), g)
  BY <1>3
<1>6. FoldOf(g, S, pick, base, step)
  BY <1>4, <1>5 DEF FoldOf
<1> QED
  BY <1>4, <1>5, <1>6

\* The last index of a set of indices, and what is left of an interval without it.
LEMMA Greatest ==
    ASSUME NEW n \in Nat, NEW s \in SUBSET (1..n), s # {}
    PROVE  /\ Max(s) \in s
           /\ \A m \in 1..n : s = 1..m => Max(s) = m /\ s \ {Max(s)} = 1..(m - 1)
<1> DEFINE D == {k \in Nat : k <= n => \A t \in SUBSET (1..k) :
                                 t # {} => \E x \in t : \A y \in t : x >= y}
<1>1. 0 \in D
  <2>1. 1..0 = {}
    OBVIOUS
  <2> QED
    BY <2>1
<1>2. ASSUME NEW k \in Nat, k \in D PROVE k + 1 \in D
  <2> SUFFICES ASSUME k + 1 <= n, NEW t \in SUBSET (1..(k + 1)), t # {}
               PROVE  \E x \in t : \A y \in t : x >= y
    OBVIOUS
  <2>1. CASE k + 1 \in t
    BY <2>1
  <2>2. CASE k + 1 \notin t
    <3>1. t \in SUBSET (1..k) /\ k <= n
      BY <2>2
    <3> QED
      BY <1>2, <3>1
  <2> QED
    BY <2>1, <2>2
<1>3. n \in D
  <2> HIDE DEF D
  <2> QED
    BY <1>1, <1>2, Naturals
<1>4. PICK x \in s : \A y \in s : x >= y
  BY <1>3
<1>5. Max(s) = x
  <2>1. \A k \in s : (\A y \in s : k >= y) => k = x
    BY <1>4
  <2> QED
    BY <1>4, <2>1 DEF Max
<1>6. ASSUME NEW m \in 1..n, s = 1..m PROVE x = m /\ s \ {x} = 1..(m - 1)
  <2>1. x = m
    BY <1>4, <1>6
  <2> QED
    BY <1>6, <2>1
<1> QED
  BY <1>5, <1>6

\* The least member of a set of numbers.
LEMMA Least ==
    ASSUME NEW S, S \subseteq Nat, NEW m \in S, \A y \in S : m <= y
    PROVE  Min(S) = m
<1>1. \A k \in S : (\A y \in S : k <= y) => k = m
  <2> SUFFICES ASSUME NEW k \in S, \A y \in S : k <= y PROVE k = m
    OBVIOUS
  <2> QED
    OBVIOUS
<1> QED
  BY <1>1 DEF Min

-----------------------------------------------------------------------------
(* deduplicate_records. *)

\* The ids of records, and a set of ids that sharing does not leave.
IdsOf(rs) == {rs[k].id : k \in DOMAIN rs}
Closed(rs, S) ==
    \A a, b \in DOMAIN rs :
        rs[a].id \in S /\ rs[a].ids \cap rs[b].ids # {} => rs[b].id \in S

\* A table of roots: each is the least of those that lead to it, and a set that
\* sharing does not leave has an id with its root or not at all.
Rooted(rs, root) ==
    /\ root \in [IdsOf(rs) -> IdsOf(rs)]
    /\ \A i \in IdsOf(rs) : root[i] <= i /\ root[root[i]] = root[i]
    /\ \A S \in SUBSET IdsOf(rs) : Closed(rs, S) =>
          \A i \in IdsOf(rs) : i \in S <=> root[i] \in S

\* What is one group under the first table of roots is one under the second.
Coarser(rs, root, new) ==
    \A i, j \in IdsOf(rs) : root[i] = root[j] => new[i] = new[j]

\* The ids of a sequence of records are rows of the catalogue's key space.
LEMMA IdsAreIds == ASSUME NEW rs \in Seq(Record) PROVE IdsOf(rs) \subseteq Id
<1>1. \A k \in DOMAIN rs : rs[k] \in Record
  OBVIOUS
<1> QED
  BY <1>1 DEF IdsOf, Record

\* union(a, b) of two connected ids.
LEMMA UnionStep ==
    ASSUME NEW rs \in Seq(Record), NEW root, Rooted(rs, root),
           NEW a \in IdsOf(rs), NEW b \in IdsOf(rs),
           \A S \in SUBSET IdsOf(rs) : Closed(rs, S) => (a \in S <=> b \in S)
    PROVE  /\ Rooted(rs, Union(root, a, b)) /\ Coarser(rs, root, Union(root, a, b))
           /\ Union(root, a, b)[a] = Union(root, a, b)[b]
<1> DEFINE I == IdsOf(rs)
           best == Min({root[a], root[b]})
           new == [i \in I |-> IF root[i] \in {root[a], root[b]} THEN best ELSE root[i]]
<1>0. a \in I /\ b \in I
  OBVIOUS
<1>1. I \subseteq Id /\ Id \subseteq Nat
  BY IdsAreIds DEF Id
<1>2. root \in [I -> I] /\ DOMAIN root = I
  BY DEF Rooted
<1>3. best \in {root[a], root[b]} /\ best <= root[a] /\ best <= root[b]
  <2>1. root[a] \in Nat /\ root[b] \in Nat
    <3> HIDE DEF I
    <3> QED
      BY <1>0, <1>1, <1>2
  <2>2. PICK m \in {root[a], root[b]} : m <= root[a] /\ m <= root[b]
    BY <2>1
  <2>3. best = m
    BY <2>1, <2>2, Least
  <2> QED
    BY <2>2, <2>3
<1>4. Union(root, a, b) = new
  BY <1>2 DEF Union, Preferred
<1>5. new \in [I -> I]
  <2> HIDE DEF I, best
  <2> QED
    BY <1>0, <1>2, <1>3
<1>6. \A i \in I : new[i] <= i
  <2> HIDE DEF I, best
  <2>1. \A i \in I : root[i] <= i
    BY DEF Rooted, I
  <2> QED
    <3>1. ASSUME NEW i \in I PROVE new[i] <= i
      <4>1. root[i] \in Nat /\ i \in Nat /\ best \in Nat /\ root[i] <= i
        BY <1>0, <1>1, <1>2, <1>3, <2>1
      <4>2. new[i] = IF root[i] \in {root[a], root[b]} THEN best ELSE root[i]
        OBVIOUS
      <4>3. root[i] \in {root[a], root[b]} => best <= root[i]
        BY <1>3
      <4> HIDE DEF new
      <4> QED
        BY <4>1, <4>2, <4>3
    <3> QED
      BY <3>1
<1>7. \A i \in I : new[new[i]] = new[i]
  <2> HIDE DEF I, best
  <2>1. \A i \in I : root[root[i]] = root[i]
    BY DEF Rooted, I
  <2> QED
    BY <1>0, <1>2, <1>3, <2>1
<1>8. ASSUME NEW S \in SUBSET I, Closed(rs, S), NEW i \in I PROVE i \in S <=> new[i] \in S
  <2>1. \A j \in I : j \in S <=> root[j] \in S
    BY <1>8 DEF Rooted
  <2>2. a \in S <=> b \in S
    BY <1>8
  <2> HIDE DEF I, best
  <2> QED
    BY <1>0, <1>2, <1>3, <2>1, <2>2
<1>9. Rooted(rs, new)
  BY <1>5, <1>6, <1>7, <1>8 DEF Rooted
<1>10. Coarser(rs, root, new) /\ new[a] = new[b]
  BY DEF Coarser
<1> QED
  BY <1>4, <1>9, <1>10

\* A record joins every id that its external ids were seen under.
LEMMA JoinSeenIs ==
    ASSUME NEW rs \in Seq(Record), NEW root, Rooted(rs, root),
           NEW n \in DOMAIN rs, NEW E, IsFiniteSet(E),
           \A e \in E : \E m \in DOMAIN rs : rs[m].id = e[2] /\ e[1] \in rs[m].ids \cap rs[n].ids
    PROVE  /\ Rooted(rs, JoinSeen(root, rs[n], E)) /\ Coarser(rs, root, JoinSeen(root, rs[n], E))
           /\ \A e \in E : JoinSeen(root, rs[n], E)[e[2]] = JoinSeen(root, rs[n], E)[rs[n].id]
<1> DEFINE I == IdsOf(rs)
           x == rs[n].id
           A == {r \in [I -> I] : Rooted(rs, r)}
           pick == [s \in SUBSET E |-> CHOOSE e \in s : TRUE]
           step == [t \in E \X A |-> Union(t[2], x, t[1][2])]
           body(f) == [s \in SUBSET E |-> IF s = {} THEN root
                         ELSE LET e == CHOOSE y \in s : TRUE IN Union(f[s \ {e}], x, e[2])]
           it == CHOOSE f : f = body(f)
<1>1. \A s \in SUBSET E : s # {} => pick[s] \in s
  OBVIOUS
<1>2. ASSUME NEW e \in E, NEW r \in A
      PROVE  /\ Union(r, x, e[2]) \in A /\ Coarser(rs, r, Union(r, x, e[2]))
             /\ Union(r, x, e[2])[e[2]] = Union(r, x, e[2])[x]
  <2>1. PICK m \in DOMAIN rs : rs[m].id = e[2] /\ e[1] \in rs[m].ids \cap rs[n].ids
    OBVIOUS
  <2>2. x \in I /\ e[2] \in I
    BY <2>1 DEF IdsOf
  <2>3. \A S \in SUBSET I : Closed(rs, S) => (x \in S <=> e[2] \in S)
    BY <2>1 DEF Closed
  <2> HIDE DEF x
  <2>4. /\ Rooted(rs, Union(r, x, e[2])) /\ Coarser(rs, r, Union(r, x, e[2]))
        /\ Union(r, x, e[2])[e[2]] = Union(r, x, e[2])[x]
    BY <2>2, <2>3, UnionStep
  <2> QED
    BY <2>4 DEF Rooted
<1>3. root \in A /\ step \in [E \X A -> A]
  <2>1. root \in A
    BY DEF Rooted
  <2>2. \A t \in E \X A : Union(t[2], x, t[1][2]) \in A
    <3> HIDE DEF A, x
    <3> QED
      BY <1>2
  <2> HIDE DEF A, x
  <2> QED
    BY <2>1, <2>2
<1>4. PICK g \in [SUBSET E -> A] : FoldOf(g, E, pick, root, step)
  <2> HIDE DEF A, step, pick
  <2> QED
    BY <1>1, <1>3, FoldDefined
<1>5. g = body(g)
  <2>0. \A s \in SUBSET E : g[s] = IF s = {} THEN root ELSE step[<<pick[s], g[s \ {pick[s]}]>>]
    BY <1>4 DEF FoldOf
  <2>1. ASSUME NEW s \in SUBSET E, s # {}
        PROVE  g[s] = Union(g[s \ {pick[s]}], x, pick[s][2])
    <3>1. <<pick[s], g[s \ {pick[s]}]>> \in E \X A
      <4> HIDE DEF A, step, pick
      <4> QED
        BY <1>1, <1>4, <2>1
    <3> HIDE DEF A, pick, x
    <3> QED
      BY <2>0, <2>1, <3>1
  <2>2. \A s \in SUBSET E : g[s] = body(g)[s]
    <3> HIDE DEF A, x, step
    <3> QED
      BY <2>0, <2>1
  <2> HIDE DEF A, x, step, pick
  <2> QED
    BY <2>2
<1>6. it = body(it)
  <2> HIDE DEF body
  <2> QED
    BY <1>5
<1>7. JoinSeen(root, rs[n], E) = it[E]
  BY DEF JoinSeen, FoldSet, MapThenFoldSet
<1>8. /\ it[{}] = root
      /\ \A s \in SUBSET E : s # {} => it[s] = Union(it[s \ {pick[s]}], x, pick[s][2])
  <2> HIDE DEF it, x
  <2> QED
    BY <1>6
<1> DEFINE Good(s) == /\ it[s] \in A /\ Coarser(rs, root, it[s])
                      /\ \A e \in s : it[s][e[2]] = it[s][x]
           G == {s \in SUBSET E : Good(s)}
<1>9. {} \in G
  <2> HIDE DEF it, A, x
  <2> QED
    BY <1>3, <1>8 DEF Coarser
<1>10. ASSUME NEW s \in SUBSET E, s # {}, s \ {pick[s]} \in G PROVE s \in G
  <2> DEFINE old == it[s \ {pick[s]}]
  <2>1. pick[s] \in s /\ pick[s] \in E /\ it[s] = Union(old, x, pick[s][2])
    <3> HIDE DEF it, x, pick
    <3> QED
      BY <1>1, <1>8, <1>10
  <2>2. old \in A /\ Coarser(rs, root, old) /\ \A e \in s \ {pick[s]} : old[e[2]] = old[x]
    <3> HIDE DEF it, A, x, pick
    <3> QED
      BY <1>10
  <2>3. it[s] \in A /\ Coarser(rs, old, it[s]) /\ it[s][pick[s][2]] = it[s][x]
    <3> HIDE DEF it, A, x, pick, old
    <3> QED
      BY <1>2, <2>1, <2>2
  <2>4. \A e \in E : e[2] \in I
    BY DEF IdsOf
  <2>5. x \in I
    BY DEF IdsOf
  <2>6. \A e \in s : it[s][e[2]] = it[s][x]
    <3> HIDE DEF it, A, x, pick, old
    <3> QED
      BY <2>2, <2>3, <2>4, <2>5 DEF Coarser
  <2>7. Coarser(rs, root, it[s])
    <3> HIDE DEF it, A, x, pick, old
    <3> QED
      BY <2>2, <2>3 DEF Coarser
  <2> HIDE DEF it, A, x, pick, old
  <2> QED
    BY <2>3, <2>6, <2>7
<1>11. E \in G
  <2>1. Grows(G, E, pick)
    BY <1>10 DEF Grows
  <2> HIDE DEF G, pick
  <2> QED
    BY <1>1, <1>9, <2>1, Subsets
<1> HIDE DEF it, x
<1> QED
  BY <1>7, <1>11 DEF x

\* What the pass has noted is true of the records.
Acc(rs) ==
    {acc \in [root : [IdsOf(rs) -> IdsOf(rs)], seen : SUBSET (Pair \X IdsOf(rs))] :
        /\ Rooted(rs, acc.root) /\ IsFiniteSet(acc.seen)
        /\ \A e \in acc.seen : \E m \in DOMAIN rs : rs[m].id = e[2] /\ e[1] \in rs[m].ids}

\* A record has finitely many external ids: one per provider.
LEMMA FiniteIds == ASSUME NEW r \in Record PROVE IsFiniteSet(r.ids) /\ r.ids \subseteq Pair
<1>1. r.ids \in SUBSET Pair /\ Functional(r.ids)
  BY DEF Record
<1>2. \A p \in r.ids : p[1] \in Key
  BY <1>1, CatalogPayloads DEF Pair
<1> DEFINE f == [p \in r.ids |-> p[1]]
<1>3. f \in Injection(r.ids, Key)
  BY <1>1, <1>2 DEF Functional, Injection, IsInjective
<1>4. IsFiniteSet(Key)
  BY CatalogPayloads
<1> QED
  BY <1>1, <1>3, <1>4, FS_Injection

\* One record of the pass.
LEMMA VisitStep ==
    ASSUME NEW rs \in Seq(Record), NEW n \in DOMAIN rs, NEW acc \in Acc(rs)
    PROVE  /\ Visit(acc, rs[n]) \in Acc(rs)
           /\ Coarser(rs, acc.root, Visit(acc, rs[n]).root)
           /\ \A e \in acc.seen : e[1] \in rs[n].ids =>
                 Visit(acc, rs[n]).root[e[2]] = Visit(acc, rs[n]).root[rs[n].id]
           /\ Visit(acc, rs[n]).seen =
                 acc.seen \cup ((rs[n].ids \ {e[1] : e \in {d \in acc.seen : d[1] \in rs[n].ids}})
                                \X {rs[n].id})
<1> DEFINE r == rs[n]
           shared == {e \in acc.seen : e[1] \in r.ids}
           new == r.ids \ {e[1] : e \in shared}
           root == JoinSeen(acc.root, r, shared)
           seen == acc.seen \cup (new \X {r.id})
<1>1. Visit(acc, r) = [root |-> root, seen |-> seen]
  BY DEF Visit
<1>2. r \in Record /\ r.id \in IdsOf(rs)
  BY DEF IdsOf
<1>3. /\ Rooted(rs, acc.root) /\ IsFiniteSet(acc.seen) /\ acc.seen \in SUBSET (Pair \X IdsOf(rs))
      /\ \A e \in acc.seen : \E m \in DOMAIN rs : rs[m].id = e[2] /\ e[1] \in rs[m].ids
  BY DEF Acc
<1>4. IsFiniteSet(shared)
  BY <1>3, FS_Subset
<1>5. /\ Rooted(rs, root) /\ Coarser(rs, acc.root, root)
      /\ \A e \in shared : root[e[2]] = root[r.id]
  <2>1. \A e \in shared : \E m \in DOMAIN rs : rs[m].id = e[2] /\ e[1] \in rs[m].ids \cap rs[n].ids
    BY <1>3
  <2> HIDE DEF shared
  <2> QED
    BY <1>3, <1>4, <2>1, JoinSeenIs
<1>6. IsFiniteSet(seen)
  <2>1. IsFiniteSet(new)
    BY <1>2, FiniteIds, FS_Subset
  <2>2. IsFiniteSet(new \X {r.id})
    <3> HIDE DEF new
    <3> QED
      BY <2>1, FS_Product, FS_Singleton
  <2> HIDE DEF new
  <2> QED
    BY <1>3, <2>2, FS_Union
<1>7. seen \in SUBSET (Pair \X IdsOf(rs))
  <2>1. new \subseteq Pair
    BY <1>2, FiniteIds
  <2> HIDE DEF new
  <2> QED
    BY <1>2, <1>3, <2>1
<1>8. \A e \in seen : \E m \in DOMAIN rs : rs[m].id = e[2] /\ e[1] \in rs[m].ids
  BY <1>3
<1>9. [root |-> root, seen |-> seen] \in Acc(rs)
  <2> HIDE DEF root, seen
  <2> QED
    BY <1>5, <1>6, <1>7, <1>8 DEF Acc, Rooted
<1> HIDE DEF root, seen
<1> QED
  BY <1>1, <1>5, <1>9 DEF seen

\* The pass: a table of roots under which connected records have one root.
LEMMA JoinedIs ==
    ASSUME NEW rs \in Seq(Record)
    PROVE  /\ Rooted(rs, Joined(rs))
           /\ \A a, b \in DOMAIN rs : rs[a].ids \cap rs[b].ids # {} =>
                 Joined(rs)[rs[a].id] = Joined(rs)[rs[b].id]
<1> DEFINE n == Len(rs)
           S == 1..n
           A == Acc(rs)
           base == [root |-> [i \in {rs[k].id : k \in DOMAIN rs} |-> i], seen |-> {}]
           pick == [s \in SUBSET S |-> Max(s)]
           step == [t \in S \X A |-> Visit(t[2], rs[t[1]])]
           body(f) == [s \in SUBSET S |-> IF s = {} THEN base
                          ELSE LET x == Max(s) IN Visit(f[s \ {x}], rs[x])]
           it == CHOOSE f : f = body(f)
<1>0. n \in Nat /\ DOMAIN rs = S /\ IsFiniteSet(S)
  BY FS_Interval
<1>1. \A s \in SUBSET S : s # {} => pick[s] \in s
  BY <1>0, Greatest
<1>2. base \in A
  <2>1. base.root \in [IdsOf(rs) -> IdsOf(rs)] /\ \A i \in IdsOf(rs) : base.root[i] = i
    BY DEF IdsOf
  <2>2. \A i \in IdsOf(rs) : i <= i
    BY IdsAreIds DEF Id
  <2>3. Rooted(rs, base.root)
    <3> HIDE DEF base
    <3> QED
      BY <2>1, <2>2 DEF Rooted
  <2>4. base.seen = {} /\ base = [root |-> base.root, seen |-> base.seen] /\ IsFiniteSet({})
    BY FS_EmptySet
  <2> HIDE DEF base
  <2> QED
    BY <2>1, <2>3, <2>4 DEF Acc
<1>3. step \in [S \X A -> A]
  <2>1. \A t \in S \X A : Visit(t[2], rs[t[1]]) \in A
    BY <1>0, VisitStep
  <2> HIDE DEF A, S
  <2> QED
    BY <2>1
<1>4. PICK g \in [SUBSET S -> A] : FoldOf(g, S, pick, base, step)
  <2> HIDE DEF A, S, base, step, pick
  <2> QED
    BY <1>0, <1>1, <1>2, <1>3, FoldDefined
<1>5. g = body(g)
  <2>0. \A s \in SUBSET S : g[s] = IF s = {} THEN base ELSE step[<<pick[s], g[s \ {pick[s]}]>>]
    BY <1>4 DEF FoldOf
  <2>1. ASSUME NEW s \in SUBSET S, s # {}
        PROVE  g[s] = Visit(g[s \ {pick[s]}], rs[pick[s]])
    <3>1. <<pick[s], g[s \ {pick[s]}]>> \in S \X A
      <4> HIDE DEF A, S, step, pick
      <4> QED
        BY <1>1, <1>4, <2>1
    <3> HIDE DEF A, S, pick, base
    <3> QED
      BY <2>0, <2>1, <3>1
  <2>2. \A s \in SUBSET S : g[s] = body(g)[s]
    <3> HIDE DEF A, S, base, step
    <3> QED
      BY <2>0, <2>1
  <2> HIDE DEF A, S, base, step, pick
  <2> QED
    BY <2>2
<1>6. it = body(it)
  <2> HIDE DEF body
  <2> QED
    BY <1>5
<1>7. Joined(rs) = it[S].root
  BY <1>0 DEF Joined, FoldLeft, MapThenFoldSet
<1>8. /\ it[1..0] = base
      /\ \A m \in S : it[1..m] = Visit(it[1..(m - 1)], rs[m])
  <2>1. \A s \in SUBSET S : it[s] = IF s = {} THEN base ELSE Visit(it[s \ {Max(s)}], rs[Max(s)])
    <3> HIDE DEF it, base, S
    <3> QED
      BY <1>6
  <2>2. \A m \in S : 1..m \in SUBSET S /\ 1..m # {}
    BY <1>0
  <2>3. \A m \in S : Max(1..m) = m /\ (1..m) \ {Max(1..m)} = 1..(m - 1)
    BY <1>0, <2>2, Greatest
  <2>4. 1..0 = {} /\ {} \in SUBSET S
    OBVIOUS
  <2> HIDE DEF it, base, S
  <2> QED
    BY <2>1, <2>2, <2>3, <2>4
<1> DEFINE Good(m) ==
              /\ it[1..m] \in A
              /\ \A a \in 1..m : \A p \in rs[a].ids :
                    /\ \E e \in it[1..m].seen : e[1] = p
                    /\ \A e \in it[1..m].seen : e[1] = p =>
                          it[1..m].root[e[2]] = it[1..m].root[rs[a].id]
           D == {m \in Nat : m <= n => Good(m)}
<1>9. 0 \in D
  <2>1. 1..0 = {}
    OBVIOUS
  <2>2. it[1..0] \in A
    <3> HIDE DEF it, base, A
    <3> QED
      BY <1>2, <1>8
  <2> HIDE DEF it, A
  <2> QED
    BY <2>1, <2>2
<1>10. ASSUME NEW k \in Nat, k \in D PROVE k + 1 \in D
  <2> SUFFICES ASSUME k + 1 <= n PROVE Good(k + 1)
    <3> HIDE DEF Good, n
    <3> QED
      OBVIOUS
  <2>1. k + 1 \in DOMAIN rs /\ (k + 1) - 1 = k /\ Good(k)
    <3>1. k <= n /\ k + 1 \in S /\ (k + 1) - 1 = k
      BY <1>0
    <3> HIDE DEF Good, n, S
    <3> QED
      BY <1>0, <1>10, <3>1
  <2> DEFINE old == it[1..k]
             now == it[1..(k + 1)]
             r == rs[k + 1]
             new == r.ids \ {e[1] : e \in {d \in old.seen : d[1] \in r.ids}}
  <2>2. now = Visit(old, r)
    <3> HIDE DEF it
    <3> QED
      BY <1>0, <1>8, <2>1
  <2>3. /\ old \in A
        /\ \A a \in 1..k : \A p \in rs[a].ids :
              /\ \E e \in old.seen : e[1] = p
              /\ \A e \in old.seen : e[1] = p => old.root[e[2]] = old.root[rs[a].id]
    <3> HIDE DEF it, A
    <3> QED
      BY <2>1
  <2>4. /\ now \in A /\ Coarser(rs, old.root, now.root)
        /\ \A e \in old.seen : e[1] \in r.ids => now.root[e[2]] = now.root[r.id]
        /\ now.seen = old.seen \cup (new \X {r.id})
    <3> HIDE DEF it, now, old
    <3> QED
      BY <2>1, <2>2, <2>3, VisitStep
  <2>5. ASSUME NEW a \in 1..(k + 1), NEW p \in rs[a].ids
        PROVE  /\ \E e \in now.seen : e[1] = p
               /\ \A e \in now.seen : e[1] = p => now.root[e[2]] = now.root[rs[a].id]
    <3>0. /\ \A e \in old.seen : e[2] \in IdsOf(rs)
          /\ \A b \in 1..(k + 1) : rs[b].id \in IdsOf(rs)
      <4>1. old.seen \in SUBSET (Pair \X IdsOf(rs))
        <5> HIDE DEF old
        <5> QED
          BY <2>3 DEF Acc
      <4>2. \A b \in 1..(k + 1) : b \in DOMAIN rs
        BY <1>0, <2>1
      <4> HIDE DEF old
      <4> QED
        BY <4>1, <4>2 DEF IdsOf
    <3>1. CASE a \in 1..k
      <4>1. PICK e \in old.seen : e[1] = p
        <5> HIDE DEF old
        <5> QED
          BY <2>3, <3>1
      <4>2. ASSUME NEW f \in now.seen, f[1] = p PROVE f \in old.seen
        <5>1. p \notin new
          BY <4>1
        <5> HIDE DEF now, old, new
        <5> QED
          BY <2>4, <4>2, <5>1
      <4>3. \A f \in old.seen : f[1] = p => now.root[f[2]] = now.root[rs[a].id]
        <5> HIDE DEF now, old, new
        <5> QED
          BY <2>3, <2>4, <3>0, <3>1 DEF Coarser
      <4> HIDE DEF now, old, new
      <4> QED
        BY <2>4, <4>1, <4>2, <4>3
    <3>2. CASE a = k + 1
      <4>1. \E e \in now.seen : e[1] = p
        <5>1. CASE p \in new
          <6>1. <<p, r.id>> \in now.seen
            <7> HIDE DEF now, old, new
            <7> QED
              BY <2>4, <5>1
          <6> QED
            BY <6>1
        <5>2. CASE p \notin new
          <6>1. \E e \in old.seen : e[1] = p
            <7> HIDE DEF now, old
            <7> QED
              BY <3>2, <5>2
          <6> HIDE DEF now, old, new
          <6> QED
            BY <2>4, <6>1
        <5> QED
          BY <5>1, <5>2
      <4>2. ASSUME NEW e \in now.seen, e[1] = p PROVE now.root[e[2]] = now.root[rs[a].id]
        <5>1. e \in old.seen \/ e[2] = r.id
          <6> HIDE DEF now, old, new
          <6> QED
            BY <2>4
        <5> HIDE DEF now, old, new
        <5> QED
          BY <2>4, <3>2, <4>2, <5>1
      <4> QED
        BY <4>1, <4>2
    <3>3. a \in 1..k \/ a = k + 1
      OBVIOUS
    <3> HIDE DEF now
    <3> QED
      BY <3>1, <3>2, <3>3
  <2> HIDE DEF it, A
  <2> QED
    BY <2>4, <2>5
<1>11. Good(n)
  <2>1. n \in D
    <3> HIDE DEF D, n
    <3> QED
      BY <1>0, <1>9, <1>10, Naturals
  <2> HIDE DEF Good
  <2> QED
    BY <1>0, <2>1
<1>12. Rooted(rs, it[S].root)
  <2> HIDE DEF it
  <2> QED
    BY <1>11 DEF Acc
<1>13. ASSUME NEW a \in DOMAIN rs, NEW b \in DOMAIN rs, rs[a].ids \cap rs[b].ids # {}
       PROVE  it[S].root[rs[a].id] = it[S].root[rs[b].id]
  <2>1. PICK p : p \in rs[a].ids /\ p \in rs[b].ids
    BY <1>13
  <2> HIDE DEF it, A
  <2> QED
    BY <1>0, <1>11, <2>1
<1> HIDE DEF it, S
<1> QED
  BY <1>7, <1>12, <1>13

\* _deduplicate keeps the first record of each id.
LEMMA FirstOfIdIs ==
    ASSUME NEW rs \in Seq(Record)
    PROVE  /\ FirstOfId(rs) \in Seq(Record)
           /\ \A n \in Firsts(rs) : \E k \in DOMAIN FirstOfId(rs) : FirstOfId(rs)[k] = rs[n]
           /\ \A k \in DOMAIN FirstOfId(rs) : \E n \in Firsts(rs) : FirstOfId(rs)[k] = rs[n]
<1> DEFINE n == Len(rs)
           S == 1..n
           A == Seq(Record)
           Add(acc, r) == IF \E k \in DOMAIN acc : acc[k].id = r.id THEN acc ELSE Append(acc, r)
           pick == [s \in SUBSET S |-> Max(s)]
           step == [t \in S \X A |-> Add(t[2], rs[t[1]])]
           body(f) == [s \in SUBSET S |-> IF s = {} THEN <<>>
                          ELSE LET x == Max(s) IN Add(f[s \ {x}], rs[x])]
           it == CHOOSE f : f = body(f)
<1>0. n \in Nat /\ DOMAIN rs = S /\ IsFiniteSet(S) /\ \A k \in S : rs[k] \in Record
  BY FS_Interval
<1>1. \A s \in SUBSET S : s # {} => pick[s] \in s
  BY <1>0, Greatest
<1>2. \A acc \in A, r \in Record : Add(acc, r) \in A
  OBVIOUS
<1>3. <<>> \in A /\ step \in [S \X A -> A]
  <2>1. \A t \in S \X A : Add(t[2], rs[t[1]]) \in A
    <3> HIDE DEF A, S, Add
    <3> QED
      BY <1>0, <1>2
  <2>2. <<>> \in A
    OBVIOUS
  <2> HIDE DEF A, S, Add
  <2> QED
    BY <2>1, <2>2
<1>4. PICK g \in [SUBSET S -> A] : FoldOf(g, S, pick, <<>>, step)
  <2> HIDE DEF A, S, step, pick
  <2> QED
    BY <1>0, <1>1, <1>3, FoldDefined
<1>5. g = body(g)
  <2>0. \A s \in SUBSET S : g[s] = IF s = {} THEN <<>> ELSE step[<<pick[s], g[s \ {pick[s]}]>>]
    BY <1>4 DEF FoldOf
  <2>1. ASSUME NEW s \in SUBSET S, s # {}
        PROVE  g[s] = Add(g[s \ {pick[s]}], rs[pick[s]])
    <3>1. <<pick[s], g[s \ {pick[s]}]>> \in S \X A
      <4> HIDE DEF A, S, step, pick
      <4> QED
        BY <1>1, <1>4, <2>1
    <3> HIDE DEF A, S, pick, Add
    <3> QED
      BY <2>0, <2>1, <3>1
  <2>2. \A s \in SUBSET S : g[s] = body(g)[s]
    <3> HIDE DEF A, S, Add, step
    <3> QED
      BY <2>0, <2>1
  <2> HIDE DEF A, S, Add, step, pick
  <2> QED
    BY <2>2
<1>6. it = body(it)
  <2> HIDE DEF body
  <2> QED
    BY <1>5
<1>7. FirstOfId(rs) = it[S]
  BY <1>0 DEF FirstOfId, FoldLeft, MapThenFoldSet
<1>8. /\ it[1..0] = <<>>
      /\ \A m \in S : it[1..m] = Add(it[1..(m - 1)], rs[m])
  <2>1. \A s \in SUBSET S : it[s] = IF s = {} THEN <<>> ELSE Add(it[s \ {Max(s)}], rs[Max(s)])
    <3> HIDE DEF it, Add, S
    <3> QED
      BY <1>6
  <2>2. \A m \in S : 1..m \in SUBSET S /\ 1..m # {}
    BY <1>0
  <2>3. \A m \in S : Max(1..m) = m /\ (1..m) \ {Max(1..m)} = 1..(m - 1)
    BY <1>0, <2>2, Greatest
  <2>4. 1..0 = {} /\ {} \in SUBSET S
    OBVIOUS
  <2> HIDE DEF it, Add, S
  <2> QED
    BY <2>1, <2>2, <2>3, <2>4
<1> DEFINE Good(m) ==
              /\ it[1..m] \in A
              /\ \A k \in 1..m : \E j \in DOMAIN it[1..m] : it[1..m][j].id = rs[k].id
              /\ \A k \in Firsts(rs) : k <= m => \E j \in DOMAIN it[1..m] : it[1..m][j] = rs[k]
              /\ \A j \in DOMAIN it[1..m] : \E k \in Firsts(rs) : k <= m /\ it[1..m][j] = rs[k]
           D == {m \in Nat : m <= n => Good(m)}
<1>9. 0 \in D
  <2>1. 1..0 = {} /\ \A k \in Firsts(rs) : k \in 1..n
    BY <1>0 DEF Firsts
  <2>2. it[1..0] = <<>> /\ DOMAIN <<>> = {} /\ <<>> \in A
    <3> HIDE DEF it
    <3> QED
      BY <1>8
  <2>3. \A k \in Firsts(rs) : ~(k <= 0)
    BY <1>0, <2>1
  <2>4. Good(0)
    <3> HIDE DEF it, A
    <3> QED
      BY <2>1, <2>2, <2>3
  <2> HIDE DEF Good
  <2> QED
    BY <2>4
<1>10. ASSUME NEW k \in Nat, k \in D PROVE k + 1 \in D
  <2> SUFFICES ASSUME k + 1 <= n PROVE Good(k + 1)
    <3> HIDE DEF Good, n
    <3> QED
      OBVIOUS
  <2>1. k <= n /\ k + 1 \in DOMAIN rs /\ (k + 1) - 1 = k /\ Good(k)
    <3>1. k <= n /\ k + 1 \in S /\ (k + 1) - 1 = k
      BY <1>0
    <3> HIDE DEF Good, n, S
    <3> QED
      BY <1>0, <1>10, <3>1
  <2> DEFINE old == it[1..k]
             now == it[1..(k + 1)]
             r == rs[k + 1]
  <2>2. now = Add(old, r) /\ r \in Record
    <3> HIDE DEF it, Add
    <3> QED
      BY <1>0, <1>8, <2>1
  <2>3. /\ old \in A
        /\ \A m \in 1..k : \E j \in DOMAIN old : old[j].id = rs[m].id
        /\ \A m \in Firsts(rs) : m <= k => \E j \in DOMAIN old : old[j] = rs[m]
        /\ \A j \in DOMAIN old : \E m \in Firsts(rs) : m <= k /\ old[j] = rs[m]
    <3> HIDE DEF it, A
    <3> QED
      BY <2>1
  <2>4. \A m \in Firsts(rs) : m \in Nat /\ (m <= k + 1 => m <= k \/ m = k + 1)
    BY <1>0 DEF Firsts
  <2>5. \A m \in 1..(k + 1) : m \in 1..k \/ m = k + 1
    OBVIOUS
  <2> HIDE DEF it
  <2>6. CASE \E j \in DOMAIN old : old[j].id = r.id
    <3>1. now = old
      BY <2>2, <2>6
    <3>2. k + 1 \notin Firsts(rs)
      <4>1. PICK j \in DOMAIN old : old[j].id = r.id
        BY <2>6
      <4>2. PICK m \in Firsts(rs) : m <= k /\ old[j] = rs[m]
        BY <2>3
      <4>3. m \in 1..((k + 1) - 1) /\ rs[m].id = rs[k + 1].id
        BY <4>1, <4>2 DEF Firsts
      <4> QED
        BY <4>3 DEF Firsts
    <3>3. \A m \in 1..(k + 1) : \E j \in DOMAIN old : old[j].id = rs[m].id
      <4> HIDE DEF old
      <4> QED
        BY <2>3, <2>5, <2>6
    <3>4. \A m \in Firsts(rs) : m <= k + 1 => \E j \in DOMAIN old : old[j] = rs[m]
      <4> HIDE DEF old
      <4> QED
        BY <2>3, <2>4, <3>2
    <3>5. \A j \in DOMAIN old : \E m \in Firsts(rs) : m <= k + 1 /\ old[j] = rs[m]
      <4>1. \A m \in Firsts(rs) : m <= k => m <= k + 1
        BY <2>4
      <4> HIDE DEF old
      <4> QED
        BY <2>3, <4>1
    <3> HIDE DEF old, A
    <3> QED
      BY <2>3, <3>1, <3>3, <3>4, <3>5
  <2>7. CASE ~ \E j \in DOMAIN old : old[j].id = r.id
    <3>1. now = Append(old, r)
      BY <2>2, <2>7
    <3>2. k + 1 \in Firsts(rs)
      BY <2>1, <2>3, <2>7 DEF Firsts
    <3>3. /\ now \in A /\ Len(old) \in Nat /\ DOMAIN old = 1..Len(old) /\ DOMAIN now = 1..(Len(old) + 1)
          /\ \A j \in DOMAIN old : j \in DOMAIN now /\ now[j] = old[j]
          /\ Len(old) + 1 \in DOMAIN now /\ now[Len(old) + 1] = r
          /\ \A j \in DOMAIN now : j \in DOMAIN old \/ j = Len(old) + 1
      <4> HIDE DEF now, old
      <4> QED
        BY <2>2, <2>3, <3>1
    <3> DEFINE l == Len(old) + 1
    <3>4. ASSUME NEW m \in 1..(k + 1) PROVE \E j \in DOMAIN now : now[j].id = rs[m].id
      <4>1. CASE m \in 1..k
        <5>1. PICK j \in DOMAIN old : old[j].id = rs[m].id
          <6> HIDE DEF old, A
          <6> QED
            BY <2>3, <4>1
        <5> HIDE DEF now, old, A
        <5> QED
          BY <3>3, <5>1
      <4>2. CASE m = k + 1
        <5> HIDE DEF now, old, A
        <5> QED
          BY <3>3, <4>2
      <4> HIDE DEF now
      <4> QED
        BY <2>5, <4>1, <4>2
    <3>5. ASSUME NEW m \in Firsts(rs), m <= k + 1 PROVE \E j \in DOMAIN now : now[j] = rs[m]
      <4>1. CASE m <= k
        <5>1. PICK j \in DOMAIN old : old[j] = rs[m]
          <6> HIDE DEF old, A
          <6> QED
            BY <2>3, <4>1
        <5> HIDE DEF now, old, A
        <5> QED
          BY <3>3, <5>1
      <4>2. CASE m = k + 1
        <5> HIDE DEF now, old, A
        <5> QED
          BY <3>3, <4>2
      <4>3. m \in Nat
        BY DEF Firsts
      <4>4. m <= k \/ m = k + 1
        BY <2>4, <3>5, <4>3
      <4> HIDE DEF now
      <4> QED
        BY <4>1, <4>2, <4>4
    <3>6. ASSUME NEW j \in DOMAIN now PROVE \E m \in Firsts(rs) : m <= k + 1 /\ now[j] = rs[m]
      <4>1. CASE j \in DOMAIN old
        <5>1. PICK m \in Firsts(rs) : m <= k /\ old[j] = rs[m]
          BY <2>3, <4>1
        <5>2. m <= k + 1
          BY <2>4, <5>1
        <5> HIDE DEF now, old, A
        <5> QED
          BY <3>3, <4>1, <5>1, <5>2
      <4>2. CASE j = Len(old) + 1
        <5> HIDE DEF now, old, A
        <5> QED
          BY <3>2, <3>3, <4>2
      <4> HIDE DEF now, old, A
      <4> QED
        BY <3>3, <4>1, <4>2
    <3> HIDE DEF old, A
    <3> QED
      BY <3>3, <3>4, <3>5, <3>6
  <2> QED
    BY <2>6, <2>7
<1>11. Good(n)
  <2>1. n \in D
    <3> HIDE DEF D, n
    <3> QED
      BY <1>0, <1>9, <1>10, Naturals
  <2> HIDE DEF Good
  <2> QED
    BY <1>0, <2>1
<1>12. \A k \in Firsts(rs) : k <= n
  BY <1>0 DEF Firsts
<1> HIDE DEF it
<1> QED
  BY <1>7, <1>11, <1>12

\* What deduplicate_records keeps: the smallest id of each group of records that
\* external ids connect, for any number of records in any order.
LEMMA DeduplicatedIdsAre ==
    ASSUME NEW rs \in Seq(Record)
    PROVE  DeduplicatedIds(rs) = GroupIds(rs) /\ DeduplicatedIds(rs) \subseteq IdsOf(rs)
<1> DEFINE fs == FirstOfId(rs)
           N == Firsts(rs)
           first == [n \in N |-> rs[n]]
           I == IdsOf(fs)
           root == Joined(fs)
<1>1. /\ fs \in Seq(Record)
      /\ \A n \in N : \E k \in DOMAIN fs : fs[k] = rs[n]
      /\ \A k \in DOMAIN fs : \E n \in N : fs[k] = rs[n]
  BY FirstOfIdIs
<1>2. /\ Rooted(fs, root)
      /\ \A a, b \in DOMAIN fs : fs[a].ids \cap fs[b].ids # {} => root[fs[a].id] = root[fs[b].id]
  <2> HIDE DEF fs
  <2> QED
    BY <1>1, JoinedIs
<1>3. N \subseteq DOMAIN rs /\ \A a, b \in N : rs[a].id = rs[b].id => a = b
  <2>1. N \subseteq DOMAIN rs /\ DOMAIN rs \subseteq Nat
    BY DEF Firsts
  <2>2. ASSUME NEW a \in N, NEW b \in N, a < b, rs[a].id = rs[b].id PROVE FALSE
    <3>1. a \in 1..(b - 1)
      BY <2>1, <2>2 DEF Firsts
    <3> QED
      BY <2>2, <3>1 DEF Firsts
  <2>3. \A a, b \in N : a < b \/ b < a \/ a = b
    BY <2>1
  <2> QED
    BY <2>1, <2>2, <2>3
<1>4. I = {rs[n].id : n \in N} /\ I \subseteq Nat
  <2>1. I \subseteq Id /\ Id \subseteq Nat
    BY <1>1, IdsAreIds DEF Id
  <2> HIDE DEF fs, N
  <2>2. I = {rs[n].id : n \in N}
    BY <1>1 DEF IdsOf
  <2> QED
    BY <2>1, <2>2
<1>5. /\ root \in [I -> I]
      /\ \A i \in I : root[i] <= i /\ root[root[i]] = root[i]
      /\ \A S \in SUBSET I : Closed(fs, S) => \A i \in I : i \in S <=> root[i] \in S
  BY <1>2 DEF Rooted
<1>6. ASSUME NEW a \in N, NEW b \in N, rs[a].ids \cap rs[b].ids # {}
      PROVE  root[rs[a].id] = root[rs[b].id]
  <2> HIDE DEF fs, root, N
  <2>1. PICK k \in DOMAIN fs, m \in DOMAIN fs : fs[k] = rs[a] /\ fs[m] = rs[b]
    BY <1>1
  <2>2. fs[k].ids \cap fs[m].ids # {}
    BY <1>6, <2>1
  <2> QED
    BY <1>2, <2>1, <2>2
<1> DEFINE shut(S) == \A a \in S, b \in N : rs[a].ids \cap rs[b].ids # {} => b \in S
<1>7. ASSUME NEW S \in SUBSET N, shut(S) PROVE Closed(fs, {rs[c].id : c \in S})
  <2> SUFFICES ASSUME NEW a \in DOMAIN fs, NEW b \in DOMAIN fs, fs[a].id \in {rs[c].id : c \in S},
                      fs[a].ids \cap fs[b].ids # {}
               PROVE  fs[b].id \in {rs[c].id : c \in S}
    BY DEF Closed
  <2> HIDE DEF fs, N
  <2>1. PICK m \in N, n \in N : fs[a] = rs[m] /\ fs[b] = rs[n]
    BY <1>1
  <2>2. m \in S
    BY <1>3, <2>1
  <2> QED
    BY <1>7, <2>1, <2>2
<1>8. ASSUME NEW k \in N
      PROVE  Min({rs[b].id : b \in Connected(first, k)}) = root[rs[k].id]
  <2> DEFINE C == {b \in N : \A S \in SUBSET N : k \in S /\ shut(S) => b \in S}
             i == rs[k].id
  <2>1. Connected(first, k) = C
    BY DEF Connected
  <2>2. i \in I /\ root[i] \in I
    <3> HIDE DEF fs, root, N
    <3> QED
      BY <1>4, <1>5
  <2>3. PICK m \in N : rs[m].id = root[i]
    <3> HIDE DEF fs, root, N, i
    <3> QED
      BY <1>4, <2>2
  <2>4. m \in C
    <3> SUFFICES ASSUME NEW S \in SUBSET N, k \in S, shut(S) PROVE m \in S
      OBVIOUS
    <3> DEFINE T == {rs[c].id : c \in S}
    <3>1. Closed(fs, T)
      BY <1>7
    <3>2. T \in SUBSET I /\ i \in T
      <4> HIDE DEF fs, root, N
      <4> QED
        BY <1>4
    <3>3. root[i] \in T
      <4> HIDE DEF fs, root, N, T, I, i
      <4> QED
        BY <1>5, <2>2, <3>1, <3>2
    <3> HIDE DEF fs, root, N, I, i
    <3> QED
      BY <1>3, <2>3, <3>3
  <2>5. \A b \in C : root[rs[b].id] = root[i]
    <3> DEFINE S == {b \in N : root[rs[b].id] = root[i]}
    <3>1. k \in S /\ shut(S) /\ S \in SUBSET N
      <4> HIDE DEF fs, root, N
      <4> QED
        BY <1>6
    <3>2. C \subseteq S
      <4> HIDE DEF S, shut, N
      <4> QED
        BY <3>1
    <3> HIDE DEF C, root, N
    <3> QED
      BY <3>2
  <2>6. \A j \in {rs[b].id : b \in C} : j \in I /\ root[i] <= j
    <3>1. C \subseteq N
      OBVIOUS
    <3>2. ASSUME NEW b \in C PROVE rs[b].id \in I /\ root[i] <= rs[b].id
      <4> HIDE DEF C, root, N, I, fs, i
      <4>1. rs[b].id \in I
        BY <1>4, <3>1
      <4>2. root[rs[b].id] <= rs[b].id /\ root[rs[b].id] = root[i]
        BY <1>5, <2>5, <4>1
      <4> QED
        BY <4>1, <4>2
    <3> HIDE DEF C, root, N, I, fs, i
    <3> QED
      BY <3>2
  <2>7. root[i] \in {rs[b].id : b \in C}
    <3> HIDE DEF C, root, N, I, fs, i
    <3> QED
      BY <2>3, <2>4
  <2>8. Min({rs[b].id : b \in C}) = root[i]
    <3>1. {rs[b].id : b \in C} \subseteq Nat
      <4> HIDE DEF C, root, N, I, fs, i
      <4> QED
        BY <1>4, <2>6
    <3> DEFINE Ids == {rs[b].id : b \in C}
    <3> HIDE DEF C, root, N, I, fs, i
    <3> QED
      BY <2>6, <2>7, <3>1, Least
  <2> HIDE DEF C
  <2> QED
    BY <2>1, <2>8
<1>9. DeduplicatedIds(rs) = {root[i] : i \in I}
  BY <1>5 DEF DeduplicatedIds
<1>10. GroupIds(rs) = {Min({rs[b].id : b \in Connected(first, k)}) : k \in N}
  BY DEF GroupIds
<1>11. {root[i] : i \in I} = {root[rs[k].id] : k \in N}
  <2> HIDE DEF fs, root, N, I
  <2> QED
    BY <1>4
<1>12. I \subseteq IdsOf(rs)
  <2> HIDE DEF fs, N
  <2> QED
    BY <1>3, <1>4 DEF IdsOf
<1>13. {root[i] : i \in I} \subseteq I
  <2> HIDE DEF fs, root, I
  <2> QED
    BY <1>5
<1>14. GroupIds(rs) = {root[rs[k].id] : k \in N}
  <2> HIDE DEF fs, root, N, first, I
  <2> QED
    BY <1>8, <1>10
<1> HIDE DEF fs, root, N, first, I
<1> QED
  BY <1>9, <1>11, <1>12, <1>13, <1>14

\* A record that is alone is kept.
LEMMA DeduplicatedOne == ASSUME NEW r \in Record PROVE DeduplicatedIds(<<r>>) = {r.id}
<1>1. <<r>> \in Seq(Record) /\ DOMAIN <<r>> = {1} /\ <<r>>[1] = r
  OBVIOUS
<1>2. IdsOf(<<r>>) = {r.id}
  BY <1>1 DEF IdsOf
<1>3. 1 \in Firsts(<<r>>)
  BY <1>1 DEF Firsts
<1>4. DeduplicatedIds(<<r>>) = GroupIds(<<r>>) /\ DeduplicatedIds(<<r>>) \subseteq IdsOf(<<r>>)
  BY <1>1, DeduplicatedIdsAre
<1>5. GroupIds(<<r>>) # {}
  BY <1>3 DEF GroupIds
<1> QED
  BY <1>2, <1>4, <1>5

-----------------------------------------------------------------------------
(* The initial states, and the start of an operation. *)

\* The rows at the start are typed, and everybody is idle.
LEMMA InitInv == Init => IndInv
<1> SUFFICES ASSUME Init PROVE IndInv
  OBVIOUS
<1> PICK table \in Starts : /\ rows = 1..Len(table) /\ next = Len(table) + 1
                            /\ ext = [i \in Id |-> IF i \in rows THEN table[i] ELSE {}]
  BY DEF Init
<1>0. /\ table \in Seq({ps \in SUBSET Pair : Functional(ps)})
      /\ Len(table) \in Nat /\ Len(table) <= MaxId /\ MaxId \in Nat /\ rows \subseteq Id
  <2>1. table \in Seq({ps \in SUBSET Pair : Functional(ps)}) /\ Len(table) <= MaxId
    BY CatalogStarts, Zenon
  <2>2. Len(table) \in Nat /\ MaxId \in Nat
    <3> HIDE DEF Functional, Pair
    <3> QED
      BY <2>1, CatalogOps
  <2>3. rows \subseteq Id
    BY <2>1, <2>2 DEF Id
  <2> QED
    BY <2>1, <2>2, <2>3
<1>1. RowTypes
  <2>1. \A i \in rows : table[i] \in SUBSET Pair /\ Functional(table[i])
    BY <1>0
  <2>2. Functional({})
    BY DEF Functional
  <2>3. \A i \in Id : ext[i] \in SUBSET Pair /\ Functional(ext[i]) /\ (i \notin rows => ext[i] = {})
    BY <1>0, <2>1, <2>2
  <2>4. links \subseteq Id \X Item
    BY <1>0 DEF Init
  <2>5. next \in 1..(MaxId + 1) /\ \A i \in rows : i < next
    BY <1>0
  <2>6. ext \in [Id -> SUBSET Pair]
    BY <1>0, <2>3
  <2> QED
    BY <1>0, <2>3, <2>4, <2>5, <2>6 DEF RowTypes
<1>2. JobTypes
  BY NoJobType DEF Init, JobTypes, PC
<1>3. \A w \in Worker : job[w] = NoJob /\ pc[w] = "idle"
  BY DEF Init
<1>4. QuietInv /\ SoloInv /\ HealInv
  BY <1>3 DEF Init, QuietInv, SoloInv, HealInv, Busy, Undisturbed
<1>5. JobInv /\ RepairInv
  <2> SUFFICES ASSUME NEW w \in Worker PROVE JobAt(w) /\ RepairAt(w)
    BY DEF JobInv, RepairInv
  <2>1. JobAt(w)
    BY <1>3, NoJobType DEF JobAt, Busy, Merging, Resolving
  <2>2. RepairAt(w)
    BY <1>3, NoJobType DEF RepairAt
  <2> QED
    BY <2>1, <2>2
<1>6. NothingOrphaned
  <2>1. PICK f \in [Item -> rows] : links = {<<f[x], x>> : x \in Item}
    BY DEF Init
  <2> QED
    BY <2>1 DEF Init, NothingOrphaned
<1> QED
  BY <1>1, <1>2, <1>4, <1>5, <1>6 DEF IndInv

\* A worker starts.
LEMMA BeginInv ==
    ASSUME IndInv, NEW w \in Worker, NEW o \in AllOps, NEW l \in {"lookup", "find", "linkKeys", "scan"},
           NEW b \in BOOLEAN, NEW j \in Job, Begin(w, o, l, b, j),
           j.dups = {}, j.lookup = {}, j.out = <<>>,
           o = CASE l = "lookup" -> "ingest" [] l = "find" -> "enrich"
                 [] l = "linkKeys" -> "link" [] l = "scan" -> "repair",
           o # "repair" => j.todo # <<>>,
           o \in {"ingest", "enrich"} => j.keys = {},
           o = "repair" => j.keys = Pair,
           ~b => Len(j.todo) <= 1,
           l = "linkKeys" => j.canon \in anime \cap Id
    PROVE  IndInv'
<1> USE DEF IndInv
<1> DEFINE k == [j EXCEPT !.op = o]
<1>0. /\ pc[w] = "idle" /\ pc' = [pc EXCEPT ![w] = l] /\ job' = [job EXCEPT ![w] = k]
      /\ overlap' = (overlap \/ Active # {}) /\ batched' = (batched \/ b)
      /\ alone' = (o = "repair" /\ Active = {})
      /\ UNCHANGED <<rows, ext, next, links, anime>>
  BY DEF Begin, Goto, Set
<1>1. /\ k \in Job /\ k.op = o /\ k.dups = {} /\ k.lookup = {} /\ k.out = <<>>
      /\ k.todo = j.todo /\ k.keys = j.keys /\ k.canon = j.canon
  BY DEF Job
<1> HIDE DEF k
<1>2. pc'[w] = l /\ job'[w] = k /\ \A v \in Worker \ {w} : pc'[v] = pc[v] /\ job'[v] = job[v]
  BY <1>0 DEF JobTypes
<1>3. RowTypes' /\ NothingOrphaned'
  BY <1>0 DEF RowTypes, NothingOrphaned
<1>4. JobTypes'
  BY <1>0, <1>1 DEF JobTypes, PC, Active
<1>5. Active = {} => \A v \in Worker : pc'[v] # "idle" => v = w
  BY <1>2 DEF Active
<1>6. QuietInv'
  BY <1>0, <1>1, <1>2, <1>5 DEF QuietInv, Busy
<1>7. JobAt(w)'
  BY <1>0, <1>1, <1>2 DEF JobAt, Busy, Merging, Resolving
<1>8. JobInv'
  <2>1. ASSUME NEW v \in Worker, v # w PROVE JobAt(v)'
    <3>1. JobAt(v) /\ pc'[v] = pc[v] /\ job'[v] = job[v] /\ (~batched' => ~batched)
      BY <1>0, <1>2, <2>1 DEF JobInv
    <3> QED
      BY <3>1 DEF JobAt, Busy
  <2> QED
    BY <1>7, <2>1 DEF JobInv
<1>9. RepairInv'
  <2>1. RepairAt(w)'
    BY <1>1, <1>2 DEF RepairAt, Merging
  <2>2. ASSUME NEW v \in Worker, v # w PROVE RepairAt(v)'
    BY <1>2, <2>2 DEF RepairInv, RepairAt
  <2> QED
    BY <2>1, <2>2 DEF RepairInv
<1>10. SoloInv'
  <2>1. Undisturbed' => Active = {} /\ (l = "linkKeys" => ~overlap /\ ~batched)
    BY <1>0 DEF Undisturbed
  <2>2. Undisturbed' => SoloAt(w)'
    BY <1>0, <1>1, <1>2, <2>1 DEF SoloAt, Merging, NothingOrphaned
  <2> QED
    BY <1>5, <2>1, <2>2 DEF SoloInv, Busy
<1>11. HealInv'
  <2>1. alone' => Active = {} /\ k.keys = Pair
    BY <1>0, <1>1
  <2>2. alone' => HealAt(w)'
    BY <1>2, <2>1 DEF HealAt
  <2>3. Busy(w)'
    BY <1>2 DEF Busy
  <2> QED
    BY <1>5, <2>1, <2>2, <2>3 DEF HealInv, Busy
<1> QED
  BY <1>3, <1>4, <1>6, <1>8, <1>9, <1>10, <1>11

\* Searches and schedule fetches.
LEMMA IngestInv ==
    ASSUME IndInv, NEW w \in Worker, NEW b \in Batches, Ingest(w, b)
    PROVE  IndInv'
<1>1. b \in Seq(Payloads) /\ b # <<>> /\ Len(b) \in Nat
  BY CatalogOps DEF Batches
<1> DEFINE j == [NoJob EXCEPT !.todo = b]
<1>2. /\ j \in Job /\ j.todo = b /\ j.dups = {} /\ j.lookup = {} /\ j.out = <<>> /\ j.keys = {}
  BY <1>1, NoJobType DEF NoJob, Job
<1>3. Begin(w, "ingest", "lookup", Len(b) > 1, j)
  BY DEF Ingest
<1> HIDE DEF j
<1>4. (Len(b) > 1) \in BOOLEAN /\ (~(Len(b) > 1) => Len(j.todo) <= 1)
  BY <1>1, <1>2
<1> QED
  BY <1>1, <1>2, <1>3, <1>4, BeginInv DEF AllOps

\* enrich, link and repair.
LEMMA OtherBeginInv ==
    ASSUME IndInv, NEW w \in Worker,
           \/ \E i \in Id, ps \in Payloads : Enrich(w, i, ps) \/ Link(w, i, ps)
           \/ Repair(w)
    PROVE  IndInv'
<1>1. CASE Repair(w)
  <2> DEFINE j == [NoJob EXCEPT !.keys = Pair]
  <2>1. /\ j \in Job /\ j.todo = <<>> /\ j.dups = {} /\ j.lookup = {} /\ j.out = <<>> /\ j.keys = Pair
    BY NoJobType DEF NoJob, Job
  <2>2. Begin(w, "repair", "scan", FALSE, j)
    BY <1>1 DEF Repair
  <2> HIDE DEF j
  <2>3. Len(j.todo) <= 1
    BY <2>1
  <2> QED
    BY <2>1, <2>2, <2>3, BeginInv DEF AllOps
<1>2. ASSUME NEW i \in Id, NEW ps \in Payloads, Enrich(w, i, ps)
      PROVE  IndInv'
  <2> DEFINE j == [NoJob EXCEPT !.todo = <<ps>>]
  <2>0. <<ps>> \in Seq(Payloads)
    OBVIOUS
  <2>1. /\ j \in Job /\ j.todo = <<ps>> /\ j.dups = {} /\ j.lookup = {} /\ j.out = <<>> /\ j.keys = {}
    BY <2>0, NoJobType DEF NoJob, Job
  <2>2. Begin(w, "enrich", "find", FALSE, j)
    BY <1>2 DEF Enrich
  <2> HIDE DEF j
  <2>3. Len(j.todo) <= 1 /\ j.todo # <<>>
    BY <2>1
  <2> QED
    BY <2>1, <2>2, <2>3, BeginInv DEF AllOps
<1>3. ASSUME NEW i \in Id, NEW ps \in Payloads, Link(w, i, ps)
      PROVE  IndInv'
  <2> DEFINE j == [NoJob EXCEPT !.todo = <<ps>>, !.canon = i, !.keys = ps]
  <2>0. <<ps>> \in Seq(Payloads) /\ ps \in SUBSET Pair
    BY PayloadPairs
  <2>1. /\ j \in Job /\ j.todo = <<ps>> /\ j.dups = {} /\ j.lookup = {} /\ j.out = <<>>
        /\ j.keys = ps /\ j.canon = i
    BY <2>0, NoJobType DEF NoJob, Job
  <2>2. Begin(w, "link", "linkKeys", FALSE, j) /\ i \in anime
    BY <1>3 DEF Link
  <2> HIDE DEF j
  <2>3. Len(j.todo) <= 1 /\ j.todo # <<>>
    BY <2>1
  <2> QED
    BY <2>1, <2>2, <2>3, BeginInv DEF AllOps
<1> QED
  BY <1>1, <1>2, <1>3

-----------------------------------------------------------------------------
(* The steps of an operation. *)

\* A busy worker's step: what is left to show about it.
LEMMA StepFrame ==
    ASSUME IndInv, NEW w \in Worker, Busy(w), NEW l \in PC, NEW j \in Job,
           pc' = [pc EXCEPT ![w] = l], job' = [job EXCEPT ![w] = j],
           UNCHANGED <<overlap, batched, alone>>,
           RowTypes', NothingOrphaned', JobAt(w)', RepairAt(w)',
           l # "idle" => j.op = job[w].op,
           Undisturbed /\ l # "idle" => SoloAt(w)',
           alone /\ l # "idle" => HealAt(w)',
           alone /\ l = "idle" => \A p \in Pair : \A m, n \in Id : ~Share(p, m, n)'
    PROVE  IndInv'
<1> USE DEF IndInv
<1>1. pc'[w] = l /\ job'[w] = j /\ \A v \in Worker \ {w} : pc'[v] = pc[v] /\ job'[v] = job[v]
  BY DEF JobTypes
<1>2. JobTypes'
  BY DEF JobTypes
<1>3. \A v \in Worker : Busy(v)' => Busy(v)
  BY <1>1 DEF Busy
<1>4. QuietInv'
  BY <1>1, <1>3 DEF QuietInv, Busy
<1>5. JobInv'
  <2>1. ASSUME NEW v \in Worker, v # w PROVE JobAt(v)'
    BY <1>1, <2>1 DEF JobInv, JobAt, Busy
  <2> QED
    BY <2>1 DEF JobInv
<1>6. RepairInv'
  <2>1. ASSUME NEW v \in Worker, v # w PROVE RepairAt(v)'
    BY <1>1, <2>1 DEF RepairInv, RepairAt
  <2> QED
    BY <2>1 DEF RepairInv
<1>7. Undisturbed \/ alone => \A v \in Worker : Busy(v) => v = w
  BY DEF QuietInv, Undisturbed
<1>8. Undisturbed' = Undisturbed
  BY DEF Undisturbed
<1>9. Busy(w)' <=> l # "idle"
  BY <1>1 DEF Busy
<1>10. SoloInv'
  BY <1>3, <1>7, <1>8, <1>9 DEF SoloInv
<1>11. HealInv'
  BY <1>3, <1>7, <1>9 DEF HealInv
<1> QED
  BY <1>2, <1>4, <1>5, <1>6, <1>10, <1>11

\* A repair that runs by itself is the only operation.
LEMMA OnlyRepair ==
    ASSUME IndInv, NEW w \in Worker, Busy(w), job[w].op # "repair"
    PROVE  ~alone
  BY DEF IndInv, QuietInv

\* What is known about the job of a worker.
LEMMA JobOf ==
    ASSUME IndInv, NEW w \in Worker
    PROVE  /\ job[w] \in Job /\ JobAt(w) /\ RepairAt(w)
           /\ [job EXCEPT ![w] = job[w]] = job
           /\ Undisturbed /\ Busy(w) => SoloAt(w)
           /\ alone /\ Busy(w) => HealAt(w)
  BY DEF IndInv, JobTypes, JobInv, RepairInv, SoloInv, HealInv

\* The payload a worker is at.
LEMMA HeadPayload ==
    ASSUME NEW todo \in Seq(Payloads), todo # <<>>
    PROVE  /\ Head(todo) \in Payloads /\ Head(todo) \in SUBSET Pair /\ Functional(Head(todo))
           /\ Head(todo) # {}
           /\ Tail(todo) \in Seq(Payloads) /\ (Len(todo) <= 1 => Tail(todo) = <<>>)
           /\ Len(Tail(todo)) = Len(todo) - 1 /\ Len(todo) \in Nat /\ Len(Tail(todo)) \in Nat
<1>1. Head(todo) \in Payloads /\ Tail(todo) \in Seq(Payloads)
  OBVIOUS
<1>2. Len(Tail(todo)) = Len(todo) - 1 /\ Len(todo) \in Nat /\ Len(Tail(todo)) \in Nat
  OBVIOUS
<1>3. Len(todo) <= 1 => Tail(todo) = <<>>
  BY <1>1, <1>2
<1> QED
  BY <1>1, <1>2, <1>3, PayloadPairs

\* A record that is added to a list.
LEMMA Added ==
    ASSUME NEW S, NEW s \in Seq(S), NEW e \in S
    PROVE  Append(s, e) \in Seq(S) /\ (s = <<>> => Append(s, e) = <<e>>)
<1>1. Append(s, e) \in Seq(S)
  OBVIOUS
<1>2. Append(<<>>, e) = <<e>>
  OBVIOUS
<1> QED
  BY <1>1, <1>2

\* What a batch knows at its beginning.
LEMMA LookupInv == ASSUME IndInv, NEW w \in Worker, Lookup(w) PROVE IndInv'
<1> DEFINE ps == UNION Range(job[w].todo)
           j == [job[w] EXCEPT !.lookup = FindLast(ps)]
<1>1. /\ pc[w] = "lookup" /\ Busy(w) /\ job[w].op = "ingest" /\ job[w] \in Job
      /\ JobAt(w) /\ RepairAt(w)
  BY JobOf DEF Lookup, JobAt, Busy
<1>2. /\ pc' = [pc EXCEPT ![w] = "find"] /\ job' = [job EXCEPT ![w] = j]
      /\ UNCHANGED <<rows, ext, next, links, anime, overlap, batched, alone>>
  BY DEF Lookup, Goto, Set
<1>3. ps \subseteq Pair
  <2>1. job[w].todo \in Seq(Payloads)
    BY <1>1 DEF Job
  <2>2. Range(job[w].todo) \subseteq Payloads
    BY <2>1 DEF Range
  <2> QED
    BY <2>2, PayloadPairs
<1>4. \A e \in FindLast(ps) : e \in Pair \X Id /\ e[2] \in rows /\ e[1] \in ext[e[2]]
  <2>1. rows \subseteq Id
    BY DEF IndInv, RowTypes
  <2> TAKE e \in FindLast(ps)
  <2>2. PICK p \in ps : Having(p) # {} /\ e = <<p, Max(Having(p))>>
    BY DEF FindLast
  <2>3. Max(Having(p)) \in Having(p) /\ Having(p) \subseteq rows
    BY <2>1, <2>2, FoundRow, Ends
  <2> QED
    BY <1>3, <2>1, <2>2, <2>3 DEF Having
<1>5. /\ j \in Job /\ j.op = "ingest" /\ j.todo = job[w].todo /\ j.dups = job[w].dups
      /\ j.keys = job[w].keys /\ j.out = job[w].out /\ j.lookup = FindLast(ps)
  BY <1>1, <1>4 DEF Job
<1> HIDE DEF j, ps
<1>6. pc'[w] = "find" /\ job'[w] = j
  BY <1>2 DEF IndInv, JobTypes
<1>7. JobAt(w)'
  BY <1>1, <1>2, <1>5, <1>6 DEF JobAt, Busy, Merging, Resolving
<1>8. RepairAt(w)' /\ SoloAt(w)'
  BY <1>2, <1>4, <1>5, <1>6 DEF RepairAt, SoloAt, Merging
<1>9. RowTypes' /\ NothingOrphaned'
  BY <1>2 DEF IndInv, RowTypes, NothingOrphaned
<1> QED
  BY <1>1, <1>2, <1>5, <1>7, <1>8, <1>9, OnlyRepair, StepFrame DEF PC

\* The rows the payload is known under.
LEMMA KnownRow ==
    ASSUME IndInv, NEW w \in Worker, NEW p \in Pair
    PROVE  /\ Known(w, p) \in Id \cup {NoId}
           /\ pc[w] = "find" /\ Undisturbed /\ Known(w, p) # NoId => p \in ext[Known(w, p)] /\ Known(w, p) \in rows
           /\ Known(w, p) = NoId => Having(p) = {}
<1>0. rows \subseteq Id /\ job[w].lookup \subseteq Pair \X Id
  BY DEF IndInv, RowTypes, JobTypes, Job
<1>1. CASE \E e \in job[w].lookup : e[1] = p
  <2> DEFINE e == CHOOSE e \in job[w].lookup : e[1] = p
  <2>1. e \in job[w].lookup /\ e[1] = p /\ Known(w, p) = e[2]
    BY <1>1 DEF Known
  <2> HIDE DEF e
  <2>2. e[2] \in Id /\ e[2] # NoId
    BY <1>0, <2>1, Names
  <2>3. pc[w] = "find" /\ Undisturbed => e[2] \in rows /\ e[1] \in ext[e[2]]
    BY <2>1, JobOf DEF SoloAt, Busy
  <2> QED
    BY <2>1, <2>2, <2>3
<1>2. CASE ~ \E e \in job[w].lookup : e[1] = p
  BY <1>0, <1>2, FoundRow DEF Known, Having
<1> QED
  BY <1>1, <1>2

\* resolve finds the rows.
LEMMA FindInv == ASSUME IndInv, NEW w \in Worker, Find(w) PROVE IndInv'
<1> DEFINE found == {Known(w, p) : p \in Head(job[w].todo)} \ {NoId}
           j == [job[w] EXCEPT !.canon = Preferred(found), !.dups = found \ {Preferred(found)}]
<1>1. /\ pc[w] = "find" /\ Busy(w) /\ job[w].op \in {"ingest", "enrich"} /\ job[w] \in Job
      /\ JobAt(w) /\ job[w].todo # <<>>
  BY JobOf DEF Find, JobAt, Busy, Resolving
<1>2. UNCHANGED <<rows, ext, next, links, anime, overlap, batched, alone>>
  BY DEF Find
<1>3. RowTypes' /\ NothingOrphaned'
  BY <1>2 DEF IndInv, RowTypes, NothingOrphaned
<1>4. ~alone
  BY <1>1, OnlyRepair
<1>5. found \subseteq Id /\ (Undisturbed => found \subseteq rows)
  <2>1. Head(job[w].todo) \subseteq Pair
    BY <1>1, HeadPayload DEF Job
  <2> QED
    BY <1>1, <2>1, KnownRow
<1>6. CASE found = {}
  <2>1. pc' = [pc EXCEPT ![w] = "allocate"] /\ job' = [job EXCEPT ![w] = job[w]]
    BY <1>6, JobOf DEF Find, Goto
  <2>2. pc'[w] = "allocate" /\ job'[w] = job[w]
    BY <2>1 DEF IndInv, JobTypes
  <2>3. JobAt(w)'
    BY <1>1, <1>2, <2>2 DEF JobAt, Busy, Merging, Resolving
  <2>4. RepairAt(w)' /\ SoloAt(w)'
    BY <1>1, <2>2 DEF RepairAt, SoloAt, Merging
  <2> QED
    BY <1>1, <1>2, <1>3, <1>4, <2>1, <2>3, <2>4, StepFrame DEF PC
<1>7. CASE found # {}
  <2> DEFINE l == IF Cardinality(found) > 1 THEN "mergeBackfill" ELSE "backfill"
  <2>1. pc' = [pc EXCEPT ![w] = l] /\ job' = [job EXCEPT ![w] = j]
    BY <1>7 DEF Find, Goto, Set
  <2>2. Preferred(found) \in found
    BY <1>5, <1>7, Ends DEF Preferred
  <2>3. Cardinality(found) > 1 <=> found \ {Preferred(found)} # {}
    BY <1>5, <2>2, AtMostOne
  <2>4. /\ j \in Job /\ j.op = job[w].op /\ j.todo = job[w].todo /\ j.keys = job[w].keys
        /\ j.out = job[w].out /\ j.lookup = job[w].lookup
        /\ j.canon \in found /\ j.canon = Preferred(found) /\ j.dups = found \ {j.canon}
    <3> HIDE DEF found
    <3> QED
      BY <1>1, <1>5, <2>2 DEF Job
  <2> HIDE DEF j, found
  <2>5. \/ l = "mergeBackfill" /\ j.dups # {}
        \/ l = "backfill" /\ j.dups = {}
    BY <2>3, <2>4
  <2> HIDE DEF l
  <2>6. pc'[w] = l /\ job'[w] = j
    BY <2>1 DEF IndInv, JobTypes
  <2>7. JobAt(w)'
    BY <1>1, <1>2, <1>5, <2>4, <2>5, <2>6 DEF JobAt, Busy, Merging, Resolving
  <2>8. RepairAt(w)' /\ (Undisturbed => SoloAt(w)')
    BY <1>1, <1>2, <1>5, <2>4, <2>5, <2>6 DEF RepairAt, SoloAt, Merging
  <2> QED
    BY <1>1, <1>2, <1>3, <1>4, <2>1, <2>4, <2>5, <2>7, <2>8, StepFrame DEF PC
<1> QED
  BY <1>6, <1>7

\* merge fills the canonical row's ids in from the duplicate's: whoever shares
\* one of those with it shares it with the duplicate.
LEMMA MergeBackfillInv == ASSUME IndInv, NEW w \in Worker, MergeBackfill(w) PROVE IndInv'
<1> DEFINE d == Dup(w)
           c == job[w].canon
<1>1. /\ pc[w] = "mergeBackfill" /\ Busy(w) /\ job[w] \in Job /\ JobAt(w) /\ RepairAt(w)
      /\ c \in Id \ job[w].dups /\ job[w].dups # {} /\ job[w].dups \in SUBSET Id
      /\ Undisturbed => SoloAt(w)
      /\ alone => HealAt(w)
  BY JobOf DEF MergeBackfill, JobAt, Busy, Merging, Job
<1>2. /\ pc' = [pc EXCEPT ![w] = "mergeRepoint"] /\ job' = [job EXCEPT ![w] = job[w]] /\ job' = job
      /\ ext' = Filled(c, ext[d])
      /\ UNCHANGED <<rows, next, links, anime, overlap, batched, alone>>
  BY JobOf DEF MergeBackfill, Goto
<1>3. d \in job[w].dups /\ d \in Id /\ d # c
  BY <1>1, DupIn
<1>4. RowTypes
  BY DEF IndInv
<1>5. ext[d] \in SUBSET Pair /\ Functional(ext[d])
  BY <1>3, <1>4 DEF RowTypes
<1>6. /\ ext' \in [Id -> SUBSET Pair] /\ \A i \in Id : Functional(ext'[i])
      /\ \A i \in Id \ {c} : ext'[i] = ext[i]
      /\ ext[c] \subseteq ext'[c]
      /\ \A p \in ext'[c] : p \in ext[c] \/ (p \in ext[d] /\ c \in rows)
      /\ \A i \in Id \ rows : ext'[i] = {}
  BY <1>1, <1>2, <1>4, <1>5, FilledRow
<1> HIDE DEF c, d
<1>7. RowTypes' /\ NothingOrphaned'
  BY <1>2, <1>4, <1>6 DEF IndInv, RowTypes, NothingOrphaned
<1>8. pc'[w] = "mergeRepoint" /\ job'[w] = job[w]
  BY <1>2 DEF IndInv, JobTypes
<1>9. JobAt(w)'
  BY <1>1, <1>2, <1>8 DEF JobAt, Busy, Merging, Resolving, c
<1>10. RepairAt(w)'
  BY <1>1, <1>2, <1>8 DEF RepairAt, Merging
<1>11. Undisturbed => SoloAt(w)'
  <2>1. \A i \in Id : ext[i] \subseteq ext'[i]
    BY <1>6
  <2>2. job[w].lookup \subseteq Pair \X Id
    BY <1>1 DEF Job
  <2> QED
    BY <1>1, <1>2, <1>8, <2>1, <2>2 DEF SoloAt, Merging
<1>12. alone => HealAt(w)'
  <2> SUFFICES ASSUME alone, NEW p \in Pair \ job[w].keys, NEW i \in Id, NEW j \in Id, Share(p, i, j)'
               PROVE  \/ <<p, i>> \in job[w].lookup /\ <<p, j>> \in job[w].lookup
                      \/ i \in Group(w) /\ j \in Group(w)
    BY <1>8 DEF HealAt, Group, Merging, c
  <2>1. /\ Group(w) = job[w].dups \cup {c} /\ job[w].op = "repair"
        /\ job[w].dups \subseteq rows /\ c \in rows
    BY <1>1 DEF Group, c, Merging, SoloAt, Undisturbed, QuietInv, IndInv
  <2>2. \A e \in job[w].lookup : e[2] \notin Group(w)
    BY <1>1, <2>1 DEF RepairAt, Merging, c
  <2>3. i \in rows /\ j \in rows /\ i # j /\ p \in ext'[i] /\ p \in ext'[j]
    BY <1>2 DEF Share
  <2>4. \A k \in Id : Share(p, d, k) => k \in Group(w)
    <3> SUFFICES ASSUME NEW k \in Id, Share(p, d, k), k \notin Group(w) PROVE FALSE
      OBVIOUS
    <3>1. <<p, d>> \in job[w].lookup
      BY <1>1, <1>3 DEF HealAt
    <3>2. <<p, d>>[2] \notin Group(w)
      BY <2>2, <3>1
    <3> QED
      BY <1>3, <2>1, <3>2
  <2>5. CASE Share(p, i, j)
    BY <1>1, <2>5 DEF HealAt
  <2>6. CASE ~Share(p, i, j)
    <3>1. (i = c \/ j = c) /\ p \in ext[d]
      BY <1>1, <1>6, <2>3, <2>6 DEF Share
    <3>2. CASE i = c
      <4>1. j = d \/ Share(p, d, j)
        BY <1>3, <1>6, <2>1, <2>3, <3>1, <3>2 DEF Share
      <4> QED
        BY <1>3, <2>1, <2>4, <3>2, <4>1
    <3>3. CASE j = c
      <4>1. i = d \/ Share(p, d, i)
        BY <1>3, <1>6, <2>1, <2>3, <3>1, <3>3 DEF Share
      <4> QED
        BY <1>3, <2>1, <2>4, <3>3, <4>1
    <3> QED
      BY <3>1, <3>2, <3>3
  <2> QED
    BY <2>5, <2>6
<1> QED
  BY <1>1, <1>2, <1>7, <1>9, <1>10, <1>11, <1>12, StepFrame DEF PC

\* merge moves the dependent rows.
LEMMA MergeRepointInv == ASSUME IndInv, NEW w \in Worker, MergeRepoint(w) PROVE IndInv'
<1> DEFINE d == Dup(w)
           c == job[w].canon
<1>1. /\ pc[w] = "mergeRepoint" /\ Busy(w) /\ job[w] \in Job /\ JobAt(w) /\ RepairAt(w)
      /\ c \in Id \ job[w].dups /\ job[w].dups # {} /\ job[w].dups \in SUBSET Id
      /\ Undisturbed => SoloAt(w)
      /\ alone => HealAt(w)
  BY JobOf DEF MergeRepoint, JobAt, Busy, Merging, Job
<1>2. /\ pc' = [pc EXCEPT ![w] = "mergeDelete"] /\ job' = [job EXCEPT ![w] = job[w]] /\ job' = job
      /\ links' = {<<IF l[1] = d THEN c ELSE l[1], l[2]>> : l \in links}
      /\ UNCHANGED <<rows, ext, next, anime, overlap, batched, alone>>
  BY JobOf DEF MergeRepoint, Goto, Repointed
<1>3. d \in job[w].dups /\ d \in Id /\ d # c
  BY <1>1, DupIn
<1> HIDE DEF c, d
<1>4. links \subseteq Id \X Item
  BY DEF IndInv, RowTypes
<1>5. ASSUME NEW m \in links' PROVE m \in Id \X Item /\ m[1] # d
  <2>1. PICK l \in links : m = <<IF l[1] = d THEN c ELSE l[1], l[2]>>
    BY <1>2, <1>5
  <2> QED
    BY <1>1, <1>3, <1>4, <2>1
<1>6. RowTypes'
  BY <1>2, <1>5 DEF IndInv, RowTypes
<1>7. NothingOrphaned'
  <2> SUFFICES ASSUME ~overlap, ~batched PROVE NothingOrphaned'
    BY <1>2 DEF NothingOrphaned
  <2>1. c \in rows
    BY <1>1 DEF SoloAt, Undisturbed, Merging, c
  <2>2. ASSUME NEW x \in Item PROVE \E i \in rows : <<i, x>> \in links'
    <3>1. PICK i \in rows : <<i, x>> \in links
      BY DEF IndInv, NothingOrphaned
    <3>2. <<IF i = d THEN c ELSE i, x>> \in links'
      BY <1>2, <3>1
    <3> QED
      BY <2>1, <3>1, <3>2
  <2> QED
    BY <1>2, <2>2 DEF IndInv, NothingOrphaned
<1>8. pc'[w] = "mergeDelete" /\ job'[w] = job[w] /\ Dup(w)' = d
  BY <1>2 DEF IndInv, JobTypes, Dup, d
<1>9. JobAt(w)'
  BY <1>1, <1>2, <1>8 DEF JobAt, Busy, Merging, Resolving, c
<1>10. RepairAt(w)'
  BY <1>1, <1>2, <1>8 DEF RepairAt, Merging
<1>11. Undisturbed => SoloAt(w)'
  BY <1>1, <1>2, <1>5, <1>8 DEF SoloAt, Merging
<1>12. alone => HealAt(w)'
  BY <1>1, <1>2, <1>8 DEF HealAt, Share, Group, Merging
<1> QED
  BY <1>1, <1>2, <1>6, <1>7, <1>9, <1>10, <1>11, <1>12, StepFrame DEF PC

\* merge deletes the duplicate.
LEMMA MergeDeleteInv == ASSUME IndInv, NEW w \in Worker, MergeDelete(w) PROVE IndInv'
<1> DEFINE d == Dup(w)
           c == job[w].canon
           rest == job[w].dups \ {d}
           j == [job[w] EXCEPT !.dups = rest]
           l == CASE rest # {} -> "mergeBackfill"
                  [] rest = {} /\ job[w].op = "link" -> "linkKeys"
                  [] rest = {} /\ job[w].op = "repair" -> "groups"
                  [] OTHER -> "backfill"
<1>1. /\ pc[w] = "mergeDelete" /\ Busy(w) /\ job[w] \in Job /\ JobAt(w) /\ RepairAt(w)
      /\ c \in Id \ job[w].dups /\ job[w].dups # {} /\ job[w].dups \in SUBSET Id
      /\ Undisturbed => SoloAt(w)
      /\ alone => HealAt(w)
  BY JobOf DEF MergeDelete, JobAt, Busy, Merging, Job
<1>2. /\ pc' = [pc EXCEPT ![w] = l] /\ job' = [job EXCEPT ![w] = j]
      /\ rows' = rows \ {d} /\ ext' = [i \in Id |-> IF i \in rows' THEN ext[i] ELSE {}]
      /\ anime' = anime \ {d} /\ links' = {m \in links : m[1] # d}
      /\ UNCHANGED <<next, overlap, batched, alone>>
  BY DEF MergeDelete, Goto, Set, IndexWithout
<1>3. d \in job[w].dups /\ d \in Id /\ d # c
  BY <1>1, DupIn
<1>4. job[w].op \in AllOps
  BY <1>1 DEF JobAt, Job
<1>5. /\ rest # {} => l = "mergeBackfill"
      /\ rest = {} => l = CASE job[w].op = "link" -> "linkKeys" [] job[w].op = "repair" -> "groups" [] OTHER -> "backfill"
  OBVIOUS
<1>6. /\ l \in PC \ {"idle"}
      /\ l = "mergeBackfill" <=> rest # {}
      /\ l \in {"mergeBackfill", "linkKeys", "groups", "backfill"}
      /\ l = "linkKeys" => job[w].op = "link"
      /\ l = "groups" => job[w].op = "repair"
      /\ l = "backfill" => job[w].op \in {"ingest", "enrich"}
  <2> HIDE DEF l, rest
  <2> QED
    BY <1>4, <1>5 DEF AllOps, PC
<1>7. /\ j \in Job /\ j.op = job[w].op /\ j.todo = job[w].todo /\ j.keys = job[w].keys
      /\ j.out = job[w].out /\ j.lookup = job[w].lookup /\ j.canon = c /\ j.dups = rest
  BY <1>1 DEF Job
<1>8. rest \subseteq job[w].dups /\ d \notin rest /\ (\A i \in job[w].dups : i # d => i \in rest)
  OBVIOUS
<1> HIDE DEF d, j, l, rest
<1>9. pc'[w] = l /\ job'[w] = j
  BY <1>2 DEF IndInv, JobTypes
<1>10. JobAt(w)'
  BY <1>1, <1>2, <1>6, <1>7, <1>8, <1>9 DEF JobAt, Busy, Merging, Resolving
<1>11. RepairAt(w)'
  BY <1>1, <1>7, <1>8, <1>9, <1>6 DEF RepairAt, Merging
<1>12. RowTypes'
  <2>1. ext' \in [Id -> SUBSET Pair] /\ \A i \in Id : Functional(ext'[i])
    BY <1>2 DEF IndInv, RowTypes, Functional
  <2> QED
    BY <1>2, <2>1 DEF IndInv, RowTypes
<1>13. NothingOrphaned'
  <2> SUFFICES ASSUME ~overlap, ~batched PROVE NothingOrphaned'
    BY <1>2 DEF NothingOrphaned
  <2>1. \A m \in links : m[1] # d
    BY <1>1 DEF SoloAt, Undisturbed, d
  <2>2. links' = links
    BY <1>2, <2>1
  <2>3. ASSUME NEW x \in Item PROVE \E i \in rows' : <<i, x>> \in links'
    <3>1. PICK i \in rows : <<i, x>> \in links
      BY DEF IndInv, NothingOrphaned
    <3>2. i # d
      BY <2>1, <3>1
    <3> QED
      BY <1>2, <2>2, <3>1, <3>2
  <2> QED
    BY <1>2, <2>3 DEF IndInv, NothingOrphaned
<1>14. Undisturbed => SoloAt(w)'
  <2> SUFFICES ASSUME Undisturbed PROVE SoloAt(w)'
    OBVIOUS
  <2>1. c \in rows' /\ rest \subseteq rows'
    BY <1>1, <1>2, <1>3, <1>8 DEF SoloAt, Merging
  <2>2. ASSUME job[w].op = "repair", NEW e \in job[w].lookup PROVE e[2] \in rows' /\ e[1] \in ext'[e[2]]
    <3>1. e[2] \in rows /\ e[1] \in ext[e[2]] /\ e[2] # d /\ e[2] \in Id
      BY <1>1, <1>3, <2>2 DEF SoloAt, RepairAt, Merging, Job
    <3> QED
      BY <1>2, <3>1
  <2> QED
    BY <1>6, <1>7, <1>9, <2>1, <2>2 DEF SoloAt, Merging
<1>15. alone => HealAt(w)'
  <2> SUFFICES ASSUME alone, NEW p \in Pair \ job[w].keys, NEW m \in Id, NEW n \in Id, Share(p, m, n)'
               PROVE  \/ <<p, m>> \in job[w].lookup /\ <<p, n>> \in job[w].lookup
                      \/ m \in Group(w)' /\ n \in Group(w)'
    BY <1>7, <1>9 DEF HealAt
  <2>1. Share(p, m, n) /\ m # d /\ n # d
    BY <1>2 DEF Share
  <2>2. CASE m \in Group(w) /\ n \in Group(w)
    <3>1. m \in rest \cup {c} /\ n \in rest \cup {c} /\ m # n
      BY <1>8, <2>1, <2>2 DEF Group, Share
    <3>2. rest # {}
      BY <3>1
    <3> QED
      BY <1>6, <1>7, <1>9, <3>1, <3>2 DEF Group, Merging
  <2> QED
    BY <1>1, <2>1, <2>2 DEF HealAt
<1> QED
  BY <1>1, <1>2, <1>6, <1>7, <1>10, <1>11, <1>12, <1>13, <1>14, <1>15, StepFrame

\* The payload's ids are filled in, and the payload is resolved.
LEMMA BackfillInv == ASSUME IndInv, NEW w \in Worker, Backfill(w) PROVE IndInv'
<1> DEFINE c == job[w].canon
           ps == Head(job[w].todo)
<1>1. /\ pc[w] = "backfill" /\ Busy(w) /\ job[w] \in Job /\ JobAt(w)
      /\ c \in Id /\ job[w].op \in {"ingest", "enrich"} /\ job[w].todo \in Seq(Payloads)
      /\ job[w].todo # <<>> /\ job[w].dups = {}
      /\ Undisturbed => SoloAt(w)
  BY JobOf DEF Backfill, JobAt, Busy, Merging, Resolving, Job
<1>2. /\ ext' = Filled(c, ps) /\ Resolved(w, c)
      /\ UNCHANGED <<rows, next, links, anime, overlap, batched, alone>>
  BY DEF Backfill
<1>3. RowTypes /\ ps \in SUBSET Pair /\ Functional(ps) /\ ps # {}
  BY <1>1, HeadPayload DEF IndInv
<1>4. /\ ext' \in [Id -> SUBSET Pair] /\ \A i \in Id : Functional(ext'[i])
      /\ \A i \in Id \ rows : ext'[i] = {}
  BY <1>1, <1>2, <1>3, FilledRow
<1>5. RowTypes' /\ NothingOrphaned'
  BY <1>2, <1>3, <1>4 DEF IndInv, RowTypes, NothingOrphaned
<1>6. ~alone
  BY <1>1, OnlyRepair
<1>7. CASE job[w].op = "ingest"
  <2> DEFINE kept == {e \in job[w].lookup : e[1] \notin ps}
             rest == Tail(job[w].todo)
             rec == [id |-> c, ids |-> ps]
             out == Append(job[w].out, rec)
             l == IF rest = <<>> THEN "persist" ELSE "find"
             j == [job[w] EXCEPT !.todo = rest, !.canon = NoId,
                                 !.lookup = kept \cup (ps \X {c}), !.out = out]
  <2>1. pc' = [pc EXCEPT ![w] = l] /\ job' = [job EXCEPT ![w] = j]
    BY <1>2, <1>7 DEF Resolved, Goto, Set
  <2>2. /\ rest \in Seq(Payloads) /\ (Len(job[w].todo) <= 1 => rest = <<>>)
        /\ Len(rest) \in Nat /\ Len(rest) = Len(job[w].todo) - 1 /\ Len(job[w].todo) \in Nat
    BY <1>1, HeadPayload
  <2>3. rec \in Record /\ rec.id = c
    BY <1>1, <1>3 DEF Record
  <2>4. out \in Seq(Record) /\ (job[w].out = <<>> => out = <<rec>>)
    <3>1. job[w].out \in Seq(Record)
      BY <1>1 DEF Job
    <3> HIDE DEF rec
    <3> QED
      BY <2>3, <3>1, Added
  <2>5. kept \cup (ps \X {c}) \subseteq Pair \X Id
    BY <1>1, <1>3 DEF Job
  <2>6. /\ j.todo = rest /\ j.out = out /\ j.dups = {} /\ j.keys = job[w].keys /\ j.op = "ingest"
        /\ j \in Job
    <3> HIDE DEF rest, out, kept, ps
    <3> QED
      BY <1>1, <1>7, <2>2, <2>4, <2>5 DEF Job
  <2>7. l \in {"persist", "find"} /\ (l = "find" => rest # <<>>) /\ (l = "persist" => rest = <<>>)
    OBVIOUS
  <2> HIDE DEF j, l, rest, out, rec, kept
  <2>8. pc'[w] = l /\ job'[w] = j
    BY <2>1 DEF IndInv, JobTypes
  <2>9. JobAt(w)'
    BY <1>1, <1>2, <1>7, <2>2, <2>4, <2>6, <2>7, <2>8 DEF JobAt, Busy, Merging, Resolving
  <2>10. RepairAt(w)'
    BY <2>6, <2>8 DEF RepairAt
  <2>11. Undisturbed => SoloAt(w)'
    <3> SUFFICES ASSUME Undisturbed PROVE SoloAt(w)'
      OBVIOUS
    <3>1. ~batched /\ c \in rows
      BY <1>1, <1>6 DEF Undisturbed, SoloAt
    <3>2. job[w].out = <<>> /\ rest = <<>>
      BY <1>1, <2>2, <3>1 DEF JobAt
    <3>3. l = "persist" /\ out = <<rec>>
      BY <2>4, <2>7, <3>2
    <3> QED
      BY <1>2, <2>3, <2>6, <2>8, <3>1, <3>3 DEF SoloAt, Merging
  <2> QED
    BY <1>1, <1>2, <1>5, <1>6, <1>7, <2>1, <2>6, <2>7, <2>9, <2>10, <2>11, StepFrame DEF PC
<1>8. CASE job[w].op = "enrich"
  <2>1. pc' = [pc EXCEPT ![w] = "idle"] /\ job' = [job EXCEPT ![w] = NoJob]
    BY <1>2, <1>8 DEF Resolved, Goto, Set
  <2>2. pc'[w] = "idle" /\ job'[w] = NoJob
    BY <2>1 DEF IndInv, JobTypes
  <2>3. JobAt(w)' /\ RepairAt(w)'
    BY <2>2, NoJobType DEF JobAt, RepairAt, Busy, Merging, Resolving
  <2> QED
    BY <1>1, <1>2, <1>5, <1>6, <2>1, <2>3, NoJobType, StepFrame DEF PC
<1> QED
  BY <1>1, <1>7, <1>8

\* allocate looks once more.
LEMMA AllocateInv == ASSUME IndInv, NEW w \in Worker, Allocate(w) PROVE IndInv'
<1> DEFINE there == {FindFirst(p) : p \in Head(job[w].todo)} \ {NoId}
<1>1. /\ pc[w] = "allocate" /\ Busy(w) /\ job[w] \in Job /\ JobAt(w)
      /\ job[w].op \in {"ingest", "enrich"} /\ job[w].dups = {}
  BY JobOf DEF Allocate, JobAt, Busy, Merging, Resolving
<1>2. UNCHANGED <<rows, ext, next, links, anime, overlap, batched, alone>>
  BY DEF Allocate
<1>3. RowTypes' /\ NothingOrphaned'
  BY <1>2 DEF IndInv, RowTypes, NothingOrphaned
<1>4. ~alone
  BY <1>1, OnlyRepair
<1>5. there \subseteq Id \cap rows
  BY FoundRow DEF IndInv, RowTypes
<1>6. CASE there = {}
  <2>1. pc' = [pc EXCEPT ![w] = "insert"] /\ job' = [job EXCEPT ![w] = job[w]]
    BY <1>6, JobOf DEF Allocate, Goto
  <2>2. pc'[w] = "insert" /\ job'[w] = job[w]
    BY <2>1 DEF IndInv, JobTypes
  <2>3. JobAt(w)' /\ RepairAt(w)' /\ SoloAt(w)'
    BY <1>1, <1>2, <2>2 DEF JobAt, RepairAt, SoloAt, Busy, Merging, Resolving
  <2> QED
    BY <1>1, <1>2, <1>3, <1>4, <2>1, <2>3, StepFrame DEF PC
<1>7. CASE there # {}
  <2>1. PICK i \in there : Set(w, [job[w] EXCEPT !.canon = i]) /\ Goto(w, "backfill")
    BY <1>7 DEF Allocate
  <2> DEFINE j == [job[w] EXCEPT !.canon = i]
  <2>2. /\ j \in Job /\ j.canon = i /\ j.op = job[w].op /\ j.todo = job[w].todo /\ j.keys = job[w].keys
        /\ j.out = job[w].out /\ j.lookup = job[w].lookup /\ j.dups = {}
    <3> HIDE DEF there
    <3> QED
      BY <1>1, <1>5 DEF Job
  <2>3. pc' = [pc EXCEPT ![w] = "backfill"] /\ job' = [job EXCEPT ![w] = j]
    BY <2>1 DEF Set, Goto
  <2> HIDE DEF j, there
  <2>4. pc'[w] = "backfill" /\ job'[w] = j
    BY <2>3 DEF IndInv, JobTypes
  <2>5. JobAt(w)' /\ RepairAt(w)' /\ SoloAt(w)'
    BY <1>1, <1>2, <1>5, <2>2, <2>4 DEF JobAt, RepairAt, SoloAt, Busy, Merging, Resolving
  <2> QED
    BY <1>1, <1>2, <1>3, <1>4, <2>2, <2>3, <2>5, StepFrame DEF PC
<1> QED
  BY <1>6, <1>7

\* getId inserts a row.
LEMMA InsertInv == ASSUME IndInv, NEW w \in Worker, Insert(w) PROVE IndInv'
<1> DEFINE p == CHOOSE q \in Head(job[w].todo) : TRUE
           c == Min(Having(p) \cup {next})
           j == [job[w] EXCEPT !.canon = c]
<1>1. /\ pc[w] = "insert" /\ Busy(w) /\ job[w] \in Job /\ JobAt(w)
      /\ job[w].op \in {"ingest", "enrich"} /\ job[w].dups = {}
      /\ job[w].todo \in Seq(Payloads) /\ job[w].todo # <<>>
  BY JobOf DEF Insert, JobAt, Busy, Merging, Resolving, Job
<1>2. /\ next <= MaxId /\ rows' = rows \cup {next} /\ ext' = [ext EXCEPT ![next] = {p}]
      /\ next' = next + 1 /\ pc' = [pc EXCEPT ![w] = "backfill"] /\ job' = [job EXCEPT ![w] = j]
      /\ UNCHANGED <<links, anime, overlap, batched, alone>>
  BY DEF Insert, Set, Goto
<1>3. p \in Pair
  BY <1>1, HeadPayload
<1>4. RowTypes /\ next \in Id /\ next \in Nat /\ next \notin rows
  BY <1>2, Names DEF IndInv, RowTypes, Id
<1>5. c \in rows \cup {next} /\ c \in Id
  <2>1. Having(p) \cup {next} \subseteq Id /\ Having(p) \subseteq rows
    BY <1>4 DEF RowTypes, Having
  <2> HIDE DEF p
  <2> QED
    BY <2>1, Ends
<1> HIDE DEF p, c
<1>6. /\ j \in Job /\ j.canon = c /\ j.op = job[w].op /\ j.todo = job[w].todo /\ j.keys = job[w].keys
      /\ j.out = job[w].out /\ j.lookup = job[w].lookup /\ j.dups = {}
  BY <1>1, <1>5 DEF Job
<1> HIDE DEF j
<1>7. RowTypes'
  <2>1. Functional({p})
    BY DEF Functional
  <2>2. /\ ext' \in [Id -> SUBSET Pair] /\ \A i \in Id : Functional(ext'[i])
        /\ \A i \in Id \ rows' : ext'[i] = {}
    BY <1>2, <1>3, <1>4, <2>1 DEF RowTypes
  <2>3. next' \in 1..(MaxId + 1) /\ rows' \subseteq Id /\ \A i \in rows' : i < next'
    BY <1>2, <1>4, Names DEF RowTypes, Id
  <2> QED
    BY <1>2, <1>4, <2>2, <2>3 DEF RowTypes
<1>8. NothingOrphaned'
  BY <1>2 DEF IndInv, NothingOrphaned
<1>9. pc'[w] = "backfill" /\ job'[w] = j
  BY <1>2 DEF IndInv, JobTypes
<1>10. JobAt(w)' /\ RepairAt(w)' /\ SoloAt(w)'
  BY <1>1, <1>2, <1>5, <1>6, <1>9 DEF JobAt, RepairAt, SoloAt, Busy, Merging, Resolving
<1>11. ~alone
  BY <1>1, OnlyRepair
<1> QED
  BY <1>1, <1>2, <1>6, <1>7, <1>8, <1>10, <1>11, StepFrame DEF PC

\* The records of a batch are stored.
LEMMA PersistInv == ASSUME IndInv, NEW w \in Worker, Persist(w) PROVE IndInv'
<1>1. /\ pc[w] = "persist" /\ Busy(w) /\ JobAt(w) /\ job[w].op = "ingest"
      /\ Undisturbed => SoloAt(w)
  BY JobOf DEF Persist, JobAt, Busy
<1>2. /\ pc' = [pc EXCEPT ![w] = "idle"] /\ job' = [job EXCEPT ![w] = NoJob]
      /\ anime' = anime \cup DeduplicatedIds(job[w].out)
      /\ UNCHANGED <<rows, ext, next, links, overlap, batched, alone>>
  BY DEF Persist, Set, Goto
<1>3. pc'[w] = "idle" /\ job'[w] = NoJob
  BY <1>2 DEF IndInv, JobTypes
<1>4. JobAt(w)' /\ RepairAt(w)'
  BY <1>3, NoJobType DEF JobAt, RepairAt, Busy, Merging, Resolving
<1>5. NothingOrphaned'
  <2> SUFFICES ASSUME ~overlap, ~batched PROVE NothingOrphaned'
    BY <1>2 DEF NothingOrphaned
  <2>1. PICK r \in Record : job[w].out = <<r>> /\ r.id \in rows
    BY <1>1 DEF SoloAt, Undisturbed
  <2>2. DeduplicatedIds(job[w].out) = {r.id}
    BY <2>1, DeduplicatedOne
  <2> QED
    BY <1>2, <2>1, <2>2 DEF IndInv, NothingOrphaned
<1>6. RowTypes' /\ ~alone
  BY <1>1, <1>2, OnlyRepair DEF IndInv, RowTypes
<1> QED
  BY <1>1, <1>2, <1>4, <1>5, <1>6, NoJobType, StepFrame DEF PC

\* link looks at one of the ids.
LEMMA LinkKeyInv == ASSUME IndInv, NEW w \in Worker, NEW p \in Pair, LinkKey(w, p) PROVE IndInv'
<1> DEFINE f == FindFirst(p)
           c == job[w].canon
<1>1. /\ pc[w] = "linkKeys" /\ Busy(w) /\ job[w] \in Job /\ JobAt(w) /\ job[w].op = "link"
      /\ job[w].dups = {} /\ c \in Id
      /\ Undisturbed => c \in rows
  BY JobOf DEF LinkKey, JobAt, SoloAt, Busy, Merging
<1>2. UNCHANGED <<rows, ext, next, links, anime, overlap, batched, alone>>
  BY DEF LinkKey
<1>3. RowTypes' /\ NothingOrphaned'
  BY <1>2 DEF IndInv, RowTypes, NothingOrphaned
<1>4. ~alone
  BY <1>1, OnlyRepair
<1>5. f \in {NoId, c} \/ (f \in rows \cap Id /\ f # c)
  BY FoundRow DEF IndInv, RowTypes
<1>6. CASE f \in {NoId, c}
  <2> DEFINE j == [job[w] EXCEPT !.keys = @ \ {p}]
  <2>1. pc' = [pc EXCEPT ![w] = "linkKeys"] /\ job' = [job EXCEPT ![w] = j]
    BY <1>6 DEF LinkKey, Goto, Set
  <2>2. /\ j \in Job /\ j.canon = c /\ j.op = "link" /\ j.todo = job[w].todo
        /\ j.out = job[w].out /\ j.dups = {}
    BY <1>1 DEF Job
  <2> HIDE DEF j
  <2>3. pc'[w] = "linkKeys" /\ job'[w] = j
    BY <2>1 DEF IndInv, JobTypes
  <2>4. JobAt(w)' /\ RepairAt(w)'
    BY <1>1, <1>2, <2>2, <2>3 DEF JobAt, RepairAt, Busy, Merging, Resolving
  <2>5. Undisturbed => SoloAt(w)'
    BY <1>1, <1>2, <2>2, <2>3 DEF SoloAt, Merging
  <2> QED
    BY <1>1, <1>2, <1>3, <1>4, <2>1, <2>2, <2>4, <2>5, StepFrame DEF PC
<1>7. CASE f \notin {NoId, c}
  <2> DEFINE j == [job[w] EXCEPT !.keys = @ \ {p}, !.canon = f, !.dups = {c}]
  <2>1. pc' = [pc EXCEPT ![w] = "mergeBackfill"] /\ job' = [job EXCEPT ![w] = j]
    BY <1>7 DEF LinkKey, Goto, Set
  <2>2. f \in rows \cap Id /\ f # c
    BY <1>5, <1>7
  <2> HIDE DEF f
  <2>3. /\ j \in Job /\ j.canon = f /\ j.op = "link" /\ j.todo = job[w].todo
        /\ j.out = job[w].out /\ j.dups = {c}
    BY <1>1, <2>2 DEF Job
  <2> HIDE DEF j, c
  <2>4. pc'[w] = "mergeBackfill" /\ job'[w] = j
    BY <2>1 DEF IndInv, JobTypes
  <2>5. JobAt(w)' /\ RepairAt(w)'
    BY <1>1, <1>2, <2>2, <2>3, <2>4 DEF JobAt, RepairAt, Busy, Merging, Resolving
  <2>6. Undisturbed => SoloAt(w)'
    BY <1>1, <1>2, <2>2, <2>3, <2>4 DEF SoloAt, Merging
  <2> QED
    BY <1>1, <1>2, <1>3, <1>4, <2>1, <2>3, <2>5, <2>6, StepFrame DEF PC
<1> QED
  BY <1>6, <1>7

\* link ends.
LEMMA LinkDoneInv == ASSUME IndInv, NEW w \in Worker, LinkDone(w) PROVE IndInv'
<1> DEFINE c == job[w].canon
           ps == Head(job[w].todo)
<1>1. /\ pc[w] = "linkKeys" /\ Busy(w) /\ job[w] \in Job /\ JobAt(w) /\ job[w].op = "link" /\ c \in Id
      /\ job[w].todo \in Seq(Payloads) /\ job[w].todo # <<>>
  BY JobOf DEF LinkDone, JobAt, Busy, Job
<1>2. /\ ext' = Filled(c, ps) /\ pc' = [pc EXCEPT ![w] = "idle"] /\ job' = [job EXCEPT ![w] = NoJob]
      /\ UNCHANGED <<rows, next, links, anime, overlap, batched, alone>>
  BY DEF LinkDone, Set, Goto
<1>3. RowTypes /\ ps \in SUBSET Pair /\ Functional(ps)
  BY <1>1, HeadPayload DEF IndInv
<1>4. /\ ext' \in [Id -> SUBSET Pair] /\ \A i \in Id : Functional(ext'[i])
      /\ \A i \in Id \ rows : ext'[i] = {}
  BY <1>1, <1>2, <1>3, FilledRow
<1>5. RowTypes' /\ NothingOrphaned' /\ ~alone
  BY <1>1, <1>2, <1>3, <1>4, OnlyRepair DEF IndInv, RowTypes, NothingOrphaned
<1>6. pc'[w] = "idle" /\ job'[w] = NoJob
  BY <1>2 DEF IndInv, JobTypes
<1>7. JobAt(w)' /\ RepairAt(w)'
  BY <1>6, NoJobType DEF JobAt, RepairAt, Busy, Merging, Resolving
<1> QED
  BY <1>1, <1>2, <1>5, <1>7, NoJobType, StepFrame DEF PC

\* A repair scans a column: the rows that have an external id of the column are
\* a group if there are two, and no row has two of them.
LEMMA RepairScanInv == ASSUME IndInv, NEW w \in Worker, NEW k \in Key, RepairScan(w, k) PROVE IndInv'
<1> DEFINE column == {p \in job[w].keys : p[1] = k}
           found == UNION {{p} \X Having(p) : p \in {q \in column : Duplicated(q)}}
           j == [job[w] EXCEPT !.keys = @ \ column, !.lookup = found]
<1>1. /\ pc[w] = "scan" /\ Busy(w) /\ job[w] \in Job /\ JobAt(w) /\ RepairAt(w)
      /\ job[w].op = "repair" /\ job[w].dups = {} /\ job[w].lookup = {}
      /\ job[w].keys \subseteq Pair
      /\ alone => HealAt(w)
  BY JobOf DEF RepairScan, JobAt, RepairAt, Busy, Merging, Job
<1>2. /\ pc' = [pc EXCEPT ![w] = "groups"] /\ job' = [job EXCEPT ![w] = j]
      /\ UNCHANGED <<rows, ext, next, links, anime, overlap, batched, alone>>
  BY DEF RepairScan, Set, Goto
<1>3. RowTypes
  BY DEF IndInv
<1>4. \A p \in Pair : Duplicated(p) <=> \E m, n \in Having(p) : m # n
  <2> TAKE p \in Pair
  <2>1. Having(p) \subseteq Id
    BY <1>3 DEF Having, RowTypes
  <2>2. IsFiniteSet(Id)
    BY CatalogOps, FS_Interval DEF Id
  <2>3. Cardinality(Having(p)) \in Nat
    BY <2>1, <2>2, FS_Subset, FS_CardinalityType
  <2>4. Cardinality(Having(p)) >= 2 <=> Cardinality(Having(p)) > 1
    BY <2>3
  <2> QED
    BY <2>1, <2>4, AtMostOne DEF Duplicated
<1>5. \A e \in found : /\ e = <<e[1], e[2]>> /\ e[1] \in column /\ Duplicated(e[1]) /\ e[2] \in Having(e[1])
  OBVIOUS
<1>6. \A p \in column : Duplicated(p) => \A i \in Having(p) : <<p, i>> \in found
  OBVIOUS
<1>7. \A p \in column : p \in Pair /\ p[1] = k /\ p \in job[w].keys
  BY <1>1
<1>8. \A p \in job[w].keys : p \in column \/ p \in job[w].keys \ column
  OBVIOUS
<1> HIDE DEF found
<1>9. /\ j \in Job /\ j.canon = job[w].canon /\ j.op = "repair" /\ j.todo = job[w].todo
      /\ j.out = job[w].out /\ j.dups = {} /\ j.keys = job[w].keys \ column /\ j.lookup = found
  <2>1. found \subseteq Pair \X Id
    <3> SUFFICES ASSUME NEW e \in found PROVE e \in Pair \X Id
      OBVIOUS
    <3>1. e = <<e[1], e[2]>> /\ e[1] \in Pair /\ e[2] \in Id
      BY <1>3, <1>5, <1>7 DEF Having, RowTypes
    <3> QED
      BY <3>1
  <2> HIDE DEF column
  <2> QED
    BY <1>1, <2>1 DEF Job
<1> HIDE DEF j, column
<1>10. pc'[w] = "groups" /\ job'[w] = j
  BY <1>2 DEF IndInv, JobTypes
<1>11. JobAt(w)'
  BY <1>1, <1>2, <1>9, <1>10 DEF JobAt, Busy, Merging, Resolving
<1>12. RepairAt(w)'
  <2>1. ASSUME NEW e \in found PROVE \E f \in found : f[1] = e[1] /\ f[2] # e[2]
    <3>1. PICK n \in Having(e[1]) : n # e[2]
      BY <1>4, <1>5, <1>7
    <3>2. <<e[1], n>> \in found
      BY <1>5, <1>6
    <3> QED
      BY <3>1, <3>2
  <2>2. ASSUME NEW e \in found, NEW f \in found, e[2] = f[2] PROVE e[1] = f[1]
    <3>1. Functional(ext[e[2]]) /\ e[1] \in ext[e[2]] /\ f[1] \in ext[e[2]]
      BY <1>3, <1>5, <2>2 DEF RowTypes, Having
    <3>2. e[1][1] = f[1][1]
      BY <1>5, <1>7
    <3> QED
      BY <3>1, <3>2 DEF Functional
  <2> QED
    BY <1>9, <1>10, <2>1, <2>2 DEF RepairAt, Merging
<1>13. SoloAt(w)'
  BY <1>2, <1>5, <1>9, <1>10 DEF SoloAt, Merging, Having
<1>14. alone => HealAt(w)'
  <2> SUFFICES ASSUME alone, NEW p \in Pair \ j.keys, NEW m \in Id, NEW n \in Id, Share(p, m, n)
               PROVE  <<p, m>> \in found /\ <<p, n>> \in found
    BY <1>2, <1>9, <1>10 DEF HealAt, Share
  <2>1. p \in column
    <3>1. CASE p \notin job[w].keys
      BY <1>1, <3>1 DEF HealAt, Group, Merging
    <3> QED
      BY <1>8, <1>9, <3>1
  <2>2. m \in Having(p) /\ n \in Having(p) /\ Duplicated(p)
    BY <1>4 DEF Share, Having
  <2> QED
    BY <1>6, <2>1, <2>2
<1>15. RowTypes' /\ NothingOrphaned'
  BY <1>2 DEF IndInv, RowTypes, NothingOrphaned
<1> QED
  BY <1>1, <1>2, <1>9, <1>11, <1>12, <1>13, <1>14, <1>15, StepFrame DEF PC

\* A repair takes up a group.
LEMMA RepairGroupInv == ASSUME IndInv, NEW w \in Worker, NEW p \in Pair, RepairGroup(w, p) PROVE IndInv'
<1> DEFINE ids == {e[2] : e \in {f \in job[w].lookup : f[1] = p}}
           rest == {e \in job[w].lookup : e[1] # p}
           c == Preferred(ids)
           j == [job[w] EXCEPT !.lookup = {e \in @ : e[1] # p}, !.canon = c, !.dups = ids \ {c}]
<1>1. /\ pc[w] = "groups" /\ Busy(w) /\ job[w] \in Job /\ JobAt(w) /\ RepairAt(w)
      /\ job[w].op = "repair" /\ job[w].lookup \subseteq Pair \X Id
      /\ Undisturbed => SoloAt(w)
      /\ alone => HealAt(w)
  BY JobOf DEF RepairGroup, JobAt, RepairAt, Busy, Merging, Job
<1>2. /\ pc' = [pc EXCEPT ![w] = "mergeBackfill"] /\ job' = [job EXCEPT ![w] = j] /\ ids # {}
      /\ UNCHANGED <<rows, ext, next, links, anime, overlap, batched, alone>>
  BY DEF RepairGroup, Set, Goto
<1>3. ids \subseteq Id /\ c \in ids
  <2>1. ids \subseteq Id
    BY <1>1
  <2> HIDE DEF ids
  <2> QED
    BY <1>2, <2>1, Ends DEF Preferred
<1>4. \A i \in ids : \E e \in job[w].lookup : e[1] = p /\ e[2] = i
  OBVIOUS
<1>5. \A e \in job[w].lookup : e \in rest \/ (e[1] = p /\ e[2] \in ids)
  OBVIOUS
<1>6. \A e \in rest : e \in job[w].lookup /\ e[1] # p
  OBVIOUS
<1> HIDE DEF ids, c
<1>7. /\ j \in Job /\ j.canon = c /\ j.op = "repair" /\ j.todo = job[w].todo
      /\ j.out = job[w].out /\ j.dups = ids \ {c} /\ j.keys = job[w].keys /\ j.lookup = rest
  BY <1>1, <1>3 DEF Job
<1> HIDE DEF j, rest
<1>8. ids \ {c} # {}
  <2>1. PICK e \in job[w].lookup : e[1] = p /\ e[2] = c
    BY <1>3, <1>4
  <2>2. PICK f \in job[w].lookup : f[1] = p /\ f[2] # c
    BY <1>1, <2>1 DEF RepairAt
  <2> QED
    BY <1>5, <1>6, <2>2
<1>9. pc'[w] = "mergeBackfill" /\ job'[w] = j
  BY <1>2 DEF IndInv, JobTypes
<1>10. JobAt(w)'
  BY <1>1, <1>2, <1>3, <1>7, <1>8, <1>9 DEF JobAt, Busy, Merging, Resolving
<1>11. RepairAt(w)'
  <2>1. ASSUME NEW e \in rest PROVE \E f \in rest : f[1] = e[1] /\ f[2] # e[2]
    <3>1. PICK f \in job[w].lookup : f[1] = e[1] /\ f[2] # e[2]
      BY <1>1, <1>6, <2>1 DEF RepairAt
    <3> QED
      BY <1>5, <1>6, <3>1
  <2>2. ASSUME NEW e \in rest PROVE e[2] \notin ids
    <3> SUFFICES ASSUME e[2] \in ids PROVE FALSE
      OBVIOUS
    <3>1. PICK f \in job[w].lookup : f[1] = p /\ f[2] = e[2]
      BY <1>4
    <3> QED
      BY <1>1, <1>6, <2>2, <3>1 DEF RepairAt
  <2>3. \A e, f \in rest : e[2] = f[2] => e[1] = f[1]
    BY <1>1, <1>6 DEF RepairAt
  <2> QED
    BY <1>3, <1>7, <1>9, <2>1, <2>2, <2>3 DEF RepairAt
<1>12. Undisturbed => SoloAt(w)'
  <2> SUFFICES ASSUME Undisturbed PROVE SoloAt(w)'
    OBVIOUS
  <2>1. \A e \in job[w].lookup : e[2] \in rows /\ e[1] \in ext[e[2]]
    BY <1>1 DEF SoloAt
  <2>2. ids \subseteq rows
    BY <1>4, <2>1
  <2> QED
    BY <1>2, <1>3, <1>6, <1>7, <1>9, <2>1, <2>2 DEF SoloAt, Merging
<1>13. alone => HealAt(w)'
  <2> SUFFICES ASSUME alone, NEW q \in Pair \ job[w].keys, NEW m \in Id, NEW n \in Id, Share(q, m, n)
               PROVE  \/ <<q, m>> \in rest /\ <<q, n>> \in rest
                      \/ m \in ids /\ n \in ids
    BY <1>2, <1>3, <1>7, <1>9 DEF HealAt, Share, Group, Merging
  <2>1. <<q, m>> \in job[w].lookup /\ <<q, n>> \in job[w].lookup
    BY <1>1 DEF HealAt, Group, Merging
  <2> QED
    BY <1>5, <1>6, <2>1
<1>14. RowTypes' /\ NothingOrphaned'
  BY <1>2 DEF IndInv, RowTypes, NothingOrphaned
<1> QED
  BY <1>1, <1>2, <1>7, <1>10, <1>11, <1>12, <1>13, <1>14, StepFrame DEF PC

\* A column is done.
LEMMA RepairNextInv == ASSUME IndInv, NEW w \in Worker, RepairNext(w) PROVE IndInv'
<1>1. /\ pc[w] = "groups" /\ Busy(w) /\ job[w] \in Job /\ JobAt(w) /\ RepairAt(w)
      /\ job[w].op = "repair" /\ job[w].lookup = {} /\ job[w].dups = {}
      /\ Undisturbed => SoloAt(w)
      /\ alone => HealAt(w)
  BY JobOf DEF RepairNext, JobAt, Busy, Merging
<1>2. UNCHANGED <<rows, ext, next, links, anime, overlap, batched, alone>>
  BY DEF RepairNext
<1>3. RowTypes' /\ NothingOrphaned'
  BY <1>2 DEF IndInv, RowTypes, NothingOrphaned
<1>4. Group(w) = {}
  BY <1>1 DEF Group, Merging
<1>5. CASE job[w].keys = {}
  <2>1. pc' = [pc EXCEPT ![w] = "idle"] /\ job' = [job EXCEPT ![w] = NoJob]
    BY <1>5 DEF RepairNext, Goto, Set
  <2>2. pc'[w] = "idle" /\ job'[w] = NoJob
    BY <2>1 DEF IndInv, JobTypes
  <2>3. JobAt(w)' /\ RepairAt(w)'
    BY <2>2, NoJobType DEF JobAt, RepairAt, Busy, Merging, Resolving
  <2>4. alone => \A p \in Pair : \A m, n \in Id : ~Share(p, m, n)'
    BY <1>1, <1>2, <1>4, <1>5 DEF HealAt, Share
  <2> QED
    BY <1>1, <1>2, <1>3, <2>1, <2>3, <2>4, NoJobType, StepFrame DEF PC
<1>6. CASE job[w].keys # {}
  <2>1. pc' = [pc EXCEPT ![w] = "scan"] /\ job' = [job EXCEPT ![w] = job[w]]
    BY <1>6, JobOf DEF RepairNext, Goto
  <2>2. pc'[w] = "scan" /\ job'[w] = job[w]
    BY <2>1 DEF IndInv, JobTypes
  <2>3. JobAt(w)' /\ RepairAt(w)' /\ SoloAt(w)'
    BY <1>1, <1>2, <2>2 DEF JobAt, RepairAt, SoloAt, Busy, Merging, Resolving
  <2>4. alone => HealAt(w)'
    BY <1>1, <1>2, <1>4, <2>2 DEF HealAt, Share
  <2> QED
    BY <1>1, <1>2, <1>3, <2>1, <2>3, <2>4, StepFrame DEF PC
<1> QED
  BY <1>5, <1>6

\* Every step keeps the invariant.
LEMMA NextInv == IndInv /\ [Next]_vars => IndInv'
<1> SUFFICES ASSUME IndInv, [Next]_vars PROVE IndInv'
  OBVIOUS
<1>1. CASE UNCHANGED vars
  <2>1. RowTypes' /\ JobTypes' /\ NothingOrphaned'
    BY <1>1 DEF vars, IndInv, RowTypes, JobTypes, NothingOrphaned
  <2>2. QuietInv' /\ JobInv' /\ RepairInv'
    BY <1>1 DEF vars, IndInv, QuietInv, JobInv, JobAt, RepairInv, RepairAt, Busy
  <2>3. SoloInv'
    BY <1>1 DEF vars, IndInv, SoloInv, SoloAt, Undisturbed, Busy, Dup
  <2>4. HealInv'
    BY <1>1 DEF vars, IndInv, HealInv, HealAt, Share, Group, Busy
  <2> QED
    BY <2>1, <2>2, <2>3, <2>4 DEF IndInv
<1>2. ASSUME NEW w \in Worker,
             \/ \E b \in Batches : Ingest(w, b)
             \/ \E i \in Id, ps \in Payloads : Enrich(w, i, ps) \/ Link(w, i, ps)
             \/ Repair(w) \/ Lookup(w) \/ Find(w)
             \/ MergeBackfill(w) \/ MergeRepoint(w) \/ MergeDelete(w)
             \/ Backfill(w) \/ Allocate(w) \/ Insert(w) \/ Persist(w)
             \/ \E p \in Pair : LinkKey(w, p) \/ RepairGroup(w, p)
             \/ LinkDone(w) \/ RepairNext(w)
             \/ \E k \in Key : RepairScan(w, k)
      PROVE  IndInv'
  BY <1>2, IngestInv, OtherBeginInv, LookupInv, FindInv, MergeBackfillInv, MergeRepointInv,
     MergeDeleteInv,
     BackfillInv, AllocateInv, InsertInv, PersistInv, LinkKeyInv, LinkDoneInv, RepairScanInv,
     RepairGroupInv, RepairNextInv
<1> QED
  BY <1>1, <1>2 DEF Next

-----------------------------------------------------------------------------
(* What is known about the payload. *)

\* Filling in gives the row an id of every provider that has one to give, and
\* adds only ids of providers it had none of.
LEMMA FilledIds ==
    ASSUME RowTypes, NEW c \in Id, NEW ps \in SUBSET Pair
    PROVE  /\ c \in rows => \A p \in ps : \E q \in Filled(c, ps)[c] : q[1] = p[1]
           /\ \A p \in Filled(c, ps)[c] : p \in ext[c] \/ (p \in ps /\ ~Provided(c, p[1]))
<1> DEFINE add == {p \in ps : \A q \in ext[c] : q[1] # p[1]}
<1>1. CASE c \notin rows
  BY <1>1 DEF Filled
<1>2. CASE c \in rows
  <2>1. Filled(c, ps)[c] = ext[c] \cup add
    BY <1>2 DEF Filled, RowTypes
  <2>2. ASSUME NEW p \in ps PROVE \E q \in ext[c] \cup add : q[1] = p[1]
    <3>1. p \in add \/ \E q \in ext[c] : q[1] = p[1]
      OBVIOUS
    <3> QED
      BY <3>1
  <2>3. \A p \in add : p \in ps /\ ~Provided(c, p[1])
    BY DEF Provided
  <2> QED
    BY <2>1, <2>2, <2>3
<1> QED
  BY <1>1, <1>2

\* While operations do not overlap, a busy worker is the only one.
LEMMA OnlyOne ==
    ASSUME IndInv, NEW w \in Worker, Busy(w), ~overlap
    PROVE  \A v \in Worker : v # w => pc[v] = "idle"
  BY DEF IndInv, QuietInv, Busy

\* A busy worker's step.
LEMMA FoundFrame ==
    ASSUME IndInv, NEW w \in Worker, Busy(w), NEW l,
           pc' = [pc EXCEPT ![w] = l], UNCHANGED <<overlap, batched>>,
           ~overlap /\ ~batched => FoundAt(w)'
    PROVE  FoundInv'
<1> SUFFICES ASSUME ~overlap, ~batched PROVE FoundInv'
  BY DEF FoundInv
<1>1. \A v \in Worker : v # w => pc'[v] = "idle"
  BY OnlyOne DEF IndInv, JobTypes
<1>2. \A v \in Worker : v # w => FoundAt(v)'
  BY <1>1 DEF FoundAt, Merging
<1> QED
  BY <1>2 DEF FoundInv

\* An operation that starts has found nothing yet.
LEMMA FoundBegin ==
    ASSUME IndInv, NEW w \in Worker, NEW o, NEW l \in {"lookup", "find", "linkKeys", "scan"},
           NEW b \in BOOLEAN, NEW j, j \in Job, Begin(w, o, l, b, j),
           l = "linkKeys" => o = "link" /\ j.keys = Head(j.todo)
    PROVE  FoundInv'
<1> SUFFICES ASSUME ~overlap' PROVE FoundInv'
  BY DEF FoundInv
<1> DEFINE k == [j EXCEPT !.op = o]
<1>1. pc' = [pc EXCEPT ![w] = l] /\ job' = [job EXCEPT ![w] = k] /\ Active = {}
  BY DEF Begin, Goto, Set
<1>2. k.op = o /\ k.keys = j.keys /\ k.todo = j.todo
  BY DEF Job
<1> HIDE DEF k
<1>3. pc'[w] = l /\ job'[w] = k /\ \A v \in Worker : v # w => pc'[v] = "idle"
  BY <1>1 DEF IndInv, JobTypes, Active
<1>4. ASSUME NEW v \in Worker PROVE FoundAt(v)'
  BY <1>2, <1>3 DEF FoundAt, Merging, Settled
<1> QED
  BY <1>4 DEF FoundInv

\* An operation starts.
LEMMA FoundBegins ==
    ASSUME IndInv, NEW w \in Worker,
           \/ \E b \in Batches : Ingest(w, b)
           \/ \E i \in Id, ps \in Payloads : Enrich(w, i, ps) \/ Link(w, i, ps)
           \/ Repair(w)
    PROVE  FoundInv'
<1>1. ASSUME NEW b \in Batches, Ingest(w, b) PROVE FoundInv'
  <2> DEFINE j == [NoJob EXCEPT !.todo = b]
  <2>1. b \in Seq(Payloads)
    BY CatalogOps DEF Batches
  <2>2. j \in Job
    BY <2>1, NoJobType DEF NoJob, Job
  <2>3. Begin(w, "ingest", "lookup", Len(b) > 1, j) /\ (Len(b) > 1) \in BOOLEAN
    BY <1>1, <2>1 DEF Ingest
  <2> HIDE DEF j
  <2> QED
    BY <2>2, <2>3, FoundBegin
<1>2. ASSUME NEW i \in Id, NEW ps \in Payloads, Enrich(w, i, ps) PROVE FoundInv'
  <2> DEFINE j == [NoJob EXCEPT !.todo = <<ps>>]
  <2>1. <<ps>> \in Seq(Payloads)
    OBVIOUS
  <2>2. j \in Job
    BY <2>1, NoJobType DEF NoJob, Job
  <2>3. Begin(w, "enrich", "find", FALSE, j)
    BY <1>2 DEF Enrich
  <2> HIDE DEF j
  <2> QED
    BY <2>2, <2>3, FoundBegin
<1>3. ASSUME NEW i \in Id, NEW ps \in Payloads, Link(w, i, ps) PROVE FoundInv'
  <2> DEFINE j == [NoJob EXCEPT !.todo = <<ps>>, !.canon = i, !.keys = ps]
  <2>1. <<ps>> \in Seq(Payloads) /\ Head(<<ps>>) = ps
    OBVIOUS
  <2>2. j \in Job /\ j.keys = Head(j.todo)
    BY <2>1, PayloadPairs, NoJobType DEF NoJob, Job
  <2>3. Begin(w, "link", "linkKeys", FALSE, j)
    BY <1>3 DEF Link
  <2> HIDE DEF j
  <2> QED
    BY <2>2, <2>3, FoundBegin
<1>4. CASE Repair(w)
  <2> DEFINE j == [NoJob EXCEPT !.keys = Pair]
  <2>1. j \in Job
    BY NoJobType DEF NoJob, Job
  <2>2. Begin(w, "repair", "scan", FALSE, j)
    BY <1>4 DEF Repair
  <2> HIDE DEF j
  <2> QED
    BY <2>1, <2>2, FoundBegin
<1> QED
  BY <1>1, <1>2, <1>3, <1>4

\* Looking, storing and repairing: nothing is claimed of the payload afterwards.
LEMMA FoundLooks ==
    ASSUME IndInv, NEW w \in Worker,
           \/ Lookup(w) \/ Persist(w) \/ RepairNext(w)
           \/ \E k \in Key : RepairScan(w, k)
           \/ \E p \in Pair : RepairGroup(w, p)
    PROVE  FoundInv'
<1>1. CASE \/ Lookup(w) \/ Persist(w) \/ RepairNext(w) \/ \E k \in Key : RepairScan(w, k)
  <2>1. /\ Busy(w) /\ UNCHANGED <<overlap, batched>>
        /\ \E l \in {"find", "idle", "scan", "groups"} : pc' = [pc EXCEPT ![w] = l]
    BY <1>1 DEF Lookup, Persist, RepairNext, RepairScan, Goto, Busy
  <2>2. PICK l \in {"find", "idle", "scan", "groups"} : pc' = [pc EXCEPT ![w] = l]
    BY <2>1
  <2>3. pc'[w] = l
    BY <2>2 DEF IndInv, JobTypes
  <2>4. FoundAt(w)'
    BY <2>3 DEF FoundAt, Merging
  <2> QED
    BY <2>1, <2>2, <2>4, FoundFrame
<1>2. ASSUME NEW p \in Pair, RepairGroup(w, p) PROVE FoundInv'
  <2> DEFINE ids == {e[2] : e \in {f \in job[w].lookup : f[1] = p}}
             rest == {e \in job[w].lookup : e[1] # p}
             j == [job[w] EXCEPT !.lookup = rest, !.canon = Preferred(ids), !.dups = ids \ {Preferred(ids)}]
  <2>0. job[w] \in Job /\ job[w].op = "repair"
    BY <1>2, JobOf DEF RepairGroup, JobAt
  <2>1. job' = [job EXCEPT ![w] = j]
    BY <1>2 DEF RepairGroup, Set
  <2>2. /\ pc[w] = "groups" /\ pc' = [pc EXCEPT ![w] = "mergeBackfill"]
        /\ UNCHANGED <<overlap, batched>>
    BY <1>2 DEF RepairGroup, Goto
  <2>3. j.op = "repair"
    BY <2>0 DEF Job
  <2> HIDE DEF j
  <2>4. pc'[w] = "mergeBackfill" /\ job'[w].op = "repair"
    BY <2>1, <2>2, <2>3 DEF IndInv, JobTypes
  <2>5. FoundAt(w)'
    BY <2>4 DEF FoundAt
  <2> QED
    BY <2>2, <2>5, FoundFrame DEF Busy
<1> QED
  BY <1>1, <1>2

\* resolve: of each id of the payload that is in the table, a row is found.
LEMMA FoundFind == ASSUME IndInv, NEW w \in Worker, Find(w) PROVE FoundInv'
<1> DEFINE found == {Known(w, p) : p \in Head(job[w].todo)} \ {NoId}
           j == [job[w] EXCEPT !.canon = Preferred(found), !.dups = found \ {Preferred(found)}]
<1>1. /\ pc[w] = "find" /\ Busy(w) /\ job[w] \in Job /\ job[w].op \in {"ingest", "enrich"}
      /\ job[w].todo \in Seq(Payloads) /\ job[w].todo # <<>>
      /\ UNCHANGED <<rows, ext, overlap, batched>>
  BY JobOf DEF Find, JobAt, Busy, Resolving, Job
<1>2. Head(job[w].todo) \subseteq Pair
  BY <1>1, HeadPayload
<1>3. \A p \in Head(job[w].todo) : Known(w, p) = NoId \/ Known(w, p) \in found
  OBVIOUS
<1>4. ASSUME ~overlap, ~batched, NEW p \in Head(job[w].todo), Having(p) # {}
      PROVE  \E i \in found : Provided(i, p[1])
  <2>1. Known(w, p) # NoId
    BY <1>2, <1>4, KnownRow
  <2>2. p \in ext[Known(w, p)]
    BY <1>1, <1>2, <1>4, <2>1, KnownRow DEF Undisturbed
  <2>3. Provided(Known(w, p), p[1])
    BY <2>2 DEF Provided
  <2> QED
    BY <1>3, <2>1, <2>3
<1>5. CASE found = {}
  <2>1. pc' = [pc EXCEPT ![w] = "allocate"] /\ job' = job
    BY <1>5 DEF Find, Goto
  <2>2. pc'[w] = "allocate"
    BY <2>1 DEF IndInv, JobTypes
  <2>3. ASSUME ~overlap, ~batched PROVE \A p \in Head(job[w].todo) : Having(p) = {}
    BY <1>4, <1>5, <2>3
  <2>4. ~overlap /\ ~batched => FoundAt(w)'
    BY <1>1, <2>1, <2>2, <2>3 DEF FoundAt, Merging, Having
  <2> QED
    BY <1>1, <2>1, <2>4, FoundFrame
<1>6. CASE found # {}
  <2>1. PICK l \in {"mergeBackfill", "backfill"} : pc' = [pc EXCEPT ![w] = l] /\ job' = [job EXCEPT ![w] = j]
    BY <1>6 DEF Find, Goto, Set
  <2>2. /\ j.dups = found \ {Preferred(found)} /\ j.canon = Preferred(found)
        /\ j.op = job[w].op /\ j.todo = job[w].todo
    <3> HIDE DEF found
    <3> QED
      BY <1>1 DEF Job
  <2> HIDE DEF j, found
  <2>3. pc'[w] = l /\ job'[w] = j
    BY <2>1 DEF IndInv, JobTypes
  <2>4. ASSUME ~overlap, ~batched PROVE FoundAt(w)'
    <3>1. found \subseteq j.dups \cup {j.canon}
      BY <2>2
    <3>2. \A p \in Head(job[w].todo) :
            Having(p)' # {} => \E i \in job'[w].dups \cup {job'[w].canon} : Provided(i, p[1])'
      BY <1>1, <1>4, <2>3, <2>4, <3>1 DEF Having, Provided
    <3> QED
      BY <1>1, <2>2, <2>3, <3>2 DEF FoundAt, Settled
  <2> QED
    BY <1>1, <2>1, <2>4, FoundFrame
<1> QED
  BY <1>5, <1>6

\* What a merge has in its hands.
LEMMA MergeParts ==
    ASSUME IndInv, NEW w \in Worker, pc[w] \in Merging
    PROVE  /\ Busy(w) /\ job[w] \in Job /\ RowTypes
           /\ job[w].canon \in Id \ job[w].dups /\ job[w].dups \subseteq Id
           /\ Dup(w) \in job[w].dups /\ Dup(w) \in Id
           /\ Merged(w) = job[w].dups \cup {job[w].canon}
<1>1. job[w].dups \in SUBSET Id /\ job[w].dups # {}
  BY JobOf DEF Job, JobAt
<1> QED
  BY <1>1, JobOf, DupIn DEF JobAt, Busy, Merging, Merged, IndInv

\* merge: the canonical row takes what it has no id of, so that nothing is lost
\* with the duplicate.
LEMMA FoundMerge ==
    ASSUME IndInv, FoundInv, NEW w \in Worker, MergeBackfill(w) \/ MergeRepoint(w) \/ MergeDelete(w)
    PROVE  FoundInv'
<1> DEFINE d == Dup(w)
           c == job[w].canon
<1>1. /\ pc[w] \in Merging /\ Busy(w) /\ job[w] \in Job /\ RowTypes
      /\ c \in Id \ job[w].dups /\ job[w].dups \subseteq Id /\ d \in job[w].dups /\ d \in Id
  BY MergeParts DEF MergeBackfill, MergeRepoint, MergeDelete, Merging
<1>2. CASE MergeBackfill(w)
  <2>1. /\ pc[w] = "mergeBackfill" /\ pc' = [pc EXCEPT ![w] = "mergeRepoint"] /\ job' = job
        /\ ext' = Filled(c, ext[d]) /\ UNCHANGED <<rows, overlap, batched>>
    BY <1>2 DEF MergeBackfill, Goto
  <2>2. ext[d] \in SUBSET Pair /\ Functional(ext[d])
    BY <1>1 DEF RowTypes
  <2>3. /\ \A i \in Id : ext[i] \subseteq ext'[i]
        /\ \A i \in Id \ {c} : ext'[i] = ext[i]
        /\ \A p \in ext'[c] : p \in ext[c] \/ p \in ext[d]
    <3>1. /\ \A i \in Id \ {c} : ext'[i] = ext[i]
          /\ ext[c] \subseteq ext'[c]
          /\ \A p \in ext'[c] : p \in ext[c] \/ p \in ext[d]
      <4> HIDE DEF c, d
      <4> QED
        BY <1>1, <2>1, <2>2, FilledRow
    <3> QED
      BY <3>1
  <2>4. pc'[w] = "mergeRepoint"
    BY <2>1 DEF IndInv, JobTypes
  <2>5. ASSUME ~overlap, ~batched PROVE FoundAt(w)'
    <3>1. FoundAt(w) /\ c \in rows
      <4>1. SoloAt(w)
        BY <1>1, <2>5, JobOf DEF Undisturbed
      <4> QED
        BY <1>1, <2>5, <4>1 DEF SoloAt, FoundInv
    <3>2. \A i \in Id : \A k : Provided(i, k) => Provided(i, k)'
      BY <2>3 DEF Provided
    <3>3. \A q \in ext'[d] : Provided(c, q[1])'
      BY <1>1, <2>1, <2>2, <2>3, <3>1, FilledIds DEF Provided
    <3>4. ASSUME NEW p \in Settled(w), job[w].op # "repair", Having(p)' # {}
          PROVE  \E i \in job[w].dups \cup {c} : Provided(i, p[1])'
      <4>1. CASE Having(p) # {}
        <5>1. \E i \in job[w].dups \cup {c} : Provided(i, p[1])
          BY <1>1, <3>1, <3>4, <4>1 DEF FoundAt
        <5> QED
          BY <1>1, <3>2, <5>1
      <4>2. CASE Having(p) = {}
        <5>1. PICK i \in {c} : p \in ext'[i]
          BY <1>1, <2>1, <2>3, <3>4, <4>2 DEF Having, RowTypes
        <5>2. Provided(i, p[1])'
          BY <5>1 DEF Provided
        <5> QED
          BY <5>1, <5>2
      <4> QED
        BY <4>1, <4>2
    <3>5. d' = d /\ c' = c /\ Settled(w)' = Settled(w)
      BY <2>1 DEF Dup, Settled
    <3> HIDE DEF c, d
    <3> QED
      BY <2>1, <2>4, <3>3, <3>4, <3>5 DEF FoundAt, Merging, c, d
  <2> QED
    BY <1>1, <2>1, <2>5, FoundFrame
<1>3. CASE MergeRepoint(w)
  <2>1. /\ pc[w] = "mergeRepoint" /\ pc' = [pc EXCEPT ![w] = "mergeDelete"]
        /\ UNCHANGED <<job, rows, ext, overlap, batched>>
    BY <1>3 DEF MergeRepoint, Goto
  <2>2. pc'[w] = "mergeDelete"
    BY <2>1 DEF IndInv, JobTypes
  <2>3. ASSUME ~overlap, ~batched PROVE FoundAt(w)'
    <3>1. FoundAt(w)
      BY <2>3 DEF FoundInv
    <3> QED
      BY <2>1, <2>2, <3>1 DEF FoundAt, Merging, Settled, Having, Provided, Dup
  <2> QED
    BY <1>1, <2>1, <2>3, FoundFrame
<1>4. CASE MergeDelete(w)
  <2> DEFINE rest == job[w].dups \ {d}
             j == [job[w] EXCEPT !.dups = rest]
             l == CASE rest # {} -> "mergeBackfill"
                    [] rest = {} /\ job[w].op = "link" -> "linkKeys"
                    [] rest = {} /\ job[w].op = "repair" -> "groups"
                    [] OTHER -> "backfill"
  <2>1. /\ pc[w] = "mergeDelete" /\ pc' = [pc EXCEPT ![w] = l] /\ job' = [job EXCEPT ![w] = j]
        /\ rows' = rows \ {d} /\ ext' = [i \in Id |-> IF i \in rows' THEN ext[i] ELSE {}]
        /\ UNCHANGED <<overlap, batched>>
    BY <1>4 DEF MergeDelete, Goto, Set, IndexWithout
  <2>2. l \in {"mergeBackfill", "linkKeys", "groups", "backfill"}
    OBVIOUS
  <2>3. j.dups = rest /\ j.canon = c /\ j.op = job[w].op /\ j.todo = job[w].todo /\ j.keys = job[w].keys
    BY <1>1 DEF Job
  <2>4. \A i \in job[w].dups \cup {c} : i = d \/ i \in rest \cup {c}
    OBVIOUS
  <2> HIDE DEF d, c, l, j, rest
  <2>5. pc'[w] = l /\ job'[w] = j
    BY <2>1 DEF IndInv, JobTypes
  <2>6. ASSUME ~overlap, ~batched PROVE FoundAt(w)'
    <3>1. FoundAt(w)
      BY <2>6 DEF FoundInv
    <3>2. \A i \in Id \ {d} : \A k : Provided(i, k) => Provided(i, k)'
      BY <1>1, <2>1 DEF Provided, RowTypes
    <3>3. \A q \in ext[d] : Provided(c, q[1])
      BY <2>1, <3>1 DEF FoundAt, c, d
    <3>4. ASSUME NEW p \in Settled(w), job[w].op # "repair", Having(p)' # {}
          PROVE  \E i \in rest \cup {c} : Provided(i, p[1])'
      <4>1. Having(p) # {}
        BY <1>1, <2>1, <3>4 DEF Having, RowTypes
      <4>2. PICK i \in job[w].dups \cup {c} : Provided(i, p[1])
        BY <1>1, <3>1, <3>4, <4>1 DEF FoundAt, c
      <4>3. CASE i = d
        <5>1. Provided(c, p[1])
          BY <3>3, <4>2, <4>3 DEF Provided
        <5> QED
          BY <1>1, <3>2, <5>1
      <4>4. CASE i # d
        BY <1>1, <2>4, <3>2, <4>2, <4>4
      <4> QED
        BY <4>3, <4>4
    <3>5. Settled(w)' = Settled(w)
      BY <2>3, <2>5 DEF Settled
    <3> QED
      BY <2>2, <2>3, <2>5, <3>4, <3>5 DEF FoundAt
  <2> QED
    BY <1>1, <2>1, <2>6, FoundFrame
<1> QED
  BY <1>2, <1>3, <1>4

\* The steps that fill in.
LEMMA FoundFills ==
    ASSUME IndInv, NEW w \in Worker, Backfill(w) \/ LinkDone(w)
    PROVE  FoundInv'
<1>1. PICK l \in {"find", "persist", "idle"} : pc' = [pc EXCEPT ![w] = l]
  BY DEF Backfill, Resolved, LinkDone, Goto
<1>2. pc'[w] = l /\ Busy(w) /\ UNCHANGED <<overlap, batched>>
  BY <1>1 DEF Backfill, LinkDone, Busy, IndInv, JobTypes
<1>3. FoundAt(w)'
  BY <1>2 DEF FoundAt, Merging
<1> QED
  BY <1>1, <1>2, <1>3, FoundFrame

\* allocate and getId: nothing has an id of the payload.
LEMMA FoundNew ==
    ASSUME IndInv, FoundInv, NEW w \in Worker, Allocate(w) \/ Insert(w)
    PROVE  FoundInv'
<1> DEFINE ps == Head(job[w].todo)
<1>1. /\ pc[w] \in {"allocate", "insert"} /\ Busy(w) /\ job[w] \in Job
      /\ job[w].op \in {"ingest", "enrich"} /\ job[w].dups = {}
      /\ job[w].todo \in Seq(Payloads) /\ job[w].todo # <<>>
      /\ UNCHANGED <<overlap, batched>>
  BY JobOf DEF Allocate, Insert, JobAt, Busy, Resolving, Merging, Job
<1>2. ps \in SUBSET Pair /\ ps # {}
  BY <1>1, HeadPayload
<1>3. ASSUME ~overlap, ~batched PROVE \A p \in ps : Having(p) = {}
  BY <1>1, <1>3 DEF FoundInv, FoundAt
<1>4. CASE Allocate(w)
  <2> DEFINE there == {FindFirst(p) : p \in ps} \ {NoId}
  <2>1. UNCHANGED <<rows, ext>> /\ pc[w] = "allocate"
    BY <1>4 DEF Allocate
  <2>2. PICK l \in {"insert", "backfill"} : pc' = [pc EXCEPT ![w] = l]
    BY <1>4 DEF Allocate, Goto
  <2>3. ASSUME ~overlap, ~batched PROVE FoundAt(w)'
    <3>1. \A p \in ps : FindFirst(p) = NoId
      BY <1>3, <2>3 DEF FindFirst
    <3>2. there = {}
      BY <3>1
    <3>3. pc' = [pc EXCEPT ![w] = "insert"] /\ job' = job
      BY <1>4, <3>2 DEF Allocate, Goto
    <3>4. pc'[w] = "insert"
      BY <3>3 DEF IndInv, JobTypes
    <3> QED
      BY <1>3, <2>1, <2>3, <3>3, <3>4 DEF FoundAt, Having, Merging
  <2> QED
    BY <1>1, <2>2, <2>3, FoundFrame
<1>5. CASE Insert(w)
  <2> DEFINE p == CHOOSE q \in ps : TRUE
             c == Min(Having(p) \cup {next})
             j == [job[w] EXCEPT !.canon = c]
  <2>1. /\ next <= MaxId /\ rows' = rows \cup {next} /\ ext' = [ext EXCEPT ![next] = {p}]
        /\ pc' = [pc EXCEPT ![w] = "backfill"] /\ job' = [job EXCEPT ![w] = j] /\ pc[w] = "insert"
    BY <1>5 DEF Insert, Set, Goto
  <2>2. p \in ps
    BY <1>2
  <2>3. next \in Id /\ next \notin rows /\ ext \in [Id -> SUBSET Pair]
    BY <2>1, Names DEF IndInv, RowTypes, Id
  <2> HIDE DEF ps, p
  <2>4. j.canon = c /\ j.dups = {} /\ j.op = job[w].op /\ j.todo = job[w].todo
    <3> HIDE DEF c
    <3> QED
      BY <1>1 DEF Job
  <2>5. ASSUME ~overlap, ~batched PROVE c = next
    <3>1. Having(p) \cup {next} = {next} /\ {next} \in SUBSET Id
      BY <1>3, <2>2, <2>3, <2>5
    <3>2. Min({next}) \in {next}
      BY <3>1, Ends
    <3> QED
      BY <3>1, <3>2
  <2> HIDE DEF j, c
  <2>6. pc'[w] = "backfill" /\ job'[w] = j
    BY <2>1 DEF IndInv, JobTypes
  <2>7. ASSUME ~overlap, ~batched PROVE FoundAt(w)'
    <3>1. \A i \in rows' : i \in Id
      BY <2>1, <2>3 DEF IndInv, RowTypes
    <3>2. ASSUME NEW q \in ps, Having(q)' # {}
          PROVE  \E i \in j.dups \cup {j.canon} : Provided(i, q[1])'
      <4>1. Having(q) = {}
        BY <1>3, <2>7
      <4>2. PICK i \in {next} : q \in ext'[i]
        BY <2>1, <2>3, <3>1, <3>2, <4>1 DEF Having
      <4>3. Provided(i, q[1])'
        BY <4>2 DEF Provided
      <4>4. i \in j.dups \cup {j.canon}
        BY <2>4, <2>5, <2>7, <4>2
      <4> QED
        BY <4>3, <4>4
    <3>3. \A q \in ps : Having(q)' # {} => \E i \in j.dups \cup {j.canon} : Provided(i, q[1])'
      BY <3>2
    <3> QED
      BY <1>1, <2>4, <2>6, <3>3 DEF FoundAt, Settled, Merging, ps
  <2> QED
    BY <1>1, <2>1, <2>7, FoundFrame
<1> QED
  BY <1>4, <1>5

\* link: the row that has the id is the canonical one, or becomes it.
LEMMA FoundLinkKey ==
    ASSUME IndInv, FoundInv, NEW w \in Worker, NEW p \in Pair, LinkKey(w, p)
    PROVE  FoundInv'
<1> DEFINE f == FindFirst(p)
           c == job[w].canon
<1>1. /\ pc[w] = "linkKeys" /\ Busy(w) /\ job[w] \in Job /\ JobAt(w) /\ job[w].op = "link"
      /\ job[w].dups = {}
      /\ UNCHANGED <<rows, ext, overlap, batched>>
  BY JobOf DEF LinkKey, JobAt, Busy, Merging
<1>2. (f = NoId => Having(p) = {}) /\ (f # NoId => Provided(f, p[1]))
  BY FoundRow DEF IndInv, RowTypes, Having, Provided
<1>3. ASSUME ~overlap, ~batched
      PROVE  \A q \in Settled(w) : Having(q) # {} => Provided(c, q[1])
  <2>1. FoundAt(w)
    BY <1>3 DEF FoundInv
  <2> QED
    BY <1>1, <2>1 DEF FoundAt
<1>4. PICK l \in {"linkKeys", "mergeBackfill"}, j \in Job :
         /\ pc' = [pc EXCEPT ![w] = l] /\ job' = [job EXCEPT ![w] = j]
         /\ j.op = "link" /\ j.todo = job[w].todo /\ j.keys = job[w].keys \ {p}
         /\ \/ f \in {NoId, c} /\ j.canon = c /\ j.dups = {}
            \/ f # NoId /\ j.canon = f /\ j.dups = {c}
  <2>0. f \in Id \cup {NoId} /\ c \in Id
    BY <1>1, FoundRow DEF JobAt, IndInv, RowTypes
  <2>1. CASE f \in {NoId, c}
    <3> DEFINE j == [job[w] EXCEPT !.keys = @ \ {p}]
    <3>1. pc' = [pc EXCEPT ![w] = "linkKeys"] /\ job' = [job EXCEPT ![w] = j]
      BY <2>1 DEF LinkKey, Goto, Set
    <3>2. j \in Job /\ j.op = "link" /\ j.todo = job[w].todo /\ j.keys = job[w].keys \ {p} /\ j.canon = c /\ j.dups = {}
      BY <1>1 DEF Job
    <3> HIDE DEF j, f, c
    <3> QED
      BY <2>1, <3>1, <3>2
  <2>2. CASE f \notin {NoId, c}
    <3> DEFINE j == [job[w] EXCEPT !.keys = @ \ {p}, !.canon = f, !.dups = {c}]
    <3>1. pc' = [pc EXCEPT ![w] = "mergeBackfill"] /\ job' = [job EXCEPT ![w] = j]
      BY <2>2 DEF LinkKey, Goto, Set
    <3> HIDE DEF f
    <3>2. j \in Job /\ j.op = "link" /\ j.todo = job[w].todo /\ j.keys = job[w].keys \ {p} /\ j.canon = f /\ j.dups = {c}
      BY <1>1, <2>0, <2>2 DEF Job
    <3> HIDE DEF j, c
    <3> QED
      BY <2>2, <3>1, <3>2
  <2> QED
    BY <2>1, <2>2
<1>5. pc'[w] = l /\ job'[w] = j
  BY <1>4 DEF IndInv, JobTypes
<1> HIDE DEF f, c
<1>6. ASSUME ~overlap, ~batched PROVE FoundAt(w)'
  <2>1. \A q \in Settled(w)' : q \in Settled(w) \/ q = p
    BY <1>1, <1>4, <1>5 DEF Settled
  <2>2. \A q : Having(q)' = Having(q)
    BY <1>1 DEF Having
  <2>3. \A i, k : Provided(i, k)' = Provided(i, k)
    BY <1>1 DEF Provided
  <2>4. ASSUME NEW q \in Settled(w)', Having(q) # {}
        PROVE  \E i \in j.dups \cup {j.canon} : Provided(i, q[1])
    <3>1. CASE q \in Settled(w)
      BY <1>3, <1>4, <1>6, <2>4, <3>1
    <3>2. CASE q = p
      BY <1>2, <1>4, <2>4, <3>2
    <3> QED
      BY <2>1, <2>4, <3>1, <3>2
  <2>5. \A q \in Settled(w)' :
          Having(q)' # {} => \E i \in job'[w].dups \cup {job'[w].canon} : Provided(i, q[1])'
    BY <1>5, <2>2, <2>3, <2>4
  <2> QED
    BY <1>4, <1>5, <2>5 DEF FoundAt
<1> QED
  BY <1>1, <1>4, <1>6, FoundFrame

\* Every step keeps what is known about the payloads.
LEMMA FoundStep == IndInv /\ FoundInv /\ [Next]_vars => FoundInv'
<1> SUFFICES ASSUME IndInv, FoundInv, [Next]_vars PROVE FoundInv'
  OBVIOUS
<1>1. CASE UNCHANGED vars
  BY <1>1 DEF vars, FoundInv, FoundAt, Settled, Having, Provided, Dup
<1>2. ASSUME NEW w \in Worker,
             \/ \E b \in Batches : Ingest(w, b)
             \/ \E i \in Id, ps \in Payloads : Enrich(w, i, ps) \/ Link(w, i, ps)
             \/ Repair(w) \/ Lookup(w) \/ Find(w)
             \/ MergeBackfill(w) \/ MergeRepoint(w) \/ MergeDelete(w)
             \/ Backfill(w) \/ Allocate(w) \/ Insert(w) \/ Persist(w)
             \/ \E p \in Pair : LinkKey(w, p) \/ RepairGroup(w, p)
             \/ LinkDone(w) \/ RepairNext(w)
             \/ \E k \in Key : RepairScan(w, k)
      PROVE  FoundInv'
  BY <1>2, FoundBegins, FoundLooks, FoundFind, FoundMerge, FoundFills, FoundNew, FoundLinkKey
<1> QED
  BY <1>1, <1>2 DEF Next

\* At the start nobody has a payload.
LEMMA FoundInit == Init => FoundInv
  BY DEF Init, FoundInv, FoundAt, Merging

-----------------------------------------------------------------------------
(* No two rows come to share an external id. *)

\* A worker that is not merging has no rows to make one.
LEMMA NothingMerged ==
    ASSUME IndInv, NEW w \in Worker, pc[w] \notin Merging
    PROVE  Merged(w) = {}
  BY JobOf DEF JobAt, Merged

\* While one worker is active, only its own group is excused.
LEMMA SharedBy ==
    ASSUME IndInv, ~overlap, NEW w \in Worker, Busy(w), NEW p \in Pair, NEW i \in Id, NEW j \in Id,
           Share(p, i, j), ~({i, j} \subseteq Merged(w))
    PROVE  p \in SharedPairs
<1>1. \A v \in Worker : v # w => Merged(v) = {}
  BY OnlyOne, NothingMerged DEF Merging
<1>2. \A v \in Worker : ~({i, j} \subseteq Merged(v))
  BY <1>1
<1>3. i \in Having(p) /\ j \in Having(p) /\ i # j
  BY DEF Share, Having
<1> QED
  BY <1>2, <1>3 DEF SharedPairs

\* What shares an external id after a step.
LEMMA SharedAfter ==
    ASSUME RowTypes', NEW p \in SharedPairs'
    PROVE  /\ p \in Pair
           /\ \E i, j \in Id : Share(p, i, j)' /\ \A w \in Worker : ~({i, j} \subseteq Merged(w)')
  BY DEF SharedPairs, Share, Having, RowTypes

\* Steps that leave the rows alone when nothing is being merged.
LEMMA ApartIdle ==
    ASSUME IndInv, RowTypes', UNCHANGED <<rows, ext>>, \A w \in Worker : pc[w] \notin Merging
    PROVE  SharedPairs' \subseteq SharedPairs
<1> SUFFICES ASSUME NEW p \in SharedPairs' PROVE p \in SharedPairs
  OBVIOUS
<1>1. PICK i \in Id, j \in Id : Share(p, i, j)'
  BY SharedAfter
<1>2. i \in Having(p) /\ j \in Having(p) /\ i # j
  BY <1>1 DEF Share, Having
<1>3. \A w \in Worker : ~({i, j} \subseteq Merged(w))
  BY NothingMerged
<1> QED
  BY <1>2, <1>3, SharedAfter DEF SharedPairs

\* A busy worker's step: what shares afterwards did so before.
LEMMA ApartFrame ==
    ASSUME IndInv, RowTypes', ~overlap, NEW w \in Worker, Busy(w),
           \A p \in Pair : \A i, j \in Id :
              Share(p, i, j)' /\ ~({i, j} \subseteq Merged(w)') => p \in SharedPairs
    PROVE  SharedPairs' \subseteq SharedPairs
  BY SharedAfter

\* merge: a row that comes to share an id with the canonical one shared it with
\* the duplicate before.
LEMMA ApartMerge ==
    ASSUME IndInv, IndInv', ~overlap, NEW w \in Worker,
           MergeBackfill(w) \/ MergeRepoint(w) \/ MergeDelete(w)
    PROVE  SharedPairs' \subseteq SharedPairs
<1> DEFINE d == Dup(w)
           c == job[w].canon
           g == job[w].dups \cup {c}
<1>1. /\ Busy(w) /\ job[w] \in Job /\ RowTypes /\ RowTypes' /\ Merged(w) = g
      /\ c \in Id \ job[w].dups /\ job[w].dups \subseteq Id /\ d \in job[w].dups /\ d \in Id
  BY MergeParts DEF MergeBackfill, MergeRepoint, MergeDelete, Merging, IndInv
<1>2. CASE MergeBackfill(w)
  <2>1. ext' = Filled(c, ext[d]) /\ UNCHANGED <<rows, job>>
    BY <1>2 DEF MergeBackfill
  <2>2. ext[d] \in SUBSET Pair /\ Functional(ext[d])
    BY <1>1 DEF RowTypes
  <2>3. /\ \A i \in Id \ {c} : ext'[i] = ext[i]
        /\ \A p \in ext'[c] : p \in ext[c] \/ p \in ext[d]
    BY <1>1, <2>1, <2>2, FilledRow
  <2>4. Merged(w)' = g
    BY <1>1, <2>1 DEF Merged
  <2> SUFFICES ASSUME NEW p \in Pair, NEW m \in Id, NEW n \in Id,
                      Share(p, m, n)', ~({m, n} \subseteq g)
               PROVE  p \in SharedPairs
    BY <1>1, <2>4, ApartFrame
  <2> HIDE DEF d, g
  <2>5. m \in rows /\ n \in rows /\ m # n /\ p \in ext'[m] /\ p \in ext'[n]
    BY <2>1 DEF Share
  <2>6. CASE Share(p, m, n)
    BY <1>1, <2>6, SharedBy
  <2>7. CASE ~Share(p, m, n)
    <3>1. (m = c \/ n = c) /\ p \in ext[d] /\ d \in rows
      BY <1>1, <2>3, <2>5, <2>7 DEF Share, RowTypes
    <3>2. c \in g /\ d \in g
      BY <1>1 DEF g
    <3>3. PICK k \in {m, n} : k \notin g
      OBVIOUS
    <3>4. Share(p, d, k) /\ ~({d, k} \subseteq g)
      BY <1>1, <2>3, <2>5, <3>1, <3>2, <3>3 DEF Share
    <3> QED
      BY <1>1, <3>4, SharedBy
  <2> QED
    BY <2>6, <2>7
<1>3. CASE MergeRepoint(w)
  <2>1. UNCHANGED <<rows, ext, job>>
    BY <1>3 DEF MergeRepoint
  <2>2. Merged(w)' = Merged(w) /\ \A p \in Pair : \A m, n \in Id : Share(p, m, n)' = Share(p, m, n)
    BY <2>1 DEF Merged, Share
  <2> QED
    BY <1>1, <2>2, SharedBy, ApartFrame
<1>4. CASE MergeDelete(w)
  <2> DEFINE rest == job[w].dups \ {d}
             j == [job[w] EXCEPT !.dups = rest]
  <2>1. /\ job' = [job EXCEPT ![w] = j]
        /\ rows' = rows \ {d} /\ ext' = [i \in Id |-> IF i \in rows' THEN ext[i] ELSE {}]
    BY <1>4 DEF MergeDelete, Set, IndexWithout
  <2>2. j.dups = rest /\ j.canon = c
    BY <1>1 DEF Job
  <2>3. \A i \in g : i = d \/ i = c \/ i \in rest
    OBVIOUS
  <2> HIDE DEF d, c, j, rest
  <2>4. job'[w] = j
    BY <2>1 DEF IndInv, JobTypes
  <2>5. Merged(w)' = IF rest = {} THEN {} ELSE rest \cup {c}
    BY <2>2, <2>4 DEF Merged
  <2> SUFFICES ASSUME NEW p \in Pair, NEW m \in Id, NEW n \in Id,
                      Share(p, m, n)', ~({m, n} \subseteq Merged(w)')
               PROVE  p \in SharedPairs
    BY <1>1, ApartFrame
  <2> HIDE DEF g
  <2>6. Share(p, m, n) /\ m # d /\ n # d /\ m # n
    BY <2>1 DEF Share
  <2>7. ~({m, n} \subseteq g)
    BY <2>3, <2>5, <2>6
  <2> QED
    BY <1>1, <2>6, <2>7, SharedBy
<1> QED
  BY <1>2, <1>3, <1>4

\* Filling in adds an id only if no row has it: its provider is new to the row,
\* and the id would have been found.
LEMMA ApartFills ==
    ASSUME IndInv, IndInv', FoundInv, ~overlap, ~batched, NEW w \in Worker, Backfill(w) \/ LinkDone(w)
    PROVE  SharedPairs' \subseteq SharedPairs
<1> DEFINE c == job[w].canon
           ps == Head(job[w].todo)
<1>1. /\ pc[w] \in {"backfill", "linkKeys"} /\ Busy(w) /\ job[w] \in Job /\ JobAt(w) /\ c \in Id
      /\ job[w].todo \in Seq(Payloads) /\ job[w].todo # <<>> /\ job[w].dups = {}
      /\ job[w].op # "repair" /\ RowTypes /\ RowTypes'
      /\ ext' = Filled(c, ps) /\ UNCHANGED rows
  BY JobOf DEF Backfill, LinkDone, JobAt, Busy, Resolving, Merging, Job, IndInv
<1>2. ps \in SUBSET Pair /\ Functional(ps)
  BY <1>1, HeadPayload
<1>3. Settled(w) = ps
  <2>1. pc[w] = "backfill" => job[w].op # "link"
    BY <1>1 DEF JobAt, Resolving
  <2>2. pc[w] = "linkKeys" => job[w].keys = {}
    BY <1>1 DEF Backfill, LinkDone
  <2> QED
    BY <1>1, <2>1, <2>2 DEF Settled
<1>4. \A p \in ps : Having(p) # {} => Provided(c, p[1])
  <2>1. FoundAt(w)
    BY DEF FoundInv
  <2> QED
    BY <1>1, <1>3, <2>1 DEF FoundAt
<1> HIDE DEF c, ps
<1>5. /\ \A i \in Id \ {c} : ext'[i] = ext[i]
      /\ \A p \in ext'[c] : p \in ext[c] \/ (p \in ps /\ ~Provided(c, p[1]))
  BY <1>1, <1>2, FilledRow, FilledIds
<1> SUFFICES ASSUME NEW p \in Pair, NEW m \in Id, NEW n \in Id, Share(p, m, n)'
             PROVE  p \in SharedPairs
  BY <1>1, ApartFrame
<1>6. m \in rows /\ n \in rows /\ m # n /\ p \in ext'[m] /\ p \in ext'[n]
  BY <1>1 DEF Share
<1>7. Share(p, m, n)
  <2> SUFFICES ASSUME ~Share(p, m, n) PROVE FALSE
    OBVIOUS
  <2>1. (m = c \/ n = c) /\ p \in ps /\ ~Provided(c, p[1])
    BY <1>5, <1>6 DEF Share
  <2>2. Having(p) # {}
    BY <1>5, <1>6, <2>1 DEF Having
  <2> QED
    BY <1>4, <2>1, <2>2
<1>8. Merged(w) = {}
  BY <1>1 DEF Merged
<1> QED
  BY <1>1, <1>7, <1>8, SharedBy

\* A new row gets an id that no row has.
LEMMA ApartInsert ==
    ASSUME IndInv, IndInv', FoundInv, ~overlap, ~batched, NEW w \in Worker, Insert(w)
    PROVE  SharedPairs' \subseteq SharedPairs
<1> DEFINE ps == Head(job[w].todo)
           p == CHOOSE q \in ps : TRUE
<1>1. /\ pc[w] = "insert" /\ Busy(w) /\ job[w].dups = {} /\ RowTypes /\ RowTypes'
      /\ job[w].todo \in Seq(Payloads) /\ job[w].todo # <<>>
  BY JobOf DEF Insert, JobAt, Busy, Resolving, Merging, Job, IndInv
<1>2. p \in ps /\ next \in Id /\ ext \in [Id -> SUBSET Pair]
  BY <1>1, HeadPayload, Names DEF Insert, RowTypes, Id
<1>3. Having(p) = {}
  BY <1>1, <1>2 DEF FoundInv, FoundAt
<1>4. rows' = rows \cup {next} /\ ext' = [ext EXCEPT ![next] = {p}]
  BY DEF Insert
<1> HIDE DEF ps, p
<1> SUFFICES ASSUME NEW q \in Pair, NEW m \in Id, NEW n \in Id, Share(q, m, n)'
             PROVE  q \in SharedPairs
  BY <1>1, ApartFrame
<1>5. Share(q, m, n)
  BY <1>2, <1>3, <1>4 DEF Share, Having
<1>6. Merged(w) = {}
  BY <1>1 DEF Merged
<1> QED
  BY <1>1, <1>5, <1>6, SharedBy

\* No step of operations that follow each other makes rows share an external id.
LEMMA StaysApart ==
    ASSUME IndInv, IndInv', FoundInv, [Next]_vars, ~overlap', ~batched'
    PROVE  SharedPairs' \subseteq SharedPairs
<1>1. CASE UNCHANGED vars
  BY <1>1 DEF vars, SharedPairs, Having, Merged
<1>2. ASSUME NEW w \in Worker,
             \/ \E b \in Batches : Ingest(w, b)
             \/ \E i \in Id, ps \in Payloads : Enrich(w, i, ps) \/ Link(w, i, ps)
             \/ Repair(w)
      PROVE  SharedPairs' \subseteq SharedPairs
  <2>1. Active = {} /\ UNCHANGED <<rows, ext>>
    BY <1>2 DEF Ingest, Enrich, Link, Repair, Begin
  <2> QED
    BY <2>1, ApartIdle DEF Active, Merging, IndInv
<1>3. ASSUME NEW w \in Worker,
             \/ Lookup(w) \/ Find(w) \/ Allocate(w) \/ Persist(w) \/ RepairNext(w)
             \/ \E p \in Pair : LinkKey(w, p) \/ RepairGroup(w, p)
             \/ \E k \in Key : RepairScan(w, k)
      PROVE  SharedPairs' \subseteq SharedPairs
  <2>1. Busy(w) /\ pc[w] \notin Merging /\ UNCHANGED <<rows, ext, overlap>>
    BY <1>3 DEF Lookup, Find, Allocate, Persist, RepairNext, LinkKey, RepairGroup, RepairScan, Busy,
       Merging
  <2>2. \A v \in Worker : pc[v] \notin Merging
    BY <2>1, OnlyOne DEF Merging
  <2> QED
    BY <2>1, <2>2, ApartIdle DEF IndInv
<1>4. ASSUME NEW w \in Worker,
             \/ MergeBackfill(w) \/ MergeRepoint(w) \/ MergeDelete(w)
             \/ Backfill(w) \/ LinkDone(w) \/ Insert(w)
      PROVE  SharedPairs' \subseteq SharedPairs
  <2>1. ~overlap /\ ~batched
    BY <1>4 DEF MergeBackfill, MergeRepoint, MergeDelete, Backfill, LinkDone, Insert
  <2> QED
    BY <1>4, <2>1, ApartMerge, ApartFills, ApartInsert
<1> QED
  BY <1>1, <1>2, <1>3, <1>4 DEF Next

-----------------------------------------------------------------------------
(* No anime is taken apart. *)

\* Where rows only gain external ids, and merges only gain rows, what belongs to
\* one anime does so afterwards.
LEMMA TogetherFrame ==
    ASSUME \A i \in rows : i \in rows' /\ ext[i] \subseteq ext'[i],
           \A v \in Worker : Merged(v) \subseteq Merged(v)',
           NEW p, NEW q, Together(p, q)
    PROVE  Together(p, q)'
  BY DEF Together, Having

\* merge, at last: what the duplicate had is in the canonical row or in another
\* duplicate, or nowhere because the canonical row has an id of that provider.
LEMMA TogetherMerge ==
    ASSUME IndInv, FoundInv, ~overlap, ~batched, SharedPairs = {}, NEW w \in Worker, MergeDelete(w),
           NEW p \in Pair, NEW q \in Pair, Together(p, q)
    PROVE  Together(p, q)' \/ Superseded(p) \/ Superseded(q)
<1> DEFINE d == Dup(w)
           c == job[w].canon
           rest == job[w].dups \ {d}
           j == [job[w] EXCEPT !.dups = rest]
           kept == rest \cup {c}
<1>1. /\ pc[w] = "mergeDelete" /\ Busy(w) /\ job[w] \in Job /\ RowTypes
      /\ Merged(w) = job[w].dups \cup {c} /\ c \in Id \ job[w].dups /\ job[w].dups \subseteq Id
      /\ d \in job[w].dups /\ d \in Id
  BY MergeParts DEF MergeDelete, Merging
<1>2. /\ job' = [job EXCEPT ![w] = j]
      /\ rows' = rows \ {d} /\ ext' = [i \in Id |-> IF i \in rows' THEN ext[i] ELSE {}]
  BY DEF MergeDelete, Set, IndexWithout
<1>3. j.dups = rest /\ j.canon = c
  BY <1>1 DEF Job
<1>4. \A x \in ext[d] : Provided(c, x[1])
  BY <1>1 DEF FoundInv, FoundAt
<1>5. \A v \in Worker : v # w => Merged(v) = {}
  BY <1>1, OnlyOne, NothingMerged DEF Merging
<1> HIDE DEF d, c, j
<1>6. Merged(w)' = IF rest = {} THEN {} ELSE kept
  <2>1. job'[w] = j
    BY <1>2 DEF IndInv, JobTypes
  <2> QED
    BY <1>3, <2>1 DEF Merged
<1>7. Merged(w) = kept \cup {d} /\ d \notin kept
  BY <1>1
<1> HIDE DEF rest, kept
<1>8. \A i \in rows : i # d => i \in rows' /\ i \in Id /\ ext'[i] = ext[i]
  BY <1>1, <1>2 DEF RowTypes
<1>9. ASSUME NEW x \in Pair, NEW i \in Merged(w), i \in Having(x), ~Superseded(x)
      PROVE  \E k \in kept : k \in Having(x)'
  <2>1. CASE i # d
    BY <1>7, <1>8, <1>9, <2>1 DEF Having
  <2>2. CASE i = d
    <3>1. \E y \in ext[c] : y[1] = x[1]
      BY <1>4, <1>9, <2>2 DEF Having, Provided
    <3>2. Having(x)' # {}
      BY <1>1, <1>9, <3>1 DEF Superseded, RowTypes, c
    <3>3. PICK k \in rows' : x \in ext'[k]
      BY <3>2 DEF Having
    <3>4. k \in rows /\ k # d /\ k \in Id /\ x \in ext[k]
      BY <1>1, <1>2, <1>8, <3>3 DEF RowTypes
    <3>5. Share(x, d, k)
      BY <1>9, <2>2, <3>4 DEF Share, Having
    <3>6. k \in Merged(w)
      BY <1>1, <3>4, <3>5, SharedBy
    <3> QED
      BY <1>7, <3>3, <3>4, <3>6 DEF Having
  <2> QED
    BY <2>1, <2>2
<1> SUFFICES ASSUME ~Superseded(p), ~Superseded(q) PROVE Together(p, q)'
  OBVIOUS
<1>10. PICK i \in Having(p), k \in Having(q) : i = k \/ {i, k} \subseteq Merged(w)
  BY <1>5 DEF Together
<1>11. CASE i = k /\ i # d
  <2>1. i \in Having(p)' /\ i \in Having(q)'
    BY <1>8, <1>10, <1>11 DEF Having
  <2> QED
    BY <2>1 DEF Together
<1>12. CASE i \in Merged(w) /\ k \in Merged(w)
  <2>1. PICK m \in kept : m \in Having(p)'
    BY <1>9, <1>10, <1>12
  <2>2. PICK n \in kept : n \in Having(q)'
    BY <1>9, <1>10, <1>12
  <2>3. m = n \/ {m, n} \subseteq Merged(w)'
    BY <1>6, <2>1, <2>2 DEF kept
  <2> QED
    BY <2>1, <2>2, <2>3 DEF Together
<1>13. i = d => i \in Merged(w)
  BY <1>7
<1> QED
  BY <1>10, <1>11, <1>12, <1>13

\* Where no two rows share an external id, no step of operations that follow each
\* other takes an anime apart or loses one of its ids to nothing.
LEMMA StaysTogether ==
    ASSUME IndInv, FoundInv, [Next]_vars, ~overlap', ~batched', SharedPairs = {},
           NEW p \in Pair, NEW q \in Pair, Together(p, q)
    PROVE  Together(p, q)' \/ Superseded(p) \/ Superseded(q)
<1>1. CASE UNCHANGED vars
  BY <1>1, TogetherFrame DEF vars, Merged
<1>2. ASSUME NEW w \in Worker,
             \/ \E b \in Batches : Ingest(w, b)
             \/ \E i \in Id, ps \in Payloads : Enrich(w, i, ps) \/ Link(w, i, ps)
             \/ Repair(w)
      PROVE  Together(p, q)'
  <2>1. Active = {} /\ UNCHANGED <<rows, ext>>
    BY <1>2 DEF Ingest, Enrich, Link, Repair, Begin
  <2>2. \A v \in Worker : Merged(v) = {}
    BY <2>1, NothingMerged DEF Active, Merging
  <2> QED
    BY <2>1, <2>2, TogetherFrame
<1>3. ASSUME NEW w \in Worker,
             \/ Lookup(w) \/ Find(w) \/ Allocate(w) \/ Persist(w) \/ RepairNext(w)
             \/ \E x \in Pair : LinkKey(w, x) \/ RepairGroup(w, x)
             \/ \E k \in Key : RepairScan(w, k)
      PROVE  Together(p, q)'
  <2>1. Busy(w) /\ pc[w] \notin Merging /\ UNCHANGED <<rows, ext, overlap>>
    BY <1>3 DEF Lookup, Find, Allocate, Persist, RepairNext, LinkKey, RepairGroup, RepairScan, Busy,
       Merging
  <2>2. \A v \in Worker : Merged(v) = {}
    BY <2>1, OnlyOne, NothingMerged DEF Merging
  <2> QED
    BY <2>1, <2>2, TogetherFrame
<1>4. ASSUME NEW w \in Worker, MergeBackfill(w) \/ MergeRepoint(w)
      PROVE  Together(p, q)'
  <2>1. UNCHANGED <<rows, job>> /\ \A v \in Worker : Merged(v)' = Merged(v)
    BY <1>4 DEF MergeBackfill, MergeRepoint, Merged
  <2>2. RowTypes /\ job[w].canon \in Id /\ Dup(w) \in Id
    BY <1>4, MergeParts DEF MergeBackfill, MergeRepoint, Merging
  <2>3. ext[Dup(w)] \in SUBSET Pair /\ Functional(ext[Dup(w)])
    BY <2>2 DEF RowTypes
  <2>4. ext' = Filled(job[w].canon, ext[Dup(w)]) \/ ext' = ext
    BY <1>4 DEF MergeBackfill, MergeRepoint
  <2>5. \A i \in Id : ext[i] \subseteq ext'[i]
    BY <2>2, <2>3, <2>4, FilledRow
  <2>6. rows \subseteq Id
    BY <2>2 DEF RowTypes
  <2> QED
    BY <2>1, <2>5, <2>6, TogetherFrame
<1>5. ASSUME NEW w \in Worker, Backfill(w) \/ LinkDone(w)
      PROVE  Together(p, q)'
  <2>1. /\ pc[w] \in {"backfill", "linkKeys"} /\ Busy(w) /\ job[w].canon \in Id
        /\ job[w].todo \in Seq(Payloads) /\ job[w].todo # <<>> /\ RowTypes
        /\ ext' = Filled(job[w].canon, Head(job[w].todo)) /\ UNCHANGED <<rows, overlap>>
    BY <1>5, JobOf DEF Backfill, LinkDone, JobAt, Busy, Resolving, Merging, Job, IndInv
  <2>2. Head(job[w].todo) \in SUBSET Pair /\ Functional(Head(job[w].todo))
    BY <2>1, HeadPayload
  <2> DEFINE c == job[w].canon
             ps == Head(job[w].todo)
  <2> HIDE DEF c, ps
  <2>3. \A i \in Id : ext[i] \subseteq ext'[i]
    <3>1. c \in Id /\ ps \in SUBSET Pair /\ Functional(ps) /\ RowTypes /\ ext' = Filled(c, ps)
      BY <2>1, <2>2 DEF c, ps
    <3>2. ext[c] \subseteq ext'[c] /\ \A i \in Id \ {c} : ext'[i] = ext[i]
      BY <3>1, FilledRow
    <3> QED
      BY <3>2
  <2>4. \A v \in Worker : Merged(v) = {}
    BY <2>1, OnlyOne, NothingMerged DEF Merging
  <2>5. rows \subseteq Id
    BY <2>1 DEF RowTypes
  <2> QED
    BY <2>1, <2>3, <2>4, <2>5, TogetherFrame
<1>6. ASSUME NEW w \in Worker, Insert(w)
      PROVE  Together(p, q)'
  <2>1. /\ pc[w] = "insert" /\ RowTypes /\ UNCHANGED overlap /\ rows' = rows \cup {next}
        /\ \E x : ext' = [ext EXCEPT ![next] = {x}]
    BY <1>6 DEF Insert, IndInv
  <2>2. next \notin rows
    BY <2>1 DEF RowTypes, Id
  <2>3. \A i \in rows : i \in rows' /\ ext[i] \subseteq ext'[i]
    BY <2>1, <2>2 DEF RowTypes
  <2>4. \A v \in Worker : Merged(v) = {}
    BY <2>1, OnlyOne, NothingMerged DEF Merging, Busy
  <2> QED
    BY <2>3, <2>4, TogetherFrame
<1>7. ASSUME NEW w \in Worker, MergeDelete(w)
      PROVE  Together(p, q)' \/ Superseded(p) \/ Superseded(q)
  BY <1>7, TogetherMerge DEF MergeDelete
<1> QED
  BY <1>1, <1>2, <1>3, <1>4, <1>5, <1>6, <1>7 DEF Next

-----------------------------------------------------------------------------
(* The theorems. *)

\* In every reachable state of every instance.
THEOREM SpecInv == Spec => []IndInv
<1>1. Init => IndInv
  BY InitInv
<1>2. IndInv /\ [Next]_vars => IndInv'
  BY NextInv
<1> QED
  BY <1>1, <1>2, PTL DEF Spec

\* While operations follow each other, on one payload each, every dependent row
\* and every anime belongs to a row of indexList (merge repoints, then deletes
\* from every table).
THEOREM NothingOrphanedHolds == Spec => []NothingOrphaned
<1>1. IndInv => NothingOrphaned
  BY DEF IndInv
<1> QED
  BY <1>1, SpecInv, PTL

\* repair_duplicates, run by itself on whatever the table holds, leaves no
\* external id on two rows.
THEOREM RepairHealsHolds == Spec => []RepairHeals
<1>1. IndInv => RepairHeals
  <2> SUFFICES ASSUME IndInv, alone, \A w \in Worker : pc[w] = "idle", NEW p \in SharedPairs PROVE FALSE
    BY DEF RepairHeals
  <2>1. \A i, j \in Id : ~Share(p, i, j)
    BY DEF IndInv, HealInv, Busy, SharedPairs
  <2> QED
    BY <2>1 DEF IndInv, RowTypes, SharedPairs, Share, Having
<1> QED
  BY <1>1, SpecInv, PTL

\* Resolving, linking and repairing, one after the other and on one payload each,
\* make no two rows share an external id that was not shared before, whatever
\* duplicates the catalogue has; where there are none, the external ids of an
\* anime stay together, unless it is merged into one with another id of the
\* provider.
THEOREM IdentityKeptHolds == Spec => IdentityKept
<1>1. Init => FoundInv
  BY FoundInit
<1>2. IndInv /\ FoundInv /\ [Next]_vars => FoundInv'
  BY FoundStep
<1> DEFINE Kept == /\ SharedPairs' \subseteq SharedPairs
                   /\ SharedPairs = {} =>
                        \A p, q \in Pair :
                          Together(p, q) => Together(p, q)' \/ Superseded(p) \/ Superseded(q)
<1>3. IndInv /\ IndInv' /\ FoundInv /\ [Next]_vars => (~overlap' /\ ~batched' => Kept)
  BY StaysApart, StaysTogether
<1>4. Spec => []FoundInv
  BY <1>1, <1>2, SpecInv, PTL DEF Spec
<1> QED
  BY <1>3, <1>4, SpecInv, PTL DEF Spec, IdentityKept

\* The anime table has rows only for ids that have been given out, also those that
\* become of a batch of several records.
LEMMA AnimeStep == IndInv /\ anime \subseteq Id /\ [Next]_vars => anime' \subseteq Id
<1> SUFFICES ASSUME IndInv, anime \subseteq Id, [Next]_vars PROVE anime' \subseteq Id
  OBVIOUS
<1>1. ASSUME NEW w \in Worker, Persist(w) PROVE anime' \subseteq Id
  <2>1. job[w].out \in Seq(Record)
    BY DEF IndInv, JobTypes, Job
  <2>2. DeduplicatedIds(job[w].out) \subseteq Id
    BY <2>1, DeduplicatedIdsAre, IdsAreIds
  <2> QED
    BY <1>1, <2>2 DEF Persist
<1>2. ASSUME NEW w \in Worker, MergeDelete(w) PROVE anime' \subseteq Id
  BY <1>2 DEF MergeDelete
<1>3. ASSUME NEW w \in Worker,
             \/ \E b \in Batches : Ingest(w, b)
             \/ \E i \in Id, ps \in Payloads : Enrich(w, i, ps) \/ Link(w, i, ps)
             \/ Repair(w) \/ Lookup(w) \/ Find(w)
             \/ MergeBackfill(w) \/ MergeRepoint(w)
             \/ Backfill(w) \/ Allocate(w) \/ Insert(w)
             \/ \E p \in Pair : LinkKey(w, p) \/ RepairGroup(w, p)
             \/ LinkDone(w) \/ RepairNext(w)
             \/ \E k \in Key : RepairScan(w, k)
      PROVE  UNCHANGED anime
  BY <1>3 DEF Ingest, Enrich, Link, Repair, Begin, Lookup, Find, MergeBackfill, MergeRepoint,
     Backfill, Allocate, Insert, LinkKey, RepairGroup, LinkDone, RepairNext, RepairScan
<1>4. UNCHANGED vars => UNCHANGED anime
  BY DEF vars
<1>5. ASSUME UNCHANGED anime PROVE anime' \subseteq Id
  BY <1>5
<1> QED
  BY <1>1, <1>2, <1>3, <1>4, <1>5 DEF Next

\* Type correctness.
THEOREM TypeCorrect == Spec => []TypeOK
<1>1. Init => anime \subseteq Id
  <2>1. Init => rows \subseteq Id
    BY InitInv DEF IndInv, RowTypes
  <2> QED
    BY <2>1 DEF Init
<1>2. IndInv /\ anime \subseteq Id => TypeOK
  BY DEF IndInv, RowTypes, JobTypes, TypeOK
<1>3. IndInv /\ anime \subseteq Id /\ [Next]_vars => (anime \subseteq Id)'
  BY AnimeStep
<1>4. Spec => [](anime \subseteq Id)
  BY <1>1, <1>3, SpecInv, PTL DEF Spec
<1> QED
  BY <1>2, <1>4, SpecInv, PTL

\* deduplicate_records keeps the smallest id of every group of records that share
\* external ids, directly or through others, and nothing else: for batches of any
\* length, in any order, also when a late record joins groups.
THEOREM DedupeIsExactHolds == Spec => []DedupeIsExact
<1>1. ASSUME NEW rs \in Seq(Record), NEW more \in FurtherRecords(rs) \cup {<<>>}
      PROVE  rs \o more \in Seq(Record)
  <2>1. \A r \in Record : <<r>> \in Seq(Record)
    OBVIOUS
  <2>2. \A r, t \in Record : <<r, t>> \in Seq(Record)
    OBVIOUS
  <2>3. more \in Seq(Record)
    <3>1. <<>> \in Seq(Record)
      OBVIOUS
    <3> DEFINE fresh == {r \in Record : r.id \notin {rs[k].id : k \in DOMAIN rs} /\ r.ids # {}}
           one == {<<r>> : r \in fresh}
           two == {<<r, t>> : r, t \in fresh}
    <3>2. FurtherRecords(rs) = {<<>>} \cup one \cup two
      BY DEF FurtherRecords
    <3>3. \A r \in fresh : r \in Record
      OBVIOUS
    <3> HIDE DEF fresh
    <3>4. CASE more = <<>>
      BY <3>1, <3>4
    <3>5. CASE more \in one
      BY <2>1, <3>3, <3>5, Zenon
    <3>6. CASE more \in two
      <4>1. PICK r \in fresh, t \in fresh : more = <<r, t>>
        BY <3>6
      <4> QED
        BY <2>2, <3>3, <4>1
    <3> HIDE DEF one, two
    <3> QED
      BY <3>2, <3>4, <3>5, <3>6
  <2> QED
    BY <2>3
<1>2. IndInv => DedupeIsExact
  <2> SUFFICES ASSUME IndInv, NEW w \in Worker,
                      NEW more \in FurtherRecords(job[w].out) \cup {<<>>}
               PROVE  DeduplicatedIds(job[w].out \o more) = GroupIds(job[w].out \o more)
    BY DEF DedupeIsExact
  <2>1. job[w].out \in Seq(Record)
    BY DEF IndInv, JobTypes, Job
  <2>2. job[w].out \o more \in Seq(Record)
    BY <1>1, <2>1
  <2> QED
    BY <2>2, DeduplicatedIdsAre
<1> QED
  BY <1>2, SpecInv, PTL
=============================================================================
