---------------------------- MODULE MemoryRecall ----------------------------
(***************************************************************************)
(* Memory rows in Qdrant (crates/memory-qdrant), their lexical index       *)
(* (crates/bm25-index) and the control plane that records and forgets      *)
(* (crates/memory). Rows are only added: forgetting adds a tombstone that  *)
(* cuts off the row's correction chain. A search reads the tombstones      *)
(* first, then the candidates of both indexes, then the rows themselves,   *)
(* with an await at each. What a query matches and how fusion ranks it is  *)
(* any choice. Both stores are external and may fail before or after they  *)
(* applied a write.                                                        *)
(***************************************************************************)
EXTENDS Naturals, FiniteSets, FiniteSetsExt

CONSTANTS
  Facts, FactOf,     \* what can be recorded: [subject, root, from, to]
  Tombs, CutTimes,   \* ids for tombstones, and the times they may carry
  MemoryWriters,
  ScrollLimit,       \* SCROLL_LIMIT
  PoolSize,          \* candidate_pool(TopK)
  TopK,
  MaxMemFaults       \* bound: backend calls that fail

NoCut == 0   \* invalidation_time: None

ASSUME MemoryAssumption ==
  /\ \A f \in Facts : FactOf[f].from \in Nat /\ FactOf[f].to \in Nat
  /\ CutTimes \subseteq Nat \ {NoCut}
  /\ {ScrollLimit, PoolSize, TopK, MaxMemFaults} \subseteq Nat

VARIABLES
  points,    \* the rows in Qdrant
  lex,       \* ids in the lexical index
  job,       \* what each writer is in the middle of
  search,    \* the search under way, or its answer
  forgotten, \* <<subject, root>> whose tombstone Qdrant has acknowledged
  memFaults

memVars == <<points, lex, job, search, forgotten, memFaults>>

Subjects == {FactOf[f].subject : f \in Facts}
Roots == {FactOf[f].root : f \in Facts}
DataRow(f) ==
  [id |-> f, subject |-> FactOf[f].subject, root |-> FactOf[f].root, cut |-> NoCut]
Tombstone(t, target, at) ==
  [id |-> t, subject |-> target.subject, root |-> target.root, cut |-> at]
Rows == [id : Facts \cup Tombs, subject : Subjects, root : Roots, cut : CutTimes \cup {NoCut}]
Ids(rows) == {r.id : r \in rows}

IdleJob == [at |-> "idle"]
IdleSearch == [at |-> "idle"]

\* Rows, index, jobs and the search keep their types.
MemTypeOK ==
  /\ points \subseteq Rows /\ lex \subseteq Facts \cup Tombs
  /\ \A w \in MemoryWriters : job[w].at \in {"idle", "upsert", "index", "delete"}
  /\ search.at \in {"idle", "dense", "fuse", "answered"}
  /\ forgotten \subseteq Subjects \X Roots /\ memFaults \in 0..MaxMemFaults

MemInit ==
  /\ points = {} /\ lex = {} /\ forgotten = {} /\ memFaults = 0
  /\ job = [w \in MemoryWriters |-> IdleJob]
  /\ search = IdleSearch

\* Some n members of S, all of them when there are no more.
UpTo(n, S) == kSubset(IF Cardinality(S) < n THEN Cardinality(S) ELSE n, S)

OfSubject(s) == {r \in points : r.subject = s}
OfRoot(root) == {r \in points : r.root = root}
Cutoffs(rows) == {r.root : r \in {x \in rows : x.cut # NoCut}}

\* Data rows valid at a time whose chain is not cut off at or before it.
live_at(rows, at) ==
  {r \in rows :
    /\ r.cut = NoCut
    /\ FactOf[r.id].from <= at /\ at < FactOf[r.id].to
    /\ \A x \in rows : x.root = r.root /\ x.cut # NoCut => x.cut > at}

Used == Ids(points) \cup {job[w].row.id : w \in {v \in MemoryWriters : job[v].at # "idle"}}

Faults(n) == memFaults + n <= MaxMemFaults /\ memFaults' = memFaults + n

\* The control plane records a turn's row: first Qdrant, then the index.
Records(w, f) ==
  /\ job[w] = IdleJob /\ f \notin Used
  /\ job' = [job EXCEPT ![w] =
       [at |-> "upsert", row |-> DataRow(f), next |-> "index", chain |-> {}]]
  /\ UNCHANGED <<points, lex, search, forgotten, memFaults>>

\* forget: the target must be the subject's and its chain live at that time;
\* the tombstone is then recorded like any row.
Forgets(w, target, at, t) ==
  /\ job[w] = IdleJob /\ t \notin Used
  /\ \E chain \in UpTo(ScrollLimit, OfRoot(target.root)) : target \in chain
  /\ \E seen \in UpTo(ScrollLimit, OfSubject(target.subject)) :
       \E r \in live_at(seen, at) : r.root = target.root
  /\ job' = [job EXCEPT ![w] =
       [at |-> "upsert", row |-> Tombstone(t, target, at), next |-> "index", chain |-> {}]]
  /\ UNCHANGED <<points, lex, search, forgotten, memFaults>>

\* invalidate: the chain is read first, as nothing when the read fails; then the
\* tombstone goes to Qdrant alone and the chain leaves the index.
Invalidates(w, target, at, t) ==
  /\ job[w] = IdleJob /\ t \notin Used
  /\ \/ \E chain \in UpTo(ScrollLimit, OfRoot(target.root)) :
          /\ job' = [job EXCEPT ![w] = [at |-> "upsert", next |-> "delete",
                       row |-> Tombstone(t, target, at), chain |-> Ids(chain)]]
          /\ Faults(0)
     \/ /\ job' = [job EXCEPT ![w] = [at |-> "upsert", next |-> "delete",
                     row |-> Tombstone(t, target, at), chain |-> {}]]
        /\ Faults(1)
  /\ UNCHANGED <<points, lex, search, forgotten>>

Upserts(w) ==
  /\ job[w].at = "upsert"
  /\ points' = points \cup {job[w].row}
  /\ forgotten' = IF job[w].row.cut = NoCut THEN forgotten
                  ELSE forgotten \cup {<<job[w].row.subject, job[w].row.root>>}
  /\ job' = [job EXCEPT ![w].at = job[w].next]
  /\ UNCHANGED <<lex, search, memFaults>>

\* The upsert fails or times out, with or without its effect.
UpsertFails(w) ==
  /\ job[w].at = "upsert"
  /\ points' \in {points, points \cup {job[w].row}}
  /\ job' = [job EXCEPT ![w] = IdleJob]
  /\ Faults(1)
  /\ UNCHANGED <<lex, search, forgotten>>

\* add commits and reloads; it may fail at either.
Indexes(w) ==
  /\ job[w].at = "index"
  /\ \/ lex' = lex \cup {job[w].row.id} /\ Faults(0)
     \/ lex' \in {lex, lex \cup {job[w].row.id}} /\ Faults(1)
  /\ job' = [job EXCEPT ![w] = IdleJob]
  /\ UNCHANGED <<points, search, forgotten>>

\* The chain's ids are deleted one by one under the index's lock, up to one that fails.
Unindexes(w) ==
  /\ job[w].at = "delete"
  /\ \/ lex' = lex \ job[w].chain /\ Faults(0)
     \/ lex' \in {lex \ gone : gone \in SUBSET job[w].chain} /\ Faults(1)
  /\ job' = [job EXCEPT ![w] = IdleJob]
  /\ UNCHANGED <<points, search, forgotten>>

\* dead_chains: one scroll of the subject's rows. `due` and `least` are what the
\* answer owes: the chains forgotten by now, where one scroll sees every row, and
\* how many live rows there are.
SearchBegins(s) ==
  /\ search.at \in {"idle", "answered"}
  /\ \E seen \in UpTo(ScrollLimit, OfSubject(s)) :
       search' = [at |-> "dense", subject |-> s, dead |-> Cutoffs(seen),
                  due |-> {root \in Roots : /\ <<s, root>> \in forgotten
                                            /\ Cardinality(OfSubject(s)) <= ScrollLimit},
                  least |-> Cardinality({r \in OfSubject(s) :
                              r.cut = NoCut /\ r.root \notin Cutoffs(OfSubject(s))})]
  /\ UNCHANGED <<points, lex, job, forgotten, memFaults>>

\* The vector hits that are data rows of the subject and not in a dead chain.
SearchDense ==
  /\ search.at = "dense"
  /\ \E hits \in UpTo(PoolSize, points) :
       search' = [at |-> "fuse", subject |-> search.subject, dead |-> search.dead,
                  due |-> search.due, least |-> search.least,
                  dense |-> {r \in hits : /\ r.cut = NoCut /\ r.root \notin search.dead
                                          /\ r.subject = search.subject}]
  /\ UNCHANGED <<points, lex, job, forgotten, memFaults>>

\* Mutant: a lexical hit is hydrated without asking whether its chain is dead.
fetch_live_any(ids) ==
  {r \in points : r.id \in ids /\ r.cut = NoCut /\ r.subject = search.subject}

fetch_live(ids) ==
  {r \in points : /\ r.id \in ids /\ r.cut = NoCut
                  /\ r.root \notin search.dead /\ r.subject = search.subject}

\* The lexical hits are fused with the vector hits, cut to the pool, and hydrated
\* until there are TopK. The ids of the index are all stored and rows do not
\* change, so reading them one by one later finds the same rows.
SearchFuses ==
  /\ search.at = "fuse"
  /\ \E hits \in {h \in SUBSET lex : Cardinality(h) <= PoolSize} :
       \E fused \in UpTo(PoolSize, Ids(search.dense) \cup hits) :
         \E out \in UpTo(TopK, {r \in search.dense \cup fetch_live(hits) : r.id \in fused}) :
           search' = [at |-> "answered", subject |-> search.subject, due |-> search.due,
                      least |-> search.least, out |-> out,
                      fits |-> Cardinality(points) <= PoolSize]
  /\ UNCHANGED <<points, lex, job, forgotten, memFaults>>

\* Any of its calls fails: the search reports the error and the turn goes without.
SearchFails ==
  /\ search.at \in {"dense", "fuse"}
  /\ search' = IdleSearch
  /\ Faults(1)
  /\ UNCHANGED <<points, lex, job, forgotten>>

WriterStep(w) ==
  \/ \E f \in Facts : Records(w, f)
  \/ \E target \in points, at \in CutTimes, t \in Tombs :
       Forgets(w, target, at, t) \/ Invalidates(w, target, at, t)
  \/ Upserts(w) \/ UpsertFails(w) \/ Indexes(w) \/ Unindexes(w)

MemNext ==
  \/ \E w \in MemoryWriters : WriterStep(w)
  \/ \E s \in Subjects : SearchBegins(s)
  \/ SearchDense \/ SearchFuses \/ SearchFails

MemSpec == MemInit /\ [][MemNext]_memVars

(***************************************************************************)
(* What a search answers are at most TopK data rows of the asked subject,  *)
(* none of a chain whose forgetting was acknowledged before the search     *)
(* began; while all rows fit the candidate pool it misses no live row that *)
(* was there when it began. The index only names stored rows. Writers and  *)
(* faults come between the search's reads (hybrid.rs search_filtered).     *)
(***************************************************************************)
RecallSound ==
  /\ lex \subseteq Ids(points)
  /\ search.at = "answered" =>
       /\ \A r \in search.out : /\ r.cut = NoCut /\ r.subject = search.subject
                                /\ r.root \notin search.due
       /\ Cardinality(search.out) <= TopK
       /\ search.fits => Cardinality(search.out) >= (IF search.least < TopK THEN search.least ELSE TopK)
=============================================================================
