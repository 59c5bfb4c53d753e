--------------------------- MODULE WebhookInbound ---------------------------
(***************************************************************************)
(* The inbound webhook handler (crates/webhook/src/inbound.rs): a delivery *)
(* is checked against its source's window and signature, then against one  *)
(* replay cache that all sources of the process share, and only then given *)
(* to the handler. Senders deliver a message more than once: they time out *)
(* and retry. Timestamps count seconds; the cache's Instants are finer.    *)
(***************************************************************************)
EXTENDS Integers, Sequences, FiniteSets, FiniteSetsExt

CONSTANTS
  Signatures,     \* signed messages
  SourceWindow,   \* replay_window_secs of the source that signs each of them
  TicksPerSecond, \* how much finer Instant is than the timestamp
  MaxEntries,     \* max_entries of the cache
  MaxTicks,       \* bound: the clock
  MaxAdmissions   \* bound: copies of a message given to the handler

ASSUME InboundAssumption ==
  /\ SourceWindow \in [Signatures -> Nat]
  /\ TicksPerSecond \in Nat \ {0} /\ MaxEntries \in Nat \ {0}
  /\ MaxTicks \in Nat /\ MaxAdmissions \in Nat

VARIABLES
  instant,    \* Instant::now(), in ticks; the wall clock is its second
  stamp,      \* the timestamp a message was signed with, Unsent before
  entries,    \* the cache: expiry by signature
  insertion,  \* insertion_order
  admittedAt, \* when the last copy was given to the handler
  admissions, \* how many copies were
  crowdedOut  \* signatures that left the cache before they expired

inboundVars == <<instant, stamp, entries, insertion, admittedAt, admissions, crowdedOut>>

Unsent == -100
NotYet == -1
Second(t) == t \div TicksPerSecond

\* The clocks, the stamps and both halves of the cache keep their types.
InboundTypeOK ==
  /\ instant \in 0..MaxTicks
  /\ stamp \in [Signatures -> {Unsent} \cup -1..Second(MaxTicks) + 1]
  /\ admissions \in [Signatures -> 0..MaxAdmissions]
  /\ DOMAIN entries \subseteq Signatures /\ \A s \in DOMAIN entries : entries[s] \in Nat
  /\ insertion \in Seq([sig : Signatures, expires : Nat])
  /\ admittedAt \in [Signatures -> {NotYet} \cup 0..MaxTicks]
  /\ crowdedOut \subseteq Signatures

InboundInit ==
  /\ instant = 0
  /\ stamp = [s \in Signatures |-> Unsent]
  /\ admissions = [s \in Signatures |-> 0]
  /\ entries = [s \in {} |-> 0] /\ insertion = <<>>
  /\ admittedAt = [s \in Signatures |-> NotYet]
  /\ crowdedOut = {}

-----------------------------------------------------------------------------
(* ReplayCache: a cache is the pair of its map and its insertion order *)

\* Mutant: expired keys leave the map and not the order.
PopMapOnly(cache, n) ==
  LET popped == {cache.order[i] : i \in 1..n}
      gone == {s \in DOMAIN cache.map : [sig |-> s, expires |-> cache.map[s]] \in popped}
  IN [map |-> [s \in DOMAIN cache.map \ gone |-> cache.map[s]], order |-> cache.order]

\* The first n insertions are popped: their keys leave the map, unless the map
\* holds a later expiry for them.
PopFront(cache, n) ==
  LET popped == {cache.order[i] : i \in 1..n}
      gone == {s \in DOMAIN cache.map : [sig |-> s, expires |-> cache.map[s]] \in popped}
  IN [map |-> [s \in DOMAIN cache.map \ gone |-> cache.map[s]],
      order |-> SubSeq(cache.order, n + 1, Len(cache.order))]

\* prune_expired stops at the first insertion that has not expired.
prune_expired(cache, now) ==
  PopFront(cache, Min({n \in 0..Len(cache.order) :
                         n < Len(cache.order) => cache.order[n + 1].expires > now}))

\* prune_overflow pops until the map is small enough.
prune_overflow(cache) ==
  PopFront(cache, Min({n \in 0..Len(cache.order) :
                         \/ Cardinality(DOMAIN PopFront(cache, n).map) <= MaxEntries
                         \/ n = Len(cache.order)}))

Insert(cache, s, expires) ==
  [map |-> [k \in DOMAIN cache.map \cup {s} |-> IF k = s THEN expires ELSE cache.map[k]],
   order |-> Append(cache.order, [sig |-> s, expires |-> expires])]

\* Mutant: the lifetime of the cache's first caller is kept.
TtlOfFirst(s) == TicksPerSecond

\* record_replay_signature sets default_ttl to the window of this source.
Ttl(s) == TicksPerSecond * (IF SourceWindow[s] = 0 THEN 1 ELSE SourceWindow[s])

-----------------------------------------------------------------------------
\* A sender signs a message; its clock may be a second off.
Signs(s, skew) ==
  /\ stamp[s] = Unsent
  /\ stamp' = [stamp EXCEPT ![s] = Second(instant) + skew]
  /\ UNCHANGED <<instant, entries, insertion, admittedAt, admissions, crowdedOut>>

OutsideWindow(s) ==
  LET diff == Second(instant) - stamp[s]
  IN diff > SourceWindow[s] \/ -diff > SourceWindow[s]

Cache == prune_expired([map |-> entries, order |-> insertion], instant)

\* receive_webhook: a copy arrives. It is stale, ...
RefusesStale(s) ==
  /\ stamp[s] # Unsent /\ OutsideWindow(s)
  /\ UNCHANGED inboundVars

\* ... or its signature is in the cache, which only drops what expired, ...
RefusesReplay(s) ==
  /\ stamp[s] # Unsent /\ ~OutsideWindow(s) /\ s \in DOMAIN Cache.map
  /\ entries' = Cache.map /\ insertion' = Cache.order
  /\ UNCHANGED <<instant, stamp, admittedAt, admissions, crowdedOut>>

\* ... or it is recorded and goes to the handler. The entry stays whether the
\* handler succeeds or the sender is answered 500.
Admits(s) ==
  /\ stamp[s] # Unsent /\ ~OutsideWindow(s) /\ s \notin DOMAIN Cache.map
  /\ admissions[s] < MaxAdmissions
  /\ LET filled == Insert(Cache, s, instant + Ttl(s))
         kept == prune_overflow(filled)
     IN /\ entries' = kept.map /\ insertion' = kept.order
        /\ crowdedOut' = (crowdedOut \ {s}) \cup (DOMAIN filled.map \ DOMAIN kept.map)
  /\ admittedAt' = [admittedAt EXCEPT ![s] = instant]
  /\ admissions' = [admissions EXCEPT ![s] = @ + 1]
  /\ UNCHANGED <<instant, stamp>>

InstantPasses ==
  /\ instant < MaxTicks
  /\ instant' = instant + 1
  /\ UNCHANGED <<stamp, entries, insertion, admittedAt, admissions, crowdedOut>>

InboundNext ==
  \/ InstantPasses
  \/ \E s \in Signatures :
       \/ RefusesStale(s) \/ RefusesReplay(s) \/ Admits(s)
       \/ \E skew \in -1..1 : Signs(s, skew)

InboundSpec == InboundInit /\ [][InboundNext]_inboundVars

-----------------------------------------------------------------------------
(* Properties *)

\* The map and the insertion order always hold the same entries, once each, and
\* at most MaxEntries of them: otherwise an entry would never be pruned, or be
\* pruned early (inbound.rs:202 and :220).
CacheConsistent ==
  /\ Cardinality(DOMAIN entries) <= MaxEntries
  /\ Len(insertion) = Cardinality(DOMAIN entries)
  /\ \A i \in 1..Len(insertion) :
       /\ insertion[i].sig \in DOMAIN entries
       /\ entries[insertion[i].sig] = insertion[i].expires

\* A step that admits a second copy of a message the cache had room for.
Readmitted(s) == admissions[s] > 0 /\ s \notin crowdedOut /\ admissions'[s] > admissions[s]

\* A message whose copy was admitted is not admitted again for the window of its
\* own source, counted from that admission, whatever windows the other sources
\* that share the cache have, unless the cache overflowed (inbound.rs:247). The
\* code keeps no more than that: inbound.rs:31 and :63 promise one admission for
\* as long as the timestamp passes, which is longer for a message that arrives
\* before its stamp or within its second (README, section 4).
NotAgainWithinWindow ==
  [][\A s \in Signatures : Readmitted(s) =>
       instant - admittedAt[s] >= TicksPerSecond * SourceWindow[s]]_inboundVars

=============================================================================
