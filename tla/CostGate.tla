------------------------------ MODULE CostGate ------------------------------
(***************************************************************************)
(* The cost-admission gate (crates/cost-gate): InMemoryCostAdmissionGate   *)
(* over InMemoryBudgetStore, with the release-on-drop guard of the fused   *)
(* runtime.  Each lock acquisition of the code is one step, so that calls  *)
(* running on different threads interleave exactly where the code lets     *)
(* them.                                                                   *)
(*                                                                         *)
(* A reservation id r \in Rids is one admit call and what it produced; a   *)
(* call c \in Calls is one finalize, one cancel-guard drop or one          *)
(* rollback_finalization against some reservation.                         *)
(***************************************************************************)
EXTENDS CostTuples, Functions

CONSTANTS
  Holders,          \* budget holders
  Tokens,           \* cap-token ids
  Providers,        \* provider ids
  AllowedProviders, \* with_allowed_providers
  Rids,             \* reservation ids, one per admit call
  Calls,            \* settling calls: finalize, cancel, rollback
  Envelopes,        \* projected envelopes an admit may carry
  Actuals,          \* actual costs a finalize may post
  TopUps,           \* budgets provision_for may add
  Ceiling,          \* with_ceiling
  ProvisionCap,     \* with_provision_cap
  InitialBalance,   \* set_balance at build time, for the holders in Funded
  Funded,
  TtlMs,            \* reservation lifetime
  MaxNow,           \* bound on the clock
  MaxTopUps,        \* bound on the number of top-ups
  NoHolder,         \* an unbound token, or no holder resolved yet
  NoRid             \* a settling call that has not started

ASSUME GateAssumption ==
  /\ Envelopes \subseteq CostEnvelope
  /\ Actuals \subseteq CostTuple
  /\ TopUps \subseteq CostTuple
  /\ InitialBalance \in CostTuple
  /\ Funded \subseteq Holders
  /\ NoHolder \notin Holders /\ NoRid \notin Rids
  /\ TtlMs \in Nat /\ MaxNow \in Nat /\ MaxTopUps \in Nat

VARIABLES
  \* InMemoryBudgetStore.accounts
  known,          \* holders that have an account
  balance,        \* Account.balance
  version,        \* Account.version
  \* InMemoryCostAdmissionGate
  tokenHolder,    \* token_holders
  active,         \* the keys of reservations
  finalizing,     \* those whose record has finalizing = true
  expiresAt,      \* ReservationRecord.expires_at
  holder,         \* ReservationHandle.holder
  reserved,       \* ReservationHandle.reserved
  finalized,      \* the keys of finalized
  rollbackCredit, \* FinalizedRecord.rollback_credit
  now,            \* the clock
  \* local state of the calls in progress
  pc,             \* where the admit call of each reservation is
  snapshot,       \* the (balance, version) try_reserve read
  cpc,            \* where each settling call is
  crid,           \* the reservation it is about
  cactual,        \* the actual cost it posts
  \* history
  topUps,         \* number of top-ups so far
  granted,        \* what each holder was given, as applied
  net,            \* what each reservation has taken from its holder, net
  clipped         \* some credit was cut short by u64::MAX or i64::MAX

accountVars == <<known, balance, version>>
tableVars   == <<active, finalizing, expiresAt, finalized, rollbackCredit>>
admitVars   == <<pc, snapshot, holder, reserved>>
callVars    == <<cpc, crid, cactual>>
ghostVars   == <<topUps, granted, net, clipped>>
vars == <<known, balance, version, tokenHolder, active, finalizing, expiresAt,
          holder, reserved, finalized, rollbackCredit, now, pc, snapshot, cpc,
          crid, cactual, topUps, granted, net, clipped>>

AdmitPc == {"idle", "check", "snapshot", "commit", "insert", "admitted", "refused"}
CallPc  == {"idle", "refused", "expired", "releasing", "released",
            "refund", "remove", "record", "finalized",
            "cancelling", "cancelled", "rolling", "rolled"}

\* Balances, reservations and calls keep their types, finalizing ones are active.
TypeOK ==
  /\ known \subseteq Holders
  /\ balance \in [Holders -> CostTuple]
  /\ version \in [Holders -> Nat]
  /\ tokenHolder \in [Tokens -> Holders \cup {NoHolder}]
  /\ active \subseteq Rids /\ finalizing \subseteq active
  /\ expiresAt \in [Rids -> Nat]
  /\ holder \in [Rids -> Holders \cup {NoHolder}]
  /\ reserved \in [Rids -> CostEnvelope]
  /\ finalized \subseteq Rids
  /\ rollbackCredit \in [Rids -> CostTuple]
  /\ now \in Nat
  /\ pc \in [Rids -> AdmitPc]
  /\ snapshot \in [Rids -> [balance : CostTuple, version : Nat]]
  /\ cpc \in [Calls -> CallPc]
  /\ crid \in [Calls -> Rids \cup {NoRid}]
  /\ cactual \in [Calls -> CostTuple]
  /\ topUps \in Nat
  /\ granted \in [Holders -> [Dims -> Nat]]
  /\ net \in [Rids -> [Dims -> Int]]
  /\ clipped \in BOOLEAN

Init ==
  /\ known = Funded
  /\ balance = [h \in Holders |-> IF h \in Funded THEN InitialBalance ELSE ZERO]
  /\ version = [h \in Holders |-> IF h \in Funded THEN 1 ELSE 0]
  /\ tokenHolder = [t \in Tokens |-> NoHolder]
  /\ active = {} /\ finalizing = {} /\ finalized = {}
  /\ expiresAt = [r \in Rids |-> 0]
  /\ holder = [r \in Rids |-> NoHolder]
  /\ reserved = [r \in Rids |-> ZERO]
  /\ rollbackCredit = [r \in Rids |-> ZERO]
  /\ now = 0
  /\ pc = [r \in Rids |-> "idle"]
  /\ snapshot = [r \in Rids |-> [balance |-> ZERO, version |-> 0]]
  /\ cpc = [c \in Calls |-> "idle"]
  /\ crid = [c \in Calls |-> NoRid]
  /\ cactual = [c \in Calls |-> ZERO]
  /\ topUps = 0
  /\ granted = balance
  /\ net = [r \in Rids |-> ZERO]
  /\ clipped = FALSE

-----------------------------------------------------------------------------
(* Budget store and provisioning *)

\* SystemClock.
Tick ==
  /\ now < MaxNow
  /\ now' = now + 1
  /\ UNCHANGED <<accountVars, tokenHolder, tableVars, admitVars, callVars, ghostVars>>

\* bind_token overwrites whatever the token was bound to.
bind_token(t, h) ==
  /\ tokenHolder' = [tokenHolder EXCEPT ![t] = h]
  /\ UNCHANGED <<accountVars, tableVars, now, admitVars, callVars, ghostVars>>

\* provision_merge under one write lock: the account is created even when the
\* merge is then refused for exceeding the cap.
provision_for(h, add) ==
  LET merged == saturating_add(balance[h], add) IN
  /\ topUps < MaxTopUps
  /\ topUps' = topUps + 1
  /\ known' = known \cup {h}
  /\ IF over(merged, ProvisionCap)
       THEN UNCHANGED <<balance, version, granted>>
       ELSE /\ balance' = [balance EXCEPT ![h] = merged]
            /\ version' = [version EXCEPT ![h] = @ + 1]
            /\ granted' = [granted EXCEPT ![h] =
                 [d \in Dims |-> @[d] + (merged[d] - balance[h][d])]]
  /\ UNCHANGED <<tokenHolder, tableVars, now, admitVars, callVars, net, clipped>>

\* BudgetStore::refund (and refund_sync): apply a signed delta for r's holder.
\* The history records what the balance really moved by.
refund(r, delta) ==
  LET h == holder[r]
      after == apply_delta(balance[h], delta)
  IN /\ balance' = [balance EXCEPT ![h] = after]
     /\ version' = [version EXCEPT ![h] = @ + 1]
     /\ net' = [net EXCEPT ![r] = [d \in Dims |-> @[d] - (after[d] - balance[h][d])]]
     /\ UNCHANGED <<known, topUps, granted>>

\* A credit the integer widths cut short: the amount itself exceeds an i64, or
\* the balance it lands on would exceed a u64.
Clipped(r, amount) ==
  \E d \in Dims : \/ amount[d] > I64Max
                  \/ balance[holder[r]][d] + amount[d] > U64Max

-----------------------------------------------------------------------------
(* admit *)

\* Stages 1 and 2 refuse: the token is unknown, the provider is not allowed,
\* or the envelope exceeds the ceiling.
AdmitScreened(r, t, env, p) ==
  /\ pc[r] = "idle"
  /\ \/ tokenHolder[t] = NoHolder
     \/ p \notin AllowedProviders
     \/ over(env, Ceiling)
  /\ pc' = [pc EXCEPT ![r] = "refused"]
  /\ UNCHANGED <<accountVars, tokenHolder, tableVars, now, snapshot, holder,
                 reserved, callVars, ghostVars>>

\* Stages 1 and 2 pass: the holder is read from the directory, once.
AdmitResolve(r, t, env, p) ==
  /\ pc[r] = "idle"
  /\ tokenHolder[t] # NoHolder
  /\ p \in AllowedProviders
  /\ ~over(env, Ceiling)
  /\ pc' = [pc EXCEPT ![r] = "check"]
  /\ holder' = [holder EXCEPT ![r] = tokenHolder[t]]
  /\ reserved' = [reserved EXCEPT ![r] = env]
  /\ UNCHANGED <<accountVars, tokenHolder, tableVars, now, snapshot, callVars,
                 ghostVars>>

\* The current_balance pre-check: no account, or not enough.
AdmitCheck(r) ==
  /\ pc[r] = "check"
  /\ pc' = [pc EXCEPT ![r] =
       IF holder[r] \in known /\ covers(balance[holder[r]], reserved[r])
         THEN "snapshot" ELSE "refused"]
  /\ UNCHANGED <<accountVars, tokenHolder, tableVars, now, snapshot, holder,
                 reserved, callVars, ghostVars>>

\* Mutant: try_reserve commits whatever it read, trusting the pre-check.
ReserveSnapshotUnchecked(r) ==
  /\ pc[r] = "snapshot"
  /\ pc' = [pc EXCEPT ![r] = "commit"]
  /\ snapshot' = [snapshot EXCEPT ![r] =
       [balance |-> balance[holder[r]], version |-> version[holder[r]]]]
  /\ UNCHANGED <<accountVars, tokenHolder, tableVars, now, holder, reserved,
                 callVars, ghostVars>>

\* try_reserve, under the read lock: RaceLost when the snapshot cannot cover.
ReserveSnapshot(r) ==
  /\ pc[r] = "snapshot"
  /\ IF covers(balance[holder[r]], reserved[r])
       THEN /\ pc' = [pc EXCEPT ![r] = "commit"]
            /\ snapshot' = [snapshot EXCEPT ![r] =
                 [balance |-> balance[holder[r]], version |-> version[holder[r]]]]
       ELSE /\ pc' = [pc EXCEPT ![r] = "refused"]
            /\ UNCHANGED snapshot
  /\ UNCHANGED <<accountVars, tokenHolder, tableVars, now, holder, reserved,
                 callVars, ghostVars>>

\* Mutant: the commit does not compare versions (the lost update).
ReserveCommitBlind(r) ==
  LET h == holder[r] IN
  /\ pc[r] = "commit"
  /\ balance' = [balance EXCEPT ![h] = minus(snapshot[r].balance, reserved[r])]
  /\ version' = [version EXCEPT ![h] = @ + 1]
  /\ pc' = [pc EXCEPT ![r] = "insert"]
  /\ net' = [net EXCEPT ![r] =
       [d \in Dims |-> @[d] + (balance[h][d] - balance'[h][d])]]
  /\ UNCHANGED <<known, tokenHolder, tableVars, now, snapshot, holder, reserved,
                 callVars, topUps, granted, clipped>>

\* try_reserve, under the write lock: commit the snapshot's post balance, only
\* if the version is still the one that was read.
ReserveCommit(r) ==
  LET h == holder[r] IN
  /\ pc[r] = "commit"
  /\ version[h] = snapshot[r].version
  /\ balance' = [balance EXCEPT ![h] = minus(snapshot[r].balance, reserved[r])]
  /\ version' = [version EXCEPT ![h] = @ + 1]
  /\ pc' = [pc EXCEPT ![r] = "insert"]
  /\ net' = [net EXCEPT ![r] =
       [d \in Dims |-> @[d] + (balance[h][d] - balance'[h][d])]]
  /\ UNCHANGED <<known, tokenHolder, tableVars, now, snapshot, holder, reserved,
                 callVars, topUps, granted, clipped>>

\* Mutant: the retry compares the old snapshot again instead of re-reading.
ReserveRetryStale(r) ==
  /\ pc[r] = "commit"
  /\ version[holder[r]] # snapshot[r].version
  /\ UNCHANGED vars

\* try_reserve: the version moved, so go round the loop again.
ReserveRetry(r) ==
  /\ pc[r] = "commit"
  /\ version[holder[r]] # snapshot[r].version
  /\ pc' = [pc EXCEPT ![r] = "snapshot"]
  /\ UNCHANGED <<accountVars, tokenHolder, tableVars, now, snapshot, holder,
                 reserved, callVars, ghostVars>>

\* The hold becomes visible to finalize and to the cancel guard.
AdmitInsert(r) ==
  /\ pc[r] = "insert"
  /\ active' = active \cup {r}
  /\ expiresAt' = [expiresAt EXCEPT ![r] = now + TtlMs]
  /\ pc' = [pc EXCEPT ![r] = "admitted"]
  /\ UNCHANGED <<accountVars, tokenHolder, finalizing, finalized, rollbackCredit,
                 now, snapshot, holder, reserved, callVars, ghostVars>>

\* touch_reservation: a hold nobody is finalizing gets a new lease.
touch_reservation(r) ==
  /\ r \in active \ finalizing
  /\ expiresAt' = [expiresAt EXCEPT ![r] = now + TtlMs]
  /\ UNCHANGED <<accountVars, tokenHolder, active, finalizing, finalized,
                 rollbackCredit, now, admitVars, callVars, ghostVars>>

-----------------------------------------------------------------------------
(* finalize *)

\* Start call c on reservation r, leaving it at point p.
Call(c, r, p) ==
  /\ cpc[c] = "idle" /\ pc[r] = "admitted"
  /\ cpc' = [cpc EXCEPT ![c] = p]
  /\ crid' = [crid EXCEPT ![c] = r]

Goto(c, from, to) ==
  /\ cpc[c] = from
  /\ cpc' = [cpc EXCEPT ![c] = to]
  /\ UNCHANGED <<crid, cactual>>

\* Mutant: a second finalize may claim a record that is being finalized.
FinalizeClaimTwice(c, r, actual) ==
  /\ r \in active
  /\ Call(c, r, IF now > expiresAt[r] THEN "expired" ELSE "refund")
  /\ cactual' = [cactual EXCEPT ![c] = actual]
  /\ finalizing' = finalizing \cup {r}
  /\ UNCHANGED <<accountVars, tokenHolder, active, expiresAt, finalized,
                 rollbackCredit, now, admitVars, ghostVars>>

\* finalize claims the record under the write lock and decides expiry there.
FinalizeClaim(c, r, actual) ==
  /\ r \in active \ finalizing
  /\ Call(c, r, IF now > expiresAt[r] THEN "expired" ELSE "refund")
  /\ cactual' = [cactual EXCEPT ![c] = actual]
  /\ finalizing' = finalizing \cup {r}
  /\ UNCHANGED <<accountVars, tokenHolder, active, expiresAt, finalized,
                 rollbackCredit, now, admitVars, ghostVars>>

\* finalize finds no record, or one that is already being finalized.
FinalizeReject(c, r) ==
  /\ r \notin active \ finalizing
  /\ Call(c, r, "refused")
  /\ UNCHANGED <<cactual, accountVars, tokenHolder, tableVars, now, admitVars, ghostVars>>

RemoveRecord(r) ==
  /\ active' = active \ {r}
  /\ finalizing' = finalizing \ {r}

\* Mutant: the expired branch gives up with the record still claimed.
FinalizeExpiredKeep(c) ==
  /\ Goto(c, "expired", "released")
  /\ UNCHANGED <<accountVars, tokenHolder, tableVars, now, admitVars, ghostVars>>

FinalizeExpiredRemove(c) ==
  /\ Goto(c, "expired", "releasing")
  /\ RemoveRecord(crid[c])
  /\ UNCHANGED <<accountVars, tokenHolder, expiresAt, finalized, rollbackCredit,
                 now, admitVars, ghostVars>>

FinalizeExpiredRefund(c) ==
  /\ Goto(c, "releasing", "released")
  /\ refund(crid[c], full_credit(reserved[crid[c]]))
  /\ clipped' = (clipped \/ Clipped(crid[c], reserved[crid[c]]))
  /\ UNCHANGED <<tokenHolder, tableVars, now, admitVars>>

\* The refund of reserved - actual; a negative delta debits the overrun.  The
\* rollback credit is computed from the balances the refund saw.
FinalizeRefund(c) ==
  LET r == crid[c] IN
  /\ Goto(c, "refund", "remove")
  /\ refund(r, between(reserved[r], cactual[c]))
  /\ clipped' = (clipped \/ Clipped(r, [d \in Dims |-> reserved[r][d] - cactual[c][d]]))
  /\ rollbackCredit' = [rollbackCredit EXCEPT ![r] =
       rollback_credit(reserved[r], balance[holder[r]], balance'[holder[r]])]
  /\ UNCHANGED <<tokenHolder, active, finalizing, expiresAt, finalized, now, admitVars>>

FinalizeRemove(c) ==
  /\ Goto(c, "remove", "record")
  /\ RemoveRecord(crid[c])
  /\ UNCHANGED <<accountVars, tokenHolder, expiresAt, finalized, rollbackCredit,
                 now, admitVars, ghostVars>>

FinalizeRecord(c) ==
  /\ Goto(c, "record", "finalized")
  /\ finalized' = finalized \cup {crid[c]}
  /\ UNCHANGED <<accountVars, tokenHolder, active, finalizing, expiresAt,
                 rollbackCredit, now, admitVars, ghostVars>>

-----------------------------------------------------------------------------
(* cancel guard, rollback and commit *)

\* ReservationCancelGuard::drop: take_reservation refuses a record that is
\* gone or being finalized, otherwise removes it ...
CancelTake(c, r) ==
  /\ r \in active \ finalizing
  /\ Call(c, r, "cancelling")
  /\ active' = active \ {r}
  /\ UNCHANGED <<cactual, accountVars, tokenHolder, finalizing, expiresAt,
                 finalized, rollbackCredit, now, admitVars, ghostVars>>

\* ... and credits the whole hold through refund_sync.
CancelRefund(c) ==
  /\ Goto(c, "cancelling", "cancelled")
  /\ refund(crid[c], full_credit(reserved[crid[c]]))
  /\ clipped' = (clipped \/ Clipped(crid[c], reserved[crid[c]]))
  /\ UNCHANGED <<tokenHolder, tableVars, now, admitVars>>

\* A RefundReceipt for r has been handed out.
HasReceipt(r) == \E c \in Calls : cpc[c] = "finalized" /\ crid[c] = r

\* rollback_finalization removes the finalized record first ...
RollbackTake(c, r) ==
  /\ HasReceipt(r)
  /\ r \in finalized
  /\ Call(c, r, "rolling")
  /\ finalized' = finalized \ {r}
  /\ UNCHANGED <<cactual, accountVars, tokenHolder, active, finalizing,
                 expiresAt, rollbackCredit, now, admitVars, ghostVars>>

\* (refused when there is none)
RollbackReject(c, r) ==
  /\ HasReceipt(r)
  /\ r \notin finalized
  /\ Call(c, r, "refused")
  /\ UNCHANGED <<cactual, accountVars, tokenHolder, tableVars, now, admitVars, ghostVars>>

\* ... and then credits what the finalize took.
RollbackRefund(c) ==
  /\ Goto(c, "rolling", "rolled")
  /\ refund(crid[c], full_credit(rollbackCredit[crid[c]]))
  /\ clipped' = (clipped \/ Clipped(crid[c], rollbackCredit[crid[c]]))
  /\ UNCHANGED <<tokenHolder, tableVars, now, admitVars>>

\* The receipt became durable: the rollback state is forgotten.
commit_finalization(r) ==
  /\ HasReceipt(r)
  /\ finalized' = finalized \ {r}
  /\ UNCHANGED <<accountVars, tokenHolder, active, finalizing, expiresAt,
                 rollbackCredit, now, admitVars, callVars, ghostVars>>

-----------------------------------------------------------------------------
AdmitStep(r) ==
  \/ AdmitCheck(r) \/ ReserveSnapshot(r) \/ ReserveCommit(r) \/ ReserveRetry(r)
  \/ AdmitInsert(r)

CallStep(c) ==
  \/ FinalizeExpiredRemove(c) \/ FinalizeExpiredRefund(c)
  \/ FinalizeRefund(c) \/ FinalizeRemove(c) \/ FinalizeRecord(c)
  \/ CancelRefund(c) \/ RollbackRefund(c)

Next ==
  \/ Tick
  \/ \E t \in Tokens, h \in Holders : bind_token(t, h)
  \/ \E h \in Holders, add \in TopUps : provision_for(h, add)
  \/ \E r \in Rids, t \in Tokens, env \in Envelopes, p \in Providers :
       AdmitScreened(r, t, env, p) \/ AdmitResolve(r, t, env, p)
  \/ \E r \in Rids : AdmitStep(r)
  \/ \E r \in Rids : touch_reservation(r)
  \/ \E c \in Calls, r \in Rids, actual \in Actuals : FinalizeClaim(c, r, actual)
  \/ \E c \in Calls, r \in Rids :
       \/ FinalizeReject(c, r) \/ CancelTake(c, r)
       \/ RollbackTake(c, r) \/ RollbackReject(c, r)
  \/ \E c \in Calls : CallStep(c)
  \/ \E r \in Rids : commit_finalization(r)

Spec == Init /\ [][Next]_vars

\* Every thread that entered the gate keeps running: admit and the settling
\* calls have no await point that can stay pending (the store is in memory).
Fairness ==
  /\ \A r \in Rids : WF_vars(AdmitStep(r))
  /\ \A c \in Calls : WF_vars(CallStep(c))

FairSpec == Spec /\ Fairness

-----------------------------------------------------------------------------
(* Correctness *)

\* The points at which a call has taken charge of settling its reservation.
SettlingPc == {"expired", "releasing", "released", "refund", "remove", "record",
               "finalized", "cancelling", "cancelled"}

Settles(c, r) == crid[c] = r /\ cpc[c] \in SettlingPc

\* However finalize calls, the cancel guard and each other race, exactly one
\* call settles a reservation, and at most one rollback of it is accepted
\* (finalize's claim under the write lock, ARD-448; take_reservation refusing a
\* finalizing record; rollback_finalization removing the record first).
SettledByOne ==
  \A r \in Rids : \A c1, c2 \in Calls :
    /\ Settles(c1, r) /\ Settles(c2, r) => c1 = c2
    /\ crid[c1] = r /\ cpc[c1] \in {"rolling", "rolled"}
       /\ crid[c2] = r /\ cpc[c2] \in {"rolling", "rolled"} => c1 = c2

CallAt(r, points) == \E c \in Calls : crid[c] = r /\ cpc[c] \in points

\* Where a reservation's envelope is out of its holder's balance ...
Held(r) ==
  \/ pc[r] = "insert"
  \/ pc[r] = "admitted" /\ ~CallAt(r, SettlingPc)
  \/ CallAt(r, {"expired", "releasing", "refund", "cancelling"})

\* ... and where nothing of it is.
Restored(r) ==
  \/ pc[r] \notin {"insert", "admitted"}
  \/ CallAt(r, {"released", "cancelled", "rolled"})

\* What a reservation has taken from its holder is exact at every point: the
\* envelope while it is held; nothing before it is committed and after it was
\* released, cancelled or rolled back (even when the finalize's overrun was
\* clamped at a zero balance); and once finalized never more than the actual
\* cost.  The only exception is a credit that u64::MAX or i64::MAX cuts short.
ExactCharge ==
  \A r \in Rids : \A d \in Dims :
    /\ Held(r) => net[r][d] = reserved[r][d]
    /\ ~clipped /\ Restored(r) => net[r][d] = 0
    /\ ~clipped => \A c \in Calls :
         crid[c] = r /\ cpc[c] \in {"remove", "record", "finalized"}
           => net[r][d] <= cactual[c][d]

\* What a reservation accounts for: its envelope while held, what its finalize
\* took until that is rolled back, nothing otherwise.
Accounted(r) ==
  IF Held(r) THEN reserved[r] ELSE IF Restored(r) THEN ZERO ELSE rollbackCredit[r]

\* Nothing is created or lost: what a holder was given is what is left of it
\* plus what its reservations account for, over every interleaving of admits,
\* finalizes, releases, rollbacks and top-ups (short of a clipped credit).
Conservation ==
  ~clipped => \A h \in Holders : \A d \in Dims :
    granted[h][d] = balance[h][d]
      + SumFunctionOnSet([r \in Rids |-> Accounted(r)[d]], {r \in Rids : holder[r] = h})

\* A hold is always against an account the store has, so the HolderNotFound
\* arms of refund and refund_sync (which would lose the credit) are dead.
HoldHasAccount ==
  \A r \in Rids : pc[r] \in {"snapshot", "commit", "insert", "admitted"} => holder[r] \in known

\* A record a finalize has claimed leaves the table (try_reserve and refund
\* never block), so no reservation is stranded with finalizing set.
ClaimsComplete == \A r \in Rids : r \in finalizing ~> r \notin active

\* Every admit call is answered: the optimistic try_reserve loop terminates.
AdmitAnswers ==
  \A r \in Rids : pc[r] = "check" ~> pc[r] \in {"admitted", "refused"}

\* The inductive strengthening.  Control: who may be where on a reservation.
ControlInv ==
  /\ \A r \in active : pc[r] = "admitted"
  /\ \A c \in Calls : cpc[c] # "idle" => crid[c] \in Rids /\ pc[crid[c]] = "admitted"
  /\ \A c \in Calls : cpc[c] \in {"expired", "refund", "remove"} => crid[c] \in finalizing
  /\ \A c \in Calls :
       cpc[c] \in {"releasing", "released", "record", "finalized", "cancelling", "cancelled"}
         => crid[c] \notin active
  /\ \A r \in finalized : \E c \in Calls : crid[c] = r /\ cpc[c] = "finalized"
  /\ \A c \in Calls : cpc[c] \in {"rolling", "rolled"} =>
       /\ crid[c] \notin finalized
       /\ \E c2 \in Calls : crid[c2] = crid[c] /\ cpc[c2] = "finalized"

\* Versions: a snapshot whose version is current is the current balance.
SnapshotInv ==
  \A r \in Rids :
    /\ pc[r] \notin {"idle", "refused"} => holder[r] \in Holders
    /\ pc[r] = "commit" =>
         /\ covers(snapshot[r].balance, reserved[r])
         /\ snapshot[r].version <= version[holder[r]]
         /\ snapshot[r].version = version[holder[r]] => snapshot[r].balance = balance[holder[r]]

\* Money: a reservation that is not committed yet took nothing, and the rollback
\* credit kept for a finalized one is what it took.
CreditInv ==
  \A r \in Rids : \A d \in Dims :
    /\ pc[r] \notin {"insert", "admitted"} => net[r][d] = 0
    /\ (\/ CallAt(r, {"remove", "record", "rolling"})
        \/ CallAt(r, {"finalized"}) /\ ~CallAt(r, {"rolled"}))
         => net[r][d] = rollbackCredit[r][d]

IInv == TypeOK /\ ControlInv /\ SettledByOne /\ HoldHasAccount /\ SnapshotInv
        /\ CreditInv /\ ExactCharge
=============================================================================
