--------------------------- MODULE CostGateProofs ---------------------------
(***************************************************************************)
(* Proofs about CostGate for every number of holders, reservations and     *)
(* settling calls, every clock bound and every integer width allowed by    *)
(* WidthAssumption.  IInv is the inductive invariant; each action of the   *)
(* gate has one lemma that says it preserves IInv.  Conservation adds up   *)
(* all reservations, so it needs the lemmas of SumProofs about sums and a  *)
(* finite set of reservation ids.                                          *)
(***************************************************************************)
EXTENDS CostGate, SumProofs

-----------------------------------------------------------------------------
(* The arithmetic *)

\* ZERO is a tuple and an envelope.
LEMMA ZeroType == ZERO \in CostTuple /\ ZERO \in CostEnvelope
  BY WidthAssumption DEF ZERO, CostTuple, CostEnvelope

\* An envelope is a small tuple (CostTuple::from_envelope widens u32 to u64).
LEMMA EnvelopeIsTuple ==
  ASSUME NEW e \in CostEnvelope
  PROVE  e \in CostTuple
  BY WidthAssumption DEF CostEnvelope, CostTuple

\* CostDelta::between stays within an i64.
LEMMA BetweenType ==
  ASSUME NEW a \in CostTuple, NEW b \in CostTuple
  PROVE  between(a, b) \in CostDelta
  BY WidthAssumption DEF CostTuple, CostDelta, between, Clamp

\* CostTuple::apply_delta stays within a u64.
LEMMA ApplyType ==
  ASSUME NEW base \in CostTuple, NEW delta \in CostDelta
  PROVE  apply_delta(base, delta) \in CostTuple
  BY WidthAssumption DEF CostTuple, CostDelta, apply_delta, Clamp

\* A full credit that no width cuts short is added exactly.
LEMMA CreditExact ==
  ASSUME NEW base \in CostTuple, NEW amount \in CostTuple, NEW d \in Dims,
         amount[d] <= I64Max, base[d] + amount[d] <= U64Max
  PROVE  apply_delta(base, full_credit(amount))[d] = base[d] + amount[d]
  BY WidthAssumption DEF CostTuple, apply_delta, full_credit, between, ZERO, Clamp

\* What a finalize records for its rollback is what it took: the hold less what
\* its refund returned, with no clamping in rollback_credit itself.
LEMMA RollbackCreditExact ==
  ASSUME NEW res \in CostEnvelope, NEW base \in CostTuple, NEW actual \in CostTuple,
         NEW d \in Dims
  PROVE  LET after == apply_delta(base, between(res, actual))
         IN  rollback_credit(res, base, after)[d] = res[d] - (after[d] - base[d])
  BY WidthAssumption
     DEF CostTuple, CostEnvelope, apply_delta, between, rollback_credit, Clamp

\* rollback_credit stays within a u64.
LEMMA RollbackCreditType ==
  ASSUME NEW res \in CostEnvelope, NEW base \in CostTuple, NEW after \in CostTuple
  PROVE  rollback_credit(res, base, after) \in CostTuple
  BY WidthAssumption DEF CostTuple, CostEnvelope, rollback_credit, Clamp

\* A finalize whose refund is not cut short takes at most the actual cost.
LEMMA ChargeAtMostActual ==
  ASSUME NEW res \in CostEnvelope, NEW base \in CostTuple, NEW actual \in CostTuple,
         NEW d \in Dims,
         base[d] + (res[d] - actual[d]) <= U64Max
  PROVE  res[d] - (apply_delta(base, between(res, actual))[d] - base[d]) <= actual[d]
  BY WidthAssumption DEF CostTuple, CostEnvelope, apply_delta, between, Clamp

-----------------------------------------------------------------------------
(* The inductive invariant *)

\* The initial state: no hold, no call, no charge.
LEMMA InitIInv == Init => IInv
<1> SUFFICES ASSUME Init PROVE IInv
  OBVIOUS
<1> USE ZeroType, GateAssumption DEF Init
<1>1. TypeOK
  <2>1. balance \in [Holders -> CostTuple]
    OBVIOUS
  <2>2. granted \in [Holders -> [Dims -> Nat]]
    BY <2>1, WidthAssumption DEF CostTuple
  <2>3. net \in [Rids -> [Dims -> Int]]
    BY DEF ZERO
  <2> QED
    BY <2>1, <2>2, <2>3 DEF TypeOK, AdmitPc, CallPc
<1>2. ControlInv
  BY DEF ControlInv
<1>3. SettledByOne /\ HoldHasAccount /\ SnapshotInv
  BY DEF SettledByOne, Settles, SettlingPc, HoldHasAccount, SnapshotInv
<1>4. CreditInv
  BY DEF CreditInv, CallAt, ZERO
<1>5. ExactCharge
  BY DEF ExactCharge, CallAt, Held, Restored, SettlingPc, ZERO
<1> QED
  BY <1>1, <1>2, <1>3, <1>4, <1>5 DEF IInv

\* The variables the control part of the invariant reads, and those of the money.
controlVars == <<active, finalizing, finalized, pc, cpc, crid>>
moneyVars == <<net, rollbackCredit, clipped, cactual, holder, reserved>>

\* A step that leaves the control state alone keeps its invariants.
LEMMA ControlFrame ==
  ASSUME IInv, UNCHANGED controlVars
  PROVE  ControlInv' /\ SettledByOne'
  BY DEF IInv, controlVars, ControlInv, SettledByOne, Settles

\* A step that leaves the control state and the charges alone keeps theirs.
LEMMA MoneyFrame ==
  ASSUME IInv, UNCHANGED controlVars, UNCHANGED moneyVars
  PROVE  CreditInv' /\ ExactCharge'
  BY DEF IInv, controlVars, moneyVars, CreditInv, ExactCharge, CallAt, Held, Restored

\* A step that moves versions only forward, and no balance without its version,
\* keeps what pending snapshots rely on.
LEMMA SnapshotFrame ==
  ASSUME IInv, UNCHANGED <<pc, holder, reserved, snapshot>>, known \subseteq known',
         version' \in [Holders -> Nat],
         \A g \in Holders : /\ version'[g] >= version[g]
                            /\ version'[g] = version[g] => balance'[g] = balance[g]
  PROVE  HoldHasAccount' /\ SnapshotInv'
<1>1. HoldHasAccount'
  BY DEF IInv, HoldHasAccount
<1>2. SnapshotInv'
  <2> SUFFICES ASSUME NEW r \in Rids
               PROVE  SnapshotInv!(r)'
    BY DEF SnapshotInv
  <2>1. SnapshotInv!(r)
    BY DEF IInv, SnapshotInv
  <2>2. pc[r] = "commit" => snapshot[r].version \in Nat /\ version[holder[r]] \in Nat
    BY <2>1 DEF IInv, TypeOK
  <2> QED
    BY <2>1, <2>2 DEF covers
<1> QED
  BY <1>1, <1>2

\* Stuttering, the clock, binding a token and renewing a lease touch none of it.
LEMMA QuietStep ==
  ASSUME IInv,
         \/ UNCHANGED vars
         \/ Tick
         \/ \E t \in Tokens, h \in Holders : bind_token(t, h)
         \/ \E r \in Rids : touch_reservation(r)
  PROVE  IInv'
<1>1. /\ UNCHANGED controlVars /\ UNCHANGED moneyVars
      /\ UNCHANGED <<known, balance, version, snapshot>>
  BY DEF vars, Tick, bind_token, touch_reservation, controlVars, moneyVars, accountVars,
         tableVars, admitVars, callVars, ghostVars
<1>2. TypeOK'
  <2> USE GateAssumption DEF IInv, TypeOK, accountVars, tableVars, admitVars, callVars, ghostVars
  <2>1. CASE UNCHANGED vars
    BY <2>1 DEF vars
  <2>2. CASE Tick
    BY <2>2 DEF Tick
  <2>3. ASSUME NEW t \in Tokens, NEW h \in Holders, bind_token(t, h)
        PROVE  TypeOK'
    BY <2>3 DEF bind_token
  <2>4. ASSUME NEW r \in Rids, touch_reservation(r)
        PROVE  TypeOK'
    BY <2>4 DEF touch_reservation
  <2> QED
    BY <2>1, <2>2, <2>3, <2>4
<1>3. HoldHasAccount' /\ SnapshotInv'
  BY <1>1 DEF IInv, HoldHasAccount, SnapshotInv, controlVars, moneyVars
<1> QED
  BY <1>1, <1>2, <1>3, ControlFrame, MoneyFrame DEF IInv


\* Provisioning raises a balance and its version together.
LEMMA ProvisionStep ==
  ASSUME IInv, NEW h \in Holders, NEW add \in TopUps, provision_for(h, add)
  PROVE  IInv'
<1> DEFINE merged == saturating_add(balance[h], add)
<1> USE DEF tableVars, admitVars, callVars
<1>1. merged \in CostTuple /\ \A d \in Dims : merged[d] >= balance[h][d]
  BY WidthAssumption, GateAssumption DEF IInv, TypeOK, CostTuple, saturating_add, Clamp
<1>2. TypeOK'
  <2>1. CASE over(merged, ProvisionCap)
    BY <2>1 DEF IInv, TypeOK, provision_for
  <2>2. CASE ~over(merged, ProvisionCap)
    <3>1. /\ balance' = [balance EXCEPT ![h] = merged]
          /\ version' = [version EXCEPT ![h] = @ + 1]
          /\ granted' = [granted EXCEPT ![h] =
                 [d \in Dims |-> @[d] + (merged[d] - balance[h][d])]]
      BY <2>2 DEF provision_for
    <3>2. granted' \in [Holders -> [Dims -> Nat]]
      BY <3>1, <1>1 DEF IInv, TypeOK, CostTuple
    <3>3. /\ known' = known \cup {h} /\ topUps' = topUps + 1
          /\ UNCHANGED <<tokenHolder, active, finalizing, expiresAt, finalized,
                         rollbackCredit, now, pc, snapshot, holder, reserved, cpc,
                         crid, cactual, net, clipped>>
      BY DEF provision_for
    <3>4. balance' \in [Holders -> CostTuple] /\ version' \in [Holders -> Nat]
      <4> HIDE DEF merged
      <4> QED
        BY <3>1, <1>1 DEF IInv, TypeOK
    <3>5. known' \subseteq Holders /\ topUps' \in Nat
      BY <3>3 DEF IInv, TypeOK
    <3> HIDE DEF merged
    <3> QED
      BY <3>2, <3>3, <3>4, <3>5 DEF IInv, TypeOK
  <2> QED
    BY <2>1, <2>2
<1>3. UNCHANGED controlVars /\ UNCHANGED moneyVars
  BY DEF provision_for, controlVars, moneyVars
<1>4. HoldHasAccount' /\ SnapshotInv'
  <2>1. \A g \in Holders : /\ version'[g] >= version[g]
                           /\ version'[g] = version[g] => balance'[g] = balance[g]
    <3>1. /\ balance \in [Holders -> CostTuple] /\ version \in [Holders -> Nat]
          /\ \/ UNCHANGED <<balance, version>>
             \/ /\ balance' = [balance EXCEPT ![h] = merged]
                /\ version' = [version EXCEPT ![h] = @ + 1]
      BY DEF IInv, TypeOK, provision_for
    <3> HIDE DEF merged
    <3> QED
      BY <3>1
  <2> QED
    BY <1>2, <2>1, SnapshotFrame DEF provision_for, TypeOK
<1> QED
  BY <1>2, <1>3, <1>4, ControlFrame, MoneyFrame DEF IInv

\* An admit call that has not taken the hold yet has no record and no settling
\* call, so what it does to its own locals disturbs neither part.
LEMMA EarlyAdmit ==
  ASSUME IInv, NEW r \in Rids, NEW p \in AdmitPc \ {"insert", "admitted"},
         pc[r] \notin {"insert", "admitted"},
         pc' = [pc EXCEPT ![r] = p],
         \A q \in Rids \ {r} : reserved'[q] = reserved[q],
         UNCHANGED <<active, finalizing, finalized, cpc, crid, cactual, net,
                     rollbackCredit, clipped>>
  PROVE  ControlInv' /\ SettledByOne' /\ CreditInv' /\ ExactCharge'
<1> USE DEF IInv, TypeOK
<1>1. ControlInv'
  BY DEF ControlInv
<1>2. SettledByOne'
  BY DEF SettledByOne, Settles
<1>3. \A q \in Rids : \A S : CallAt(q, S)' <=> CallAt(q, S)
  BY DEF CallAt
<1>4. \A S : "idle" \notin S => ~CallAt(r, S)
  BY DEF CallAt, ControlInv
<1>5. CreditInv'
  BY <1>3 DEF CreditInv
<1>6. \A q \in Rids \ {r} : (Held(q)' <=> Held(q)) /\ (Restored(q)' <=> Restored(q))
  BY <1>3 DEF Held, Restored
<1>7. ~Held(r)' /\ Restored(r)
  BY <1>3, <1>4 DEF Held, Restored, SettlingPc
<1>8. ExactCharge'
  BY <1>6, <1>7 DEF ExactCharge
<1> QED
  BY <1>1, <1>2, <1>5, <1>8

\* Stages 1 and 2 of admit.
LEMMA ScreenStep ==
  ASSUME IInv, NEW r \in Rids, NEW t \in Tokens, NEW env \in Envelopes, NEW p \in Providers,
         AdmitScreened(r, t, env, p) \/ AdmitResolve(r, t, env, p)
  PROVE  IInv'
<1> USE DEF accountVars, tableVars, callVars, ghostVars
<1>1. PICK q \in {"refused", "check"} : pc' = [pc EXCEPT ![r] = q]
  BY DEF AdmitScreened, AdmitResolve
<1>2. ControlInv' /\ SettledByOne' /\ CreditInv' /\ ExactCharge'
  <2>1. \A x \in Rids \ {r} : reserved'[x] = reserved[x]
    BY DEF AdmitScreened, AdmitResolve, IInv, TypeOK
  <2> QED
    BY <1>1, <2>1, EarlyAdmit DEF AdmitScreened, AdmitResolve, AdmitPc
<1>3. TypeOK'
  <2> USE GateAssumption DEF IInv, TypeOK, AdmitPc
  <2>1. CASE AdmitScreened(r, t, env, p)
    BY <2>1 DEF AdmitScreened
  <2>2. CASE AdmitResolve(r, t, env, p)
    BY <2>2 DEF AdmitResolve
  <2> QED
    BY <2>1, <2>2
<1>4. HoldHasAccount' /\ SnapshotInv'
  <2> USE DEF IInv, TypeOK, HoldHasAccount, SnapshotInv
  <2>1. CASE AdmitScreened(r, t, env, p)
    BY <2>1 DEF AdmitScreened
  <2>2. CASE AdmitResolve(r, t, env, p)
    BY <2>2 DEF AdmitResolve
  <2> QED
    BY <2>1, <2>2
<1> QED
  BY <1>2, <1>3, <1>4 DEF IInv


\* The balance pre-check and the optimistic read of try_reserve.
LEMMA CheckStep ==
  ASSUME IInv, NEW r \in Rids,
         AdmitCheck(r) \/ ReserveSnapshot(r) \/ ReserveRetry(r)
  PROVE  IInv'
<1> USE DEF accountVars, tableVars, callVars, ghostVars
<1>1. PICK next \in {"refused", "snapshot", "commit"} : pc' = [pc EXCEPT ![r] = next]
  BY DEF AdmitCheck, ReserveSnapshot, ReserveRetry
<1>2. ControlInv' /\ SettledByOne' /\ CreditInv' /\ ExactCharge'
  BY <1>1, EarlyAdmit DEF AdmitCheck, ReserveSnapshot, ReserveRetry, AdmitPc
<1>3. holder[r] \in Holders
  BY DEF IInv, SnapshotInv, AdmitCheck, ReserveSnapshot, ReserveRetry
<1>4. TypeOK'
  <2> USE DEF IInv, TypeOK, AdmitPc
  <2>1. CASE AdmitCheck(r) \/ ReserveRetry(r)
    BY <1>1, <2>1 DEF AdmitCheck, ReserveRetry
  <2>2. CASE ReserveSnapshot(r)
    <3>1. snapshot' \in [Rids -> [balance : CostTuple, version : Nat]]
      BY <1>3, <2>2 DEF ReserveSnapshot
    <3> QED
      BY <1>1, <2>2, <3>1 DEF ReserveSnapshot
  <2> QED
    BY <2>1, <2>2
<1>5. HoldHasAccount' /\ SnapshotInv'
  <2> USE <1>3 DEF IInv, TypeOK, HoldHasAccount, SnapshotInv
  <2>1. CASE AdmitCheck(r)
    BY <2>1 DEF AdmitCheck
  <2>2. CASE ReserveSnapshot(r)
    <3>1. CASE covers(balance[holder[r]], reserved[r])
      <4>1. snapshot'[r] = [balance |-> balance[holder[r]], version |-> version[holder[r]]]
        BY <2>2, <3>1 DEF ReserveSnapshot
      <4>2. \A q \in Rids \ {r} : snapshot'[q] = snapshot[q] /\ pc'[q] = pc[q]
        BY <2>2, <3>1 DEF ReserveSnapshot
      <4>3. UNCHANGED <<known, balance, version, holder, reserved>> /\ pc[r] = "snapshot"
        BY <2>2 DEF ReserveSnapshot
      <4>4. pc'[r] = "commit"
        BY <2>2, <3>1 DEF ReserveSnapshot
      <4>5. HoldHasAccount'
        BY <4>2, <4>3, <4>4
      <4>6. SnapshotInv'
        <5> SUFFICES ASSUME NEW q \in Rids
                     PROVE  SnapshotInv!(q)'
          OBVIOUS
        <5>1. CASE q = r
          BY <5>1, <3>1, <4>1, <4>3, <4>4 DEF covers
        <5>2. CASE q # r
          <6>1. SnapshotInv!(q)
            OBVIOUS
          <6> HIDE DEF SnapshotInv, IInv, TypeOK
          <6> QED
            BY <5>2, <6>1, <4>2, <4>3 DEF covers
        <5> QED
          BY <5>1, <5>2
      <4> QED
        BY <4>5, <4>6
    <3>2. CASE ~covers(balance[holder[r]], reserved[r])
      BY <2>2, <3>2 DEF ReserveSnapshot
    <3> QED
      BY <3>1, <3>2
  <2>3. CASE ReserveRetry(r)
    BY <2>3 DEF ReserveRetry
  <2> QED
    BY <2>1, <2>2, <2>3
<1> QED
  BY <1>2, <1>4, <1>5 DEF IInv

\* The optimistic commit: an unchanged version means an unchanged balance, so
\* exactly the envelope leaves the account.
LEMMA CommitStep ==
  ASSUME IInv, NEW r \in Rids, ReserveCommit(r)
  PROVE  IInv'
<1> DEFINE h == holder[r]
           post == minus(snapshot[r].balance, reserved[r])
<1> USE DEF tableVars, callVars
<1>1. /\ h \in Holders
      /\ pc[r] = "commit"
      /\ snapshot[r].balance = balance[h]
      /\ covers(balance[h], reserved[r])
  BY DEF IInv, SnapshotInv, ReserveCommit
<1>2. post \in CostTuple /\ \A d \in Dims : post[d] = balance[h][d] - reserved[r][d]
  BY <1>1, WidthAssumption DEF IInv, TypeOK, minus, covers, CostTuple, CostEnvelope
<1>3. /\ balance' = [balance EXCEPT ![h] = post]
      /\ version' = [version EXCEPT ![h] = @ + 1]
      /\ pc' = [pc EXCEPT ![r] = "insert"]
      /\ net' = [net EXCEPT ![r] =
           [d \in Dims |-> net[r][d] + (balance[h][d] - balance'[h][d])]]
      /\ UNCHANGED <<known, tokenHolder, active, finalizing, expiresAt, finalized,
                     rollbackCredit, now, snapshot, holder, reserved, cpc, crid,
                     cactual, topUps, granted, clipped>>
  BY DEF ReserveCommit
<1> HIDE DEF post
<1>4. \A d \in Dims : net'[r][d] = reserved[r][d]
  <2>1. balance'[h] = post
    BY <1>1, <1>3 DEF IInv, TypeOK
  <2>2. \A d \in Dims : net[r][d] = 0
    BY <1>1 DEF IInv, CreditInv
  <2>3. \A d \in Dims : net'[r][d] = net[r][d] + (balance[h][d] - post[d])
    BY <1>3, <2>1 DEF IInv, TypeOK
  <2>4. \A d \in Dims : balance[h][d] \in Int /\ reserved[r][d] \in Int
    BY <1>1 DEF IInv, TypeOK, CostTuple, CostEnvelope
  <2> QED
    BY <1>2, <2>2, <2>3, <2>4
<1>5. TypeOK'
  <2>1. balance' \in [Holders -> CostTuple] /\ balance'[h] \in CostTuple
    BY <1>1, <1>2, <1>3 DEF IInv, TypeOK
  <2>2. net' \in [Rids -> [Dims -> Int]]
    BY <1>1, <1>3, <2>1 DEF IInv, TypeOK, CostTuple
  <2> QED
    BY <1>1, <1>3, <2>1, <2>2 DEF IInv, TypeOK, AdmitPc
<1>6. ControlInv' /\ SettledByOne'
  BY <1>1, <1>3 DEF IInv, TypeOK, ControlInv, SettledByOne, Settles
<1>7. HoldHasAccount'
  BY <1>1, <1>3 DEF IInv, TypeOK, HoldHasAccount
<1>8. SnapshotInv'
  BY <1>1, <1>3 DEF IInv, TypeOK, SnapshotInv
<1>9. /\ \A q \in Rids : \A S : CallAt(q, S)' <=> CallAt(q, S)
      /\ \A S : "idle" \notin S => ~CallAt(r, S)
  BY <1>1, <1>3 DEF CallAt, IInv, ControlInv
<1>10. \A q \in Rids \ {r} : pc'[q] = pc[q] /\ net'[q] = net[q]
  BY <1>3 DEF IInv, TypeOK
<1>11. CreditInv'
  <2> SUFFICES ASSUME NEW q \in Rids, NEW d \in Dims
               PROVE  CreditInv!(q)!(d)'
    BY DEF CreditInv
  <2>1. CASE q = r
    BY <2>1, <1>3, <1>9 DEF IInv, TypeOK
  <2>2. CASE q # r
    BY <2>2, <1>3, <1>9, <1>10 DEF IInv, CreditInv
  <2> QED
    BY <2>1, <2>2
<1>12. ExactCharge'
  <2>1. \A q \in Rids \ {r} : (Held(q)' <=> Held(q)) /\ (Restored(q)' <=> Restored(q))
    BY <1>9, <1>10 DEF Held, Restored
  <2>2. ~Restored(r)'
    BY <1>1, <1>3, <1>9 DEF Restored, IInv, TypeOK
  <2>3. \A c \in Calls : ~(crid[c] = r /\ cpc[c] \in {"remove", "record", "finalized"})
    BY <1>9 DEF CallAt
  <2> QED
    BY <1>3, <1>4, <1>10, <2>1, <2>2, <2>3 DEF IInv, ExactCharge
<1> QED
  BY <1>5, <1>6, <1>7, <1>8, <1>11, <1>12 DEF IInv

\* The hold is recorded.
LEMMA InsertStep ==
  ASSUME IInv, NEW r \in Rids, AdmitInsert(r)
  PROVE  IInv'
<1> USE DEF accountVars, callVars, ghostVars
<1>1. TypeOK'
  BY GateAssumption DEF IInv, TypeOK, AdmitInsert, AdmitPc
<1>2. ControlInv' /\ SettledByOne'
  BY DEF IInv, TypeOK, ControlInv, SettledByOne, Settles, AdmitInsert
<1>3. HoldHasAccount' /\ SnapshotInv'
  BY DEF IInv, TypeOK, HoldHasAccount, SnapshotInv, AdmitInsert
<1>4. /\ \A q \in Rids : \A S : CallAt(q, S)' <=> CallAt(q, S)
      /\ \A S : "idle" \notin S => ~CallAt(r, S)
  BY DEF CallAt, IInv, ControlInv, AdmitInsert
<1>5. CreditInv'
  BY <1>4 DEF IInv, TypeOK, CreditInv, AdmitInsert
<1>6. ExactCharge'
  <2>1. \A q \in Rids : (Held(q)' <=> Held(q)) /\ (Restored(q)' <=> Restored(q))
    BY <1>4 DEF Held, Restored, AdmitInsert, SettlingPc, IInv, TypeOK
  <2> QED
    BY <2>1 DEF IInv, ExactCharge, AdmitInsert
<1> QED
  BY <1>1, <1>2, <1>3, <1>5, <1>6 DEF IInv


-----------------------------------------------------------------------------
(* Settling calls *)

\* A settling step leaves the admit calls' locals alone.
LEMMA CallFrame ==
  ASSUME IInv, UNCHANGED <<known, balance, version, pc, snapshot, holder, reserved>>
  PROVE  HoldHasAccount' /\ SnapshotInv'
  BY SnapshotFrame DEF IInv, TypeOK

\* A step of call c on reservation r leaves the charges of the others exact.
LEMMA OtherCharges ==
  ASSUME IInv, NEW c \in Calls, NEW r \in Rids, NEW p,
         cpc' = [cpc EXCEPT ![c] = p],
         crid' = [crid EXCEPT ![c] = r],
         cpc[c] = "idle" \/ crid[c] = r,
         UNCHANGED <<pc, reserved>>,
         \A q \in Rids \ {r} : net'[q] = net[q] /\ rollbackCredit'[q] = rollbackCredit[q],
         \A e \in Calls \ {c} : cactual'[e] = cactual[e],
         clipped => clipped'
  PROVE  \A q \in Rids \ {r}, d \in Dims :
           CreditInv!(q)!(d)' /\ ExactCharge!(q)!(d)'
<1> SUFFICES ASSUME NEW q \in Rids \ {r}, NEW d \in Dims
             PROVE  CreditInv!(q)!(d)' /\ ExactCharge!(q)!(d)'
  OBVIOUS
<1>1. /\ cpc'[c] = p /\ crid'[c] = r
      /\ \A e \in Calls \ {c} : cpc'[e] = cpc[e] /\ crid'[e] = crid[e]
  BY DEF IInv, TypeOK
<1>2. \A S : "idle" \notin S => (CallAt(q, S)' <=> CallAt(q, S))
  BY <1>1 DEF CallAt
<1>3. CreditInv!(q)!(d) /\ ExactCharge!(q)!(d)
  BY DEF IInv, CreditInv, ExactCharge
<1>4. CreditInv!(q)!(d)'
  BY <1>2, <1>3
<1>5. (Held(q)' <=> Held(q)) /\ (Restored(q)' <=> Restored(q))
  BY <1>2 DEF Held, Restored, SettlingPc
<1>6. ExactCharge!(q)!(d)'
  BY <1>1, <1>3, <1>5
<1> QED
  BY <1>4, <1>6

\* The claim of finalize: it becomes the one settler, nothing moves yet.
LEMMA ClaimStep ==
  ASSUME IInv, NEW c \in Calls, NEW r \in Rids, NEW actual \in Actuals,
         FinalizeClaim(c, r, actual)
  PROVE  IInv'
<1> USE DEF accountVars, admitVars, ghostVars
<1>1. PICK p \in {"expired", "refund"} :
        /\ cpc' = [cpc EXCEPT ![c] = p]
        /\ crid' = [crid EXCEPT ![c] = r]
        /\ cpc[c] = "idle" /\ pc[r] = "admitted"
        /\ r \in active /\ r \notin finalizing
        /\ finalizing' = finalizing \cup {r}
        /\ cactual' = [cactual EXCEPT ![c] = actual]
        /\ UNCHANGED <<known, balance, version, tokenHolder, active, expiresAt,
                       finalized, rollbackCredit, now, pc, snapshot, holder,
                       reserved, topUps, granted, net, clipped>>
  BY DEF FinalizeClaim, Call
<1>2. TypeOK'
  BY <1>1, GateAssumption DEF IInv, TypeOK, CallPc
<1>3. ~CallAt(r, SettlingPc)
  BY <1>1 DEF IInv, ControlInv, CallAt, SettlingPc
<1>4. ControlInv'
  BY <1>1, <1>3 DEF IInv, TypeOK, ControlInv
<1>5. SettledByOne'
  BY <1>1, <1>3 DEF IInv, TypeOK, SettledByOne, Settles, CallAt, SettlingPc
<1>6. HoldHasAccount' /\ SnapshotInv'
  BY <1>1, CallFrame
<1>7. CreditInv' /\ ExactCharge'
  <2>1. \A e \in Calls : crid'[e] = r => e = c \/ cpc'[e] \in {"idle", "refused"}
    BY <1>1, <1>3 DEF IInv, TypeOK, ControlInv, CallAt, SettlingPc, CallPc
  <2>2. \A d \in Dims : net'[r][d] = reserved'[r][d] /\ net[r] = net'[r]
    BY <1>1, <1>3 DEF IInv, ExactCharge, Held
  <2>3. cpc'[c] = p /\ pc'[r] = "admitted"
    BY <1>1 DEF IInv, TypeOK
  <2>4. \A d \in Dims : CreditInv!(r)!(d)'
    BY <2>1, <2>3 DEF CallAt
  <2>5. \A d \in Dims : ExactCharge!(r)!(d)'
    BY <2>1, <2>2, <2>3 DEF CallAt, Restored
  <2>6. \A q \in Rids \ {r}, d \in Dims : CreditInv!(q)!(d)' /\ ExactCharge!(q)!(d)'
    BY <1>1, OtherCharges DEF IInv, TypeOK
  <2> QED
    BY <2>4, <2>5, <2>6 DEF CreditInv, ExactCharge
<1> QED
  BY <1>2, <1>4, <1>5, <1>6, <1>7 DEF IInv


\* A settling call that has not finished a finalize is alone on its reservation.
LEMMA Alone ==
  ASSUME IInv, NEW c \in Calls, cpc[c] \in SettlingPc \ {"finalized"}
  PROVE  /\ crid[c] \in Rids /\ pc[crid[c]] = "admitted"
         /\ holder[crid[c]] \in Holders /\ holder[crid[c]] \in known
         /\ crid[c] \notin finalized
         /\ \A e \in Calls \ {c} : crid[e] = crid[c] => cpc[e] \in {"idle", "refused"}
<1>1. crid[c] \in Rids /\ pc[crid[c]] = "admitted"
  BY DEF IInv, ControlInv, SettlingPc
<1>2. holder[crid[c]] \in Holders /\ holder[crid[c]] \in known
  BY <1>1 DEF IInv, SnapshotInv, HoldHasAccount
<1>3. \A e \in Calls \ {c} : crid[e] = crid[c] => cpc[e] \notin SettlingPc
  BY <1>1 DEF IInv, SettledByOne, Settles
<1>4. \A e \in Calls \ {c} : crid[e] = crid[c] => cpc[e] \in {"idle", "refused"}
  <2> SUFFICES ASSUME NEW e \in Calls \ {c}, crid[e] = crid[c]
               PROVE  cpc[e] \in {"idle", "refused"}
    OBVIOUS
  <2>1. cpc[e] \notin {"rolling", "rolled"}
    <3> SUFFICES ASSUME cpc[e] \in {"rolling", "rolled"} PROVE FALSE
      OBVIOUS
    <3>1. PICK x \in Calls : crid[x] = crid[c] /\ cpc[x] = "finalized"
      BY DEF IInv, ControlInv
    <3> QED
      BY <3>1, <1>3 DEF SettlingPc
  <2>2. cpc[e] \in CallPc /\ cpc[e] \notin SettlingPc
    BY <1>3 DEF IInv, TypeOK
  <2> QED
    BY <2>1, <2>2 DEF CallPc, SettlingPc
<1>5. crid[c] \notin finalized
  BY <1>3 DEF IInv, ControlInv, SettlingPc
<1> QED
  BY <1>1, <1>2, <1>4, <1>5

\* When call c is alone on its reservation, its own point decides the charge.
LEMMA AloneView ==
  ASSUME NEW c \in Calls, NEW r \in Rids, pc[r] = "admitted", crid[c] = r,
         cpc[c] \in SettlingPc,
         \A e \in Calls \ {c} : crid[e] = r => cpc[e] \in {"idle", "refused"}
  PROVE  /\ Held(r) <=> cpc[c] \in {"expired", "releasing", "refund", "cancelling"}
         /\ Restored(r) <=> cpc[c] \in {"released", "cancelled"}
         /\ (\/ CallAt(r, {"remove", "record", "rolling"})
             \/ CallAt(r, {"finalized"}) /\ ~CallAt(r, {"rolled"}))
              <=> cpc[c] \in {"remove", "record", "finalized"}
<1>1. \A S : "idle" \notin S /\ "refused" \notin S => (CallAt(r, S) <=> cpc[c] \in S)
  BY DEF CallAt
<1>2. CallAt(r, SettlingPc)
  BY DEF CallAt
<1> QED
  BY <1>1, <1>2 DEF Held, Restored, SettlingPc

\* The same of the next state.
LEMMA AloneViewNext ==
  ASSUME NEW c \in Calls, NEW r \in Rids, pc'[r] = "admitted", crid'[c] = r,
         cpc'[c] \in SettlingPc,
         \A e \in Calls \ {c} : crid'[e] = r => cpc'[e] \in {"idle", "refused"}
  PROVE  /\ Held(r)' <=> cpc'[c] \in {"expired", "releasing", "refund", "cancelling"}
         /\ Restored(r)' <=> cpc'[c] \in {"released", "cancelled"}
         /\ (\/ CallAt(r, {"remove", "record", "rolling"})
             \/ CallAt(r, {"finalized"}) /\ ~CallAt(r, {"rolled"}))'
              <=> cpc'[c] \in {"remove", "record", "finalized"}
<1>1. \A S : "idle" \notin S /\ "refused" \notin S => (CallAt(r, S)' <=> cpc'[c] \in S)
  BY DEF CallAt
<1>2. CallAt(r, SettlingPc)'
  BY DEF CallAt, SettlingPc
<1> QED
  BY <1>1, <1>2 DEF Held, Restored, SettlingPc

\* A refused finalize or rollback changes nothing but its own call.
LEMMA RejectStep ==
  ASSUME IInv, NEW c \in Calls, NEW r \in Rids,
         FinalizeReject(c, r) \/ RollbackReject(c, r)
  PROVE  IInv'
<1> USE DEF accountVars, tableVars, admitVars, ghostVars
<1>1. /\ cpc' = [cpc EXCEPT ![c] = "refused"]
      /\ crid' = [crid EXCEPT ![c] = r]
      /\ cpc[c] = "idle" /\ pc[r] = "admitted"
      /\ UNCHANGED <<known, balance, version, tokenHolder, active, finalizing, expiresAt,
                     finalized, rollbackCredit, now, pc, snapshot, holder, cactual,
                     reserved, topUps, granted, net, clipped>>
  BY DEF FinalizeReject, RollbackReject, Call
<1>2. TypeOK'
  BY <1>1 DEF IInv, TypeOK, CallPc
<1>3. ControlInv' /\ SettledByOne'
  BY <1>1 DEF IInv, TypeOK, ControlInv, SettledByOne, Settles, SettlingPc
<1>4. HoldHasAccount' /\ SnapshotInv'
  BY <1>1, CallFrame
<1>5. CreditInv' /\ ExactCharge'
  <2>1. \A S : "idle" \notin S /\ "refused" \notin S => (CallAt(r, S)' <=> CallAt(r, S))
    BY <1>1 DEF IInv, TypeOK, CallAt
  <2>2. \A d \in Dims : CreditInv!(r)!(d)'
    BY <1>1, <2>1 DEF IInv, CreditInv
  <2>3. (Held(r)' <=> Held(r)) /\ (Restored(r)' <=> Restored(r))
    BY <1>1, <2>1 DEF Held, Restored, SettlingPc
  <2>4. \A d \in Dims : ExactCharge!(r)!(d)'
    BY <1>1, <2>3 DEF IInv, TypeOK, ExactCharge
  <2>5. \A q \in Rids \ {r}, d \in Dims : CreditInv!(q)!(d)' /\ ExactCharge!(q)!(d)'
    BY <1>1, OtherCharges DEF IInv, TypeOK
  <2> QED
    BY <2>2, <2>4, <2>5 DEF CreditInv, ExactCharge
<1> QED
  BY <1>2, <1>3, <1>4, <1>5 DEF IInv

\* Removing a claimed record: from the expired branch, or after the refund.
LEMMA RemoveStep ==
  ASSUME IInv, NEW c \in Calls, FinalizeExpiredRemove(c) \/ FinalizeRemove(c)
  PROVE  IInv'
<1> USE DEF accountVars, admitVars, ghostVars
<1>0. PICK r \in Rids : r = crid[c]
  BY Alone DEF FinalizeExpiredRemove, FinalizeRemove, Goto, SettlingPc
<1>1. PICK p \in {"releasing", "record"} :
        /\ cpc[c] = IF p = "record" THEN "remove" ELSE "expired"
        /\ cpc' = [cpc EXCEPT ![c] = p]
        /\ active' = active \ {r} /\ finalizing' = finalizing \ {r}
        /\ UNCHANGED <<known, balance, version, tokenHolder, expiresAt, crid, cactual,
                       finalized, rollbackCredit, now, pc, snapshot, holder,
                       reserved, topUps, granted, net, clipped>>
  BY <1>0 DEF FinalizeExpiredRemove, FinalizeRemove, Goto, RemoveRecord
<1>2. /\ crid[c] = r /\ pc[r] = "admitted"
      /\ \A e \in Calls \ {c} : crid[e] = r => cpc[e] \in {"idle", "refused"}
  BY <1>0, <1>1, Alone DEF SettlingPc
<1>3. TypeOK'
  BY <1>1 DEF IInv, TypeOK, CallPc
<1>4. ControlInv'
  BY <1>1, <1>2 DEF IInv, TypeOK, ControlInv
<1>5. SettledByOne'
  BY <1>1, <1>2 DEF IInv, TypeOK, SettledByOne, Settles, SettlingPc
<1>6. HoldHasAccount' /\ SnapshotInv'
  BY <1>1, CallFrame
<1>7. CreditInv' /\ ExactCharge'
  <2>1. cpc'[c] = p /\ \A e \in Calls \ {c} : cpc'[e] = cpc[e]
    BY <1>1 DEF IInv, TypeOK
  <2>2. \A d \in Dims : CreditInv!(r)!(d) /\ ExactCharge!(r)!(d)
    BY <1>2 DEF IInv, CreditInv, ExactCharge
  <2>3. ~Restored(r)' /\ (Held(r)' <=> p = "releasing")
    BY <1>1, <1>2, <2>1, AloneViewNext DEF SettlingPc
  <2>4. p = "releasing" => Held(r)
    BY <1>1, <1>2, AloneView DEF SettlingPc
  <2>5. \A d \in Dims : CreditInv!(r)!(d)' /\ ExactCharge!(r)!(d)'
    <3>1. \A d \in Dims : CreditInv!(r)!(d)'
      BY <1>1, <1>2, <2>1, <2>2, AloneView, AloneViewNext DEF SettlingPc
    <3>2. \A d \in Dims : ExactCharge!(r)!(d)'
      BY <1>1, <1>2, <2>1, <2>2, <2>3, <2>4
    <3> QED
      BY <3>1, <3>2
  <2>6. crid' = [crid EXCEPT ![c] = r]
    BY <1>1, <1>2 DEF IInv, TypeOK
  <2>7. \A q \in Rids \ {r}, d \in Dims : CreditInv!(q)!(d)' /\ ExactCharge!(q)!(d)'
    BY <1>1, <1>2, <2>6, OtherCharges
  <2> QED
    BY <1>2, <2>5, <2>7 DEF CreditInv, ExactCharge
<1> QED
  BY <1>3, <1>4, <1>5, <1>6, <1>7 DEF IInv


\* The finalized record is written: a rollback may now be accepted.
LEMMA RecordStep ==
  ASSUME IInv, NEW c \in Calls, FinalizeRecord(c)
  PROVE  IInv'
<1> USE DEF accountVars, admitVars, ghostVars
<1>0. PICK r \in Rids : r = crid[c]
  BY Alone DEF FinalizeRecord, Goto, SettlingPc
<1>1. /\ cpc[c] = "record"
      /\ cpc' = [cpc EXCEPT ![c] = "finalized"]
      /\ finalized' = finalized \cup {r}
      /\ UNCHANGED <<known, balance, version, tokenHolder, expiresAt, crid, cactual,
                     active, finalizing, rollbackCredit, now, pc, snapshot, holder,
                     reserved, topUps, granted, net, clipped>>
  BY <1>0 DEF FinalizeRecord, Goto
<1>2. /\ crid[c] = r /\ pc[r] = "admitted"
      /\ \A e \in Calls \ {c} : crid[e] = r => cpc[e] \in {"idle", "refused"}
  BY <1>0, <1>1, Alone DEF SettlingPc
<1>3. TypeOK'
  BY <1>1 DEF IInv, TypeOK, CallPc
<1>4. ControlInv'
  BY <1>1, <1>2 DEF IInv, TypeOK, ControlInv
<1>5. SettledByOne'
  BY <1>1, <1>2 DEF IInv, TypeOK, SettledByOne, Settles, SettlingPc
<1>6. HoldHasAccount' /\ SnapshotInv'
  BY <1>1, CallFrame
<1>7. CreditInv' /\ ExactCharge'
  <2>1. cpc'[c] = "finalized" /\ \A e \in Calls \ {c} : cpc'[e] = cpc[e]
    BY <1>1 DEF IInv, TypeOK
  <2>2. \A d \in Dims : CreditInv!(r)!(d) /\ ExactCharge!(r)!(d)
    BY <1>2 DEF IInv, CreditInv, ExactCharge
  <2>3. ~Restored(r)' /\ ~Held(r)'
    BY <1>1, <1>2, <2>1, AloneViewNext DEF SettlingPc
  <2>4. \A d \in Dims : CreditInv!(r)!(d)'
    BY <1>1, <1>2, <2>1, <2>2, AloneView, AloneViewNext DEF SettlingPc
  <2>5. \A d \in Dims : ExactCharge!(r)!(d)'
    BY <1>1, <1>2, <2>1, <2>2, <2>3
  <2>6. crid' = [crid EXCEPT ![c] = r]
    BY <1>1, <1>2 DEF IInv, TypeOK
  <2>7. \A q \in Rids \ {r}, d \in Dims : CreditInv!(q)!(d)' /\ ExactCharge!(q)!(d)'
    BY <1>1, <1>2, <2>6, OtherCharges
  <2> QED
    BY <2>4, <2>5, <2>7 DEF CreditInv, ExactCharge
<1> QED
  BY <1>3, <1>4, <1>5, <1>6, <1>7 DEF IInv

\* The cancel guard takes a hold that nobody is settling.
LEMMA CancelStep ==
  ASSUME IInv, NEW c \in Calls, NEW r \in Rids, CancelTake(c, r)
  PROVE  IInv'
<1> USE DEF accountVars, admitVars, ghostVars
<1>1. /\ cpc' = [cpc EXCEPT ![c] = "cancelling"]
      /\ crid' = [crid EXCEPT ![c] = r]
      /\ cpc[c] = "idle" /\ pc[r] = "admitted"
      /\ r \in active /\ r \notin finalizing
      /\ active' = active \ {r}
      /\ UNCHANGED <<known, balance, version, tokenHolder, finalizing, expiresAt,
                     finalized, rollbackCredit, now, pc, snapshot, holder, cactual,
                     reserved, topUps, granted, net, clipped>>
  BY DEF CancelTake, Call
<1>2. TypeOK'
  BY <1>1 DEF IInv, TypeOK, CallPc
<1>3. ~CallAt(r, SettlingPc)
  BY <1>1 DEF IInv, ControlInv, CallAt, SettlingPc
<1>4. ControlInv'
  BY <1>1, <1>3 DEF IInv, TypeOK, ControlInv
<1>5. SettledByOne'
  BY <1>1, <1>3 DEF IInv, TypeOK, SettledByOne, Settles, CallAt, SettlingPc
<1>6. HoldHasAccount' /\ SnapshotInv'
  BY <1>1, CallFrame
<1>7. CreditInv' /\ ExactCharge'
  <2>1. \A e \in Calls : crid'[e] = r => e = c \/ cpc'[e] \in {"idle", "refused"}
    BY <1>1, <1>3 DEF IInv, TypeOK, ControlInv, CallAt, SettlingPc, CallPc
  <2>2. \A d \in Dims : net'[r][d] = reserved'[r][d] /\ net[r] = net'[r]
    BY <1>1, <1>3 DEF IInv, ExactCharge, Held
  <2>3. cpc'[c] = "cancelling" /\ pc'[r] = "admitted"
    BY <1>1 DEF IInv, TypeOK
  <2>4. \A d \in Dims : CreditInv!(r)!(d)'
    BY <2>1, <2>3 DEF CallAt
  <2>5. \A d \in Dims : ExactCharge!(r)!(d)'
    BY <2>1, <2>2, <2>3 DEF CallAt, Restored
  <2>6. \A q \in Rids \ {r}, d \in Dims : CreditInv!(q)!(d)' /\ ExactCharge!(q)!(d)'
    BY <1>1, OtherCharges DEF IInv, TypeOK
  <2> QED
    BY <2>4, <2>5, <2>6 DEF CreditInv, ExactCharge
<1> QED
  BY <1>2, <1>4, <1>5, <1>6, <1>7 DEF IInv


\* The rollback takes the finalized record, once.
LEMMA RollbackStep ==
  ASSUME IInv, NEW c \in Calls, NEW r \in Rids, RollbackTake(c, r)
  PROVE  IInv'
<1> USE DEF accountVars, admitVars, ghostVars
<1>1. /\ cpc' = [cpc EXCEPT ![c] = "rolling"]
      /\ crid' = [crid EXCEPT ![c] = r]
      /\ cpc[c] = "idle" /\ pc[r] = "admitted"
      /\ r \in finalized
      /\ finalized' = finalized \ {r}
      /\ UNCHANGED <<known, balance, version, tokenHolder, active, finalizing, expiresAt,
                     rollbackCredit, now, pc, snapshot, holder, cactual,
                     reserved, topUps, granted, net, clipped>>
  BY DEF RollbackTake, Call
<1>2. TypeOK'
  BY <1>1 DEF IInv, TypeOK, CallPc
<1>3. /\ CallAt(r, {"finalized"})
      /\ \A e \in Calls : crid[e] = r => cpc[e] \notin {"rolling", "rolled"}
  BY <1>1 DEF IInv, ControlInv, CallAt
<1>4. /\ cpc'[c] = "rolling" /\ crid'[c] = r
      /\ \A e \in Calls \ {c} : cpc'[e] = cpc[e] /\ crid'[e] = crid[e]
  BY <1>1 DEF IInv, TypeOK
<1>5. ControlInv'
  <2>1. PICK f \in Calls : crid[f] = r /\ cpc[f] = "finalized"
    BY <1>3 DEF CallAt
  <2>2. f # c
    BY <1>1, <2>1
  <2>3. \A q \in finalized' : \E e \in Calls : crid'[e] = q /\ cpc'[e] = "finalized"
    BY <1>1, <1>4 DEF IInv, ControlInv
  <2>4. \A e \in Calls : cpc'[e] \in {"rolling", "rolled"} =>
          /\ crid'[e] \notin finalized'
          /\ \E x \in Calls : crid'[x] = crid'[e] /\ cpc'[x] = "finalized"
    BY <1>1, <1>4, <2>1, <2>2 DEF IInv, ControlInv
  <2> QED
    BY <1>1, <1>4, <2>3, <2>4 DEF IInv, ControlInv
<1>6. SettledByOne'
  BY <1>1, <1>3, <1>4 DEF IInv, SettledByOne, Settles, SettlingPc
<1>7. HoldHasAccount' /\ SnapshotInv'
  BY <1>1, CallFrame
<1>8. CreditInv' /\ ExactCharge'
  <2>1. \A S : "idle" \notin S /\ "rolling" \notin S => (CallAt(r, S)' <=> CallAt(r, S))
    BY <1>1, <1>4 DEF CallAt
  <2>2. \A d \in Dims : net[r][d] = rollbackCredit[r][d]
    BY <1>3 DEF IInv, CreditInv, CallAt
  <2>3. \A d \in Dims : CreditInv!(r)!(d)'
    BY <1>1, <2>2
  <2>4. (Held(r)' <=> Held(r)) /\ (Restored(r)' <=> Restored(r))
    BY <1>1, <2>1 DEF Held, Restored, SettlingPc
  <2>5. \A d \in Dims : ExactCharge!(r)!(d)'
    BY <1>1, <1>4, <2>4 DEF IInv, ExactCharge
  <2>6. \A q \in Rids \ {r}, d \in Dims : CreditInv!(q)!(d)' /\ ExactCharge!(q)!(d)'
    BY <1>1, OtherCharges DEF IInv, TypeOK
  <2> QED
    BY <2>3, <2>5, <2>6 DEF CreditInv, ExactCharge
<1> QED
  BY <1>2, <1>5, <1>6, <1>7, <1>8 DEF IInv

\* commit_finalization only forgets that a rollback was possible.
LEMMA ForgetStep ==
  ASSUME IInv, NEW r \in Rids, commit_finalization(r)
  PROVE  IInv'
<1> USE DEF accountVars, admitVars, callVars, ghostVars
<1>1. /\ finalized' = finalized \ {r}
      /\ UNCHANGED <<known, balance, version, tokenHolder, active, finalizing, expiresAt,
                     rollbackCredit, now, pc, snapshot, holder, cpc, crid, cactual,
                     reserved, topUps, granted, net, clipped>>
  BY DEF commit_finalization
<1>2. TypeOK' /\ HoldHasAccount' /\ SnapshotInv'
  BY <1>1, CallFrame DEF IInv, TypeOK
<1>3. ControlInv' /\ SettledByOne'
  BY <1>1 DEF IInv, ControlInv, SettledByOne, Settles
<1>4. CreditInv' /\ ExactCharge'
  BY <1>1 DEF IInv, CreditInv, ExactCharge, CallAt, Held, Restored
<1> QED
  BY <1>2, <1>3, <1>4 DEF IInv

-----------------------------------------------------------------------------
(* Refunds *)

\* What every refund does to the accounts and to the charges.
LEMMA RefundFacts ==
  ASSUME IInv, NEW r \in Rids, holder[r] \in Holders, NEW delta \in CostDelta,
         refund(r, delta), UNCHANGED <<pc, snapshot, holder, reserved>>
  PROVE  /\ apply_delta(balance[holder[r]], delta) \in CostTuple
         /\ balance' \in [Holders -> CostTuple] /\ version' \in [Holders -> Nat]
         /\ balance'[holder[r]] = apply_delta(balance[holder[r]], delta)
         /\ net' \in [Rids -> [Dims -> Int]]
         /\ \A d \in Dims : net'[r][d] = net[r][d] -
              (apply_delta(balance[holder[r]], delta)[d] - balance[holder[r]][d])
         /\ \A q \in Rids \ {r} : net'[q] = net[q]
         /\ HoldHasAccount' /\ SnapshotInv'
<1> DEFINE h == holder[r]
           after == apply_delta(balance[h], delta)
<1>1. after \in CostTuple
  BY ApplyType DEF IInv, TypeOK
<1>2. /\ balance' = [balance EXCEPT ![h] = after]
      /\ version' = [version EXCEPT ![h] = @ + 1]
      /\ net' = [net EXCEPT ![r] = [d \in Dims |-> net[r][d] - (after[d] - balance[h][d])]]
      /\ known' = known
  BY DEF refund
<1>3. balance \in [Holders -> CostTuple] /\ version \in [Holders -> Nat]
      /\ net \in [Rids -> [Dims -> Int]]
  BY DEF IInv, TypeOK
<1> HIDE DEF after
<1>4. balance' \in [Holders -> CostTuple] /\ version' \in [Holders -> Nat]
      /\ balance'[h] = after
  BY <1>1, <1>2, <1>3
<1>5. /\ net' \in [Rids -> [Dims -> Int]]
      /\ \A d \in Dims : net'[r][d] = net[r][d] - (after[d] - balance[h][d])
      /\ \A q \in Rids \ {r} : net'[q] = net[q]
  BY <1>1, <1>2, <1>3 DEF CostTuple
<1>6. \A g \in Holders : /\ version'[g] >= version[g]
                         /\ version'[g] = version[g] => balance'[g] = balance[g]
  BY <1>2, <1>3
<1>7. HoldHasAccount' /\ SnapshotInv'
  BY <1>2, <1>4, <1>6, SnapshotFrame
<1> QED
  BY <1>1, <1>4, <1>5, <1>7 DEF after

\* The whole hold goes back: expiry and the cancel guard.
LEMMA ReleaseStep ==
  ASSUME IInv, NEW c \in Calls, FinalizeExpiredRefund(c) \/ CancelRefund(c)
  PROVE  IInv'
<1> USE DEF tableVars, admitVars
<1>0. PICK r \in Rids : r = crid[c]
  BY Alone DEF FinalizeExpiredRefund, CancelRefund, Goto, SettlingPc
<1>1. PICK p \in {"released", "cancelled"} :
        /\ cpc[c] = IF p = "released" THEN "releasing" ELSE "cancelling"
        /\ cpc' = [cpc EXCEPT ![c] = p]
        /\ refund(r, full_credit(reserved[r]))
        /\ clipped' = (clipped \/ Clipped(r, reserved[r]))
        /\ UNCHANGED <<tokenHolder, expiresAt, crid, cactual, active, finalizing,
                       finalized, rollbackCredit, now, pc, snapshot, holder, reserved>>
  BY <1>0 DEF FinalizeExpiredRefund, CancelRefund, Goto
<1>2. /\ crid[c] = r /\ pc[r] = "admitted" /\ holder[r] \in Holders
      /\ \A e \in Calls \ {c} : crid[e] = r => cpc[e] \in {"idle", "refused"}
  BY <1>0, <1>1, Alone DEF SettlingPc
<1>3. reserved[r] \in CostEnvelope /\ reserved[r] \in CostTuple
      /\ balance[holder[r]] \in CostTuple
  BY <1>2, EnvelopeIsTuple DEF IInv, TypeOK
<1>4. full_credit(reserved[r]) \in CostDelta
  BY <1>3, BetweenType, ZeroType DEF full_credit
<1>5. TypeOK'
  <2>1. /\ balance' \in [Holders -> CostTuple] /\ version' \in [Holders -> Nat]
        /\ net' \in [Rids -> [Dims -> Int]]
    BY <1>1, <1>2, <1>4, RefundFacts
  <2>2. clipped' \in BOOLEAN
    BY <1>1
  <2>3. UNCHANGED <<known, topUps, granted>>
    BY <1>1 DEF refund
  <2>4. cpc' \in [Calls -> CallPc]
    BY <1>1 DEF IInv, TypeOK, CallPc
  <2> QED
    BY <1>1, <2>1, <2>2, <2>3, <2>4 DEF IInv, TypeOK
<1>6. ControlInv'
  BY <1>1, <1>2 DEF IInv, TypeOK, ControlInv
<1>7. SettledByOne'
  BY <1>1, <1>2 DEF IInv, TypeOK, SettledByOne, Settles, SettlingPc
<1>8. HoldHasAccount' /\ SnapshotInv'
  BY <1>1, <1>2, <1>4, RefundFacts
<1>9. CreditInv' /\ ExactCharge'
  <2>1. cpc'[c] = p /\ \A e \in Calls \ {c} : cpc'[e] = cpc[e]
    BY <1>1 DEF IInv, TypeOK
  <2>2. Held(r)
    BY <1>1, <1>2, AloneView DEF SettlingPc
  <2>3. \A d \in Dims : net[r][d] = reserved[r][d]
    BY <2>2 DEF IInv, ExactCharge
  <2>4. \A d \in Dims : ~clipped' => net'[r][d] = 0
    <3> SUFFICES ASSUME NEW d \in Dims, ~clipped' PROVE net'[r][d] = 0
      OBVIOUS
    <3>0. ~Clipped(r, reserved[r])
      BY <1>1
    <3>1. reserved[r][d] <= I64Max /\ balance[holder[r]][d] + reserved[r][d] <= U64Max
      BY <3>0, <1>3, WidthAssumption DEF Clipped, CostEnvelope, CostTuple
    <3>2. apply_delta(balance[holder[r]], full_credit(reserved[r]))[d]
            = balance[holder[r]][d] + reserved[r][d]
      BY <1>3, <3>1, CreditExact
    <3>3. net'[r][d] = reserved[r][d] -
            (apply_delta(balance[holder[r]], full_credit(reserved[r]))[d] - balance[holder[r]][d])
      BY <1>1, <1>2, <1>4, <2>3, RefundFacts
    <3> QED
      BY <1>3, <3>2, <3>3 DEF CostTuple
  <2>5. ~Held(r)'
    BY <1>1, <1>2, <2>1, AloneViewNext DEF SettlingPc
  <2>6. \A d \in Dims : CreditInv!(r)!(d)'
    BY <1>1, <1>2, <2>1, AloneViewNext DEF SettlingPc
  <2>7. \A d \in Dims : ExactCharge!(r)!(d)'
    BY <1>1, <1>2, <2>1, <2>4, <2>5
  <2>8. crid' = [crid EXCEPT ![c] = r]
    BY <1>1, <1>2 DEF IInv, TypeOK
  <2>9. /\ \A q \in Rids \ {r} : net'[q] = net[q] /\ rollbackCredit'[q] = rollbackCredit[q]
        /\ \A e \in Calls \ {c} : cactual'[e] = cactual[e]
        /\ cpc' = [cpc EXCEPT ![c] = p]
        /\ UNCHANGED <<pc, reserved>>
    BY <1>1, <1>2, <1>4, RefundFacts
  <2>10. clipped => clipped'
    BY <1>1
  <2>11. \A q \in Rids \ {r}, d \in Dims : CreditInv!(q)!(d)' /\ ExactCharge!(q)!(d)'
    BY <1>2, <2>8, <2>9, <2>10, OtherCharges, Zenon
  <2> QED
    BY <2>6, <2>7, <2>11 DEF CreditInv, ExactCharge
<1> QED
  BY <1>5, <1>6, <1>7, <1>8, <1>9 DEF IInv


\* The finalize's refund of reserved - actual.
LEMMA FinalizeRefundStep ==
  ASSUME IInv, NEW c \in Calls, FinalizeRefund(c)
  PROVE  IInv'
<1> USE DEF admitVars
<1>0. PICK r \in Rids : r = crid[c]
  BY Alone DEF FinalizeRefund, Goto, SettlingPc
<1> DEFINE h == holder[r]
           delta == between(reserved[r], cactual[c])
           after == apply_delta(balance[h], delta)
           credit == [d \in Dims |-> reserved[r][d] - cactual[c][d]]
<1>1. /\ cpc[c] = "refund"
      /\ cpc' = [cpc EXCEPT ![c] = "remove"]
      /\ refund(r, delta)
      /\ clipped' = (clipped \/ Clipped(r, credit))
      /\ rollbackCredit' = [rollbackCredit EXCEPT ![r] =
           rollback_credit(reserved[r], balance[h], balance'[h])]
      /\ UNCHANGED <<tokenHolder, expiresAt, crid, cactual, active, finalizing,
                     finalized, now, pc, snapshot, holder, reserved>>
  BY <1>0 DEF FinalizeRefund, Goto
<1>2. /\ crid[c] = r /\ pc[r] = "admitted" /\ h \in Holders
      /\ \A e \in Calls \ {c} : crid[e] = r => cpc[e] \in {"idle", "refused"}
  BY <1>0, <1>1, Alone DEF SettlingPc
<1>3. /\ reserved[r] \in CostEnvelope /\ reserved[r] \in CostTuple
      /\ balance[h] \in CostTuple /\ cactual[c] \in CostTuple
  BY <1>2, EnvelopeIsTuple DEF IInv, TypeOK
<1>4. delta \in CostDelta
  BY <1>3, BetweenType
<1>5. /\ after \in CostTuple
      /\ balance' \in [Holders -> CostTuple] /\ version' \in [Holders -> Nat]
      /\ balance'[h] = after
      /\ net' \in [Rids -> [Dims -> Int]]
      /\ \A d \in Dims : net'[r][d] = net[r][d] - (after[d] - balance[h][d])
      /\ \A q \in Rids \ {r} : net'[q] = net[q]
      /\ HoldHasAccount' /\ SnapshotInv'
  BY <1>1, <1>2, <1>4, RefundFacts
<1>6. rollbackCredit'[r] = rollback_credit(reserved[r], balance[h], after)
      /\ rollbackCredit' \in [Rids -> CostTuple]
      /\ \A q \in Rids \ {r} : rollbackCredit'[q] = rollbackCredit[q]
  BY <1>1, <1>3, <1>5, RollbackCreditType DEF IInv, TypeOK
<1>7. TypeOK'
  <2>1. clipped' \in BOOLEAN
    BY <1>1
  <2>2. UNCHANGED <<known, topUps, granted>>
    BY <1>1 DEF refund
  <2>3. cpc' \in [Calls -> CallPc]
    BY <1>1 DEF IInv, TypeOK, CallPc
  <2> HIDE DEF after, delta, credit
  <2> QED
    BY <1>1, <1>5, <1>6, <2>1, <2>2, <2>3 DEF IInv, TypeOK
<1>8. ControlInv'
  BY <1>1, <1>2 DEF IInv, TypeOK, ControlInv
<1>9. SettledByOne'
  BY <1>1, <1>2 DEF IInv, TypeOK, SettledByOne, Settles, SettlingPc
<1>10. CreditInv' /\ ExactCharge'
  <2>1. cpc'[c] = "remove" /\ \A e \in Calls \ {c} : cpc'[e] = cpc[e]
    BY <1>1 DEF IInv, TypeOK
  <2>2. Held(r)
    BY <1>1, <1>2, AloneView DEF SettlingPc
  <2>3. \A d \in Dims : net'[r][d] = reserved[r][d] - (after[d] - balance[h][d])
    BY <1>5, <2>2 DEF IInv, ExactCharge
  <2>4. \A d \in Dims : net'[r][d] = rollbackCredit'[r][d]
    <3> SUFFICES ASSUME NEW d \in Dims PROVE net'[r][d] = rollbackCredit'[r][d]
      OBVIOUS
    <3>1. rollback_credit(reserved[r], balance[h], after)[d]
            = reserved[r][d] - (after[d] - balance[h][d])
      BY <1>3, RollbackCreditExact
    <3> HIDE DEF after
    <3> QED
      BY <1>6, <2>3, <3>1
  <2>5. \A d \in Dims : ~clipped' => net'[r][d] <= cactual[c][d]
    <3> SUFFICES ASSUME NEW d \in Dims, ~clipped' PROVE net'[r][d] <= cactual[c][d]
      OBVIOUS
    <3>1. ~Clipped(r, credit)
      BY <1>1
    <3>2. balance[h][d] + (reserved[r][d] - cactual[c][d]) <= U64Max
      BY <3>1, <1>3, WidthAssumption DEF Clipped, CostEnvelope, CostTuple
    <3> QED
      BY <1>3, <3>2, <2>3, ChargeAtMostActual
  <2>6. ~Held(r)' /\ ~Restored(r)'
    BY <1>1, <1>2, <2>1, AloneViewNext DEF SettlingPc
  <2>7. pc'[r] = "admitted" /\ cactual' = cactual /\ crid' = crid
    BY <1>1, <1>2
  <2>8. \A d \in Dims : CreditInv!(r)!(d)'
    BY <2>4, <2>7
  <2>9. \A d \in Dims : ExactCharge!(r)!(d)'
    BY <1>2, <2>1, <2>5, <2>6, <2>7
  <2>10. crid' = [crid EXCEPT ![c] = r]
    BY <1>1, <1>2 DEF IInv, TypeOK
  <2>11. /\ \A q \in Rids \ {r} : net'[q] = net[q] /\ rollbackCredit'[q] = rollbackCredit[q]
         /\ \A e \in Calls \ {c} : cactual'[e] = cactual[e]
         /\ cpc' = [cpc EXCEPT ![c] = "remove"]
         /\ UNCHANGED <<pc, reserved>>
    BY <1>1, <1>5, <1>6
  <2>12. clipped => clipped'
    BY <1>1
  <2>13. \A q \in Rids \ {r}, d \in Dims : CreditInv!(q)!(d)' /\ ExactCharge!(q)!(d)'
    BY <1>2, <2>10, <2>11, <2>12, OtherCharges, Zenon
  <2> QED
    BY <2>8, <2>9, <2>13 DEF CreditInv, ExactCharge
<1> QED
  BY <1>5, <1>7, <1>8, <1>9, <1>10 DEF IInv

\* The rollback's credit of what the finalize took.
LEMMA RollbackRefundStep ==
  ASSUME IInv, NEW c \in Calls, RollbackRefund(c)
  PROVE  IInv'
<1> USE DEF tableVars, admitVars
<1>0. PICK r \in Rids : r = crid[c]
  BY DEF RollbackRefund, Goto, IInv, ControlInv
<1> DEFINE h == holder[r]
           delta == full_credit(rollbackCredit[r])
           after == apply_delta(balance[h], delta)
<1>1. /\ cpc[c] = "rolling" /\ crid[c] = r
      /\ cpc' = [cpc EXCEPT ![c] = "rolled"]
      /\ refund(r, delta)
      /\ clipped' = (clipped \/ Clipped(r, rollbackCredit[r]))
      /\ UNCHANGED <<tokenHolder, expiresAt, crid, cactual, active, finalizing,
                     finalized, rollbackCredit, now, pc, snapshot, holder, reserved>>
  BY <1>0 DEF RollbackRefund, Goto
<1>2. pc[r] = "admitted" /\ r \notin finalized
  BY <1>1 DEF IInv, ControlInv
<1>3. h \in Holders
  BY <1>2 DEF IInv, SnapshotInv
<1>4. PICK f \in Calls \ {c} : crid[f] = r /\ cpc[f] = "finalized"
  BY <1>1 DEF IInv, ControlInv
<1>5. \A e \in Calls \ {c} : crid[e] = r /\ e # f => cpc[e] \in {"idle", "refused"}
  <2> SUFFICES ASSUME NEW e \in Calls \ {c}, crid[e] = r, e # f
               PROVE  cpc[e] \in {"idle", "refused"}
    OBVIOUS
  <2>1. cpc[e] \notin {"rolling", "rolled"}
    BY <1>1 DEF IInv, SettledByOne
  <2>2. cpc[e] \notin SettlingPc
    BY <1>4 DEF IInv, SettledByOne, Settles, SettlingPc
  <2> QED
    BY <2>1, <2>2 DEF IInv, TypeOK, CallPc, SettlingPc
<1>6. balance[h] \in CostTuple /\ rollbackCredit[r] \in CostTuple
  BY <1>3 DEF IInv, TypeOK
<1>7. delta \in CostDelta
  BY <1>6, BetweenType, ZeroType DEF full_credit
<1>8. /\ balance' \in [Holders -> CostTuple] /\ version' \in [Holders -> Nat]
      /\ net' \in [Rids -> [Dims -> Int]]
      /\ \A d \in Dims : net'[r][d] = net[r][d] - (after[d] - balance[h][d])
      /\ \A q \in Rids \ {r} : net'[q] = net[q]
      /\ HoldHasAccount' /\ SnapshotInv'
  BY <1>1, <1>3, <1>7, RefundFacts
<1>9. TypeOK'
  <2>1. clipped' \in BOOLEAN
    BY <1>1
  <2>2. UNCHANGED <<known, topUps, granted>>
    BY <1>1 DEF refund
  <2>3. cpc' \in [Calls -> CallPc]
    BY <1>1 DEF IInv, TypeOK, CallPc
  <2> HIDE DEF after, delta
  <2> QED
    BY <1>1, <1>8, <2>1, <2>2, <2>3 DEF IInv, TypeOK
<1>10. ControlInv'
  BY <1>1, <1>2, <1>4 DEF IInv, TypeOK, ControlInv
<1>11. SettledByOne'
  BY <1>1 DEF IInv, TypeOK, SettledByOne, Settles, SettlingPc
<1>12. CreditInv' /\ ExactCharge'
  <2>1. /\ cpc'[c] = "rolled" /\ \A e \in Calls \ {c} : cpc'[e] = cpc[e]
        /\ cpc'[f] = "finalized" /\ crid' = crid /\ pc' = pc /\ cactual' = cactual
    BY <1>1, <1>4 DEF IInv, TypeOK
  <2>2. \A d \in Dims : net[r][d] = rollbackCredit[r][d]
    BY <1>1 DEF IInv, CreditInv, CallAt
  <2>3. \A d \in Dims : ~clipped' => net'[r][d] = 0
    <3> SUFFICES ASSUME NEW d \in Dims, ~clipped' PROVE net'[r][d] = 0
      OBVIOUS
    <3>1. ~Clipped(r, rollbackCredit[r])
      BY <1>1
    <3>2. rollbackCredit[r][d] <= I64Max /\ balance[h][d] + rollbackCredit[r][d] <= U64Max
      BY <3>1, <1>6, WidthAssumption DEF Clipped, CostTuple
    <3>3. after[d] = balance[h][d] + rollbackCredit[r][d]
      BY <1>6, <3>2, CreditExact
    <3>4. net'[r][d] = rollbackCredit[r][d] - (after[d] - balance[h][d])
      BY <1>8, <2>2
    <3> HIDE DEF after
    <3> QED
      BY <1>6, <3>3, <3>4 DEF CostTuple
  <2>4. \A d \in Dims : CreditInv!(r)!(d)'
    BY <1>1, <1>2, <1>5, <2>1 DEF CallAt
  <2>5. ~Held(r)'
    BY <1>1, <1>2, <1>4, <1>5, <2>1 DEF Held, CallAt, SettlingPc
  <2>6. \A e \in Calls : crid[e] = r /\ cpc'[e] \in {"remove", "record", "finalized"} => e = f
    BY <1>5, <2>1
  <2>7. \A d \in Dims : cactual[f][d] >= 0
    BY DEF IInv, TypeOK, CostTuple
  <2>8. \A d \in Dims : ExactCharge!(r)!(d)'
    BY <2>1, <2>3, <2>5, <2>6, <2>7
  <2>9. crid' = [crid EXCEPT ![c] = r]
    BY <1>1 DEF IInv, TypeOK
  <2>10. /\ \A q \in Rids \ {r} : net'[q] = net[q] /\ rollbackCredit'[q] = rollbackCredit[q]
         /\ \A e \in Calls \ {c} : cactual'[e] = cactual[e]
         /\ cpc' = [cpc EXCEPT ![c] = "rolled"]
         /\ UNCHANGED <<pc, reserved>>
    BY <1>1, <1>8
  <2>11. clipped => clipped'
    BY <1>1
  <2>12. \A q \in Rids \ {r}, d \in Dims : CreditInv!(q)!(d)' /\ ExactCharge!(q)!(d)'
    <3>1. crid[c] = r
      BY <1>1
    <3> HIDE DEF delta, after, h
    <3> QED
      BY <3>1, <2>9, <2>10, <2>11, OtherCharges, Zenon
  <2> QED
    BY <2>4, <2>8, <2>12 DEF CreditInv, ExactCharge
<1> QED
  BY <1>8, <1>9, <1>10, <1>11, <1>12 DEF IInv

-----------------------------------------------------------------------------
\* Every step of the gate preserves the invariant.
LEMMA NextIInv == IInv /\ [Next]_vars => IInv'
<1> SUFFICES ASSUME IInv, [Next]_vars PROVE IInv'
  OBVIOUS
<1>1. CASE UNCHANGED vars \/ Tick
           \/ (\E t \in Tokens, h \in Holders : bind_token(t, h))
           \/ (\E r \in Rids : touch_reservation(r))
  BY <1>1, QuietStep
<1>2. ASSUME NEW h \in Holders, NEW add \in TopUps, provision_for(h, add) PROVE IInv'
  BY <1>2, ProvisionStep
<1>3. ASSUME NEW r \in Rids, NEW t \in Tokens, NEW env \in Envelopes, NEW p \in Providers,
             AdmitScreened(r, t, env, p) \/ AdmitResolve(r, t, env, p)
      PROVE  IInv'
  BY <1>3, ScreenStep
<1>4. ASSUME NEW r \in Rids, AdmitStep(r) PROVE IInv'
  BY <1>4, CheckStep, CommitStep, InsertStep DEF AdmitStep
<1>5. ASSUME NEW c \in Calls, NEW r \in Rids, NEW actual \in Actuals,
             FinalizeClaim(c, r, actual)
      PROVE  IInv'
  BY <1>5, ClaimStep
<1>6. ASSUME NEW c \in Calls, NEW r \in Rids,
             \/ FinalizeReject(c, r) \/ CancelTake(c, r)
             \/ RollbackTake(c, r) \/ RollbackReject(c, r)
      PROVE  IInv'
  BY <1>6, RejectStep, CancelStep, RollbackStep
<1>7. ASSUME NEW c \in Calls, CallStep(c) PROVE IInv'
  BY <1>7, RemoveStep, RecordStep, ReleaseStep, FinalizeRefundStep, RollbackRefundStep
     DEF CallStep
<1>8. ASSUME NEW r \in Rids, commit_finalization(r) PROVE IInv'
  BY <1>8, ForgetStep
<1> QED
  BY <1>1, <1>2, <1>3, <1>4, <1>5, <1>6, <1>7, <1>8 DEF Next

\* The gate's invariant holds in every reachable state.
THEOREM GateInvariant == Spec => []IInv
  BY InitIInv, NextIInv, PTL DEF Spec

\* Every variable of the gate keeps its type: in particular no balance leaves
\* 0..u64::MAX, whatever is reserved, refunded, overrun or topped up.
THEOREM GateTypeOK == Spec => []TypeOK
  BY GateInvariant, PTL DEF IInv

\* However finalize calls, the cancel guard and rollbacks race, one call settles
\* a reservation and at most one rollback of it is accepted.
THEOREM GateSettledByOne == Spec => []SettledByOne
  BY GateInvariant, PTL DEF IInv

\* What a reservation has taken from its holder is exact at every point.
THEOREM GateExactCharge == Spec => []ExactCharge
  BY GateInvariant, PTL DEF IInv

-----------------------------------------------------------------------------
(* Conservation *)

Mine(h) == {r \in Rids : holder[r] = h}
Nets(d) == [r \in Rids |-> net[r][d]]

\* What a holder was given is its balance plus what its reservations have taken,
\* net of what they gave back, clipped or not.
Balanced ==
  \A h \in Holders, d \in Dims :
    granted[h][d] = balance[h][d] + SumFunctionOnSet(Nets(d), Mine(h))

\* The terms of these sums are integers, over finitely many reservations.
LEMMA NetsType ==
  ASSUME IInv, IsFiniteSet(Rids), NEW d \in Dims, NEW h
  PROVE  /\ \A r \in Rids : net[r][d] \in Int /\ Nets(d)[r] = net[r][d]
         /\ Mine(h) \subseteq Rids /\ IsFiniteSet(Mine(h))
         /\ SumFunctionOnSet(Nets(d), Mine(h)) \in Int
<1>1. \A r \in Rids : net[r][d] \in Int /\ Nets(d)[r] = net[r][d]
  BY DEF IInv, TypeOK, Nets
<1>2. Mine(h) \subseteq Rids /\ IsFiniteSet(Mine(h))
  BY FS_Subset DEF Mine
<1>3. SumFunctionOnSet(Nets(d), Mine(h)) \in Int
  BY <1>1, <1>2, SumType
<1> QED BY <1>1, <1>2, <1>3

\* A step that moves no money keeps the balance.
LEMMA BalancedQuiet ==
  ASSUME Balanced, UNCHANGED <<granted, balance, net, holder>>
  PROVE  Balanced'
<1>1. \A h, d : Nets(d)' = Nets(d) /\ Mine(h)' = Mine(h)
  BY DEF Nets, Mine
<1> QED BY <1>1 DEF Balanced

\* A step that moves money between one reservation and its holder keeps it.
LEMMA BalancedMove ==
  ASSUME IInv, IInv', Balanced, IsFiniteSet(Rids), UNCHANGED <<granted, holder>>,
         NEW r \in Rids, holder[r] \in Holders,
         \A g \in Holders \ {holder[r]} : balance'[g] = balance[g],
         \A q \in Rids \ {r} : net'[q] = net[q],
         \A d \in Dims : net'[r][d] = net[r][d] - (balance'[holder[r]][d] - balance[holder[r]][d])
  PROVE  Balanced'
<1> SUFFICES ASSUME NEW h \in Holders, NEW d \in Dims
             PROVE  granted'[h][d] = balance'[h][d] + SumFunctionOnSet(Nets(d)', Mine(h)')
  BY DEF Balanced
<1> DEFINE f == Nets(d)
           g == Nets(d)'
           D == Mine(h)
<1>1. Mine(h)' = D
  BY DEF Mine
<1>2. /\ \A q \in Rids : f[q] = net[q][d] /\ net[q][d] \in Int
      /\ D \subseteq Rids /\ IsFiniteSet(D) /\ SumFunctionOnSet(f, D) \in Int
  BY NetsType
<1>3. \A q \in Rids : g[q] = net'[q][d] /\ net'[q][d] \in Int
  BY DEF IInv, TypeOK, Nets
<1>4. granted[h][d] = balance[h][d] + SumFunctionOnSet(f, D)
  BY DEF Balanced
<1>5. balance[h][d] \in Int /\ balance'[h][d] \in Int /\ granted[h][d] \in Int
  BY WidthAssumption DEF IInv, TypeOK, CostTuple
<1>6. r \in D <=> holder[r] = h
  BY DEF Mine
<1> HIDE DEF f, g, D
<1>7. CASE holder[r] = h
  <2>1. r \in D /\ IsFiniteSet(D)
    BY <1>2, <1>6, <1>7
  <2>a. \A q \in D : f[q] \in Int
    BY <1>2
  <2>b. \A q \in D : g[q] \in Int
    BY <1>2, <1>3
  <2>c. \A q \in D \ {r} : g[q] = f[q]
    BY <1>2, <1>3
  <2>2. SumFunctionOnSet(g, D) = SumFunctionOnSet(f, D) + (g[r] - f[r])
    BY <2>1, <2>a, <2>b, <2>c, SumChange
  <2>3. g[r] - f[r] = balance[h][d] - balance'[h][d]
    BY <1>2, <1>3, <1>5, <1>7
  <2>4. granted'[h][d] = balance'[h][d] + SumFunctionOnSet(g, D)
    BY <1>2, <1>4, <1>5, <2>2, <2>3
  <2> QED BY <1>1, <2>4 DEF g
<1>8. CASE holder[r] # h
  <2>1. (\A q \in D : f[q] \in Int) /\ \A q \in D : g[q] = f[q]
    BY <1>2, <1>3, <1>6, <1>8
  <2>2. SumFunctionOnSet(g, D) = SumFunctionOnSet(f, D)
    BY <1>2, <2>1, SumSame
  <2>3. balance'[h] = balance[h]
    BY <1>8
  <2>4. granted'[h][d] = balance'[h][d] + SumFunctionOnSet(g, D)
    BY <1>4, <2>2, <2>3
  <2> QED BY <1>1, <2>4 DEF g
<1> QED BY <1>7, <1>8

\* So does one that gives a reservation that has taken nothing another holder.
LEMMA BalancedResolve ==
  ASSUME IInv, Balanced, IsFiniteSet(Rids), UNCHANGED <<granted, balance, net>>,
         NEW r \in Rids, \A d \in Dims : net[r][d] = 0,
         \A q \in Rids \ {r} : holder'[q] = holder[q]
  PROVE  Balanced'
<1> SUFFICES ASSUME NEW h \in Holders, NEW d \in Dims
             PROVE  SumFunctionOnSet(Nets(d), Mine(h)') = SumFunctionOnSet(Nets(d), Mine(h))
  BY DEF Balanced, Nets
<1> DEFINE f == Nets(d)
           D == Mine(h)
           E == Mine(h)'
<1>1. /\ \A q \in Rids : f[q] \in Int
      /\ f[r] = 0 /\ D \subseteq Rids /\ IsFiniteSet(D) /\ SumFunctionOnSet(f, D) \in Int
  BY NetsType
<1>2. E \subseteq Rids /\ IsFiniteSet(E)
  BY FS_Subset DEF Mine
<1>3. D \ {r} = E \ {r}
  BY DEF Mine
<1> HIDE DEF f, D, E
<1>4. ASSUME NEW S, S \subseteq Rids, IsFiniteSet(S)
      PROVE  SumFunctionOnSet(f, S) = SumFunctionOnSet(f, S \ {r})
  <2>1. CASE r \in S
    <3>1. SumFunctionOnSet(f, S) = f[r] + SumFunctionOnSet(f, S \ {r})
      BY <1>1, <1>4, <2>1, SumTakeOut
    <3>2. IsFiniteSet(S \ {r})
      BY <1>4, FS_RemoveElement
    <3>3. SumFunctionOnSet(f, S \ {r}) \in Int
      BY <1>1, <1>4, <3>2, SumType
    <3> QED BY <1>1, <3>1, <3>3
  <2>2. CASE r \notin S
    <3>1. S \ {r} = S
      BY <2>2
    <3> QED BY <3>1
  <2> QED BY <2>1, <2>2
<1>5. SumFunctionOnSet(f, E) = SumFunctionOnSet(f, D)
  <2>1. SumFunctionOnSet(f, E) = SumFunctionOnSet(f, E \ {r})
    BY <1>2, <1>4
  <2>2. SumFunctionOnSet(f, D) = SumFunctionOnSet(f, D \ {r})
    BY <1>1, <1>4
  <2> QED BY <1>3, <2>1, <2>2
<1> QED BY <1>5 DEF f, D, E

\* A refund moves money between a reservation and its holder.
LEMMA BalancedRefund ==
  ASSUME IInv, IInv', Balanced, IsFiniteSet(Rids), NEW r \in Rids, holder[r] \in Holders,
         NEW delta \in CostDelta, refund(r, delta), UNCHANGED <<pc, snapshot, holder, reserved>>
  PROVE  Balanced'
<1>1. /\ balance'[holder[r]] = apply_delta(balance[holder[r]], delta)
      /\ \A d \in Dims : net'[r][d] = net[r][d] -
           (apply_delta(balance[holder[r]], delta)[d] - balance[holder[r]][d])
      /\ \A q \in Rids \ {r} : net'[q] = net[q]
  BY RefundFacts
<1>2. UNCHANGED granted /\ \A g \in Holders \ {holder[r]} : balance'[g] = balance[g]
  BY DEF refund, IInv, TypeOK
<1>3. \A d \in Dims : net'[r][d] = net[r][d] - (balance'[holder[r]][d] - balance[holder[r]][d])
  BY <1>1
<1> QED BY <1>1, <1>2, <1>3, BalancedMove

\* The reservation a refunding call is about, and the delta it applies.
LEMMA RefundingCall ==
  ASSUME IInv, NEW c \in Calls,
         FinalizeExpiredRefund(c) \/ FinalizeRefund(c) \/ CancelRefund(c) \/ RollbackRefund(c)
  PROVE  /\ crid[c] \in Rids /\ holder[crid[c]] \in Holders
         /\ \E delta \in CostDelta : refund(crid[c], delta)
         /\ UNCHANGED <<pc, snapshot, holder, reserved>>
<1>1. cpc[c] # "idle"
  BY DEF FinalizeExpiredRefund, FinalizeRefund, CancelRefund, RollbackRefund, Goto
<1>2. crid[c] \in Rids /\ pc[crid[c]] = "admitted"
  BY <1>1 DEF IInv, ControlInv
<1>3. holder[crid[c]] \in Holders
  BY <1>2 DEF IInv, SnapshotInv
<1>4. /\ reserved[crid[c]] \in CostTuple /\ cactual[c] \in CostTuple
      /\ rollbackCredit[crid[c]] \in CostTuple
  BY <1>2, EnvelopeIsTuple DEF IInv, TypeOK
<1>5. /\ full_credit(reserved[crid[c]]) \in CostDelta
      /\ full_credit(rollbackCredit[crid[c]]) \in CostDelta
      /\ between(reserved[crid[c]], cactual[c]) \in CostDelta
  BY <1>4, BetweenType, ZeroType DEF full_credit
<1>6. \E delta \in CostDelta : refund(crid[c], delta)
  BY <1>5 DEF FinalizeExpiredRefund, FinalizeRefund, CancelRefund, RollbackRefund
<1>7. UNCHANGED <<pc, snapshot, holder, reserved>>
  BY DEF FinalizeExpiredRefund, FinalizeRefund, CancelRefund, RollbackRefund, admitVars
<1> QED BY <1>2, <1>3, <1>6, <1>7

\* Every step of the gate keeps what was given accounted for.
LEMMA NextBalanced ==
  ASSUME IInv, IInv', Balanced, IsFiniteSet(Rids), [Next]_vars
  PROVE  Balanced'
<1> USE DEF accountVars, tableVars, admitVars, callVars, ghostVars
<1>1. CASE UNCHANGED vars
  BY <1>1, BalancedQuiet DEF vars
<1>2. CASE Tick
  BY <1>2, BalancedQuiet DEF Tick
<1>3. ASSUME NEW t \in Tokens, NEW h \in Holders, bind_token(t, h) PROVE Balanced'
  BY <1>3, BalancedQuiet DEF bind_token
<1>4. ASSUME NEW h \in Holders, NEW add \in TopUps, provision_for(h, add) PROVE Balanced'
  <2>1. UNCHANGED <<net, holder>>
    BY <1>4 DEF provision_for
  <2>2. CASE UNCHANGED <<balance, granted>>
    BY <2>1, <2>2, BalancedQuiet
  <2>3. ASSUME NEW merged, merged = saturating_add(balance[h], add),
               balance' = [balance EXCEPT ![h] = merged],
               granted' = [granted EXCEPT ![h] = [d \in Dims |-> granted[h][d] + (merged[d] - balance[h][d])]]
        PROVE  Balanced'
    <3> SUFFICES ASSUME NEW g \in Holders, NEW d \in Dims
                 PROVE  granted'[g][d] = balance'[g][d] + SumFunctionOnSet(Nets(d), Mine(g))
      BY <2>1 DEF Balanced, Nets, Mine
    <3>1. granted[g][d] = balance[g][d] + SumFunctionOnSet(Nets(d), Mine(g))
      BY DEF Balanced
    <3>2. balance \in [Holders -> CostTuple] /\ granted \in [Holders -> [Dims -> Nat]]
          /\ balance' \in [Holders -> CostTuple] /\ SumFunctionOnSet(Nets(d), Mine(g)) \in Int
      BY NetsType DEF IInv, TypeOK
    <3>3. CASE g = h
      <4>1. granted'[g][d] = granted[g][d] + (merged[d] - balance[g][d]) /\ balance'[g] = merged
        BY <2>3, <3>2, <3>3
      <4>2. balance[g][d] \in Int /\ balance'[g][d] \in Int /\ granted[g][d] \in Int
        BY <3>2, WidthAssumption DEF CostTuple
      <4> QED BY <3>1, <3>2, <4>1, <4>2
    <3>4. CASE g # h
      BY <2>3, <3>1, <3>2, <3>4
    <3> QED BY <3>3, <3>4
  <2> QED BY <1>4, <2>2, <2>3 DEF provision_for
<1>5. ASSUME NEW r \in Rids, NEW t \in Tokens, NEW env \in Envelopes, NEW p \in Providers,
             AdmitScreened(r, t, env, p)
      PROVE  Balanced'
  BY <1>5, BalancedQuiet DEF AdmitScreened
<1>6. ASSUME NEW r \in Rids, NEW t \in Tokens, NEW env \in Envelopes, NEW p \in Providers,
             AdmitResolve(r, t, env, p)
      PROVE  Balanced'
  <2>1. UNCHANGED <<granted, balance, net>> /\ pc[r] = "idle"
        /\ \A q \in Rids \ {r} : holder'[q] = holder[q]
    BY <1>6 DEF AdmitResolve, IInv, TypeOK
  <2>2. \A d \in Dims : net[r][d] = 0
    BY <2>1 DEF IInv, CreditInv
  <2> QED BY <2>1, <2>2, BalancedResolve
<1>7. ASSUME NEW r \in Rids, ReserveCommit(r) PROVE Balanced'
  <2>1. /\ UNCHANGED <<granted, holder>> /\ pc[r] = "commit"
        /\ balance' = [balance EXCEPT ![holder[r]] = minus(snapshot[r].balance, reserved[r])]
        /\ net' = [net EXCEPT ![r] =
             [d \in Dims |-> net[r][d] + (balance[holder[r]][d] - balance'[holder[r]][d])]]
    BY <1>7 DEF ReserveCommit
  <2>2. holder[r] \in Holders
    BY <2>1 DEF IInv, SnapshotInv
  <2>3. \A g \in Holders \ {holder[r]} : balance'[g] = balance[g]
    BY <2>1 DEF IInv, TypeOK
  <2>4. \A q \in Rids \ {r} : net'[q] = net[q]
    BY <2>1 DEF IInv, TypeOK
  <2>5. \A d \in Dims : net'[r][d] = net[r][d] + (balance[holder[r]][d] - balance'[holder[r]][d])
    BY <2>1 DEF IInv, TypeOK
  <2>6. \A d \in Dims : net[r][d] \in Int /\ balance[holder[r]][d] \in Int /\ balance'[holder[r]][d] \in Int
    BY <2>2, WidthAssumption DEF IInv, TypeOK, CostTuple
  <2>7. \A d \in Dims : net'[r][d] = net[r][d] - (balance'[holder[r]][d] - balance[holder[r]][d])
    BY <2>5, <2>6
  <2> QED BY <2>1, <2>2, <2>3, <2>4, <2>7, BalancedMove
<1>8. ASSUME NEW r \in Rids,
             \/ AdmitCheck(r) \/ ReserveSnapshot(r) \/ ReserveRetry(r) \/ AdmitInsert(r)
             \/ touch_reservation(r) \/ commit_finalization(r)
      PROVE  Balanced'
  BY <1>8, BalancedQuiet
     DEF AdmitCheck, ReserveSnapshot, ReserveRetry, AdmitInsert, touch_reservation, commit_finalization
<1>9. ASSUME NEW c \in Calls, NEW r \in Rids,
             \/ \E actual \in Actuals : FinalizeClaim(c, r, actual)
             \/ FinalizeReject(c, r) \/ CancelTake(c, r)
             \/ RollbackTake(c, r) \/ RollbackReject(c, r)
      PROVE  Balanced'
  BY <1>9, BalancedQuiet DEF FinalizeClaim, FinalizeReject, CancelTake, RollbackTake, RollbackReject
<1>10. ASSUME NEW c \in Calls,
              FinalizeExpiredRemove(c) \/ FinalizeRemove(c) \/ FinalizeRecord(c)
       PROVE  Balanced'
  BY <1>10, BalancedQuiet DEF FinalizeExpiredRemove, FinalizeRemove, FinalizeRecord
<1>11. ASSUME NEW c \in Calls,
              FinalizeExpiredRefund(c) \/ FinalizeRefund(c) \/ CancelRefund(c) \/ RollbackRefund(c)
       PROVE  Balanced'
  BY <1>11, RefundingCall, BalancedRefund
<1> QED
  BY <1>1, <1>2, <1>3, <1>4, <1>5, <1>6, <1>7, <1>8, <1>9, <1>10, <1>11 DEF Next, AdmitStep, CallStep

\* Nothing has been taken from what the funded holders start with.
LEMMA InitBalanced == ASSUME Init, IsFiniteSet(Rids), IInv PROVE Balanced
<1> SUFFICES ASSUME NEW h \in Holders, NEW d \in Dims
             PROVE  granted[h][d] = balance[h][d] + SumFunctionOnSet(Nets(d), Mine(h))
  BY DEF Balanced
<1>1. Mine(h) = {}
  BY GateAssumption DEF Init, Mine
<1>2. SumFunctionOnSet(Nets(d), Mine(h)) = 0
  BY <1>1, SumEmpty
<1>3. granted[h][d] \in Nat /\ granted = balance
  BY DEF Init, IInv, TypeOK
<1> QED BY <1>2, <1>3

\* Short of a clipped credit, what a reservation accounts for is what it took.
LEMMA AccountedIsNet ==
  ASSUME IInv, ~clipped, NEW r \in Rids, NEW d \in Dims
  PROVE  Accounted(r)[d] = net[r][d]
<1>1. CASE Held(r)
  BY <1>1 DEF Accounted, IInv, ExactCharge
<1>2. CASE ~Held(r) /\ Restored(r)
  BY <1>2 DEF Accounted, IInv, ExactCharge, ZERO
<1>3. CASE ~Held(r) /\ ~Restored(r)
  <2>1. pc[r] = "admitted" /\ CallAt(r, SettlingPc) /\ ~CallAt(r, {"expired", "releasing", "refund", "cancelling"})
        /\ ~CallAt(r, {"released", "cancelled", "rolled"})
    BY <1>3 DEF Held, Restored
  <2>2. CallAt(r, {"remove", "record"}) \/ CallAt(r, {"finalized"})
    BY <2>1 DEF CallAt, SettlingPc
  <2>3. ~CallAt(r, {"rolled"})
    BY <2>1 DEF CallAt
  <2>4. CallAt(r, {"remove", "record", "rolling"}) \/ CallAt(r, {"finalized"})
    BY <2>2 DEF CallAt
  <2>5. net[r][d] = rollbackCredit[r][d]
    BY <2>3, <2>4 DEF IInv, CreditInv
  <2> QED BY <1>3, <2>5 DEF Accounted
<1> QED BY <1>1, <1>2, <1>3

\* So the accounts add up.
LEMMA BalancedConserves ==
  ASSUME IInv, Balanced, IsFiniteSet(Rids)
  PROVE  Conservation
<1> SUFFICES ASSUME ~clipped, NEW h \in Holders, NEW d \in Dims
             PROVE  granted[h][d] = balance[h][d]
                      + SumFunctionOnSet([r \in Rids |-> Accounted(r)[d]], Mine(h))
  BY DEF Conservation, Mine
<1>1. [r \in Rids |-> Accounted(r)[d]] = Nets(d)
  BY AccountedIsNet DEF Nets
<1> QED BY <1>1 DEF Balanced

\* Nothing is created or lost: while no credit is cut short by u64::MAX or
\* i64::MAX, what a holder was given is its balance plus what its finitely many
\* reservations account for, over every interleaving of try_reserve, finalize,
\* the cancel guard, rollback_finalization and provision_for.
THEOREM GateConservation ==
  ASSUME IsFiniteSet(Rids)
  PROVE  Spec => []Conservation
<1>1. Init => IInv /\ Balanced
  BY InitIInv, InitBalanced
<1>2. IInv /\ Balanced /\ [Next]_vars => (IInv /\ Balanced)'
  BY NextIInv, NextBalanced
<1>3. IInv /\ Balanced => Conservation
  BY BalancedConserves
<1> QED BY <1>1, <1>2, <1>3, PTL DEF Spec
=============================================================================
