----------------------------- MODULE CapTokens ------------------------------
(***************************************************************************)
(* Capability tokens (crates/cap-token): an issued scope, narrowed by a    *)
(* chain of attenuation blocks, checked against a request and projected    *)
(* into the claims that policy and memory rely on afterwards. Signatures   *)
(* and the Datalog engine are external: a token is its blocks, and a check *)
(* holds or not.                                                           *)
(***************************************************************************)
EXTENDS Naturals, Sequences, FiniteSets

CONSTANTS
  Scopes,      \* what a token may be issued with
  Narrowings,  \* blocks: [kind, expires, budget, tools, audience], as scopes are
  Requests,    \* [now, audience, tool, cost]
  I64Max,      \* numbers travel as i64 in the blocks; they are u64 outside
  MaxBlocks    \* bound: blocks of a token

ASSUME CapTokenAssumption ==
  /\ I64Max \in Nat /\ MaxBlocks \in Nat
  /\ \A s \in Scopes : s.kind = "scope" /\ s.expires \in Nat /\ s.budget \in Nat
  /\ \A n \in Narrowings : /\ n.kind \in {"expiry", "budget", "tools", "audience", "other"}
                           /\ n.expires \in Nat /\ n.budget \in Nat
  /\ \A q \in Requests : /\ q.now \in Nat /\ q.cost \in Nat
                         /\ q = [now |-> q.now, audience |-> q.audience,
                                 tool |-> q.tool, cost |-> q.cost]

VARIABLE token   \* the blocks of one token, <<>> before it is issued

\* A token is a scope and what narrows it.
CapTypeOK ==
  token # <<>> => token[1] \in Scopes /\ \A i \in 2..Len(token) : token[i] \in Narrowings

CapInit == token = <<>>

\* i64::try_from(n).unwrap_or(i64::MAX)
ClampI64(n) == IF n > I64Max THEN I64Max ELSE n

\* issue: the scope as four checks, and as claims in the block's context.
Issues(scope) == token = <<>> /\ token' = <<scope>>

\* attenuate appends one check.
Attenuates(rule) ==
  token # <<>> /\ Len(token) < MaxBlocks /\ token' = Append(token, rule)

OfKind(t, kinds) == {r \in {t[i] : i \in 1..Len(t)} : r.kind \in kinds}

\* A check on predicate p in block b fails for a request.
Violates(b, req, p) ==
  \/ p = "time" /\ b.kind \in {"scope", "expiry"} /\ req.now > b.expires
  \/ p = "audience" /\ b.kind \in {"scope", "audience"} /\ req.audience # b.audience
  \/ p = "tool" /\ b.kind \in {"scope", "tools"} /\ req.tool \notin b.tools
  \/ p = "cost" /\ b.kind \in {"scope", "budget"} /\ ClampI64(req.cost) > ClampI64(b.budget)

FailedChecks(t, req) ==
  {p \in {"time", "audience", "tool", "cost"} : \E i \in 1..Len(t) : Violates(t[i], req, p)}

\* map_authz_error: expiry first, then audience, tool and budget.
AuthzError(t, req) ==
  LET failed == FailedChecks(t, req) IN
  IF "time" \in failed THEN "Expired"
  ELSE IF "audience" \in failed THEN "AudienceMismatch"
  ELSE IF "tool" \in failed THEN "ToolNotAllowed"
  ELSE IF "cost" \in failed THEN "BudgetExhausted"
  ELSE "none"

\* A block the projector does not recognise rejects the token.
Projectable(t) == OfKind(t, {"other"}) = {}

Authorized(t, req) == AuthzError(t, req) = "none" /\ Projectable(t)

Least(S) == CHOOSE n \in S : \A k \in S : n <= k

\* effective_claims_from_blocks: the issued claims, met with every narrowing.
effective_claims(t) ==
  [expires |-> Least({r.expires : r \in OfKind(t, {"scope", "expiry"})}),
   budget |-> Least({t[1].budget}
                \cup {ClampI64(r.budget) : r \in OfKind(t, {"budget"})}),
   tools |-> {x \in t[1].tools : \A r \in OfKind(t, {"tools"}) : x \in r.tools},
   audience |-> t[1].audience]

CapNext ==
  \/ \E scope \in Scopes : Issues(scope)
  \/ \E rule \in Narrowings : Attenuates(rule)

CapSpec == CapInit /\ [][CapNext]_token

(***************************************************************************)
(* What a token allows, every token it was narrowed from allows too. The   *)
(* claims handed on are exactly as narrow as the checks: whatever tool and *)
(* cost they still name would have passed, and the request itself lies     *)
(* within them, its cost as far as an i64 can tell (verify.rs:135-168). A  *)
(* budget error means that the same request at no cost passes the checks.  *)
(***************************************************************************)
TokensNarrow ==
  token # <<>> => \A req \in Requests :
    /\ Authorized(token, req) =>
         LET claims == effective_claims(token) IN
         /\ \A n \in 1..Len(token) : Authorized(SubSeq(token, 1, n), req)
         /\ req.now <= claims.expires /\ req.tool \in claims.tools
         /\ ClampI64(req.cost) <= claims.budget /\ req.audience = claims.audience
         /\ \A tool \in claims.tools, cost \in 0..claims.budget :
              Authorized(token, [req EXCEPT !.tool = tool, !.cost = cost])
    /\ AuthzError(token, req) = "BudgetExhausted" =>
         AuthzError(token, [req EXCEPT !.cost = 0]) = "none"
=============================================================================
