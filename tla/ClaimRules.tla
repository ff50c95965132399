----------------------------- MODULE ClaimRules -----------------------------
(***************************************************************************)
(* The claim rules of ClaimDesk (app/claimdesk/domain.py): pure operators, *)
(* no state.  Money is counted in an arbitrary integer unit; the only      *)
(* amounts the rules tell apart are zero, the adjuster's limit and the     *)
(* coverage limit of the policy.                                           *)
(***************************************************************************)
EXTENDS Integers

CONSTANT ADJUSTER_APPROVAL_LIMIT   \* 5000.00 in the code

ASSUME LimitAssumption == ADJUSTER_APPROVAL_LIMIT \in Nat \ {0}

Role == {"CUSTOMER", "ADJUSTER", "ADMIN"}
Staff == {"ADJUSTER", "ADMIN"}

ClaimStatus == {"DRAFT", "SUBMITTED", "UNDER_REVIEW", "APPROVED",
                "REJECTED", "PAID", "WITHDRAWN"}
TERMINAL_STATUSES == {"PAID", "REJECTED", "WITHDRAWN"}
EditableOnceSubmitted == {"DRAFT", "SUBMITTED"}   \* mutant of the next definition
EDITABLE_STATUSES == {"DRAFT"}

ClaimAction == {"submit", "start_review", "approve", "reject", "pay"}

TransitionRule(source, target, roles, owner_only, amount_limited) ==
  [source |-> source, target |-> target, roles |-> roles,
   owner_only |-> owner_only, amount_limited |-> amount_limited]

TRANSITIONS == [action \in ClaimAction |->
  CASE action = "submit" ->
         TransitionRule("DRAFT", "SUBMITTED", {"CUSTOMER", "ADMIN"}, TRUE, FALSE)
    [] action = "start_review" ->
         TransitionRule("SUBMITTED", "UNDER_REVIEW", Staff, FALSE, FALSE)
    [] action = "approve" ->
         TransitionRule("UNDER_REVIEW", "APPROVED", Staff, FALSE, TRUE)
    [] action = "reject" ->
         TransitionRule("UNDER_REVIEW", "REJECTED", Staff, FALSE, FALSE)
    [] action = "pay" ->
         TransitionRule("APPROVED", "PAID", Staff, FALSE, FALSE)]

Verdict == {"ok", "not_found", "forbidden", "conflict", "unprocessable"}

\* Mutants of resolve_transition: no role check; no approval limit; the role is
\* checked before the status.
resolve_without_role(action, current_status, actor_role, is_owner, amount) ==
  IF current_status # TRANSITIONS[action].source THEN "conflict" ELSE "ok"
resolve_without_limit(action, current_status, actor_role, is_owner, amount) ==
  LET rule == TRANSITIONS[action] IN
  IF current_status # rule.source THEN "conflict"
  ELSE IF actor_role \notin rule.roles \/ (rule.owner_only /\ ~is_owner)
  THEN "forbidden" ELSE "ok"

resolve_role_first(action, current_status, actor_role, is_owner, amount) ==
  LET rule == TRANSITIONS[action] IN
  IF actor_role \notin rule.roles \/ (rule.owner_only /\ ~is_owner) THEN "forbidden"
  ELSE IF current_status # rule.source THEN "conflict" ELSE "ok"

\* The first check that fails decides: the status before any authority.
resolve_transition(action, current_status, actor_role, is_owner, amount) ==
  LET rule == TRANSITIONS[action]
      overLimit == /\ rule.amount_limited
                   /\ actor_role = "ADJUSTER"
                   /\ amount > ADJUSTER_APPROVAL_LIMIT
  IN  IF current_status # rule.source THEN "conflict"
      ELSE IF \/ actor_role \notin rule.roles
              \/ rule.owner_only /\ ~is_owner
              \/ overLimit
           THEN "forbidden"
           ELSE "ok"

can_view_claim(actor_role, is_owner) == actor_role \in Staff \/ is_owner

validate_claim_amount(amount, coverage_limit) == 0 < amount /\ amount <= coverage_limit
=============================================================================
