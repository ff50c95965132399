---------------------------- MODULE ClaimService ----------------------------
(***************************************************************************)
(* The claim endpoints of ClaimDesk (app/claimdesk/services.py), as the    *)
(* REST API and the HTML forms both call them, against PostgreSQL in READ  *)
(* COMMITTED.  A worker thread serves one request at a time in a session   *)
(* of its own:                                                             *)
(*                                                                         *)
(*   SELECT the claim, then decide from that snapshot          Accept      *)
(*   (pay only) SELECT the payout                              FindPayout  *)
(*   flush and COMMIT: UPDATE the claim, INSERT the event      Commit...   *)
(*                                                                         *)
(* Other workers' commits fall between these steps.  The flush and the     *)
(* commit are one step: the UPDATE takes the row lock of the claim, is     *)
(* the first statement of the flush, and holds the lock until COMMIT.  The *)
(* UPDATE carries no version: it names the row by id and sets the columns  *)
(* whose value differs from the snapshot.  A refused request commits       *)
(* nothing, so it takes one step.                                          *)
(***************************************************************************)
EXTENDS ClaimRules, Sequences

CONSTANTS
  Users, RoleOf,               \* the accounts and the role of each
  Policies, Holder, Coverage,  \* the policies, who holds each, its limit
  ActivePolicies,              \* the policies with is_active; no code changes it
  ClaimIds,                    \* the identifiers a new claim can be given
  Amounts,                     \* the amounts a request can carry, legal or not
  Slots,                       \* the worker threads
  MaxEvents,                   \* bound: no request starts on a longer history
  None                         \* SQL NULL

ASSUME ServiceAssumption ==
  /\ RoleOf \in [Users -> Role]
  /\ Holder \in [Policies -> Users]
  /\ Coverage \in [Policies -> Nat]
  /\ ActivePolicies \subseteq Policies
  /\ Amounts \subseteq Int
  /\ MaxEvents \in Nat
  /\ None \notin Users \cup ClaimStatus \cup Int

VARIABLES
  claims,     \* the claims table
  events,     \* per claim, its claim_events rows in commit order
  payouts,    \* per claim, its payouts rows in commit order
  tx          \* per worker, the request in flight

vars == <<claims, events, payouts, tx>>
tables == <<claims, events, payouts>>

Absent == [status |-> "ABSENT"]   \* no row with this id

Claim == [policy: Policies, amount: Int, status: ClaimStatus,
          withdrawn_at: BOOLEAN,  \* is the timestamp set
          decided_by: Users \cup {None}]
ClaimEvent == [actor: Users, from_status: ClaimStatus \cup {None},
               to_status: ClaimStatus]
Payout == [amount: Int, paid_by: Users]

Verb == ClaimAction \cup {"update", "withdraw"}
\* server_error: an exception nobody catches; none: no answer was sent.
Reply == Verdict \cup {"server_error", "none"}
Idle == [pc: {"done"}, reply: Reply]
InFlight == [pc: {"decided", "unpaid"}, user: Users, verb: Verb, claim: ClaimIds,
             seen: Claim,         \* the row as the session loaded it
             amount: Int]         \* the amount an update writes

TypeOK ==
  /\ claims \in [ClaimIds -> Claim \cup {Absent}]
  /\ events \in [ClaimIds -> Seq(ClaimEvent)]
  /\ payouts \in [ClaimIds -> Seq(Payout)]
  /\ tx \in [Slots -> Idle \cup InFlight]

Init ==
  /\ claims = [c \in ClaimIds |-> Absent]
  /\ events = [c \in ClaimIds |-> <<>>]
  /\ payouts = [c \in ClaimIds |-> <<>>]
  /\ tx = [s \in Slots |-> [pc |-> "done", reply |-> "none"]]

-----------------------------------------------------------------------------
Answer(s, reply) == tx' = [tx EXCEPT ![s] = [pc |-> "done", reply |-> reply]]

IsOwner(u, row) == Holder[row.policy] = u    \* claimant_id is the policy holder

Event(u, from, to) == [actor |-> u, from_status |-> from, to_status |-> to]
_record_latest(c, u, from, to) ==   \* mutant of _record_event: one row per claim
  events' = [events EXCEPT ![c] = <<Event(u, from, to)>>]
_record_event(c, u, from, to) ==
  events' = [events EXCEPT ![c] = Append(@, Event(u, from, to))]

\* Staff file on behalf of a holder; a customer against a policy they hold.
MayFileAgainst(u, p) == p \in ActivePolicies /\ (RoleOf[u] = "CUSTOMER" => Holder[p] = u)

create_verdict(u, p, amount) ==
  IF ~MayFileAgainst(u, p) THEN "not_found"
  ELSE IF validate_claim_amount(amount, Coverage[p]) THEN "ok" ELSE "unprocessable"

\* The row and the audit row that records it, flushed and committed together.
InsertClaim(s, u, c, p, amount) ==
  /\ tx[s].pc = "done"
  /\ claims[c] = Absent
  /\ claims' = [claims EXCEPT ![c] =
       [policy |-> p, amount |-> amount, status |-> "DRAFT",
        withdrawn_at |-> FALSE, decided_by |-> None]]
  /\ _record_event(c, u, None, "DRAFT")
  /\ Answer(s, "ok")
  /\ UNCHANGED payouts

create_claim(s, u, c, p, amount) ==
  /\ create_verdict(u, p, amount) = "ok"
  /\ InsertClaim(s, u, c, p, amount)

RefuseCreate(s, u, p, amount) ==
  /\ tx[s].pc = "done"
  /\ create_verdict(u, p, amount) # "ok"
  /\ Answer(s, create_verdict(u, p, amount))
  /\ UNCHANGED tables

-----------------------------------------------------------------------------
get_visible_claim(u, c) ==
  claims[c] # Absent /\ can_view_claim(RoleOf[u], IsOwner(u, claims[c]))

\* Mutant of update_verdict: no status check.
update_without_status(row, amount) ==
  IF amount = None \/ validate_claim_amount(amount, Coverage[row.policy])
  THEN "ok" ELSE "unprocessable"

\* What the service decides from the row it read, before it writes anything.
\* An update without an amount has amount = None.
update_verdict(row, amount) ==
  IF row.status \notin EDITABLE_STATUSES THEN "conflict"
  ELSE IF amount = None \/ validate_claim_amount(amount, Coverage[row.policy])
  THEN "ok" ELSE "unprocessable"

withdraw_verdict(row) == IF row.status \in EDITABLE_STATUSES THEN "ok" ELSE "conflict"

Decide(u, verb, c, amount) ==
  LET row == claims[c] IN
  IF ~get_visible_claim(u, c) THEN "not_found"
  ELSE CASE verb = "update"   -> update_verdict(row, amount)
         [] verb = "withdraw" -> withdraw_verdict(row)
         [] OTHER ->
              resolve_transition(verb, row.status, RoleOf[u], IsOwner(u, row), row.amount)

Accept(s, u, verb, c, amount) ==
  /\ tx[s].pc = "done"
  /\ Decide(u, verb, c, amount) = "ok"
  /\ Len(events[c]) < MaxEvents
  /\ tx' = [tx EXCEPT ![s] =
       [pc |-> "decided", user |-> u, verb |-> verb, claim |-> c, seen |-> claims[c],
        amount |-> IF amount = None THEN claims[c].amount ELSE amount]]
  /\ UNCHANGED tables

Refuse(s, u, verb, c, amount) ==
  /\ tx[s].pc = "done"
  /\ Decide(u, verb, c, amount) # "ok"
  /\ Answer(s, Decide(u, verb, c, amount))
  /\ UNCHANGED tables

-----------------------------------------------------------------------------
\* The columns an UPDATE sets: those whose new value is not the one loaded.
Written(new, seen, stored) == IF new = seen THEN stored ELSE new

ReadyToCommit(s, verbs) == tx[s].pc = "decided" /\ tx[s].verb \in verbs

update_claim(s) ==
  LET t == tx[s] IN
  /\ ReadyToCommit(s, {"update"})
  /\ claims' = [claims EXCEPT ![t.claim].amount = Written(t.amount, t.seen.amount, @)]
  /\ Answer(s, "ok")
  /\ UNCHANGED <<events, payouts>>

\* Mutant of withdraw_claim: no audit row.
withdraw_unaudited(s) ==
  /\ ReadyToCommit(s, {"withdraw"})
  /\ claims' = [claims EXCEPT ![tx[s].claim].status = "WITHDRAWN",
                              ![tx[s].claim].withdrawn_at = TRUE]
  /\ Answer(s, "ok")
  /\ UNCHANGED <<events, payouts>>

withdraw_claim(s) ==
  LET t == tx[s] IN
  /\ ReadyToCommit(s, {"withdraw"})
  /\ claims' = [claims EXCEPT ![t.claim].status = "WITHDRAWN",
                              ![t.claim].withdrawn_at = TRUE]
  /\ _record_event(t.claim, t.user, t.seen.status, "WITHDRAWN")
  /\ Answer(s, "ok")
  /\ UNCHANGED payouts

\* Mutant of Transition: the audit row is built from the status already set.
TransitionAuditsNewStatus(s) ==
  LET target == TRANSITIONS[tx[s].verb].target IN
  /\ claims' = [claims EXCEPT ![tx[s].claim].status = target,
       ![tx[s].claim].decided_by = IF target \in {"APPROVED", "REJECTED"}
                                   THEN tx[s].user ELSE @]
  /\ _record_event(tx[s].claim, tx[s].user, target, target)

\* The claim row after an action, and its event: what every action has in common.
Transition(s) ==
  LET t == tx[s]
      target == TRANSITIONS[t.verb].target
  IN
  /\ claims' = [claims EXCEPT
       ![t.claim].status = target,
       ![t.claim].decided_by = IF target \in {"APPROVED", "REJECTED"}
                               THEN Written(t.user, t.seen.decided_by, @) ELSE @]
  /\ _record_event(t.claim, t.user, t.seen.status, target)

apply_transition(s) ==
  /\ ReadyToCommit(s, ClaimAction \ {"pay"})
  /\ Transition(s)
  /\ Answer(s, "ok")
  /\ UNCHANGED payouts

FindPayout(s) ==
  /\ ReadyToCommit(s, {"pay"})
  /\ IF payouts[tx[s].claim] = <<>>
     THEN tx' = [tx EXCEPT ![s].pc = "unpaid"]
     ELSE Answer(s, "conflict")
  /\ UNCHANGED tables

NoUniqueConstraint(c) == TRUE   \* mutant of MayInsertPayout

\* UNIQUE (payouts.claim_id)
MayInsertPayout(c) == payouts[c] = <<>>

pay(s) ==
  LET t == tx[s] IN
  /\ t.pc = "unpaid"
  /\ MayInsertPayout(t.claim)
  /\ Transition(s)
  /\ payouts' = [payouts EXCEPT ![t.claim] =
       Append(@, [amount |-> t.seen.amount, paid_by |-> t.user])]
  /\ Answer(s, "ok")

\* Mutant of PayCollides: the UPDATE and the audit row survive the failed INSERT.
PayCollidesHalfway(s) ==
  /\ tx[s].pc = "unpaid"
  /\ ~MayInsertPayout(tx[s].claim)
  /\ Transition(s)
  /\ Answer(s, "server_error")
  /\ UNCHANGED payouts

\* The INSERT violates the constraint: IntegrityError, nobody catches it,
\* the session closes and the UPDATE is rolled back with it.
PayCollides(s) ==
  /\ tx[s].pc = "unpaid"
  /\ ~MayInsertPayout(tx[s].claim)
  /\ Answer(s, "server_error")
  /\ UNCHANGED tables

\* The process dies, or loses the database, before its COMMIT.
Abort(s) ==
  /\ tx[s].pc # "done"
  /\ Answer(s, "none")
  /\ UNCHANGED tables
-----------------------------------------------------------------------------

Create(s) ==
  \E u \in Users, p \in Policies, amount \in Amounts :
    \/ \E c \in ClaimIds : create_claim(s, u, c, p, amount)
    \/ RefuseCreate(s, u, p, amount)

\* Only an update carries an amount.
Request(s, c) ==
  \E u \in Users, verb \in Verb :
  \E amount \in {None} \cup (IF verb = "update" THEN Amounts ELSE {}) :
    Accept(s, u, verb, c, amount) \/ Refuse(s, u, verb, c, amount)

Commit(s) == update_claim(s) \/ withdraw_claim(s) \/ apply_transition(s) \/ pay(s)

Next ==
  \E s \in Slots :
    \/ Create(s)
    \/ \E c \in ClaimIds : Request(s, c)
    \/ FindPayout(s)
    \/ Commit(s)
    \/ PayCollides(s)
    \/ Abort(s)

Spec == Init /\ [][Next]_vars

-----------------------------------------------------------------------------
(* What holds whatever the interleaving.                                   *)

Existing == {c \in ClaimIds : claims[c] # Absent}
LastEvent(c) == events[c][Len(events[c])]

\* IntegrityQueries: what the tests of the framework ask the database.  Each is
\* the set of the claims it reports.
orphaned_events == {c \in ClaimIds : claims[c] = Absent /\ events[c] # <<>>}
orphaned_payouts == {c \in ClaimIds : claims[c] = Absent /\ payouts[c] # <<>>}
claims_paid_more_than_once == {c \in Existing : Len(payouts[c]) > 1}
paid_claims_without_a_payout ==
  {c \in Existing : claims[c].status = "PAID" /\ payouts[c] = <<>>}
payouts_disagreeing_with_their_claim ==
  {c \in Existing : \E i \in DOMAIN payouts[c] : payouts[c][i].amount # claims[c].amount}
claims_with_no_audit_trail == {c \in Existing : events[c] = <<>>}

(* DB-INT-002 to 004: however many pay requests race past FindPayout, at    *)
(* most one of them inserts a payout, and only for a claim that exists; one *)
(* that stands as PAID has its payout, also when its status is overwritten. *)
PaidExactlyOnce ==
  /\ claims_paid_more_than_once = {} /\ orphaned_payouts = {}
  /\ paid_claims_without_a_payout = {}

(* DB-INT-001 and 006: a claim has a history from its first commit on, and  *)
(* the status stored is the one the last committed audit row records.       *)
StatusIsLastEvent ==
  /\ orphaned_events = {} /\ claims_with_no_audit_trail = {}
  /\ \A c \in Existing : LastEvent(c).to_status = claims[c].status

MayRecord(e, c) ==
  \/ e.from_status = "DRAFT" /\ e.to_status = "WITHDRAWN"
       /\ can_view_claim(RoleOf[e.actor], IsOwner(e.actor, claims[c]))
  \/ \E action \in ClaimAction :
       LET rule == TRANSITIONS[action] IN
       /\ e.from_status = rule.source /\ e.to_status = rule.target
       /\ RoleOf[e.actor] \in rule.roles
       /\ rule.owner_only => IsOwner(e.actor, claims[c])

(* Every audit row after the creation is an edge of the status machine      *)
(* taken by an account that may take it, whatever raced with it.            *)
EventsAreLegal ==
  \A c \in Existing : \A i \in 2..Len(events[c]) : MayRecord(events[c][i], c)

PaymentIsRecorded(c) ==
  LET paid == {i \in DOMAIN events[c] : events[c][i].to_status = "PAID"} IN
  IF payouts[c] = <<>> THEN paid = {}
  ELSE \E i \in paid :
         /\ paid = {i}
         /\ \A j \in DOMAIN payouts[c] : payouts[c][j].paid_by = events[c][i].actor

(* The ledger and the audit trail tell the same story: there is a payout    *)
(* exactly when one row records the move to PAID, by the account that paid. *)
PayoutIsAudited == \A c \in ClaimIds : PaymentIsRecorded(c)

(* No edit, raced or not, takes an amount outside the policy's coverage.    *)
AmountIsCovered ==
  \A c \in Existing : validate_claim_amount(claims[c].amount, Coverage[claims[c].policy])

OnlyGrows(c) ==
  /\ SubSeq(events'[c], 1, Len(events[c])) = events[c]
  /\ SubSeq(payouts'[c], 1, Len(payouts[c])) = payouts[c]
  /\ claims'[c].status # claims[c].status => Len(events'[c]) = Len(events[c]) + 1

(* The trail and the ledger are append-only, and no step changes the status *)
(* of a claim without adding the row that says so.                          *)
HistoryIsAppendOnly == [][\A c \in ClaimIds : OnlyGrows(c)]_vars

-----------------------------------------------------------------------------
(* What the code promises, and keeps only while no two requests overlap.    *)

\* No two requests are in flight on one claim.
OneAtATime ==
  \A r, s \in Slots :
    tx[r].pc # "done" /\ tx[s].pc # "done" /\ tx[r].claim = tx[s].claim => r = s

(* domain.py: a status in TERMINAL_STATUSES accepts no further change.      *)
TerminalIsFinal ==
  [][\A c \in Existing :
       claims[c].status \in TERMINAL_STATUSES => claims'[c] = claims[c]]_vars

(* DB-AUDIT-002: each row starts from the status the row before it reached. *)
AuditChainHasNoGaps ==
  \A c \in ClaimIds : \A i \in 2..Len(events[c]) :
    events[c][i].from_status = events[c][i - 1].to_status

(* DB-INT-005: the amount paid is the amount of the claim, and the claim    *)
(* that was paid stays PAID.                                                *)
PayoutMatchesClaim ==
  /\ payouts_disagreeing_with_their_claim = {}
  /\ \A c \in Existing : payouts[c] # <<>> => claims[c].status = "PAID"

(* domain.py: a claim above the limit is approved by an administrator.      *)
ApprovalWithinAuthority ==
  \A c \in Existing :
    /\ claims[c].status \in {"APPROVED", "PAID"}
    /\ claims[c].amount > ADJUSTER_APPROVAL_LIMIT
    => RoleOf[claims[c].decided_by] = "ADMIN"

(* API-STATE-004: paying again is a clean conflict, never a server error.   *)
PayingTwiceIsAConflict ==
  \A s \in Slots : tx[s].pc = "done" => tx[s].reply # "server_error"

(* With one request at a time the endpoints implement ClaimLifecycle.       *)
Lifecycle == INSTANCE ClaimLifecycle WITH
  Unpaid <- None,
  status <- [c \in ClaimIds |-> claims[c].status],
  amount <- [c \in ClaimIds |-> IF claims[c] = Absent THEN 0 ELSE claims[c].amount],
  paid <- [c \in ClaimIds |-> IF payouts[c] = <<>> THEN None ELSE payouts[c][1].amount]
ImplementsLifecycle == Lifecycle!Spec
=============================================================================
