------------------------- MODULE ClaimServiceProofs -------------------------
(***************************************************************************)
(* Proofs about ClaimService for every set of workers, claims, accounts,   *)
(* policies and amounts.  The first part is about what holds whatever the  *)
(* interleaving (IInv), the second about what the endpoints promise, and   *)
(* keep as long as no two requests are in flight on the same claim         *)
(* (TurnInv under OneAtATime), however many workers there are and whatever *)
(* they do to other claims meanwhile.  The runs race_terminal and          *)
(* race_double_pay show what happens without that hypothesis.              *)
(***************************************************************************)
EXTENDS ClaimService, SequenceTheorems, TLAPS

-----------------------------------------------------------------------------
(* Deciding about a request yields a verdict, whatever the request.         *)
LEMMA DecideType ==
  ASSUME TypeOK, NEW u \in Users, NEW verb \in Verb, NEW c \in ClaimIds, NEW amount
  PROVE  Decide(u, verb, c, amount) \in Verdict
<1>1. update_verdict(claims[c], amount) \in Verdict
  BY DEF update_verdict, Verdict
<1>2. withdraw_verdict(claims[c]) \in Verdict
  BY DEF withdraw_verdict, Verdict
<1>3. ASSUME verb \in ClaimAction
      PROVE  resolve_transition(verb, claims[c].status, RoleOf[u],
               IsOwner(u, claims[c]), claims[c].amount) \in Verdict
  BY DEF resolve_transition, Verdict
<1>4. CASE ~get_visible_claim(u, c)
  BY <1>4 DEF Decide, Verdict
<1>5. CASE get_visible_claim(u, c)
  <2>1. CASE verb = "update"
    BY <1>1, <1>5, <2>1 DEF Decide, ClaimAction
  <2>2. CASE verb = "withdraw"
    BY <1>2, <1>5, <2>2 DEF Decide, ClaimAction
  <2>3. CASE verb \in ClaimAction
    BY <1>3, <1>5, <2>3 DEF Decide, ClaimAction
  <2>4. QED
    BY <2>1, <2>2, <2>3 DEF Verb
<1>6. QED
  BY <1>4, <1>5

(* Every edge of the status machine ends in a status.                       *)
LEMMA TransitionsType ==
  ASSUME NEW action \in ClaimAction
  PROVE  /\ TRANSITIONS[action].source \in ClaimStatus
         /\ TRANSITIONS[action].target \in ClaimStatus
  BY DEF TRANSITIONS, TransitionRule, ClaimAction, ClaimStatus

(* Answering a request frees its worker and touches no other.               *)
LEMMA AnswerType ==
  ASSUME TypeOK, NEW s \in Slots, NEW reply \in Reply, Answer(s, reply)
  PROVE  tx' \in [Slots -> Idle \cup InFlight]
  BY DEF TypeOK, Answer, Idle

(* An audit row extends the history of one claim by a well-formed row.      *)
LEMMA EventType ==
  ASSUME TypeOK, NEW c \in ClaimIds, NEW u \in Users,
         NEW from \in ClaimStatus \cup {None}, NEW to \in ClaimStatus,
         _record_event(c, u, from, to)
  PROVE  events' \in [ClaimIds -> Seq(ClaimEvent)]
<1>1. Event(u, from, to) \in ClaimEvent
  BY DEF Event, ClaimEvent
<1>2. events[c] \in Seq(ClaimEvent)
  BY DEF TypeOK
<1>3. Append(events[c], Event(u, from, to)) \in Seq(ClaimEvent)
  BY <1>1, <1>2
<1>4. QED
  BY <1>3 DEF TypeOK, _record_event

-----------------------------------------------------------------------------
(* What a decision rests on besides the status and the amount: that the     *)
(* claim is filed under the policy that was read, and that the caller's role*)
(* and ownership, which a request takes as they were when it was let in,    *)
(* allow it.                                                                *)
DecisionIsSound(t) ==
  LET row == claims[t.claim]
      rule == TRANSITIONS[t.verb]
  IN
  /\ row # Absent /\ row.policy = t.seen.policy
  /\ can_view_claim(RoleOf[t.user], IsOwner(t.user, row))
  /\ t.pc = "unpaid" => t.verb = "pay"
  /\ t.verb = "update" => validate_claim_amount(t.amount, Coverage[row.policy])
  /\ t.verb = "withdraw" => t.seen.status = "DRAFT"
  /\ t.verb \in ClaimAction =>
       /\ t.seen.status = rule.source
       /\ RoleOf[t.user] \in rule.roles
       /\ rule.owner_only => IsOwner(t.user, row)
DecisionsAreSound == \A s \in Slots : tx[s].pc # "done" => DecisionIsSound(tx[s])

(* The inductive invariant.  Beside the types and what the runs check of    *)
(* each claim it carries DecisionsAreSound: the commit of a request relies  *)
(* on what was true of the claim when the request was decided, and this is  *)
(* the part of it that no other request can take away.                      *)
RowIsSound(c) ==
  /\ claims[c] = Absent <=> events[c] = <<>>
  /\ claims[c] = Absent => payouts[c] = <<>>
  /\ Len(payouts[c]) <= 1
  /\ claims[c] # Absent =>
       /\ events[c][Len(events[c])].to_status = claims[c].status
       /\ claims[c].status = "PAID" => payouts[c] # <<>>
       /\ \A i \in 2..Len(events[c]) : MayRecord(events[c][i], c)
       /\ validate_claim_amount(claims[c].amount, Coverage[claims[c].policy])

IInv == TypeOK /\ DecisionsAreSound /\ \A c \in ClaimIds : RowIsSound(c)

(* A request in flight is one, and the claim it names is filed.             *)
LEMMA InFlightType ==
  ASSUME IInv, NEW s \in Slots, tx[s].pc # "done"
  PROVE  /\ tx[s] \in InFlight
         /\ tx[s].claim \in ClaimIds
         /\ claims[tx[s].claim] \in Claim
         /\ DecisionIsSound(tx[s])
<1>1. tx[s] \in InFlight
  BY DEF IInv, TypeOK, Idle
<1>2. DecisionIsSound(tx[s])
  BY DEF IInv, DecisionsAreSound
<1>3. claims[tx[s].claim] \in Claim
  BY <1>1, <1>2 DEF DecisionIsSound, InFlight, IInv, TypeOK
<1>4. QED
  BY <1>1, <1>2, <1>3 DEF InFlight

(* Columns that a commit may set leave the row a row of the same policy.    *)
LEMMA RowType ==
  ASSUME NEW row \in Claim, NEW status \in ClaimStatus, NEW amount \in Int,
         NEW withdrawn \in BOOLEAN, NEW decided \in Users \cup {None}
  PROVE  LET new == [row EXCEPT !.status = status, !.amount = amount,
                       !.withdrawn_at = withdrawn, !.decided_by = decided]
         IN  new \in Claim /\ new.policy = row.policy /\ new.amount = amount
             /\ new.status = status
  BY DEF Claim

(* A claim whose rows a step leaves alone stays sound.                      *)
LEMMA RowUntouched ==
  ASSUME NEW c \in ClaimIds, RowIsSound(c), claims'[c] = claims[c],
         events'[c] = events[c], payouts'[c] = payouts[c]
  PROVE  RowIsSound(c)'
  BY DEF RowIsSound, MayRecord, IsOwner

(* A decision survives any step that keeps its claim filed under its policy *)
(* and its own request in flight.                                           *)
LEMMA DecisionUntouched ==
  ASSUME NEW s \in Slots, tx[s].pc # "done", DecisionIsSound(tx[s]), tx'[s] = tx[s],
         claims'[tx[s].claim] # Absent,
         claims'[tx[s].claim].policy = claims[tx[s].claim].policy
  PROVE  DecisionIsSound(tx[s])'
  BY DEF DecisionIsSound, IsOwner

(* A commit that sets the status of a filed claim and records the event     *)
(* keeps the claim sound, if the event is legal and the ledger follows.     *)
LEMMA CommitKeepsRow ==
  ASSUME TypeOK, NEW c \in ClaimIds, RowIsSound(c),
         NEW u \in Users, NEW from \in ClaimStatus, NEW to \in ClaimStatus,
         MayRecord(Event(u, from, to), c),
         claims[c] \in Claim, claims'[c] \in Claim,
         claims'[c].status = to, claims'[c].policy = claims[c].policy,
         claims'[c].amount = claims[c].amount,
         _record_event(c, u, from, to),
         Len(payouts'[c]) <= 1, to = "PAID" => payouts'[c] # <<>>
  PROVE  RowIsSound(c)'
<1> DEFINE e == Event(u, from, to)
<1>1. events[c] \in Seq(ClaimEvent) /\ events'[c] = Append(events[c], e)
  BY DEF TypeOK, _record_event
<1>2. e \in ClaimEvent /\ e.to_status = to
  BY DEF Event, ClaimEvent
<1>3. /\ Len(events'[c]) = Len(events[c]) + 1
      /\ events'[c][Len(events[c]) + 1] = e
      /\ \A i \in 1..Len(events[c]) : events'[c][i] = events[c][i]
      /\ events'[c] # <<>>
  BY <1>1, <1>2
<1>4. claims[c] # Absent /\ claims'[c] # Absent
  BY DEF Claim, Absent, ClaimStatus
<1>5. ASSUME NEW i \in 2..Len(events'[c])
      PROVE  MayRecord(events[c][i], c)'
  <2>1. MayRecord(events'[c][i], c)
    <3>1. CASE i = Len(events[c]) + 1
      BY <1>3, <3>1
    <3>2. CASE i # Len(events[c]) + 1
      <4>1. Len(events[c]) \in Nat
        BY <1>1
      <4>2. i \in 2..Len(events[c])
        BY <1>3, <3>2, <4>1
      <4>3. events'[c][i] = events[c][i]
        BY <1>3, <4>1, <4>2
      <4>4. QED
        BY <1>4, <4>2, <4>3 DEF RowIsSound
    <3>3. QED
      BY <3>1, <3>2
  <2>2. QED
    BY <2>1 DEF MayRecord, IsOwner
<1>6. validate_claim_amount(claims'[c].amount, Coverage[claims'[c].policy])
  BY <1>4 DEF RowIsSound
<1>7. events'[c][Len(events'[c])].to_status = claims'[c].status
  BY <1>2, <1>3
<1>8. QED
  BY <1>3, <1>4, <1>5, <1>6, <1>7 DEF RowIsSound

(* A step that frees one worker, and keeps every filed claim filed under    *)
(* its policy, takes no decision's ground away.                             *)
LEMMA DecisionsSurvive ==
  ASSUME IInv, NEW s \in Slots, NEW reply \in Reply, Answer(s, reply),
         \A c \in ClaimIds : claims[c] # Absent =>
            claims'[c] # Absent /\ claims'[c].policy = claims[c].policy
  PROVE  DecisionsAreSound'
<1> SUFFICES ASSUME NEW r \in Slots, tx'[r].pc # "done"
             PROVE  DecisionIsSound(tx[r])'
  BY DEF DecisionsAreSound
<1>1. tx \in [Slots -> Idle \cup InFlight]
  BY DEF IInv, TypeOK
<1>2. r # s /\ tx'[r] = tx[r]
  BY <1>1 DEF Answer
<1>3. tx[r].claim \in ClaimIds /\ DecisionIsSound(tx[r]) /\ tx[r].pc # "done"
  BY <1>2, InFlightType
<1>4. claims[tx[r].claim] # Absent
  BY <1>3 DEF DecisionIsSound
<1>5. QED
  BY <1>2, <1>3, <1>4, DecisionUntouched

(* Requests that end without a commit: refused, beaten to the payout, or    *)
(* lost with their process.                                                 *)
LEMMA NothingWritten ==
  ASSUME IInv, NEW s \in Slots, NEW reply \in Reply, Answer(s, reply), UNCHANGED tables
  PROVE  IInv'
<1>1. TypeOK'
  BY AnswerType DEF IInv, TypeOK, tables
<1>2. DecisionsAreSound'
  BY DecisionsSurvive DEF tables
<1>3. ASSUME NEW c \in ClaimIds PROVE RowIsSound(c)'
  BY RowUntouched DEF IInv, tables
<1>4. QED
  BY <1>1, <1>2, <1>3 DEF IInv

(* A commit writes one filed claim, keeps its policy, and frees the worker. *)
LEMMA OneClaimWritten ==
  ASSUME IInv, NEW s \in Slots, NEW c \in ClaimIds, Answer(s, "ok"),
         NEW row \in Claim, claims' = [claims EXCEPT ![c] = row],
         claims[c] \in Claim => row.policy = claims[c].policy,
         events' \in [ClaimIds -> Seq(ClaimEvent)],
         payouts' \in [ClaimIds -> Seq(Payout)],
         \A d \in ClaimIds \ {c} : events'[d] = events[d] /\ payouts'[d] = payouts[d],
         RowIsSound(c)'
  PROVE  IInv'
<1>1. claims \in [ClaimIds -> Claim \cup {Absent}]
  BY DEF IInv, TypeOK
<1>2. row # Absent
  BY DEF Claim, Absent, ClaimStatus
<1>3. "ok" \in Reply
  BY DEF Reply, Verdict
<1>4. TypeOK'
  BY <1>1, <1>3, AnswerType DEF IInv, TypeOK
<1>5. DecisionsAreSound'
  <2>1. ASSUME NEW d \in ClaimIds, claims[d] # Absent
        PROVE  claims'[d] # Absent /\ claims'[d].policy = claims[d].policy
    BY <1>1, <1>2, <2>1
  <2>2. QED
    BY <1>3, <2>1, DecisionsSurvive
<1>6. ASSUME NEW d \in ClaimIds PROVE RowIsSound(d)'
  <2>1. CASE d = c
    BY <2>1
  <2>2. CASE d # c
    BY <1>1, <2>2, RowUntouched DEF IInv
  <2>3. QED
    BY <2>1, <2>2
<1>7. QED
  BY <1>4, <1>5, <1>6 DEF IInv

-----------------------------------------------------------------------------
(* The empty database satisfies the invariant.                              *)
LEMMA InitInv == Init => IInv
<1> SUFFICES ASSUME Init PROVE IInv
  OBVIOUS
<1>1. TypeOK
  BY DEF Init, TypeOK, Idle, Reply
<1>2. DecisionsAreSound
  BY DEF Init, DecisionsAreSound
<1>3. \A c \in ClaimIds : RowIsSound(c)
  BY DEF Init, RowIsSound
<1>4. QED
  BY <1>1, <1>2, <1>3 DEF IInv

(* A row and its first event, whoever files it, for an amount the policy    *)
(* covers.                                                                  *)
LEMMA InsertStep ==
  ASSUME IInv, NEW s \in Slots, NEW u \in Users, NEW c \in ClaimIds,
         NEW p \in Policies, NEW amount \in Int,
         validate_claim_amount(amount, Coverage[p]), InsertClaim(s, u, c, p, amount)
  PROVE  IInv'
<1> DEFINE row == [policy |-> p, amount |-> amount, status |-> "DRAFT",
                   withdrawn_at |-> FALSE, decided_by |-> None]
<1> USE ServiceAssumption
<1>1. row \in Claim
  BY DEF Claim, ClaimStatus
<1>2. claims[c] = Absent /\ events[c] = <<>> /\ payouts[c] = <<>>
  BY DEF InsertClaim, IInv, RowIsSound
<1>3. Absent \notin Claim
  BY DEF Absent, Claim, ClaimStatus
<1>4. TypeOK /\ events \in [ClaimIds -> Seq(ClaimEvent)]
      /\ claims \in [ClaimIds -> Claim \cup {Absent}]
  BY DEF IInv, TypeOK
<1>5. events' \in [ClaimIds -> Seq(ClaimEvent)]
  BY <1>4, EventType DEF InsertClaim, ClaimStatus
<1>6. events'[c] = <<Event(u, None, "DRAFT")>>
  BY <1>2, <1>4 DEF InsertClaim, _record_event
<1>7. claims'[c] = row
  BY <1>4 DEF InsertClaim
<1>8. RowIsSound(c)'
  <2>1. claims'[c] # Absent
    BY <1>1, <1>3, <1>7
  <2>2. Len(payouts'[c]) <= 1
    BY <1>2 DEF InsertClaim
  <2>3. Len(events'[c]) = 1 /\ events'[c] # <<>> /\ events'[c][1].to_status = "DRAFT"
    BY <1>6 DEF Event
  <2>4. \A i \in 2..Len(events'[c]) : FALSE
    BY <2>3
  <2>5. QED
    BY <1>7, <2>1, <2>2, <2>3, <2>4 DEF RowIsSound
<1>9. claims' = [claims EXCEPT ![c] = row] /\ Answer(s, "ok") /\ payouts' = payouts
      /\ events' = [events EXCEPT ![c] = Append(@, Event(u, None, "DRAFT"))]
  BY DEF InsertClaim, _record_event
<1>10. \A d \in ClaimIds \ {c} : events'[d] = events[d] /\ payouts'[d] = payouts[d]
  BY <1>4, <1>9
<1>11. payouts' \in [ClaimIds -> Seq(Payout)]
  BY <1>9 DEF IInv, TypeOK
<1> HIDE DEF row
<1>12. QED
  BY <1>1, <1>2, <1>3, <1>5, <1>8, <1>9, <1>10, <1>11, OneClaimWritten

(* What Accept has decided is sound when it is decided.                     *)
LEMMA AcceptStep ==
  ASSUME IInv, NEW s \in Slots, NEW u \in Users, NEW verb \in Verb,
         NEW c \in ClaimIds, NEW amount \in {None} \cup Amounts,
         Accept(s, u, verb, c, amount)
  PROVE  IInv'
<1> USE ServiceAssumption
<1> DEFINE new == [pc |-> "decided", user |-> u, verb |-> verb, claim |-> c,
                   seen |-> claims[c],
                   amount |-> IF amount = None THEN claims[c].amount ELSE amount]
<1>1. get_visible_claim(u, c) /\ claims[c] \in Claim
  BY DEF Accept, Decide, get_visible_claim, IInv, TypeOK
<1>2. UNCHANGED tables /\ tx' = [tx EXCEPT ![s] = new]
  BY DEF Accept
<1>3. new \in InFlight
  <2>1. (IF amount = None THEN claims[c].amount ELSE amount) \in Int
    BY <1>1 DEF Claim
  <2>2. QED
    BY <1>1, <2>1 DEF InFlight
<1>4. TypeOK'
  BY <1>2, <1>3 DEF IInv, TypeOK, tables
<1>5. DecisionIsSound(new)
  <2>1. claims[c] # Absent /\ can_view_claim(RoleOf[u], IsOwner(u, claims[c]))
    BY <1>1 DEF get_visible_claim
  <2>2. ASSUME verb = "update"
        PROVE  validate_claim_amount(new.amount, Coverage[claims[c].policy])
    <3>1. update_verdict(claims[c], amount) = "ok"
      BY <1>1, <2>2 DEF Accept, Decide
    <3>2. amount = None \/ validate_claim_amount(amount, Coverage[claims[c].policy])
      BY <3>1 DEF update_verdict
    <3>3. validate_claim_amount(claims[c].amount, Coverage[claims[c].policy])
      BY <2>1 DEF IInv, RowIsSound
    <3>4. QED
      BY <3>2, <3>3
  <2>3. ASSUME verb = "withdraw" PROVE claims[c].status = "DRAFT"
    <3>1. withdraw_verdict(claims[c]) = "ok"
      BY <1>1, <2>3 DEF Accept, Decide
    <3>2. QED
      BY <3>1 DEF withdraw_verdict, EDITABLE_STATUSES
  <2>4. ASSUME verb \in ClaimAction
        PROVE  /\ claims[c].status = TRANSITIONS[verb].source
               /\ RoleOf[u] \in TRANSITIONS[verb].roles
               /\ TRANSITIONS[verb].owner_only => IsOwner(u, claims[c])
    <3>1. resolve_transition(verb, claims[c].status, RoleOf[u],
            IsOwner(u, claims[c]), claims[c].amount) = "ok"
      BY <1>1, <2>4 DEF Accept, Decide, ClaimAction
    <3>2. QED
      BY <3>1 DEF resolve_transition
  <2>5. QED
    BY <2>1, <2>2, <2>3, <2>4 DEF DecisionIsSound
<1>6. DecisionsAreSound'
  <2> SUFFICES ASSUME NEW r \in Slots, tx'[r].pc # "done"
               PROVE  DecisionIsSound(tx[r])'
    BY DEF DecisionsAreSound
  <2>1. CASE r = s
    <3>1. tx'[r] = new
      BY <1>2, <2>1 DEF IInv, TypeOK
    <3>2. claims' = claims
      BY <1>2 DEF tables
    <3> HIDE DEF new
    <3>3. QED
      BY <1>5, <3>1, <3>2 DEF DecisionIsSound, IsOwner
  <2>2. CASE r # s
    <3>1. tx'[r] = tx[r]
      BY <1>2, <2>2 DEF IInv, TypeOK
    <3>2. DecisionIsSound(tx[r]) /\ tx[r].pc # "done"
      BY <3>1, InFlightType
    <3>3. QED
      BY <1>2, <3>1, <3>2, DecisionUntouched DEF tables, DecisionIsSound
  <2>3. QED
    BY <2>1, <2>2
<1>7. ASSUME NEW d \in ClaimIds PROVE RowIsSound(d)'
  BY <1>2, RowUntouched DEF IInv, tables
<1>8. QED
  BY <1>4, <1>6, <1>7 DEF IInv

(* A committed edit leaves its row covered and its history alone.           *)
LEMMA UpdateStep ==
  ASSUME IInv, NEW s \in Slots, update_claim(s)
  PROVE  IInv'
<1>1. PICK t \in InFlight : t = tx[s]
  BY InFlightType DEF update_claim, ReadyToCommit
<1> DEFINE c == t.claim
<1>2. c \in ClaimIds /\ claims[c] \in Claim /\ DecisionIsSound(t) /\ t.verb = "update"
  BY <1>1, InFlightType DEF update_claim, ReadyToCommit
<1>3. PICK row \in Claim :
        row = [claims[c] EXCEPT !.amount = Written(t.amount, t.seen.amount, @)]
  BY <1>1, <1>2 DEF Claim, InFlight, Written
<1>4. row.policy = claims[c].policy /\ row.status = claims[c].status
  BY <1>2, <1>3 DEF Claim
<1>5. claims' = [claims EXCEPT ![c] = row] /\ claims'[c] = row
  BY <1>1, <1>2, <1>3 DEF update_claim, IInv, TypeOK
<1>6. UNCHANGED <<events, payouts>> /\ Answer(s, "ok")
  BY DEF update_claim
<1>7. validate_claim_amount(row.amount, Coverage[row.policy])
  <2>1. validate_claim_amount(t.amount, Coverage[claims[c].policy])
    BY <1>2 DEF DecisionIsSound
  <2>2. validate_claim_amount(claims[c].amount, Coverage[claims[c].policy])
    BY <1>2 DEF DecisionIsSound, IInv, RowIsSound
  <2>3. row.amount \in {t.amount, claims[c].amount}
    BY <1>2, <1>3 DEF Written, Claim
  <2>4. QED
    BY <1>4, <2>1, <2>2, <2>3
<1> HIDE DEF c
<1>8. RowIsSound(c)'
  <2>1. claims[c] # Absent /\ claims'[c] # Absent
    BY <1>2, <1>5 DEF Claim, Absent, ClaimStatus
  <2>2. RowIsSound(c)
    BY <1>2 DEF IInv
  <2>3. QED
    BY <1>4, <1>5, <1>6, <1>7, <2>1, <2>2 DEF RowIsSound, MayRecord, IsOwner
<1>9. events' \in [ClaimIds -> Seq(ClaimEvent)] /\ payouts' \in [ClaimIds -> Seq(Payout)]
  BY <1>6 DEF IInv, TypeOK
<1>10. QED
  BY <1>2, <1>4, <1>5, <1>6, <1>8, <1>9, OneClaimWritten

(* A committed withdrawal writes the row and its audit row together.        *)
LEMMA WithdrawStep ==
  ASSUME IInv, NEW s \in Slots, withdraw_claim(s)
  PROVE  IInv'
<1>1. PICK t \in InFlight : t = tx[s]
  BY InFlightType DEF withdraw_claim, ReadyToCommit
<1> DEFINE c == t.claim
<1>2. /\ c \in ClaimIds /\ claims[c] \in Claim /\ DecisionIsSound(t)
      /\ t.verb = "withdraw" /\ t.user \in Users
  BY <1>1, InFlightType DEF withdraw_claim, ReadyToCommit, InFlight
<1>3. PICK row \in Claim :
        row = [claims[c] EXCEPT !.status = "WITHDRAWN", !.withdrawn_at = TRUE]
  BY <1>2 DEF Claim, ClaimStatus
<1>4. row.policy = claims[c].policy /\ row.status = "WITHDRAWN"
      /\ row.amount = claims[c].amount
  BY <1>2, <1>3 DEF Claim
<1>5. claims' = [claims EXCEPT ![c] = row] /\ claims'[c] = row
  BY <1>1, <1>2, <1>3 DEF withdraw_claim, IInv, TypeOK
<1>6. /\ UNCHANGED payouts /\ Answer(s, "ok")
      /\ _record_event(c, t.user, "DRAFT", "WITHDRAWN")
  <2>1. t.seen.status = "DRAFT"
    BY <1>2 DEF DecisionIsSound
  <2>2. QED
    BY <1>1, <2>1 DEF withdraw_claim
<1>7. MayRecord(Event(t.user, "DRAFT", "WITHDRAWN"), c)
  BY <1>2 DEF MayRecord, Event, DecisionIsSound
<1>8. TypeOK /\ RowIsSound(c)
  BY <1>2 DEF IInv
<1> HIDE DEF c
<1>9. RowIsSound(c)'
  <2>1. Len(payouts'[c]) <= 1
    BY <1>6, <1>8 DEF RowIsSound
  <2>2. "DRAFT" \in ClaimStatus /\ "WITHDRAWN" \in ClaimStatus
    BY DEF ClaimStatus
  <2>3. QED
    BY <1>2, <1>4, <1>5, <1>6, <1>7, <1>8, <2>1, <2>2, CommitKeepsRow
<1>10. /\ events' \in [ClaimIds -> Seq(ClaimEvent)]
       /\ payouts' \in [ClaimIds -> Seq(Payout)]
       /\ \A d \in ClaimIds \ {c} : events'[d] = events[d] /\ payouts'[d] = payouts[d]
  BY <1>2, <1>6, <1>8, EventType DEF TypeOK, _record_event, ClaimStatus
<1>11. QED
  BY <1>2, <1>4, <1>5, <1>6, <1>9, <1>10, OneClaimWritten

(* What apply_transition writes to the claim and its history, pay or not.   *)
LEMMA TransitionWrites ==
  ASSUME IInv, NEW s \in Slots, tx[s].pc # "done", tx[s].verb \in ClaimAction,
         Transition(s),
         NEW t \in InFlight, t = tx[s]
  PROVE  \E row \in Claim :
           /\ claims[t.claim] \in Claim
           /\ claims' = [claims EXCEPT ![t.claim] = row] /\ claims'[t.claim] = row
           /\ row.policy = claims[t.claim].policy
           /\ row.amount = claims[t.claim].amount
           /\ row.status = TRANSITIONS[t.verb].target
           /\ TRANSITIONS[t.verb].target \in ClaimStatus
           /\ TRANSITIONS[t.verb].source \in ClaimStatus
           /\ t.user \in Users /\ t.claim \in ClaimIds
           /\ LET from == TRANSITIONS[t.verb].source
                  to == TRANSITIONS[t.verb].target
              IN  /\ _record_event(t.claim, t.user, from, to)
                  /\ MayRecord(Event(t.user, from, to), t.claim)
<1> DEFINE target == TRANSITIONS[t.verb].target
           c == t.claim
           decided == IF target \in {"APPROVED", "REJECTED"}
                      THEN Written(t.user, t.seen.decided_by, claims[c].decided_by)
                      ELSE claims[c].decided_by
<1>1. /\ c \in ClaimIds /\ claims[c] \in Claim /\ DecisionIsSound(t)
      /\ t.user \in Users /\ t.verb \in ClaimAction
  BY InFlightType DEF InFlight
<1>2. target \in ClaimStatus /\ TRANSITIONS[t.verb].source \in ClaimStatus
  BY <1>1, TransitionsType
<1>3. decided \in Users \cup {None}
  BY <1>1 DEF Written, Claim
<1>4. PICK row \in Claim :
        row = [claims[c] EXCEPT !.status = target, !.decided_by = decided]
  BY <1>1, <1>2, <1>3 DEF Claim
<1>5. /\ row.policy = claims[c].policy /\ row.status = target
      /\ row.amount = claims[c].amount
  BY <1>1, <1>4 DEF Claim
<1>6. claims' = [claims EXCEPT ![c] = row] /\ claims'[c] = row
  BY <1>1, <1>4 DEF Transition, IInv, TypeOK
<1>7. t.seen.status = TRANSITIONS[t.verb].source
  BY <1>1 DEF DecisionIsSound
<1>8. _record_event(c, t.user, TRANSITIONS[t.verb].source, target)
  BY <1>7 DEF Transition
<1>9. MayRecord(Event(t.user, TRANSITIONS[t.verb].source, target), c)
  BY <1>1 DEF MayRecord, Event, DecisionIsSound
<1>10. QED
  BY <1>1, <1>2, <1>4, <1>5, <1>6, <1>8, <1>9

(* The target of an action says whether it pays.                            *)
LEMMA OnlyPayPays ==
  ASSUME NEW action \in ClaimAction, TRANSITIONS[action].target = "PAID"
  PROVE  action = "pay"
  BY DEF TRANSITIONS, TransitionRule, ClaimAction

(* A committed transition writes the row and its audit row together.        *)
LEMMA TransitionStep ==
  ASSUME IInv, NEW s \in Slots, apply_transition(s)
  PROVE  IInv'
<1>1. PICK t \in InFlight : t = tx[s]
  BY InFlightType DEF apply_transition, ReadyToCommit
<1> DEFINE c == t.claim
           from == TRANSITIONS[t.verb].source
           to == TRANSITIONS[t.verb].target
<1>2. tx[s].pc # "done" /\ t.verb \in ClaimAction /\ t.verb # "pay"
  BY <1>1 DEF apply_transition, ReadyToCommit
<1>3. PICK row \in Claim :
        /\ claims[c] \in Claim
        /\ claims' = [claims EXCEPT ![c] = row] /\ claims'[c] = row
        /\ row.policy = claims[c].policy /\ row.amount = claims[c].amount
        /\ row.status = to /\ to \in ClaimStatus /\ from \in ClaimStatus
        /\ t.user \in Users /\ c \in ClaimIds
        /\ _record_event(c, t.user, from, to) /\ MayRecord(Event(t.user, from, to), c)
  BY <1>1, <1>2, TransitionWrites DEF apply_transition
<1>4. UNCHANGED payouts /\ Answer(s, "ok")
  BY DEF apply_transition
<1>5. to # "PAID"
  BY <1>2, OnlyPayPays
<1>6. TypeOK /\ RowIsSound(c)
  BY <1>3 DEF IInv
<1> HIDE DEF c, from, to
<1>7. RowIsSound(c)'
  <2>1. Len(payouts'[c]) <= 1
    BY <1>4, <1>6 DEF RowIsSound
  <2>2. QED
    BY <1>3, <1>5, <1>6, <2>1, CommitKeepsRow
<1>8. /\ events' \in [ClaimIds -> Seq(ClaimEvent)]
      /\ payouts' \in [ClaimIds -> Seq(Payout)]
      /\ \A d \in ClaimIds \ {c} : events'[d] = events[d] /\ payouts'[d] = payouts[d]
  BY <1>3, <1>4, <1>6, EventType DEF TypeOK, _record_event
<1>9. QED
  BY <1>3, <1>4, <1>7, <1>8, OneClaimWritten

(* Looking for a payout changes no table.                                   *)
LEMMA FindPayoutStep ==
  ASSUME IInv, NEW s \in Slots, FindPayout(s)
  PROVE  IInv'
<1>1. CASE payouts[tx[s].claim] = <<>>
  <2>1. PICK t \in InFlight : t = tx[s] /\ t.verb = "pay" /\ t.pc # "done"
    BY InFlightType DEF FindPayout, ReadyToCommit
  <2>2. UNCHANGED tables /\ tx' = [tx EXCEPT ![s] = [t EXCEPT !.pc = "unpaid"]]
    BY <1>1, <2>1 DEF FindPayout, ReadyToCommit
  <2>3. [t EXCEPT !.pc = "unpaid"] \in InFlight
    BY <2>1 DEF InFlight
  <2>4. TypeOK'
    BY <2>2, <2>3 DEF IInv, TypeOK, tables
  <2>5. DecisionsAreSound'
    <3> SUFFICES ASSUME NEW r \in Slots, tx'[r].pc # "done"
                 PROVE  DecisionIsSound(tx[r])'
      BY DEF DecisionsAreSound
    <3>1. DecisionIsSound(t)
      BY <2>1, InFlightType
    <3>2. CASE r = s
      <4>1. tx'[r] = [t EXCEPT !.pc = "unpaid"]
        BY <2>2, <3>2 DEF IInv, TypeOK
      <4>2. /\ tx'[r].user = t.user /\ tx'[r].verb = t.verb /\ tx'[r].claim = t.claim
            /\ tx'[r].seen = t.seen /\ tx'[r].amount = t.amount
        BY <2>1, <4>1 DEF InFlight
      <4>3. claims' = claims
        BY <2>2 DEF tables
      <4>4. QED
        BY <2>1, <3>1, <4>2, <4>3 DEF DecisionIsSound, IsOwner
    <3>3. CASE r # s
      <4>1. tx'[r] = tx[r]
        BY <2>2, <3>3 DEF IInv, TypeOK
      <4>2. DecisionIsSound(tx[r]) /\ tx[r].pc # "done"
        BY <4>1, InFlightType
      <4>3. QED
        BY <2>2, <4>1, <4>2, DecisionUntouched DEF tables, DecisionIsSound
    <3>4. QED
      BY <3>2, <3>3
  <2>6. ASSUME NEW d \in ClaimIds PROVE RowIsSound(d)'
    BY <2>2, RowUntouched DEF IInv, tables
  <2>7. QED
    BY <2>4, <2>5, <2>6 DEF IInv
<1>2. CASE payouts[tx[s].claim] # <<>>
  BY <1>2, NothingWritten DEF FindPayout, Reply, Verdict
<1>3. QED
  BY <1>1, <1>2

(* The unique key lets one payout in; it comes with the status and the      *)
(* audit row.                                                               *)
LEMMA PayStep ==
  ASSUME IInv, NEW s \in Slots, pay(s)
  PROVE  IInv'
<1>1. PICK t \in InFlight : t = tx[s]
  BY InFlightType DEF pay
<1> DEFINE c == t.claim
           from == TRANSITIONS[t.verb].source
           to == TRANSITIONS[t.verb].target
           row_paid == [amount |-> t.seen.amount, paid_by |-> t.user]
<1>2. tx[s].pc # "done" /\ t.verb \in ClaimAction
  BY <1>1, InFlightType DEF pay, DecisionIsSound, ClaimAction
<1>3. PICK row \in Claim :
        /\ claims[c] \in Claim
        /\ claims' = [claims EXCEPT ![c] = row] /\ claims'[c] = row
        /\ row.policy = claims[c].policy /\ row.amount = claims[c].amount
        /\ row.status = to /\ to \in ClaimStatus /\ from \in ClaimStatus
        /\ t.user \in Users /\ c \in ClaimIds
        /\ _record_event(c, t.user, from, to) /\ MayRecord(Event(t.user, from, to), c)
  BY <1>1, <1>2, TransitionWrites DEF pay
<1>4. /\ Answer(s, "ok") /\ payouts[c] = <<>>
      /\ payouts' = [payouts EXCEPT ![c] = Append(@, row_paid)]
  BY <1>1 DEF pay, MayInsertPayout
<1>5. row_paid \in Payout
  BY <1>3 DEF Payout, InFlight, Claim
<1>6. TypeOK /\ RowIsSound(c)
  BY <1>3 DEF IInv
<1> HIDE DEF c, from, to, row_paid
<1>7. payouts'[c] = <<row_paid>>
  BY <1>3, <1>4, <1>6 DEF TypeOK
<1>8. Len(payouts'[c]) <= 1 /\ payouts'[c] # <<>>
  BY <1>7
<1>9. RowIsSound(c)'
  BY <1>3, <1>6, <1>8, CommitKeepsRow
<1>10. events' \in [ClaimIds -> Seq(ClaimEvent)]
  BY <1>3, <1>6, EventType
<1>11. payouts' \in [ClaimIds -> Seq(Payout)]
  BY <1>3, <1>4, <1>5, <1>6 DEF TypeOK
<1>12. \A d \in ClaimIds \ {c} : events'[d] = events[d] /\ payouts'[d] = payouts[d]
  BY <1>3, <1>4, <1>6 DEF TypeOK, _record_event
<1>13. QED
  BY <1>3, <1>4, <1>9, <1>10, <1>11, <1>12, OneClaimWritten

-----------------------------------------------------------------------------
(* Every step of the service is one of five.  The second is wider than      *)
(* create_claim: the form of the browser (ClaimIntake) files amounts that   *)
(* the REST schema lets nobody ask for.                                     *)
NothingCommitted(s) == (\E reply \in Reply : Answer(s, reply)) /\ UNCHANGED tables

FileLegally(s) ==
  \E u \in Users, c \in ClaimIds, p \in Policies, amount \in Int :
    validate_claim_amount(amount, Coverage[p]) /\ InsertClaim(s, u, c, p, amount)

AcceptAny(s) ==
  \E u \in Users, verb \in Verb, c \in ClaimIds, amount \in {None} \cup Amounts :
    Accept(s, u, verb, c, amount)

ServiceStep(s) ==
  NothingCommitted(s) \/ FileLegally(s) \/ AcceptAny(s) \/ FindPayout(s) \/ Commit(s)

ServiceNext == \E s \in Slots : ServiceStep(s)

(* The requests of the model are among those the proofs allow.              *)
LEMMA NextIsServiceNext == TypeOK /\ Next => ServiceNext
<1> SUFFICES ASSUME TypeOK, Next PROVE ServiceNext
  OBVIOUS
<1> USE DEF ServiceNext, ServiceStep
<1>1. ASSUME NEW s \in Slots, Create(s) PROVE ServiceStep(s)
  <2>1. PICK u \in Users, p \in Policies, amount \in Amounts :
          \/ \E c \in ClaimIds : create_claim(s, u, c, p, amount)
          \/ RefuseCreate(s, u, p, amount)
    BY <1>1 DEF Create
  <2>2. CASE RefuseCreate(s, u, p, amount)
    BY <2>2 DEF NothingCommitted, RefuseCreate, create_verdict, Reply, Verdict
  <2>3. ASSUME NEW c \in ClaimIds, create_claim(s, u, c, p, amount) PROVE FileLegally(s)
    <3>1. validate_claim_amount(amount, Coverage[p]) /\ InsertClaim(s, u, c, p, amount)
      BY <2>3 DEF create_claim, create_verdict
    <3>2. amount \in Int
      BY ServiceAssumption
    <3>3. QED
      BY <3>1, <3>2 DEF FileLegally
  <2>4. QED
    BY <2>1, <2>2, <2>3
<1>2. ASSUME NEW s \in Slots, NEW c \in ClaimIds, Request(s, c) PROVE ServiceStep(s)
  <2>1. PICK u \in Users, verb \in Verb, amount \in {None} \cup Amounts :
          Accept(s, u, verb, c, amount) \/ Refuse(s, u, verb, c, amount)
    BY <1>2 DEF Request
  <2>2. CASE Refuse(s, u, verb, c, amount)
    <3>1. Decide(u, verb, c, amount) \in Reply
      BY DecideType DEF Reply
    <3>2. QED
      BY <2>2, <3>1 DEF NothingCommitted, Refuse
  <2>3. QED
    BY <2>1, <2>2 DEF AcceptAny
<1>3. ASSUME NEW s \in Slots, PayCollides(s) PROVE ServiceStep(s)
  BY <1>3 DEF NothingCommitted, PayCollides, Reply
<1>4. ASSUME NEW s \in Slots, Abort(s) PROVE ServiceStep(s)
  BY <1>4 DEF NothingCommitted, Abort, Reply
<1>5. QED
  BY <1>1, <1>2, <1>3, <1>4 DEF Next

(* Every step of the service keeps the invariant.                           *)
LEMMA ServiceInv == IInv /\ [ServiceNext]_vars => IInv'
<1> SUFFICES ASSUME IInv, [ServiceNext]_vars PROVE IInv'
  OBVIOUS
<1>1. CASE UNCHANGED vars
  <2>1. TypeOK'
    BY <1>1 DEF vars, IInv, TypeOK
  <2>2. DecisionsAreSound'
    BY <1>1 DEF vars, IInv, DecisionsAreSound, DecisionIsSound, IsOwner
  <2>3. ASSUME NEW c \in ClaimIds PROVE RowIsSound(c)'
    BY <1>1, RowUntouched DEF vars, IInv
  <2>4. QED
    BY <2>1, <2>2, <2>3 DEF IInv
<1>2. ASSUME NEW s \in Slots, NothingCommitted(s) PROVE IInv'
  BY <1>2, NothingWritten DEF NothingCommitted
<1>3. ASSUME NEW s \in Slots, FileLegally(s) PROVE IInv'
  BY <1>3, InsertStep DEF FileLegally
<1>4. ASSUME NEW s \in Slots, AcceptAny(s) PROVE IInv'
  BY <1>4, AcceptStep DEF AcceptAny
<1>5. ASSUME NEW s \in Slots, FindPayout(s) PROVE IInv'
  BY <1>5, FindPayoutStep
<1>6. ASSUME NEW s \in Slots, Commit(s) PROVE IInv'
  BY <1>6, UpdateStep, WithdrawStep, TransitionStep, PayStep DEF Commit
<1>7. QED
  BY <1>1, <1>2, <1>3, <1>4, <1>5, <1>6 DEF ServiceNext, ServiceStep

(* So does every step of the specification.                                 *)
LEMMA StepInv == IInv /\ [Next]_vars => IInv'
  BY NextIsServiceNext, ServiceInv DEF IInv

(* The invariant holds of every reachable state.                            *)
THEOREM Invariance == Spec => []IInv
  BY InitInv, StepInv, PTL DEF Spec

(* Rows and requests are always well-formed: no UPDATE ever reaches a row   *)
(* that was never filed.                                                    *)
THEOREM TypeCorrect == Spec => []TypeOK
<1>1. IInv => TypeOK
  BY DEF IInv
<1>2. QED
  BY <1>1, Invariance, PTL

(* However many workers race to pay it, a claim is paid at most once, and   *)
(* whenever it stands as PAID the payout is there.                          *)
THEOREM Ledger == Spec => []PaidExactlyOnce
<1>1. IInv => PaidExactlyOnce
  BY DEF IInv, TypeOK, RowIsSound, PaidExactlyOnce, Existing,
         claims_paid_more_than_once, orphaned_payouts, paid_claims_without_a_payout
<1>2. QED
  BY <1>1, Invariance, PTL

(* The status of a claim is always the one its last audit row records.      *)
THEOREM StatusFollowsHistory == Spec => []StatusIsLastEvent
<1>1. IInv => StatusIsLastEvent
  BY DEF IInv, RowIsSound, StatusIsLastEvent, Existing, LastEvent,
         orphaned_events, claims_with_no_audit_trail
<1>2. QED
  BY <1>1, Invariance, PTL

(* Every audit row after the creation is a legal edge taken by an account   *)
(* that may take it, and no amount ever leaves the policy's coverage.       *)
THEOREM HistoryIsLegal == Spec => [](EventsAreLegal /\ AmountIsCovered)
<1>1. IInv => EventsAreLegal /\ AmountIsCovered
  BY DEF IInv, RowIsSound, EventsAreLegal, AmountIsCovered, Existing
<1>2. QED
  BY <1>1, Invariance, PTL

-----------------------------------------------------------------------------
(* What one step can do to one claim: nothing that its history would show,  *)
(* or one event that says what became of it; a payout goes with a move to   *)
(* PAID and with nothing else.                                              *)
Silent(c) ==
  /\ events'[c] = events[c] /\ payouts'[c] = payouts[c]
  /\ claims'[c].status = claims[c].status

Recorded(c, u, from, to) ==
  /\ events'[c] = Append(events[c], Event(u, from, to))
  /\ claims'[c].status = to
  /\ to = "PAID" => /\ payouts[c] = <<>>
                    /\ \E row \in Payout : row.paid_by = u /\ payouts'[c] = <<row>>
  /\ to # "PAID" => payouts'[c] = payouts[c]

Moved(c) ==
  \E u \in Users, from \in ClaimStatus \cup {None}, to \in ClaimStatus :
    Recorded(c, u, from, to)

(* Filing a claim touches no other, and starts a trail.                     *)
LEMMA InsertMoves ==
  ASSUME IInv, NEW s \in Slots, FileLegally(s), NEW c \in ClaimIds
  PROVE  Silent(c) \/ Moved(c)
<1>1. PICK u \in Users, d \in ClaimIds, p \in Policies, amount \in Int :
        InsertClaim(s, u, d, p, amount)
  BY DEF FileLegally
<1>2. CASE c = d
  <2>1. Recorded(c, u, None, "DRAFT")
    BY <1>1, <1>2 DEF InsertClaim, _record_event, IInv, TypeOK, Recorded
  <2>2. QED
    BY <2>1 DEF Moved, ClaimStatus
<1>3. CASE c # d
  BY <1>1, <1>3 DEF InsertClaim, _record_event, IInv, TypeOK, Silent
<1>4. QED
  BY <1>2, <1>3

(* A commit touches one claim, and adds what it did to its trail.           *)
LEMMA CommitMoves ==
  ASSUME IInv, NEW s \in Slots, Commit(s), NEW c \in ClaimIds
  PROVE  Silent(c) \/ Moved(c)
<1>1. PICK t \in InFlight : t = tx[s] /\ t.claim \in ClaimIds /\ DecisionIsSound(t)
                            /\ t.user \in Users /\ tx[s].pc # "done"
                            /\ claims[t.claim] \in Claim
  BY InFlightType
  DEF Commit, update_claim, withdraw_claim, apply_transition, pay, ReadyToCommit, InFlight
<1>2. CASE update_claim(s)
  BY <1>1, <1>2 DEF update_claim, IInv, TypeOK, Silent, Claim
<1>3. CASE withdraw_claim(s)
  <2>1. CASE c = t.claim
    <3>1. t.seen.status = "DRAFT"
      BY <1>1, <1>3 DEF withdraw_claim, ReadyToCommit, DecisionIsSound
    <3>2. claims'[c].status = "WITHDRAWN"
      BY <1>1, <1>3, <2>1 DEF withdraw_claim, IInv, TypeOK, Claim
    <3>3. Recorded(c, t.user, "DRAFT", "WITHDRAWN")
      BY <1>1, <1>3, <2>1, <3>1, <3>2
      DEF withdraw_claim, _record_event, IInv, TypeOK, Recorded
    <3>4. QED
      BY <1>1, <3>3 DEF Moved, ClaimStatus
  <2>2. CASE c # t.claim
    BY <1>1, <1>3, <2>2 DEF withdraw_claim, _record_event, IInv, TypeOK, Silent
  <2>3. QED
    BY <2>1, <2>2
<1>4. ASSUME apply_transition(s) \/ pay(s) PROVE Silent(c) \/ Moved(c)
  <2> DEFINE from == TRANSITIONS[t.verb].source
             to == TRANSITIONS[t.verb].target
  <2>1. Transition(s) /\ t.verb \in ClaimAction
    BY <1>1, <1>4 DEF apply_transition, pay, ReadyToCommit, DecisionIsSound, ClaimAction
  <2>2. /\ claims'[t.claim].status = to /\ to \in ClaimStatus /\ from \in ClaimStatus
        /\ _record_event(t.claim, t.user, from, to)
        /\ \E row \in Claim : claims' = [claims EXCEPT ![t.claim] = row]
    BY <1>1, <2>1, TransitionWrites
  <2>3. IF to = "PAID"
        THEN /\ payouts[t.claim] = <<>>
             /\ payouts' = [payouts EXCEPT ![t.claim] =
                  Append(@, [amount |-> t.seen.amount, paid_by |-> t.user])]
        ELSE payouts' = payouts
    <3>1. CASE apply_transition(s)
      <4>1. to # "PAID"
        BY <1>1, <2>1, <3>1, OnlyPayPays DEF apply_transition, ReadyToCommit
      <4>2. QED
        BY <3>1, <4>1 DEF apply_transition
    <3>2. CASE pay(s)
      <4>1. to = "PAID"
        BY <1>1, <3>2 DEF pay, DecisionIsSound, TRANSITIONS, TransitionRule, ClaimAction
      <4>2. QED
        BY <1>1, <3>2, <4>1 DEF pay, MayInsertPayout
    <3>3. QED
      BY <1>4, <3>1, <3>2
  <2>4. [amount |-> t.seen.amount, paid_by |-> t.user] \in Payout
    BY <1>1 DEF Payout, InFlight, Claim
  <2>5. TypeOK
    BY DEF IInv
  <2> HIDE DEF from, to
  <2>6. CASE c = t.claim
    <3>1. events'[c] = Append(events[c], Event(t.user, from, to))
      BY <1>1, <2>2, <2>5, <2>6 DEF _record_event, TypeOK
    <3>2. ASSUME to = "PAID"
          PROVE  payouts[c] = <<>>
                 /\ \E row \in Payout : row.paid_by = t.user /\ payouts'[c] = <<row>>
      <4> DEFINE row == [amount |-> t.seen.amount, paid_by |-> t.user]
      <4>1. payouts'[c] = Append(<<>>, row)
        BY <1>1, <2>3, <2>5, <2>6, <3>2 DEF TypeOK
      <4>2. row \in Payout /\ row.paid_by = t.user
        BY <2>4
      <4> HIDE DEF row
      <4>3. payouts'[c] = <<row>>
        BY <4>1
      <4>4. payouts[c] = <<>>
        BY <2>3, <2>6, <3>2
      <4>5. QED
        BY <4>2, <4>3, <4>4
    <3>3. Recorded(c, t.user, from, to)
      BY <2>2, <2>3, <2>6, <3>1, <3>2 DEF Recorded
    <3>4. QED
      BY <1>1, <2>2, <3>3 DEF Moved
  <2>7. CASE c # t.claim
    BY <1>1, <2>2, <2>3, <2>5, <2>7 DEF _record_event, TypeOK, Silent
  <2>8. QED
    BY <2>6, <2>7
<1>5. QED
  BY <1>2, <1>3, <1>4 DEF Commit

(* Of each claim, a step changes nothing or records what it changed.        *)
LEMMA StepOnClaim ==
  ASSUME IInv, [ServiceNext]_vars, NEW c \in ClaimIds
  PROVE  Silent(c) \/ Moved(c)
<1>1. CASE UNCHANGED tables
  BY <1>1 DEF tables, Silent
<1>2. ASSUME NEW s \in Slots, ServiceStep(s), ~UNCHANGED tables
      PROVE  FileLegally(s) \/ Commit(s)
  BY <1>2 DEF ServiceStep, NothingCommitted, AcceptAny, Accept, FindPayout
<1>3. QED
  BY <1>1, <1>2, InsertMoves, CommitMoves DEF ServiceNext, vars, tables

(* Audit rows and payouts are only ever added, and no status changes        *)
(* without the row that says so, whatever runs concurrently.                *)
THEOREM NothingIsRewritten == Spec => HistoryIsAppendOnly
<1>1. ASSUME IInv, [Next]_vars, NEW c \in ClaimIds PROVE OnlyGrows(c)
  <2>1. events[c] \in Seq(ClaimEvent) /\ payouts[c] \in Seq(Payout) /\ TypeOK
    BY <1>1 DEF IInv, TypeOK
  <2>2. Silent(c) \/ Moved(c)
    BY <1>1, <2>1, NextIsServiceNext, StepOnClaim
  <2>3. CASE Silent(c)
    <3>1. SubSeq(events[c], 1, Len(events[c])) = events[c]
      BY <2>1, SubSeqFull
    <3>2. SubSeq(payouts[c], 1, Len(payouts[c])) = payouts[c]
      BY <2>1, SubSeqFull
    <3>3. QED
      BY <2>3, <3>1, <3>2 DEF Silent, OnlyGrows
  <2>4. ASSUME NEW u \in Users, NEW from \in ClaimStatus \cup {None},
               NEW to \in ClaimStatus, Recorded(c, u, from, to)
        PROVE  OnlyGrows(c)
    <3>1. Event(u, from, to) \in ClaimEvent
      BY DEF Event, ClaimEvent
    <3>2. /\ Len(events'[c]) = Len(events[c]) + 1
          /\ SubSeq(events'[c], 1, Len(events[c])) = events[c]
      BY <2>1, <2>4, <3>1, AppendProperties, AppendIsConcat DEF Recorded
    <3>3. SubSeq(payouts'[c], 1, Len(payouts[c])) = payouts[c]
      BY <2>1, <2>4, SubSeqFull, SubSeqEmpty DEF Recorded
    <3>4. QED
      BY <3>2, <3>3 DEF OnlyGrows
  <2>5. QED
    BY <2>2, <2>3, <2>4 DEF Moved
<1>2. IInv /\ [Next]_vars => [\A c \in ClaimIds : OnlyGrows(c)]_vars
  BY <1>1
<1>3. QED
  BY <1>2, Invariance, PTL DEF Spec, HistoryIsAppendOnly

(* A payment enters the ledger together with its audit row.                 *)
LEMMA PaymentRecordedStep ==
  ASSUME IInv, [ServiceNext]_vars, NEW c \in ClaimIds, PaymentIsRecorded(c)
  PROVE  PaymentIsRecorded(c)'
<1>1. events[c] \in Seq(ClaimEvent) /\ payouts[c] \in Seq(Payout)
  BY DEF IInv, TypeOK
<1>2. CASE Silent(c)
  BY <1>2 DEF Silent, PaymentIsRecorded
<1>3. ASSUME NEW u \in Users, NEW from \in ClaimStatus \cup {None}, NEW to \in ClaimStatus,
             Recorded(c, u, from, to)
      PROVE  PaymentIsRecorded(c)'
  <2> DEFINE e == Event(u, from, to)
             last == Len(events[c]) + 1
             Paid(evs) == {i \in DOMAIN evs : evs[i].to_status = "PAID"}
  <2>1. e \in ClaimEvent /\ e.to_status = to /\ e.actor = u
    BY DEF Event, ClaimEvent
  <2>2. events'[c] = Append(events[c], e)
    BY <1>3 DEF Recorded
  <2> HIDE DEF e
  <2>3. /\ DOMAIN events[c] = 1..Len(events[c]) /\ DOMAIN events'[c] = 1..last
        /\ Len(events[c]) \in Nat
        /\ \A i \in 1..Len(events[c]) : events'[c][i] = events[c][i]
        /\ events'[c][last] = e
    BY <1>1, <2>1, <2>2
  <2>4. CASE to # "PAID"
    <3>1. Paid(events'[c]) = Paid(events[c])
      BY <2>1, <2>3, <2>4
    <3>2. payouts'[c] = payouts[c]
      BY <1>3, <2>4 DEF Recorded
    <3>3. \A i \in Paid(events[c]) : events'[c][i] = events[c][i]
      BY <2>3
    <3>4. QED
      BY <3>1, <3>2, <3>3 DEF PaymentIsRecorded
  <2>5. CASE to = "PAID"
    <3>1. PICK row \in Payout : payouts[c] = <<>> /\ row.paid_by = u /\ payouts'[c] = <<row>>
      BY <1>3, <2>5 DEF Recorded
    <3>2. Paid(events[c]) = {}
      BY <3>1 DEF PaymentIsRecorded
    <3>3. Paid(events'[c]) = {last}
      BY <2>1, <2>3, <2>5, <3>2
    <3>4. /\ payouts'[c] # <<>>
          /\ \A j \in DOMAIN payouts'[c] : payouts'[c][j].paid_by = events'[c][last].actor
      BY <2>1, <2>3, <3>1
    <3>5. QED
      BY <3>3, <3>4 DEF PaymentIsRecorded
  <2>6. QED
    BY <2>4, <2>5
<1>4. QED
  BY <1>2, <1>3, StepOnClaim DEF Moved

(* Ledger and audit trail agree on who was paid and by whom, however many   *)
(* workers race to pay.                                                     *)
THEOREM PaymentsAreAudited == Spec => []PayoutIsAudited
<1>1. Init => PayoutIsAudited
  BY DEF Init, PayoutIsAudited, PaymentIsRecorded
<1>2. IInv /\ PayoutIsAudited /\ [Next]_vars => PayoutIsAudited'
  BY NextIsServiceNext, PaymentRecordedStep DEF PayoutIsAudited, IInv
<1>3. QED
  BY <1>1, <1>2, Invariance, PTL DEF Spec

-----------------------------------------------------------------------------
(* One request at a time on a claim.                                        *)

(* A request that nobody overtakes decides on a snapshot that is still the  *)
(* row when it commits.                                                     *)
UpToDate(s) ==
  tx[s].pc # "done" =>
    /\ tx[s].seen = claims[tx[s].claim]
    /\ tx[s].pc = "unpaid" => payouts[tx[s].claim] = <<>>
    /\ tx[s].verb = "update" => tx[s].seen.status = "DRAFT"
    /\ tx[s].verb = "approve" /\ tx[s].seen.amount > ADJUSTER_APPROVAL_LIMIT =>
         RoleOf[tx[s].user] = "ADMIN"

Chained(c) ==
  \A i \in 2..Len(events[c]) : events[c][i].from_status = events[c][i - 1].to_status

Settled(c) ==
  claims[c] # Absent /\ payouts[c] # <<>> =>
    /\ claims[c].status = "PAID"
    /\ \A i \in DOMAIN payouts[c] : payouts[c][i].amount = claims[c].amount

Authorised(c) ==
  /\ claims[c] # Absent
  /\ claims[c].status \in {"APPROVED", "PAID"}
  /\ claims[c].amount > ADJUSTER_APPROVAL_LIMIT
  => RoleOf[claims[c].decided_by] = "ADMIN"

TurnInv ==
  /\ \A s \in Slots : UpToDate(s)
  /\ \A c \in ClaimIds : Chained(c) /\ Settled(c) /\ Authorised(c)

-----------------------------------------------------------------------------
(* The steps of ClaimLifecycle, in the terms of the tables.                 *)
Writes(c, row) == row \in Claim /\ claims' = [claims EXCEPT ![c] = row]

Adds(c, from, to) ==
  \E u \in Users : _record_event(c, u, from, to)

Filed(c, row) ==
  /\ claims[c] = Absent /\ Writes(c, row)
  /\ row.status = "DRAFT" /\ row.amount > 0
  /\ Adds(c, None, "DRAFT")
  /\ payouts' = payouts

Edited(c, row) ==
  /\ claims[c] \in Claim /\ claims[c].status = "DRAFT" /\ Writes(c, row)
  /\ row.status = "DRAFT" /\ row.amount > 0
  /\ UNCHANGED <<events, payouts>>

Advanced(c, row) ==
  /\ claims[c] \in Claim /\ Writes(c, row)
  /\ <<claims[c].status, row.status>> \in Lifecycle!Edges
  /\ row.amount = claims[c].amount
  /\ row.status = "APPROVED" /\ row.amount > ADJUSTER_APPROVAL_LIMIT =>
       RoleOf[row.decided_by] = "ADMIN"
  /\ Adds(c, claims[c].status, row.status)
  /\ payouts' = payouts

Paid(c, row) ==
  /\ claims[c] \in Claim /\ Writes(c, row)
  /\ claims[c].status = "APPROVED" /\ row.status = "PAID"
  /\ row.amount = claims[c].amount /\ row.decided_by = claims[c].decided_by
  /\ Adds(c, "APPROVED", "PAID")
  /\ payouts[c] = <<>>
  /\ \E payout \in Payout : payout.amount = row.amount
                            /\ payouts' = [payouts EXCEPT ![c] = <<payout>>]

OneTurn(c) ==
  \E row \in Claim : Filed(c, row) \/ Edited(c, row) \/ Advanced(c, row) \/ Paid(c, row)

(* Filing a claim is a turn of the lifecycle.                               *)
LEMMA FileIsATurn ==
  ASSUME IInv, NEW s \in Slots, FileLegally(s)
  PROVE  \E c \in ClaimIds : OneTurn(c)
<1>1. PICK u \in Users, c \in ClaimIds, p \in Policies, amount \in Int :
        validate_claim_amount(amount, Coverage[p]) /\ InsertClaim(s, u, c, p, amount)
  BY DEF FileLegally
<1> DEFINE row == [policy |-> p, amount |-> amount, status |-> "DRAFT",
                   withdrawn_at |-> FALSE, decided_by |-> None]
<1>2. row \in Claim /\ row.status = "DRAFT" /\ row.amount = amount
  BY DEF Claim, ClaimStatus
<1>3. /\ claims[c] = Absent /\ claims' = [claims EXCEPT ![c] = row]
      /\ Adds(c, None, "DRAFT") /\ payouts' = payouts
  BY <1>1 DEF InsertClaim, Adds
<1>4. amount > 0
  BY <1>1 DEF validate_claim_amount
<1> HIDE DEF row
<1>5. QED
  BY <1>2, <1>3, <1>4 DEF OneTurn, Filed, Writes

(* So is an edit decided on the row it overwrites,                          *)
LEMMA UpdateIsATurn ==
  ASSUME IInv, NEW s \in Slots, update_claim(s), UpToDate(s)
  PROVE  \E c \in ClaimIds : OneTurn(c)
<1>1. PICK t \in InFlight :
        /\ t = tx[s] /\ t.claim \in ClaimIds /\ claims[t.claim] \in Claim
        /\ DecisionIsSound(t) /\ t.pc # "done" /\ t.verb = "update"
  BY InFlightType DEF update_claim, ReadyToCommit
<1> DEFINE c == t.claim
           row == [claims[c] EXCEPT !.amount = Written(t.amount, t.seen.amount, @)]
<1>2. t.seen = claims[c] /\ claims[c].status = "DRAFT"
  BY <1>1 DEF UpToDate
<1>3. row \in Claim /\ row.status = "DRAFT" /\ row.amount = t.amount
  BY <1>1, <1>2 DEF Claim, InFlight, Written
<1>4. t.amount > 0
  BY <1>1 DEF DecisionIsSound, validate_claim_amount
<1>5. claims' = [claims EXCEPT ![c] = row] /\ UNCHANGED <<events, payouts>>
  BY <1>1 DEF update_claim, IInv, TypeOK
<1> HIDE DEF row
<1>6. QED
  BY <1>1, <1>2, <1>3, <1>4, <1>5 DEF OneTurn, Edited, Writes

(* a withdrawal decided on the row it overwrites,                           *)
LEMMA WithdrawIsATurn ==
  ASSUME IInv, NEW s \in Slots, withdraw_claim(s), UpToDate(s)
  PROVE  \E c \in ClaimIds : OneTurn(c)
<1>1. PICK t \in InFlight :
        /\ t = tx[s] /\ t.claim \in ClaimIds /\ claims[t.claim] \in Claim
        /\ DecisionIsSound(t) /\ t.pc # "done" /\ t.verb = "withdraw" /\ t.user \in Users
  BY InFlightType DEF withdraw_claim, ReadyToCommit, InFlight
<1> DEFINE c == t.claim
           row == [claims[c] EXCEPT !.status = "WITHDRAWN", !.withdrawn_at = TRUE]
<1>2. t.seen = claims[c] /\ claims[c].status = "DRAFT"
  BY <1>1 DEF UpToDate, DecisionIsSound
<1>3. row \in Claim /\ row.status = "WITHDRAWN" /\ row.amount = claims[c].amount
  BY <1>1 DEF Claim, ClaimStatus
<1>4. /\ claims' = [claims EXCEPT ![c] = row] /\ payouts' = payouts
      /\ _record_event(c, t.user, "DRAFT", "WITHDRAWN")
  BY <1>1, <1>2 DEF withdraw_claim, IInv, TypeOK
<1>5. <<"DRAFT", "WITHDRAWN">> \in Lifecycle!Edges
  BY DEF Lifecycle!Edges
<1> HIDE DEF row
<1>6. QED
  BY <1>1, <1>2, <1>3, <1>4, <1>5 DEF OneTurn, Advanced, Adds, Writes

(* Every action of the application but pay is an edge of the lifecycle.     *)
LEMMA RulesAreEdges ==
  ASSUME NEW action \in ClaimAction \ {"pay"}
  PROVE  /\ <<TRANSITIONS[action].source, TRANSITIONS[action].target>> \in Lifecycle!Edges
         /\ TRANSITIONS[action].target = "APPROVED" => action = "approve"
  BY DEF TRANSITIONS, TransitionRule, ClaimAction, Lifecycle!Edges

(* The row that a transition leaves when the snapshot is up to date.        *)
LEMMA TransitionRow ==
  ASSUME IInv, NEW s \in Slots, Transition(s), UpToDate(s),
         NEW t \in InFlight, t = tx[s], t.pc # "done", t.verb \in ClaimAction
  PROVE  LET target == TRANSITIONS[t.verb].target
         IN  /\ claims[t.claim] \in Claim /\ t.claim \in ClaimIds /\ t.user \in Users
             /\ claims[t.claim].status = TRANSITIONS[t.verb].source
             /\ _record_event(t.claim, t.user, claims[t.claim].status, target)
             /\ \E row \in Claim :
                  /\ claims' = [claims EXCEPT ![t.claim] = row]
                  /\ row.status = target /\ row.amount = claims[t.claim].amount
                  /\ IF target \in {"APPROVED", "REJECTED"}
                     THEN row.decided_by = t.user
                     ELSE row.decided_by = claims[t.claim].decided_by
<1> DEFINE c == t.claim
           target == TRANSITIONS[t.verb].target
           decided == IF target \in {"APPROVED", "REJECTED"}
                      THEN t.user ELSE claims[c].decided_by
           row == [claims[c] EXCEPT !.status = target, !.decided_by = decided]
<1>1. /\ c \in ClaimIds /\ claims[c] \in Claim /\ DecisionIsSound(t) /\ t.user \in Users
      /\ t.seen = claims[c]
  BY InFlightType DEF InFlight, UpToDate
<1>2. target \in ClaimStatus /\ decided \in Users \cup {None}
  BY <1>1, TransitionsType DEF Claim
<1>3. Written(t.user, t.seen.decided_by, claims[c].decided_by) = t.user
  BY <1>1 DEF Written
<1>4. claims' = [claims EXCEPT ![c] = row]
  BY <1>1, <1>3 DEF Transition, IInv, TypeOK
<1>5. /\ row \in Claim /\ row.status = target /\ row.amount = claims[c].amount
      /\ row.decided_by = decided
  BY <1>1, <1>2 DEF Claim
<1>6. /\ claims[c].status = TRANSITIONS[t.verb].source
      /\ _record_event(c, t.user, claims[c].status, target)
  BY <1>1 DEF DecisionIsSound, Transition
<1> HIDE DEF row
<1>7. QED
  BY <1>1, <1>4, <1>5, <1>6

(* a transition decided on the row it overwrites,                           *)
LEMMA TransitionIsATurn ==
  ASSUME IInv, NEW s \in Slots, apply_transition(s), UpToDate(s)
  PROVE  \E c \in ClaimIds : OneTurn(c)
<1>1. PICK t \in InFlight : t = tx[s] /\ t.pc # "done" /\ t.verb \in ClaimAction \ {"pay"}
  BY InFlightType DEF apply_transition, ReadyToCommit
<1> DEFINE c == t.claim
           target == TRANSITIONS[t.verb].target
<1>2. PICK row \in Claim :
        /\ claims' = [claims EXCEPT ![c] = row]
        /\ row.status = target /\ row.amount = claims[c].amount
        /\ target = "APPROVED" => row.decided_by = t.user
  BY <1>1, TransitionRow DEF apply_transition
<1>3. /\ claims[c] \in Claim /\ c \in ClaimIds /\ t.user \in Users
      /\ claims[c].status = TRANSITIONS[t.verb].source
      /\ _record_event(c, t.user, claims[c].status, target)
  BY <1>1, TransitionRow DEF apply_transition
<1>4. <<claims[c].status, target>> \in Lifecycle!Edges
  BY <1>1, <1>3, RulesAreEdges
<1>5. ASSUME target = "APPROVED", row.amount > ADJUSTER_APPROVAL_LIMIT
      PROVE  RoleOf[row.decided_by] = "ADMIN"
  <2>1. t.verb = "approve" /\ t.seen = claims[c]
    BY <1>1, <1>5, RulesAreEdges DEF UpToDate
  <2>2. QED
    BY <1>1, <1>2, <1>5, <2>1 DEF UpToDate
<1>6. payouts' = payouts
  BY DEF apply_transition
<1>7. QED
  BY <1>2, <1>4, <1>5, <1>6, <1>3 DEF OneTurn, Advanced, Adds, Writes

(* and a payment decided on the row it overwrites.                          *)
LEMMA PayIsATurn ==
  ASSUME IInv, NEW s \in Slots, pay(s), UpToDate(s)
  PROVE  \E c \in ClaimIds : OneTurn(c)
<1>1. PICK t \in InFlight : t = tx[s] /\ t.pc = "unpaid" /\ t.verb = "pay"
  BY InFlightType DEF pay, DecisionIsSound
<1> DEFINE c == t.claim
           payout == [amount |-> t.seen.amount, paid_by |-> t.user]
<1>2. "pay" \in ClaimAction /\ TRANSITIONS["pay"].source = "APPROVED"
      /\ TRANSITIONS["pay"].target = "PAID"
  BY DEF TRANSITIONS, TransitionRule, ClaimAction
<1>3. PICK row \in Claim :
        /\ claims' = [claims EXCEPT ![c] = row]
        /\ row.status = "PAID" /\ row.amount = claims[c].amount
        /\ row.decided_by = claims[c].decided_by
  BY <1>1, <1>2, TransitionRow DEF pay
<1>4. /\ claims[c] \in Claim /\ c \in ClaimIds /\ t.user \in Users
      /\ claims[c].status = "APPROVED" /\ _record_event(c, t.user, "APPROVED", "PAID")
  BY <1>1, <1>2, TransitionRow DEF pay
<1>5. t.seen = claims[c]
  BY <1>1 DEF UpToDate
<1>6. payout \in Payout /\ payout.amount = row.amount
  BY <1>3, <1>4, <1>5 DEF Payout, Claim
<1>7. payouts[c] = <<>> /\ payouts' = [payouts EXCEPT ![c] = Append(@, payout)]
  BY <1>1 DEF pay, MayInsertPayout
<1> HIDE DEF payout, c
<1>8. payouts' = [payouts EXCEPT ![c] = <<payout>>]
  BY <1>4, <1>7 DEF IInv, TypeOK
<1>9. Paid(c, row)
  BY <1>3, <1>4, <1>6, <1>7, <1>8 DEF Paid, Adds, Writes
<1>10. QED
  BY <1>4, <1>9 DEF OneTurn

(* A step of a request that nobody overtakes is one of the lifecycle, or    *)
(* leaves the tables alone.                                                 *)
LEMMA StepIsATurn ==
  ASSUME IInv, TurnInv, [ServiceNext]_vars
  PROVE  UNCHANGED tables \/ \E c \in ClaimIds : OneTurn(c)
<1>1. CASE UNCHANGED vars
  BY <1>1 DEF vars, tables
<1>2. ASSUME NEW s \in Slots, ServiceStep(s)
      PROVE  UNCHANGED tables \/ \E c \in ClaimIds : OneTurn(c)
  <2>1. UpToDate(s)
    BY DEF TurnInv
  <2>2. CASE NothingCommitted(s) \/ AcceptAny(s) \/ FindPayout(s)
    BY <2>2 DEF NothingCommitted, AcceptAny, Accept, FindPayout
  <2>3. CASE FileLegally(s)
    BY <2>3, FileIsATurn
  <2>4. CASE Commit(s)
    BY <2>1, <2>4, UpdateIsATurn, WithdrawIsATurn, TransitionIsATurn, PayIsATurn DEF Commit
  <2>5. QED
    BY <1>2, <2>2, <2>3, <2>4 DEF ServiceStep
<1>3. QED
  BY <1>1, <1>2 DEF ServiceNext

-----------------------------------------------------------------------------
(* A commit writes the rows of the claim it was asked about, and frees its  *)
(* worker.                                                                  *)
LEMMA CommitWritesOne ==
  ASSUME IInv, NEW s \in Slots, Commit(s)
  PROVE  /\ tx[s].pc # "done" /\ tx[s].claim \in ClaimIds
         /\ Answer(s, "ok")
         /\ \A d \in ClaimIds \ {tx[s].claim} :
              claims'[d] = claims[d] /\ payouts'[d] = payouts[d]
<1>1. tx[s].pc # "done" /\ Answer(s, "ok")
  BY DEF Commit, update_claim, withdraw_claim, apply_transition, pay, ReadyToCommit
<1>2. tx[s].claim \in ClaimIds
  BY <1>1, InFlightType
<1>3. ASSUME NEW d \in ClaimIds \ {tx[s].claim} PROVE claims'[d] = claims[d]
  BY <1>2, <1>3
  DEF Commit, update_claim, withdraw_claim, apply_transition, pay, Transition, IInv, TypeOK
<1>4. ASSUME NEW d \in ClaimIds \ {tx[s].claim} PROVE payouts'[d] = payouts[d]
  BY <1>2, <1>4
  DEF Commit, update_claim, withdraw_claim, apply_transition, pay, IInv, TypeOK
<1>5. QED
  BY <1>1, <1>2, <1>3, <1>4

(* A request is up to date when it is accepted: what it was decided on is   *)
(* what it was decided from.                                                *)
LEMMA AcceptedIsUpToDate ==
  ASSUME IInv, NEW s \in Slots, AcceptAny(s)
  PROVE  UpToDate(s)'
<1>1. PICK u \in Users, verb \in Verb, c \in ClaimIds, amount \in {None} \cup Amounts :
        Accept(s, u, verb, c, amount)
  BY DEF AcceptAny
<1> DEFINE t == [pc |-> "decided", user |-> u, verb |-> verb, claim |-> c,
                 seen |-> claims[c],
                 amount |-> IF amount = None THEN claims[c].amount ELSE amount]
<1>2. tx'[s] = t /\ claims' = claims
  BY <1>1 DEF Accept, tables, IInv, TypeOK
<1>3. Decide(u, verb, c, amount) = "ok" /\ get_visible_claim(u, c)
  BY <1>1 DEF Accept, Decide
<1>4. ASSUME verb = "update" PROVE claims[c].status = "DRAFT"
  <2>1. update_verdict(claims[c], amount) = "ok"
    BY <1>3, <1>4 DEF Decide
  <2>2. QED
    BY <2>1 DEF update_verdict, EDITABLE_STATUSES
<1>5. ASSUME verb = "approve", claims[c].amount > ADJUSTER_APPROVAL_LIMIT
      PROVE  RoleOf[u] = "ADMIN"
  <2>1. resolve_transition(verb, claims[c].status, RoleOf[u],
          IsOwner(u, claims[c]), claims[c].amount) = "ok"
    BY <1>3, <1>5 DEF Decide
  <2>2. /\ RoleOf[u] \in TRANSITIONS[verb].roles
        /\ TRANSITIONS[verb].amount_limited => RoleOf[u] # "ADJUSTER"
    BY <1>5, <2>1 DEF resolve_transition
  <2>3. TRANSITIONS[verb].amount_limited /\ TRANSITIONS[verb].roles = Staff
    BY <1>5 DEF TRANSITIONS, TransitionRule, ClaimAction
  <2>4. QED
    BY <2>2, <2>3 DEF Staff
<1>6. QED
  BY <1>2, <1>4, <1>5 DEF UpToDate

(* Nobody overtakes: the snapshot of every request in flight is still the   *)
(* row after a step, because whoever writes the row is the request itself.  *)
LEMMA SnapshotsStand ==
  ASSUME IInv, TurnInv, OneAtATime, NEW s \in Slots, ServiceStep(s), NEW r \in Slots
  PROVE  UpToDate(r)'
<1>1. tx \in [Slots -> Idle \cup InFlight] /\ UpToDate(r)
  BY DEF IInv, TypeOK, TurnInv
<1>2. CASE r = s
  <2>1. CASE \E reply : Answer(s, reply)
    BY <1>1, <1>2, <2>1 DEF Answer, UpToDate
  <2>2. CASE AcceptAny(s)
    BY <1>2, <2>2, AcceptedIsUpToDate
  <2>3. CASE FindPayout(s) /\ payouts[tx[s].claim] = <<>>
    <3>1. tx' = [tx EXCEPT ![s].pc = "unpaid"] /\ UNCHANGED tables /\ tx[s].pc = "decided"
      BY <2>3 DEF FindPayout, ReadyToCommit
    <3>2. tx[s] \in InFlight
      BY <3>1, InFlightType
    <3>3. /\ tx'[s].claim = tx[s].claim /\ tx'[s].seen = tx[s].seen
          /\ tx'[s].verb = tx[s].verb /\ tx'[s].user = tx[s].user
      BY <1>1, <3>1, <3>2 DEF InFlight
    <3>4. QED
      BY <1>1, <1>2, <2>3, <3>1, <3>3 DEF UpToDate, tables
  <2>4. QED
    BY <2>1, <2>2, <2>3, CommitWritesOne
    DEF ServiceStep, NothingCommitted, FileLegally, InsertClaim, FindPayout
<1>3. CASE r # s
  <2>1. tx'[r] = tx[r]
    BY <1>1, <1>3, CommitWritesOne
    DEF ServiceStep, NothingCommitted, FileLegally, InsertClaim, AcceptAny, Accept,
        FindPayout, Answer
  <2>2. CASE tx[r].pc = "done"
    BY <2>1, <2>2 DEF UpToDate
  <2>3. CASE tx[r].pc # "done"
    <3> DEFINE d == tx[r].claim
    <3>1. d \in ClaimIds /\ claims[d] # Absent
      BY <2>3, InFlightType DEF DecisionIsSound
    <3>2. claims'[d] = claims[d] /\ payouts'[d] = payouts[d]
      <4>1. CASE UNCHANGED tables
        BY <4>1 DEF tables
      <4>2. CASE FileLegally(s)
        BY <3>1, <4>2 DEF FileLegally, InsertClaim, IInv, TypeOK
      <4>3. CASE Commit(s)
        <5>1. tx[s].pc # "done" /\ d # tx[s].claim
          BY <1>3, <2>3, <4>3, CommitWritesOne DEF OneAtATime
        <5>2. QED
          BY <3>1, <4>3, <5>1, CommitWritesOne
      <4>4. QED
        BY <4>1, <4>2, <4>3 DEF ServiceStep, NothingCommitted, AcceptAny, Accept, FindPayout
    <3> HIDE DEF d
    <3>3. QED
      BY <1>1, <2>1, <3>2 DEF UpToDate, d
  <2>4. QED
    BY <2>2, <2>3
<1>4. QED
  BY <1>2, <1>3

-----------------------------------------------------------------------------
(* Where the edges of the lifecycle lead, and where they do not start.      *)
LEMMA EdgesMoveOn ==
  ASSUME NEW from, NEW to, <<from, to>> \in Lifecycle!Edges
  PROVE  /\ from \notin TERMINAL_STATUSES \cup {"APPROVED"}
         /\ to \notin {"DRAFT", "PAID"}
  BY DEF Lifecycle!Edges, TERMINAL_STATUSES

(* A turn writes the rows of one claim, which is filed from then on.        *)
LEMMA TurnWritesOne ==
  ASSUME IInv, NEW c \in ClaimIds, NEW row \in Claim,
         Filed(c, row) \/ Edited(c, row) \/ Advanced(c, row) \/ Paid(c, row)
  PROVE  /\ claims' = [claims EXCEPT ![c] = row] /\ claims'[c] = row /\ row # Absent
         /\ \A d \in ClaimIds \ {c} : /\ claims'[d] = claims[d]
                                     /\ events'[d] = events[d]
                                     /\ payouts'[d] = payouts[d]
<1>1. claims' = [claims EXCEPT ![c] = row]
  BY DEF Filed, Edited, Advanced, Paid, Writes
<1>2. claims'[c] = row /\ \A d \in ClaimIds \ {c} : claims'[d] = claims[d]
  BY <1>1 DEF IInv, TypeOK
<1>3. row # Absent
  BY DEF Claim, Absent, ClaimStatus
<1>4. \A d \in ClaimIds \ {c} : events'[d] = events[d] /\ payouts'[d] = payouts[d]
  BY DEF Filed, Edited, Advanced, Paid, Adds, _record_event, IInv, TypeOK
<1>5. QED
  BY <1>1, <1>2, <1>3, <1>4

(* A turn leaves no gap in the trail of its claim: the row it adds starts   *)
(* from the status the claim had, which is the one the last row reached.    *)
LEMMA TurnChains ==
  ASSUME IInv, NEW c \in ClaimIds, Chained(c), OneTurn(c)
  PROVE  Chained(c)'
<1>1. events[c] \in Seq(ClaimEvent) /\ RowIsSound(c) /\ TypeOK
  BY DEF IInv, TypeOK
<1>2. PICK row \in Claim :
        Filed(c, row) \/ Edited(c, row) \/ Advanced(c, row) \/ Paid(c, row)
  BY DEF OneTurn
<1>3. CASE Edited(c, row)
  BY <1>3 DEF Edited, Chained
<1>4. ASSUME NEW from \in ClaimStatus \cup {None}, NEW to \in ClaimStatus, Adds(c, from, to),
             events[c] # <<>> => from = events[c][Len(events[c])].to_status
      PROVE  Chained(c)'
  <2>1. PICK u \in Users : events'[c] = Append(events[c], Event(u, from, to))
    BY <1>1, <1>4 DEF Adds, _record_event, TypeOK
  <2> DEFINE e == Event(u, from, to)
             last == Len(events[c]) + 1
  <2>2. e \in ClaimEvent /\ e.from_status = from
    BY DEF Event, ClaimEvent
  <2> HIDE DEF e
  <2>3. /\ Len(events[c]) \in Nat /\ Len(events'[c]) = last
        /\ \A i \in 1..Len(events[c]) : events'[c][i] = events[c][i]
        /\ events'[c][last] = e
    BY <1>1, <2>1, <2>2 DEF e
  <2> SUFFICES ASSUME NEW i \in 2..last
               PROVE  events'[c][i].from_status = events'[c][i - 1].to_status
    BY <2>3 DEF Chained
  <2>4. CASE i = last
    <3>1. i - 1 = Len(events[c]) /\ i - 1 \in 1..Len(events[c]) /\ events[c] # <<>>
      BY <2>3, <2>4
    <3>2. QED
      BY <1>4, <2>2, <2>3, <2>4, <3>1
  <2>5. CASE i # last
    <3>1. i \in 2..Len(events[c]) /\ i \in 1..Len(events[c]) /\ i - 1 \in 1..Len(events[c])
      BY <2>3, <2>5
    <3>2. QED
      BY <2>3, <3>1 DEF Chained
  <2>6. QED
    BY <2>4, <2>5
<1>5. CASE Filed(c, row)
  <2>1. events[c] = <<>> /\ Adds(c, None, "DRAFT")
    BY <1>1, <1>5 DEF Filed, RowIsSound
  <2>2. QED
    BY <1>4, <2>1 DEF ClaimStatus
<1>6. CASE Advanced(c, row) \/ Paid(c, row)
  <2>1. claims[c] \in Claim /\ claims[c] # Absent
    BY <1>6 DEF Advanced, Paid, Claim, Absent, ClaimStatus
  <2>2. Adds(c, claims[c].status, row.status)
    BY <1>6 DEF Advanced, Paid
  <2>3. claims[c].status \in ClaimStatus /\ row.status \in ClaimStatus
    BY <2>1 DEF Claim
  <2>4. claims[c].status = events[c][Len(events[c])].to_status
    BY <1>1, <2>1 DEF RowIsSound
  <2>5. QED
    BY <1>4, <2>2, <2>3, <2>4
<1>7. QED
  BY <1>2, <1>3, <1>5, <1>6

(* A turn settles its claim only by paying it, and touches no settled one.  *)
LEMMA TurnSettles ==
  ASSUME IInv, NEW c \in ClaimIds, Settled(c), OneTurn(c)
  PROVE  Settled(c)'
<1>1. PICK row \in Claim :
        Filed(c, row) \/ Edited(c, row) \/ Advanced(c, row) \/ Paid(c, row)
  BY DEF OneTurn
<1>2. claims'[c] = row
  BY <1>1, TurnWritesOne
<1>3. CASE Filed(c, row)
  BY <1>3 DEF Filed, IInv, RowIsSound, Settled
<1>4. CASE Edited(c, row) \/ Advanced(c, row)
  <2>1. claims[c] # Absent /\ claims[c].status # "PAID" /\ payouts' = payouts
    BY <1>4, EdgesMoveOn
    DEF Edited, Advanced, TERMINAL_STATUSES, Claim, Absent, ClaimStatus
  <2>2. QED
    BY <2>1 DEF Settled
<1>5. CASE Paid(c, row)
  <2>1. PICK payout \in Payout : payout.amount = row.amount
                                 /\ payouts' = [payouts EXCEPT ![c] = <<payout>>]
    BY <1>5 DEF Paid
  <2>2. payouts'[c] = <<payout>> /\ row.status = "PAID"
    BY <1>5, <2>1 DEF Paid, IInv, TypeOK
  <2>3. \A i \in DOMAIN payouts'[c] : payouts'[c][i].amount = row.amount
    BY <2>1, <2>2
  <2>4. QED
    BY <1>2, <2>2, <2>3 DEF Settled
<1>6. QED
  BY <1>1, <1>3, <1>4, <1>5

(* A turn that approves does so within the authority of who decides, and    *)
(* nothing is edited after that.                                            *)
LEMMA TurnIsAuthorised ==
  ASSUME IInv, NEW c \in ClaimIds, Authorised(c), OneTurn(c)
  PROVE  Authorised(c)'
<1>1. PICK row \in Claim :
        Filed(c, row) \/ Edited(c, row) \/ Advanced(c, row) \/ Paid(c, row)
  BY DEF OneTurn
<1>2. claims'[c] = row
  BY <1>1, TurnWritesOne
<1>3. CASE Filed(c, row) \/ Edited(c, row)
  BY <1>2, <1>3 DEF Filed, Edited, Authorised
<1>4. CASE Advanced(c, row)
  <2>1. row.status # "PAID"
    BY <1>4, EdgesMoveOn DEF Advanced
  <2>2. QED
    BY <1>2, <1>4, <2>1 DEF Advanced, Authorised
<1>5. CASE Paid(c, row)
  <2>1. claims[c] # Absent
    BY <1>5 DEF Paid, Claim, Absent, ClaimStatus
  <2>2. QED
    BY <1>2, <1>5, <2>1 DEF Paid, Authorised
<1>6. QED
  BY <1>1, <1>3, <1>4, <1>5

-----------------------------------------------------------------------------
(* Nothing has been decided yet.                                            *)
LEMMA TurnInit == Init => TurnInv
  BY DEF Init, TurnInv, UpToDate, Chained, Settled, Authorised

(* While requests on one claim do not overlap, what was decided stays up to *)
(* date.                                                                    *)
LEMMA TurnStep == IInv /\ TurnInv /\ OneAtATime /\ [ServiceNext]_vars => TurnInv'
<1> SUFFICES ASSUME IInv, TurnInv, OneAtATime, [ServiceNext]_vars PROVE TurnInv'
  OBVIOUS
<1>1. \A s \in Slots : UpToDate(s)'
  <2>1. CASE UNCHANGED vars
    BY <2>1 DEF vars, TurnInv, UpToDate
  <2>2. QED
    BY <2>1, SnapshotsStand DEF ServiceNext
<1>2. ASSUME NEW c \in ClaimIds PROVE (Chained(c) /\ Settled(c) /\ Authorised(c))'
  <2>1. Chained(c) /\ Settled(c) /\ Authorised(c)
    BY DEF TurnInv
  <2>2. CASE claims'[c] = claims[c] /\ events'[c] = events[c] /\ payouts'[c] = payouts[c]
    BY <2>1, <2>2 DEF Chained, Settled, Authorised
  <2>3. CASE OneTurn(c)
    BY <2>1, <2>3, TurnChains, TurnSettles, TurnIsAuthorised
  <2>4. CASE UNCHANGED tables
    BY <2>2, <2>4 DEF tables
  <2>5. CASE \E d \in ClaimIds : OneTurn(d)
    BY <2>2, <2>3, <2>5, TurnWritesOne DEF OneTurn
  <2>6. QED
    BY <2>4, <2>5, StepIsATurn
<1>3. QED
  BY <1>1, <1>2 DEF TurnInv

(* The invariant of requests that take turns.                               *)
LEMMA TurnInvariance == Spec /\ []OneAtATime => [](IInv /\ TurnInv)
<1>1. IInv /\ TurnInv /\ OneAtATime /\ [Next]_vars => TurnInv'
  BY NextIsServiceNext, TurnStep DEF IInv
<1>2. QED
  BY <1>1, TurnInit, Invariance, PTL DEF Spec

(* What it says of the trail, the ledger and the approvals.                 *)
LEMMA TurnKeepsPromises ==
  TurnInv => AuditChainHasNoGaps /\ PayoutMatchesClaim /\ ApprovalWithinAuthority
  BY DEF TurnInv, Chained, Settled, Authorised, AuditChainHasNoGaps, PayoutMatchesClaim,
         payouts_disagreeing_with_their_claim, ApprovalWithinAuthority, Existing

(* Requests that one worker serves take turns, whatever they ask.           *)
LEMMA OneWorkerTakesTurns ==
  ASSUME \A r, s \in Slots : r = s
  PROVE  OneAtATime
  BY DEF OneAtATime

(* While requests on one claim do not overlap, each audit row starts from   *)
(* the status the row before it reached.                                    *)
THEOREM TrailHasNoGaps == Spec /\ []OneAtATime => []AuditChainHasNoGaps
  BY TurnKeepsPromises, TurnInvariance, PTL

(* ... what was paid is the amount of the claim, which stays PAID,          *)
THEOREM PaidIsSettled == Spec /\ []OneAtATime => []PayoutMatchesClaim
  BY TurnKeepsPromises, TurnInvariance, PTL

(* ... a claim above the limit was approved by an administrator,            *)
THEOREM LimitIsRespected == Spec /\ []OneAtATime => []ApprovalWithinAuthority
  BY TurnKeepsPromises, TurnInvariance, PTL

(* ... no request ends in a server error,                                   *)
THEOREM NoPaymentCollides == Spec /\ []OneAtATime => []PayingTwiceIsAConflict
<1>1. Init => PayingTwiceIsAConflict
  BY DEF Init, PayingTwiceIsAConflict
<1>2. ASSUME IInv, TurnInv, PayingTwiceIsAConflict, [Next]_vars
      PROVE  PayingTwiceIsAConflict'
  <2> SUFFICES ASSUME NEW r \in Slots, tx'[r].pc = "done", tx'[r].reply = "server_error",
                      tx'[r] # tx[r]
               PROVE  FALSE
    BY <1>2 DEF PayingTwiceIsAConflict
  <2>1. tx \in [Slots -> Idle \cup InFlight]
    BY <1>2 DEF IInv, TypeOK
  <2>2. PICK s \in Slots :
          \/ Create(s) \/ \E c \in ClaimIds : Request(s, c)
          \/ FindPayout(s) \/ Commit(s) \/ PayCollides(s) \/ Abort(s)
    BY <1>2 DEF Next, vars
  <2>3. ASSUME NEW reply \in Verdict \cup {"none"}, Answer(s, reply) PROVE FALSE
    BY <2>1, <2>3 DEF Answer, Verdict
  <2>4. ASSUME tx'[s].pc # "done", \A q \in Slots \ {s} : tx'[q] = tx[q] PROVE FALSE
    BY <2>4
  <2>5. ~Create(s)
    BY <2>3 DEF Create, create_claim, InsertClaim, RefuseCreate, create_verdict, Verdict
  <2>6. ASSUME NEW c \in ClaimIds, Request(s, c) PROVE FALSE
    <3>1. PICK u \in Users, verb \in Verb, amount \in {None} \cup Amounts :
            Accept(s, u, verb, c, amount) \/ Refuse(s, u, verb, c, amount)
      BY <2>6 DEF Request
    <3>2. CASE Accept(s, u, verb, c, amount)
      BY <2>1, <2>4, <3>2 DEF Accept
    <3>3. CASE Refuse(s, u, verb, c, amount)
      BY <1>2, <2>3, <3>3, DecideType DEF Refuse, IInv
    <3>4. QED
      BY <3>1, <3>2, <3>3
  <2>7. ~FindPayout(s)
    <3>1. ASSUME tx' = [tx EXCEPT ![s].pc = "unpaid"], tx[s].pc = "decided" PROVE FALSE
      <4>1. tx[s] \in InFlight
        BY <1>2, <3>1, InFlightType
      <4>2. QED
        BY <2>1, <2>4, <3>1, <4>1 DEF InFlight
    <3>2. QED
      BY <2>3, <3>1 DEF FindPayout, ReadyToCommit, Verdict
  <2>8. ~Commit(s)
    BY <1>2, <2>3, CommitWritesOne DEF Verdict
  <2>9. ~PayCollides(s)
    BY <1>2 DEF PayCollides, MayInsertPayout, TurnInv, UpToDate
  <2>10. ~Abort(s)
    BY <2>3 DEF Abort
  <2>11. QED
    BY <2>2, <2>5, <2>6, <2>7, <2>8, <2>9, <2>10
<1>3. QED
  BY <1>1, <1>2, TurnInvariance, PTL DEF Spec

(* ... and a claim in a terminal status never changes again.                *)
THEOREM TerminalStays == Spec /\ []OneAtATime => TerminalIsFinal
<1> DEFINE Final == \A c \in Existing :
             claims[c].status \in TERMINAL_STATUSES => claims'[c] = claims[c]
<1>1. ASSUME IInv, TurnInv, [Next]_vars, NEW c \in ClaimIds, claims[c] # Absent,
             claims[c].status \in TERMINAL_STATUSES
      PROVE  claims'[c] = claims[c]
  <2>1. ~OneTurn(c)
    <3>1. ASSUME NEW row \in Claim PROVE ~Filed(c, row) /\ ~Edited(c, row) /\ ~Paid(c, row)
      BY <1>1 DEF Filed, Edited, Paid, TERMINAL_STATUSES
    <3>2. ASSUME NEW row \in Claim PROVE ~Advanced(c, row)
      BY <1>1, EdgesMoveOn DEF Advanced
    <3>3. QED
      BY <3>1, <3>2 DEF OneTurn
  <2>2. UNCHANGED tables \/ \E d \in ClaimIds : OneTurn(d)
    BY <1>1, NextIsServiceNext, StepIsATurn DEF IInv
  <2>3. CASE \E d \in ClaimIds : OneTurn(d)
    BY <1>1, <2>1, <2>3, TurnWritesOne DEF OneTurn
  <2>4. QED
    BY <2>2, <2>3 DEF tables
<1>2. IInv /\ TurnInv /\ [Next]_vars => [Final]_vars
  BY <1>1 DEF Existing
<1>3. QED
  BY <1>2, TurnInvariance, PTL DEF Spec, TerminalIsFinal

-----------------------------------------------------------------------------
(* The refinement: what ClaimLifecycle sees of the tables.                  *)
StatusBar == [c \in ClaimIds |-> claims[c].status]
AmountBar == [c \in ClaimIds |-> IF claims[c] = Absent THEN 0 ELSE claims[c].amount]
PaidBar == [c \in ClaimIds |-> IF payouts[c] = <<>> THEN None ELSE payouts[c][1].amount]

(* A turn changes what the lifecycle sees at its own claim, if anywhere.    *)
LEMMA TurnSeen ==
  ASSUME IInv, NEW c \in ClaimIds, NEW row \in Claim,
         Filed(c, row) \/ Edited(c, row) \/ Advanced(c, row) \/ Paid(c, row)
  PROVE  /\ StatusBar' = [StatusBar EXCEPT ![c] = row.status]
         /\ AmountBar' = [AmountBar EXCEPT ![c] = row.amount]
         /\ AmountBar'[c] = row.amount /\ StatusBar[c] = claims[c].status
         /\ claims[c] \in Claim => AmountBar[c] = claims[c].amount
<1>1. /\ claims'[c] = row /\ row # Absent
      /\ \A d \in ClaimIds \ {c} : claims'[d] = claims[d]
  BY TurnWritesOne
<1>2. Absent \notin Claim
  BY DEF Claim, Absent, ClaimStatus
<1>3. StatusBar' = [StatusBar EXCEPT ![c] = row.status]
  BY <1>1 DEF StatusBar
<1>4. AmountBar' = [AmountBar EXCEPT ![c] = row.amount]
  BY <1>1 DEF AmountBar
<1>5. QED
  BY <1>1, <1>2, <1>3, <1>4 DEF StatusBar, AmountBar

(* A turn is a step of the lifecycle, or leaves all it shows of a claim.    *)
LEMMA TurnRefines ==
  ASSUME IInv, NEW c \in ClaimIds, OneTurn(c)
  PROVE  Lifecycle!Next \/ UNCHANGED <<StatusBar, AmountBar, PaidBar>>
<1>1. PICK row \in Claim :
        Filed(c, row) \/ Edited(c, row) \/ Advanced(c, row) \/ Paid(c, row)
  BY DEF OneTurn
<1>2. /\ StatusBar' = [StatusBar EXCEPT ![c] = row.status]
      /\ AmountBar' = [AmountBar EXCEPT ![c] = row.amount]
      /\ AmountBar'[c] = row.amount /\ StatusBar[c] = claims[c].status
      /\ claims[c] \in Claim => AmountBar[c] = claims[c].amount
  BY <1>1, TurnSeen
<1>3. \A x : [StatusBar EXCEPT ![c] = x] = StatusBar <=> x = StatusBar[c]
  BY DEF StatusBar
<1>4. \A x : [AmountBar EXCEPT ![c] = x] = AmountBar <=> x = AmountBar[c]
  BY DEF AmountBar
<1>5. CASE Filed(c, row)
  <2>1. /\ StatusBar[c] = "ABSENT" /\ row.status = "DRAFT" /\ row.amount > 0
        /\ PaidBar' = PaidBar
    BY <1>2, <1>5 DEF Filed, Absent, PaidBar
  <2>2. Lifecycle!File(c)
    BY <1>2, <2>1 DEF Lifecycle!File, Lifecycle!SetAmount, StatusBar, AmountBar, PaidBar
  <2>3. QED
    BY <2>2 DEF Lifecycle!Next
<1>6. CASE Edited(c, row)
  <2>1. /\ StatusBar[c] = "DRAFT" /\ row.status = "DRAFT" /\ row.amount > 0
        /\ StatusBar' = StatusBar /\ PaidBar' = PaidBar
    BY <1>2, <1>3, <1>6 DEF Edited, PaidBar
  <2>2. Lifecycle!Edit(c)
    BY <1>2, <2>1 DEF Lifecycle!Edit, Lifecycle!SetAmount, StatusBar, AmountBar, PaidBar
  <2>3. QED
    BY <2>2 DEF Lifecycle!Next
<1>7. CASE Advanced(c, row)
  <2>1. /\ <<claims[c].status, row.status>> \in Lifecycle!Edges
        /\ AmountBar' = AmountBar /\ PaidBar' = PaidBar
    BY <1>2, <1>4, <1>7 DEF Advanced, PaidBar
  <2>2. Lifecycle!Advance(c, row.status)
    BY <1>2, <2>1 DEF Lifecycle!Advance, StatusBar, AmountBar, PaidBar
  <2>3. PICK move \in Lifecycle!Edges : move = <<claims[c].status, row.status>>
    BY <2>1
  <2>4. move[2] = row.status
    BY <2>3
  <2>5. \E edge \in Lifecycle!Edges : Lifecycle!Advance(c, edge[2])
    BY <2>2, <2>3, <2>4
  <2>6. QED
    BY <2>5 DEF Lifecycle!Next
<1>8. CASE Paid(c, row)
  <2>1. PICK payout \in Payout : payout.amount = row.amount
                                 /\ payouts' = [payouts EXCEPT ![c] = <<payout>>]
    BY <1>8 DEF Paid
  <2>2. /\ StatusBar[c] = "APPROVED" /\ row.status = "PAID" /\ AmountBar' = AmountBar
        /\ row.amount = AmountBar[c] /\ payouts[c] = <<>>
    BY <1>2, <1>4, <1>8 DEF Paid
  <2>3. PaidBar[c] = None
    BY <2>2 DEF PaidBar
  <2>4. PaidBar' = [PaidBar EXCEPT ![c] = AmountBar[c]]
    <3>1. payouts'[c] = <<payout>> /\ \A d \in ClaimIds \ {c} : payouts'[d] = payouts[d]
      BY <2>1 DEF IInv, TypeOK
    <3>2. payouts'[c] # <<>> /\ payouts'[c][1].amount = AmountBar[c]
      BY <2>1, <2>2, <3>1
    <3>3. QED
      BY <3>1, <3>2 DEF PaidBar
  <2>5. Lifecycle!Settle(c)
    BY <1>2, <2>2, <2>3, <2>4 DEF Lifecycle!Settle, StatusBar, AmountBar, PaidBar
  <2>6. QED
    BY <2>5 DEF Lifecycle!Next
<1>9. QED
  BY <1>1, <1>5, <1>6, <1>7, <1>8

(* Every step of requests that take turns is a step of the lifecycle or a   *)
(* stutter.                                                                 *)
LEMMA RefinementStep ==
  IInv /\ TurnInv /\ [ServiceNext]_vars => [Lifecycle!Next]_(Lifecycle!lifecycleVars)
<1> SUFFICES ASSUME IInv, TurnInv, [ServiceNext]_vars
             PROVE  Lifecycle!Next \/ UNCHANGED <<StatusBar, AmountBar, PaidBar>>
  BY DEF Lifecycle!lifecycleVars, StatusBar, AmountBar, PaidBar
<1>1. UNCHANGED tables \/ \E c \in ClaimIds : OneTurn(c)
  BY StepIsATurn
<1>2. CASE UNCHANGED tables
  BY <1>2 DEF tables, StatusBar, AmountBar, PaidBar
<1>3. QED
  BY <1>1, <1>2, TurnRefines

(* The empty database is an initial state of the lifecycle.                 *)
LEMMA RefinementInit == Init => Lifecycle!Init
  BY DEF Init, Lifecycle!Init, Absent

(* With requests on one claim that do not overlap, whoever sends them and   *)
(* whatever happens to the other claims, the endpoints are an               *)
(* implementation of the lifecycle: a draft whose amount may change, then   *)
(* the edges of the machine, then one payout of the amount approved.        *)
THEOREM EndpointsImplementLifecycle == Spec /\ []OneAtATime => ImplementsLifecycle
<1>1. IInv /\ TurnInv /\ [Next]_vars => [Lifecycle!Next]_(Lifecycle!lifecycleVars)
  BY NextIsServiceNext, RefinementStep DEF IInv
<1>2. QED
  BY <1>1, RefinementInit, TurnInvariance, PTL DEF Spec, ImplementsLifecycle, Lifecycle!Spec
=============================================================================
