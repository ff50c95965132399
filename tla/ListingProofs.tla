---------------------------- MODULE ListingProofs ----------------------------
(***************************************************************************)
(* Proofs about the seeded service with its clock and about a traversal of *)
(* the list, for every corpus, page size, sort order and number of         *)
(* workers: what ClaimServiceProofs shows of an empty database holds of    *)
(* the seeded one; an audit row is stamped after the row that filed its    *)
(* claim; and a page is a slice of an order that other requests extend but *)
(* never shuffle.                                                          *)
(***************************************************************************)
EXTENDS Listing, ClaimServiceProofs, FiniteSetTheorems, SequenceTheorems

-----------------------------------------------------------------------------
(* The clock.                                                               *)

Opened(s) == opened[s] # Closed

(* A request in flight is one whose transaction is open.                    *)
OpenInv ==
  \A s \in Slots :
    /\ Opened(s) <=> opened[s].at > 0
    /\ opened[s].at <= clock
    /\ tx[s].pc # "done" => Opened(s) /\ opened[s].claim # None
                            /\ tx[s].claim = opened[s].claim
    /\ \A r \in Slots \ {s} : Opened(s) => opened[r].at # opened[s].at

(* The trail of a claim, and the transactions that may still add to it.     *)
Trail(c) ==
  /\ Len(stamps[c]) = Len(events[c])
  /\ \A i \in DOMAIN stamps[c] : stamps[c][i] <= clock
  /\ \A i \in Stamped(c) \ {1} : stamps[c][1] < stamps[c][i]
  /\ \A i, j \in Stamped(c) : stamps[c][i] = stamps[c][j] => i = j
  /\ \A s \in Slots : Opened(s) =>
       /\ \A i \in DOMAIN stamps[c] : stamps[c][i] # opened[s].at
       /\ opened[s].claim = c /\ c # None =>
            stamps[c] # <<>> /\ stamps[c][1] < opened[s].at

StampsInv == \A c \in ClaimIds : Trail(c)

ClockInv == AuditTypeOK /\ OpenInv /\ StampsInv

-----------------------------------------------------------------------------
(* The traversal.                                                           *)

rank(c) == Cardinality(Ahead(reader)[c]) + 1
Rows == Cardinality(Matches(reader))
Passed == Size * (IF reader.pc = "end" THEN reader.page ELSE reader.page - 1)
Started == Begun \/ reader.pc = "end"
Got(c) == \E i \in DOMAIN reader.got : reader.got[i] = c

ReaderOK ==
  /\ reader \in Reader
  /\ watch \in Watch
  /\ watch.late => watch.come
  /\ ~Started => reader.got = <<>> /\ watch = Quiet({})

(* What the totals promise of the pages still to come.                      *)
TotalInv ==
  /\ reader.pc = "end" => reader.total <= Passed
  /\ reader.pc \in {"page", "end"} /\ ~watch.gone /\ ~watch.late => Rows <= reader.total
  /\ reader.pc = "page" /\ ~watch.gone /\ ~watch.come => reader.total = Rows

(* While nothing enters, leaves or moves: the pages so far are the list     *)
(* from its beginning.                                                      *)
ExactInv ==
  Started /\ ~watch.gone /\ ~watch.come =>
    /\ Passed <= Rows \/ reader.pc = "end"
    /\ reader.got = SubSeq(Ordered(reader), 1, IF Passed < Rows THEN Passed ELSE Rows)

(* While nothing leaves or moves: a row that has been there all along is    *)
(* among those read, or still ahead of the reader.                          *)
SteadyInv ==
  Started /\ ~watch.gone =>
    /\ watch.steady \subseteq Matches(reader)
    /\ \A c \in watch.steady : Got(c) \/ rank(c) > Passed

ListingInv ==
  /\ IInv /\ ClockInv /\ IsFiniteSet(Existing)
  /\ ReaderOK /\ TotalInv /\ ExactInv /\ SteadyInv

-----------------------------------------------------------------------------
(* The seed is a state the service could have come to.                      *)

\* The action that takes the second status after the first, and who performs it
\* in the seed: the customer submits, the adjuster does the rest.
Leads(from, to) ==
  \E action \in ClaimAction :
    /\ TRANSITIONS[action].source = from /\ TRANSITIONS[action].target = to
    /\ IF to = "SUBMITTED" THEN "CUSTOMER" \in TRANSITIONS[action].roles
       ELSE /\ "ADJUSTER" \in TRANSITIONS[action].roles
            /\ ~TRANSITIONS[action].owner_only

(* The edges the seeded paths consist of.                                   *)
LEMMA SeedEdges ==
  /\ Leads("DRAFT", "SUBMITTED") /\ Leads("SUBMITTED", "UNDER_REVIEW")
  /\ Leads("UNDER_REVIEW", "APPROVED") /\ Leads("UNDER_REVIEW", "REJECTED")
  /\ Leads("APPROVED", "PAID")
<1> USE DEF Leads, TRANSITIONS, TransitionRule, ClaimAction, Staff
<1>1. Leads("DRAFT", "SUBMITTED")
  <2>1. "submit" \in ClaimAction
    OBVIOUS
  <2> QED BY <2>1
<1>2. Leads("SUBMITTED", "UNDER_REVIEW")
  <2>1. "start_review" \in ClaimAction
    OBVIOUS
  <2> QED BY <2>1
<1>3. Leads("UNDER_REVIEW", "APPROVED")
  <2>1. "approve" \in ClaimAction
    OBVIOUS
  <2> QED BY <2>1
<1>4. Leads("UNDER_REVIEW", "REJECTED")
  <2>1. "reject" \in ClaimAction
    OBVIOUS
  <2> QED BY <2>1
<1>5. Leads("APPROVED", "PAID")
  <2>1. "pay" \in ClaimAction
    OBVIOUS
  <2> QED BY <2>1
<1> QED
  BY <1>1, <1>2, <1>3, <1>4, <1>5

(* A seeded path begins with the draft, follows the actions and ends in the *)
(* status of its claim.                                                     *)
LEMMA SeedPaths ==
  ASSUME NEW status \in ClaimStatus \ {"WITHDRAWN"},
         NEW path, path = _PATHS[status]
  PROVE  /\ path \in Seq(ClaimStatus) /\ Len(path) > 0
         /\ path[1] = "DRAFT" /\ path[Len(path)] = status
         /\ \A i \in 2..Len(path) : path[i] # "DRAFT" /\ Leads(path[i - 1], path[i])
<1> USE SeedEdges DEF _PATHS
<1>1. CASE status = "DRAFT"
  BY <1>1 DEF ClaimStatus
<1>2. CASE status = "SUBMITTED"
  <2>1. path = <<"DRAFT", "SUBMITTED">>
    BY <1>2
  <2> QED BY <1>2, <2>1 DEF ClaimStatus
<1>3. CASE status = "UNDER_REVIEW"
  <2>1. path = <<"DRAFT", "SUBMITTED", "UNDER_REVIEW">>
    BY <1>3
  <2> QED BY <1>3, <2>1 DEF ClaimStatus
<1>4. CASE status = "APPROVED"
  <2>1. path = <<"DRAFT", "SUBMITTED", "UNDER_REVIEW", "APPROVED">>
    BY <1>4
  <2> QED BY <1>4, <2>1 DEF ClaimStatus
<1>5. CASE status = "REJECTED"
  <2>1. path = <<"DRAFT", "SUBMITTED", "UNDER_REVIEW", "REJECTED">>
    BY <1>5
  <2> QED BY <1>5, <2>1 DEF ClaimStatus
<1>6. CASE status = "PAID"
  <2>1. path = <<"DRAFT", "SUBMITTED", "UNDER_REVIEW", "APPROVED", "PAID">>
    BY <1>6
  <2> QED BY <1>6, <2>1 DEF ClaimStatus
<1> QED
  BY <1>1, <1>2, <1>3, <1>4, <1>5, <1>6 DEF ClaimStatus

(* A function on 1..n is a sequence of length n.                            *)
LEMMA SeqOfFunction ==
  ASSUME NEW S, NEW n \in Nat, NEW f \in [1..n -> S]
  PROVE  f \in Seq(S) /\ Len(f) = n
  OBVIOUS

(* A sequence has a length, and elements up to it.                          *)
LEMMA SeqElements ==
  ASSUME NEW S, NEW q \in Seq(S)
  PROVE  \E n \in Nat : n = Len(q) /\ DOMAIN q = 1..n /\ \A i \in 1..n : q[i] \in S
  BY LenProperties

(* Each seeded claim has a sound row, trail and ledger.                     *)
LEMMA SeedRow ==
  ASSUME seed, NEW c \in Seeded
  PROVE  /\ claims[c] \in Claim /\ events[c] \in Seq(ClaimEvent) /\ payouts[c] \in Seq(Payout)
         /\ RowIsSound(c)
<1> USE SeedAssumption, ServiceAssumption DEF Seeded
<1>1. /\ claims[c] = seeded_claim(c) /\ events[c] = seeded_events(c)
      /\ payouts[c] = seeded_payouts(c) /\ c \in ClaimIds
  BY DEF seed
<1>2. /\ Corpus[c].status \in ClaimStatus \ {"WITHDRAWN"}
      /\ Corpus[c].amount \in Int /\ Coverage[SeedPolicy] \in Nat
      /\ 0 < Corpus[c].amount /\ Corpus[c].amount <= Coverage[SeedPolicy]
      /\ Holder[SeedPolicy] \in Users
  OBVIOUS
<1>3. claims[c] \in Claim /\ claims[c] # Absent
  BY <1>1, <1>2 DEF seeded_claim, Claim, Absent, ClaimStatus
<1> DEFINE path == _PATHS[Corpus[c].status]
           actor(step) == IF step \in {"DRAFT", "SUBMITTED"}
                          THEN Holder[SeedPolicy] ELSE SeedAdjuster
           row(i) == Event(actor(path[i]), IF i = 1 THEN None ELSE path[i - 1], path[i])
<1>4. events[c] = [i \in DOMAIN path |-> row(i)]
  BY <1>1 DEF seeded_events
<1>5. /\ path \in Seq(ClaimStatus) /\ Len(path) > 0
      /\ path[Len(path)] = Corpus[c].status
      /\ \A i \in 2..Len(path) : path[i] # "DRAFT" /\ Leads(path[i - 1], path[i])
  BY <1>2, SeedPaths
<1> HIDE DEF path
<1>6. \A i \in 1..Len(path) : row(i) \in ClaimEvent
  BY <1>2, <1>5 DEF Event, ClaimEvent
<1>7. \A i \in 2..Len(path) : MayRecord(row(i), c)
  <2> SUFFICES ASSUME NEW i \in 2..Len(path) PROVE MayRecord(row(i), c)
    OBVIOUS
  <2>1. PICK action \in ClaimAction :
          /\ TRANSITIONS[action].source = path[i - 1] /\ TRANSITIONS[action].target = path[i]
          /\ IF path[i] = "SUBMITTED" THEN "CUSTOMER" \in TRANSITIONS[action].roles
             ELSE /\ "ADJUSTER" \in TRANSITIONS[action].roles
                  /\ ~TRANSITIONS[action].owner_only
    BY <1>5 DEF Leads
  <2>2. /\ row(i).from_status = path[i - 1] /\ row(i).to_status = path[i]
        /\ row(i).actor = actor(path[i]) /\ path[i] # "DRAFT"
    BY <1>5 DEF Event
  <2>3. RoleOf[row(i).actor] \in TRANSITIONS[action].roles
    BY <2>1, <2>2
  <2>4. TRANSITIONS[action].owner_only => IsOwner(row(i).actor, claims[c])
    BY <1>1, <2>1, <2>2 DEF IsOwner, seeded_claim
  <2> QED
    BY <2>1, <2>2, <2>3, <2>4 DEF MayRecord
<1> HIDE DEF row
<1>8. /\ events[c] \in Seq(ClaimEvent) /\ Len(events[c]) = Len(path)
      /\ \A i \in 1..Len(path) : events[c][i] = row(i)
  <2>1. path \in Seq(ClaimStatus)
    BY <1>5
  <2>2. PICK n \in Nat : n = Len(path) /\ DOMAIN path = 1..n
    BY <2>1, LenProperties
  <2>3. events[c] = [i \in 1..n |-> row(i)]
    BY <1>4, <2>2
  <2>4. events[c] \in [1..n -> ClaimEvent] /\ \A i \in 1..n : events[c][i] = row(i)
    BY <1>6, <2>2, <2>3
  <2> QED
    BY <2>2, <2>4, SeqOfFunction
<1>9. row(Len(path)).to_status = Corpus[c].status
  BY <1>5 DEF row, Event
<1>10. /\ payouts[c] \in Seq(Payout) /\ Len(payouts[c]) <= 1
       /\ Corpus[c].status = "PAID" => payouts[c] # <<>>
  <2> DEFINE payout == [amount |-> Corpus[c].amount, paid_by |-> SeedAdjuster]
  <2>1. payout \in Payout
    BY <1>2 DEF Payout
  <2>2. payouts[c] = IF Corpus[c].status = "PAID" THEN <<payout>> ELSE <<>>
    BY <1>1 DEF seeded_payouts
  <2> HIDE DEF payout
  <2> QED
    BY <2>1, <2>2
<1>11. /\ claims[c].status = Corpus[c].status
       /\ validate_claim_amount(claims[c].amount, Coverage[claims[c].policy])
  BY <1>1, <1>2 DEF seeded_claim, validate_claim_amount
<1>12. events[c] # <<>>
  BY <1>5, <1>8
<1>13. \A i \in 2..Len(events[c]) : MayRecord(events[c][i], c)
  BY <1>5, <1>7, <1>8
<1> QED
  BY <1>3, <1>5, <1>8, <1>9, <1>10, <1>11, <1>12, <1>13 DEF RowIsSound

(* What the invariant of the service says of an empty database it says of   *)
(* the seeded one.                                                          *)
LEMMA SeedIsSound == seed => IInv
<1> SUFFICES ASSUME seed PROVE IInv
  OBVIOUS
<1>1. ASSUME NEW c \in ClaimIds, c \notin Seeded
      PROVE  /\ claims[c] = Absent /\ events[c] = <<>> /\ payouts[c] = <<>>
             /\ RowIsSound(c)
  BY <1>1 DEF seed, RowIsSound
<1>2. /\ claims \in [ClaimIds -> Claim \cup {Absent}]
      /\ events \in [ClaimIds -> Seq(ClaimEvent)]
      /\ payouts \in [ClaimIds -> Seq(Payout)]
  <2>1. /\ claims = [c \in ClaimIds |-> claims[c]]
        /\ events = [c \in ClaimIds |-> events[c]]
        /\ payouts = [c \in ClaimIds |-> payouts[c]]
    BY DEF seed
  <2>2. \A c \in ClaimIds : /\ claims[c] \in Claim \cup {Absent}
                            /\ events[c] \in Seq(ClaimEvent)
                            /\ payouts[c] \in Seq(Payout)
    <3>1. \A c \in Seeded : /\ claims[c] \in Claim /\ events[c] \in Seq(ClaimEvent)
                            /\ payouts[c] \in Seq(Payout)
      BY SeedRow
    <3>2. <<>> \in Seq(ClaimEvent) /\ <<>> \in Seq(Payout)
      OBVIOUS
    <3> HIDE DEF Absent
    <3> QED
      BY <1>1, <3>1, <3>2, Zenon
  <2> QED
    BY <2>1, <2>2
<1>3. TypeOK /\ DecisionsAreSound
  BY <1>2 DEF seed, TypeOK, Idle, Reply, DecisionsAreSound
<1> QED
  BY <1>1, <1>3, SeedRow DEF IInv

-----------------------------------------------------------------------------
(* Steps of the service under the clock.                                    *)

\* One row is added to the trail of d, by a request that is done with it: the
\* creation of d, or a request that had been decided on d.
WritesTrail(s, d) ==
  /\ \E e : events' = [events EXCEPT ![d] = Append(@, e)]
  /\ tx'[s].pc = "done"
  /\ \/ events[d] = <<>> /\ claims[d] = Absent
     \/ tx[s].pc # "done" /\ d = tx[s].claim /\ events[d] # <<>>

StaysOnClaim(s) ==
  tx'[s].pc # "done" =>
    \/ opened[s].claim # None /\ tx'[s].claim = opened[s].claim
    \/ tx[s].pc # "done" /\ tx'[s].claim = tx[s].claim

(* What a request does to the trails and to the requests in flight.         *)
LEMMA ServeWrites ==
  ASSUME IInv, AuditTypeOK, NEW s \in Slots, Serve(s)
  PROVE  /\ Next
         /\ \A r \in Slots \ {s} : tx'[r] = tx[r]
         /\ StaysOnClaim(s)
         /\ events' = events \/ \E d \in ClaimIds : WritesTrail(s, d)
<1> DEFINE Goal == /\ \A r \in Slots \ {s} : tx'[r] = tx[r]
                   /\ StaysOnClaim(s)
                   /\ events' = events \/ \E d \in ClaimIds : WritesTrail(s, d)
<1>1. opened[s].claim \in ClaimIds \cup {None}
  BY DEF AuditTypeOK
<1>2. Next
  BY <1>1 DEF Serve, Next
<1> SUFFICES Goal
  BY <1>2
<1>3. TypeOK /\ \A c \in ClaimIds : claims[c] = Absent <=> events[c] = <<>>
  BY DEF IInv, RowIsSound
<1>4. ASSUME NEW reply, Answer(s, reply)
      PROVE  tx'[s].pc = "done" /\ \A r \in Slots \ {s} : tx'[r] = tx[r]
  BY <1>3, <1>4 DEF Answer, TypeOK
<1>5. CASE Create(s)
  <2>1. PICK u \in Users, p \in Policies, amount \in Amounts :
          \/ \E c \in ClaimIds : create_claim(s, u, c, p, amount)
          \/ RefuseCreate(s, u, p, amount)
    BY <1>5 DEF Create
  <2>2. CASE RefuseCreate(s, u, p, amount)
    BY <1>4, <2>2 DEF RefuseCreate, StaysOnClaim, tables
  <2>3. ASSUME NEW c \in ClaimIds, create_claim(s, u, c, p, amount) PROVE Goal
    <3>1. InsertClaim(s, u, c, p, amount)
      BY <2>3 DEF create_claim
    <3>2. WritesTrail(s, c)
      BY <1>3, <1>4, <3>1 DEF InsertClaim, _record_event, WritesTrail
    <3> QED
      BY <1>4, <3>1, <3>2 DEF InsertClaim, StaysOnClaim
  <2> QED
    BY <2>1, <2>2, <2>3
<1>6. ASSUME opened[s].claim # None, Request(s, opened[s].claim) PROVE Goal
  <2>1. PICK u \in Users, verb \in Verb, amount \in {None} \cup Amounts :
          \/ Accept(s, u, verb, opened[s].claim, amount)
          \/ Refuse(s, u, verb, opened[s].claim, amount)
    BY <1>6 DEF Request
  <2>2. CASE Accept(s, u, verb, opened[s].claim, amount)
    BY <1>3, <1>6, <2>2 DEF Accept, StaysOnClaim, TypeOK, tables
  <2>3. CASE Refuse(s, u, verb, opened[s].claim, amount)
    BY <1>4, <2>3 DEF Refuse, StaysOnClaim, tables
  <2> QED
    BY <2>1, <2>2, <2>3
<1>7. CASE FindPayout(s)
  <2>1. tx[s] \in InFlight /\ tx[s].pc # "done"
    BY <1>7, InFlightType DEF FindPayout, ReadyToCommit
  <2>2. CASE payouts[tx[s].claim] = <<>>
    BY <1>3, <1>7, <2>1, <2>2 DEF FindPayout, StaysOnClaim, TypeOK, tables, InFlight
  <2>3. CASE payouts[tx[s].claim] # <<>>
    BY <1>4, <1>7, <2>3 DEF FindPayout, StaysOnClaim, tables
  <2> QED
    BY <2>2, <2>3
<1>8. CASE Commit(s)
  <2>1. tx[s].pc # "done" /\ Answer(s, "ok")
    BY <1>8 DEF Commit, update_claim, withdraw_claim, apply_transition, pay, ReadyToCommit
  <2>2. tx[s].claim \in ClaimIds /\ claims[tx[s].claim] # Absent
    BY <2>1, InFlightType DEF Claim, Absent, DecisionIsSound
  <2>3. events' = events \/ WritesTrail(s, tx[s].claim)
    BY <1>3, <1>4, <1>8, <2>1, <2>2
    DEF Commit, update_claim, withdraw_claim, apply_transition, pay, Transition,
        _record_event, WritesTrail
  <2> QED
    BY <1>4, <2>1, <2>2, <2>3 DEF StaysOnClaim
<1>9. CASE PayCollides(s) \/ Abort(s)
  BY <1>4, <1>9 DEF PayCollides, Abort, StaysOnClaim, tables
<1> QED
  BY <1>5, <1>6, <1>7, <1>8, <1>9 DEF Serve

\* The stamps a step leaves: as they were, or one more on the trail it wrote.
StampsTrail(s, d) ==
  /\ WritesTrail(s, d)
  /\ Len(events'[d]) = Len(events[d]) + 1
  /\ \A c \in ClaimIds \ {d} : events'[c] = events[c]
  /\ stamps' = [stamps EXCEPT ![d] = Append(@, occurred_at(s))]

(* A step stamps the one row it writes, and leaves the other requests       *)
(* alone.                                                                   *)
LEMMA StepWrites ==
  ASSUME IInv, ClockInv, NEW s \in Slots, Step(s)
  PROVE  /\ Next
         /\ \A r \in Slots \ {s} : tx'[r] = tx[r]
         /\ StaysOnClaim(s)
         /\ \/ events' = events /\ stamps' = stamps
            \/ \E d \in ClaimIds : StampsTrail(s, d)
<1>1. AuditTypeOK /\ TypeOK /\ Serve(s)
  BY DEF ClockInv, IInv, Step
<1>2. /\ Next /\ \A r \in Slots \ {s} : tx'[r] = tx[r]
      /\ StaysOnClaim(s)
      /\ events' = events \/ \E d \in ClaimIds : WritesTrail(s, d)
  BY <1>1, ServeWrites
<1>3. /\ stamps = [c \in ClaimIds |-> stamps[c]]
      /\ stamps' = [c \in ClaimIds |-> IF events'[c] = events[c] THEN stamps[c]
                                       ELSE Append(stamps[c], occurred_at(s))]
  BY <1>1 DEF Step, AuditTypeOK
<1>4. CASE events' = events
  BY <1>2, <1>3, <1>4
<1>5. ASSUME NEW d \in ClaimIds, WritesTrail(s, d) PROVE StampsTrail(s, d)
  <2>1. PICK e : events' = [events EXCEPT ![d] = Append(@, e)]
    BY <1>5 DEF WritesTrail
  <2>2. events[d] \in Seq(ClaimEvent) /\ events'[d] = Append(events[d], e)
        /\ \A c \in ClaimIds \ {d} : events'[c] = events[c]
    BY <1>1, <2>1 DEF TypeOK
  <2>3. Len(events'[d]) = Len(events[d]) + 1
    BY <2>2
  <2>4. events'[d] # events[d]
    BY <2>2, <2>3
  <2>5. stamps' = [stamps EXCEPT ![d] = Append(@, occurred_at(s))]
    BY <1>3, <2>2, <2>4
  <2> QED
    BY <1>5, <2>2, <2>3, <2>5 DEF StampsTrail
<1> QED
  BY <1>2, <1>4, <1>5

(* Opening a transaction stamps nothing; its time is later than any stamp.  *)
LEMMA OpenKeepsClock ==
  ASSUME IInv, ClockInv, NEW s \in Slots, NEW c \in ClaimIds \cup {None}, Open(s, c)
  PROVE  ClockInv'
<1> USE ClockAssumption DEF ClockInv
<1>1. /\ clock \in Nat /\ clock < MaxClock /\ clock' = clock + 1
      /\ opened \in [Slots -> [at: 0..MaxClock, claim: ClaimIds \cup {None}]]
      /\ opened[s] = Closed
      /\ opened'[s] = [at |-> clock + 1, claim |-> c]
      /\ \A r \in Slots \ {s} : opened'[r] = opened[r]
      /\ UNCHANGED <<tx, events, stamps>>
      /\ stamps \in [ClaimIds -> Seq(0..MaxClock)]
  BY DEF Open, AuditTypeOK, vars
<1>2. AuditTypeOK'
  BY <1>1 DEF AuditTypeOK, Open
<1>3. tx[s].pc = "done"
  BY <1>1 DEF OpenInv, Opened
<1>4. OpenInv'
  <2> SUFFICES ASSUME NEW r \in Slots
               PROVE  /\ Opened(r)' <=> opened'[r].at > 0
                      /\ opened'[r].at <= clock'
                      /\ tx'[r].pc # "done" => Opened(r)' /\ opened'[r].claim # None
                                              /\ tx'[r].claim = opened'[r].claim
                      /\ \A q \in Slots \ {r} : Opened(r)' => opened'[q].at # opened'[r].at
    BY DEF OpenInv
  <2>1. \A q \in Slots : opened[q].at \in Nat /\ opened[q].at <= clock
    BY <1>1 DEF OpenInv
  <2>2. CASE r = s
    BY <1>1, <1>3, <2>1, <2>2 DEF Opened, Closed
  <2>3. CASE r # s
    BY <1>1, <1>3, <2>1, <2>3 DEF Opened, OpenInv
  <2> QED
    BY <2>2, <2>3
<1>5. StampsInv'
  <2> SUFFICES ASSUME NEW d \in ClaimIds
               PROVE  /\ Len(stamps[d]) = Len(events[d])
                      /\ \A i \in DOMAIN stamps[d] : stamps[d][i] <= clock'
                      /\ \A i \in Stamped(d) \ {1} : stamps[d][1] < stamps[d][i]
                      /\ \A i, j \in Stamped(d) : stamps[d][i] = stamps[d][j] => i = j
                      /\ \A r \in Slots : Opened(r)' =>
                           /\ \A i \in DOMAIN stamps[d] : stamps[d][i] # opened'[r].at
                           /\ opened'[r].claim = d /\ d # None =>
                                stamps[d] # <<>> /\ stamps[d][1] < opened'[r].at
    BY <1>1 DEF StampsInv, Trail, Stamped
  <2>1. stamps[d] \in Seq(0..MaxClock) /\ \A i \in DOMAIN stamps[d] : stamps[d][i] \in Nat
    BY <1>1
  <2>2. \A i \in DOMAIN stamps[d] : stamps[d][i] <= clock
    BY DEF StampsInv, Trail
  <2>3. d = c /\ d # None => stamps[d] # <<>>
    <3>1. d = c /\ d # None => claims[d] # Absent
      BY DEF Open, Existing
    <3>2. d = c /\ d # None => Len(events[d]) # 0
      BY <3>1 DEF IInv, TypeOK, RowIsSound
    <3>3. Len(stamps[d]) = Len(events[d])
      BY DEF StampsInv, Trail
    <3> QED
      BY <2>1, <3>2, <3>3
  <2>4. stamps[d] # <<>> => 1 \in DOMAIN stamps[d]
    BY <2>1
  <2>5. ASSUME NEW r \in Slots, Opened(r)'
        PROVE  /\ \A i \in DOMAIN stamps[d] : stamps[d][i] # opened'[r].at
               /\ opened'[r].claim = d /\ d # None =>
                    stamps[d] # <<>> /\ stamps[d][1] < opened'[r].at
    <3>1. CASE r = s
      BY <1>1, <2>1, <2>2, <2>3, <2>4, <3>1
    <3>2. CASE r # s
      BY <1>1, <2>5, <3>2 DEF Opened, StampsInv, Trail
    <3> QED
      BY <3>1, <3>2
  <2> QED
    BY <1>1, <2>1, <2>2, <2>5 DEF StampsInv, Trail
<1> QED
  BY <1>2, <1>4, <1>5

(* A request leaves its transaction open on the claim it is in flight for,  *)
(* or closes it; the others keep theirs.                                    *)
LEMMA StepKeepsOpen ==
  ASSUME IInv, ClockInv, NEW s \in Slots, Step(s)
  PROVE  /\ OpenInv'
         /\ clock' = clock
         /\ \A r \in Slots : Opened(r)' => opened'[r] = opened[r] /\ Opened(r)
         /\ tx'[s].pc = "done" => ~Opened(s)'
<1> USE DEF ClockInv
<1>1. /\ opened \in [Slots -> [at: 0..MaxClock, claim: ClaimIds \cup {None}]]
      /\ clock' = clock /\ Opened(s)
      /\ opened' = IF tx'[s].pc = "done" THEN [opened EXCEPT ![s] = Closed] ELSE opened
  BY DEF AuditTypeOK, Step, Opened
<1>2. \A r \in Slots : Opened(r)' => opened'[r] = opened[r] /\ Opened(r)
  BY <1>1 DEF Opened
<1>3. tx'[s].pc = "done" => ~Opened(s)'
  BY <1>1 DEF Opened
<1>4. \A r \in Slots : opened'[r] = opened[r] \/ opened'[r] = Closed
  BY <1>1
<1>5. ASSUME NEW r \in Slots, tx'[r].pc # "done"
      PROVE  Opened(r)' /\ opened'[r].claim # None /\ tx'[r].claim = opened'[r].claim
  <2>1. CASE r = s
    <3>1. opened' = opened
      BY <1>1, <1>5, <2>1
    <3>2. opened[s].claim # None /\ tx'[s].claim = opened[s].claim
      BY <1>5, <2>1, StepWrites DEF StaysOnClaim, OpenInv
    <3> QED
      BY <1>1, <2>1, <3>1, <3>2 DEF Opened
  <2>2. CASE r # s
    <3>1. tx'[r] = tx[r]
      BY <2>2, StepWrites
    <3>2. opened'[r] = opened[r]
      BY <1>1, <2>2
    <3> QED
      BY <1>5, <3>1, <3>2 DEF OpenInv, Opened
  <2> QED
    BY <2>1, <2>2
<1>6. ASSUME NEW r \in Slots
      PROVE  /\ Opened(r)' <=> opened'[r].at > 0
             /\ opened'[r].at <= clock'
             /\ \A q \in Slots \ {r} : Opened(r)' => opened'[q].at # opened'[r].at
  <2>1. Closed.at = 0 /\ clock \in Nat /\ \A q \in Slots : opened[q].at \in Nat
    BY <1>1, ClockAssumption DEF Closed, AuditTypeOK
  <2>2. opened'[r] = Closed => ~Opened(r)' /\ opened'[r].at = 0
    BY <2>1 DEF Opened
  <2>3. opened'[r] = opened[r] => (Opened(r)' <=> Opened(r))
    BY DEF Opened
  <2>4. Opened(r) <=> opened[r].at > 0
    BY DEF OpenInv
  <2>5. \A q \in Slots \ {r} : Opened(r) => opened[q].at # opened[r].at
    BY DEF OpenInv
  <2> QED
    BY <1>1, <1>4, <2>1, <2>2, <2>3, <2>4, <2>5 DEF OpenInv
<1> QED
  BY <1>1, <1>2, <1>3, <1>5, <1>6 DEF OpenInv

(* The row a request adds to the trail of a claim is stamped later than the *)
(* row that filed the claim, and at no time of another.                     *)
LEMMA StepKeepsStamps ==
  ASSUME IInv, ClockInv, NEW s \in Slots, Step(s)
  PROVE  StampsInv' /\ stamps' \in [ClaimIds -> Seq(0..MaxClock)]
<1> USE DEF ClockInv
<1>1. /\ stamps \in [ClaimIds -> Seq(0..MaxClock)] /\ clock' = clock
      /\ clock \in Nat
      /\ \A r \in Slots : Opened(r)' => opened'[r] = opened[r] /\ Opened(r)
      /\ tx'[s].pc = "done" => ~Opened(s)'
  BY StepKeepsOpen, ClockAssumption DEF AuditTypeOK
<1>2. PICK at \in 0..MaxClock : at = opened[s].at /\ at > 0 /\ at <= clock
  BY DEF OpenInv, AuditTypeOK, Step, Opened
<1>3. ASSUME NEW c \in ClaimIds, events'[c] = events[c], stamps'[c] = stamps[c]
      PROVE  Trail(c)'
  BY <1>1, <1>3 DEF StampsInv, Trail, Stamped
<1>4. CASE events' = events /\ stamps' = stamps
  BY <1>1, <1>3, <1>4 DEF StampsInv, Trail
<1>5. ASSUME NEW d \in ClaimIds, StampsTrail(s, d)
      PROVE  StampsInv' /\ stamps' \in [ClaimIds -> Seq(0..MaxClock)]
  <2>1. stamps' = [stamps EXCEPT ![d] = Append(@, at)]
    BY <1>2, <1>5 DEF StampsTrail, occurred_at
  <2>2. stamps' \in [ClaimIds -> Seq(0..MaxClock)]
    BY <1>1, <2>1
  <2>3. \A c \in ClaimIds \ {d} : stamps'[c] = stamps[c] /\ events'[c] = events[c]
    BY <1>1, <1>5, <2>1 DEF StampsTrail
  <2>4. PICK q \in Seq(0..MaxClock) : q = stamps[d]
    BY <1>1
  <2>5. PICK n \in Nat : /\ n = Len(q) /\ DOMAIN q = 1..n
                         /\ \A i \in 1..n : q[i] \in 0..MaxClock
    BY SeqElements
  <2>6. /\ Len(stamps'[d]) = n + 1 /\ DOMAIN stamps'[d] = 1..(n + 1)
        /\ stamps'[d][n + 1] = at /\ \A i \in 1..n : stamps'[d][i] = q[i]
    BY <1>1, <2>1, <2>4, <2>5
  <2>7. /\ Len(events[d]) = n
        /\ \A i \in 1..n : q[i] <= clock
        /\ \A i \in 1..n : q[i] > 0 /\ i # 1 => q[1] < q[i]
        /\ \A i, j \in 1..n : q[i] > 0 /\ q[j] > 0 /\ q[i] = q[j] => i = j
        /\ \A i \in 1..n : q[i] # at
        /\ \A r \in Slots : Opened(r) => \A i \in 1..n : q[i] # opened[r].at
        /\ \A r \in Slots : Opened(r) /\ opened[r].claim = d /\ d # None =>
             q # <<>> /\ q[1] < opened[r].at
    <3>1. Opened(s)
      BY DEF Step, Opened
    <3> QED
      BY <1>2, <2>4, <2>5, <3>1 DEF StampsInv, Trail, Stamped
  <2>8. n > 0 => q[1] < at
    <3>1. events[d] \in Seq(ClaimEvent) /\ Opened(s)
      BY DEF IInv, TypeOK, Step, Opened
    <3>2. n > 0 => tx[s].pc # "done" /\ d = tx[s].claim
      BY <1>5, <2>7, <3>1 DEF StampsTrail, WritesTrail
    <3>3. n > 0 => opened[s].claim = d /\ d # None
      BY <3>2 DEF OpenInv
    <3> QED
      BY <1>2, <2>7, <3>1, <3>3
  <2>9. Len(stamps'[d]) = Len(events'[d])
    BY <1>5, <2>6, <2>7 DEF StampsTrail
  <2>10. \A i \in 1..(n + 1) : i \in 1..n \/ i = n + 1
    OBVIOUS
  <2>11. /\ \A i \in 1..(n + 1) : stamps'[d][i] <= clock /\ stamps'[d][i] \in Nat
         /\ \A i \in 1..(n + 1) : stamps'[d][i] > 0 /\ i # 1 => stamps'[d][1] < stamps'[d][i]
    <3>1. \A i \in 1..n : q[i] \in Nat
      BY <2>5, ClockAssumption
    <3>2. ASSUME NEW i \in 1..(n + 1)
          PROVE  stamps'[d][i] <= clock /\ stamps'[d][i] \in Nat
      BY <1>2, <2>6, <2>7, <2>10, <3>1, ClockAssumption
    <3>3. ASSUME NEW i \in 1..(n + 1), stamps'[d][i] > 0, i # 1
          PROVE  stamps'[d][1] < stamps'[d][i]
      <4>1. n > 0 /\ stamps'[d][1] = q[1]
        BY <2>6, <3>3
      <4>2. CASE i \in 1..n
        BY <2>6, <2>7, <3>3, <4>1, <4>2
      <4>3. CASE i = n + 1
        BY <2>6, <2>8, <4>1, <4>3
      <4> QED
        BY <2>10, <4>2, <4>3
    <3> QED
      BY <3>2, <3>3
  <2>12. \A i, j \in 1..(n + 1) :
           stamps'[d][i] > 0 /\ stamps'[d][j] > 0 /\ stamps'[d][i] = stamps'[d][j] => i = j
    BY <1>2, <2>5, <2>6, <2>7, <2>10
  <2>13. ASSUME NEW r \in Slots, Opened(r)'
         PROVE  /\ \A i \in 1..(n + 1) : stamps'[d][i] # opened'[r].at
                /\ opened'[r].claim = d /\ d # None =>
                     stamps'[d] # <<>> /\ stamps'[d][1] < opened'[r].at
    <3>1. opened'[r] = opened[r] /\ Opened(r) /\ r # s
      BY <1>1, <1>5, <2>13 DEF StampsTrail, WritesTrail
    <3>2. opened[r].at # at
      BY <1>2, <3>1 DEF OpenInv
    <3>3. \A i \in 1..(n + 1) : stamps'[d][i] # opened'[r].at
      BY <2>6, <2>7, <2>10, <3>1, <3>2
    <3>4. ASSUME opened'[r].claim = d, d # None
          PROVE  stamps'[d] # <<>> /\ stamps'[d][1] < opened'[r].at
      <4>1. q # <<>> /\ q[1] < opened[r].at
        BY <2>7, <3>1, <3>4
      <4>2. 1 \in 1..n
        BY <2>4, <2>5, <4>1
      <4> QED
        BY <2>6, <3>1, <4>1, <4>2
    <3> QED
      BY <3>3, <3>4
  <2>14. Trail(d)'
    BY <1>1, <2>6, <2>9, <2>11, <2>12, <2>13 DEF StampsInv, Trail, Stamped
  <2> QED
    BY <1>3, <2>2, <2>3, <2>14 DEF StampsInv, Trail
<1> QED
  BY <1>1, <1>4, <1>5, StepWrites

(* The seed was written by one transaction, before any other began.         *)
LEMMA ClockStarts == AuditInit => IInv /\ ClockInv
<1> SUFFICES ASSUME AuditInit PROVE IInv /\ ClockInv
  OBVIOUS
<1> USE ClockAssumption
<1>1. IInv
  BY SeedIsSound DEF AuditInit
<1>2. /\ clock = 0 /\ opened = [s \in Slots |-> Closed]
      /\ stamps = [c \in ClaimIds |-> [i \in DOMAIN events[c] |-> 0]]
      /\ \A s \in Slots : tx[s].pc = "done"
  BY DEF AuditInit, seed
<1>3. OpenInv /\ \A s \in Slots : ~Opened(s)
  BY <1>2 DEF OpenInv, Opened, Closed
<1>4. ASSUME NEW c \in ClaimIds
      PROVE  /\ stamps[c] \in Seq(0..MaxClock) /\ Len(stamps[c]) = Len(events[c])
             /\ \A i \in DOMAIN stamps[c] : stamps[c][i] = 0
  <2>1. events[c] \in Seq(ClaimEvent)
    BY <1>1 DEF IInv, TypeOK
  <2>2. PICK n \in Nat : n = Len(events[c]) /\ DOMAIN events[c] = 1..n
    BY <2>1, LenProperties
  <2>3. stamps[c] = [i \in 1..n |-> 0]
    BY <1>2, <2>2
  <2>4. stamps[c] \in [1..n -> 0..MaxClock] /\ \A i \in DOMAIN stamps[c] : stamps[c][i] = 0
    BY <2>3
  <2> QED
    BY <2>2, <2>4, SeqOfFunction
<1>5. StampsInv
  BY <1>2, <1>3, <1>4 DEF StampsInv, Trail, Stamped
<1>6. stamps \in [ClaimIds -> Seq(0..MaxClock)]
  BY <1>2, <1>4
<1>7. AuditTypeOK
  BY <1>2, <1>6 DEF AuditTypeOK, Closed
<1> QED
  BY <1>1, <1>3, <1>5, <1>7 DEF ClockInv

(* A step of a request keeps the invariant of the clock.                    *)
LEMMA StepKeepsClock ==
  ASSUME IInv, ClockInv, NEW s \in Slots, Step(s)
  PROVE  ClockInv'
<1>1. AuditTypeOK'
  <2>1. /\ opened \in [Slots -> [at: 0..MaxClock, claim: ClaimIds \cup {None}]]
        /\ clock' = clock /\ clock \in 0..MaxClock
        /\ opened' = IF tx'[s].pc = "done" THEN [opened EXCEPT ![s] = Closed] ELSE opened
    BY DEF ClockInv, AuditTypeOK, Step
  <2>2. Closed \in [at: 0..MaxClock, claim: ClaimIds \cup {None}]
    BY ClockAssumption DEF Closed
  <2> QED
    BY <2>1, <2>2, StepKeepsStamps DEF AuditTypeOK
<1> QED
  BY <1>1, StepKeepsOpen, StepKeepsStamps DEF ClockInv

(* Every step keeps the invariants of the service and of the clock.         *)
LEMMA ClockStep == IInv /\ ClockInv /\ [AuditNext]_auditVars => (IInv /\ ClockInv)'
<1> SUFFICES ASSUME IInv, ClockInv, [AuditNext]_auditVars PROVE IInv' /\ ClockInv'
  OBVIOUS
<1>1. ASSUME NEW s \in Slots, NEW c \in ClaimIds \cup {None}, Open(s, c)
      PROVE  IInv' /\ ClockInv'
  <2>1. UNCHANGED vars
    BY <1>1 DEF Open
  <2> QED
    BY <1>1, <2>1, OpenKeepsClock, StepInv
<1>2. ASSUME NEW s \in Slots, Step(s) PROVE IInv' /\ ClockInv'
  BY <1>2, StepWrites, StepKeepsClock, StepInv
<1>3. CASE UNCHANGED auditVars
  <2>1. UNCHANGED <<vars, tx, events, clock, opened, stamps>>
    BY <1>3 DEF auditVars, vars
  <2>2. IInv'
    BY <2>1, StepInv
  <2>3. AuditTypeOK' /\ OpenInv'
    BY <2>1 DEF ClockInv, AuditTypeOK, OpenInv, Opened
  <2>4. StampsInv'
    BY <2>1 DEF ClockInv, StampsInv, Trail, Stamped, Opened
  <2> QED
    BY <2>2, <2>3, <2>4 DEF ClockInv
<1> QED
  BY <1>1, <1>2, <1>3 DEF AuditNext

(* The invariant of the seeded service and its clock.                       *)
THEOREM ClockInvariance == AuditSpec => [](IInv /\ ClockInv)
  BY ClockStarts, ClockStep, PTL DEF AuditSpec

(* What ClaimServiceProofs shows of an empty database holds of the one      *)
(* seed.py leaves, and of all that becomes of it.                           *)
THEOREM SeededServiceIsSound ==
  AuditSpec => [](PaidExactlyOnce /\ StatusIsLastEvent /\ EventsAreLegal
                  /\ AmountIsCovered)
<1>1. IInv => PaidExactlyOnce /\ StatusIsLastEvent
  BY DEF IInv, TypeOK, RowIsSound, PaidExactlyOnce, Existing,
         claims_paid_more_than_once, orphaned_payouts, paid_claims_without_a_payout,
         StatusIsLastEvent, LastEvent, orphaned_events, claims_with_no_audit_trail
<1>2. IInv => EventsAreLegal /\ AmountIsCovered
  BY DEF IInv, RowIsSound, EventsAreLegal, AmountIsCovered, Existing
<1> QED
  BY <1>1, <1>2, ClockInvariance, PTL

(* The row a trail is listed by first is the creation of the claim, and no  *)
(* two rows of it share their time: however many transactions overlap, and  *)
(* in whatever order they commit.                                           *)
THEOREM CreationComesFirst == AuditSpec => []CreationIsListedFirst
<1>1. ClockInv => CreationIsListedFirst
  BY DEF ClockInv, StampsInv, Trail, CreationIsListedFirst
<1> QED
  BY <1>1, ClockInvariance, PTL

-----------------------------------------------------------------------------
(* The order of the trail, while no two transactions are open on one claim. *)

OneOpenRequest ==
  \A r, s \in Slots :
    opened[r].claim = opened[s].claim /\ opened[r].claim # None => r = s

OrderInv ==
  \A c \in ClaimIds :
    /\ \A i, j \in Stamped(c) : i < j => stamps[c][i] < stamps[c][j]
    /\ \A s \in Slots : Opened(s) /\ opened[s].claim = c /\ c # None =>
         \A i \in DOMAIN stamps[c] : stamps[c][i] < opened[s].at

(* The only request that can write to a trail began after all that wrote to *)
(* it before.                                                               *)
LEMMA StepKeepsOrder ==
  ASSUME IInv, ClockInv, OrderInv, OneOpenRequest, NEW s \in Slots, Step(s)
  PROVE  OrderInv'
<1>1. /\ \A r \in Slots : Opened(r)' => opened'[r] = opened[r] /\ Opened(r)
      /\ tx'[s].pc = "done" => ~Opened(s)'
      /\ stamps \in [ClaimIds -> Seq(0..MaxClock)] /\ Opened(s)
  BY StepKeepsOpen DEF ClockInv, AuditTypeOK, Step, Opened
<1>2. CASE stamps' = stamps
  BY <1>1, <1>2 DEF OrderInv, Stamped
<1>3. ASSUME NEW d \in ClaimIds, StampsTrail(s, d) PROVE OrderInv'
  <2>1. PICK at \in 0..MaxClock : at = opened[s].at
    BY DEF ClockInv, AuditTypeOK
  <2>2. stamps' = [stamps EXCEPT ![d] = Append(@, at)]
    BY <1>3, <2>1 DEF StampsTrail, occurred_at
  <2>3. \A c \in ClaimIds \ {d} : stamps'[c] = stamps[c]
    BY <1>1, <2>2
  <2>4. PICK q \in Seq(0..MaxClock) : q = stamps[d]
    BY <1>1
  <2>5. PICK n \in Nat : /\ n = Len(q) /\ DOMAIN q = 1..n
                         /\ \A i \in 1..n : q[i] \in 0..MaxClock
    BY SeqElements
  <2>6. /\ DOMAIN stamps'[d] = 1..(n + 1)
        /\ stamps'[d][n + 1] = at /\ \A i \in 1..n : stamps'[d][i] = q[i]
    BY <1>1, <2>2, <2>4, <2>5
  <2>7. /\ Len(events[d]) = n /\ events[d] \in Seq(ClaimEvent)
        /\ events[d] = <<>> => n = 0
    BY <2>4, <2>5 DEF ClockInv, StampsInv, Trail, IInv, TypeOK
  <2>8. n > 0 => d = opened[s].claim /\ d # None
    BY <1>3, <2>7 DEF StampsTrail, WritesTrail, ClockInv, OpenInv
  <2>9. \A i \in 1..n : q[i] < at
    BY <1>1, <2>1, <2>4, <2>5, <2>8 DEF OrderInv
  <2>10. \A i \in 1..(n + 1) : i \in 1..n \/ i = n + 1
    OBVIOUS
  <2>11. ASSUME NEW i \in 1..(n + 1), NEW j \in 1..(n + 1),
                stamps'[d][i] > 0, stamps'[d][j] > 0, i < j
         PROVE  stamps'[d][i] < stamps'[d][j]
    <3>1. i \in 1..n
      BY <2>11
    <3>2. CASE j = n + 1
      BY <2>6, <2>9, <3>1, <3>2
    <3>3. CASE j \in 1..n
      <4>1. i \in Stamped(d) /\ j \in Stamped(d)
        BY <2>4, <2>5, <2>6, <2>11, <3>1, <3>3 DEF Stamped
      <4> QED
        BY <2>4, <2>6, <2>11, <3>1, <3>3, <4>1 DEF OrderInv
    <3> QED
      BY <2>10, <3>2, <3>3
  <2>12. ASSUME NEW r \in Slots, Opened(r)', opened'[r].claim = d, d # None
         PROVE  FALSE
    <3>1. opened[r].claim = d /\ Opened(r) /\ r # s
      BY <1>1, <1>3, <2>12 DEF StampsTrail, WritesTrail
    <3>2. q # <<>>
      BY <2>4, <2>12, <3>1 DEF ClockInv, StampsInv, Trail
    <3>3. n > 0
      BY <2>5, <3>2
    <3> QED
      BY <2>8, <3>1, <3>3 DEF OneOpenRequest
  <2>13. ASSUME NEW c \in ClaimIds
         PROVE  /\ \A i, j \in Stamped(c)' : i < j => stamps'[c][i] < stamps'[c][j]
                /\ \A r \in Slots : Opened(r)' /\ opened'[r].claim = c /\ c # None =>
                     \A i \in DOMAIN stamps'[c] : stamps'[c][i] < opened'[r].at
    <3>1. CASE c = d
      BY <2>6, <2>11, <2>12, <3>1 DEF Stamped
    <3>2. CASE c # d
      BY <1>1, <2>3, <3>2 DEF OrderInv, Stamped
    <3> QED
      BY <3>1, <3>2
  <2> QED
    BY <2>13 DEF OrderInv
<1> QED
  BY <1>2, <1>3, StepWrites

(* A request that begins is later than every row written so far.            *)
LEMMA OpenKeepsOrder ==
  ASSUME ClockInv, OrderInv, NEW s \in Slots, NEW c \in ClaimIds \cup {None}, Open(s, c)
  PROVE  OrderInv'
<1>1. /\ clock \in Nat /\ UNCHANGED stamps
      /\ opened'[s] = [at |-> clock + 1, claim |-> c]
      /\ \A r \in Slots \ {s} : opened'[r] = opened[r]
      /\ stamps \in [ClaimIds -> Seq(0..MaxClock)]
      /\ \A d \in ClaimIds : \A i \in DOMAIN stamps[d] : stamps[d][i] <= clock
  BY ClockAssumption DEF Open, ClockInv, AuditTypeOK, StampsInv, Trail
<1>2. \A d \in ClaimIds : \A i \in DOMAIN stamps[d] : stamps[d][i] \in Int
  BY <1>1, ClockAssumption
<1>3. ASSUME NEW r \in Slots, NEW d \in ClaimIds, Opened(r)', opened'[r].claim = d, d # None,
             NEW i \in DOMAIN stamps[d]
      PROVE  stamps[d][i] < opened'[r].at
  <2>1. CASE r = s
    BY <1>1, <1>2, <2>1
  <2>2. CASE r # s
    BY <1>1, <1>3, <2>2 DEF Opened, OrderInv
  <2> QED
    BY <2>1, <2>2
<1> QED
  BY <1>1, <1>3 DEF OrderInv, Stamped

(* While no two transactions are open on one claim, its rows are listed in  *)
(* the order in which they happened: what the run audit_listing refutes     *)
(* without that hypothesis.                                                 *)
THEOREM TrailIsInOrder == AuditSpec /\ []OneOpenRequest => []ListedInOrder
<1>1. AuditInit => OrderInv
  BY ClockStarts DEF AuditInit, OrderInv, Stamped, Opened
<1>2. IInv /\ ClockInv /\ OrderInv /\ OneOpenRequest /\ [AuditNext]_auditVars => OrderInv'
  <2>1. ASSUME OrderInv, UNCHANGED auditVars PROVE OrderInv'
    BY <2>1 DEF auditVars, OrderInv, Stamped, Opened
  <2> QED
    BY <2>1, StepKeepsOrder, OpenKeepsOrder DEF AuditNext
<1>3. OrderInv => ListedInOrder
  BY DEF OrderInv, ListedInOrder
<1> QED
  BY <1>1, <1>2, <1>3, ClockInvariance, PTL DEF AuditSpec

-----------------------------------------------------------------------------
(* The order of the list.                                                   *)

\* What comes before each row is the initial segment of a total order.
Orders(A, M) ==
  /\ A \in [M -> SUBSET M]
  /\ \A c \in M : c \notin A[c]
  /\ \A c, d \in M : c # d => \/ c \in A[d] /\ A[c] \subseteq A[d]
                              \/ d \in A[c] /\ A[d] \subseteq A[c]

(* Rows ranked by how many come before them: every row at one place, if of  *)
(* two rows one always comes before the other.                              *)
LEMMA Enumeration ==
  ASSUME NEW M, IsFiniteSet(M), NEW A, Orders(A, M)
  PROVE  /\ Cardinality(M) \in Nat
         /\ Ranked(M, A) \in [1..Cardinality(M) -> M]
         /\ \A c \in M : /\ Cardinality(A[c]) + 1 \in 1..Cardinality(M)
                         /\ Ranked(M, A)[Cardinality(A[c]) + 1] = c
<1> USE DEF Orders
<1>1. PICK n \in Nat : n = Cardinality(M)
  BY FS_CardinalityType
<1>2. ASSUME NEW c \in M
      PROVE  IsFiniteSet(A[c]) /\ Cardinality(A[c]) \in 0..(n - 1)
  <2>1. A[c] \in SUBSET M /\ A[c] # M
    OBVIOUS
  <2>2. /\ IsFiniteSet(A[c]) /\ Cardinality(A[c]) <= Cardinality(M)
        /\ Cardinality(M) # Cardinality(A[c])
    BY <2>1, FS_Subset
  <2>3. Cardinality(A[c]) \in Nat
    BY <2>2, FS_CardinalityType
  <2> QED
    BY <1>1, <2>2, <2>3
<1>3. ASSUME NEW c \in M, NEW d \in M, c \in A[d], A[c] \subseteq A[d]
      PROVE  Cardinality(A[c]) # Cardinality(A[d])
  <2>1. A[c] \in SUBSET A[d] /\ A[c] # A[d]
    BY <1>3
  <2> QED
    BY <1>2, <2>1, FS_Subset
<1> DEFINE place == [c \in M |-> Cardinality(A[c]) + 1]
<1>4. place \in Injection(M, 1..n)
  <2>1. \A c \in M : /\ Cardinality(A[c]) \in Int /\ place[c] \in 1..n
                     /\ place[c] = Cardinality(A[c]) + 1
    BY <1>2
  <2>2. \A c, d \in M : place[c] = place[d] => c = d
    BY <1>3, <2>1
  <2>3. place \in [M -> 1..n]
    BY <2>1
  <2> QED
    BY <2>2, <2>3 DEF Injection, IsInjective
<1>5. IsFiniteSet(1..n) /\ Cardinality(1..n) = n
  BY FS_Interval
<1>6. place \in Surjection(M, 1..n)
  BY <1>1, <1>4, <1>5, FS_Injection
<1>7. \A i \in 1..n : \E c \in M : Cardinality(A[c]) = i - 1
  <2>1. \A i \in 1..n : \E c \in M : place[c] = i
    BY <1>6 DEF Surjection
  <2> QED
    BY <1>2, <2>1
<1>8. ASSUME NEW i \in 1..n
      PROVE  Ranked(M, A)[i] \in M /\ Cardinality(A[Ranked(M, A)[i]]) = i - 1
  <2>1. Ranked(M, A)[i] = CHOOSE c \in M : Cardinality(A[c]) = i - 1
    BY <1>1 DEF Ranked
  <2> QED
    BY <1>7, <2>1
<1>9. Ranked(M, A) \in [1..n -> M]
  <2>1. Ranked(M, A) = [i \in 1..n |-> Ranked(M, A)[i]]
    BY <1>1 DEF Ranked
  <2> QED
    BY <1>8, <2>1
<1>10. \A c, d \in M : Cardinality(A[c]) = Cardinality(A[d]) => c = d
  BY <1>3
<1>11. ASSUME NEW c \in M
       PROVE  /\ Cardinality(A[c]) + 1 \in 1..n
              /\ Ranked(M, A)[Cardinality(A[c]) + 1] = c
  <2>1. Cardinality(A[c]) + 1 \in 1..n /\ (Cardinality(A[c]) + 1) - 1 = Cardinality(A[c])
    BY <1>2
  <2> QED
    BY <1>8, <1>10, <2>1
<1> QED
  BY <1>1, <1>9, <1>11

(* Of two rows of the list one comes before the other.                      *)
LEMMA KeysAreNumbers ==
  ASSUME IInv, ClockInv, NEW r \in Reader, NEW c \in Existing
  PROVE  Key(r, c) \in Int
<1>1. claims[c] \in Claim /\ events[c] \in Seq(ClaimEvent) /\ events[c] # <<>> /\ c \in ClaimIds
  BY DEF Existing, IInv, TypeOK, RowIsSound
<1>2. claims[c].amount \in Int
  BY <1>1 DEF Claim
<1>3. stamps[c] \in Seq(0..MaxClock) /\ Len(stamps[c]) = Len(events[c])
  BY <1>1 DEF ClockInv, AuditTypeOK, StampsInv, Trail
<1>4. stamps[c] # <<>>
  BY <1>1, <1>3
<1>5. PICK n \in Nat : n = Len(stamps[c]) /\ \A i \in 1..n : stamps[c][i] \in 0..MaxClock
  BY <1>3, SeqElements
<1>6. n > 0
  BY <1>3, <1>4, <1>5
<1>7. stamps[c][1] \in Int
  BY <1>5, <1>6, ClockAssumption
<1> QED
  BY <1>2, <1>7 DEF Key, created_at

(* The list is its rows, each at its rank.                                  *)
LEMMA ListIsRanked ==
  ASSUME IInv, ClockInv, IsFiniteSet(Existing), reader \in Reader
  PROVE  /\ Rows \in Nat /\ IsFiniteSet(Matches(reader))
         /\ Ordered(reader) \in Seq(ClaimIds) /\ Len(Ordered(reader)) = Rows
         /\ DOMAIN Ordered(reader) = 1..Rows
         /\ \A c \in Matches(reader) : rank(c) \in 1..Rows /\ Ordered(reader)[rank(c)] = c
<1>0. PICK M, A : M = Matches(reader) /\ A = Ahead(reader)
  OBVIOUS
<1>1. M \subseteq Existing /\ M \subseteq ClaimIds
  BY <1>0 DEF Matches, Existing
<1>2. IsFiniteSet(M)
  BY <1>1, FS_Subset
<1>3. \A c \in M : Key(reader, c) \in Int /\ Id[c] \in Nat
  BY <1>1, KeysAreNumbers, ListingAssumption
<1>4. \A c, d \in M : Id[c] = Id[d] => c = d
  BY <1>1, ListingAssumption
<1>5. /\ A \in [M -> SUBSET M]
      /\ \A c, d \in M : c \in A[d] <=> Before(reader, c, d)
  BY <1>0 DEF Ahead
<1>6. \A c \in M : ~Before(reader, c, c)
  BY <1>3 DEF Before
<1>7. \A c, d \in M : c # d => Before(reader, c, d) \/ Before(reader, d, c)
  BY <1>3, <1>4 DEF Before
<1>8. \A c, d, e \in M : Before(reader, e, c) /\ Before(reader, c, d) => Before(reader, e, d)
  BY <1>3 DEF Before
<1>9. \A c, d \in M : Before(reader, c, d) => c \in A[d] /\ A[c] \subseteq A[d]
  BY <1>5, <1>8
<1>10. Orders(A, M)
  BY <1>5, <1>6, <1>7, <1>9 DEF Orders
<1>11. /\ Cardinality(M) \in Nat
       /\ Ranked(M, A) \in [1..Cardinality(M) -> M]
       /\ \A c \in M : /\ Cardinality(A[c]) + 1 \in 1..Cardinality(M)
                       /\ Ranked(M, A)[Cardinality(A[c]) + 1] = c
  BY <1>2, <1>10, Enumeration
<1>12. Ranked(M, A) \in [1..Cardinality(M) -> ClaimIds]
  BY <1>1, <1>11
<1>13. Ranked(M, A) \in Seq(ClaimIds) /\ Len(Ranked(M, A)) = Cardinality(M)
  BY <1>11, <1>12, SeqOfFunction
<1> QED
  BY <1>0, <1>2, <1>11, <1>12, <1>13 DEF Rows, rank, Ordered

(* What decides which page there is a next one of.                          *)
LEMMA PagesCover ==
  ASSUME NEW total \in Nat, NEW page \in Nat \ {0}
  PROVE  page < pages(total) <=> Size * page < total
<1> USE ListingAssumption
<1>1. CASE total = 0
  <2>1. Size * page \in Nat
    OBVIOUS
  <2> QED BY <1>1, <2>1 DEF pages
<1>2. CASE total # 0
  <2>1. PICK q \in Int, r \in Int :
          /\ q = (total + Size - 1) \div Size
          /\ total + Size - 1 = Size * q + r /\ 0 <= r /\ r < Size
    OBVIOUS
  <2>2. ASSUME page < q PROVE Size * page < total
    <3>1. Size * (page + 1) <= Size * q
      BY <2>2
    <3> QED BY <2>1, <3>1
  <2>3. ASSUME ~(page < q) PROVE ~(Size * page < total)
    <3>1. Size * q <= Size * page
      BY <2>3
    <3> QED BY <2>1, <3>1
  <2> QED BY <1>2, <2>1, <2>2, <2>3 DEF pages
<1> QED
  BY <1>1, <1>2

(* The list depends on the rows and on what is asked of them.               *)
LEMMA SameView ==
  ASSUME UNCHANGED <<claims, stamps>>, reader'.actor = reader.actor,
         reader'.status = reader.status, reader'.sort = reader.sort
  PROVE  /\ Matches(reader)' = Matches(reader) /\ Ordered(reader)' = Ordered(reader)
         /\ Rows' = Rows /\ \A c : rank(c)' = rank(c)
<1>1. Existing' = Existing
  BY DEF Existing
<1>2. Matches(reader)' = Matches(reader)
  BY <1>1 DEF Matches
<1>3. \A c, d : Before(reader, c, d)' <=> Before(reader, c, d)
  BY DEF Before, Key, created_at
<1>4. Ahead(reader)' = Ahead(reader)
  BY <1>2, <1>3 DEF Ahead
<1> QED
  BY <1>2, <1>4 DEF Ordered, Rows, rank

(* While no row leaves the list or moves in it, those that enter can only   *)
(* push a row back; and if none enters the list is what it was.             *)
LEMMA GrownView ==
  ASSUME reader' = reader, IsFiniteSet(Matches(reader)'),
         Matches(reader) \subseteq Matches(reader)',
         \A c \in Matches(reader) : Key(reader, c)' = Key(reader, c)
  PROVE  /\ \A c \in Matches(reader) : rank(c)' >= rank(c)
         /\ Matches(reader)' = Matches(reader) =>
              Ordered(reader)' = Ordered(reader) /\ Rows' = Rows
<1>1. \A c, d \in Matches(reader) : Before(reader, c, d)' <=> Before(reader, c, d)
  BY DEF Before
<1>2. ASSUME NEW c \in Matches(reader)
      PROVE  rank(c)' >= rank(c)
  <2>1. /\ Ahead(reader)[c] \subseteq Ahead(reader)'[c]
        /\ Ahead(reader)'[c] \subseteq Matches(reader)'
    BY <1>1 DEF Ahead
  <2>2. PICK A, B : A = Ahead(reader)[c] /\ B = Ahead(reader)'[c]
    OBVIOUS
  <2>3. IsFiniteSet(B)
    BY <2>1, <2>2, FS_Subset
  <2>4. IsFiniteSet(A) /\ Cardinality(A) <= Cardinality(B)
    BY <2>1, <2>2, <2>3, FS_Subset
  <2>5. Cardinality(A) \in Nat /\ Cardinality(B) \in Nat
    BY <2>3, <2>4, FS_CardinalityType
  <2> QED
    BY <2>2, <2>4, <2>5 DEF rank
<1>3. ASSUME Matches(reader)' = Matches(reader)
      PROVE  Ordered(reader)' = Ordered(reader) /\ Rows' = Rows
  <2>1. Ahead(reader)' = Ahead(reader)
    BY <1>1, <1>3 DEF Ahead
  <2> QED
    BY <1>3, <2>1 DEF Ordered, Rows
<1> QED
  BY <1>2, <1>3

(* A step files one claim at most.                                          *)
LEMMA ExistingGrows ==
  ASSUME IInv, ClockInv, [AuditNext]_auditVars, IsFiniteSet(Existing)
  PROVE  IsFiniteSet(Existing)'
<1>1. IInv'
  BY ClockStep
<1>2. Existing = {c \in ClaimIds : events[c] # <<>>}
  BY DEF Existing, IInv, RowIsSound
<1>3. Existing' = {c \in ClaimIds : events'[c] # <<>>}
  BY <1>1 DEF Existing, IInv, RowIsSound
<1>4. \E d : \A c \in ClaimIds \ {d} : events'[c] = events[c]
  <2>1. CASE UNCHANGED events
    BY <2>1
  <2>2. ASSUME NEW s \in Slots, Step(s)
        PROVE  UNCHANGED events \/ \E d \in ClaimIds : StampsTrail(s, d)
    BY <2>2, StepWrites
  <2>3. ASSUME NEW s \in Slots, NEW d \in ClaimIds, StampsTrail(s, d)
        PROVE  \A c \in ClaimIds \ {d} : events'[c] = events[c]
    BY <2>3 DEF StampsTrail
  <2>4. ASSUME NEW s \in Slots, NEW c \in ClaimIds \cup {None}, Open(s, c)
        PROVE  UNCHANGED events
    BY <2>4 DEF Open, vars
  <2>5. UNCHANGED auditVars => UNCHANGED events
    BY DEF auditVars, vars
  <2> QED
    BY <2>1, <2>2, <2>3, <2>4, <2>5 DEF AuditNext
<1>5. PICK d : \A c \in ClaimIds \ {d} : events'[c] = events[c]
  BY <1>4
<1>6. Existing' \subseteq Existing \cup {d}
  BY <1>2, <1>3, <1>5
<1>7. PICK E, F : E = Existing /\ F = Existing'
  OBVIOUS
<1>8. IsFiniteSet(E \cup {d})
  BY <1>7, FS_AddElement
<1>9. IsFiniteSet(F)
  BY <1>6, <1>7, <1>8, FS_Subset
<1> QED
  BY <1>7, <1>9

-----------------------------------------------------------------------------
(* The steps of the traversal.                                              *)

(* A count opens the traversal or renews its total.                         *)
LEMMA CountStep ==
  ASSUME ListingInv, Count
  PROVE  (ReaderOK /\ TotalInv /\ ExactInv /\ SteadyInv)'
<1> USE DEF ListingInv
<1>1. reader \in Reader /\ watch \in Watch /\ reader.pc = "count"
  BY DEF ReaderOK, Count
<1>2. PICK rows \in Nat : rows = Rows
  BY <1>1, ListIsRanked
<1>3. reader' = [reader EXCEPT !.pc = "page", !.total = rows]
  BY <1>2 DEF Count, Rows
<1>4. /\ reader' \in Reader /\ reader'.pc = "page" /\ reader'.total = rows
      /\ reader'.page = reader.page /\ reader'.got = reader.got
      /\ reader'.actor = reader.actor /\ reader'.status = reader.status
      /\ reader'.sort = reader.sort
  BY <1>1, <1>2, <1>3 DEF Reader
<1>5. UNCHANGED <<claims, stamps>>
  BY DEF Count, auditVars, vars
<1>6. /\ Matches(reader)' = Matches(reader) /\ Ordered(reader)' = Ordered(reader)
      /\ Rows' = Rows /\ \A c : rank(c)' = rank(c)
  BY <1>4, <1>5, SameView
<1>7. Started'
  BY <1>4 DEF Started, Begun
<1>8. Started <=> Begun
  BY <1>1 DEF Started
<1>9. Passed' = Passed
  BY <1>1, <1>4 DEF Passed
<1>10. CASE Begun
  <2>1. watch' = [watch EXCEPT !.late = FALSE]
    BY <1>10 DEF Count
  <2>2. /\ watch'.steady = watch.steady /\ watch'.gone = watch.gone
        /\ watch'.come = watch.come /\ watch'.late = FALSE
    BY <1>1, <2>1 DEF Watch
  <2>3. watch' \in Watch
    BY <1>1, <2>1 DEF Watch
  <2>4. ReaderOK'
    BY <1>4, <1>7, <2>2, <2>3 DEF ReaderOK
  <2>5. TotalInv'
    BY <1>2, <1>4, <1>6 DEF TotalInv
  <2>6. ExactInv'
    BY <1>1, <1>4, <1>6, <1>8, <1>9, <1>10, <2>2 DEF ExactInv
  <2>7. SteadyInv'
    BY <1>4, <1>6, <1>8, <1>9, <1>10, <2>2 DEF SteadyInv, Got
  <2> QED
    BY <2>4, <2>5, <2>6, <2>7
<1>11. CASE ~Begun
  <2>1. watch' = Quiet(Matches(reader)) /\ reader.page = 1 /\ reader.got = <<>>
    BY <1>1, <1>8, <1>11 DEF Count, Begun, ReaderOK, Reader
  <2>2. Passed = 0
    BY <1>1, <2>1, ListingAssumption DEF Passed
  <2>3. /\ watch' \in Watch /\ watch'.late = FALSE /\ watch'.steady = Matches(reader)
    BY <2>1 DEF Quiet, Watch, Matches, Existing
  <2>4. ReaderOK'
    BY <1>4, <1>7, <2>3 DEF ReaderOK
  <2>5. TotalInv'
    BY <1>2, <1>4, <1>6 DEF TotalInv
  <2>6. ExactInv'
    <3>1. SubSeq(Ordered(reader)', 1, 0) = <<>>
      OBVIOUS
    <3>2. 0 <= rows /\ (IF 0 < rows THEN 0 ELSE rows) = 0
      OBVIOUS
    <3> QED
      BY <1>2, <1>4, <1>6, <1>9, <2>1, <2>2, <3>1, <3>2 DEF ExactInv
  <2>7. SteadyInv'
    <3>1. \A c \in Matches(reader) : rank(c) > 0
      BY <1>1, ListIsRanked
    <3> QED
      BY <1>6, <1>9, <2>2, <2>3, <3>1 DEF SteadyInv
  <2> QED
    BY <2>4, <2>5, <2>6, <2>7
<1> QED
  BY <1>10, <1>11

(* A page takes the rows up to where the next one begins.                   *)
LEMMA ReadPageStep ==
  ASSUME ListingInv, ReadPage
  PROVE  (ReaderOK /\ TotalInv /\ ExactInv /\ SteadyInv)'
<1> USE ListingAssumption DEF ListingInv
<1>1. reader \in Reader /\ watch \in Watch /\ reader.pc = "page"
  BY DEF ReaderOK, ReadPage
<1>2. PICK O \in Seq(ClaimIds), rows \in Nat :
        /\ O = Ordered(reader) /\ rows = Rows /\ Len(O) = rows /\ DOMAIN O = 1..rows
        /\ \A c \in Matches(reader) : rank(c) \in 1..rows /\ O[rank(c)] = c
  BY <1>1, ListIsRanked
<1>3. PICK page \in Nat \ {0}, total \in Nat, got \in Seq(ClaimIds) :
        page = reader.page /\ total = reader.total /\ got = reader.got
  BY <1>1 DEF Reader
<1>4. PICK first \in Nat, next \in Nat :
        /\ first = Size * (page - 1) /\ next = Size * page /\ next = first + Size
        /\ first = (page - 1) * Size
  OBVIOUS
<1>5. PICK last \in Nat : last = IF rows < next THEN rows ELSE next
  OBVIOUS
<1>6. Page(reader) = SubSeq(O, first + 1, last)
  BY <1>2, <1>3, <1>4, <1>5 DEF Page, Slice
<1>7. /\ SubSeq(O, first + 1, last) \in Seq(ClaimIds)
      /\ Len(SubSeq(O, first + 1, last)) = IF first + 1 <= last THEN last - first ELSE 0
      /\ \A i \in 1..(last - first) : SubSeq(O, first + 1, last)[i] = O[first + i]
  <2>1. \A i \in (first + 1)..last : O[i] \in ClaimIds
    BY <1>2, <1>5
  <2>2. last - (first + 1) + 1 = last - first
    OBVIOUS
  <2>3. \A i \in 1..(last - first) : first + 1 + i - 1 = first + i
    OBVIOUS
  <2>4. /\ SubSeq(O, first + 1, last) \in Seq(ClaimIds)
        /\ Len(SubSeq(O, first + 1, last)) =
             IF first + 1 <= last THEN last - (first + 1) + 1 ELSE 0
        /\ \A i \in 1..(last - (first + 1) + 1) :
             SubSeq(O, first + 1, last)[i] = O[first + 1 + i - 1]
    BY <2>1, SubSeqProperties
  <2> QED
    BY <2>2, <2>3, <2>4
<1>8. PICK slice \in Seq(ClaimIds) : slice = SubSeq(O, first + 1, last)
  BY <1>7
<1>9. got \o slice \in Seq(ClaimIds)
  OBVIOUS
<1>10. page < pages(total) <=> next < total
  BY <1>4, PagesCover
<1>11. reader' = [reader EXCEPT !.got = got \o slice,
                                !.pc = IF next < total THEN "count" ELSE "end",
                                !.page = IF next < total THEN page + 1 ELSE page]
  BY <1>1, <1>3, <1>6, <1>8, <1>10 DEF ReadPage
<1>12. /\ reader' \in Reader /\ reader'.got = got \o slice /\ reader'.total = total
       /\ reader'.pc = (IF next < total THEN "count" ELSE "end")
       /\ reader'.page = (IF next < total THEN page + 1 ELSE page)
       /\ reader'.actor = reader.actor /\ reader'.status = reader.status
       /\ reader'.sort = reader.sort
  <2>0. PICK longer \in Seq(ClaimIds) : longer = got \o slice
    BY <1>9
  <2>1. PICK pc \in {"count", "end"}, turn \in Nat \ {0} :
          /\ pc = (IF next < total THEN "count" ELSE "end")
          /\ turn = (IF next < total THEN page + 1 ELSE page)
    OBVIOUS
  <2>2. reader' = [reader EXCEPT !.got = longer, !.pc = pc, !.page = turn]
    BY <1>11, <2>0, <2>1
  <2> QED
    BY <1>1, <1>3, <2>0, <2>1, <2>2 DEF Reader
<1>13. watch' = watch /\ UNCHANGED <<claims, stamps>>
  BY DEF ReadPage, auditVars, vars
<1>14. /\ Matches(reader)' = Matches(reader) /\ Ordered(reader)' = O
       /\ Rows' = rows /\ \A c : rank(c)' = rank(c)
  BY <1>2, <1>12, <1>13, SameView
<1>15. Passed = first /\ Passed' = next
  BY <1>1, <1>3, <1>4, <1>12 DEF Passed
<1>16. Started /\ Started'
  BY <1>1, <1>12 DEF Started, Begun
<1>17. ReaderOK'
  BY <1>12, <1>13, <1>16 DEF ReaderOK
<1>18. TotalInv'
  BY <1>1, <1>2, <1>3, <1>12, <1>13, <1>14, <1>15 DEF TotalInv
<1>19. ExactInv'
  <2> SUFFICES ASSUME ~watch.gone, ~watch.come
               PROVE  /\ next <= rows \/ reader'.pc = "end"
                      /\ reader'.got = SubSeq(O, 1, IF next < rows THEN next ELSE rows)
    BY <1>13, <1>14, <1>15 DEF ExactInv
  <2>1. total = rows
    BY <1>1, <1>2, <1>3 DEF TotalInv
  <2>2. first <= rows /\ got = SubSeq(O, 1, IF first < rows THEN first ELSE rows)
    BY <1>1, <1>2, <1>3, <1>15, <1>16 DEF ExactInv
  <2>3. got = SubSeq(O, 1, first)
    BY <2>2
  <2>4. 1 \in 1..Len(O) + 1 /\ first \in (1 - 1)..Len(O) /\ last \in first..Len(O)
    BY <1>2, <1>4, <1>5, <2>2
  <2>5. SubSeq(O, 1, first) \o SubSeq(O, first + 1, last) = SubSeq(O, 1, last)
    BY <2>4, ConcatAdjacentSubSeq
  <2>6. last = IF next < rows THEN next ELSE rows
    BY <1>5
  <2> QED
    BY <1>8, <1>12, <2>1, <2>3, <2>5, <2>6
<1>20. SteadyInv'
  <2> SUFFICES ASSUME ~watch.gone
               PROVE  /\ watch.steady \subseteq Matches(reader)
                      /\ \A c \in watch.steady : Got(c)' \/ rank(c) > next
    BY <1>13, <1>14, <1>15 DEF SteadyInv
  <2>1. /\ watch.steady \subseteq Matches(reader)
        /\ \A c \in watch.steady : Got(c) \/ rank(c) > first
    BY <1>15, <1>16 DEF SteadyInv
  <2>2. PICK m \in Nat, n \in Nat :
          /\ m = Len(got) /\ DOMAIN got = 1..m /\ n = Len(slice) /\ DOMAIN slice = 1..n
    BY LenProperties
  <2>3. /\ DOMAIN (got \o slice) = 1..(m + n)
        /\ \A i \in 1..m : (got \o slice)[i] = got[i]
        /\ \A i \in 1..n : (got \o slice)[m + i] = slice[i]
    BY <2>2
  <2>4. ASSUME NEW c \in watch.steady, Got(c) PROVE Got(c)'
    <3>1. PICK i \in 1..m : got[i] = c
      BY <1>3, <2>2, <2>4 DEF Got
    <3>2. i \in 1..(m + n) /\ (got \o slice)[i] = c
      BY <2>3, <3>1
    <3> QED
      BY <1>12, <2>3, <3>2 DEF Got
  <2>5. ASSUME NEW c \in watch.steady, rank(c) > first, ~(rank(c) > next) PROVE Got(c)'
    <3>1. PICK k \in 1..rows : k = rank(c) /\ O[k] = c
      BY <1>2, <2>1
    <3>2. k \in (first + 1)..last
      BY <1>5, <2>5, <3>1
    <3>3. PICK i \in 1..n : k = first + i /\ n = last - first
      BY <1>7, <1>8, <2>2, <3>2
    <3>4. slice[i] = c
      BY <1>7, <1>8, <3>1, <3>3
    <3>5. m + i \in 1..(m + n)
      OBVIOUS
    <3>6. (got \o slice)[m + i] = c
      BY <2>3, <3>4
    <3> QED
      BY <1>12, <2>3, <3>5, <3>6 DEF Got
  <2> QED
    BY <2>1, <2>4, <2>5
<1> QED
  BY <1>17, <1>18, <1>19, <1>20

(* What another request does to the list, the traversal keeps account of.   *)
LEMMA ElsewhereStep ==
  ASSUME ListingInv, Elsewhere, IsFiniteSet(Existing)'
  PROVE  (ReaderOK /\ TotalInv /\ ExactInv /\ SteadyInv)'
<1> USE DEF ListingInv
<1>1. /\ reader \in Reader /\ watch \in Watch /\ reader.pc # "end" /\ reader' = reader
      /\ reader.pc \in {"count", "page"} /\ (watch.late => watch.come)
  BY DEF ReaderOK, Elsewhere, Reader
<1>2. PICK old, new :
        /\ old = Matches(reader) /\ new = Matches(reader)'
        /\ old \subseteq ClaimIds /\ new \subseteq ClaimIds
  BY DEF Matches, Existing
<1>3. IsFiniteSet(old) /\ IsFiniteSet(new)
  <2>1. PICK E, F : E = Existing /\ F = Existing'
    OBVIOUS
  <2>2. old \subseteq E /\ new \subseteq F
    BY <1>2, <2>1 DEF Matches
  <2> QED
    BY <2>1, <2>2, FS_Subset
<1>4. PICK entered, moved :
        /\ entered = (new \ old # {})
        /\ moved = (\E c \in old \cap new : Key(reader, c)' # Key(reader, c))
  OBVIOUS
<1>5. watch' = IF ~Begun THEN watch ELSE
                 [steady |-> watch.steady \cap new,
                  gone |-> watch.gone \/ moved \/ old \ new # {},
                  come |-> watch.come \/ entered,
                  late |-> watch.late \/ entered]
  BY <1>2, <1>4 DEF Elsewhere
<1>6. (Started' <=> Begun) /\ (Started <=> Begun) /\ Passed' = Passed
  BY <1>1 DEF Started, Begun, Passed
<1>7. CASE ~Begun
  <2>1. watch' = watch /\ ~Started /\ ~Started'
    BY <1>5, <1>6, <1>7
  <2>2. reader.pc = "count"
    BY <1>1, <1>7 DEF Begun
  <2>3. ReaderOK'
    BY <1>1, <2>1 DEF ReaderOK
  <2>4. TotalInv'
    BY <1>1, <2>2 DEF TotalInv
  <2> QED
    BY <2>1, <2>3, <2>4 DEF ExactInv, SteadyInv
<1>8. CASE Begun
  <2>1. /\ watch'.steady = watch.steady \cap new
        /\ watch'.gone <=> watch.gone \/ moved \/ old \ new # {}
        /\ watch'.come <=> watch.come \/ entered
        /\ watch'.late <=> watch.late \/ entered
    BY <1>5, <1>8
  <2>2. watch' \in Watch
    BY <1>1, <1>4, <1>5, <1>8 DEF Watch
  <2>3. ASSUME ~watch'.gone
        PROVE  /\ ~watch.gone /\ old \subseteq new
               /\ \A c \in old : rank(c)' >= rank(c)
               /\ old = new => Ordered(reader)' = Ordered(reader) /\ Rows' = Rows
    <3>1. ~watch.gone /\ ~moved /\ old \subseteq new
      BY <2>1, <2>3
    <3>2. \A c \in old : Key(reader, c)' = Key(reader, c)
      BY <1>4, <3>1
    <3> QED
      BY <1>1, <1>2, <1>3, <3>1, <3>2, GrownView
  <2>4. ~watch'.come => ~watch.come /\ new \subseteq old
    BY <1>4, <2>1
  <2>5. ReaderOK'
    BY <1>1, <1>6, <1>8, <2>1, <2>2 DEF ReaderOK
  <2>6. TotalInv'
    <3>1. ASSUME ~watch'.gone, ~watch'.late, reader.pc = "page"
          PROVE  Rows' <= reader.total
      <4>1. ~watch.gone /\ ~watch.late /\ old = new
        BY <1>4, <2>1, <2>3, <3>1
      <4>2. Rows <= reader.total /\ Rows' = Rows
        BY <2>3, <3>1, <4>1 DEF TotalInv
      <4> QED
        BY <4>2
    <3>2. ASSUME ~watch'.gone, ~watch'.come, reader.pc = "page"
          PROVE  reader.total = Rows'
      BY <2>3, <2>4, <3>2 DEF TotalInv
    <3> QED
      BY <1>1, <3>1, <3>2 DEF TotalInv
  <2>7. ExactInv'
    BY <1>1, <1>6, <1>8, <2>3, <2>4 DEF ExactInv
  <2>8. SteadyInv'
    <3> SUFFICES ASSUME ~watch'.gone
                 PROVE  /\ watch'.steady \subseteq new
                        /\ \A c \in watch'.steady : Got(c)' \/ rank(c)' > Passed
      BY <1>2, <1>6 DEF SteadyInv
    <3>1. /\ watch.steady \subseteq old
          /\ \A c \in watch.steady : Got(c) \/ rank(c) > Passed
      BY <1>2, <1>6, <1>8, <2>3 DEF SteadyInv
    <3>2. ASSUME NEW c \in old, rank(c) > Passed PROVE rank(c)' > Passed
      <4>1. rank(c) \in Int /\ rank(c)' >= rank(c)
        BY <1>1, <1>2, <2>3, ListIsRanked
      <4>2. Passed \in Int
        BY <1>1, ListingAssumption DEF Passed, Reader
      <4>3. rank(c)' \in Int
        <5>1. PICK B : B = Ahead(reader)'[c]
          OBVIOUS
        <5>2. B \subseteq new
          BY <1>2, <2>3, <5>1 DEF Ahead
        <5>3. Cardinality(B) \in Nat
          BY <1>3, <5>2, FS_Subset, FS_CardinalityType
        <5> QED
          BY <5>1, <5>3 DEF rank
      <4> QED
        BY <3>2, <4>1, <4>2, <4>3
    <3>3. \A c : Got(c)' <=> Got(c)
      BY <1>1 DEF Got
    <3> QED
      BY <2>1, <3>1, <3>2, <3>3
  <2> QED
    BY <2>5, <2>6, <2>7, <2>8
<1> QED
  BY <1>7, <1>8

(* A traversal begins with nothing read, over a finite list.                *)
LEMMA ListingStarts == ListingInit => ListingInv
<1> SUFFICES ASSUME ListingInit PROVE ListingInv
  OBVIOUS
<1>1. IInv /\ ClockInv
  BY ClockStarts DEF ListingInit
<1>2. IsFiniteSet(Existing)
  <2>1. Existing \subseteq Seeded
    BY DEF ListingInit, AuditInit, seed, Existing
  <2> QED
    BY <2>1, FS_Subset, SeedAssumption DEF Seeded
<1>3. /\ reader \in Reader /\ reader.pc = "count" /\ reader.page = 1 /\ reader.got = <<>>
      /\ watch = Quiet({})
  BY DEF ListingInit, Reader
<1>4. /\ watch \in Watch /\ ~watch.late /\ ~Started
  BY <1>3 DEF Quiet, Watch, Started, Begun
<1>5. ReaderOK /\ TotalInv /\ ExactInv /\ SteadyInv
  BY <1>3, <1>4 DEF ReaderOK, TotalInv, ExactInv, SteadyInv
<1> QED
  BY <1>1, <1>2, <1>5 DEF ListingInv

(* Every step keeps the invariant of the traversal.                         *)
LEMMA ListingStep == ListingInv /\ [ListingNext]_listingVars => ListingInv'
<1> SUFFICES ASSUME ListingInv, [ListingNext]_listingVars PROVE ListingInv'
  OBVIOUS
<1>1. [AuditNext]_auditVars
  BY DEF ListingNext, Count, ReadPage, Elsewhere, listingVars
<1>2. (IInv /\ ClockInv)'
  BY <1>1, ClockStep DEF ListingInv
<1>3. IsFiniteSet(Existing)'
  BY <1>1, ExistingGrows DEF ListingInv
<1>4. CASE UNCHANGED listingVars
  <2>1. reader' = reader /\ watch' = watch /\ UNCHANGED <<claims, stamps>>
    BY <1>4 DEF listingVars, auditVars, vars
  <2>2. /\ Matches(reader)' = Matches(reader) /\ Ordered(reader)' = Ordered(reader)
        /\ Rows' = Rows /\ \A c : rank(c)' = rank(c)
    BY <2>1, SameView
  <2>3. ReaderOK' /\ TotalInv'
    BY <2>1, <2>2 DEF ListingInv, ReaderOK, TotalInv, Started, Begun, Passed
  <2>4. ExactInv'
    BY <2>1, <2>2 DEF ListingInv, ExactInv, Started, Begun, Passed
  <2>5. SteadyInv'
    BY <2>1, <2>2 DEF ListingInv, SteadyInv, Started, Begun, Passed, Got
  <2> QED
    BY <1>2, <1>3, <2>3, <2>4, <2>5 DEF ListingInv
<1>5. CASE Count
  BY <1>2, <1>3, <1>5, CountStep DEF ListingInv
<1>6. CASE ReadPage
  BY <1>2, <1>3, <1>6, ReadPageStep DEF ListingInv
<1>7. CASE Elsewhere
  BY <1>2, <1>3, <1>7, ElsewhereStep DEF ListingInv
<1> QED
  BY <1>4, <1>5, <1>6, <1>7 DEF ListingNext

(* The invariant of a traversal.                                            *)
THEOREM ListingInvariance == ListingSpec => []ListingInv
  BY ListingStarts, ListingStep, PTL DEF ListingSpec

(* Nothing entered, left or moved: the traversal returned the list.         *)
THEOREM TraversalsAreExact == ListingSpec => []TraversalIsExact
<1>1. ListingInv => TraversalIsExact
  <2> SUFFICES ASSUME ListingInv, reader.pc = "end", ~watch.gone, ~watch.come
               PROVE  reader.got = Ordered(reader)
    BY DEF TraversalIsExact
  <2>1. reader \in Reader /\ ~watch.late /\ Started
    BY DEF ListingInv, ReaderOK, Started
  <2>2. /\ Rows \in Nat /\ Ordered(reader) \in Seq(ClaimIds)
        /\ Len(Ordered(reader)) = Rows
    BY <2>1, ListIsRanked DEF ListingInv
  <2>3. Passed \in Int /\ reader.total \in Nat
    BY <2>1, ListingAssumption DEF Passed, Reader
  <2>4. Rows <= Passed
    BY <2>1, <2>2, <2>3 DEF ListingInv, TotalInv
  <2>5. reader.got = SubSeq(Ordered(reader), 1, Rows)
    BY <2>1, <2>2, <2>3, <2>4 DEF ListingInv, ExactInv
  <2> QED
    BY <2>2, <2>5, SubSeqFull
<1> QED
  BY <1>1, ListingInvariance, PTL

(* Nothing left or moved, and nothing entered after the last count: a row   *)
(* that was in the list all along is among those returned, whatever entered *)
(* before.                                                                  *)
THEOREM NoRowsAreSkipped == ListingSpec => []NoRowIsSkipped
<1>1. ListingInv => NoRowIsSkipped
  <2> SUFFICES ASSUME ListingInv, reader.pc = "end", ~watch.gone, ~watch.late,
                      NEW c \in watch.steady
               PROVE  Got(c)
    BY DEF NoRowIsSkipped, Got
  <2>1. reader \in Reader /\ Started
    BY DEF ListingInv, ReaderOK, Started
  <2>2. c \in Matches(reader) /\ (Got(c) \/ rank(c) > Passed)
    BY <2>1 DEF ListingInv, SteadyInv
  <2>3. Rows \in Nat /\ rank(c) \in 1..Rows
    BY <2>1, <2>2, ListIsRanked DEF ListingInv
  <2>4. Passed \in Int /\ reader.total \in Nat
    BY <2>1, ListingAssumption DEF Passed, Reader
  <2>5. Rows <= Passed
    BY <2>3, <2>4 DEF ListingInv, TotalInv
  <2> QED
    BY <2>2, <2>3, <2>4, <2>5
<1> QED
  BY <1>1, ListingInvariance, PTL
=============================================================================
