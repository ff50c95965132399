------------------------- MODULE ClaimIntakeProofs -------------------------
(***************************************************************************)
(* Proofs about the pages of the browser and the two ways to file a claim, *)
(* for every set of workers, claims and accounts and every unit of money:  *)
(* ClaimIntake, whose steps are those of the service, a form's included.   *)
(***************************************************************************)
EXTENDS ClaimIntake, ClaimServiceProofs

-----------------------------------------------------------------------------
(* Rounding to whole cents.                                                 *)

(* A multiple of CENT is its quotient times CENT, and the other way round.  *)
LEMMA WholeCents ==
  ASSUME NEW amount \in Int
  PROVE  /\ (amount * CENT) % CENT = 0
         /\ amount % CENT = 0 => \E k \in Int : amount = k * CENT
  BY IntakeAssumption

(* The quotient of whole-cent division, from the interval that holds the    *)
(* dividend.                                                                *)
LEMMA Quotient ==
  ASSUME NEW amount \in Int, NEW k \in Int,
         k * CENT <= amount, amount < k * CENT + CENT
  PROVE  amount \div CENT = k
<1>1. PICK q \in Int, r \in Int :
        q = amount \div CENT /\ amount = CENT * q + r /\ 0 <= r /\ r < CENT
  BY IntakeAssumption
<1>2. q < k + 1 /\ k < q + 1
  BY <1>1, IntakeAssumption
<1>3. QED
  BY <1>1, <1>2

(* NUMERIC(12, 2) holds whole cents only.                                   *)
LEMMA StoredIsWhole ==
  ASSUME NEW amount \in Int
  PROVE  stored(amount) \in Int /\ stored(amount) % CENT = 0
<1>1. (amount + CENT \div 2) \div CENT \in Int
  BY IntakeAssumption
<1>2. QED
  BY <1>1, WholeCents, IntakeAssumption DEF stored

(* What is in whole cents is stored as it is.                               *)
LEMMA StoredIsExact ==
  ASSUME NEW amount \in Int, amount % CENT = 0
  PROVE  stored(amount) = amount
<1>1. PICK k \in Int : amount = k * CENT
  BY WholeCents
<1>2. (amount + CENT \div 2) \div CENT = k
  BY <1>1, IntakeAssumption, Quotient
<1>3. QED
  BY <1>1, <1>2 DEF stored

(* Rounding takes no amount across a limit that is in whole cents.          *)
LEMMA StoredStaysBelow ==
  ASSUME NEW amount \in Int, NEW limit \in Int, limit % CENT = 0, amount <= limit
  PROVE  stored(amount) <= limit
<1>1. PICK k \in Int : limit = k * CENT
  BY WholeCents
<1>2. PICK q \in Int, r \in Int :
        /\ q = (amount + CENT \div 2) \div CENT
        /\ amount + CENT \div 2 = CENT * q + r /\ 0 <= r /\ r < CENT
  BY IntakeAssumption
<1>3. CENT \div 2 < CENT /\ CENT \div 2 \in Int
  BY IntakeAssumption
<1>4. q * CENT < k * CENT + CENT
  BY <1>1, <1>2, <1>3, IntakeAssumption
<1>5. q < k + 1
  BY <1>4, IntakeAssumption
<1>6. q * CENT <= k * CENT
  BY <1>5, IntakeAssumption
<1>7. QED
  BY <1>1, <1>2, <1>6 DEF stored

(* Only less than half a cent is rounded to nothing.                        *)
LEMMA StoredAsNothing ==
  ASSUME NEW amount \in Int, amount > 0, ~(stored(amount) > 0)
  PROVE  2 * amount < CENT
<1>1. PICK q \in Int, r \in Int :
        /\ q = (amount + CENT \div 2) \div CENT
        /\ amount + CENT \div 2 = CENT * q + r /\ 0 <= r /\ r < CENT
  BY IntakeAssumption
<1>2. CENT \div 2 \in Nat /\ 2 * (CENT \div 2) \in {CENT, CENT - 1}
  BY IntakeAssumption
<1>3. ~(q * CENT > 0)
  BY <1>1 DEF stored
<1>4. q <= 0
  BY <1>3, IntakeAssumption
<1>5. CENT * q <= 0
  BY <1>4, IntakeAssumption
<1>6. amount + CENT \div 2 < CENT
  BY <1>1, <1>2, <1>5, IntakeAssumption
<1>7. QED
  BY <1>2, <1>6, IntakeAssumption

-----------------------------------------------------------------------------
(* The form and the REST body.                                              *)

(* What an accepted form writes: whole cents within the coverage.           *)
LEMMA FormFilesLegally ==
  ASSUME NEW u \in Users, NEW f \in Filled, NEW today, form_verdict(u, f, today) = "ok"
  PROVE  /\ f.amount \in Int /\ f.policy \in Policies /\ stored(f.amount) \in Int
         /\ stored(f.amount) % CENT = 0
         /\ validate_claim_amount(stored(f.amount), Coverage[f.policy])
<1>1. /\ file_verdict(u, f.policy, f.amount) = "ok"
      /\ f.amount # Words
  BY DEF form_verdict, _parse_decimal
<1>2. /\ f.amount # NaN /\ create_verdict(u, f.policy, f.amount) = "ok"
      /\ stored(f.amount) > 0
  BY <1>1 DEF file_verdict, ck_claims_amount_positive, create_verdict
<1>3. f.amount \in Int /\ f.policy \in Policies
  BY <1>1, <1>2, IntakeAssumption DEF Filled
<1>4. f.amount <= Coverage[f.policy]
  BY <1>2 DEF create_verdict, validate_claim_amount
<1>5. Coverage[f.policy] \in Int /\ Coverage[f.policy] % CENT = 0
  BY <1>3, ServiceAssumption, IntakeAssumption
<1>6. QED
  BY <1>2, <1>3, <1>4, <1>5, StoredIsWhole, StoredStaysBelow DEF validate_claim_amount

(* The verdicts of the two ways in on one and the same set of fields.       *)
LEMMA VerdictsAgree ==
  ASSUME NEW u \in Users, NEW f \in Filled, NEW today \in Int
  PROVE  LET form == form_verdict(u, f, today)
             rest == rest_verdict(u, f, today)
         IN  /\ form = "ok" /\ rest # "ok" =>
                  f.amount % CENT # 0 \/ within(form_length(f.text)) # within(rest_length(f.text))
             /\ rest = "ok" /\ form # "ok" =>
                  within(form_length(f.text)) # within(rest_length(f.text))
             /\ form = "server_error" =>
                  f.amount = NaN \/ (f.amount > 0 /\ 2 * f.amount < CENT)
             /\ rest # "server_error"
<1> DEFINE form == form_verdict(u, f, today)
           rest == rest_verdict(u, f, today)
<1>0. f.dated \in Int
  BY DEF Filled
<1>1. ASSUME form = "ok", rest # "ok", f.amount % CENT = 0
      PROVE  within(form_length(f.text)) # within(rest_length(f.text))
  <2>1. /\ within(form_length(f.text)) /\ f.dated <= today /\ f.amount \notin {Words, NaN}
        /\ create_verdict(u, f.policy, f.amount) = "ok"
    BY <1>0, <1>1 DEF form_verdict, _parse_decimal, file_verdict, create_verdict
  <2>2. f.amount > 0
    BY <2>1 DEF create_verdict, validate_claim_amount
  <2>3. ~within(rest_length(f.text))
    BY <1>1, <2>1, <2>2 DEF rest_verdict, ClaimCreateRequest, Money
  <2>4. QED
    BY <2>1, <2>3 DEF within
<1>2. ASSUME rest = "ok", form # "ok"
      PROVE  within(form_length(f.text)) # within(rest_length(f.text))
  <2>1. /\ within(rest_length(f.text)) /\ f.dated <= today /\ Money(f.amount)
        /\ create_verdict(u, f.policy, f.amount) = "ok"
    BY <1>2 DEF rest_verdict, ClaimCreateRequest
  <2>2. f.amount \in Int /\ f.amount # None /\ f.amount \notin {Words, NaN}
    BY <2>1, IntakeAssumption, ServiceAssumption DEF Money, Filled
  <2>3. stored(f.amount) > 0
    BY <2>1, <2>2, StoredIsExact DEF Money
  <2>4. file_verdict(u, f.policy, f.amount) = "ok"
    BY <2>1, <2>2, <2>3 DEF file_verdict, ck_claims_amount_positive, create_verdict
  <2>5. ~within(form_length(f.text))
    BY <1>0, <1>2, <2>1, <2>2, <2>4 DEF form_verdict, _parse_decimal
  <2>6. QED
    BY <2>1, <2>5 DEF within
<1>3. ASSUME form = "server_error", f.amount # NaN
      PROVE  f.amount > 0 /\ 2 * f.amount < CENT
  <2>1. /\ f.amount # Words /\ create_verdict(u, f.policy, f.amount) = "ok"
        /\ ~(stored(f.amount) > 0)
    BY <1>3 DEF form_verdict, _parse_decimal, file_verdict, create_verdict,
                ck_claims_amount_positive
  <2>2. f.amount \in Int /\ f.amount > 0
    BY <1>3, <2>1, IntakeAssumption DEF Filled, create_verdict, validate_claim_amount
  <2>3. QED
    BY <2>1, <2>2, StoredAsNothing
<1>4. rest # "server_error"
  BY DEF rest_verdict, create_verdict
<1>5. QED
  BY <1>1, <1>2, <1>3, <1>4

-----------------------------------------------------------------------------
(* The pages, and the steps of the service among theirs.                    *)
PageType == page \in DetailPage \cup Dashboard \cup FormPage \cup {NoPage}

(* What is filed is in whole cents.                                         *)
FiledWhole ==
  \A c \in ClaimIds :
    claims[c] = Absent /\ claims'[c] # Absent => claims'[c].amount % CENT = 0

(* The part of a page that has been read tells what page it is.             *)
LEMMA PagesApart ==
  ASSUME PageType
  PROVE  /\ page.pc \in {"claim", "events", "shown"} => page \in DetailPage
         /\ page.pc \in {"counting", "tiles"} => page \in Dashboard
         /\ page.pc = "form" => page \in FormPage
  BY DEF PageType, DetailPage, Dashboard, FormPage, NoPage

(* A valid amount in whole cents is filed as it is.                         *)
LEMMA InsertIsWhole ==
  ASSUME IInv, NEW s \in Slots, NEW u \in Users, NEW c \in ClaimIds, NEW p \in Policies,
         NEW amount \in Int, validate_claim_amount(amount, Coverage[p]),
         amount % CENT = 0, InsertClaim(s, u, c, p, amount)
  PROVE  ServiceNext /\ FiledWhole
<1>1. ServiceNext
  BY DEF ServiceNext, ServiceStep, FileLegally
<1>2. FiledWhole
  BY DEF InsertClaim, IInv, TypeOK, FiledWhole
<1>3. QED
  BY <1>1, <1>2

(* Steps of other requests file nothing.                                    *)
LEMMA NothingFiled ==
  ASSUME IInv, NEW s \in Slots,
         NothingCommitted(s) \/ AcceptAny(s) \/ FindPayout(s) \/ Commit(s)
  PROVE  ServiceNext /\ FiledWhole
<1>1. ServiceNext
  BY DEF ServiceNext, ServiceStep
<1>2. CASE UNCHANGED tables
  BY <1>1, <1>2 DEF tables, FiledWhole
<1>3. CASE Commit(s)
  <2>1. \A c \in ClaimIds : claims[c] = Absent => claims'[c] = Absent
    BY <1>3, CommitWritesOne, InFlightType DEF DecisionIsSound
  <2>2. QED
    BY <1>1, <2>1 DEF FiledWhole
<1>4. QED
  BY <1>2, <1>3 DEF NothingCommitted, AcceptAny, Accept, FindPayout

(* Every step of the pages that touches the tables is one of the service,   *)
(* and files whole cents.                                                   *)
LEMMA IntakeIsService ==
  ASSUME IInv, PageType, [IntakeNext]_viewVars
  PROVE  (ServiceNext /\ FiledWhole) \/ UNCHANGED vars
<1>1. CASE Next
  <2>1. PICK s \in Slots :
          \/ Create(s) \/ \E c \in ClaimIds : Request(s, c)
          \/ FindPayout(s) \/ Commit(s) \/ PayCollides(s) \/ Abort(s)
    BY <1>1 DEF Next
  <2>2. CASE Create(s)
    <3>1. PICK u \in Users, p \in Policies, amount \in Amounts :
            \/ \E c \in ClaimIds : create_claim(s, u, c, p, amount)
            \/ RefuseCreate(s, u, p, amount)
      BY <2>2 DEF Create
    <3>2. CASE RefuseCreate(s, u, p, amount)
      BY <3>2, NothingFiled DEF NothingCommitted, RefuseCreate, create_verdict, Reply, Verdict
    <3>3. ASSUME NEW c \in ClaimIds, create_claim(s, u, c, p, amount)
          PROVE  ServiceNext /\ FiledWhole
      <4>1. validate_claim_amount(amount, Coverage[p]) /\ InsertClaim(s, u, c, p, amount)
        BY <3>3 DEF create_claim, create_verdict
      <4>2. amount \in Int /\ amount % CENT = 0
        BY ServiceAssumption, IntakeAssumption
      <4>3. QED
        BY <4>1, <4>2, InsertIsWhole
    <3>4. QED
      BY <3>1, <3>2, <3>3
  <2>3. ASSUME NEW c \in ClaimIds, Request(s, c) PROVE ServiceNext /\ FiledWhole
    <3>1. PICK u \in Users, verb \in Verb, amount \in {None} \cup Amounts :
            Accept(s, u, verb, c, amount) \/ Refuse(s, u, verb, c, amount)
      BY <2>3 DEF Request
    <3>2. Decide(u, verb, c, amount) \in Reply
      BY DecideType DEF Reply, IInv
    <3>3. QED
      BY <3>1, <3>2, NothingFiled DEF AcceptAny, NothingCommitted, Refuse
  <2>4. CASE PayCollides(s) \/ Abort(s)
    BY <2>4, NothingFiled DEF NothingCommitted, PayCollides, Abort, Reply
  <2>5. QED
    BY <2>1, <2>2, <2>3, <2>4, NothingFiled
<1>2. ASSUME NEW s \in Slots, claim_action(s) PROVE ServiceNext /\ FiledWhole
  <2>1. page.actor \in Users /\ page.claim \in ClaimIds
    BY <1>2, PagesApart DEF claim_action, DetailPage
  <2>2. PICK action \in ClaimAction :
          \/ Accept(s, page.actor, action, page.claim, None)
          \/ Refuse(s, page.actor, action, page.claim, None)
    BY <1>2 DEF claim_action, available
  <2>3. action \in Verb
    BY DEF Verb
  <2>4. Decide(page.actor, action, page.claim, None) \in Reply
    BY <2>1, <2>3, DecideType DEF Reply, IInv
  <2>5. QED
    BY <2>1, <2>2, <2>3, <2>4, NothingFiled DEF AcceptAny, NothingCommitted, Refuse
<1>3. ASSUME NEW s \in Slots, NEW c \in ClaimIds, NEW f \in Filled, new_claim_submit(s, c, f)
      PROVE  ServiceNext /\ FiledWhole
  <2>1. page.actor \in Users
    BY <1>3, PagesApart DEF new_claim_submit, fill_in_and_submit, FormPage
  <2>2. /\ form_verdict(page.actor, f, page.midnights) = "ok"
        /\ InsertClaim(s, page.actor, c, f.policy, stored(f.amount))
    BY <1>3 DEF new_claim_submit
  <2>3. QED
    BY <2>1, <2>2, FormFilesLegally, InsertIsWhole
<1>4. ASSUME NEW s \in Slots, NEW f \in Filled, SubmitFails(s, f)
      PROVE  ServiceNext /\ FiledWhole
  BY <1>4, NothingFiled DEF NothingCommitted, SubmitFails, Reply
<1>5. QED
  BY <1>1, <1>2, <1>3, <1>4
  DEF IntakeNext, ViewsNext, claim_detail, ListEvents, ReadPayout, dashboard, CountTile, Leave,
      new_claim_form, _render_error, LeaveForm, MidnightPasses, viewVars

-----------------------------------------------------------------------------
(* What no step of the service takes back: a claim stays filed under its    *)
(* policy, its trail keeps its rows, its payout stays.                      *)
LEMMA TablesGrow ==
  ASSUME IInv, [ServiceNext]_vars, NEW c \in ClaimIds, claims[c] # Absent
  PROVE  /\ claims'[c] # Absent /\ claims'[c].policy = claims[c].policy
         /\ \A i \in DOMAIN events[c] : i \in DOMAIN events'[c] /\ events'[c][i] = events[c][i]
         /\ payouts[c] # <<>> => payouts'[c] # <<>>
<1>1. events[c] \in Seq(ClaimEvent) /\ payouts[c] \in Seq(Payout)
  BY DEF IInv, TypeOK
<1>2. claims'[c] # Absent /\ claims'[c].policy = claims[c].policy
  <2>1. CASE UNCHANGED tables
    BY <2>1 DEF tables
  <2>2. ASSUME NEW s \in Slots, FileLegally(s)
        PROVE  claims'[c] # Absent /\ claims'[c].policy = claims[c].policy
    BY <2>2 DEF FileLegally, InsertClaim, IInv, TypeOK
  <2>3. ASSUME NEW s \in Slots, Commit(s)
        PROVE  claims'[c] # Absent /\ claims'[c].policy = claims[c].policy
    <3>1. tx[s].pc # "done" /\ tx[s].claim \in ClaimIds
      BY <2>3, CommitWritesOne
    <3>2. CASE c # tx[s].claim
      BY <2>3, <3>2, CommitWritesOne
    <3>3. CASE c = tx[s].claim
      <4>1. claims[c] \in Claim
        BY <3>1, <3>3, InFlightType
      <4>2. CASE update_claim(s) \/ withdraw_claim(s)
        <5>1. claims'[c].policy = claims[c].policy /\ DOMAIN claims'[c] = DOMAIN claims[c]
          BY <3>1, <3>3, <4>1, <4>2 DEF update_claim, withdraw_claim, IInv, TypeOK, Claim
        <5>2. QED
          BY <4>1, <5>1 DEF Absent, Claim
      <4>3. CASE apply_transition(s) \/ pay(s)
        <5>1. Transition(s)
          BY <4>3 DEF apply_transition, pay
        <5>2. claims'[c].policy = claims[c].policy /\ DOMAIN claims'[c] = DOMAIN claims[c]
          BY <3>1, <3>3, <4>1, <5>1 DEF Transition, IInv, TypeOK, Claim
        <5>3. QED
          BY <4>1, <5>2 DEF Absent, Claim
      <4>4. QED
        BY <2>3, <4>2, <4>3 DEF Commit
    <3>4. QED
      BY <3>2, <3>3
  <2>4. QED
    BY <2>1, <2>2, <2>3
    DEF ServiceNext, ServiceStep, NothingCommitted, AcceptAny, Accept, FindPayout, vars, tables
<1>3. CASE Silent(c)
  BY <1>2, <1>3 DEF Silent
<1>4. ASSUME NEW u \in Users, NEW from \in ClaimStatus \cup {None}, NEW to \in ClaimStatus,
             Recorded(c, u, from, to)
      PROVE  /\ \A i \in DOMAIN events[c] :
                  i \in DOMAIN events'[c] /\ events'[c][i] = events[c][i]
             /\ payouts[c] # <<>> => payouts'[c] # <<>>
  <2>1. events'[c] = Append(events[c], Event(u, from, to)) /\ Event(u, from, to) \in ClaimEvent
    BY <1>4 DEF Recorded, Event, ClaimEvent
  <2>2. \A i \in DOMAIN events[c] : i \in DOMAIN events'[c] /\ events'[c][i] = events[c][i]
    BY <1>1, <2>1
  <2>3. QED
    BY <1>4, <2>2 DEF Recorded
<1>5. QED
  BY <1>2, <1>3, <1>4, StepOnClaim DEF Moved

(* What a step does to the page: nothing, close it, or read on while the    *)
(* tables stand.                                                            *)
PageReads ==
  \/ \E u \in Users : dashboard(u) \/ new_claim_form(u) \/ \E c \in ClaimIds : claim_detail(u, c)
  \/ ListEvents \/ ReadPayout \/ CountTile \/ MidnightPasses
  \/ \E s \in Slots, f \in Filled : _render_error(s, f)

(* A step leaves the page, closes it, or reads for it from tables it does   *)
(* not change.                                                              *)
LEMMA PageStep ==
  ASSUME [IntakeNext]_viewVars
  PROVE  page' = page \/ page' = NoPage \/ (PageReads /\ UNCHANGED vars)
  BY DEF IntakeNext, ViewsNext, viewVars, PageReads, claim_action, Leave, new_claim_submit,
         SubmitFails, LeaveForm, claim_detail, ListEvents, ReadPayout, dashboard, CountTile,
         new_claim_form, _render_error, MidnightPasses

(* What a page shows was true of the claim when it was read, and is true of *)
(* what only grows to this day.                                             *)
DetailIsTrue ==
  page.pc \in {"claim", "events", "shown"} =>
    /\ claims[page.claim] # Absent
    /\ claims[page.claim].policy = page.row.policy
    /\ can_view_claim(RoleOf[page.actor], IsOwner(page.actor, page.row))
    /\ \E i \in DOMAIN events[page.claim] :
         events[page.claim][i].to_status = page.row.status
    /\ page.row.status = "PAID" => payouts[page.claim] # <<>>
    /\ page.pc # "claim" => page.row.status \in page.trail
    /\ page.pc = "shown" /\ page.row.status = "PAID" => page.payout

FormIsTrue == page.pc = "form" => page.offered = Options(page.actor)

PageInv == PageType /\ DetailIsTrue /\ FormIsTrue

(* Each read fills the page with values of its type.                        *)
LEMMA PageTypeStep ==
  ASSUME IInv, PageType, [IntakeNext]_viewVars
  PROVE  PageType'
<1>1. CASE page' = page \/ page' = NoPage
  BY <1>1 DEF PageType
<1>2. ASSUME NEW u \in Users, NEW c \in ClaimIds, claim_detail(u, c) PROVE PageType'
  <2>1. claims[c] \in Claim
    BY <1>2 DEF claim_detail, get_visible_claim, IInv, TypeOK
  <2>2. QED
    BY <1>2, <2>1 DEF claim_detail, PageType, DetailPage
<1>3. CASE ListEvents
  <2>1. page \in DetailPage
    BY <1>3, PagesApart DEF ListEvents
  <2>2. events[page.claim] \in Seq(ClaimEvent)
    BY <2>1 DEF DetailPage, IInv, TypeOK
  <2>3. {events[page.claim][i].to_status : i \in DOMAIN events[page.claim]} \subseteq ClaimStatus
    <3>1. ASSUME NEW i \in DOMAIN events[page.claim]
          PROVE  events[page.claim][i].to_status \in ClaimStatus
      <4>1. events[page.claim][i] \in ClaimEvent
        BY <2>2
      <4>2. QED
        BY <4>1 DEF ClaimEvent
    <3>2. QED
      BY <3>1
  <2>4. QED
    BY <1>3, <2>1, <2>3 DEF ListEvents, PageType, DetailPage
<1>4. CASE ReadPayout
  <2>1. page \in DetailPage
    BY <1>4, PagesApart DEF ReadPayout
  <2>2. QED
    BY <1>4, <2>1 DEF ReadPayout, PageType, DetailPage
<1>5. ASSUME NEW u \in Users, dashboard(u) PROVE PageType'
  BY <1>5 DEF dashboard, PageType, Dashboard, Visible, Existing
<1>6. CASE CountTile
  <2>1. page \in Dashboard
    BY <1>6, PagesApart DEF CountTile
  <2>2. ASSUME NEW status
        PROVE  {c \in Visible(page.actor) : claims[c].status = status} \in SUBSET ClaimIds
    BY DEF Visible, Existing
  <2>3. page.tiles \in Seq(SUBSET ClaimIds)
    BY <2>1 DEF Dashboard
  <2>4. ASSUME NEW tile \in SUBSET ClaimIds
        PROVE  Append(page.tiles, tile) \in Seq(SUBSET ClaimIds)
    BY <2>3
  <2>5. page'.tiles \in Seq(SUBSET ClaimIds) /\ page'.pc \in {"counting", "tiles"}
        /\ page' = [page EXCEPT !.tiles = page'.tiles, !.pc = page'.pc]
    BY <1>6, <2>1, <2>2, <2>4 DEF CountTile, Dashboard
  <2>6. QED
    BY <2>1, <2>5 DEF PageType, Dashboard
<1>7. ASSUME NEW u \in Users, NEW error \in BOOLEAN, page' = Rendered(u, error) PROVE PageType'
  BY <1>7, ServiceAssumption, IntakeAssumption
  DEF Rendered, Options, PageType, FormPage
<1>8. ASSUME NEW s \in Slots, NEW f \in Filled, _render_error(s, f) PROVE PageType'
  <2>1. page.actor \in Users
    BY <1>8, PagesApart DEF _render_error, fill_in_and_submit, FormPage
  <2>2. QED
    BY <1>7, <1>8, <2>1 DEF _render_error
<1>9. CASE MidnightPasses
  <2>1. page \in FormPage
    BY <1>9, PagesApart DEF MidnightPasses
  <2>2. page.midnights + 1 \in 0..MaxMidnights
    BY <1>9, <2>1, IntakeAssumption DEF MidnightPasses, FormPage
  <2>3. QED
    BY <1>9, <2>1, <2>2 DEF MidnightPasses, PageType, FormPage
<1>10. QED
  BY <1>1, <1>2, <1>3, <1>4, <1>5, <1>6, <1>7, <1>8, <1>9, PageStep
  DEF PageReads, new_claim_form

(* What the detail page shows of a claim stays true of its history.         *)
LEMMA DetailStep ==
  ASSUME IInv, PageType, DetailIsTrue, [IntakeNext]_viewVars
  PROVE  DetailIsTrue'
<1>1. CASE page' = NoPage
  BY <1>1 DEF NoPage, DetailIsTrue
<1>2. CASE page' = page
  <2> SUFFICES ASSUME page.pc \in {"claim", "events", "shown"} PROVE DetailIsTrue'
    BY <1>2 DEF DetailIsTrue
  <2>1. page.claim \in ClaimIds /\ claims[page.claim] # Absent
    BY PagesApart DEF DetailPage, DetailIsTrue
  <2>2. [ServiceNext]_vars
    BY IntakeIsService
  <2>3. /\ claims'[page.claim] # Absent
        /\ claims'[page.claim].policy = claims[page.claim].policy
        /\ \A i \in DOMAIN events[page.claim] :
             i \in DOMAIN events'[page.claim] /\ events'[page.claim][i] = events[page.claim][i]
        /\ payouts[page.claim] # <<>> => payouts'[page.claim] # <<>>
    BY <2>1, <2>2, TablesGrow
  <2>4. QED
    BY <1>2, <2>3 DEF DetailIsTrue, IsOwner
<1>3. ASSUME UNCHANGED vars, NEW u \in Users, NEW c \in ClaimIds, claim_detail(u, c)
      PROVE  DetailIsTrue'
  <2>1. RowIsSound(c) /\ events[c] \in Seq(ClaimEvent)
    BY DEF IInv, TypeOK
  <2>2. claims[c] # Absent /\ can_view_claim(RoleOf[u], IsOwner(u, claims[c]))
    BY <1>3 DEF claim_detail, get_visible_claim
  <2>3. events[c] # <<>> /\ events[c][Len(events[c])].to_status = claims[c].status
        /\ (claims[c].status = "PAID" => payouts[c] # <<>>)
    BY <2>1, <2>2 DEF RowIsSound
  <2>4. Len(events[c]) \in DOMAIN events[c]
    BY <2>1, <2>3
  <2>5. QED
    BY <1>3, <2>2, <2>3, <2>4 DEF claim_detail, vars, DetailIsTrue, IsOwner
<1>4. CASE ListEvents /\ UNCHANGED vars
  <2>1. page \in DetailPage /\ DetailIsTrue
    BY <1>4, PagesApart DEF ListEvents
  <2>2. page.row.status \in
          {events[page.claim][i].to_status : i \in DOMAIN events[page.claim]}
    BY <1>4, <2>1 DEF DetailIsTrue, ListEvents
  <2>3. /\ page'.pc = "events" /\ page'.row = page.row /\ page'.claim = page.claim
        /\ page'.actor = page.actor
        /\ page'.trail = {events[page.claim][i].to_status : i \in DOMAIN events[page.claim]}
    BY <1>4, <2>1 DEF ListEvents, DetailPage
  <2>4. QED
    BY <1>4, <2>1, <2>2, <2>3 DEF ListEvents, vars, DetailIsTrue, IsOwner
<1>5. CASE ReadPayout /\ UNCHANGED vars
  <2>1. page \in DetailPage /\ DetailIsTrue
    BY <1>5, PagesApart DEF ReadPayout
  <2>2. /\ page'.pc = "shown" /\ page'.row = page.row /\ page'.claim = page.claim
        /\ page'.actor = page.actor /\ page'.trail = page.trail
        /\ page'.payout = (payouts[page.claim] # <<>>)
    BY <1>5, <2>1 DEF ReadPayout, DetailPage
  <2>3. QED
    BY <1>5, <2>1, <2>2 DEF ReadPayout, vars, DetailIsTrue, IsOwner
<1>6. ASSUME NEW u \in Users, dashboard(u) \/ new_claim_form(u) PROVE DetailIsTrue'
  BY <1>6 DEF dashboard, new_claim_form, Rendered, DetailIsTrue
<1>7. CASE CountTile
  <2>1. page \in Dashboard
    BY <1>7, PagesApart DEF CountTile
  <2>2. page'.pc \in {"counting", "tiles"}
    BY <1>7, <2>1 DEF CountTile, Dashboard
  <2>3. QED
    BY <2>2 DEF DetailIsTrue
<1>8. CASE MidnightPasses
  <2>1. page \in FormPage
    BY <1>8, PagesApart DEF MidnightPasses
  <2>2. page'.pc = "form"
    BY <1>8, <2>1 DEF MidnightPasses, FormPage
  <2>3. QED
    BY <2>2 DEF DetailIsTrue
<1>9. ASSUME NEW s \in Slots, NEW f \in Filled, _render_error(s, f) PROVE DetailIsTrue'
  BY <1>9 DEF _render_error, Rendered, DetailIsTrue
<1>10. QED
  BY <1>1, <1>2, <1>3, <1>4, <1>5, <1>6, <1>7, <1>8, <1>9, PageStep DEF PageReads

(* The form offers the policies of its caller.                              *)
LEMMA FormStep ==
  ASSUME PageType, FormIsTrue, [IntakeNext]_viewVars
  PROVE  FormIsTrue'
<1>1. CASE page' = page \/ page' = NoPage
  BY <1>1 DEF FormIsTrue, NoPage, Options
<1>2. ASSUME NEW u, NEW error, page' = Rendered(u, error) PROVE FormIsTrue'
  BY <1>2 DEF Rendered, FormIsTrue, Options
<1>3. CASE MidnightPasses
  <2>1. page \in FormPage
    BY <1>3, PagesApart DEF MidnightPasses
  <2>2. page'.offered = page.offered /\ page'.actor = page.actor /\ page.pc = "form"
    BY <1>3, <2>1 DEF MidnightPasses, FormPage
  <2>3. QED
    BY <2>2 DEF FormIsTrue, Options
<1>4. CASE CountTile
  <2>1. page \in Dashboard
    BY <1>4, PagesApart DEF CountTile
  <2>2. page'.pc \in {"counting", "tiles"}
    BY <1>4, <2>1 DEF CountTile, Dashboard
  <2>3. QED
    BY <2>2 DEF FormIsTrue
<1>5. CASE ListEvents \/ ReadPayout
  <2>1. page \in DetailPage
    BY <1>5, PagesApart DEF ListEvents, ReadPayout
  <2>2. page'.pc \in {"events", "shown"}
    BY <1>5, <2>1 DEF ListEvents, ReadPayout, DetailPage
  <2>3. QED
    BY <2>2 DEF FormIsTrue
<1>6. ASSUME NEW u \in Users, NEW c \in ClaimIds, claim_detail(u, c) PROVE FormIsTrue'
  BY <1>6 DEF claim_detail, FormIsTrue
<1>7. ASSUME NEW u \in Users, dashboard(u) PROVE FormIsTrue'
  BY <1>7 DEF dashboard, FormIsTrue
<1>8. QED
  BY <1>1, <1>2, <1>3, <1>4, <1>5, <1>6, <1>7, PageStep DEF PageReads, new_claim_form, _render_error

(* The invariant of the service and of the pages, whatever form or request  *)
(* writes.                                                                  *)
LEMMA IntakeInvariance == IntakeSpec => [](IInv /\ PageInv)
<1>1. ViewsInit => IInv /\ PageInv
  BY InitInv DEF ViewsInit, PageInv, PageType, DetailIsTrue, FormIsTrue, NoPage
<1>2. IInv /\ PageInv /\ [IntakeNext]_viewVars => IInv' /\ PageInv'
  BY IntakeIsService, ServiceInv, PageTypeStep, DetailStep, FormStep DEF PageInv
<1>3. QED
  BY <1>1, <1>2, PTL DEF IntakeSpec

(* However many workers change the claim between the SELECTs of its page:   *)
(* the trail shown knows the status shown, and a claim shown as PAID is     *)
(* shown with its payout.                                                   *)
THEOREM PagesAreCoherent == IntakeSpec => []PageIsCoherent
<1>1. PageInv => PageIsCoherent
  BY DEF PageInv, DetailIsTrue, PageIsCoherent
<1>2. QED
  BY <1>1, IntakeInvariance, PTL

(* Form and REST body disagree about fractions of a cent and line breaks    *)
(* only, and only an amount that is NaN or rounded to nothing breaks the    *)
(* form: for every limit, coverage, unit of money and set of fields.        *)
THEOREM TwoWaysInAgree == IntakeSpec => []FormAndApiAgree
<1>1. PageInv => FormAndApiAgree
  <2> SUFFICES ASSUME PageInv, page.pc = "form", NEW f \in Filled
               PROVE  LET form == form_verdict(page.actor, f, page.midnights)
                          rest == rest_verdict(page.actor, f, page.midnights)
                      IN
                      /\ (form = "ok") # (rest = "ok") =>
                           \/ form = "ok" /\ f.amount % CENT # 0
                           \/ within(form_length(f.text)) # within(rest_length(f.text))
                      /\ form = "server_error" =>
                           f.amount = NaN \/ (f.amount > 0 /\ 2 * f.amount < CENT)
                      /\ rest # "server_error"
    BY DEF FormAndApiAgree
  <2>1. page.actor \in Users /\ page.midnights \in Int
    BY PagesApart, IntakeAssumption DEF PageInv, FormPage
  <2>2. QED
    BY <2>1, VerdictsAgree
<1>2. QED
  BY <1>1, IntakeInvariance, PTL

(* The form offers the right policies, and what it says is accepted is      *)
(* accepted, whenever it is submitted.                                      *)
THEOREM FormIsAsGoodAsItsWord == IntakeSpec => []FormKeepsItsWord
<1>1. PageInv => FormKeepsItsWord
  <2> SUFFICES ASSUME PageInv, page.pc = "form" PROVE FormKeepsItsWord
    BY DEF FormKeepsItsWord
  <2>1. page.actor \in Users /\ page.midnights \in Int /\ page.offered = Options(page.actor)
    BY PagesApart, IntakeAssumption DEF PageInv, FormPage, FormIsTrue
  <2>2. page.offered = ActivePolicies \cap list_policies(page.actor)
    BY <2>1, ServiceAssumption DEF Options, list_policies, get_policy
  <2>3. ASSUME NEW f \in Filled, f.policy \in page.offered, f.amount \in Int,
               f.amount \in 1..Coverage[f.policy], f.amount % CENT = 0,
               within(form_length(f.text))
        PROVE  form_verdict(page.actor, f, page.midnights) = "ok" <=> f.dated <= page.midnights
    <3>1. MayFileAgainst(page.actor, f.policy) /\ Coverage[f.policy] \in Nat
      BY <2>1, <2>3, ServiceAssumption DEF MayFileAgainst, Options
    <3>2. f.amount \notin {NaN, Words, None}
      BY <2>3, IntakeAssumption, ServiceAssumption
    <3>3. stored(f.amount) > 0 /\ validate_claim_amount(f.amount, Coverage[f.policy])
      BY <2>3, <3>1, StoredIsExact DEF validate_claim_amount
    <3>4. file_verdict(page.actor, f.policy, f.amount) = "ok"
      BY <3>1, <3>2, <3>3 DEF file_verdict, create_verdict, ck_claims_amount_positive
    <3>5. f.dated \in Int
      BY DEF Filled
    <3>6. QED
      BY <2>1, <2>3, <3>2, <3>4, <3>5 DEF form_verdict, _parse_decimal
  <2>4. QED
    BY <2>2, <2>3 DEF FormKeepsItsWord
<1>2. QED
  BY <1>1, IntakeInvariance, PTL

-----------------------------------------------------------------------------
(* The ledger in whole cents.  A payment pays the amount it has seen, which *)
(* a raced edit may have changed since: so what is seen must be payable as  *)
(* well as what stands.                                                     *)
Payable(amount, p) == amount % CENT = 0 /\ amount \in 1..Coverage[p]

LedgerInv ==
  /\ \A c \in ClaimIds :
       /\ claims[c] # Absent => Payable(claims[c].amount, claims[c].policy)
       /\ \A i \in DOMAIN payouts[c] : Payable(payouts[c][i].amount, claims[c].policy)
  /\ \A s \in Slots : tx[s].pc # "done" =>
       tx[s].amount % CENT = 0 /\ Payable(tx[s].seen.amount, tx[s].seen.policy)

(* The amount of a filed claim, and its payouts, after a step of a worker.  *)
LEMMA AmountMoves ==
  ASSUME IInv, NEW s \in Slots, ServiceStep(s), NEW c \in ClaimIds, claims[c] # Absent
  PROVE  LET t == tx[s] IN
         /\ \/ claims'[c].amount = claims[c].amount
            \/ t.pc # "done" /\ claims'[c].amount = t.amount
         /\ \/ payouts'[c] = payouts[c]
            \/ /\ t.pc # "done" /\ t.claim = c
               /\ payouts'[c] = <<[amount |-> t.seen.amount, paid_by |-> t.user]>>
<1>1. CASE UNCHANGED tables
  BY <1>1 DEF tables
<1>2. CASE FileLegally(s)
  BY <1>2 DEF FileLegally, InsertClaim, IInv, TypeOK
<1>3. ASSUME Commit(s)
      PROVE  LET t == tx[s] IN
             /\ \/ claims'[c].amount = claims[c].amount
                \/ t.pc # "done" /\ claims'[c].amount = t.amount
             /\ \/ payouts'[c] = payouts[c]
                \/ /\ t.pc # "done" /\ t.claim = c
                   /\ payouts'[c] = <<[amount |-> t.seen.amount, paid_by |-> t.user]>>
  <2>1. PICK t \in InFlight : t = tx[s] /\ t.pc # "done" /\ t.claim \in ClaimIds
                              /\ claims[t.claim] \in Claim
    BY <1>3, CommitWritesOne, InFlightType
  <2>2. CASE c # t.claim
    BY <1>3, <2>1, <2>2, CommitWritesOne
  <2>3. CASE c = t.claim
    <3>1. CASE update_claim(s)
      <4>1. claims'[c].amount = Written(t.amount, t.seen.amount, claims[c].amount)
        BY <2>1, <2>3, <3>1 DEF update_claim, IInv, TypeOK, Claim
      <4>2. QED
        BY <2>1, <3>1, <4>1 DEF Written, update_claim
    <3>2. CASE withdraw_claim(s)
      BY <2>1, <2>3, <3>2 DEF withdraw_claim, IInv, TypeOK, Claim
    <3>3. ASSUME Transition(s) PROVE claims'[c].amount = claims[c].amount
      BY <2>1, <2>3, <3>3 DEF Transition, IInv, TypeOK, Claim
    <3>4. CASE apply_transition(s)
      BY <3>3, <3>4 DEF apply_transition
    <3>5. CASE pay(s)
      <4> DEFINE row == [amount |-> t.seen.amount, paid_by |-> t.user]
      <4>1. payouts[c] = <<>> /\ payouts' = [payouts EXCEPT ![c] = Append(@, row)]
        BY <2>1, <2>3, <3>5 DEF pay, MayInsertPayout
      <4> HIDE DEF row
      <4>2. payouts'[c] = <<row>>
        BY <4>1 DEF IInv, TypeOK
      <4>3. QED
        BY <2>1, <2>3, <3>3, <3>5, <4>2 DEF pay, row
    <3>6. QED
      BY <1>3, <3>1, <3>2, <3>4, <3>5 DEF Commit
  <2>4. QED
    BY <2>2, <2>3
<1>4. QED
  BY <1>1, <1>2, <1>3 DEF ServiceStep, NothingCommitted, AcceptAny, Accept, FindPayout

(* While claims are filed in whole cents, what may be paid stays in whole   *)
(* cents and within the cover.                                              *)
LEMMA LedgerStep ==
  ASSUME IInv, LedgerInv, FiledWhole, [ServiceNext]_vars
  PROVE  LedgerInv'
<1>1. IInv' /\ (UNCHANGED vars \/ \E s \in Slots : ServiceStep(s))
  BY ServiceInv DEF ServiceNext
<1>2. ASSUME NEW c \in ClaimIds, claims'[c] # Absent
      PROVE  Payable(claims'[c].amount, claims'[c].policy)
  <2>1. /\ claims'[c] \in Claim
        /\ validate_claim_amount(claims'[c].amount, Coverage[claims'[c].policy])
    BY <1>1, <1>2 DEF IInv, TypeOK, RowIsSound
  <2>2. claims'[c].amount \in 1..Coverage[claims'[c].policy]
    BY <2>1, ServiceAssumption DEF Claim, validate_claim_amount
  <2>3. claims'[c].amount % CENT = 0
    <3>1. CASE claims[c] = Absent
      BY <1>2, <3>1 DEF FiledWhole
    <3>2. CASE claims[c] # Absent
      <4>1. claims[c].amount % CENT = 0
        BY <3>2 DEF LedgerInv, Payable
      <4>2. \/ claims'[c].amount = claims[c].amount
            \/ \E s \in Slots : tx[s].pc # "done" /\ claims'[c].amount = tx[s].amount
        BY <1>1, <3>2, AmountMoves DEF vars
      <4>3. QED
        BY <4>1, <4>2 DEF LedgerInv
    <3>3. QED
      BY <3>1, <3>2
  <2>4. QED
    BY <2>2, <2>3 DEF Payable
<1>3. ASSUME NEW c \in ClaimIds, NEW i \in DOMAIN payouts'[c]
      PROVE  Payable(payouts'[c][i].amount, claims'[c].policy)
  <2>1. CASE claims[c] = Absent
    <3>1. payouts[c] = <<>> /\ RowIsSound(c)
      BY <2>1 DEF IInv, RowIsSound
    <3>2. payouts'[c] = <<>>
      <4>1. CASE UNCHANGED payouts
        BY <3>1, <4>1
      <4>2. ASSUME NEW s \in Slots, Commit(s) PROVE payouts'[c] = <<>>
        BY <2>1, <3>1, <4>2, CommitWritesOne, InFlightType DEF DecisionIsSound
      <4>3. QED
        BY <1>1, <4>1, <4>2
        DEF ServiceStep, NothingCommitted, FileLegally, InsertClaim, AcceptAny, Accept,
            FindPayout, tables, vars
    <3>3. QED
      BY <1>3, <3>2
  <2>2. CASE claims[c] # Absent
    <3>1. claims'[c].policy = claims[c].policy
      BY <2>2, TablesGrow
    <3>2. CASE payouts'[c] = payouts[c]
      BY <1>3, <3>1, <3>2 DEF LedgerInv
    <3>3. ASSUME NEW s \in Slots, tx[s].pc # "done", tx[s].claim = c,
                 payouts'[c] = <<[amount |-> tx[s].seen.amount, paid_by |-> tx[s].user]>>
          PROVE  Payable(payouts'[c][i].amount, claims'[c].policy)
      <4>1. tx[s].seen.policy = claims[c].policy
        BY <3>3, InFlightType DEF DecisionIsSound
      <4>2. payouts'[c][i].amount = tx[s].seen.amount
        BY <1>3, <3>3
      <4>3. QED
        BY <3>1, <3>3, <4>1, <4>2 DEF LedgerInv
    <3>4. QED
      BY <1>1, <2>2, <3>2, <3>3, AmountMoves DEF vars
  <2>3. QED
    BY <2>1, <2>2
<1>4. ASSUME NEW r \in Slots, tx'[r].pc # "done"
      PROVE  tx'[r].amount % CENT = 0 /\ Payable(tx'[r].seen.amount, tx'[r].seen.policy)
  <2>1. tx \in [Slots -> Idle \cup InFlight]
    BY DEF IInv, TypeOK
  <2>2. CASE tx'[r] = tx[r]
    BY <1>4, <2>2 DEF LedgerInv
  <2>3. ASSUME NEW s \in Slots, AcceptAny(s), r = s
        PROVE  tx'[r].amount % CENT = 0 /\ Payable(tx'[r].seen.amount, tx'[r].seen.policy)
    <3>1. PICK u \in Users, verb \in Verb, c \in ClaimIds, amount \in {None} \cup Amounts :
            Accept(s, u, verb, c, amount)
      BY <2>3 DEF AcceptAny
    <3>2. /\ tx'[r].seen = claims[c] /\ claims[c] # Absent
          /\ tx'[r].amount = IF amount = None THEN claims[c].amount ELSE amount
      BY <2>1, <2>3, <3>1 DEF Accept, Decide, get_visible_claim
    <3>3. Payable(claims[c].amount, claims[c].policy)
      BY <3>2 DEF LedgerInv
    <3>4. QED
      BY <3>2, <3>3, IntakeAssumption DEF Payable
  <2>4. ASSUME NEW s \in Slots, FindPayout(s), r = s
        PROVE  tx'[r].amount % CENT = 0 /\ Payable(tx'[r].seen.amount, tx'[r].seen.policy)
    <3>1. tx[s].pc = "decided" /\ tx' = [tx EXCEPT ![s].pc = "unpaid"]
      BY <1>4, <2>1, <2>4 DEF FindPayout, ReadyToCommit, Answer
    <3>2. tx[s] \in InFlight
      BY <3>1, InFlightType
    <3>3. tx'[r].amount = tx[r].amount /\ tx'[r].seen = tx[r].seen
      BY <2>1, <2>4, <3>1, <3>2 DEF InFlight
    <3>4. QED
      BY <2>4, <3>1, <3>3 DEF LedgerInv
  <2>5. ASSUME NEW s \in Slots, ServiceStep(s)
        PROVE  \/ tx'[r] = tx[r]
               \/ r = s /\ (AcceptAny(s) \/ FindPayout(s))
    <3>1. ASSUME NEW reply, Answer(s, reply) PROVE tx'[r] = tx[r]
      BY <1>4, <2>1, <3>1 DEF Answer
    <3>2. CASE r # s /\ (AcceptAny(s) \/ FindPayout(s))
      BY <2>1, <3>2 DEF AcceptAny, Accept, FindPayout, Answer
    <3>3. QED
      BY <2>5, <3>1, <3>2, CommitWritesOne
      DEF ServiceStep, NothingCommitted, FileLegally, InsertClaim
  <2>6. QED
    BY <1>1, <2>2, <2>3, <2>4, <2>5 DEF vars
<1>5. QED
  BY <1>2, <1>3, <1>4 DEF LedgerInv

(* Every claim and every payout is in whole cents within the coverage,      *)
(* however it was filed, however its edits and payments raced, and whatever *)
(* fraction of a cent a form was filled in with.                            *)
THEOREM LedgerStaysExact == IntakeSpec => []LedgerIsExact
<1>1. ViewsInit => LedgerInv
  BY DEF ViewsInit, Init, LedgerInv
<1>2. ASSUME IInv, PageInv, LedgerInv, [IntakeNext]_viewVars PROVE LedgerInv'
  <2>1. CASE UNCHANGED vars
    BY <1>2, <2>1 DEF vars, LedgerInv
  <2>2. QED
    BY <1>2, <2>1, IntakeIsService, LedgerStep DEF PageInv
<1>3. IInv /\ LedgerInv => LedgerIsExact
  BY DEF LedgerInv, LedgerIsExact, Payable, Existing
<1>4. QED
  BY <1>1, <1>2, <1>3, IntakeInvariance, PTL DEF IntakeSpec

-----------------------------------------------------------------------------
(* Pages while requests on one claim do not overlap: claims move forward    *)
(* only, in the order in which the dashboard counts.                        *)
Place(status) ==
  CASE status = "DRAFT" -> 1
    [] status = "SUBMITTED" -> 2
    [] status = "UNDER_REVIEW" -> 3
    [] status = "APPROVED" -> 4
    [] status = "REJECTED" -> 5
    [] status = "PAID" -> 6
    [] OTHER -> 7

(* Each status has its place, and its tile there.                           *)
LEMMA PlacesAreTiles ==
  /\ Len(TileOrder) = 7
  /\ \A status \in ClaimStatus : Place(status) \in 1..7 /\ TileOrder[Place(status)] = status
<1>1. Len(TileOrder) = 7
  BY DEF TileOrder
<1>2. ASSUME NEW status \in ClaimStatus PROVE Place(status) \in 1..7
  BY DEF Place
<1>3. ASSUME NEW status \in ClaimStatus PROVE TileOrder[Place(status)] = status
  BY DEF Place, TileOrder, ClaimStatus
<1>4. QED
  BY <1>1, <1>2, <1>3

(* A claim never goes back, and its amount is fixed once it is submitted.   *)
LEMMA ClaimsMoveForward ==
  ASSUME IInv, TurnInv, [ServiceNext]_vars, NEW c \in ClaimIds, claims[c] # Absent
  PROVE  /\ Place(claims[c].status) <= Place(claims'[c].status)
         /\ Place(claims[c].status) > 1 => claims'[c].amount = claims[c].amount
<1>1. claims[c].status \in ClaimStatus
  BY DEF IInv, TypeOK, Claim
<1>2. CASE claims'[c] = claims[c]
  BY <1>1, <1>2, PlacesAreTiles
<1>3. CASE OneTurn(c)
  <2>1. PICK row \in Claim :
          Filed(c, row) \/ Edited(c, row) \/ Advanced(c, row) \/ Paid(c, row)
    BY <1>3 DEF OneTurn
  <2>2. claims'[c] = row
    BY <2>1, TurnWritesOne
  <2>3. CASE Edited(c, row)
    BY <2>2, <2>3 DEF Edited, Place
  <2>4. CASE Advanced(c, row)
    BY <2>2, <2>4 DEF Advanced, Lifecycle!Edges, Place
  <2>5. CASE Paid(c, row)
    BY <2>2, <2>5 DEF Paid, Place
  <2>6. QED
    BY <2>1, <2>3, <2>4, <2>5 DEF Filed
<1>4. CASE UNCHANGED tables
  BY <1>2, <1>4 DEF tables
<1>5. CASE \E d \in ClaimIds : OneTurn(d)
  BY <1>2, <1>3, <1>5, TurnWritesOne DEF OneTurn
<1>6. QED
  BY <1>4, <1>5, StepIsATurn

(* The claim of a detail page has gone no way but forward since; the tiles  *)
(* counted so far hold every claim of the dashboard that is not ahead of    *)
(* them.                                                                    *)
DetailIsBehind ==
  page.pc \in {"claim", "events", "shown"} =>
    /\ Place(page.row.status) <= Place(claims[page.claim].status)
    /\ Place(page.row.status) > 1 => claims[page.claim].amount = page.row.amount

TilesCatchAll ==
  page.pc \in {"counting", "tiles"} =>
    \A c \in page.there :
      /\ c \in Visible(page.actor)
      /\ \/ \E i \in DOMAIN page.tiles : c \in page.tiles[i]
         \/ page.pc = "counting" /\ Place(claims[c].status) > Len(page.tiles)

(* A read of the detail page can fall behind its claim, never run ahead of  *)
(* it.                                                                      *)
LEMMA DetailIsBehindStep ==
  ASSUME IInv, TurnInv, PageInv, DetailIsBehind, [IntakeNext]_viewVars
  PROVE  DetailIsBehind'
<1>1. CASE page' = page \/ page' = NoPage
  <2> SUFFICES ASSUME page' = page, page.pc \in {"claim", "events", "shown"}
               PROVE  DetailIsBehind'
    BY <1>1 DEF DetailIsBehind, NoPage
  <2>1. /\ page.claim \in ClaimIds /\ claims[page.claim] # Absent
        /\ claims[page.claim] \in Claim /\ page.row \in Claim
    BY PagesApart DEF PageInv, DetailPage, DetailIsTrue, IInv, TypeOK
  <2>2. [ServiceNext]_vars
    BY IntakeIsService DEF PageInv
  <2>3. /\ Place(claims[page.claim].status) <= Place(claims'[page.claim].status)
        /\ Place(claims[page.claim].status) > 1 =>
             claims'[page.claim].amount = claims[page.claim].amount
    BY <2>1, <2>2, ClaimsMoveForward
  <2>4. claims'[page.claim] \in Claim
    BY <2>1, <2>2, TablesGrow, ServiceInv DEF IInv, TypeOK
  <2>5. /\ Place(page.row.status) \in Int /\ Place(claims[page.claim].status) \in Int
        /\ Place(claims'[page.claim].status) \in Int
    BY <2>1, <2>4, PlacesAreTiles DEF Claim
  <2>6. QED
    BY <2>3, <2>5 DEF DetailIsBehind
<1>2. ASSUME UNCHANGED vars, NEW u \in Users, NEW c \in ClaimIds, claim_detail(u, c)
      PROVE  DetailIsBehind'
  <2>1. claims[c].status \in ClaimStatus
    BY <1>2 DEF claim_detail, get_visible_claim, IInv, TypeOK, Claim
  <2>2. Place(claims[c].status) <= Place(claims[c].status)
    BY <2>1, PlacesAreTiles
  <2>3. QED
    BY <1>2, <2>2 DEF claim_detail, vars, DetailIsBehind
<1>3. ASSUME ListEvents \/ ReadPayout, UNCHANGED vars PROVE DetailIsBehind'
  <2>1. page \in DetailPage
    BY <1>3, PagesApart DEF PageInv, ListEvents, ReadPayout
  <2>2. /\ page'.row = page.row /\ page'.claim = page.claim
        /\ page.pc \in {"claim", "events", "shown"}
    BY <1>3, <2>1 DEF ListEvents, ReadPayout, DetailPage
  <2>3. QED
    BY <1>3, <2>2 DEF DetailIsBehind, vars
<1>4. ASSUME page'.pc \in {"counting", "tiles", "form"} PROVE DetailIsBehind'
  BY <1>4 DEF DetailIsBehind
<1>5. ASSUME CountTile \/ MidnightPasses PROVE page'.pc \in {"counting", "tiles", "form"}
  BY <1>5, PagesApart DEF PageInv, CountTile, MidnightPasses, Dashboard, FormPage
<1>6. QED
  BY <1>1, <1>2, <1>3, <1>4, <1>5, PageStep
  DEF PageReads, dashboard, new_claim_form, _render_error, Rendered

(* A claim that was there when the dashboard began is in a tile counted, or *)
(* its tile is yet to be counted.                                           *)
LEMMA TilesStep ==
  ASSUME IInv, TurnInv, PageInv, TilesCatchAll, [IntakeNext]_viewVars
  PROVE  TilesCatchAll'
<1>1. CASE page' = page \/ page' = NoPage
  <2> SUFFICES ASSUME page' = page, page.pc \in {"counting", "tiles"}, NEW c \in page.there
               PROVE  /\ c \in Visible(page.actor)'
                      /\ \/ \E i \in DOMAIN page.tiles : c \in page.tiles[i]
                         \/ page.pc = "counting" /\ Place(claims'[c].status) > Len(page.tiles)
    BY <1>1 DEF TilesCatchAll, NoPage
  <2>1. page \in Dashboard /\ c \in ClaimIds /\ Len(page.tiles) \in Int
    BY PagesApart DEF PageInv, Dashboard
  <2>2. claims[c] # Absent /\ claims[c] \in Claim /\ c \in Visible(page.actor)
    BY <2>1 DEF TilesCatchAll, Visible, Existing, IInv, TypeOK
  <2>3. [ServiceNext]_vars
    BY IntakeIsService DEF PageInv
  <2>4. claims'[c] # Absent /\ claims'[c].policy = claims[c].policy /\ claims'[c] \in Claim
    BY <2>1, <2>2, <2>3, TablesGrow, ServiceInv DEF IInv, TypeOK
  <2>5. Place(claims[c].status) <= Place(claims'[c].status)
        /\ Place(claims[c].status) \in Int /\ Place(claims'[c].status) \in Int
    BY <2>1, <2>2, <2>3, <2>4, ClaimsMoveForward, PlacesAreTiles DEF Claim
  <2>6. c \in Visible(page.actor)'
    BY <2>1, <2>2, <2>4 DEF Visible, Existing, IsOwner
  <2>7. QED
    BY <2>1, <2>5, <2>6 DEF TilesCatchAll
<1>2. ASSUME UNCHANGED vars, NEW u \in Users, dashboard(u) PROVE TilesCatchAll'
  <2>1. ASSUME NEW c \in Visible(u) PROVE Place(claims[c].status) > Len(<<>>)
    <3>1. claims[c].status \in ClaimStatus
      BY <2>1 DEF Visible, Existing, IInv, TypeOK, Claim
    <3>2. QED
      BY <3>1, PlacesAreTiles
  <2>2. Visible(u)' = Visible(u)
    BY <1>2 DEF vars, Visible, Existing, IsOwner
  <2>3. QED
    BY <1>2, <2>1, <2>2 DEF dashboard, vars, TilesCatchAll
<1>3. CASE CountTile /\ UNCHANGED vars
  <2> DEFINE last == Len(page.tiles) + 1
             tile == {c \in Visible(page.actor) : claims[c].status = TileOrder[last]}
  <2>1. page \in Dashboard /\ page.tiles \in Seq(SUBSET ClaimIds) /\ page.pc = "counting"
    BY <1>3, PagesApart DEF PageInv, CountTile, Dashboard
  <2>2. /\ page'.tiles = Append(page.tiles, tile) /\ page'.there = page.there
        /\ page'.actor = page.actor
        /\ page'.pc = IF last = Len(TileOrder) THEN "tiles" ELSE "counting"
    BY <1>3, <2>1 DEF CountTile, Dashboard
  <2>3. tile \in SUBSET ClaimIds
    BY DEF Visible, Existing
  <2> HIDE DEF tile
  <2>4. /\ DOMAIN page'.tiles = 1..last /\ Len(page'.tiles) = last /\ page'.tiles[last] = tile
        /\ last \in Nat \ {0}
        /\ \A i \in DOMAIN page.tiles : i \in DOMAIN page'.tiles /\ page'.tiles[i] = page.tiles[i]
    BY <2>1, <2>2, <2>3
  <2> SUFFICES ASSUME NEW c \in page.there
               PROVE  /\ c \in Visible(page.actor)
                      /\ \/ \E i \in DOMAIN page'.tiles : c \in page'.tiles[i]
                         \/ page'.pc = "counting" /\ Place(claims[c].status) > last
    BY <1>3, <2>2, <2>4 DEF TilesCatchAll, Visible, Existing, IsOwner, vars
  <2>5. /\ c \in Visible(page.actor)
        /\ \/ \E i \in DOMAIN page.tiles : c \in page.tiles[i]
           \/ Place(claims[c].status) > Len(page.tiles)
    BY <2>1 DEF TilesCatchAll
  <2>6. CASE \E i \in DOMAIN page.tiles : c \in page.tiles[i]
    BY <2>4, <2>5, <2>6
  <2>7. CASE Place(claims[c].status) > Len(page.tiles)
    <3>1. claims[c].status \in ClaimStatus
      BY <2>5 DEF Visible, Existing, IInv, TypeOK, Claim
    <3>2. CASE Place(claims[c].status) = last
      <4>1. c \in tile
        BY <2>5, <3>1, <3>2, PlacesAreTiles DEF tile
      <4>2. QED
        BY <2>4, <2>5, <4>1
    <3>3. CASE Place(claims[c].status) # last
      <4>1. Place(claims[c].status) > last /\ last # 7
        BY <2>1, <2>7, <3>1, <3>3, PlacesAreTiles
      <4>2. QED
        BY <2>2, <2>5, <4>1, PlacesAreTiles
    <3>4. QED
      BY <3>2, <3>3
  <2>8. QED
    BY <2>5, <2>6, <2>7
<1>4. ASSUME page'.pc \in {"claim", "events", "shown", "form"} PROVE TilesCatchAll'
  BY <1>4 DEF TilesCatchAll
<1>5. ASSUME ListEvents \/ ReadPayout \/ MidnightPasses
      PROVE  page'.pc \in {"claim", "events", "shown", "form"}
  BY <1>5, PagesApart DEF PageInv, ListEvents, ReadPayout, MidnightPasses, DetailPage, FormPage
<1>6. QED
  BY <1>1, <1>2, <1>3, <1>4, <1>5, PageStep
  DEF PageReads, claim_detail, new_claim_form, _render_error, Rendered

-----------------------------------------------------------------------------
(* The invariants of the pages while requests on one claim do not overlap.  *)
LEMMA PagesInTurn ==
  IntakeSpec /\ []OneAtATime => [](IInv /\ PageInv /\ TurnInv /\ DetailIsBehind /\ TilesCatchAll)
<1>1. ViewsInit => TurnInv /\ DetailIsBehind /\ TilesCatchAll
  BY TurnInit DEF ViewsInit, NoPage, DetailIsBehind, TilesCatchAll
<1>2. IInv /\ PageInv /\ TurnInv /\ OneAtATime /\ [IntakeNext]_viewVars => TurnInv'
  BY IntakeIsService, TurnStep DEF PageInv
<1>3. IInv /\ PageInv /\ TurnInv /\ DetailIsBehind /\ TilesCatchAll /\ [IntakeNext]_viewVars =>
        DetailIsBehind' /\ TilesCatchAll'
  BY DetailIsBehindStep, TilesStep
<1>4. QED
  BY <1>1, <1>2, <1>3, IntakeInvariance, PTL DEF IntakeSpec

(* While requests on one claim do not overlap, a button is refused only     *)
(* because the claim has changed, or is above the limit of the adjuster who *)
(* clicks it; and a page that is up to date offers all there is to do.      *)
THEOREM ButtonsAreHonoured == IntakeSpec /\ []OneAtATime => []OfferIsHonoured
<1>1. ASSUME IInv, PageInv, DetailIsBehind, page.pc = "shown", NEW action \in ClaimAction
      PROVE  LET verdict == Decide(page.actor, action, page.claim, None)
                 stale == claims[page.claim] # page.row
                 overLimit == action = "approve" /\ page.row.amount > ADJUSTER_APPROVAL_LIMIT
             IN IF action \in available
                THEN \/ verdict = "ok"
                     \/ verdict = "conflict" /\ stale
                     \/ verdict = "forbidden" /\ overLimit /\ RoleOf[page.actor] = "ADJUSTER"
                ELSE verdict = "ok" => stale
  <2> DEFINE u == page.actor
             row == claims[page.claim]
             rule == TRANSITIONS[action]
             verdict == Decide(u, action, page.claim, None)
  <2>1. /\ row # Absent /\ row.policy = page.row.policy
        /\ can_view_claim(RoleOf[u], IsOwner(u, page.row))
        /\ Place(page.row.status) > 1 => row.amount = page.row.amount
    BY <1>1 DEF PageInv, DetailIsTrue, DetailIsBehind
  <2>2. IsOwner(u, row) = IsOwner(u, page.row)
    BY <2>1 DEF IsOwner
  <2>3. verdict = resolve_transition(action, row.status, RoleOf[u], IsOwner(u, row), row.amount)
    BY <2>1, <2>2 DEF Decide, get_visible_claim, ClaimAction
  <2>4. action \in available <=>
          /\ page.row.status = rule.source /\ RoleOf[u] \in rule.roles
          /\ rule.owner_only => IsOwner(u, row)
    BY <2>2 DEF available, _action_is_offered
  <2>5. rule.amount_limited => action = "approve" /\ rule.source = "UNDER_REVIEW"
    BY DEF TRANSITIONS, TransitionRule, ClaimAction
  <2>6. Place("UNDER_REVIEW") > 1
    BY DEF Place
  <2> HIDE DEF verdict, row, rule, u
  <2>7. CASE action \in available
    <3>1. CASE row.status # rule.source
      <4>1. verdict = "conflict" /\ row # page.row
        BY <2>3, <2>4, <2>7, <3>1 DEF resolve_transition, rule
      <4>2. QED
        BY <2>7, <4>1 DEF verdict, row, u
    <3>2. CASE row.status = rule.source
      <4>1. CASE /\ rule.amount_limited /\ RoleOf[u] = "ADJUSTER"
                 /\ row.amount > ADJUSTER_APPROVAL_LIMIT
        <5>1. /\ verdict = "forbidden" /\ action = "approve"
              /\ page.row.amount > ADJUSTER_APPROVAL_LIMIT
          BY <2>1, <2>3, <2>4, <2>5, <2>6, <2>7, <3>2, <4>1 DEF resolve_transition, rule
        <5>2. QED
          BY <2>7, <4>1, <5>1 DEF verdict, row, u
      <4>2. CASE ~(rule.amount_limited /\ RoleOf[u] = "ADJUSTER"
                   /\ row.amount > ADJUSTER_APPROVAL_LIMIT)
        <5>1. verdict = "ok"
          BY <2>3, <2>4, <2>7, <3>2, <4>2 DEF resolve_transition, rule
        <5>2. QED
          BY <2>7, <5>1 DEF verdict, u
      <4>3. QED
        BY <4>1, <4>2
    <3>3. QED
      BY <3>1, <3>2
  <2>8. CASE action \notin available
    <3>1. verdict = "ok" => row.status = rule.source /\ RoleOf[u] \in rule.roles
                            /\ (rule.owner_only => IsOwner(u, row))
      BY <2>3 DEF resolve_transition, rule
    <3>2. QED
      BY <2>4, <2>8, <3>1 DEF verdict, row, u
  <2>9. QED
    BY <2>7, <2>8
<1>2. IInv /\ PageInv /\ DetailIsBehind => OfferIsHonoured
  BY <1>1 DEF OfferIsHonoured
<1>3. QED
  BY <1>2, PagesInTurn, PTL

(* ... and the dashboard misses no claim that was there when it was asked   *)
(* for, however often the claims move while its tiles are counted.          *)
THEOREM TilesMissNothing == IntakeSpec /\ []OneAtATime => []DashboardMissesNoClaim
<1>1. TilesCatchAll => DashboardMissesNoClaim
  BY DEF TilesCatchAll, DashboardMissesNoClaim
<1>2. QED
  BY <1>1, PagesInTurn, PTL

(* What the endpoints promise while requests on one claim do not overlap    *)
(* holds with the browser among the callers, and claims filed by its form.  *)
THEOREM BrowserKeepsPromises ==
  IntakeSpec /\ []OneAtATime =>
    [](AuditChainHasNoGaps /\ PayoutMatchesClaim /\ ApprovalWithinAuthority)
  BY TurnKeepsPromises, PagesInTurn, PTL

(* ... and so does the refinement.                                          *)
THEOREM BrowserImplementsLifecycle == IntakeSpec /\ []OneAtATime => ImplementsLifecycle
<1>1. ViewsInit => Lifecycle!Init
  BY RefinementInit DEF ViewsInit
<1>2. IInv /\ PageInv /\ TurnInv /\ [IntakeNext]_viewVars =>
        [Lifecycle!Next]_(Lifecycle!lifecycleVars)
  BY IntakeIsService, RefinementStep DEF PageInv
<1>3. QED
  BY <1>1, <1>2, PagesInTurn, PTL DEF IntakeSpec, ImplementsLifecycle, Lifecycle!Spec
=============================================================================
