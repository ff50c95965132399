----------------------------- MODULE ClaimIntake -----------------------------
(***************************************************************************)
(* The two ways to file a claim: the form of the browser (routes.py) and   *)
(* the JSON body of the REST API (schemas.py).  Each checks the fields     *)
(* with code of its own before both call create_claim, whose amount then   *)
(* goes into a NUMERIC(12, 2) column with a CHECK.  Amounts are counted in *)
(* fractions of a cent, so that what a cent cannot hold is an amount too.  *)
(***************************************************************************)
EXTENDS ClaimViews

CONSTANTS
  CENT,        \* units per cent
  Typed,       \* the amounts a person types, or a client sends: integers and
  NaN, Words,  \* ... "NaN", and what Decimal() does not parse
  Texts,       \* descriptions, each as its letters and its line breaks
  DESCRIPTION_MIN_LENGTH, DESCRIPTION_MAX_LENGTH,
  MaxMidnights \* bound: midnights (UTC) that pass while one form stands

ASSUME IntakeAssumption ==
  /\ CENT \in Nat \ {0}
  /\ Typed \subseteq Int \cup {NaN, Words} /\ {NaN, Words} \cap Int = {}
  /\ Texts \subseteq [letters : Nat, breaks : Nat]
  /\ \A text \in Texts : text.letters + text.breaks > 0   \* the field is required
  /\ \A p \in Policies : Coverage[p] % CENT = 0    \* policies.coverage_limit is NUMERIC(12, 2)
  /\ \A amount \in Amounts : amount % CENT = 0     \* Next: what the schema lets through
  /\ MaxMidnights \in Nat

FormPage == [pc : {"form"}, actor : Users,
             offered : SUBSET Policies,       \* the options of the select
             error : BOOLEAN,                 \* is the alert there
             midnights : 0..MaxMidnights]     \* since the page was rendered

\* The incident date counts from the day the page was rendered: 1 is tomorrow.
Filled == [policy : Policies, amount : Typed, text : Texts, dated : {-1, 0, 1}]

-----------------------------------------------------------------------------
(* What the database makes of an amount.                                    *)

stored(amount) == ((amount + CENT \div 2) \div CENT) * CENT   \* half away from zero
no_check(amount) == TRUE   \* mutant of ck_claims_amount_positive
ck_claims_amount_positive(amount) == amount > 0

(* The REST body.                                                           *)

rest_length(text) == text.letters + text.breaks   \* a line break is \n
Money(amount) == amount \notin {NaN, Words} /\ amount > 0 /\ amount % CENT = 0
within(length) == length \in DESCRIPTION_MIN_LENGTH..DESCRIPTION_MAX_LENGTH

ClaimCreateRequest(f, today) ==
  Money(f.amount) /\ within(rest_length(f.text)) /\ f.dated <= today

rest_verdict(u, f, today) ==
  IF ClaimCreateRequest(f, today) THEN create_verdict(u, f.policy, f.amount)
  ELSE "unprocessable"

\* A customer is shown the policies they hold, lapsed ones included.
get_policy(u, p) == RoleOf[u] = "CUSTOMER" => Holder[p] = u
list_policies(u) == {p \in Policies : get_policy(u, p)}

(* The form.                                                                *)

form_length(text) == text.letters + 2 * text.breaks   \* a browser submits \r\n

_parse_decimal(amount) == IF amount = Words THEN None ELSE amount

\* create_claim on an amount that no schema has seen: NaN cannot be compared, and
\* what is rounded to nothing fails the CHECK in the flush.  Nobody catches either.
file_verdict(u, p, amount) ==
  IF ~MayFileAgainst(u, p) THEN "not_found"
  ELSE IF amount = NaN THEN "server_error"
  ELSE IF create_verdict(u, p, amount) = "ok" /\ ~ck_claims_amount_positive(stored(amount))
  THEN "server_error"
  ELSE create_verdict(u, p, amount)

\* Mutant of form_verdict: the date is left to the max attribute of the input.
form_verdict_undated(u, f, today) ==
  IF _parse_decimal(f.amount) = None \/ ~within(form_length(f.text)) THEN "unprocessable"
  ELSE file_verdict(u, f.policy, f.amount)

form_verdict(u, f, today) ==
  IF _parse_decimal(f.amount) = None \/ ~within(form_length(f.text)) \/ f.dated > today
  THEN "unprocessable"
  ELSE file_verdict(u, f.policy, f.amount)

\* Mutant of Options: lapsed policies are offered as well.
OptionsWithLapsed(u) == {p \in Policies : RoleOf[u] = "CUSTOMER" => Holder[p] = u}

Options(u) == {p \in ActivePolicies : RoleOf[u] = "CUSTOMER" => Holder[p] = u}

Rendered(u, error) == [pc |-> "form", actor |-> u, offered |-> Options(u),
                       error |-> error, midnights |-> 0]

-----------------------------------------------------------------------------
new_claim_form(u) ==
  /\ page = NoPage
  /\ page' = Rendered(u, FALSE)
  /\ UNCHANGED vars

\* The policy is one of the options: the select submits nothing else.  Every field
\* is required: the browser submits none that is empty (Form(...) would refuse it).
fill_in_and_submit(s, f) ==
  /\ page.pc = "form"
  /\ tx[s].pc = "done"
  /\ f.policy \in page.offered

\* The browser goes on to the page of the new claim; the form is gone.
new_claim_submit(s, c, f) ==
  /\ fill_in_and_submit(s, f)
  /\ form_verdict(page.actor, f, page.midnights) = "ok"
  /\ InsertClaim(s, page.actor, c, f.policy, stored(f.amount))
  /\ page' = NoPage

\* A 400: the form again, with what was typed and the day it is by now.
_render_error(s, f) ==
  /\ fill_in_and_submit(s, f)
  /\ form_verdict(page.actor, f, page.midnights) \notin {"ok", "server_error"}
  /\ page' = Rendered(page.actor, TRUE)
  /\ UNCHANGED vars

SubmitFails(s, f) ==
  /\ fill_in_and_submit(s, f)
  /\ form_verdict(page.actor, f, page.midnights) = "server_error"
  /\ Answer(s, "server_error")
  /\ page' = NoPage
  /\ UNCHANGED tables

LeaveForm == page.pc = "form" /\ page' = NoPage /\ UNCHANGED vars

\* The day the application's server reads (UTC) is another one.
MidnightPasses ==
  /\ page.pc = "form"
  /\ page.midnights < MaxMidnights
  /\ page' = [page EXCEPT !.midnights = @ + 1]
  /\ UNCHANGED vars

IntakeNext ==
  \/ ViewsNext
  \/ \E u \in Users : new_claim_form(u)
  \/ \E s \in Slots, f \in Filled :
       \/ \E c \in ClaimIds : new_claim_submit(s, c, f)
       \/ _render_error(s, f)
       \/ SubmitFails(s, f)
  \/ LeaveForm
  \/ MidnightPasses

IntakeSpec == ViewsInit /\ [][IntakeNext]_viewVars

-----------------------------------------------------------------------------
(* services.py promises that both surfaces enforce identical rules, and     *)
(* schemas.py that a third decimal is rejected rather than rounded.  Form   *)
(* and API disagree in two cases only: an amount with a fraction of a cent, *)
(* which the form rounds, and a text whose line breaks, two characters each *)
(* in a form, take it across a limit.  And the form answers with a server   *)
(* error for two amounts only: NaN, and one that is rounded to nothing.     *)
FormAndApiAgree ==
  page.pc = "form" =>
    \A f \in Filled :
      LET form == form_verdict(page.actor, f, page.midnights)
          rest == rest_verdict(page.actor, f, page.midnights)
      IN
      /\ (form = "ok") # (rest = "ok") =>
           \/ form = "ok" /\ f.amount % CENT # 0
           \/ within(form_length(f.text)) # within(rest_length(f.text))
      /\ form = "server_error" =>
           f.amount = NaN \/ (f.amount > 0 /\ 2 * f.amount < CENT)
      /\ rest # "server_error"

(* The form offers the active policies of those the API lists to the same   *)
(* account.  And what the page promises, it keeps: an amount of whole cents *)
(* within the coverage, a text within the limits shown and a date up to the *)
(* day shown, against any policy offered, are accepted whenever they are    *)
(* submitted.  Tomorrow is accepted once it has come, and not before.       *)
FormKeepsItsWord ==
  page.pc = "form" =>
    /\ page.offered = ActivePolicies \cap list_policies(page.actor)
    /\ \A f \in Filled :
      /\ f.policy \in page.offered
      /\ f.amount \in Int /\ f.amount \in 1..Coverage[f.policy] /\ f.amount % CENT = 0
      /\ within(form_length(f.text))
      => (form_verdict(page.actor, f, page.midnights) = "ok" <=> f.dated <= page.midnights)

(* Whichever way a claim was filed, and however it was edited since: its    *)
(* amount and its payout are whole cents, more than none and no more than   *)
(* the coverage.                                                            *)
LedgerIsExact ==
  \A c \in Existing :
    \A amount \in {claims[c].amount} \cup {payouts[c][i].amount : i \in DOMAIN payouts[c]} :
      amount % CENT = 0 /\ amount \in 1..Coverage[claims[c].policy]
=============================================================================
