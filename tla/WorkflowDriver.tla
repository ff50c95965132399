--------------------------- MODULE WorkflowDriver ---------------------------
(***************************************************************************)
(* The framework's own copy of the workflow (claimdesk_qa/domain.py), from *)
(* which the state-machine tests are generated, driven against the rules   *)
(* of the application (ClaimRules) through the clients of ApiClient.  A    *)
(* test drives a claim of the customer to a status (ClaimsApi.drive_to),   *)
(* or withdraws it, and asks it for one more action                        *)
(* (tests/api/test_state_machine.py); on the way it may log in and ask who *)
(* it is, as the tests of the authentication do.  A worker runs one test   *)
(* after another.                                                          *)
(***************************************************************************)
EXTENDS ApiClient

CONSTANTS
  Amounts,
  MaxCalls     \* bound: after so many answers a test only drives its claim

ASSUME DriverAssumption ==
  /\ Amounts \subseteq Nat \ {0}
  /\ MaxCalls \in Nat

LEGAL_TRANSITIONS ==
  {<<"submit", "DRAFT", "SUBMITTED">>,
   <<"start_review", "SUBMITTED", "UNDER_REVIEW">>,
   <<"approve", "UNDER_REVIEW", "APPROVED">>,
   <<"reject", "UNDER_REVIEW", "REJECTED">>,
   <<"pay", "APPROVED", "PAID">>}

illegal_transitions ==
  {p \in ClaimAction \X ClaimStatus :
     \A e \in LEGAL_TRANSITIONS : p # <<e[1], e[2]>>}

\* Mutant of path_to: the way to PAID leaves the approval out.
path_without_approval ==
  [status \in ClaimStatus \ {"WITHDRAWN"} |->
     CASE status = "DRAFT"        -> <<>>
       [] status = "SUBMITTED"    -> <<"submit">>
       [] status = "UNDER_REVIEW" -> <<"submit", "start_review">>
       [] status = "APPROVED"     -> <<"submit", "start_review", "approve">>
       [] status = "REJECTED"     -> <<"submit", "start_review", "reject">>
       [] status = "PAID"         -> <<"submit", "start_review", "pay">>]

\* WITHDRAWN has no route: it is reached by DELETE.
path_to ==
  [status \in ClaimStatus \ {"WITHDRAWN"} |->
     CASE status = "DRAFT"        -> <<>>
       [] status = "SUBMITTED"    -> <<"submit">>
       [] status = "UNDER_REVIEW" -> <<"submit", "start_review">>
       [] status = "APPROVED"     -> <<"submit", "start_review", "approve">>
       [] status = "REJECTED"     -> <<"submit", "start_review", "reject">>
       [] status = "PAID"         -> <<"submit", "start_review", "approve", "pay">>]

\* What a test does to a claim before it asks for its action.
Step == ClaimAction \cup {"withdraw"}

arrangement(target) == IF target = "WITHDRAWN" THEN <<"withdraw">> ELSE path_to[target]

VARIABLES
  test,       \* what the test is about: target status, last action, actors, amount
  pc,         \* "drive", "probe", "end"; "raised": the arrangement failed;
              \* "lost": a request got no answer
  route,      \* what the arrangement still has to do
  status      \* the claim's status in the application

driverVars == <<clientVars, test, pc, route, status>>

Test == [target : ClaimStatus, action : ClaimAction,
         staff : Staff \cup {None}, amount : Amounts]

DriverTypeOK ==
  /\ ClientTypeOK
  /\ test \in Test
  /\ pc \in {"drive", "probe", "end", "raised", "lost"}
  /\ route \in Seq(Step)
  /\ status \in ClaimStatus

DriverInit ==
  /\ FreshClients
  /\ test \in Test
  /\ route = arrangement(test.target)
  /\ pc = "drive"
  /\ status = "DRAFT"

\* The customer submits, or withdraws; without a staff actor the customer tries the
\* rest too.
Actor(step) ==
  IF step \in {"submit", "withdraw"} \/ test.staff = None THEN "CUSTOMER" ELSE test.staff

\* Whom the tests have ask: for an illegal step staff, submit included; of a withdrawn
\* claim the customer; for a published one whoever takes it on the way.
Asker ==
  IF test.target # "WITHDRAWN" /\ test.staff # None
     /\ <<test.action, test.target>> \in illegal_transitions
  THEN test.staff
  ELSE IF test.target = "WITHDRAWN" THEN "CUSTOMER" ELSE Actor(test.action)

\* The claim is the customer's; nobody else is its owner.
Verdict_of(step, role) ==
  CASE role = None -> "unauthenticated"
    [] role # None /\ step = "withdraw" ->
         IF status \in EDITABLE_STATUSES THEN "ok" ELSE "conflict"
    [] OTHER -> resolve_transition(step, status, role, role = "CUSTOMER", test.amount)

StatusAfter(step, role) ==
  IF Verdict_of(step, role) # "ok" THEN status
  ELSE IF step = "withdraw" THEN "WITHDRAWN" ELSE TRANSITIONS[step].target

\* ClaimsApi.transition or withdraw by the client of that role: answered, or cut off
\* before or after the application took the step.
Transition(k, step, next) ==
  LET header == authorization(k, TRUE)
      role == Caller(k, header)
  IN
  \/ /\ request(k, header, None, Verdict_of(step, role))
     /\ status' = StatusAfter(step, role)
     /\ pc' = IF next = "drive" /\ Verdict_of(step, role) # "ok" THEN "raised" ELSE next
  \/ /\ raise(k, None)
     /\ status' \in {status, StatusAfter(step, role)}
     /\ pc' = "lost"

Drive ==
  /\ pc = "drive" /\ route # <<>>
  /\ Transition(Actor(Head(route)), Head(route), "drive")
  /\ route' = Tail(route)
  /\ UNCHANGED test

Arrive ==
  /\ pc = "drive" /\ route = <<>>
  /\ pc' = IF status = test.target THEN "probe" ELSE "raised"
  /\ UNCHANGED <<clientVars, test, route, status>>

Probe ==
  /\ pc = "probe"
  /\ Transition(Asker, test.action, "end")
  /\ UNCHANGED <<test, route>>

\* AuthApi.login on the anonymous client, as any account.
Login ==
  /\ pc \in {"drive", "probe"}
  /\ Len(answered) < MaxCalls
  /\ \E role \in Role :
       \/ request("ANONYMOUS", None, role, "ok") /\ UNCHANGED pc
       \/ raise("ANONYMOUS", role) /\ pc' = "lost"
  /\ UNCHANGED <<test, route, status>>

\* AuthApi.me, with the client's own token or with a header that carries none.
Me ==
  /\ pc \in {"drive", "probe"}
  /\ Len(answered) < MaxCalls
  /\ \E k \in Client : \E header \in {authorization(k, TRUE), "MALFORMED"} :
       request(k, header, None,
               IF Caller(k, header) = None THEN "unauthenticated" ELSE "ok")
  /\ UNCHANGED <<test, pc, route, status>>

\* Mutant of NewTest: the recorder of the test before is left active.
RecorderOutlivesTest == jar' = no_cookies /\ recorder' = recorder /\ answered' = <<>>

\* The fixtures of a test: clients of its own, a recorder of its own.
NewTest == jar' = no_cookies /\ recorder' = recording /\ answered' = <<>>

NextTest ==
  /\ pc \in {"end", "raised", "lost"}
  /\ NewTest
  /\ test' \in Test
  /\ route' = arrangement(test'.target)
  /\ pc' = "drive"
  /\ status' = "DRAFT"

DriverNext == Drive \/ Arrive \/ Probe \/ Login \/ Me \/ NextTest

DriverSpec == DriverInit /\ [][DriverNext]_driverVars

-----------------------------------------------------------------------------
MayApprove == test.staff = "ADMIN" \/ test.amount <= ADJUSTER_APPROVAL_LIMIT
NeedsApproval == test.target \in {"APPROVED", "PAID"}
NeedsStaff == test.target \notin {"DRAFT", "SUBMITTED", "WITHDRAWN"}

(* An arrangement is refused only for want of authority: unless a request   *)
(* is lost the driver reaches every status that has a route, with any staff *)
(* actor whose limit covers it, and a draft is withdrawn, whatever else the *)
(* test does on the way.                                                    *)
DriveFailsForAuthorityOnly ==
  pc = "raised" =>
    \/ NeedsStaff /\ test.staff = None
    \/ NeedsApproval /\ ~MayApprove

(* The generated matrix tests the rules of the application: a pair that the *)
(* framework calls illegal is answered with a conflict, though staff asks   *)
(* where only the customer could submit, and the customer of a withdrawn    *)
(* claim where only staff could go on, for whatever amount, and changes     *)
(* nothing; an edge it publishes leads where it says, or is refused for     *)
(* want of authority, never for the status.                                 *)
MatrixIsTheRules ==
  pc = "end" =>
    LET answer == answered[Len(answered)].answer IN
    IF <<test.action, test.target>> \in illegal_transitions
    THEN answer = "conflict" /\ status = test.target
    ELSE \/ answer = "ok" /\ <<test.action, test.target, status>> \in LEGAL_TRANSITIONS
         \/ answer = "forbidden" /\ status = test.target
=============================================================================
