--------------------------- MODULE ClaimLifecycle ---------------------------
(***************************************************************************)
(* What ClaimDesk promises about one claim after another, with requests,   *)
(* sessions and roles out of sight: a claim is a draft whose amount may    *)
(* still change; once it leaves DRAFT the amount is fixed and the status   *)
(* only follows the edges of the machine; the one payout is made by the    *)
(* step that reaches PAID, for the amount that was approved.               *)
(***************************************************************************)
EXTENDS Integers

CONSTANTS ClaimIds, Unpaid

VARIABLES
  status,    \* per claim, its status, "ABSENT" before it is filed
  amount,    \* per claim, the amount claimed (0 before it is filed)
  paid       \* per claim, the amount paid out, or Unpaid

lifecycleVars == <<status, amount, paid>>

Edges == {<<"DRAFT", "SUBMITTED">>, <<"DRAFT", "WITHDRAWN">>,
          <<"SUBMITTED", "UNDER_REVIEW">>,
          <<"UNDER_REVIEW", "APPROVED">>, <<"UNDER_REVIEW", "REJECTED">>}

Init ==
  /\ status = [c \in ClaimIds |-> "ABSENT"]
  /\ amount = [c \in ClaimIds |-> 0]
  /\ paid = [c \in ClaimIds |-> Unpaid]

\* Any positive amount: the next value is read off amount', not enumerated.
SetAmount(c) ==
  /\ amount'[c] > 0
  /\ amount' = [amount EXCEPT ![c] = amount'[c]]

File(c) ==
  /\ status[c] = "ABSENT"
  /\ status' = [status EXCEPT ![c] = "DRAFT"]
  /\ SetAmount(c)
  /\ UNCHANGED paid

Edit(c) ==
  /\ status[c] = "DRAFT"
  /\ SetAmount(c)
  /\ UNCHANGED <<status, paid>>

Advance(c, target) ==
  /\ <<status[c], target>> \in Edges
  /\ status' = [status EXCEPT ![c] = target]
  /\ UNCHANGED <<amount, paid>>

Settle(c) ==
  /\ status[c] = "APPROVED"
  /\ paid[c] = Unpaid
  /\ status' = [status EXCEPT ![c] = "PAID"]
  /\ paid' = [paid EXCEPT ![c] = amount[c]]
  /\ UNCHANGED amount

Next ==
  \E c \in ClaimIds :
    \/ File(c)
    \/ Edit(c)
    \/ \E edge \in Edges : Advance(c, edge[2])
    \/ Settle(c)

Spec == Init /\ [][Next]_lifecycleVars
=============================================================================
