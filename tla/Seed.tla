-------------------------------- MODULE Seed --------------------------------
(***************************************************************************)
(* The data ClaimDesk starts with (app/claimdesk/seed.py): claims of one   *)
(* customer in every status but WITHDRAWN, each with the audit trail and   *)
(* the payout that its status calls for, all written by one transaction.   *)
(* Running it again changes nothing, so it is an initial state here and    *)
(* not an action.                                                          *)
(***************************************************************************)
EXTENDS ClaimService, FiniteSets

CONSTANTS
  Corpus,         \* the seeded claims, a status and an amount for each
  SeedPolicy,     \* POL-1001
  SeedAdjuster

ASSUME SeedAssumption ==
  /\ DOMAIN Corpus \subseteq ClaimIds /\ IsFiniteSet(DOMAIN Corpus)
  /\ SeedPolicy \in Policies /\ RoleOf[Holder[SeedPolicy]] = "CUSTOMER"
  /\ SeedAdjuster \in Users /\ RoleOf[SeedAdjuster] = "ADJUSTER"
  /\ \A c \in DOMAIN Corpus :
       Corpus[c] \in [status : ClaimStatus \ {"WITHDRAWN"}, amount : 1..Coverage[SeedPolicy]]

_PATHS ==
  [DRAFT        |-> <<"DRAFT">>,
   SUBMITTED    |-> <<"DRAFT", "SUBMITTED">>,
   UNDER_REVIEW |-> <<"DRAFT", "SUBMITTED", "UNDER_REVIEW">>,
   APPROVED     |-> <<"DRAFT", "SUBMITTED", "UNDER_REVIEW", "APPROVED">>,
   REJECTED     |-> <<"DRAFT", "SUBMITTED", "UNDER_REVIEW", "REJECTED">>,
   PAID         |-> <<"DRAFT", "SUBMITTED", "UNDER_REVIEW", "APPROVED", "PAID">>]

seeded_claim(c) ==
  [policy |-> SeedPolicy, amount |-> Corpus[c].amount, status |-> Corpus[c].status,
   withdrawn_at |-> FALSE,
   decided_by |-> IF Corpus[c].status \in {"APPROVED", "PAID", "REJECTED"}
                  THEN SeedAdjuster ELSE None]

seeded_events(c) ==
  LET path == _PATHS[Corpus[c].status]
      actor(step) == IF step \in {"DRAFT", "SUBMITTED"}
                     THEN Holder[SeedPolicy] ELSE SeedAdjuster
  IN [i \in DOMAIN path |->
        Event(actor(path[i]), IF i = 1 THEN None ELSE path[i - 1], path[i])]

seeded_payouts(c) ==
  IF Corpus[c].status = "PAID"
  THEN <<[amount |-> Corpus[c].amount, paid_by |-> SeedAdjuster]>> ELSE <<>>

Seeded == DOMAIN Corpus

seed ==
  /\ claims = [c \in ClaimIds |-> IF c \in Seeded THEN seeded_claim(c) ELSE Absent]
  /\ events = [c \in ClaimIds |-> IF c \in Seeded THEN seeded_events(c) ELSE <<>>]
  /\ payouts = [c \in ClaimIds |-> IF c \in Seeded THEN seeded_payouts(c) ELSE <<>>]
  /\ tx = [s \in Slots |-> [pc |-> "done", reply |-> "none"]]
=============================================================================
