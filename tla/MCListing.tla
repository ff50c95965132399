----------------------------- MODULE MCListing ------------------------------
(* The accounts of MCClaimService and two claims of the seed, which share   *)
(* their creation time: one to be submitted, one to be paid.                *)
EXTENDS Listing, TLC

CONSTANTS holder, adjuster, policy, c1, c2

MCRoleOf == [u \in Users |-> IF u = adjuster THEN "ADJUSTER" ELSE "CUSTOMER"]
MCHolder == [p \in Policies |-> holder]
MCCoverage == [p \in Policies |-> 3]
MCCorpus == [c \in {c1, c2} |->
  IF c = c1 THEN [status |-> "DRAFT", amount |-> 1] ELSE [status |-> "APPROVED", amount |-> 2]]
MCId == [c \in ClaimIds |-> CASE c = c1 -> 2 [] c = c2 -> 1 [] OTHER -> 3]

MCSymmetry == Permutations(Slots)
=============================================================================
