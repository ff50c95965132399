--------------------------- MODULE MCClaimService ---------------------------
(* Four accounts around one policy: the holder, a stranger, an adjuster and *)
(* an administrator.  The limit is 2, the coverage 3: an amount can be      *)
(* within the limit, above it, or illegal on either side.                   *)
EXTENDS ClaimService, TLC

CONSTANTS holder, adjuster, admin, stranger, policy, lapsed

MCRoleOf == [u \in Users |-> CASE u = adjuster -> "ADJUSTER"
                               [] u = admin    -> "ADMIN"
                               [] OTHER        -> "CUSTOMER"]
MCHolder == [p \in Policies |-> holder]
MCCoverage == [p \in Policies |-> 3]

\* The workers are interchangeable: no property names one.
MCSymmetry == Permutations(Slots)
=============================================================================
