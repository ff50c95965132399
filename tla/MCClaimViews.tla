---------------------------- MODULE MCClaimViews ----------------------------
(* The browser among the accounts of MCClaimService, in tenths of a cent:   *)
(* the limit is 20, the coverage 30.                                        *)
EXTENDS ClaimIntake, TLC

CONSTANTS holder, adjuster, admin, stranger, policy, lapsed

MCRoleOf == [u \in Users |-> CASE u = adjuster -> "ADJUSTER"
                               [] u = admin    -> "ADMIN"
                               [] OTHER        -> "CUSTOMER"]
MCHolder == [p \in Policies |-> holder]
MCCoverage == [p \in Policies |-> 30]

\* With limits of 2 and 4: too short, short as JSON only, good, good with a line
\* break, too long as a form only.
MCTexts == {[letters |-> 1, breaks |-> 0], [letters |-> 0, breaks |-> 1],
            [letters |-> 2, breaks |-> 0], [letters |-> 1, breaks |-> 1],
            [letters |-> 3, breaks |-> 1]}

\* Nothing reads the reply to a request that is done, nor do the properties of
\* this run: states that differ in it only are explored once.
MCView == <<claims, events, payouts, page,
            [s \in Slots |-> IF tx[s].pc = "done" THEN None ELSE tx[s]]>>
=============================================================================
