----------------------------- MODULE ClaimViews -----------------------------
(***************************************************************************)
(* Two pages of the browser (web/routes.py) that are read in several       *)
(* SELECTs, each of which sees what is committed by then.  The detail page *)
(* of a claim takes three, then stands while others work on the claim,     *)
(* until a button is clicked on it; the buttons are chosen by a function   *)
(* of their own, beside the rules that decide the request.  The dashboard  *)
(* takes one SELECT per status, and shows how many claims each found.      *)
(***************************************************************************)
EXTENDS ClaimService

VARIABLE page     \* the page, or the part of it that has been read

viewVars == <<vars, page>>

NoPage == [pc |-> "none"]

DetailPage == [pc : {"claim", "events", "shown"}, actor : Users, claim : ClaimIds,
               row : Claim,                  \* the claim as it was read
               trail : SUBSET ClaimStatus,   \* the statuses its events lead to
               payout : BOOLEAN]

Dashboard == [pc : {"counting", "tiles"}, actor : Users,
              there : SUBSET ClaimIds,        \* what the actor could see at the start
              tiles : Seq(SUBSET ClaimIds)]   \* the claims that each tile counts

ViewsTypeOK == TypeOK /\ page \in DetailPage \cup Dashboard \cup {NoPage}

ViewsInit == Init /\ page = NoPage

\* A claim that is not there, or is not the caller's to see, is a 404.
claim_detail(u, c) ==
  /\ page = NoPage
  /\ get_visible_claim(u, c)
  /\ page' = [pc |-> "claim", actor |-> u, claim |-> c, row |-> claims[c],
              trail |-> {}, payout |-> FALSE]
  /\ UNCHANGED vars

ListEvents ==
  /\ page.pc = "claim"
  /\ page' = [page EXCEPT !.pc = "events",
       !.trail = {events[page.claim][i].to_status : i \in DOMAIN events[page.claim]}]
  /\ UNCHANGED vars

\* Mutant of ReadPayout: the claim is read again, after its events.
ReadPayoutAndClaim ==
  /\ page.pc = "events"
  /\ page' = [page EXCEPT !.pc = "shown", !.payout = payouts[page.claim] # <<>>,
                          !.row = claims[page.claim]]
  /\ UNCHANGED vars

ReadPayout ==
  /\ page.pc = "events"
  /\ page' = [page EXCEPT !.pc = "shown", !.payout = payouts[page.claim] # <<>>]
  /\ UNCHANGED vars

\* Mutant of _action_is_offered: whoever sees the claim gets the owner's button.
offered_without_owner(action, u, row) ==
  /\ row.status = TRANSITIONS[action].source
  /\ RoleOf[u] \in TRANSITIONS[action].roles

\* The approval limit is left out on purpose: it is the service that refuses.
_action_is_offered(action, u, row) ==
  /\ row.status = TRANSITIONS[action].source
  /\ RoleOf[u] \in TRANSITIONS[action].roles
  /\ TRANSITIONS[action].owner_only => IsOwner(u, row)

available == {action \in ClaimAction : _action_is_offered(action, page.actor, page.row)}

\* A click sends the action and leaves the page.
claim_action(s) ==
  /\ page.pc = "shown"
  /\ \E action \in available :
       \/ Accept(s, page.actor, action, page.claim, None)
       \/ Refuse(s, page.actor, action, page.claim, None)
  /\ page' = NoPage

-----------------------------------------------------------------------------
\* Mutant of TileOrder: the statuses by name.
tiles_by_name ==
  <<"APPROVED", "DRAFT", "PAID", "REJECTED", "SUBMITTED", "UNDER_REVIEW", "WITHDRAWN">>

\* The order in which the enumeration declares the statuses.
TileOrder ==
  <<"DRAFT", "SUBMITTED", "UNDER_REVIEW", "APPROVED", "REJECTED", "PAID", "WITHDRAWN">>

Visible(u) == {c \in Existing : can_view_claim(RoleOf[u], IsOwner(u, claims[c]))}

dashboard(u) ==
  /\ page = NoPage
  /\ page' = [pc |-> "counting", actor |-> u, there |-> Visible(u), tiles |-> <<>>]
  /\ UNCHANGED vars

\* A statement per tile: the total of list_claims with that status.
CountTile ==
  /\ page.pc = "counting"
  /\ LET tile == Len(page.tiles) + 1 IN
     page' = [page EXCEPT
       !.tiles = Append(@, {c \in Visible(page.actor) : claims[c].status = TileOrder[tile]}),
       !.pc = IF tile = Len(TileOrder) THEN "tiles" ELSE "counting"]
  /\ UNCHANGED vars

Leave == page.pc \in {"shown", "tiles"} /\ page' = NoPage /\ UNCHANGED vars

ViewsNext ==
  \/ Next /\ UNCHANGED page
  \/ \E u \in Users, c \in ClaimIds : claim_detail(u, c)
  \/ ListEvents
  \/ ReadPayout
  \/ \E s \in Slots : claim_action(s)
  \/ \E u \in Users : dashboard(u)
  \/ CountTile
  \/ Leave

ViewsSpec == ViewsInit /\ [][ViewsNext]_viewVars

-----------------------------------------------------------------------------
(* The three SELECTs read the claim first: whatever is committed between    *)
(* them, the page never shows a status its own audit trail does not know,   *)
(* nor a claim as PAID without its payout.                                  *)
PageIsCoherent ==
  page.pc = "shown" =>
    /\ page.row.status \in page.trail
    /\ page.row.status = "PAID" => page.payout

(* A button is refused for two reasons only: the amount is above the limit  *)
(* of the adjuster who clicks it, or the claim has changed since the page   *)
(* was read.  And as long as it has not, the buttons are all the caller has.*)
OfferIsHonoured ==
  page.pc = "shown" =>
    \A action \in ClaimAction :
      LET verdict == Decide(page.actor, action, page.claim, None)
          stale == claims[page.claim] # page.row
          overLimit == action = "approve" /\ page.row.amount > ADJUSTER_APPROVAL_LIMIT
      IN IF action \in available
         THEN \/ verdict = "ok"
              \/ verdict = "conflict" /\ stale
              \/ verdict = "forbidden" /\ overLimit /\ RoleOf[page.actor] = "ADJUSTER"
         ELSE verdict = "ok" => stale

(* A claim moves forward only, and the tiles are counted in the order it    *)
(* moves in: one that was there when the dashboard was asked for is counted *)
(* by some tile, however often it moves while they are counted.  (It can be *)
(* counted twice: the tiles need not add up.)                               *)
DashboardMissesNoClaim ==
  page.pc = "tiles" =>
    page.there \subseteq UNION {page.tiles[i] : i \in DOMAIN page.tiles}
=============================================================================
