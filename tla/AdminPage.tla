------------------------------ MODULE AdminPage ------------------------------
(***************************************************************************)
(* The users page of the HTML interface (web/routes.py, admin_users.html)  *)
(* in one browser tab, beside everything else that happens to accounts.    *)
(* Each row has a button, Deactivate or Activate, and both send the same   *)
(* request: negate what the table says by the time it is served.           *)
(***************************************************************************)
EXTENDS Accounts

VARIABLES
  tab,        \* the page in the tab, and the click under way
  changed     \* accounts switched on or off since the page was rendered

adminVars == <<accountVars, tab, changed>>

Away == [pc |-> "away"]
Label(i) == IF users[i].active THEN "Deactivate" ELSE "Activate"

AdminInit == AccountsInit /\ tab = Away /\ changed = {}

\* Whoever is not an administrator is sent to the login page or refused.
admin_users(i) ==
  /\ tab.pc # "clicked"
  /\ tab' = IF require_admin(i)
              THEN [pc |-> "open", viewer |-> i,
                    button |-> [t \in {j \in Ids \ {i} : Exists(j)} |-> Label(t)]]
              ELSE Away
  /\ changed' = {}
  /\ UNCHANGED accountVars

toggle_user(w, t) ==
  /\ tab.pc = "open" /\ t \in DOMAIN tab.button
  /\ \E r \in Changes(tab.viewer) :
       r.op = "toggle" /\ r.target = t /\ Authenticate(w, tab.viewer, r)
  /\ tab' = [pc |-> "clicked", target |-> t, label |-> tab.button[t], thread |-> w]
  /\ UNCHANGED changed

\* The viewer has been deactivated, or the token has expired.
ToggleRefused ==
  /\ tab.pc = "open" /\ ~require_admin(tab.viewer)
  /\ tab' = Away
  /\ UNCHANGED <<accountVars, changed>>

\* Once the request is served the browser follows the redirect, or shows an error.
Elsewhere ==
  /\ AccountsNext
  /\ changed' = IF tab = Away THEN {}
                ELSE changed \cup
                  {i \in Ids : Exists(i) /\ users'[i].active # users[i].active}
  /\ tab' = IF tab.pc = "clicked" /\ request'[tab.thread] = None THEN Away ELSE tab

AdminNext ==
  \/ \E i \in Ids : admin_users(i)
  \/ \E w \in Slots, t \in Ids : toggle_user(w, t)
  \/ ToggleRefused
  \/ Elsewhere

AdminSpec == AdminInit /\ [][AdminNext]_adminVars

-----------------------------------------------------------------------------
(* A button does what it says, whatever else is served between the page and *)
(* the commit, unless somebody switched the same account in the meantime:   *)
(* then Deactivate may well activate.                                       *)
ButtonKeepsItsWord ==
  [][tab.pc = "clicked" /\ SetActive(tab.thread) =>
       \/ tab.target \in changed
       \/ users'[tab.target].active = (tab.label = "Activate")]_adminVars
=============================================================================
