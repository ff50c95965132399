----------------------------- MODULE ClaimsTable -----------------------------
(***************************************************************************)
(* The claims page of the HTML interface: its filter fields, the script    *)
(* that fetches the table anew when they change (templates/claims.html),   *)
(* the server's answers (web/routes.py) and whoever uses the page.  The    *)
(* page object of the framework (claims_list_page.py) waits for aria-busy  *)
(* to be false after every action; a person does not.                      *)
(***************************************************************************)
EXTENDS Naturals

CONSTANTS
  Statuses,     \* the options of the status filter, "All statuses" included
  Terms,        \* search terms, the empty one included
  AllStatuses, NoTerm,
  MaxFetches    \* bound: requests under way with the same parameters

ASSUME TableAssumption ==
  /\ AllStatuses \in Statuses /\ NoTerm \in Terms
  /\ MaxFetches \in Nat \ {0}

Params == [status : Statuses, q : Terms]
Everything == [status |-> AllStatuses, q |-> NoTerm]

VARIABLES
  patient,    \* who uses the page: the page object (TRUE) or a person
  fields,     \* the status and search fields
  shown,      \* the parameters of the table in the container
  url,        \* the parameters in the address bar
  busy,       \* aria-busy
  fetches,    \* requests under way, by their parameters
  wanted,     \* the parameters of the latest request, or of the page load
  outcome     \* of the latest answer: "table", "refused" or "failed"

tableVars == <<patient, fields, shown, url, busy, fetches, wanted, outcome>>

TableTypeOK ==
  /\ {fields, shown, url, wanted} \subseteq Params
  /\ {patient, busy} \subseteq BOOLEAN
  /\ fetches \in [Params -> 0..MaxFetches]
  /\ outcome \in {"table", "refused", "failed"}

NoFetches == [p \in Params |-> 0]
UnderWay == {p \in Params : fetches[p] > 0}

TableInit ==
  /\ patient \in BOOLEAN
  /\ fields = Everything /\ shown = Everything /\ url = Everything
  /\ wanted = Everything
  /\ busy = FALSE
  /\ fetches = NoFetches
  /\ outcome = "table"

-----------------------------------------------------------------------------
(* The script.                                                              *)

\* Mutant of refresh: aria-busy is set by the answer only.
refresh_silent(p) ==
  /\ fetches[p] < MaxFetches
  /\ fetches' = [fetches EXCEPT ![p] = @ + 1]
  /\ wanted' = p
  /\ UNCHANGED <<patient, shown, url, busy, outcome>>

refresh(p) ==
  /\ fetches[p] < MaxFetches
  /\ fetches' = [fetches EXCEPT ![p] = @ + 1]
  /\ wanted' = p
  /\ busy' = TRUE
  /\ UNCHANGED <<patient, shown, url, outcome>>

Received(p) == fetches[p] > 0 /\ fetches' = [fetches EXCEPT ![p] = @ - 1]

\* Mutant of Answered: the address bar keeps the filters the page came with.
answered_url_kept(p) ==
  /\ Received(p)
  /\ shown' = p /\ busy' = FALSE /\ outcome' = "table"
  /\ UNCHANGED <<patient, fields, url, wanted>>

Answered(p) ==
  /\ Received(p)
  /\ shown' = p /\ url' = p /\ busy' = FALSE /\ outcome' = "table"
  /\ UNCHANGED <<patient, fields, wanted>>

\* A 401 or a 500 is an answer to fetch(): its text replaces the table.
Refused(p) ==
  /\ Received(p)
  /\ url' = p /\ busy' = FALSE /\ outcome' = "refused"
  /\ UNCHANGED <<patient, fields, shown, wanted>>

\* Mutant of Failed: nothing catches the error.
failed_uncaught(p) ==
  /\ Received(p)
  /\ outcome' = "failed"
  /\ UNCHANGED <<patient, fields, shown, url, busy, wanted>>

Failed(p) ==
  /\ Received(p)
  /\ busy' = FALSE /\ outcome' = "failed"
  /\ UNCHANGED <<patient, fields, shown, url, wanted>>

-----------------------------------------------------------------------------
(* Whoever uses the page.                                                   *)

Ready == patient => ~busy

\* filter_by_status.  select_option dispatches a change event in any case, a
\* person causes one by choosing another option.
SelectStatus(s) ==
  /\ Ready
  /\ patient \/ s # fields.status
  /\ fields' = [fields EXCEPT !.status = s]
  /\ refresh(fields')

FillSearch(t) ==     \* search_for, first line
  /\ Ready
  /\ fields' = [fields EXCEPT !.q = t]
  /\ UNCHANGED <<patient, shown, url, busy, fetches, wanted, outcome>>

Apply ==             \* search_for, second line
  /\ Ready
  /\ refresh(fields)
  /\ UNCHANGED fields

\* Loading the address again, in a session that is still signed in, abandons the
\* requests under way; the server fills in the fields and the table from the
\* address.  What a browser may restore into fields that were typed in but not
\* applied is left out: the page object's navigation does not.
Reload ==
  /\ Ready
  /\ fields' = url /\ shown' = url /\ wanted' = url
  /\ busy' = FALSE /\ fetches' = NoFetches /\ outcome' = "table"
  /\ UNCHANGED <<patient, url>>

Arrival == \E p \in Params : Answered(p) \/ Refused(p) \/ Failed(p)

TableNext ==
  \/ \E s \in Statuses : SelectStatus(s)
  \/ \E t \in Terms : FillSearch(t)
  \/ Apply
  \/ Reload
  \/ Arrival

TableSpec == TableInit /\ [][TableNext]_tableVars

\* The browser ends every request: with an answer or with a network error.
FairTable == TableSpec /\ WF_tableVars(Arrival)

-----------------------------------------------------------------------------
(* To the page object, aria-busy="false" means that the table is that of    *)
(* the filters it asked for last, the status field's among them, unless the *)
(* latest answer was an error, and that no later answer will replace it.    *)
NotBusyIsSettled ==
  patient /\ ~busy =>
    /\ UnderWay = {}
    /\ outcome = "table" => shown = wanted /\ shown.status = fields.status

(* The address of the page reproduces the table: loading it again shows the *)
(* same filters.                                                            *)
AddressDescribesTable == outcome = "table" => url = shown

(* aria-busy does not stay true.                                            *)
BusyEnds == busy ~> ~busy
=============================================================================
