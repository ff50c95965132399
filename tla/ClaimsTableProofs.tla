-------------------------- MODULE ClaimsTableProofs --------------------------
(***************************************************************************)
(* For every set of filters, aria-busy is a sound signal for a user who    *)
(* waits for it: such a user has one request under way at most, the one    *)
(* made last, and busy says whether there is one.                          *)
(***************************************************************************)
EXTENDS ClaimsTable, TLAPS

OneRequest ==
  patient =>
    /\ busy => /\ fetches[wanted] = 1
               /\ \A p \in Params \ {wanted} : fetches[p] = 0
    /\ ~busy => /\ \A p \in Params : fetches[p] = 0
                /\ outcome = "table" => shown = wanted

(* What was last asked for is what the status field says: a change of the   *)
(* field is a request, and a search sends the field along.                  *)
RequestsFollowFields == wanted.status = fields.status

TableInv == TableTypeOK /\ OneRequest /\ RequestsFollowFields

(* The unfiltered first page is a request like any other.                   *)
LEMMA EverythingIsParams == Everything \in Params
  BY TableAssumption DEF Everything, Params

(* The page as it is loaded satisfies the invariant.                        *)
LEMMA TableInitInv == TableInit => TableInv
  <1> SUFFICES ASSUME TableInit PROVE TableInv
    OBVIOUS
  <1>1. NoFetches \in [Params -> 0..MaxFetches]
    BY TableAssumption DEF NoFetches
  <1>2. TableTypeOK
    BY <1>1, EverythingIsParams DEF TableInit, TableTypeOK
  <1>3. OneRequest
    BY DEF TableInit, OneRequest, NoFetches
  <1>4. RequestsFollowFields
    BY DEF TableInit, RequestsFollowFields
  <1> QED
    BY <1>2, <1>3, <1>4 DEF TableInv

(* A request made while nothing is under way is the only one.               *)
LEMMA RefreshInv ==
  ASSUME TableInv, Ready, NEW p \in Params, refresh(p),
         fields' \in Params, fields'.status = p.status
  PROVE  TableInv'
  <1>1. fetches \in [Params -> 0..MaxFetches] /\ MaxFetches \in Nat
    BY TableAssumption DEF TableInv, TableTypeOK
  <1>2. fetches[p] + 1 \in 0..MaxFetches
    BY <1>1 DEF refresh
  <1>3. TableTypeOK'
    BY <1>1, <1>2 DEF TableInv, TableTypeOK, refresh
  <1>4. OneRequest'
    BY <1>1 DEF TableInv, OneRequest, Ready, refresh
  <1>5. RequestsFollowFields'
    BY DEF RequestsFollowFields, refresh
  <1> QED
    BY <1>3, <1>4, <1>5 DEF TableInv

(* Whatever the answer is, it is that of the one request.                   *)
LEMMA ArrivalInv ==
  ASSUME TableInv, NEW p \in Params, Answered(p) \/ Refused(p) \/ Failed(p)
  PROVE  TableInv'
  <1>1. fetches \in [Params -> 0..MaxFetches] /\ MaxFetches \in Nat
    BY TableAssumption DEF TableInv, TableTypeOK
  <1>2. Received(p)
    BY DEF Answered, Refused, Failed
  <1>3. fetches[p] - 1 \in 0..MaxFetches
    BY <1>1, <1>2 DEF Received
  <1>4. fetches' \in [Params -> 0..MaxFetches]
    BY <1>1, <1>2, <1>3 DEF Received
  <1>5. TableTypeOK'
    BY <1>4 DEF TableInv, TableTypeOK, Answered, Refused, Failed
  <1>6. OneRequest'
    <2>1. SUFFICES ASSUME patient PROVE OneRequest'
      BY DEF OneRequest, Answered, Refused, Failed
    <2>2. busy /\ p = wanted
      BY <1>1, <1>2, <2>1 DEF TableInv, OneRequest, Received
    <2>3. \A q \in Params : fetches'[q] = 0
      BY <1>1, <1>2, <2>1, <2>2 DEF TableInv, OneRequest, Received
    <2>4. ~busy' /\ wanted' = wanted
      BY DEF Answered, Refused, Failed
    <2>5. outcome' = "table" => shown' = wanted'
      BY <2>2 DEF Answered, Refused, Failed
    <2> QED
      BY <2>3, <2>4, <2>5 DEF OneRequest
  <1>7. RequestsFollowFields'
    BY DEF TableInv, RequestsFollowFields, Answered, Refused, Failed
  <1> QED
    BY <1>5, <1>6, <1>7 DEF TableInv

(* Every event of the page keeps the invariant.                             *)
LEMMA TableNextInv == TableInv /\ [TableNext]_tableVars => TableInv'
  <1> SUFFICES ASSUME TableInv, [TableNext]_tableVars PROVE TableInv'
    OBVIOUS
  <1>0. fields \in Params /\ url \in Params /\ patient \in BOOLEAN
    BY DEF TableInv, TableTypeOK
  <1>1. CASE UNCHANGED tableVars
    BY <1>1 DEF TableInv, TableTypeOK, OneRequest, RequestsFollowFields, tableVars
  <1>2. ASSUME NEW s \in Statuses, SelectStatus(s) PROVE TableInv'
    <2>1. fields' \in Params
      BY <1>0, <1>2 DEF SelectStatus, Params
    <2> QED
      BY <2>1, <1>2, RefreshInv DEF SelectStatus
  <1>3. ASSUME NEW t \in Terms, FillSearch(t) PROVE TableInv'
    <2>1. fields' \in Params
      BY <1>0, <1>3 DEF FillSearch, Params
    <2>2. RequestsFollowFields'
      BY <1>0, <1>3 DEF FillSearch, Params, TableInv, RequestsFollowFields
    <2> QED
      BY <2>1, <2>2, <1>3 DEF FillSearch, TableInv, TableTypeOK, OneRequest
  <1>4. CASE Apply
    <2>1. fields' \in Params
      BY <1>0, <1>4 DEF Apply
    <2> QED
      BY <1>0, <2>1, <1>4, RefreshInv DEF Apply
  <1>5. CASE Reload
    <2>1. NoFetches \in [Params -> 0..MaxFetches]
      BY TableAssumption DEF NoFetches
    <2>2. TableTypeOK'
      BY <2>1, <1>0, <1>5 DEF Reload, TableTypeOK
    <2>3. OneRequest'
      BY <1>5 DEF Reload, OneRequest, NoFetches
    <2>4. RequestsFollowFields'
      BY <1>5 DEF Reload, RequestsFollowFields
    <2> QED
      BY <2>2, <2>3, <2>4 DEF TableInv
  <1>6. CASE Arrival
    BY <1>6, ArrivalInv DEF Arrival
  <1> QED
    BY <1>1, <1>2, <1>3, <1>4, <1>5, <1>6 DEF TableNext

(* A user who waits for aria-busy sees the table that was asked for last.   *)
THEOREM BusyIsASignal == TableSpec => []NotBusyIsSettled
  <1>1. TableInv => NotBusyIsSettled
    BY DEF TableInv, TableTypeOK, OneRequest, RequestsFollowFields,
           NotBusyIsSettled, UnderWay
  <1> QED
    BY <1>1, TableInitInv, TableNextInv, PTL DEF TableSpec
=============================================================================
