------------------------ MODULE WorkflowDriverProofs ------------------------
(***************************************************************************)
(* What the clients, the recorder and the generated state-machine tests    *)
(* guarantee for every recorder size, every approval limit and amount, and *)
(* however many tests a worker runs.  The strengthening: no client holds a *)
(* cookie unless the test was just lost, and the driver is always at a     *)
(* stop of its route, with the rest of the route before it.                *)
(***************************************************************************)
EXTENDS WorkflowDriver, SequenceTheorems, TLAPS

(* Where a step may be taken, and where it leads.                           *)
Source(step) == IF step = "withdraw" THEN "DRAFT" ELSE TRANSITIONS[step].source
Landing(step) == IF step = "withdraw" THEN "WITHDRAWN" ELSE TRANSITIONS[step].target

(* Where a route leads in i steps.                                          *)
StopAt(path, i) == IF i = 0 THEN "DRAFT" ELSE Landing(path[i])

(* Every arrangement, the routes path_to publishes and the withdrawal, runs *)
(* along the rules of the application: each step starts where the one       *)
(* before ends, the last one ends at the target; the customer submits and   *)
(* withdraws, and it takes an approval only if the target lies behind one.  *)
LEMMA RoutesFollowTheRules ==
  ASSUME NEW target \in ClaimStatus
  PROVE  LET path == arrangement(target) IN
         /\ path \in Seq(Step)
         /\ StopAt(path, Len(path)) = target
         /\ \A i \in 1..Len(path) :
              /\ Source(path[i]) = StopAt(path, i - 1)
              /\ \/ path[i] \in {"submit", "withdraw"}
                 \/ target \notin {"DRAFT", "SUBMITTED", "WITHDRAWN"}
              /\ path[i] = "approve" => target \in {"APPROVED", "PAID"}
  <1> USE DEF arrangement, path_to, StopAt, Source, Landing, TRANSITIONS, TransitionRule,
              Step, ClaimAction, ClaimStatus
  <1>1. CASE target = "DRAFT"
    BY <1>1
  <1>2. CASE target = "SUBMITTED"
    BY <1>2
  <1>3. CASE target = "UNDER_REVIEW"
    BY <1>3
  <1>4. CASE target = "APPROVED"
    BY <1>4
  <1>5. CASE target = "REJECTED"
    BY <1>5
  <1>6. CASE target = "PAID"
    BY <1>6
  <1>7. CASE target = "WITHDRAWN"
    BY <1>7
  <1> QED
    BY <1>1, <1>2, <1>3, <1>4, <1>5, <1>6, <1>7

-----------------------------------------------------------------------------
(* The clients and the recorder.                                            *)

(* What is kept of a longer history, when the end of it was kept so far.    *)
LEMMA EndOfAppend ==
  ASSUME NEW S, NEW all \in Seq(S), NEW x \in S, NEW d \in 0..Len(all)
  PROVE  SubSeq(Append(all, x), d + 1, Len(all) + 1)
           = Append(SubSeq(all, d + 1, Len(all)), x)
  <1> DEFINE n == Len(all)
             longer == Append(all, x)
             kept == SubSeq(all, d + 1, n)
             left == SubSeq(longer, d + 1, n + 1)
             right == Append(kept, x)
  <1>1. /\ n \in Nat /\ d \in Nat /\ d <= n
        /\ \A i \in 1..n : longer[i] = all[i] /\ all[i] \in S
        /\ longer[n + 1] = x
    BY AppendProperties
  <1>2. /\ kept \in Seq(S) /\ Len(kept) = n - d
        /\ \A i \in 1..(n - d) : kept[i] = all[d + i]
    <2>1. \A i \in (d + 1)..n : all[i] \in S
      BY <1>1
    <2>2. /\ kept \in Seq(S) /\ Len(kept) = IF d + 1 <= n THEN n - (d + 1) + 1 ELSE 0
          /\ \A i \in 1..(n - (d + 1) + 1) : kept[i] = all[(d + 1) + i - 1]
      BY <1>1, <2>1, SubSeqProperties
    <2> QED
      BY <1>1, <2>2
  <1>3. /\ left \in Seq(S) /\ Len(left) = n - d + 1
        /\ \A i \in 1..(n - d + 1) : left[i] = longer[d + i]
    <2>1. \A i \in (d + 1)..(n + 1) : longer[i] \in S
      BY <1>1
    <2> HIDE DEF longer
    <2>2. /\ left \in Seq(S)
          /\ Len(left) = IF d + 1 <= n + 1 THEN (n + 1) - (d + 1) + 1 ELSE 0
          /\ \A i \in 1..((n + 1) - (d + 1) + 1) : left[i] = longer[(d + 1) + i - 1]
      BY <1>1, <2>1, SubSeqProperties
    <2> QED
      BY <1>1, <2>2
  <1> HIDE DEF kept, left, longer
  <1>4. /\ right \in Seq(S) /\ Len(right) = n - d + 1
        /\ \A i \in 1..(n - d) : right[i] = kept[i]
        /\ right[n - d + 1] = x
    BY <1>1, <1>2, AppendProperties
  <1> HIDE DEF right, n
  <1>5. \A i \in 1..(n - d + 1) : left[i] = right[i]
    BY <1>1, <1>2, <1>3, <1>4
  <1>6. left = right
    BY <1>3, <1>4, <1>5, SeqEqual
  <1> QED
    BY <1>6 DEF left, right, longer, kept, n

(* A full stream that forgets its oldest entry still holds the end of the   *)
(* traffic.                                                                 *)
LEMMA AddKeepsTheEnd ==
  ASSUME ClientTypeOK, EvidenceIsTheTests, NEW x \in Exchange,
         recorder' = add(x), answered' = Append(answered, x)
  PROVE  recorder' \in Recorder /\ answered' \in Seq(Exchange) /\ EvidenceIsTheTests'
  <1> DEFINE all == Len(answered)
             entries == recorder.entries
             kept == Len(entries)
             d == recorder.dropped
             max == MAX_RECORDED_ENTRIES
  <1>1. /\ answered \in Seq(Exchange) /\ entries \in Seq(Exchange) /\ d \in Nat
        /\ recorder = [entries |-> entries, dropped |-> d]
    BY DEF ClientTypeOK, Recorder
  <1>2. /\ all \in Nat /\ kept \in Nat /\ max \in Nat \ {0}
        /\ kept = IF all < max THEN all ELSE max
        /\ d = all - kept
    BY <1>1, RecorderAssumption DEF EvidenceIsTheTests
  <1>3. entries = SubSeq(answered, d + 1, all)
    <2>1. entries = SubSeq(answered, all - kept + 1, all)
      BY DEF EvidenceIsTheTests
    <2> QED
      BY <1>2, <2>1
  <1>4. Append(answered, x) \in Seq(Exchange) /\ Len(Append(answered, x)) = all + 1
    BY <1>1
  <1>5. CASE kept < max
    <2>1. recorder' = [entries |-> Append(entries, x), dropped |-> d]
      BY <1>1, <1>5 DEF add
    <2>2. Append(entries, x) \in Seq(Exchange) /\ Len(Append(entries, x)) = kept + 1
      BY <1>1
    <2>3. Append(entries, x) = SubSeq(Append(answered, x), d + 1, all + 1)
      <3>1. d \in 0..all
        BY <1>2
      <3> QED
        BY <1>1, <1>3, <3>1, EndOfAppend
    <2>4. recorder'.entries = Append(entries, x) /\ recorder'.dropped = d
      BY <2>1
    <2>5. recorder' \in Recorder
      BY <1>1, <2>1, <2>2 DEF Recorder
    <2> HIDE DEF entries, d
    <2>6. (all + 1) - (kept + 1) + 1 = d + 1
      BY <1>2
    <2> HIDE DEF kept, all, max
    <2>7. Len(answered') = all + 1 /\ Len(recorder'.entries) = kept + 1
      BY <1>4, <2>2, <2>4
    <2>8. recorder'.entries = SubSeq(answered', (all + 1) - (kept + 1) + 1, all + 1)
      BY <2>3, <2>4, <2>6
    <2>9. /\ kept + 1 = IF all + 1 < max THEN all + 1 ELSE max
          /\ d = (all + 1) - (kept + 1)
      BY <1>2, <1>5
    <2> QED
      BY <1>4, <2>4, <2>5, <2>7, <2>8, <2>9 DEF EvidenceIsTheTests, max
  <1>6. CASE kept = max
    <2> DEFINE rest == Tail(entries)
    <2>1. recorder' = [entries |-> Append(rest, x), dropped |-> d + 1]
      BY <1>1, <1>6 DEF add
    <2>2. rest \in Seq(Exchange) /\ Len(rest) = kept - 1
      BY <1>1, <1>2, <1>6, HeadTailProperties
    <2>3. rest = SubSeq(answered, (d + 1) + 1, all)
      <3>1. d + 1 \in 1..all /\ all \in (d + 1)..all
        BY <1>2, <1>6
      <3> QED
        BY <1>1, <1>3, <3>1, HeadTailOfSubSeq
    <2> HIDE DEF rest
    <2>4. Append(rest, x) \in Seq(Exchange) /\ Len(Append(rest, x)) = kept
      BY <1>2, <2>2
    <2>5. Append(rest, x) = SubSeq(Append(answered, x), (d + 1) + 1, all + 1)
      <3>1. d + 1 \in 0..all
        BY <1>2, <1>6
      <3> QED
        BY <1>1, <2>3, <3>1, EndOfAppend
    <2>6. recorder'.entries = Append(rest, x) /\ recorder'.dropped = d + 1
      BY <2>1
    <2>7. recorder' \in Recorder
      BY <1>1, <2>1, <2>4 DEF Recorder
    <2> HIDE DEF entries, d
    <2>8. (all + 1) - kept + 1 = (d + 1) + 1 /\ ~(all + 1 < max)
      BY <1>2, <1>6
    <2> HIDE DEF kept, all, max
    <2>9. Len(answered') = all + 1 /\ Len(recorder'.entries) = kept
      BY <1>4, <2>4, <2>6
    <2>10. recorder'.entries = SubSeq(answered', (all + 1) - kept + 1, all + 1)
      BY <2>5, <2>6, <2>8
    <2>11. /\ kept = IF all + 1 < max THEN all + 1 ELSE max
           /\ d + 1 = (all + 1) - kept
      BY <1>2, <1>6, <2>8
    <2> QED
      BY <1>4, <2>6, <2>7, <2>9, <2>10, <2>11 DEF EvidenceIsTheTests, max
  <1> QED
    BY <1>2, <1>5, <1>6

(* A client without a cookie acts for the caller its header names.          *)
LEMMA HeaderDecides ==
  ASSUME NEW k \in Client, NEW header \in Header, jar = no_cookies
  PROVE  Caller(k, header) = IF header \in Role THEN header ELSE None
  BY RecorderAssumption DEF Caller, _extract_token, no_cookies, Header, Role

(* So an answered request leaves the clients and the evidence in order.     *)
LEMMA RequestKeepsOrder ==
  ASSUME ClientTypeOK, EvidenceIsTheTests, CallerIsExplicit, jar = no_cookies,
         NEW k \in Client, NEW header \in Header, NEW set_cookie, NEW answer \in Answer,
         request(k, header, set_cookie, answer)
  PROVE  /\ ClientTypeOK' /\ EvidenceIsTheTests' /\ CallerIsExplicit' /\ jar' = no_cookies
         /\ Len(answered') > 0 /\ answered'[Len(answered')].answer = answer
  <1> DEFINE x == [header |-> header, caller |-> Caller(k, header), answer |-> answer]
  <1>1. x \in Exchange /\ x.caller = IF header \in Role THEN header ELSE None
    BY HeaderDecides DEF Exchange
  <1>2. jar' = no_cookies
    BY DEF request, discard, no_cookies
  <1>3. recorder' = add(x) /\ answered' = Append(answered, x)
    BY DEF request
  <1>4. recorder' \in Recorder /\ answered' \in Seq(Exchange) /\ EvidenceIsTheTests'
    BY <1>1, <1>3, AddKeepsTheEnd
  <1>5. ClientTypeOK'
    BY <1>2, <1>4 DEF ClientTypeOK, no_cookies
  <1>6. x.header = header /\ x.answer = answer
    OBVIOUS
  <1> HIDE DEF x
  <1>7. CallerIsExplicit'
    BY <1>1, <1>3, <1>6 DEF CallerIsExplicit, ClientTypeOK
  <1>8. Len(answered') > 0 /\ answered'[Len(answered')].answer = answer
    BY <1>3, <1>6 DEF ClientTypeOK
  <1> QED
    BY <1>2, <1>4, <1>5, <1>7, <1>8

-----------------------------------------------------------------------------
(* The driver.                                                              *)

(* The driver is at a stop of the route of its test, and what is left to    *)
(* take is the rest of that route.                                          *)
OnRoute ==
  pc = "drive" =>
    LET path == arrangement(test.target) IN
    \E i \in 0..Len(path) :
      route = SubSeq(path, i + 1, Len(path)) /\ status = StopAt(path, i)

NoCookies == pc # "lost" => jar = no_cookies

Arrived == pc = "probe" => status = test.target

DriverInv ==
  /\ DriverTypeOK /\ CallerIsExplicit /\ EvidenceIsTheTests
  /\ NoCookies /\ OnRoute /\ Arrived
  /\ DriveFailsForAuthorityOnly /\ MatrixIsTheRules

(* A test starts at the first stop of its route.                            *)
LEMMA DriverStarts == DriverInit => DriverInv
  <1> SUFFICES ASSUME DriverInit PROVE DriverInv
    OBVIOUS
  <1> USE DEF DriverInit, FreshClients
  <1>1. ClientTypeOK
    BY RecorderAssumption DEF ClientTypeOK, no_cookies, recording, Recorder
  <1> DEFINE path == arrangement(test.target)
  <1>2. path \in Seq(Step) /\ Len(path) \in Nat
    BY RoutesFollowTheRules DEF Test
  <1>3. DriverTypeOK
    BY <1>1, <1>2 DEF DriverTypeOK, ClaimStatus
  <1>4. EvidenceIsTheTests /\ CallerIsExplicit
    BY RecorderAssumption DEF EvidenceIsTheTests, CallerIsExplicit, recording
  <1>5. OnRoute
    <2>1. path = SubSeq(path, 0 + 1, Len(path))
      BY <1>2, SubSeqFull
    <2> QED
      BY <1>2, <2>1 DEF OnRoute, StopAt
  <1> QED
    BY <1>3, <1>4, <1>5
    DEF DriverInv, NoCookies, Arrived, MatrixIsTheRules, DriveFailsForAuthorityOnly

(* A step of a claim: answered as the rules say for the account that asks,  *)
(* or lost.                                                                 *)
LEMMA TransitionStep ==
  ASSUME DriverInv, pc \in {"drive", "probe"}, NEW step \in Step, NEW k \in Role,
         NEW next \in {"drive", "end"}, Transition(k, step, next)
  PROVE  LET verdict == Verdict_of(step, k) IN
         /\ ClientTypeOK' /\ EvidenceIsTheTests' /\ CallerIsExplicit' /\ jar' = no_cookies
         /\ status' \in ClaimStatus
         /\ \/ pc' = "lost"
            \/ /\ pc' = IF next = "drive" /\ verdict # "ok" THEN "raised" ELSE next
               /\ status' = IF verdict = "ok" THEN Landing(step) ELSE status
               /\ answered'[Len(answered')].answer = verdict
  <1> DEFINE header == authorization(k, TRUE)
             role == Caller(k, header)
             verdict == Verdict_of(step, k)
  <1>1. /\ ClientTypeOK /\ EvidenceIsTheTests /\ CallerIsExplicit /\ jar = no_cookies
        /\ test \in Test /\ status \in ClaimStatus
    BY DEF DriverInv, DriverTypeOK, NoCookies
  <1>2. k # None /\ k \in Client
    BY RecorderAssumption DEF Client
  <1>3. header = k /\ header \in Header
    BY DEF authorization, Role, Header
  <1>4. role = k
    BY <1>1, <1>2, <1>3, HeaderDecides
  <1>5. verdict \in Answer
    BY <1>2 DEF Verdict_of, resolve_transition, Answer, Verdict
  <1>6. /\ StatusAfter(step, k) = IF verdict = "ok" THEN Landing(step) ELSE status
        /\ StatusAfter(step, k) \in ClaimStatus
    BY <1>1
    DEF StatusAfter, Landing, TRANSITIONS, TransitionRule, Step, ClaimAction, ClaimStatus
  <1>7. CASE /\ request(k, header, None, Verdict_of(step, role))
             /\ status' = StatusAfter(step, role)
             /\ pc' = IF next = "drive" /\ Verdict_of(step, role) # "ok"
                        THEN "raised" ELSE next
    <2> HIDE DEF header, role, verdict
    <2>1. request(k, header, None, verdict) /\ status' = StatusAfter(step, k)
      BY <1>4, <1>7 DEF verdict
    <2>2. pc' = IF next = "drive" /\ verdict # "ok" THEN "raised" ELSE next
      BY <1>4, <1>7 DEF verdict
    <2>3. /\ ClientTypeOK' /\ EvidenceIsTheTests' /\ CallerIsExplicit' /\ jar' = no_cookies
          /\ answered'[Len(answered')].answer = verdict
      BY <1>1, <1>2, <1>3, <1>5, <2>1, RequestKeepsOrder
    <2> QED
      BY <1>6, <2>1, <2>2, <2>3 DEF verdict
  <1>8. CASE /\ raise(k, None)
             /\ status' \in {status, StatusAfter(step, role)}
             /\ pc' = "lost"
    BY <1>1, <1>4, <1>6, <1>8
    DEF raise, ClientTypeOK, EvidenceIsTheTests, CallerIsExplicit
  <1> QED
    BY <1>7, <1>8 DEF Transition

(* A step of the arrangement that is refused where it starts is refused for *)
(* want of authority.                                                       *)
LEMMA RefusalIsAuthority ==
  ASSUME test \in Test, NEW step \in Step,
         step \in {"submit", "withdraw"} \/ NeedsStaff, step = "approve" => NeedsApproval,
         status = Source(step), Verdict_of(step, Actor(step)) # "ok"
  PROVE  \/ NeedsStaff /\ test.staff = None
         \/ NeedsApproval /\ ~MayApprove
  <1> SUFFICES ASSUME ~(NeedsStaff /\ test.staff = None)
               PROVE  NeedsApproval /\ ~MayApprove
    OBVIOUS
  <1> USE RecorderAssumption
          DEF Verdict_of, resolve_transition, TRANSITIONS, TransitionRule, ClaimAction, Step,
              Source
  <1>1. step \notin {"submit", "withdraw"}
    BY DEF Actor, Role, Staff, EDITABLE_STATUSES
  <1>2. test.staff \in Staff /\ Actor(step) = test.staff /\ test.staff # None
    BY <1>1 DEF Actor, Test, Staff, Role
  <1>3. /\ step = "approve" /\ test.staff = "ADJUSTER"
        /\ test.amount > ADJUSTER_APPROVAL_LIMIT
    BY <1>1, <1>2 DEF Staff
  <1>4. test.amount \in Nat /\ ADJUSTER_APPROVAL_LIMIT \in Nat
    BY DriverAssumption, LimitAssumption DEF Test
  <1> QED
    BY <1>3, <1>4 DEF MayApprove

(* One more stop, or an arrangement that fails for want of authority.       *)
LEMMA DriveStep == ASSUME DriverInv, Drive PROVE DriverInv'
  <1> DEFINE path == arrangement(test.target)
             n == Len(path)
             step == Head(route)
             verdict == Verdict_of(step, Actor(step))
  <1>1. /\ pc = "drive" /\ route # <<>> /\ route' = Tail(route) /\ test' = test
        /\ Transition(Actor(step), step, "drive")
        /\ test \in Test /\ route \in Seq(Step)
    BY DEF Drive, DriverInv, DriverTypeOK
  <1>2. PICK i \in 0..n : route = SubSeq(path, i + 1, n) /\ status = StopAt(path, i)
    BY <1>1 DEF DriverInv, OnRoute
  <1>3. /\ path \in Seq(Step) /\ n \in Nat
        /\ \A j \in 1..n :
             /\ Source(path[j]) = StopAt(path, j - 1)
             /\ path[j] \in {"submit", "withdraw"} \/ NeedsStaff
             /\ path[j] = "approve" => NeedsApproval
    BY <1>1, RoutesFollowTheRules DEF Test, NeedsStaff, NeedsApproval
  <1> HIDE DEF path, n
  <1>4. i \in Nat /\ i + 1 \in 1..n /\ n \in (i + 1)..n
    <2>1. i < n
      BY <1>1, <1>2, <1>3, SubSeqEmpty
    <2> QED
      BY <1>2, <1>3, <2>1
  <1>5. step = path[i + 1] /\ route' = SubSeq(path, (i + 1) + 1, n)
    BY <1>1, <1>2, <1>3, <1>4, HeadTailOfSubSeq DEF n
  <1>6. step \in Step /\ Actor(step) \in Role
    BY <1>1, <1>3, <1>4, <1>5, ElementOfSeq DEF n, Actor, Test, Role, Staff
  <1>7. /\ Source(step) = status
        /\ step \in {"submit", "withdraw"} \/ NeedsStaff
        /\ step = "approve" => NeedsApproval
    <2>1. (i + 1) - 1 = i
      BY <1>4
    <2> QED
      BY <1>2, <1>3, <1>4, <1>5, <2>1
  <1>8. /\ ClientTypeOK' /\ EvidenceIsTheTests' /\ CallerIsExplicit' /\ jar' = no_cookies
        /\ status' \in ClaimStatus
        /\ \/ pc' = "lost"
           \/ /\ pc' = IF verdict # "ok" THEN "raised" ELSE "drive"
              /\ verdict = "ok" => status' = Landing(step)
    BY <1>1, <1>6, TransitionStep
  <1>9. DriverTypeOK'
    <2>1. route' \in Seq(Step)
      BY <1>1, HeadTailProperties
    <2> HIDE DEF verdict
    <2> QED
      BY <1>1, <1>8, <2>1 DEF DriverTypeOK
  <1>10. verdict = "ok" \/ (NeedsStaff /\ test.staff = None) \/ (NeedsApproval /\ ~MayApprove)
    BY <1>1, <1>6, <1>7, RefusalIsAuthority
  <1> HIDE DEF verdict, step
  <1>11. OnRoute'
    <2>1. status' = Landing(step) => status' = StopAt(path, i + 1)
      BY <1>4, <1>5 DEF StopAt
    <2> SUFFICES ASSUME pc' = "drive" PROVE OnRoute'
      BY DEF OnRoute
    <2>2. status' = StopAt(path, i + 1)
      BY <1>8, <2>1
    <2>3. i + 1 \in 0..n
      BY <1>4
    <2> QED
      BY <1>1, <1>5, <2>2, <2>3 DEF OnRoute, path, n
  <1>12. DriveFailsForAuthorityOnly'
    BY <1>1, <1>8, <1>10
    DEF DriveFailsForAuthorityOnly, NeedsStaff, NeedsApproval, MayApprove
  <1> QED
    BY <1>8, <1>9, <1>11, <1>12 DEF DriverInv, NoCookies, Arrived, MatrixIsTheRules

(* The driver arrives at the target it set out for.                         *)
LEMMA ArriveStep == ASSUME DriverInv, Arrive PROVE DriverInv'
  <1> DEFINE path == arrangement(test.target)
  <1>1. /\ pc = "drive" /\ route = <<>> /\ test.target \in ClaimStatus
        /\ UNCHANGED <<jar, recorder, answered, test, route, status>>
        /\ pc' = IF status = test.target THEN "probe" ELSE "raised"
    BY DEF Arrive, DriverInv, DriverTypeOK, Test, clientVars
  <1>2. PICK i \in 0..Len(path) :
          route = SubSeq(path, i + 1, Len(path)) /\ status = StopAt(path, i)
    BY <1>1 DEF DriverInv, OnRoute
  <1>3. path \in Seq(Step) /\ StopAt(path, Len(path)) = test.target
    BY <1>1, RoutesFollowTheRules
  <1> HIDE DEF path
  <1>4. i = Len(path)
    <2>1. \A j \in (i + 1)..Len(path) : path[j] \in Step
      BY <1>2, <1>3
    <2>2. Len(route) = IF i + 1 <= Len(path) THEN Len(path) - (i + 1) + 1 ELSE 0
      BY <1>2, <1>3, <2>1, SubSeqProperties
    <2> QED
      BY <1>1, <1>2, <1>3, <2>2
  <1>5. status = test.target
    BY <1>2, <1>3, <1>4
  <1> QED
    BY <1>1, <1>5
    DEF DriverInv, DriverTypeOK, ClientTypeOK, CallerIsExplicit, EvidenceIsTheTests, NoCookies,
        OnRoute, Arrived, DriveFailsForAuthorityOnly, MatrixIsTheRules

(* What the last action of a test is answered is what the published edges   *)
(* say.                                                                     *)
LEMMA ProbeStep == ASSUME DriverInv, Probe PROVE DriverInv'
  <1> DEFINE action == test.action
             verdict == Verdict_of(action, Asker)
             answer == answered'[Len(answered')].answer
  <1>1. /\ pc = "probe" /\ Transition(Asker, action, "end") /\ UNCHANGED <<test, route>>
        /\ test \in Test /\ status = test.target
        /\ action \in ClaimAction /\ test.target \in ClaimStatus
        /\ Asker \in Role /\ action \in Step
    BY DEF Probe, DriverInv, DriverTypeOK, Arrived, Test, Asker, Actor, Role, Staff, Step
  <1>2. /\ ClientTypeOK' /\ EvidenceIsTheTests' /\ CallerIsExplicit' /\ jar' = no_cookies
        /\ status' \in ClaimStatus
        /\ \/ pc' = "lost"
           \/ /\ pc' = "end" /\ answer = verdict
              /\ status' = IF verdict = "ok" THEN TRANSITIONS[action].target ELSE status
    BY <1>1, TransitionStep DEF Landing, ClaimAction
  <1>3. DriverTypeOK'
    BY <1>1, <1>2 DEF DriverInv, DriverTypeOK
  <1>4. <<action, test.target>> \in illegal_transitions
          <=> TRANSITIONS[action].source # test.target
    BY <1>1
    DEF illegal_transitions, LEGAL_TRANSITIONS, TRANSITIONS, TransitionRule, ClaimAction
  <1>5. TRANSITIONS[action].source # test.target => verdict = "conflict"
    BY <1>1, RecorderAssumption DEF Verdict_of, resolve_transition, ClaimAction
  <1>6. TRANSITIONS[action].source = test.target => verdict \in {"ok", "forbidden"}
    BY <1>1, RecorderAssumption DEF Verdict_of, resolve_transition, ClaimAction
  <1>7. TRANSITIONS[action].source = test.target =>
          <<action, test.target, TRANSITIONS[action].target>> \in LEGAL_TRANSITIONS
    BY <1>1 DEF LEGAL_TRANSITIONS, TRANSITIONS, TransitionRule, ClaimAction
  <1> HIDE DEF verdict
  <1>8. MatrixIsTheRules'
    <2> SUFFICES ASSUME pc' = "end" PROVE MatrixIsTheRules'
      BY DEF MatrixIsTheRules
    <2>1. /\ answer = verdict
          /\ status' = IF verdict = "ok" THEN TRANSITIONS[action].target ELSE test.target
      BY <1>1, <1>2
    <2>2. illegal_transitions' = illegal_transitions /\ LEGAL_TRANSITIONS' = LEGAL_TRANSITIONS
      BY DEF illegal_transitions, LEGAL_TRANSITIONS
    <2> QED
      BY <1>1, <1>4, <1>5, <1>6, <1>7, <2>1, <2>2 DEF MatrixIsTheRules
  <1>9. DriveFailsForAuthorityOnly' /\ OnRoute' /\ Arrived' /\ NoCookies'
    BY <1>2 DEF DriveFailsForAuthorityOnly, OnRoute, Arrived, NoCookies
  <1> QED
    BY <1>2, <1>3, <1>8, <1>9 DEF DriverInv

(* A login leaves a cookie behind only if its answer is cut off.            *)
LEMMA LoginStep == ASSUME DriverInv, Login PROVE DriverInv'
  <1>1. /\ UNCHANGED <<test, route, status>> /\ pc \in {"drive", "probe"}
        /\ DriverTypeOK /\ ClientTypeOK /\ EvidenceIsTheTests /\ CallerIsExplicit
        /\ jar = no_cookies
    BY DEF Login, DriverInv, DriverTypeOK, NoCookies
  <1>2. PICK role \in Role :
          \/ request("ANONYMOUS", None, role, "ok") /\ UNCHANGED pc
          \/ raise("ANONYMOUS", role) /\ pc' = "lost"
    BY DEF Login
  <1>3. CASE request("ANONYMOUS", None, role, "ok") /\ UNCHANGED pc
    <2>1. "ANONYMOUS" \in Client /\ None \in Header /\ "ok" \in Answer
      BY DEF Client, Header, Answer, Verdict
    <2>2. ClientTypeOK' /\ EvidenceIsTheTests' /\ CallerIsExplicit' /\ jar' = no_cookies
      BY <1>1, <1>3, <2>1, RequestKeepsOrder
    <2> QED
      BY <1>1, <1>3, <2>2
      DEF DriverInv, DriverTypeOK, NoCookies, OnRoute, Arrived,
          DriveFailsForAuthorityOnly, MatrixIsTheRules
  <1>4. CASE raise("ANONYMOUS", role) /\ pc' = "lost"
    <2>1. ClientTypeOK' /\ EvidenceIsTheTests' /\ CallerIsExplicit'
      BY <1>1, <1>4 DEF raise, ClientTypeOK, EvidenceIsTheTests, CallerIsExplicit, Client
    <2> QED
      BY <1>1, <1>4, <2>1
      DEF DriverInv, DriverTypeOK, NoCookies, OnRoute, Arrived,
          DriveFailsForAuthorityOnly, MatrixIsTheRules
  <1> QED
    BY <1>2, <1>3, <1>4

(* Asking who one is changes nothing but the evidence.                      *)
LEMMA MeStep == ASSUME DriverInv, Me PROVE DriverInv'
  <1>1. /\ UNCHANGED <<test, pc, route, status>> /\ pc \in {"drive", "probe"}
        /\ DriverTypeOK /\ ClientTypeOK /\ EvidenceIsTheTests /\ CallerIsExplicit
        /\ jar = no_cookies
    BY DEF Me, DriverInv, DriverTypeOK, NoCookies
  <1>2. PICK k \in Client : \E header \in {authorization(k, TRUE), "MALFORMED"} :
          request(k, header, None,
                  IF Caller(k, header) = None THEN "unauthenticated" ELSE "ok")
    BY DEF Me
  <1> PICK header \in {authorization(k, TRUE), "MALFORMED"} :
          request(k, header, None,
                  IF Caller(k, header) = None THEN "unauthenticated" ELSE "ok")
    BY <1>2
  <1>3. header \in Header
    BY DEF authorization, Client, Header
  <1> DEFINE answer == IF Caller(k, header) = None THEN "unauthenticated" ELSE "ok"
  <1>4. answer \in Answer
    BY DEF Answer, Verdict
  <1> HIDE DEF answer
  <1>5. ClientTypeOK' /\ EvidenceIsTheTests' /\ CallerIsExplicit' /\ jar' = no_cookies
    <2>1. request(k, header, None, answer)
      BY DEF answer
    <2> QED
      BY <1>1, <1>3, <1>4, <2>1, RequestKeepsOrder
  <1> QED
    BY <1>1, <1>5
    DEF DriverInv, DriverTypeOK, NoCookies, OnRoute, Arrived,
        DriveFailsForAuthorityOnly, MatrixIsTheRules

(* A new test has nothing of the one before.                                *)
LEMMA NextTestStep == ASSUME DriverInv, NextTest PROVE DriverInv'
  <1>1. /\ jar' = no_cookies /\ recorder' = recording /\ answered' = <<>>
        /\ test' \in Test /\ route' = arrangement(test'.target)
        /\ pc' = "drive" /\ status' = "DRAFT"
    BY DEF NextTest, NewTest
  <1> DEFINE path == arrangement(test'.target)
  <1>2. path \in Seq(Step)
    BY <1>1, RoutesFollowTheRules DEF Test
  <1>3. ClientTypeOK' /\ EvidenceIsTheTests' /\ CallerIsExplicit'
    BY <1>1, RecorderAssumption
    DEF ClientTypeOK, no_cookies, recording, Recorder, EvidenceIsTheTests, CallerIsExplicit
  <1>4. DriverTypeOK'
    BY <1>1, <1>2, <1>3 DEF DriverTypeOK, ClaimStatus
  <1>5. OnRoute'
    <2>1. Len(path) \in Nat /\ path = SubSeq(path, 0 + 1, Len(path))
      BY <1>2, SubSeqFull
    <2> HIDE DEF path
    <2>2. route' = path /\ status' = StopAt(path, 0) /\ 0 \in 0..Len(path)
      BY <1>1, <2>1 DEF path, StopAt
    <2> QED
      BY <1>1, <2>1, <2>2 DEF OnRoute, path
  <1> QED
    BY <1>1, <1>3, <1>4, <1>5
    DEF DriverInv, NoCookies, Arrived, DriveFailsForAuthorityOnly, MatrixIsTheRules

(* No step of a test, answered or lost, and no new test leaves the          *)
(* invariant.                                                               *)
THEOREM DriverInvariance == DriverSpec => []DriverInv
  <1>1. DriverInv /\ UNCHANGED driverVars => DriverInv'
    BY DEF DriverInv, driverVars, clientVars, DriverTypeOK, ClientTypeOK, CallerIsExplicit,
           EvidenceIsTheTests, NoCookies, OnRoute, Arrived,
           DriveFailsForAuthorityOnly, NeedsStaff, NeedsApproval, MayApprove, MatrixIsTheRules
  <1>2. DriverInv /\ [DriverNext]_driverVars => DriverInv'
    BY <1>1, DriveStep, ArriveStep, ProbeStep, LoginStep, MeStep, NextTestStep DEF DriverNext
  <1> QED
    BY <1>2, DriverStarts, PTL DEF DriverSpec

(* ADR 0007: no cookie of an earlier login ever answers for a request, in a *)
(* session of any number of tests.                                          *)
THEOREM CallersAreExplicit == DriverSpec => []CallerIsExplicit
  <1>1. DriverInv => CallerIsExplicit
    BY DEF DriverInv
  <1> QED
    BY <1>1, DriverInvariance, PTL

(* The recorder, however small, holds the end of the test's own traffic and *)
(* the number of exchanges it forgot.                                       *)
THEOREM EvidenceIsExact == DriverSpec => []EvidenceIsTheTests
  <1>1. DriverInv => EvidenceIsTheTests
    BY DEF DriverInv
  <1> QED
    BY <1>1, DriverInvariance, PTL

(* path_to leads wherever it promises, for every amount and limit: only     *)
(* authority is ever missing.                                               *)
THEOREM DrivesArrive == DriverSpec => []DriveFailsForAuthorityOnly
  <1>1. DriverInv => DriveFailsForAuthorityOnly
    BY DEF DriverInv
  <1> QED
    BY <1>1, DriverInvariance, PTL

(* The generated matrix and the rules of the application agree on all pairs *)
(* of an action and a status, WITHDRAWN included, asked by those the tests  *)
(* have ask, for every staff actor and amount.                              *)
THEOREM MatrixIsRight == DriverSpec => []MatrixIsTheRules
  <1>1. DriverInv => MatrixIsTheRules
    BY DEF DriverInv
  <1> QED
    BY <1>1, DriverInvariance, PTL
=============================================================================
