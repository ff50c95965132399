--------------------------- MODULE ReadinessProofs ---------------------------
(***************************************************************************)
(* What the readiness wait guarantees for every budget, interval, probe    *)
(* duration and wake-up delay, by itself and within a session, and what    *)
(* the session guarantees for every environment, .env file and lifetime    *)
(* of a token.  The inductive invariant of the wait adds what a failed     *)
(* probe says about the service and what giving up says about the clock;   *)
(* that of the session, how far it has come, what a layer owes to a wait   *)
(* that succeeded and what each reading owes to the environment.           *)
(***************************************************************************)
EXTENDS Session, TLAPS

Overrun ==
  /\ pc = "probing" => now <= Timeout + MaxLate
  /\ pc # "probing" => now <= Timeout + MaxLate + MaxProbe

\* A probe that fails began before upAt.
LastProbeFailed == pc \in {"refused", "gave_up"} => now < upAt + MaxProbe

NoTimeLeft == pc = "gave_up" => OutOfTime

Spaced ==
  /\ pc = "probing" => attempts * Interval <= now
  /\ pc # "probing" => (attempts - 1) * Interval <= now

WaitInv == WaitTypeOK /\ Overrun /\ LastProbeFailed /\ NoTimeLeft /\ Spaced

\* One more attempt is one more interval.
LEMMA OneMoreInterval ==
  ASSUME NEW n \in Nat
  PROVE  /\ n * Interval \in Nat
         /\ n * Interval = (n - 1) * Interval + Interval
         /\ ((n + 1) - 1) * Interval = n * Interval
  BY WaitAssumption

(* A wait that has not begun satisfies the invariant.                       *)
LEMMA WaitStarts == WaitInit => WaitInv
  BY WaitAssumption
  DEF WaitInit, WaitInv, WaitTypeOK, Overrun, LastProbeFailed, NoTimeLeft, Spaced

(* Probes and sleeps keep the invariant of the wait.                        *)
LEMMA WaitStep == WaitInv /\ [WaitNext]_waitVars => WaitInv'
<1> SUFFICES ASSUME WaitInv, [WaitNext]_waitVars PROVE WaitInv'
  OBVIOUS
<1> USE WaitAssumption DEF WaitInv, WaitTypeOK
<1>1. ASSUME NEW took \in 0..MaxProbe, NEW ready \in BOOLEAN, Probe(took, ready)
      PROVE  WaitInv'
  <2>1. WaitTypeOK'
    BY <1>1 DEF Probe
  <2>2. Overrun'
    BY <1>1 DEF Probe, Overrun
  <2>3. LastProbeFailed'
    BY <1>1 DEF Probe, Answers, LastProbeFailed
  <2>4. NoTimeLeft'
    BY <1>1 DEF Probe, NoTimeLeft
  <2>5. Spaced'
    BY <1>1, OneMoreInterval DEF Probe, Spaced
  <2> QED BY <2>1, <2>2, <2>3, <2>4, <2>5
<1>2. CASE GiveUp
  BY <1>2 DEF GiveUp, Overrun, LastProbeFailed, NoTimeLeft, Spaced, OutOfTime
<1>3. ASSUME NEW late \in 0..MaxLate, Sleep(late)
      PROVE  WaitInv'
  <2>1. WaitTypeOK' /\ Overrun' /\ LastProbeFailed' /\ NoTimeLeft'
    BY <1>3 DEF Sleep, OutOfTime, Overrun, LastProbeFailed, NoTimeLeft
  <2>2. Spaced'
    BY <1>3, OneMoreInterval DEF Sleep, Spaced
  <2> QED BY <2>1, <2>2
<1>4. CASE UNCHANGED waitVars
  BY <1>4 DEF waitVars, Overrun, LastProbeFailed, NoTimeLeft, Spaced, OutOfTime
<1> QED BY <1>1, <1>2, <1>3, <1>4 DEF WaitNext

(* The invariant of the wait, for every budget and interval.                *)
THEOREM WaitInvariance == WaitSpec => []WaitInv
  BY WaitStarts, WaitStep, PTL DEF WaitSpec

(* The wait overruns its budget by at most one probe (and one late wake-up),*)
(* for every budget and interval.                                           *)
THEOREM OverrunBounded == WaitSpec => []OverrunIsOneProbe
<1>1. WaitInv => OverrunIsOneProbe
  BY WaitAssumption DEF WaitInv, WaitTypeOK, Overrun, OverrunIsOneProbe
<1> QED BY <1>1, WaitInvariance, PTL

(* wait_until_ready never gives up on a service that was up for good an     *)
(* interval and a probe before the deadline.                                *)
THEOREM Patience == WaitSpec => []PatienceIsUsed
<1>1. WaitInv => PatienceIsUsed
  BY WaitAssumption
  DEF WaitInv, WaitTypeOK, LastProbeFailed, NoTimeLeft, OutOfTime, PatienceIsUsed
<1> QED BY <1>1, WaitInvariance, PTL

(* Attempts stay an interval apart.                                         *)
THEOREM Spacing == WaitSpec => []AttemptsAreSpaced
<1>1. WaitInv => AttemptsAreSpaced
  BY WaitAssumption, OneMoreInterval DEF WaitInv, WaitTypeOK, Spaced, AttemptsAreSpaced
<1> QED BY <1>1, WaitInvariance, PTL

-----------------------------------------------------------------------------
(* The session.                                                             *)

Passwords == {file["DB_PASSWORD"] : file \in Environs \cup DotEnvs} \cup {Defaults["DB_PASSWORD"]}

SettingsType == [base_url : HttpUrls \cup {Unset}, is_ci : BOOLEAN,
                 db_enabled : BOOLEAN, db_password : Passwords]

Outcomes == {"none", "setup", "retry", "error", "passed", "failed", "flaky"}

\* What a test that never had the service came to.
Waiting == {"none", "setup", "retry", "error"}

SessionTypeOK ==
  /\ environ \in Environs /\ dotenv \in DotEnvs
  /\ edited \in BOOLEAN /\ database \in BOOLEAN
  /\ stage \in {"reading", "waiting", "testing", "ended", "aborted"}
  /\ read \in Seq(SettingsType)
  /\ minute \in Nat
  /\ issued \in [NeedsApp -> Nat \cup {Unset}]
  /\ outcome \in [Layers -> Outcomes]

(* How far the session is, and with it the reading and the wait.            *)
StageInv ==
  /\ stage \in {"reading", "aborted"} =>
       pc = "probing" /\ now = 0 /\ attempts = 0 /\ ~Read
  /\ stage = "reading" => Len(read) < Len(Readers)
  /\ stage \in {"waiting", "testing", "ended"} => Read
  /\ stage = "waiting" => pc # "ready"
  /\ Read /\ settings.base_url = Unset => pc # "ready"
  /\ pc # "ready" => \A l \in NeedsApp : issued[l] = Unset /\ outcome[l] \in Waiting

(* What every reading has in common, and what it owes to the environment.   *)
ReadingInv ==
  \A i \in DOMAIN read :
    /\ ~edited => read[i] = load_settings
    /\ read[i].db_enabled => read[i].db_password # ""
    /\ environ["BASE_URL"] # Unset => read[i].base_url = _normalise_url(environ["BASE_URL"])
    /\ environ["TEST_ENV"] # Unset => read[i].is_ci = (environ["TEST_ENV"] = "ci")
    /\ environ["DB_ENABLED"] # Unset => read[i].db_enabled = (environ["DB_ENABLED"] = "true")

(* A failure stands for an expired token.                                   *)
ExpiryInv ==
  \A l \in NeedsApp : outcome[l] = "failed" => issued[l] # Unset /\ ~decode_access_token(l)

SessionInv ==
  /\ SessionTypeOK /\ WaitInv /\ StageInv /\ ReadingInv /\ ExpiryInv
  /\ database => Read /\ collection.db_enabled

(* A reading that does not end the session is well-formed, and what the     *)
(* environment sets decides.                                                *)
LEMMA Reading ==
  ASSUME environ \in Environs, dotenv \in DotEnvs, load_settings # Unset
  PROVE  /\ load_settings \in SettingsType
         /\ load_settings.db_enabled => load_settings.db_password # ""
         /\ environ["BASE_URL"] # Unset =>
              load_settings.base_url = _normalise_url(environ["BASE_URL"])
         /\ environ["TEST_ENV"] # Unset =>
              load_settings.is_ci = (environ["TEST_ENV"] = "ci")
         /\ environ["DB_ENABLED"] # Unset =>
              load_settings.db_enabled = (environ["DB_ENABLED"] = "true")
  <1>1. ~Malformed
    BY DEF load_settings
  <1>2. load_settings = [base_url |-> _normalise_url(setting("BASE_URL")),
                         is_ci |-> setting("TEST_ENV") = "ci",
                         db_enabled |-> setting("DB_ENABLED") = "true",
                         db_password |-> setting("DB_PASSWORD")]
    BY <1>1 DEF load_settings
  <1>3. _normalise_url(setting("BASE_URL")) \in HttpUrls \cup {Unset}
    BY <1>1 DEF Malformed, _normalise_url
  <1>4. setting("DB_PASSWORD") \in Passwords
    BY DEF setting, Passwords
  <1>5. setting("DB_ENABLED") = "true" => setting("DB_PASSWORD") # ""
    BY <1>1 DEF Malformed
  <1>6. \A n : environ[n] # Unset => setting(n) = environ[n]
    BY DEF setting
  <1> HIDE DEF setting
  <1> QED
    BY <1>2, <1>3, <1>4, <1>5, <1>6 DEF SettingsType

(* A session that has not begun satisfies the invariant.                    *)
LEMMA SessionBegins == SessionInit => SessionInv
  <1> SUFFICES ASSUME SessionInit PROVE SessionInv
    OBVIOUS
  <1>1. WaitInv /\ pc = "probing" /\ now = 0 /\ attempts = 0
    BY WaitStarts DEF SessionInit, WaitInit
  <1> USE DEF SessionInit
  <1>2. SessionTypeOK
    <2>1. read \in Seq(SettingsType) /\ minute \in Nat
      OBVIOUS
    <2>2. issued \in [NeedsApp -> Nat \cup {Unset}]
      OBVIOUS
    <2>3. outcome \in [Layers -> Outcomes]
      BY DEF Outcomes
    <2> QED
      BY <2>1, <2>2, <2>3 DEF SessionTypeOK
  <1>3. Len(read) = 0 /\ DOMAIN read = {} /\ ~Read
    BY DEF Read, Readers
  <1>4. StageInv
    BY <1>1, <1>3 DEF StageInv, Readers, NeedsApp, Waiting
  <1>5. ReadingInv
    BY <1>3 DEF ReadingInv
  <1>6. ExpiryInv
    BY DEF ExpiryInv, NeedsApp
  <1> QED
    BY <1>1, <1>2, <1>4, <1>5, <1>6 DEF SessionInv

(* .env is saved: the readings so far may no longer agree with those to     *)
(* come.                                                                    *)
LEMMA EditStep == ASSUME SessionInv, EditDotEnv PROVE SessionInv'
  <1> USE DEF EditDotEnv, waitVars, testVars, SessionInv
  <1>1. SessionTypeOK'
    BY DEF SessionTypeOK
  <1>2. WaitInv'
    BY DEF WaitInv, WaitTypeOK, Overrun, LastProbeFailed, NoTimeLeft, Spaced, OutOfTime
  <1>3. StageInv'
    BY DEF StageInv, Read, settings
  <1>4. ReadingInv'
    <2>1. read' = read /\ environ' = environ /\ edited' = (read # <<>>)
      OBVIOUS
    <2>2. CASE read = <<>>
      <3>1. DOMAIN read = {}
        BY <2>2
      <3> QED
        BY <2>1, <3>1 DEF ReadingInv
    <2>3. CASE read # <<>>
      <3>1. edited'
        BY <2>1, <2>3
      <3>2. ASSUME NEW i \in DOMAIN read
            PROVE  /\ read[i].db_enabled => read[i].db_password # ""
                   /\ environ["BASE_URL"] # Unset =>
                        read[i].base_url = _normalise_url(environ["BASE_URL"])
                   /\ environ["TEST_ENV"] # Unset =>
                        read[i].is_ci = (environ["TEST_ENV"] = "ci")
                   /\ environ["DB_ENABLED"] # Unset =>
                        read[i].db_enabled = (environ["DB_ENABLED"] = "true")
        BY DEF ReadingInv
      <3> QED
        BY <2>1, <3>1, <3>2 DEF ReadingInv, _normalise_url
    <2> QED
      BY <2>2, <2>3
  <1>5. ExpiryInv'
    BY DEF ExpiryInv, decode_access_token
  <1> QED
    BY <1>1, <1>2, <1>3, <1>4, <1>5 DEF Read, collection

(* A reading is an environment and a file as they are now.                  *)
LEMMA LoadStep == ASSUME SessionInv, Load PROVE SessionInv'
  <1> USE DEF SessionInv
  <1>1. /\ stage = "reading" /\ pc = "probing" /\ now = 0 /\ attempts = 0
        /\ Len(read) < 4 /\ ~Read /\ ~database
        /\ UNCHANGED <<pc, now, attempts, environ, dotenv, edited,
                       minute, issued, outcome, database>>
    BY DEF Load, StageInv, Readers, testVars
  <1>2. SessionTypeOK /\ read \in Seq(SettingsType) /\ Len(read) \in Nat
    BY DEF SessionTypeOK
  <1>3. ExpiryInv'
    BY <1>1 DEF ExpiryInv, decode_access_token
  <1>4. CASE load_settings = Unset
    <2>1. stage' = "aborted" /\ UNCHANGED <<upAt, read>>
      BY <1>4 DEF Load
    <2>2. SessionTypeOK'
      BY <1>1, <2>1 DEF SessionTypeOK
    <2>3. WaitInv'
      BY <1>1, <2>1
      DEF WaitInv, WaitTypeOK, Overrun, LastProbeFailed, NoTimeLeft, Spaced, OutOfTime
    <2>4. StageInv' /\ Read' = Read
      BY <1>1, <2>1 DEF StageInv, Read, settings
    <2>5. load_settings' = load_settings
      BY <1>1 DEF load_settings, Malformed, setting, _normalise_url
    <2>6. ReadingInv'
      BY <1>1, <2>1, <2>5 DEF ReadingInv, _normalise_url
    <2> QED
      BY <1>1, <1>3, <2>2, <2>3, <2>4, <2>6
  <1>5. CASE load_settings # Unset
    <2>1. PICK s \in SettingsType : s = load_settings
      BY <1>2, <1>5, Reading DEF SessionTypeOK
    <2>2. /\ read' = Append(read, s)
          /\ stage' = IF Len(read') = 4 THEN "testing" ELSE "reading"
          /\ upAt' \in {upAt, Never}
      BY <1>5, <2>1 DEF Load, Readers
    <2>3. /\ read' \in Seq(SettingsType) /\ Len(read') = Len(read) + 1
          /\ DOMAIN read' = 1..(Len(read) + 1) /\ DOMAIN read = 1..Len(read)
          /\ read'[Len(read) + 1] = s /\ \A i \in DOMAIN read : read'[i] = read[i]
      BY <1>2, <2>2
    <2>4. SessionTypeOK'
      BY <1>1, <1>2, <2>2, <2>3 DEF SessionTypeOK
    <2>5. WaitInv'
      BY <1>1, <2>2, WaitAssumption
      DEF WaitInv, WaitTypeOK, Overrun, LastProbeFailed, NoTimeLeft, Spaced, OutOfTime, Never
    <2>6. StageInv'
      BY <1>1, <1>2, <2>2, <2>3 DEF StageInv, Read, Readers
    <2>7. load_settings' = load_settings
      BY <1>1 DEF load_settings, Malformed, setting, _normalise_url
    <2>8. ASSUME NEW i \in DOMAIN read'
          PROVE  /\ ~edited => read'[i] = load_settings
                 /\ read'[i].db_enabled => read'[i].db_password # ""
                 /\ environ["BASE_URL"] # Unset =>
                      read'[i].base_url = _normalise_url(environ["BASE_URL"])
                 /\ environ["TEST_ENV"] # Unset => read'[i].is_ci = (environ["TEST_ENV"] = "ci")
                 /\ environ["DB_ENABLED"] # Unset =>
                      read'[i].db_enabled = (environ["DB_ENABLED"] = "true")
      <3>1. CASE i = Len(read) + 1
        BY <1>2, <1>5, <2>1, <2>3, <3>1, Reading DEF SessionTypeOK
      <3>2. CASE i # Len(read) + 1
        <4>1. i \in DOMAIN read /\ read'[i] = read[i]
          BY <1>2, <2>3, <3>2
        <4> QED
          BY <4>1 DEF ReadingInv
      <3> QED
        BY <3>1, <3>2
    <2>9. ReadingInv'
      BY <1>1, <2>7, <2>8 DEF ReadingInv, _normalise_url
    <2> QED
      BY <1>1, <1>3, <2>4, <2>5, <2>6, <2>9
  <1> QED
    BY <1>4, <1>5

(* The wait of a session is the wait by itself; without a URL no probe of   *)
(* it is answered.                                                          *)
LEMMA AppReadyStep == ASSUME SessionInv, app_ready PROVE SessionInv'
  <1> USE DEF SessionInv
  <1>1. stage = "waiting" /\ Read /\ pc # "ready" /\ WaitNext
    BY DEF app_ready, StageInv, WaitNext
  <1>2. /\ stage' \in {"testing", "waiting"} /\ (stage' = "waiting" => pc' # "ready")
        /\ UNCHANGED <<environ, dotenv, edited, read, minute, issued, database>>
    BY <1>1 DEF app_ready
  <1>3. WaitInv'
    BY <1>1, WaitStep
  <1>4. /\ outcome' \in [Layers -> Outcomes]
        /\ \A l \in NeedsApp : outcome[l] \in Waiting /\ outcome'[l] \in Waiting
    BY <1>1 DEF app_ready, StageInv, SessionTypeOK, Outcomes, Waiting, NeedsApp
  <1>5. SessionTypeOK'
    BY <1>1, <1>2, <1>4 DEF SessionTypeOK
  <1>6. Read' /\ settings' = settings /\ collection' = collection
    BY <1>1, <1>2 DEF Read, settings, collection
  <1>7. pc' = "ready" => settings.base_url # Unset
    BY <1>1 DEF app_ready, Probe, GiveUp, Sleep
  <1>8. StageInv'
    BY <1>1, <1>2, <1>4, <1>6, <1>7 DEF StageInv
  <1>9. load_settings' = load_settings
    BY <1>2 DEF load_settings, Malformed, setting, _normalise_url
  <1>10. ReadingInv'
    BY <1>2, <1>9 DEF ReadingInv, _normalise_url
  <1>11. ExpiryInv'
    BY <1>4 DEF ExpiryInv, Waiting
  <1> QED
    BY <1>2, <1>3, <1>5, <1>6, <1>8, <1>10, <1>11

(* A test that needs the service begins the wait, gets its failure, or, a   *)
(* retry in CI, begins another: until then no layer had the service.        *)
LEMMA SetupStep ==
  ASSUME SessionInv, NEW l \in NeedsApp, _require_application(l) \/ FailSetup(l) \/ RetrySetup(l)
  PROVE  /\ SessionInv'
         /\ \A k \in NeedsApp : outcome[k] # "failed"
  <1> USE DEF SessionInv
  <1>1. /\ stage = "testing" /\ Read /\ pc \in {"probing", "gave_up"} /\ SessionTypeOK
        /\ stage' \in {"testing", "waiting"}
        /\ UNCHANGED <<environ, dotenv, edited, read, minute, issued, database>>
    BY DEF _require_application, FailSetup, RetrySetup, StageInv
  <1>2. UNCHANGED waitVars \/ WaitAgain
    BY DEF _require_application, FailSetup, RetrySetup
  <1>3. WaitInv' /\ pc' # "ready"
    <2>1. CASE UNCHANGED waitVars
      BY <1>1, <2>1
      DEF waitVars, WaitInv, WaitTypeOK, Overrun, LastProbeFailed, NoTimeLeft, Spaced, OutOfTime
    <2>2. CASE WaitAgain
      <3>1. pc' = "probing" /\ now' = 0 /\ attempts' = 0 /\ upAt' \in Nat
        BY <2>2, WaitAssumption DEF WaitAgain, Never
      <3> QED
        BY <3>1, WaitAssumption
        DEF WaitInv, WaitTypeOK, Overrun, LastProbeFailed, NoTimeLeft, Spaced
    <2> QED
      BY <1>2, <2>1, <2>2
  <1>4. /\ \A k \in NeedsApp : issued[k] = Unset /\ outcome[k] \in Waiting
        /\ \A k \in NeedsApp : outcome'[k] \in Waiting
        /\ outcome' \in [Layers -> Outcomes]
    <2>1. PICK o \in {"setup", "retry", "error"} : outcome' = [outcome EXCEPT ![l] = o]
      BY DEF _require_application, FailSetup, RetrySetup
    <2> QED
      BY <1>1, <2>1 DEF StageInv, SessionTypeOK, Outcomes, Waiting, NeedsApp
  <1>5. SessionTypeOK'
    BY <1>1, <1>4 DEF SessionTypeOK
  <1>6. Read' /\ settings' = settings /\ collection' = collection
    BY <1>1 DEF Read, settings, collection
  <1>7. StageInv'
    BY <1>1, <1>3, <1>4, <1>6 DEF StageInv
  <1>8. load_settings' = load_settings
    BY <1>1 DEF load_settings, Malformed, setting, _normalise_url
  <1>9. ReadingInv'
    BY <1>1, <1>8 DEF ReadingInv, _normalise_url
  <1>10. ExpiryInv' /\ \A k \in NeedsApp : outcome[k] # "failed"
    BY <1>4 DEF ExpiryInv, Waiting
  <1> QED
    BY <1>1, <1>3, <1>5, <1>6, <1>7, <1>9, <1>10

(* A login issues a token where there was none; a test fails for an expired *)
(* token only; a minute more makes no expired token valid.                  *)
LEMMA TestingStep ==
  ASSUME SessionInv,
         \/ \E l \in NeedsApp : LogIn(l) \/ RunTest(l) \/ Retry(l)
         \/ RunFrameworkTest \/ RunDatabaseTest \/ MinutePasses \/ End
  PROVE  /\ SessionInv' /\ pc' = pc
         /\ \A l \in NeedsApp : outcome[l] = "failed" => outcome'[l] = "failed"
  <1> USE DEF SessionInv
  <1>1. /\ stage = "testing" /\ stage' \in {"testing", "ended"}
        /\ UNCHANGED <<pc, now, attempts, upAt, environ, dotenv, edited, read>>
        /\ minute' \in {minute, minute + 1}
        /\ database' # database => database' = TRUE /\ collection.db_enabled
    BY DEF LogIn, RunTest, Retry, RunFrameworkTest, RunDatabaseTest, MinutePasses, End,
           waitVars, testVars
  <1>2. Read /\ SessionTypeOK
    BY <1>1 DEF StageInv
  <1>3. WaitInv'
    BY <1>1 DEF WaitInv, WaitTypeOK, Overrun, LastProbeFailed, NoTimeLeft, Spaced, OutOfTime
  <1>4. Read' /\ settings' = settings /\ collection' = collection
    BY <1>1, <1>2 DEF Read, settings, collection
  <1>5. load_settings' = load_settings
    BY <1>1 DEF load_settings, Malformed, setting, _normalise_url
  <1>6. ReadingInv'
    BY <1>1, <1>5 DEF ReadingInv, _normalise_url
  <1>7. /\ issued' \in [NeedsApp -> Nat \cup {Unset}]
        /\ outcome' \in [Layers -> Outcomes]
        /\ ExpiryInv'
        /\ pc # "ready" => \A l \in NeedsApp : issued'[l] = issued[l] /\ outcome'[l] = outcome[l]
        /\ \A l \in NeedsApp : outcome[l] = "failed" => outcome'[l] = "failed"
    <2> USE DEF SessionTypeOK, ExpiryInv, decode_access_token, Outcomes, NeedsApp, Layers
    <2>1. ASSUME NEW l \in NeedsApp, LogIn(l) PROVE <1>7!:
      BY <1>2, <2>1 DEF LogIn
    <2>2. ASSUME NEW l \in NeedsApp, RunTest(l) PROVE <1>7!:
      BY <1>2, <2>2 DEF RunTest
    <2>3. ASSUME NEW l \in NeedsApp, Retry(l) PROVE <1>7!:
      <3>1. outcome[l] = "failed" /\ outcome' = outcome /\ UNCHANGED <<minute, issued>>
        BY <1>2, <2>3 DEF Retry
      <3> QED
        BY <1>2, <3>1
    <2>4. CASE RunDatabaseTest \/ End
      BY <1>2, <2>4 DEF RunDatabaseTest, End, testVars
    <2>5. CASE RunFrameworkTest
      BY <1>2, <2>5 DEF RunFrameworkTest
    <2>6. CASE MinutePasses
      BY <1>2, <2>6, SessionAssumption DEF MinutePasses
    <2> QED
      BY <2>1, <2>2, <2>3, <2>4, <2>5, <2>6
  <1>8. StageInv'
    BY <1>1, <1>2, <1>4, <1>7 DEF StageInv
  <1>9. SessionTypeOK'
    <2>1. minute' \in Nat
      BY <1>1, <1>2 DEF SessionTypeOK
    <2>2. database' \in BOOLEAN
      BY <1>1, <1>2, Zenon DEF SessionTypeOK
    <2>3. stage' \in {"reading", "waiting", "testing", "ended", "aborted"}
      BY <1>1
    <2> QED
      BY <1>1, <1>2, <1>7, <2>1, <2>2, <2>3 DEF SessionTypeOK
  <1> QED
    BY <1>1, <1>2, <1>3, <1>4, <1>6, <1>7, <1>8, <1>9

(* Every step of a session keeps its invariant.                             *)
LEMMA SessionStep == SessionInv /\ [SessionNext]_sessionVars => SessionInv'
  <1>1. ASSUME SessionInv, SessionNext PROVE SessionInv'
    BY <1>1, EditStep, LoadStep, AppReadyStep, SetupStep, TestingStep DEF SessionNext
  <1>2. ASSUME SessionInv, UNCHANGED sessionVars PROVE SessionInv'
    <2> USE <1>2 DEF sessionVars, waitVars, SessionInv
    <2>1. load_settings' = load_settings
      BY DEF load_settings, Malformed, setting, _normalise_url
    <2>2. ReadingInv'
      BY <2>1 DEF ReadingInv, _normalise_url
    <2>3. WaitInv'
      BY DEF WaitInv, WaitTypeOK, Overrun, LastProbeFailed, NoTimeLeft, Spaced, OutOfTime
    <2>4. SessionTypeOK' /\ StageInv' /\ Read' = Read
      BY DEF SessionTypeOK, StageInv, Read, settings
    <2>5. ExpiryInv'
      BY DEF ExpiryInv, decode_access_token
    <2> QED
      BY <2>2, <2>3, <2>4, <2>5 DEF collection
  <1> QED
    BY <1>1, <1>2

(* The invariant of the session, of which the theorems below are corollaries. *)
THEOREM SessionInvariance == SessionSpec => []SessionInv
  BY SessionBegins, SessionStep, PTL DEF SessionSpec

(* In a session, too, each wait, that of a retry included, overruns by one  *)
(* probe and gives up on no service that was up in time: one without a URL  *)
(* never is.                                                                *)
THEOREM SessionWaits == SessionSpec => [](OverrunIsOneProbe /\ PatienceIsUsed)
<1>1. SessionInv => OverrunIsOneProbe /\ PatienceIsUsed
  BY WaitAssumption
  DEF SessionInv, WaitInv, WaitTypeOK, Overrun, LastProbeFailed, NoTimeLeft, OutOfTime,
      OverrunIsOneProbe, PatienceIsUsed
<1> QED BY <1>1, SessionInvariance, PTL

(* Once all are done, the last two readings are among the settings.         *)
LEMMA LastReadings ==
  ASSUME SessionInv, Read
  PROVE  /\ 3 \in DOMAIN read /\ 4 \in DOMAIN read
         /\ collection \in SettingsType /\ settings \in SettingsType
  <1>1. read \in Seq(SettingsType)
    BY DEF SessionInv, SessionTypeOK
  <1>2. Len(read) = 4
    BY DEF Read, Readers
  <1>3. DOMAIN read = 1..Len(read) /\ \A i \in 1..Len(read) : read[i] \in SettingsType
    BY <1>1
  <1>4. 3 \in 1..Len(read) /\ 4 \in 1..Len(read)
    BY <1>2
  <1> QED
    BY <1>3, <1>4 DEF collection, settings

(* Every report names the target its tests were run against unless .env was *)
(* saved between the readings, and what the environment sets cannot drift.  *)
THEOREM ReportsNameTheTarget == SessionSpec => []ReportNamesTheTarget
<1>1. SessionInv => ReportNamesTheTarget
  <2> SUFFICES ASSUME SessionInv, Read, NEW i \in DOMAIN read
               PROVE  /\ ~edited => read[i] = settings
                      /\ environ["BASE_URL"] # Unset => read[i].base_url = settings.base_url
                      /\ environ["TEST_ENV"] # Unset => read[i].is_ci = settings.is_ci
                      /\ database => read[i].db_enabled
                                       \/ (edited /\ environ["DB_ENABLED"] = Unset)
    BY DEF ReportNamesTheTarget
  <2>1. ReadingInv /\ (database => collection.db_enabled)
    BY DEF SessionInv
  <2>2. ~edited => read[i] = load_settings /\ settings = load_settings /\ collection = load_settings
    BY <2>1, LastReadings DEF ReadingInv, settings, collection
  <2>3. environ["BASE_URL"] # Unset => read[i].base_url = settings.base_url
    BY <2>1, LastReadings DEF ReadingInv, settings
  <2>4. environ["TEST_ENV"] # Unset => read[i].is_ci = settings.is_ci
    BY <2>1, LastReadings DEF ReadingInv, settings
  <2>5. environ["DB_ENABLED"] # Unset => read[i].db_enabled = collection.db_enabled
    BY <2>1, LastReadings DEF ReadingInv, collection
  <2> QED
    BY <2>1, <2>2, <2>3, <2>4, <2>5
<1> QED BY <1>1, SessionInvariance, PTL

(* A malformed configuration is never probed; with a blank URL nobody is    *)
(* logged in and every test that needs the service ends in its setup,       *)
(* however often a retry waits again; and a test that reads the database    *)
(* has its password.                                                        *)
THEOREM MisconfigurationsFailFast == SessionSpec => []MisconfigurationFailsFast
<1>1. SessionInv => MisconfigurationFailsFast
  <2> SUFFICES ASSUME SessionInv PROVE MisconfigurationFailsFast
    OBVIOUS
  <2> USE DEF SessionInv
  <2>1. attempts > 0 => Read
    BY DEF StageInv, SessionTypeOK
  <2>2. Read => settings.base_url \in HttpUrls \cup {Unset}
    BY LastReadings DEF SettingsType
  <2>3. Read /\ settings.base_url = Unset =>
          \A l \in NeedsApp : issued[l] = Unset /\ outcome[l] \in Waiting
    BY DEF StageInv
  <2>4. database => settings.db_password # "" \/ edited
    <3>1. CASE database /\ ~edited
      <4>1. settings = load_settings /\ collection = load_settings /\ collection.db_enabled
        BY <3>1, LastReadings DEF ReadingInv, settings, collection
      <4> QED
        BY <3>1, <4>1, LastReadings DEF ReadingInv, settings
    <3> QED
      BY <3>1
  <2> QED
    BY <2>1, <2>2, <2>3, <2>4 DEF MisconfigurationFailsFast, Waiting
<1> QED BY <1>1, SessionInvariance, PTL

(* Whatever the lifetime of a token and however long the session, a test    *)
(* that failed for an expired token never passes on its retry.              *)
THEOREM ExpiriesAreNotFlaky == SessionSpec => ExpiryIsNotFlaky
<1>1. SessionInv /\ [SessionNext]_sessionVars =>
        [\A l \in NeedsApp : outcome[l] = "failed" => outcome'[l] = "failed"]_sessionVars
  <2>1. ASSUME SessionInv, SessionNext
        PROVE  \A l \in NeedsApp : outcome[l] = "failed" => outcome'[l] = "failed"
    <3>1. CASE EditDotEnv \/ Load
      BY <3>1 DEF EditDotEnv, Load, testVars
    <3>2. CASE app_ready
      BY <2>1, <3>2 DEF app_ready, NeedsApp
    <3> QED
      BY <2>1, <3>1, <3>2, SetupStep, TestingStep DEF SessionNext
  <2> QED
    BY <2>1
<1> QED BY <1>1, SessionInvariance, PTL DEF SessionSpec, ExpiryIsNotFlaky

(* For every budget: a wait that failed stands for the rest of the session, *)
(* so that outside CI the budget is spent once; in CI the retry of a        *)
(* browser test spends it again.                                            *)
THEOREM BudgetSpentOnce == SessionSpec => PatienceIsSpentOnce
<1> DEFINE Stands == pc = "gave_up" =>
                       pc' = "gave_up" \/ (collection.is_ci /\ outcome'["ui"] = "retry")
<1>1. SessionInv /\ [SessionNext]_sessionVars => [Stands]_sessionVars
  <2>1. ASSUME SessionInv, SessionNext, pc = "gave_up"
        PROVE  pc' = "gave_up" \/ (collection.is_ci /\ outcome'["ui"] = "retry")
    <3>1. CASE EditDotEnv \/ Load
      BY <2>1, <3>1 DEF EditDotEnv, Load, waitVars
    <3>2. CASE app_ready
      BY <2>1, <3>2 DEF app_ready, Probe, GiveUp, Sleep
    <3>3. ASSUME NEW l \in NeedsApp, _require_application(l) \/ FailSetup(l)
          PROVE  pc' = "gave_up"
      BY <2>1, <3>3 DEF _require_application, FailSetup, waitVars
    <3>4. ASSUME NEW l \in NeedsApp, RetrySetup(l)
          PROVE  collection.is_ci /\ outcome'["ui"] = "retry"
      <4>1. outcome \in [Layers -> Outcomes]
        BY <2>1 DEF SessionInv, SessionTypeOK
      <4>2. l = "ui" /\ collection.is_ci /\ outcome' = [outcome EXCEPT ![l] = "retry"]
        BY <3>4 DEF RetrySetup
      <4> QED
        BY <4>1, <4>2 DEF Layers
    <3> QED
      BY <2>1, <3>1, <3>2, <3>3, <3>4, TestingStep DEF SessionNext
  <2> QED
    BY <2>1
<1> QED BY <1>1, SessionInvariance, PTL DEF SessionSpec, PatienceIsSpentOnce
=============================================================================
