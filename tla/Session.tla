------------------------------- MODULE Session -------------------------------
(***************************************************************************)
(* A test session from its settings to its last request.  The settings     *)
(* (config/settings.py) are built from the environment and the .env file   *)
(* four times: for the report, the header, the collection and the fixture  *)
(* the tests use (tests/conftest.py).  The first test that needs the       *)
(* service waits for it (Readiness), and what became of the wait is kept   *)
(* for the session: a failed one fails the setup of every such test, until *)
(* the retry of a browser test in CI forgets it and waits anew.  Once the  *)
(* service is ready each layer logs in once; its tests send that token for *)
(* as long as they take, and so does the retry of a test.                  *)
(***************************************************************************)
EXTENDS Readiness, Sequences

CONSTANTS
  Names,                 \* the variables the model tells apart
  Environs, DotEnvs,     \* what the environment and .env can hold
  HttpUrls,              \* the URLs with a scheme
  Lifetime,              \* minutes a token is accepted for
  MaxMinutes,            \* bound: the minutes a session lasts
  Unset                  \* a variable without a value; no URL; no token

ASSUME SessionAssumption ==
  /\ {"BASE_URL", "DB_ENABLED", "DB_PASSWORD", "TEST_ENV"} \subseteq Names
  /\ "http://localhost:8000" \in HttpUrls
  /\ \A file \in Environs \cup DotEnvs : DOMAIN file = Names
  /\ Lifetime \in Nat \ {0} /\ MaxMinutes \in Nat

VARIABLES
  environ, dotenv,
  edited,        \* has .env been saved since the first reading
  stage,         \* "reading", "testing", "waiting" for the service, "ended", "aborted"
  read,          \* the settings, in the order of Readers
  minute,        \* of the session, once the service is ready
  issued,        \* per layer that needs the service, the minute of its login
  outcome,       \* per layer, what its last test came to
  database       \* did a test that reads the database run

sessionVars == <<waitVars, environ, dotenv, edited, stage, read, minute, issued, outcome,
                 database>>
testVars == <<minute, issued, outcome, database>>

Layers == {"api", "framework", "ui"}
NeedsApp == Layers \ {"framework"}

\* Under xdist the last two are a worker's own: the model follows one worker.  (The
\* summary's reading, after the last test, is for the seed.)
Readers == <<"allure", "header", "collection", "fixture">>

Defaults == [n \in Names |->
  CASE n = "BASE_URL" -> "http://localhost:8000"
    [] n = "DB_ENABLED" -> "false"
    [] n = "TEST_ENV" -> "local"
    [] OTHER -> ""]

\* Mutant of setting: the file has the last word.
setting_from_file_first(name) ==
  IF dotenv[name] # Unset THEN dotenv[name]
  ELSE IF environ[name] # Unset THEN environ[name] ELSE Defaults[name]

\* A variable set to the empty string is set.
setting(name) ==
  IF environ[name] # Unset THEN environ[name]
  ELSE IF dotenv[name] # Unset THEN dotenv[name] ELSE Defaults[name]

_normalise_url(value) == IF value = "" THEN Unset ELSE value

Malformed ==
  \/ setting("BASE_URL") \notin HttpUrls \cup {""}
  \/ setting("DB_ENABLED") = "true" /\ setting("DB_PASSWORD") = ""

\* Mutant of load_settings: validated at the point of use.
load_settings_unchecked ==
  [base_url |-> _normalise_url(setting("BASE_URL")), is_ci |-> setting("TEST_ENV") = "ci",
   db_enabled |-> setting("DB_ENABLED") = "true", db_password |-> setting("DB_PASSWORD")]

load_settings ==
  IF Malformed THEN Unset
  ELSE [base_url |-> _normalise_url(setting("BASE_URL")),
        is_ci |-> setting("TEST_ENV") = "ci",
        db_enabled |-> setting("DB_ENABLED") = "true",
        db_password |-> setting("DB_PASSWORD")]

collection == read[3]
settings == read[4]

Never == Timeout + MaxLate + MaxProbe + 1   \* no wait lasts as long

SessionInit ==
  /\ WaitInit
  /\ environ \in Environs /\ dotenv \in DotEnvs
  /\ edited = FALSE /\ stage = "reading" /\ read = <<>> /\ minute = 0
  /\ issued = [l \in NeedsApp |-> Unset]
  /\ outcome = [l \in Layers |-> "none"]
  /\ database = FALSE

-----------------------------------------------------------------------------
EditDotEnv ==
  /\ stage = "reading" /\ ~edited
  /\ dotenv' \in DotEnvs
  /\ edited' = (read # <<>>)
  /\ UNCHANGED <<waitVars, environ, stage, read, testVars>>

\* A validation error ends pytest there, and in the fixture it fails every test.
\* Without a URL no service is ever up.
Load ==
  /\ stage = "reading"
  /\ IF load_settings = Unset
     THEN stage' = "aborted" /\ UNCHANGED <<upAt, read>>
     ELSE /\ read' = Append(read, load_settings)
          /\ stage' = IF Len(read') = Len(Readers) THEN "testing" ELSE "reading"
          /\ upAt' = IF stage' = "testing" /\ load_settings.base_url = Unset THEN Never ELSE upAt
  /\ UNCHANGED <<pc, now, attempts, environ, dotenv, edited, testVars>>

\* A wait forgotten and begun again: the service is up by now, or still takes its time.
WaitAgain ==
  /\ pc' = "probing" /\ now' = 0 /\ attempts' = 0
  /\ upAt' \in IF settings.base_url = Unset THEN {Never}
               ELSE IF upAt <= now THEN {0} ELSE 0..LatestUp

\* Mutant of _require_application: app_ready without its session scope.
require_application_per_test(l) ==
  /\ stage = "testing"
  /\ IF pc = "gave_up" THEN WaitAgain ELSE pc = "probing" /\ UNCHANGED waitVars
  /\ stage' = "waiting"
  /\ outcome' = [outcome EXCEPT ![l] = "setup"]
  /\ UNCHANGED <<environ, dotenv, edited, read, minute, issued, database>>

\* The first test that needs the service has it waited for ...
_require_application(l) ==
  /\ stage = "testing" /\ pc = "probing"
  /\ stage' = "waiting"
  /\ outcome' = [outcome EXCEPT ![l] = "setup"]
  /\ UNCHANGED <<waitVars, environ, dotenv, edited, read, minute, issued, database>>

\* ... (without a URL httpx raises UnsupportedProtocol, an HTTPError like any other: to
\* the probe it is a service that has not started yet) ...
app_ready ==
  /\ stage = "waiting"
  /\ \/ \E took \in 0..MaxProbe, ready \in BOOLEAN :
          (ready => settings.base_url # Unset) /\ Probe(took, ready)
     \/ GiveUp
     \/ \E late \in 0..MaxLate : Sleep(late)
  /\ stage' = IF pc' \in {"ready", "gave_up"} THEN "testing" ELSE stage
  /\ outcome' = [l \in Layers |->
       IF pc' = "gave_up" /\ outcome[l] \in {"setup", "retry"} THEN "error" ELSE outcome[l]]
  /\ UNCHANGED <<environ, dotenv, edited, read, minute, issued, database>>

\* ... and the others get what it came to.
FailSetup(l) ==
  /\ stage = "testing" /\ pc = "gave_up"
  /\ outcome' = [outcome EXCEPT ![l] = "error"]
  /\ UNCHANGED <<waitVars, environ, dotenv, edited, stage, read, minute, issued, database>>

\* pytest-rerunfailures forgets the failed fixtures of the test it runs again.
RetrySetup(l) ==
  /\ stage = "testing" /\ pc = "gave_up" /\ outcome[l] = "error"
  /\ l = "ui" /\ collection.is_ci
  /\ WaitAgain
  /\ stage' = "waiting"
  /\ outcome' = [outcome EXCEPT ![l] = "retry"]
  /\ UNCHANGED <<environ, dotenv, edited, read, minute, issued, database>>

-----------------------------------------------------------------------------
\* exp is the minute of the login plus the lifetime; a token is refused from then on.
decode_access_token(l) == minute < issued[l] + Lifetime

\* role_tokens for the clients of the API, storage_states for the browsers.
LogIn(l) ==
  /\ stage = "testing" /\ pc = "ready" /\ issued[l] = Unset
  /\ issued' = [issued EXCEPT ![l] = minute]
  /\ UNCHANGED <<waitVars, environ, dotenv, edited, stage, read, minute, outcome, database>>

RunTest(l) ==
  /\ stage = "testing" /\ pc = "ready" /\ issued[l] # Unset
  /\ outcome' = [outcome EXCEPT ![l] =
       IF ~decode_access_token(l) THEN "failed"
       ELSE IF outcome[l] = "retry" THEN "flaky" ELSE "passed"]
  /\ UNCHANGED <<waitVars, environ, dotenv, edited, stage, read, minute, issued, database>>

\* The framework's own tests need nothing but their process.
RunFrameworkTest ==
  /\ stage = "testing"
  /\ outcome' = [outcome EXCEPT !["framework"] = "passed"]
  /\ UNCHANGED <<waitVars, environ, dotenv, edited, stage, read, minute, issued, database>>

\* Mutant of Retry: the fixtures are set up again for it, logins included.
retry_logged_in(l) ==
  /\ stage = "testing" /\ outcome[l] = "failed"
  /\ l = "ui" /\ collection.is_ci
  /\ outcome' = [outcome EXCEPT ![l] = "flaky"]
  /\ issued' = [issued EXCEPT ![l] = minute]
  /\ UNCHANGED <<waitVars, environ, dotenv, edited, stage, read, minute, database>>

\* Fixtures of session scope outlive the attempt.
Retry(l) ==
  /\ stage = "testing" /\ outcome[l] = "failed"
  /\ l = "ui" /\ collection.is_ci
  /\ outcome' = [outcome EXCEPT ![l] = IF decode_access_token(l) THEN "flaky" ELSE "failed"]
  /\ UNCHANGED <<waitVars, environ, dotenv, edited, stage, read, minute, issued, database>>

\* The skip was decided at collection, the connection takes the fixture's settings.
RunDatabaseTest ==
  /\ stage = "testing" /\ pc = "ready" /\ collection.db_enabled
  /\ database' = TRUE
  /\ UNCHANGED <<waitVars, environ, dotenv, edited, stage, read, minute, issued, outcome>>

MinutePasses ==
  /\ stage = "testing" /\ minute < MaxMinutes
  /\ minute' = minute + 1
  /\ UNCHANGED <<waitVars, environ, dotenv, edited, stage, read, issued, outcome, database>>

End ==
  /\ stage = "testing"
  /\ stage' = "ended"
  /\ UNCHANGED <<waitVars, environ, dotenv, edited, read, testVars>>

SessionNext ==
  \/ EditDotEnv
  \/ Load
  \/ app_ready
  \/ \E l \in NeedsApp :
       \/ _require_application(l) \/ FailSetup(l) \/ RetrySetup(l)
       \/ LogIn(l) \/ RunTest(l) \/ Retry(l)
  \/ RunFrameworkTest
  \/ RunDatabaseTest
  \/ MinutePasses
  \/ End

\* pytest's one thread takes its steps; nobody has to edit a file.
SessionSpec ==
  SessionInit /\ [][SessionNext]_sessionVars /\ WF_sessionVars(Load \/ app_ready)

-----------------------------------------------------------------------------
Read == Len(read) = Len(Readers)

(* What the report and the header name is what the tests were run against,  *)
(* unless .env was saved between the readings; what the environment sets,   *)
(* as CI does, cannot drift even then; and a header that says the database  *)
(* is disabled stands over no run that used it.                             *)
ReportNamesTheTarget ==
  Read => \A i \in DOMAIN read :
    /\ ~edited => read[i] = settings
    /\ environ["BASE_URL"] # Unset => read[i].base_url = settings.base_url
    /\ environ["TEST_ENV"] # Unset => read[i].is_ci = settings.is_ci
    /\ database => read[i].db_enabled \/ (edited /\ environ["DB_ENABLED"] = Unset)

(* A malformed configuration never gets as far as a probe; a blank URL logs *)
(* nobody in, and no test that needs the service passes, fails or is called *)
(* flaky for it: each ends in its setup; and a test that reads the database *)
(* has a password to connect with, unless .env was saved between the        *)
(* reading that collected it and the one it connects with.                  *)
MisconfigurationFailsFast ==
  /\ attempts > 0 => settings.base_url \in HttpUrls \cup {Unset}
  /\ Read /\ settings.base_url = Unset =>
       \A l \in NeedsApp : issued[l] = Unset /\ outcome[l] \in {"none", "setup", "retry", "error"}
  /\ database => settings.db_password # "" \/ edited

(* A wait that failed is not repeated for the next test: only the retry of  *)
(* a browser test in CI spends the budget again.                            *)
PatienceIsSpentOnce ==
  [][pc = "gave_up" =>
       pc' = "gave_up" \/ (collection.is_ci /\ outcome'["ui"] = "retry")]_sessionVars

(* A token that has expired fails every test of its layer from then on: no  *)
(* retry passes, so an overlong session is never reported as flaky tests.   *)
ExpiryIsNotFlaky ==
  [][\A l \in NeedsApp : outcome[l] = "failed" => outcome'[l] = "failed"]_sessionVars

(* Whatever is configured and whatever the service does, the session comes  *)
(* to its tests or to an end, and from every wait back to its tests.        *)
SessionGoesOn == []<>(stage \notin {"reading", "waiting"})
=============================================================================
