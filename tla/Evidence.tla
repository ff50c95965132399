------------------------------ MODULE Evidence ------------------------------
(***************************************************************************)
(* The evidence of a parallel run: the xdist workers of one pytest session *)
(* share one run directory (core/artifacts.py).  Every test opens its log  *)
(* in a directory of its own, the fixtures' teardowns keep or discard what *)
(* was gathered (tests/conftest.py, tests/_fixtures/browser.py), a browser *)
(* test may be retried (core/flakiness.py), and every worker that runs out *)
(* of tests prunes the empty directories of all of them.                   *)
(***************************************************************************)
EXTENDS Naturals, FiniteSets

CONSTANTS Workers, Tests, BrowserTests, DbTests, IsCi

ASSUME EvidenceAssumption ==
  /\ Workers # {}
  /\ BrowserTests \subseteq Tests /\ DbTests \subseteq Tests
  /\ BrowserTests \cap DbTests = {}
  /\ IsCi \in BOOLEAN

VARIABLES
  skips,      \* tests the collection marked to be skipped
  todo,       \* tests not handed to a worker yet
  worker,     \* what each worker process is doing
  attempts,   \* how often each test was started
  dirs,       \* the per-test directories in the run directory
  files,      \* what each of them holds
  stats,      \* terminalreporter.stats: pairs of a test and a category
  logless     \* tests one of whose attempts could not open its log

evidenceVars == <<skips, todo, worker, attempts, dirs, files, stats, logless>>

None == [none |-> TRUE]
Phases == {"none", "setup", "call"}
Running == {"mkdir", "open", "call", "contexts", "settle", "record", "report"}
\* failed: the phase that failed before the teardown; broken: the teardown's report;
\* recorded: the recorder holds an exchange; listing: the prune's snapshot.
Worker == [pc : {"idle", "prune", "done"} \cup Running, test : Tests \cup {None},
           failed : Phases, broken : BOOLEAN, recorded : BOOLEAN,
           listing : SUBSET Tests]

EvidenceTypeOK ==
  /\ skips \subseteq DbTests /\ todo \subseteq Tests
  /\ worker \in [Workers -> Worker]
  /\ attempts \in [Tests -> Nat]
  /\ dirs \subseteq Tests
  /\ files \in [Tests -> SUBSET {"test.log", "trace.zip", "http.log"}]
  /\ \A t \in Tests \ dirs : files[t] = {}
  /\ stats \subseteq Tests \X {"passed", "failed", "error", "skipped", "rerun"}
  /\ logless \subseteq Tests

Fresh(t) == [pc |-> "mkdir", test |-> t, failed |-> "none", broken |-> FALSE,
             recorded |-> FALSE, listing |-> {}]
\* A process between two tests; the last one it ran tells whether it ran any.
Idle(t) == [Fresh(t) EXCEPT !.pc = "idle"]

\* A run directory nobody has used; pytest has collected some tests, and marked
\* those of the database when DB_ENABLED is false.
EvidenceStart(collected) ==
  /\ skips \in {{}, DbTests}
  /\ todo = collected
  /\ worker = [w \in Workers |-> Idle(None)]
  /\ attempts = [t \in Tests |-> 0]
  /\ dirs = {}
  /\ files = [t \in Tests |-> {}]
  /\ stats = {}
  /\ logless = {}

EvidenceInit == EvidenceStart(Tests)

Goto(w, pc) == worker' = [worker EXCEPT ![w].pc = pc]
At(w, pc) == worker[w].pc = pc
Save(t, name) ==
  /\ dirs' = dirs \cup {t}
  /\ files' = [files EXCEPT ![t] = @ \cup {name}]

reruns_for(t) == IF IsCi /\ t \in BrowserTests THEN 1 ELSE 0

-----------------------------------------------------------------------------
(* One attempt of a test.                                                   *)

\* A skipped test runs no fixture: no directory, no log.
SkipTest(w, t) ==
  /\ At(w, "idle") /\ t \in todo /\ t \in skips
  /\ todo' = todo \ {t}
  /\ stats' = stats \cup {<<t, "skipped">>}
  /\ UNCHANGED <<skips, worker, attempts, dirs, files, logless>>

StartTest(w, t) ==
  /\ At(w, "idle") /\ t \in todo /\ t \notin skips
  /\ todo' = todo \ {t}
  /\ attempts' = [attempts EXCEPT ![t] = @ + 1]
  /\ worker' = [worker EXCEPT ![w] = Fresh(t)]
  /\ UNCHANGED <<skips, dirs, files, stats, logless>>

MakeDirectory(w) ==
  /\ At(w, "mkdir")
  /\ dirs' = dirs \cup {worker[w].test}
  /\ Goto(w, "open")
  /\ UNCHANGED <<skips, todo, attempts, files, stats, logless>>

\* The file handler opens test.log in a directory made a moment ago: if it is
\* gone, _test_log's setup fails with FileNotFoundError and the call is skipped.
OpenLog(w) ==
  LET t == worker[w].test IN
  /\ At(w, "open")
  /\ IF t \in dirs
       THEN /\ Save(t, "test.log") /\ Goto(w, "call")
            /\ UNCHANGED logless
       ELSE /\ worker' = [worker EXCEPT ![w].pc = "record", ![w].failed = "setup"]
            /\ logless' = logless \cup {t}
            /\ UNCHANGED <<dirs, files>>
  /\ UNCHANGED <<skips, todo, attempts, stats>>

\* The rest of the setup and the test body.  A setup can fail before the browser
\* test has a context.
Call(w, failed, exchanges, opened) ==
  LET t == worker[w].test IN
  /\ At(w, "call")
  /\ opened => t \in BrowserTests
  /\ t \in BrowserTests /\ failed # "setup" => opened
  /\ worker' = [worker EXCEPT ![w].pc = IF opened THEN "contexts" ELSE "settle",
                              ![w].failed = failed, ![w].recorded = exchanges]
  /\ UNCHANGED <<skips, todo, attempts, dirs, files, stats, logless>>

\* context_factory's teardown.  A browser that does not answer makes it raise,
\* before or after the trace was saved.
StopContexts(w, saved, raises) ==
  LET t == worker[w].test IN
  /\ At(w, "contexts")
  /\ saved \/ raises
  /\ IF worker[w].failed # "none" /\ saved
       THEN Save(t, "trace.zip")
       ELSE UNCHANGED <<dirs, files>>
  /\ worker' = [worker EXCEPT ![w].pc = "settle", ![w].broken = raises]
  /\ UNCHANGED <<skips, todo, attempts, stats, logless>>

\* Mutant of test_failed: the answer is inverted.
test_failed_inverted(w) == worker[w].failed = "none"

test_failed(w) == worker[w].failed # "none"

\* _test_log's teardown.
KeepOrDiscard(w) ==
  LET t == worker[w].test IN
  /\ At(w, "settle")
  /\ IF test_failed(w)
       THEN UNCHANGED <<dirs, files>>
       ELSE dirs' = dirs \ {t} /\ files' = [files EXCEPT ![t] = {}]
  /\ Goto(w, "record")
  /\ UNCHANGED <<skips, todo, attempts, stats, logless>>

\* _recorded_evidence's teardown.
WriteRecorded(w) ==
  /\ At(w, "record")
  /\ IF test_failed(w) /\ worker[w].recorded
       THEN Save(worker[w].test, "http.log")
       ELSE UNCHANGED <<dirs, files>>
  /\ Goto(w, "report")
  /\ UNCHANGED <<skips, todo, attempts, stats, logless>>

\* What pytest-rerunfailures reports of an attempt: phases that did not fail are
\* logged as they are, the first one that failed as a rerun if one is left.
Categories(w, again) ==
  LET errs == IF again THEN "rerun" ELSE "error"
      torn == IF worker[w].broken THEN {errs} ELSE {}     \* the teardown's
  IN  CASE worker[w].failed = "none"  -> {"passed"} \cup torn
        [] worker[w].failed = "setup" -> {errs} \cup torn
        [] worker[w].failed = "call"  -> {IF again THEN "rerun" ELSE "failed"} \cup torn

\* Mutant of Report: a retry is not counted.
report_uncounted(w) ==
  LET t == worker[w].test
      again == (worker[w].failed # "none" \/ worker[w].broken) /\ attempts[t] <= reruns_for(t)
  IN
  /\ At(w, "report")
  /\ stats' = stats \cup {<<t, c>> : c \in Categories(w, again)}
  /\ worker' = [worker EXCEPT ![w] = IF again THEN Fresh(t) ELSE Idle(t)]
  /\ UNCHANGED <<skips, todo, attempts, dirs, files, logless>>

Report(w) ==
  LET t == worker[w].test
      again == (worker[w].failed # "none" \/ worker[w].broken) /\ attempts[t] <= reruns_for(t)
  IN
  /\ At(w, "report")
  /\ stats' = stats \cup {<<t, c>> : c \in Categories(w, again)}
  /\ worker' = [worker EXCEPT ![w] = IF again THEN Fresh(t) ELSE Idle(t)]
  /\ attempts' = IF again THEN [attempts EXCEPT ![t] = @ + 1] ELSE attempts
  /\ UNCHANGED <<skips, todo, dirs, files, logless>>

-----------------------------------------------------------------------------
(* _framework_logging's teardown: prune_empty_dirs.                         *)

\* The fixture that prunes is set up with the first test of a process: one that
\* was given none leaves at once.
ListDirectories(w) ==
  /\ At(w, "idle") /\ todo = {} /\ worker[w].test # None
  /\ worker' = [worker EXCEPT ![w].pc = "prune", ![w].listing = dirs]
  /\ UNCHANGED <<skips, todo, attempts, dirs, files, stats, logless>>

\* Mutant of PruneOne: a directory that is not empty is removed with what it holds.
prune_listed(w, t) ==
  /\ At(w, "prune") /\ t \in worker[w].listing
  /\ dirs' = dirs \ {t} /\ files' = [files EXCEPT ![t] = {}]
  /\ worker' = [worker EXCEPT ![w].listing = @ \ {t}]
  /\ UNCHANGED <<skips, todo, attempts, stats, logless>>

\* An rmdir that finds the directory gone or filled raises, and is skipped.
PruneOne(w, t) ==
  /\ At(w, "prune") /\ t \in worker[w].listing
  /\ dirs' = IF files[t] = {} THEN dirs \ {t} ELSE dirs
  /\ worker' = [worker EXCEPT ![w].listing = @ \ {t}]
  /\ UNCHANGED <<skips, todo, attempts, files, stats, logless>>

EndSession(w) ==
  /\ \/ At(w, "prune") /\ worker[w].listing = {}
     \/ At(w, "idle") /\ todo = {} /\ worker[w].test = None
  /\ Goto(w, "done")
  /\ UNCHANGED <<skips, todo, attempts, dirs, files, stats, logless>>

WorkerStep(w) ==
  \/ \E t \in Tests : SkipTest(w, t) \/ StartTest(w, t)
  \/ MakeDirectory(w)
  \/ OpenLog(w)
  \/ \E failed \in Phases, exchanges, opened \in BOOLEAN : Call(w, failed, exchanges, opened)
  \/ \E saved, raises \in BOOLEAN : StopContexts(w, saved, raises)
  \/ KeepOrDiscard(w)
  \/ WriteRecorded(w)
  \/ Report(w)
  \/ ListDirectories(w)
  \/ \E t \in Tests : PruneOne(w, t)
  \/ EndSession(w)

EvidenceNext == \E w \in Workers : WorkerStep(w)

EvidenceSpec == EvidenceInit /\ [][EvidenceNext]_evidenceVars

-----------------------------------------------------------------------------
Over == \A w \in Workers : worker[w].pc = "done"
Counted(t, category) == <<t, category>> \in stats

\* Mutant of Flaky: the wrong category is looked up.
flaky_unless_error == {t \in Tests : Counted(t, "rerun") /\ Counted(t, "error")}

(* pytest_terminal_summary: the tests that "passed only on a retry".        *)
Flaky == {t \in Tests : Counted(t, "rerun") /\ Counted(t, "passed")}

\* The last attempt's setup or body failed: a body counts as failed, a setup as
\* an error of a test that never passed.
FailedBeforeTeardown(t) ==
  Counted(t, "failed") \/ (Counted(t, "error") /\ ~Counted(t, "passed"))

(* A pass leaves nothing, nor does a test that was skipped: what is left in *)
(* the run directory at the end belongs to tests that failed.               *)
PassLeavesNothing == Over => \A t \in dirs : Counted(t, "failed") \/ Counted(t, "error")

(* From the moment it is open until the teardown decides, no other worker's *)
(* pruning takes a log away; what is kept for a failed setup or body is     *)
(* still there when the run is over.                                        *)
LogSurvives ==
  /\ \A w \in Workers : worker[w].pc \in {"call", "contexts", "settle"} =>
        "test.log" \in files[worker[w].test]
  /\ Over => \A t \in Tests \ logless : FailedBeforeTeardown(t) => "test.log" \in files[t]

(* A test that is green after a retry is announced as flaky.                *)
RecoveredIsFlaky ==
  Over => \A t \in Tests :
    attempts[t] > 1 /\ ~Counted(t, "failed") /\ ~Counted(t, "error") => t \in Flaky

(* artifacts.py: "Cleanup must never be able to fail a run".                *)
PruneFailsNoTest == logless = {}
=============================================================================
