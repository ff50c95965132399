------------------------------- MODULE Suite -------------------------------
(***************************************************************************)
(* scripts/run_suite.sh: the suite is two pytest sessions one after the    *)
(* other, the tests not marked serial on several workers and the others in *)
(* one process, both narrowed by MARKERS.  They share the run directory,   *)
(* so what the first session kept lies in it while the second one prunes.  *)
(***************************************************************************)
EXTENDS Evidence

VARIABLES
  serial,     \* the tests that carry the serial marker
  selected,   \* the tests MARKERS leaves
  pass,       \* the session that runs, or "over"
  status      \* what run_pass has returned for each session

suiteVars == <<evidenceVars, serial, selected, pass, status>>
suiteOnly == <<serial, selected, pass, status>>

Collected(p) == IF p = "parallel" THEN selected \ serial ELSE selected \cap serial

SuiteInit ==
  /\ serial \in SUBSET Tests
  /\ selected \in SUBSET Tests
  /\ pass = "parallel"
  /\ status = [p \in {"parallel", "serial"} |-> 0]
  /\ EvidenceStart(Collected("parallel"))

\* pytest's exit code: 5 without a test, 1 with a report of a failure; a skipped
\* test is as good as a passed one.
exit_code(p) ==
  IF Collected(p) = {} THEN 5
  ELSE IF \E t \in Collected(p) : Counted(t, "failed") \/ Counted(t, "error") THEN 1
  ELSE 0

\* Mutant of run_pass: the code is handed on as it is.
run_pass_verbatim(code) == code

run_pass(code) == IF code = 5 THEN 0 ELSE code

\* The session returns, and the script goes on to the next whatever it returned.
Return(code) ==
  /\ status' = [status EXCEPT ![pass] = run_pass(code)]
  /\ pass' = IF pass = "parallel" THEN "serial" ELSE "over"
  /\ IF pass = "parallel"
       THEN \E one \in Workers :   \* -p no:xdist
              /\ todo' = Collected("serial")
              /\ worker' = [w \in Workers |->
                   IF w = one THEN Idle(None) ELSE [Idle(None) EXCEPT !.pc = "done"]]
       ELSE todo' = {} /\ UNCHANGED worker
  /\ UNCHANGED <<skips, attempts, dirs, files, stats, logless, serial, selected>>

EndPass == pass # "over" /\ Over /\ Return(exit_code(pass))

\* Malformed MARKERS or settings: pytest ends before its first test.
RefusePass ==
  /\ pass # "over"
  /\ todo = Collected(pass)
  /\ \A w \in Workers : worker[w].pc \in {"idle", "done"} /\ worker[w].test = None
  /\ Return(4)

SuiteNext ==
  \/ \E w \in Workers : WorkerStep(w) /\ UNCHANGED suiteOnly
  \/ EndPass
  \/ RefusePass

\* A worker is a process of its own, none of its steps waits for another worker;
\* the script only waits for pytest.
SuiteSpec ==
  /\ SuiteInit /\ [][SuiteNext]_suiteVars
  /\ \A w \in Workers : WF_suiteVars(WorkerStep(w) /\ UNCHANGED suiteOnly)
  /\ WF_suiteVars(EndPass)

-----------------------------------------------------------------------------
SuitePassed == status["parallel"] = 0 /\ status["serial"] = 0
Green(t) == Counted(t, "passed") /\ ~Counted(t, "failed") /\ ~Counted(t, "error")

(* "Suite passed" means that every test MARKERS leaves was run by one of    *)
(* the passes and ended green, retried or not, or was skipped because it is *)
(* a database test and DB_ENABLED is false, which the session's header says *)
(* (conftest.py:148-153); "Suite FAILED" means that a test which was to be  *)
(* run is not green, or that pytest would not start.  Neither a skipped     *)
(* test nor a pass without a test fails anything.                           *)
SuiteVerdict ==
  pass = "over" =>
    IF SuitePassed
      THEN \A t \in selected :
             IF t \in skips THEN Counted(t, "skipped") ELSE attempts[t] > 0 /\ Green(t)
      ELSE 4 \in {status[p] : p \in DOMAIN status} \/ \E t \in selected \ skips : ~Green(t)

(* The suite ends: no retry loop, and no prune waits for anything.          *)
SuiteEnds == <>(pass = "over")
=============================================================================
