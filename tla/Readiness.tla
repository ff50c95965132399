------------------------------ MODULE Readiness ------------------------------
(***************************************************************************)
(* wait_until_ready (claimdesk_qa/core/readiness.py) polling the readiness *)
(* endpoint of a service that is coming up.  Time is counted in a unit     *)
(* that divides the interval; `now' is what monotonic() has advanced since *)
(* the call.  Until upAt the service may answer anything, from upAt on it  *)
(* answers every probe with a 2xx.                                         *)
(***************************************************************************)
EXTENDS Integers

CONSTANTS
  Timeout,    \* timeout_seconds
  Interval,   \* interval_seconds
  MaxProbe,   \* the longest a probe takes: http_probe's own timeouts
  MaxLate,    \* how late sleep() may return
  LatestUp    \* bound: the latest upAt considered

ASSUME WaitAssumption ==
  /\ Timeout \in Nat /\ Interval \in Nat \ {0}
  /\ MaxProbe \in Nat /\ MaxLate \in Nat /\ LatestUp \in Nat

VARIABLES
  pc,         \* "probing", "refused": the last probe failed, "ready", "gave_up"
  now,        \* elapsed time
  attempts,   \* probes made, as the failure message reports them
  upAt        \* when the service is up for good

waitVars == <<pc, now, attempts, upAt>>

WaitTypeOK ==
  /\ pc \in {"probing", "refused", "ready", "gave_up"}
  /\ now \in Nat
  /\ attempts \in Nat
  /\ upAt \in Nat

WaitInit ==
  /\ pc = "probing"
  /\ now = 0
  /\ attempts = 0
  /\ upAt \in 0..LatestUp

\* A connection error or a non-2xx answer is "not ready", never an exception.
Answers(ready) == now >= upAt => ready

Probe(took, ready) ==
  /\ pc = "probing"
  /\ Answers(ready)
  /\ attempts' = attempts + 1
  /\ now' = now + took
  /\ pc' = IF ready THEN "ready" ELSE "refused"
  /\ UNCHANGED upAt

\* Mutants of OutOfTime: another sleep is always affordable while there is time
\* left; the last interval is given away.
out_of_time_late == now > Timeout
out_of_time_early == now + 2 * Interval > Timeout

OutOfTime == now + Interval > Timeout

\* Mutant of GiveUp: only an exhausted budget is an error, as if the loop slept on.
give_up_when_exhausted ==
  /\ pc = "refused"
  /\ now > Timeout
  /\ pc' = "gave_up"
  /\ UNCHANGED <<now, attempts, upAt>>

GiveUp ==   \* ServiceNotReadyError
  /\ pc = "refused"
  /\ OutOfTime
  /\ pc' = "gave_up"
  /\ UNCHANGED <<now, attempts, upAt>>

Sleep(late) ==
  /\ pc = "refused"
  /\ ~OutOfTime
  /\ now' = now + Interval + late
  /\ pc' = "probing"
  /\ UNCHANGED <<attempts, upAt>>

WaitNext ==
  \/ \E took \in 0..MaxProbe, ready \in BOOLEAN : Probe(took, ready)
  \/ GiveUp
  \/ \E late \in 0..MaxLate : Sleep(late)

WaitSpec == WaitInit /\ [][WaitNext]_waitVars

-----------------------------------------------------------------------------
(* No probe starts after the deadline (a late wake-up aside), so the call   *)
(* overruns its budget by at most one probe.                                *)
OverrunIsOneProbe ==
  /\ pc = "probing" => now <= Timeout + MaxLate
  /\ now <= Timeout + MaxLate + MaxProbe

(* A service that was up for good an interval and a probe before the        *)
(* deadline is never reported as not ready.                                 *)
PatienceIsUsed == pc = "gave_up" => upAt > Timeout - Interval - MaxProbe

(* The service is not hammered: the attempts are an interval apart.         *)
AttemptsAreSpaced == (attempts - 1) * Interval <= now
=============================================================================
