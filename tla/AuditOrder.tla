----------------------------- MODULE AuditOrder -----------------------------
(***************************************************************************)
(* When an audit row says it happened.  claim_events.occurred_at defaults  *)
(* to now(), which in PostgreSQL is the time the transaction began, and    *)
(* the transaction of a request begins when its caller is looked up, well  *)
(* before the claim is read.  The events endpoint and the HTML page list   *)
(* the rows by occurred_at alone.  This module puts a clock under          *)
(* ClaimService: Open is the lookup of the caller, every other step is a   *)
(* step of ClaimService by a worker whose transaction is open.             *)
(***************************************************************************)
EXTENDS Seed

CONSTANT MaxClock   \* bound: transactions opened in a run

ASSUME ClockAssumption == MaxClock \in Nat

VARIABLES
  clock,     \* transactions opened so far
  opened,    \* per worker, when its transaction began (0: none is open) and
             \* the claim the request names (None: it files a new one)
  stamps     \* per claim, occurred_at of each row of events (0: the seed)

auditVars == <<vars, clock, opened, stamps>>

Closed == [at |-> 0, claim |-> None]

AuditTypeOK ==
  /\ clock \in 0..MaxClock
  /\ opened \in [Slots -> [at: 0..MaxClock, claim: ClaimIds \cup {None}]]
  /\ stamps \in [ClaimIds -> Seq(0..MaxClock)]

AuditInit ==
  /\ seed
  /\ clock = 0
  /\ opened = [s \in Slots |-> Closed]
  /\ stamps = [c \in ClaimIds |-> [i \in DOMAIN events[c] |-> 0]]

\* Identifiers are random: a request can name a claim only once it is filed.
Open(s, c) ==
  /\ opened[s] = Closed
  /\ clock < MaxClock
  /\ c \in Existing \cup {None}
  /\ clock' = clock + 1
  /\ opened' = [opened EXCEPT ![s] = [at |-> clock + 1, claim |-> c]]
  /\ UNCHANGED <<vars, stamps>>

Serve(s) ==
  LET c == opened[s].claim IN
  \/ c = None /\ Create(s)
  \/ c # None /\ Request(s, c)
  \/ FindPayout(s)
  \/ Commit(s)
  \/ PayCollides(s)
  \/ Abort(s)

\* Mutant of occurred_at: a clock too coarse to tell two transactions apart.
occurred_at_coarse(s) == (opened[s].at + 1) \div 2

\* server_default now(): the row is stamped with the start of its transaction.
occurred_at(s) == opened[s].at

Step(s) ==
  /\ opened[s] # Closed
  /\ Serve(s)
  /\ stamps' = [c \in ClaimIds |-> IF events'[c] = events[c] THEN stamps[c]
                                   ELSE Append(stamps[c], occurred_at(s))]
  /\ opened' = IF tx'[s].pc = "done" THEN [opened EXCEPT ![s] = Closed] ELSE opened
  /\ UNCHANGED clock

AuditNext == \E s \in Slots :
  \/ \E c \in ClaimIds \cup {None} : Open(s, c)
  \/ Step(s)

AuditSpec == AuditInit /\ [][AuditNext]_auditVars

-----------------------------------------------------------------------------
\* The rows of the seed were written by one transaction and share their time.
Stamped(c) == {i \in DOMAIN stamps[c] : stamps[c][i] > 0}

(* Every row has one stamp, no two rows of a claim share theirs, and the    *)
(* row listed first is the creation: nothing can be filed under a claim     *)
(* with a transaction older than the one that filed it.                     *)
CreationIsListedFirst ==
  \A c \in ClaimIds :
    /\ Len(stamps[c]) = Len(events[c])
    /\ \A i \in Stamped(c) \ {1} : stamps[c][1] < stamps[c][i]
    /\ \A i, j \in Stamped(c) : stamps[c][i] = stamps[c][j] => i = j

(* ClaimEventQueries.for_claim: the audit trail in the order it happened.   *)
(* Asked only of claims whose rows form a chain in commit order, those no   *)
(* overlapping write has touched: listing them by occurred_at keeps them    *)
(* in the order in which they happened.                                     *)
ListedInOrder ==
  \A c \in ClaimIds :
    (\A i \in 2..Len(events[c]) : events[c][i].from_status = events[c][i - 1].to_status)
    => \A i, j \in Stamped(c) : i < j => stamps[c][i] < stamps[c][j]
=============================================================================
