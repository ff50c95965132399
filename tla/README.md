# ClaimDesk and its QA framework: a TLA+ development

This directory holds TLA+ models of the two programs in the repository, the TLC
configurations that check them on small instances, and TLAPS proofs of what matters
most. `PROJECT.json` is the index: components, runs, mutants, the map from
definitions to source lines, findings, hazards and theorems. Paths below are
relative to the repository root.

- [The system](#the-system)
- [What is hard about it](#what-is-hard-about-it)
- [The modules](#the-modules)
- [The runs](#the-runs)
- [Fairness, deadlock and symmetry](#fairness-deadlock-and-symmetry)
- [What is proved](#what-is-proved)
- [What is only model-checked](#what-is-only-model-checked)
- [Where code and text disagree](#where-code-and-text-disagree)
- [What is not modelled](#what-is-not-modelled)
- [Plan](#plan)

## The system

**ClaimDesk** (`app/claimdesk`) is an insurance-claims application: FastAPI with
synchronous endpoints served by a pool of threads, one SQLAlchemy session and one
transaction per request, PostgreSQL in its default READ COMMITTED isolation. A REST
API and an HTML interface call the same service functions. **claimdesk_qa**
(`src/claimdesk_qa`) is the framework that tests it from outside, with its pytest
fixtures (`tests/conftest.py`, `tests/_fixtures`), runner scripts, a Compose file
and CI pipelines.

| Component | State it keeps | Operations | Talks to | What makes it correct |
|---|---|---|---|---|
| Claim rules (`domain.py`) | none | `resolve_transition`, `can_view_claim`, `validate_claim_amount` | called by the service and the detail page | status before authority; limits inclusive |
| Claim service (`services.py`, `api/claims.py`, `models.py`, `db.py`) | tables claims, claim_events, payouts | create, update, withdraw, submit, start_review, approve, reject, pay | database; callers from `deps.py` | one payout, legal and complete history, final statuses |
| Audit trail order (`models.py`, `api/claims.py`) | `occurred_at` of each row | list events | transaction start in `deps.py` | listed as it happened |
| Claim list (`services.list_claims`, `_claims_table.html`) | none of its own | count, page, Next link | rows other requests write | pages neither repeat nor drop rows |
| Detail page, dashboard (`web/routes.py`) | a page in a browser | read claim, events, payout; offer buttons; click; count tiles | service | the page is coherent, an offer is honoured, no claim is missed |
| Claim form, schemas, policies (`web/routes.py`, `schemas.py`, `api/policies.py`, `claim_form_page.py`) | a form in a browser | list policies, render, fill in, submit; the REST body | service; NUMERIC column and CHECK | form and API agree; what the form offers is accepted; amounts are whole cents |
| Seed (`seed.py`) | the initial tables | `seed` | database | same data each time |
| Accounts (`api/users.py`, `api/auth.py`, `deps.py`, `security.py`, `admin_users.html`) | users, tokens, an administrator's page | login, create, update, toggle, authenticate; the page's buttons | database; tokens are checked at each request | unique addresses; somebody can administer; a button does what it says |
| Claims page script (`claims.html`, `claims_list_page.py`) | fields, table, address, aria-busy, fetches | filter, search, reload, answers | server, page object | not busy means settled |
| Readiness wait (`core/readiness.py`) | time, attempts | probe, sleep, give up | the service coming up | ends, in budget, gives up on nobody in time |
| Settings and session (`config/settings.py`, `conftest.py`, `_fixtures`) | environment, `.env`, settings read, outcome of the wait, tokens | load settings four times, wait, fail or retry a setup, log in per layer, test, retry | the readiness wait, ClaimDesk | the report names the target; slips fail early; the wait is spent once; an old token is not a flake |
| Evidence (`core/artifacts.py`, `flakiness.py`, `logging.py`, `conftest.py`) | run directory, logs, reports | skip, start, log, keep or discard, retry, prune | other xdist workers on the same directory | failures keep their evidence, passes leave nothing |
| Suite (`scripts/run_suite.sh`) | status of two pytest sessions | parallel pass, serial pass, verdict | the evidence of both passes | the verdict is that of the tests that were to be run |
| API client and recorder (`api/client.py`, `core/recording.py`) | cookie jars, recorder | request, record | ClaimDesk | the caller is who the request names |
| Framework workflow (`claimdesk_qa/domain.py`, `services/claims.py`, `test_state_machine.py`) | a claim being driven | `drive_to`, generated matrix | rules of the application | the matrix tests the real rules |
| Integrity queries (`db/queries.py`) | none | whole-database checks | database | they report nothing |
| Shell, other page objects, reporting, helpers, containers, CI | see `PROJECT.json` | | | not modelled, see [below](#what-is-not-modelled) |

## What is hard about it

- *Interleaving of transactions.* A request reads the claim, decides, and writes with
  an UPDATE that names the row by id and carries no version. Under READ COMMITTED
  another request can commit in between (services.py:251).
- *Constraints as the last line of defence.* The payout and the e-mail address are
  searched for in one statement and inserted in another; only the unique indexes
  make the result right (services.py:270, users.py:55).
- *Several statements, one answer.* The count and the page of a list, the three reads
  of the detail page, the tiles of the dashboard each see a different committed state
  (services.py:167, routes.py:321, routes.py:127).
- *Pages that are clicked later*: a button or a form was rendered from rows, and on a
  day, that are no longer those the request finds (routes.py:388, 222, 429).
- *Two parsers for one amount*: what a form takes, a schema refuses and a NUMERIC
  column rounds (routes.py:275).
- *Configuration read more than once*, from a file that may change (conftest.py:133).
- *Time stamps that are not commit order.* `occurred_at` is `now()`, the start of the
  transaction (models.py:142).
- *Asynchronous answers* replace each other in the page in any order (claims.html:50).
- *Worker processes that share a directory* which each of them tidies up
  (artifacts.py:183).
- *Implicit state*: cookies that stay behind, tokens that outlive an account's
  deactivation, recorders that outlive a test (client.py:253, deps.py:77).
- *Deadlines* between a failed probe and the next sleep (readiness.py:108).

`PROJECT.json` lists every hazard at its line with the properties that guard it, or
with the reason why none does yet.

## The modules

`A <- B` reads "B extends A".

```
ClaimRules <- ClaimService <- ClaimServiceProofs
                           <- MCClaimService
                           <- ClaimViews <- ClaimIntake <- MCClaimViews
                                                        <- ClaimIntakeProofs
                           <- Seed <- AuditOrder <- Listing <- MCListing
                                                            <- ListingProofs
           <- ApiClient <- WorkflowDriver <- WorkflowDriverProofs
ClaimLifecycle            (instantiated by ClaimService)
Accounts   <- AdminPage  <- MCAccounts
                         <- AccountsProofs
Readiness  <- Session    <- MCSession
                         <- ReadinessProofs
ClaimsTable <- ClaimsTableProofs
Evidence   <- Suite      <- SuiteProofs
```

`ClaimIntakeProofs` and `ListingProofs` also extend `ClaimServiceProofs`: what is
proved of the service is used for the pages and for the list.

**ClaimRules** is `domain.py` as operators. Money is an integer; the rules only
compare it with zero, the approval limit and the coverage, so a handful of values
on each side of those are all there is to tell apart.

**ClaimService** is the core. `tx[s]` is the request worker thread `s` serves;
`claims`, `events`, `payouts` are the committed tables. Steps of a request:

| Action | Code | Notes |
|---|---|---|
| `create_claim` (`create_verdict`, `InsertClaim`), `RefuseCreate` | `services.create_claim` | one step: nothing it read can be changed by a request (policies are constant, the id is new) |
| `Accept`, `Refuse` | load and checks of update, withdraw, apply_transition | a refused request writes nothing |
| `FindPayout` | services.py:267-275 | pay only; a statement of its own |
| `update_claim`, `withdraw_claim`, `apply_transition`, `pay` | flush and COMMIT | one step: the UPDATE is the first statement of the flush and holds the row lock until COMMIT. The columns written are those whose value differs from the snapshot (`Written`), as SQLAlchemy does it |
| `PayCollides` | UNIQUE (payouts.claim_id) | IntegrityError, rollback, unhandled 500 |
| `Abort` | process or connection lost before COMMIT | rolled back |

The integrity queries of the framework are operators of this module, each the set of
claims the query reports, and the safety properties are stated with them: the
properties say that the queries of `tests/db/test_integrity.py` report nothing in
*any* reachable state, not only in those the suite leaves behind.

**ClaimLifecycle** is the abstract specification: a status graph with amounts and
payouts, no users, no requests. `ClaimService` implements it (`ImplementsLifecycle`)
as long as requests on one claim do not overlap, which is proved; when they do it does
not (see the findings).

**Seed** is the initial state `seed.py` writes, trails and payouts included. The code
returns early when seeded claims are there, so it is a state and not an action.

**AuditOrder** puts a clock under `ClaimService`. `Open` is the lookup of the caller,
which starts the transaction; `Step` is any step of `ClaimService` by a worker whose
transaction is open, and stamps the rows it adds with the opening time.

**Listing** adds a reader who follows the Next links of `list_claims`, page by page,
count and page as two statements. `watch` is a history variable: it records whether
rows entered, left or moved since the traversal began, which is what the two
properties depend on. It influences nothing.

**ClaimViews** adds one browser tab to `ClaimService`: a detail page with its three
reads, which stands while others work, and the click; or the dashboard, which counts
each status in a statement of its own (`CountTile`).

**ClaimIntake** puts the claim form into that tab and the REST body beside it.
`form_verdict` and `rest_verdict` are the answers of the two entry points to the same
fields, each with the checks of its own code in their order, before both reach
`create_verdict`. Amounts are counted in fractions of a cent: `stored` is the rounding
of NUMERIC(12,2), `ck_claims_amount_positive` the CHECK on what was stored, `Words`
and `NaN` what `Decimal()` refuses and accepts. A description is its letters and its
line breaks, because a form submits a line break as two characters. `MidnightPasses`
moves the application's date (UTC) on while the form stands. The form's fields are all
`required`: what FastAPI answers to an empty one is not reached from a browser.

**Accounts** has the users table, the accounts that hold a token, and per thread the
administration request it serves. `ReadTarget` models SQLAlchemy's identity map: the
caller's own row is not read again. `InsertUser` fails on the unique index,
`SetActive` sends no UPDATE when the value equals the one read.

**AdminPage** adds an administrator's users page in a tab. `toggle_user` is the click:
it authenticates a toggle like any other and remembers the label that was clicked;
`changed` is a history variable, the accounts switched since the page was rendered.

**Readiness** is the polling loop: `now` is elapsed time in an arbitrary unit, probes
and wake-ups take any duration up to a bound.

**Session** composes it with what comes before and after. `Load` builds the settings
once for each of the four readers, from an environment and a `.env` that may be saved
in between. The fixture the tests use is the fourth reading; under xdist the third and
the fourth are a worker's, and the model follows one worker. The first test that needs
the service (`_require_application`) runs the readiness loop (`app_ready`) for the URL
that reading gave. What became of the wait is cached by pytest for the session: when it
failed, each later test that needs the service ends in its setup (`FailSetup`) without
waiting again, while the framework's own tests run (`RunFrameworkTest`). In CI the retry
of a browser test clears the cached failure, and waits the whole budget anew
(`RetrySetup`, `WaitAgain`). `LogIn` fetches a layer's token once, and every test and
retry of the layer sends it until the session ends, whatever its age.

**ClaimsTable** is the script of the claims page, its requests under way by their
parameters, and either the page object (`patient`) or a person. The session of whoever
uses the page does not expire on a reload, and the browser restores nothing into fields
that were typed in and not applied.

**Evidence** is one parallel pytest run. Each attempt of a test walks through
directory, log, the rest of its setup and its body, context teardown, log teardown,
recorder teardown and report, in the order pytest runs those fixtures; a worker that has
run its last test prunes. A setup that fails counts as an error, a body as a failure, and
the fixtures keep the evidence of either; a setup may fail before a browser test has its
context. `skips` are the database tests of a run with `DB_ENABLED=false`: they run no
fixture and are counted as skipped (`SkipTest`).

**Suite** runs `Evidence` twice on one run directory, as `run_suite.sh` does: first the
tests not marked serial on all workers, then the others in one process. `exit_code` is
pytest's, to which a skipped test is as good as a passed one, and `run_pass` what the
script makes of it; a session may also refuse to start.

**ApiClient** and **WorkflowDriver** are the test side of the API: clients with a
cookie jar, the bounded recorder, and test after test driving a claim through the
framework's own copy of the workflow. A probe is a cell of the generated matrix, sent by
the caller the test sends it as (`Asker`): staff for the illegal cells, submit included,
and the customer for each action on a claim that was withdrawn, the terminal status no
route of the workflow leads to (`arrangement`). `answered` is a history variable, the
traffic of the running test without the recorder's bound.

Definitions introduced by the words *Mutant of* are faulty variants of the definition
below them. No specification uses them; `PROJECT.json` names, for each property, the
variant under which TLC finds it violated, which shows that the property can fail.

## The runs

Passing runs:

| Run | Question | Bounds, and why they are enough |
|---|---|---|
| `claims_concurrent` | What holds under every interleaving of two requests by holder, adjuster and administrator on one claim? | Requests on different claims touch different rows, so one claim is enough; two workers give every overlap of two requests, and a third can only overwrite as the second does. `MaxEvents` = 5: a request may start on a history of up to four rows, which the fifth makes a complete legal one and two racing commits make one of six. All of its properties are also proved, without any bound. The role and the ownership a request was let in with stay what they are while it runs; a caller who is deactivated meanwhile is in `accounts`. |
| `claim_views` | Without overlapping writers, do the endpoints keep what the documents promise, and what does a browser see meanwhile? | All four accounts, a lapsed policy; ten units to the cent, limit 20 and coverage 30; typed amounts on both sides of zero, of half a cent, of the limit and of the coverage, `NaN` and words; texts on both sides of the length limits (2 and 4 for 10 and 2000), with and without a line break; one midnight. The one worker's requests fall between the reads of a page and between page and click. `MaxEvents` = 6 is beyond any legal history: it never cuts a behaviour off. `MCView` leaves out the reply to a request that is done, which no property of the run reads. |
| `listing` | Which traversals of the list are exact, which repeat, which skip? | Two seeded claims that share a creation time and one that may be filed; pages of one row, so every row is on a page break; two sort orders, with and without a filter. `MaxClock` = 3: three requests beside the traversal, enough for one row to enter, one to leave and one to move. After the traversal ends nothing more happens. |
| `accounts` | Unique addresses, lock-out, and what a stale users page does. | One administrator and two keys for accounts that ask for one address in two spellings; a created administrator gives the second actor. One tab; the second thread is everybody else. |
| `workflow_driver` | Does the generated matrix test the application's rules, as the caller it names? | Every target, action, staff actor and amounts on both sides of the limit. `MaxCalls` = 2 logins or `me` calls per test, `MAX_RECORDED_ENTRIES` = 3 (100 in the code): longer tests overflow the recorder. Tests follow one another without end. |
| `suite` | What is left of a run of both passes, what is its verdict, and does it end? | Two workers, a browser test with one retry and a database test, which runs like any other or is skipped, each serial or not and selected or not: a prune while the other worker is at any step of a test, a serial pass over what the parallel pass left, empty passes. |
| `claims_table` | Is aria-busy a sound wait? | Three statuses, two terms, one request under way per parameter set: up to six overlapping answers. |
| `session` | Is the wait for the service bounded, used and spent once, what can the report be trusted with, and what do a failed wait and an expired token do to the tests? | Interval 2, budget 6, probes of 0 or 1, wake-ups up to 1 late; the service comes up at 0 to 6, the deadline, or, by the time of a retry, later. Three layers. Four environments and four `.env` files: laptop, CI, and a blank, a malformed and a missing value. Tokens live for one minute and are refused in the next. The bounds on the wait are proved for all values. |

Runs that end in a violation (see [below](#where-code-and-text-disagree)):
`race_terminal`, `race_double_pay`, `audit_listing`, `evidence_prune_race`.

What the properties say, in brief:

- *claims_concurrent*: at most one payout and never PAID without one
  (`PaidExactlyOnce`), the status is what the last audit row says (`StatusIsLastEvent`),
  every row is a legal edge by an authorised account (`EventsAreLegal`), each payout
  has one row by who paid (`PayoutIsAudited`), nothing is rewritten
  (`HistoryIsAppendOnly`).
- *claim_views*: the promises that need requests not to overlap: no gaps in the chain,
  the amount paid is the claim's, approvals within the limit, the abstract
  lifecycle; for the browser `PageIsCoherent` (reading the claim *before* its events
  is what makes it true), `OfferIsHonoured` (the second copy of the rules that chooses
  buttons agrees with the first) and `DashboardMissesNoClaim` (which rests on counting
  the statuses in the order claims move through them); for the entry points
  `FormAndApiAgree` (the exact list of differences), `FormKeepsItsWord` (whatever it
  offered is accepted, on whatever day it is submitted) and `LedgerIsExact`.
- *listing*: `TraversalIsExact` rests on the secondary sort key; `NoRowIsSkipped` shows
  exactly what OFFSET paging tolerates: rows that enter, as long as a later count sees
  them.
- *accounts*: `LockoutNeedsARace`: the guard against deactivating oneself keeps the last
  administrator, except against a request whose caller is deactivated while it runs;
  `ButtonKeepsItsWord`: a button does the opposite of its label only if somebody
  switched the account after the page was rendered.
- *workflow_driver*: `DriveFailsForAuthorityOnly`, `MatrixIsTheRules` (each cell the
  matrix generates, by the caller who sends it, is answered as the framework's copy of
  the rules expects: an action out of turn is a conflict, whoever asks),
  `CallerIsExplicit` (ADR 0007: no cookie answers for a request, also after one was
  stored by an answer that broke off), `EvidenceIsTheTests`.
- *suite*: `PassLeavesNothing`, `LogSurvives` and `RecoveredIsFlaky` over both passes,
  `SuiteVerdict` (a suite that passes ran every selected test to a green end, but for the
  database tests when the database is disabled, of which the header of each session
  warns; one that fails has a test that was to be run, or a session that did not start,
  to show for it), `SuiteEnds`.
- *claims_table*: `NotBusyIsSettled`, `AddressDescribesTable`, `BusyEnds`.
- *session*: `OverrunIsOneProbe`, `PatienceIsUsed` for the wait; `ReportNamesTheTarget`
  and `MisconfigurationFailsFast` for the promises of conftest.py:5-12, with the exact
  exceptions (`.env` saved between two readings; a blank URL, with which every test that
  needs the service ends in its setup, after the whole budget of the wait);
  `PatienceIsSpentOnce` (a failed wait is repeated only by the retry of a browser test in
  CI); `ExpiryIsNotFlaky`; `SessionGoesOn`.

## Fairness, deadlock and symmetry

Safety runs use no fairness. The liveness properties assume:

- `SessionSpec`: weak fairness of the readings and the waiting loop together. They are
  one thread that nothing else blocks; probes return because `http_probe` has
  timeouts. Nobody is assumed to edit `.env`, and no test to be run: a wait that is under
  way ends, whether it is the first or a retry's.
- `SuiteSpec`: weak fairness of each worker's steps and of the script going on when
  pytest has returned. Workers are processes, and no step waits for another worker.
- `FairTable`: weak fairness of `Arrival`, because the browser ends every request with
  an answer or an error. Users are not assumed to do anything.

`CHECK_DEADLOCK FALSE` stands where the system really stops: the session is over
(`Session`), the suite is over (`Suite`; one run of `Evidence`), the traversal has
ended or the clock is used up (`Listing`), and in `Accounts` nobody is left who can log in once every
account is inactive.

Worker threads are interchangeable (`MCSymmetry`): no property or initial state names
one. In `accounts` so are the two unused primary keys. Runs with temporal liveness
properties use no symmetry.

The type invariants (`TypeOK` and its kin) describe the variables. Those of the
modules with proofs are proved (`TypeCorrect` and the inductive invariants); no run
lists one, because every run has something better to ask.

## What is proved

For all values of the constants, from the named assumptions of the modules, which TLC
evaluates in the runs (`LimitAssumption`, `ServiceAssumption`, `IntakeAssumption`,
`SeedAssumption`, `ClockAssumption`, `ListingAssumption`, `AccountsAssumption`,
`WaitAssumption`, `SessionAssumption`, `TableAssumption`, `RecorderAssumption`,
`DriverAssumption`, `EvidenceAssumption`). Beyond the types of the constants they say:
the approval limit is positive, and None is not a value of any other kind; there is a
worker (`Workers # {}`: pytest-xdist starts one at least); the seeded corpus is finite,
its policy is a customer's, its decisions an adjuster's, and its amounts are covered,
all of which `seed.py` spells out; primary keys are distinct.

| Theorem | Statement |
|---|---|
| `ClaimServiceProofs!TypeCorrect` | `Spec => []TypeOK`: among others, no UPDATE reaches a claim that was never filed |
| `Ledger` | at most one payout per claim, none for a claim that does not exist; PAID claims have one (`PaidExactlyOnce`) |
| `StatusFollowsHistory` | the stored status is that of the last audit row (`StatusIsLastEvent`) |
| `HistoryIsLegal` | every audit row is an edge its actor may take (`EventsAreLegal`), and amounts stay within the coverage (`AmountIsCovered`) |
| `NothingIsRewritten` | `HistoryIsAppendOnly` |
| `PaymentsAreAudited` | `PayoutIsAudited` |
| `TrailHasNoGaps`, `PaidIsSettled`, `LimitIsRespected`, `NoPaymentCollides`, `TerminalStays` | in turn: `AuditChainHasNoGaps`, `PayoutMatchesClaim`, `ApprovalWithinAuthority`, `PayingTwiceIsAConflict`, `TerminalIsFinal` |
| `EndpointsImplementLifecycle` | in turn: `ImplementsLifecycle`, the refinement |
| `ClaimIntakeProofs!PagesAreCoherent`, `TwoWaysInAgree`, `FormIsAsGoodAsItsWord`, `LedgerStaysExact` | `PageIsCoherent`, `FormAndApiAgree`, `FormKeepsItsWord`, `LedgerIsExact` |
| `ButtonsAreHonoured`, `TilesMissNothing` | in turn: `OfferIsHonoured`, `DashboardMissesNoClaim` |
| `BrowserKeepsPromises`, `BrowserImplementsLifecycle` | in turn: the promises and the refinement, behind forms and pages |
| `ListingProofs!SeededServiceIsSound` | the first four rows of this table, from the seeded database |
| `CreationComesFirst` | `CreationIsListedFirst` |
| `TrailIsInOrder` | with one transaction open per claim: `ListedInOrder` |
| `TraversalsAreExact`, `NoRowsAreSkipped` | `TraversalIsExact`, `NoRowIsSkipped` |
| `AccountsProofs!AccountsTypeCorrect`, `AddressesAreUnique`, `LockoutTakesTwo` | types, `OneAccountPerAddress`, `LockoutNeedsARace` |
| `PageAddsNothing`, `PageKeepsAccounts`, `ButtonsKeepTheirWord` | `AdminSpec` implements `AccountsSpec`, and inherits its properties; `ButtonKeepsItsWord` |
| `ReadinessProofs!OverrunBounded`, `Patience`, `Spacing` | `OverrunIsOneProbe`, `PatienceIsUsed`, and that n attempts take at least n - 1 intervals |
| `SessionWaits`, `ReportsNameTheTarget`, `MisconfigurationsFailFast`, `BudgetSpentOnce`, `ExpiriesAreNotFlaky` | the first two in a session; `ReportNamesTheTarget`, `MisconfigurationFailsFast`, `PatienceIsSpentOnce`, `ExpiryIsNotFlaky` |
| `ClaimsTableProofs!BusyIsASignal` | `NotBusyIsSettled` |
| `WorkflowDriverProofs!CallersAreExplicit`, `EvidenceIsExact`, `DrivesArrive`, `MatrixIsRight` | `CallerIsExplicit`, `EvidenceIsTheTests`, `DriveFailsForAuthorityOnly`, `MatrixIsTheRules` |
| `SuiteProofs!PassedTestsLeaveNothing`, `LogsSurvive`, `RecoveriesAreFlaky`, `VerdictIsRight` | `PassLeavesNothing`, `LogSurvives`, `RecoveredIsFlaky`, `SuiteVerdict` |

*In turn* means: for behaviours in which no two requests are in flight on one claim
(`OneAtATime`), with any number of workers on any number of claims. These theorems are
of the form `Spec /\ []OneAtATime => ...`. One worker satisfies the hypothesis whatever
it serves (`OneWorkerTakesTurns`), and so do many as long as a claim is worked on by
one person at a time. It is not guaranteed by the code, and it cannot be dropped:
the runs `race_terminal` and `race_double_pay` violate two of the conclusions without it.

**Claim service.** None of the properties is inductive. A commit writes what the
*snapshot* `tx[s].seen` justified, so the invariant has to say what of the snapshot
still holds. `IInv` is `TypeOK`, `DecisionsAreSound` (what a decision rests on besides
status and amount, none of which another request on the claim changes) and, for every claim,
`RowIsSound(c)`: the row exists exactly when it has events, its status is the last
one's target, it has at most one payout and one if it is PAID, its events are legal,
its amount is covered. One lemma per action shows that the written claim stays sound;
`OneClaimWritten` shows once that the other claims and the decisions resting on them
are not disturbed, because policy and owner of a claim never change. PAID keeps its
payout although statuses can be overwritten, because payouts are never deleted and
only `pay` writes PAID together with one. The same lemmas cover any amount a request
may bring (`ServiceNext`), which is how the forms, whose amounts are rounded, come
under them. `StepOnClaim` says what a step does to one claim, nothing (`Silent`) or a
change together with its row (`Moved`): that the trail only grows, and that the rows
of payments and the payouts keep pace, follow from it.

**Requests in turn.** `TurnInv` adds that every snapshot is still the row
(`UpToDate`), and what follows from writing only what is up to date: the trail is a
chain (`Chained`), a payout is the claim's (`Settled`), an approval was within the limit
of who gave it (`Authorised`). Each commit is then one of four turns (`OneTurn`: filed,
edited, advanced, paid), and each turn is a step of `ClaimLifecycle` under the
refinement mapping; every other step leaves what the lifecycle shows alone.

**Pages.** What the detail page read stays true of the claim's history
(`DetailIsTrue`), because statuses read are in a trail that only grows and payouts stay;
that is why the claim must be read before its events. The dashboard needs more: a claim
is in a tile that was counted, or its status comes after those counted (`TilesCatchAll`),
which holds because a status only moves forward in `TileOrder`. The form's properties
are about its verdicts; the lemmas are about rounding (`StoredIsExact`,
`StoredStaysBelow`, ...), for any number of fractions to the cent. `LedgerInv` carries
*whole cents within the cover* from the amounts requests bring to claims and payouts.

**List.** `SeedIsSound` shows that the seed satisfies `IInv`, by following `_PATHS`
edge by edge. `ClockInv` relates the clock, the transactions and the stamps: a request in flight has its claim's
creation behind it and shares its time with nobody, every row is stamped in the past,
and each trail has a stamp per row. For the order of the rows `OrderInv` adds, under
one open transaction per claim, that whatever is stamped next is stamped later.
A page is a slice of `Ordered`, which ranks rows by how many come before them.
`Enumeration` shows once that such a ranking puts every row in exactly one place, for
any total order on a finite set (the pigeonhole of an injection between sets of equal
size), `GrownView` that rows which enter only push others back. `ListingInv` then says:
as long as nothing enters, leaves or moves, the rows read are the list up to the place
the reader is at (`ExactInv`); as long as nothing leaves or moves, a row that was there
all along is read or still ahead (`SteadyInv`); the total the reader goes by is that of the list
unless rows entered since (`TotalInv`).
`ApprovalWithinAuthority` is not claimed here: the seed has the adjuster approve an
amount above the limit, which no adjuster could.

**Accounts.** `AccountsInv` adds to the types and the uniqueness that each pending
request is sound: its caller is an administrator, and past its checks it carries a
lower-case address, names an account that exists and does not deactivate its caller.
`LockoutTakesTwo` follows from that in
one step: whoever deactivates the last administrator is not that administrator, and
so is itself no longer active. For the page, `TabInv` says that a label is the
account's state unless the account is in `changed`, from the rendering through the
click and the read of the target to the commit.

**Readiness and session.** `WaitInv` bounds `now` by the control state: a probe starts
only within the budget (a late wake-up aside), a sleep starts only if it fits. It also
keeps what a failed probe says of the service (it was not up when the probe began),
which `Patience` needs. `SessionInv` adds what each reading of the settings has in
common as long as `.env` is not saved, and what it owes to the environment in any case
(`ReadingInv`), how far the session has come and that nobody logs in, tests or fails
before a wait succeeded (`StageInv`), and that a failed layer has an expired token
(`ExpiryInv`): time does not run backwards, so its retry has one too. A wait that begins
anew begins in a state `WaitInit` allows, which is why the bounds survive retries.

**Claims table.** `TableInv`: for the page object at most one request is under way, it
is the one wanted, and its status is that of the field.

`AddressDescribesTable` needs none of it: each answer sets both sides.

**Clients and driver.** `DriverInv`: no jar holds a cookie unless a request of the
running test was lost; the recorder is the end of `answered` (`EndOfAppend`: forgetting
the oldest of a full stream keeps the end); and the driver stands at a stop of the
route `path_to` publishes, with the rest of it ahead (`RoutesFollowTheRules`: every route
follows the application's rules, the two copies agree).

**Suite.** `EvidenceInv` follows one test through its attempts: not started, under way on
exactly one worker, finished; each with what must be on the disk and in the counts. A
skipped test never starts.
`OtherTests` shows once that no step for one test disturbs another's, prune included:
prune takes empty directories only. `SuiteInv` adds which tests each pass has run or
skipped (`HadItsTurn`) and what the status it returned says of them.

## What is only model-checked

- Liveness (`SessionGoesOn`, `SuiteEnds`, `BusyEnds`): beyond this prover.
- `AddressDescribesTable`: one step of the script, checked and not worth a theorem.
- The four properties the violation runs refute are proved under a hypothesis
  (`TerminalIsFinal`, `PayingTwiceIsAConflict`, `ListedInOrder`) or not at all
  (`PruneFailsNoTest`).
- Every other property of a run is proved; the runs show on an instance that the
  hypotheses are met and that the cases the properties speak of occur, and each mutant
  that the property can fail.

## Where code and text disagree

1. `race_terminal`: domain.py:48 promises that a terminal status accepts no change. A
   submit that read DRAFT overwrites a withdrawal committed since.
2. `race_double_pay`: services.py:268 promises a clean 409 for a second payment. Two
   that both find no payout end in an unhandled IntegrityError for one of them. The
   ledger itself stays right.
3. `audit_listing`: queries.py:109 promises the trail in the order it happened; rows
   are ordered by the start of their transactions.
4. `evidence_prune_race`: artifacts.py:164 promises that cleanup never fails a run; it
   can remove a directory another worker is about to write its log into.

The race of the first also breaks `AuditChainHasNoGaps`, `PayoutMatchesClaim` and
`ApprovalWithinAuthority` (an edit decided in DRAFT lands on a claim approved since);
one run is kept for all of them. Smaller facts the models show, without a run of
their own because a single reading of the code shows them too: the readiness wait
can overrun its budget by one probe, which readiness.py:80 does not mention
(`OverrunIsOneProbe` has the exact bound); a test that fails in its teardown only
keeps no evidence (conftest.py:266); a token is valid again after its account is
reactivated (`get_current_user`); aria-busy is cleared by the first of two answers,
so it is a sound signal only for whoever waits for it before acting; a request that
raises is missing from the recorded evidence (`raise`); the form takes an amount with
a fraction of a cent and rounds it, which schemas.py:21 rules out for the API, and
answers NaN or an amount rounded to nothing with a server error (`FormAndApiAgree`
lists these differences); a blank `BASE_URL` is not refused but waited for: instead of
failing "immediately", as conftest.py:11 promises, such a session spends the budget of the
wait and then has an error per test (`MisconfigurationFailsFast`), and in CI one more timeout per browser test that is
retried (`RetrySetup`, the exception of `PatienceIsSpentOnce`); the settings are read again by every hook, so a `.env`
saved meanwhile makes the header wrong (`ReportNamesTheTarget`); a Deactivate button
on a page that is out of date activates (`ButtonKeepsItsWord`); a suite whose marker
expression matches nothing, or only database tests of a disabled database, has passed
(`SuiteVerdict`); a browser test that passed in its body, failed in its teardown and failed
again is listed among the flaky ones (`Flaky`); the files of a flaky test's
failed attempt are deleted by the attempt that passes (`KeepOrDiscard`), though
docs/debugging.md:112 counts on them.

## What is not modelled

- *Health endpoints, middleware, application start-up*: pure reads and wiring. Of the
  schemas and settings, the fields no property tells apart: each is validated alone.
- *Page objects, browser session, reporting, TLS, correlation, factories*: stateless
  helpers or calls into libraries; where one carries a protocol of its own (claims
  list, claim form, context teardown) it is in `ClaimsTable`, `ClaimIntake` or
  `Evidence`.
- *Database layer of the framework* (`db/connection.py`, `db/rows.py`): a read-only
  autocommit connection per test; each query sees what is committed, as the integrity
  operators of `ClaimService` do. The read-only grants are the database's.
- *Containers, CI*: state outside the repository.
- *The paged list of users*: nothing in the repository follows its pages.
- *Within modelled parts*: texts (descriptions, notes, names), the filters by amount,
  date and text, passwords, generated references (their collision would be a unique
  violation like that of the payout, at odds of one in 16^8 per pair).

## Plan

Done, in this order: ClaimRules and ClaimService with their proofs, ClaimLifecycle,
AuditOrder, Accounts, Readiness, Evidence, ClaimsTable, WorkflowDriver; then Seed,
Listing, ClaimViews and ApiClient; then the dashboard, ClaimIntake, Session, Suite and
AdminPage.

Next, the model: the filters `Listing` leaves out, and what the Allure results keep of
an attempt whose directory is gone.

Next, the proofs: that one open transaction per claim (`OneOpenRequest`) implies
`OneAtATime` under `AuditSpec`, and with it the promises that need turns from the seeded
database on, for the claims filed after it; that every row `Listing` returns is one its
reader may see.
