# Formal models of retailApp

TLA+ specifications, TLC configurations and TLAPS proofs for the backend under
`src/pure_backend` (FastAPI, SQLAlchemy, PostgreSQL).

1. [The system](#1-the-system)
2. [The modules](#2-the-modules)
3. [The runs](#3-the-runs)
4. [The proofs](#4-the-proofs)
5. [Where code and documents disagree](#5-where-code-and-documents-disagree)
6. [What is not modelled](#6-what-is-not-modelled)
7. [Plan](#7-plan)

## 1. The system

One API process serves requests on a pool of worker threads
(`scripts/container_start.sh:19`, every endpoint is a plain `def`).  Each
request has a database session of its own (`app/db/session.py:22`).  A handler
reads rows, validates what it read, and writes inside `transactional_session`,
which commits at the end and rolls back on any exception.  There is no
background job: order expiry is an endpoint somebody calls.  Docker starts the
database and the API container again whenever they stop
(`docker-compose.yml:4,23`), and every start of the API container runs the
migrations and, unless `SEED_ON_START` is changed, the seed before it serves
(`container_start.sh`).

Three facts about the sessions decide almost every concurrent behaviour:

* reads take no row lock and happen before the transaction block (PostgreSQL
  runs READ COMMITTED), so anything may be committed between a check and the
  write that relies on it;
* `autoflush=False` and the unit of work of the ORM send an UPDATE at the end,
  with the columns whose value differs from the loaded one and nothing else;
* unique constraints are the only thing that stops two sessions from writing
  conflicting rows.

### Inventory

| component | state | operations | hard behaviour | what makes it correct |
|---|---|---|---|---|
| order | `orders`, `order_lines` | create, get, list, expire unpaid | expiry against concurrent payments | no early void, void is final, a settled order stays out of expiry |
| promotion | `promotion_rules` | create rule, apply rules to an order | rounding, accumulating discounts, limits across lines | sums agree, rules commute, splitting a basket gains nothing |
| payment | `payment_records`, `orders.paid_amount/status` | settle (split), list | overpayment, lost updates, retries without a key | never more than the price, paid amount backed by records |
| after-sales | `after_sales_orders`, `orders.paid_amount/status` | return, exchange, reverse settlement | idempotency key, lifetime ceiling, 7-day window, races | one refund per key, never more than the price |
| login and tokens | `users` (lockout columns), `session_tokens` | login, refresh, logout, change password | lockout counter, token rotation used twice, expiry boundaries | locked only for cause, one live pair per login, signed out stays out |
| accounts, roles, permissions | `users`, `roles`, `permissions`, link tables | register, create, assign, reveal contact | lists assigned in one transaction per item, duplicate assignment | an answer of 200 has bound the list, one log entry per binding |
| seed and start scripts, migrations | the schema, the reference rows, the phase of the start | wait, migrate, seed, serve, crash, restart | a seed that commits in the middle, a start interrupted anywhere | serves only over complete reference rows, and comes to serve |
| product catalog | `products` | create, update status, search by barcode, code or pinyin | ambiguous matches, a cart that goes stale, overlapping status updates | what is sold answers to the text and is what was shown, unless the text is ambiguous; what was withdrawn is not |
| project lifecycle | `projects`, `project_versions` | create, edit, submit, reject, resubmit, deactivate | version numbers, transitions racing | gapless versions, each revision after a rejection, deactivated stays |
| attachment | `attachments` | validate, store metadata, read | duplicate fingerprints, ownership scope | one row per content |
| notification | `notifications`, `notification_subscriptions` | subscribe, trigger, list, mark read | 10-minute throttle, read receipts | one trigger per window; under overlap no more than one per request in flight |
| operation configurations | `operation_configurations` | create, gradual rollout, rollback | version chain, racing creates and rollbacks | a version is always in force, a rollback goes down by one |
| feature store, analytics | `feature_*`, `daily_operation_metrics` | define, write values, windows, consistency, daily metrics | two clocks per value, a layer decided once, ties | a mismatch means expiry, counts and averages see the same rows |
| database sessions | the connection pool | open, commit, roll back | atomicity, partial failure | all or nothing |
| audit, access log, encryption, passwords | `immutable_audit_logs`, `sensitive_access_logs` | append, encrypt, hash | append-only | nothing is rewritten |

How they interact: the order service asks the catalog for products and the
promotion engine for discounts, and fixes the price of an order once.  The
payment and after-sales services and the expiry endpoint then share the order
row: no call passes between them, only the columns `paid_amount`, `status`,
`settled_at` and `voided_at`.  Login issues the token pairs every other
endpoint checks.  The project service checks its actors' permissions against
the loaded project.  The seed writes the tables the accounts administer, before
the API opens.  Every service writes to the audit log in its own
transaction.

## 2. The modules

| module | models | from |
|---|---|---|
| `UnitOfWork` | the worker threads, and which columns a commit writes | SQLAlchemy, as `app/db/session.py` sets it up |
| `OrderLedger` | abstract: what order, payment and after-sales promise together, one atomic operation at a time | the validations of the three services |
| `CheckoutSessions` | the same services as requests: reads, checks, commits, crashes | `order_service.py`, `payment_service.py`, `after_sales_service.py` |
| `CheckoutClaims` | documented properties the code does not keep | see section 5 |
| `OrderPricing` | the lines of an order, the four kinds of promotion rules and the totals | `order_service.py`, `promotion_engine.py` |
| `ConfigVersions` | abstract: the versions of a configuration key and the one in force | create and rollback of `operation_service.py` |
| `OperationConfig` | configuration versions, rollout and rollback | `operation_service.py:358-455` |
| `OperationClaims` | a documented property the code does not keep | see section 5 |
| `Logins` | abstract: what login, refresh and logout promise a user: a lockout and a set of open logins | `login` and `logout` |
| `AuthSessions` | lockout, token rotation, logout | `auth_service.py`, `security/tokens.py`, `security/dependencies.py` |
| `ReviewProcess` | abstract: drafts, submissions, verdicts, the end | the status checks of `project_service.py` |
| `ProjectLifecycle` | drafts, versions, reviews | `project_service.py`, `security/project_policy.py` |
| `Notifications` | subscriptions, the throttle, read receipts | `notification_service.py` |
| `NotificationClaims` | a documented property the code does not keep | see section 5 |
| `Accounts` | users, roles, permissions, and lists of them assigned item by item | `auth_service.py`, `admin/security_admin.py` |
| `Provisioning` | abstract: what a start promises, however often it is interrupted | the order of the steps in `container_start.sh` |
| `Startup` | wait, migrate, seed, serve, with crashes of both containers; while it serves, `Accounts` | `container_start.sh`, `seed_demo.py`, `docker-compose.yml`, `alembic/env.py` |
| `Catalog` | products, their flags, the search, the cart and the order line after it | `product_service.py`, `order_service.py:68-118` |
| `FeatureStore` | definitions, values with layer and lineage, the questions asked of them, daily metrics | `operation_service.py:34-356` |
| `OrderProofs`, `CheckoutProofs`, `OperationsProofs`, `AuthProofs`, `ProjectProofs`, `NotificationProofs`, `StartupProofs`, `CatalogProofs` | theorems | |
| `MCCheckout`, `MCPricing`, `MCConfig`, `MCOperations`, `MCAuth`, `MCProject`, `MCNotifications`, `MCStartup`, `MCCatalog` | small instances for TLC; `MCOperations` holds the two halves of the operations service, and a behaviour moves one of them | |

**Composition.**  `OrderPricing` computes the final amount of an order;
`CheckoutSessions` takes it as any member of `Prices`, which are natural
numbers (`CheckoutAssumption`), and that a price is never negative is the type
invariant of `OrderPricing`, proved in `OrderProofs`.  `CheckoutSessions` contains
`Ledger == INSTANCE OrderLedger WITH ...`; the mapping reads `status` and
`price` off the order row, `collected` and `refunded` off the record tables, and
`used` off the keys that have a refund.  `AuthSessions` and `ProjectLifecycle`
contain `Promised == INSTANCE Logins WITH ...` and `Process == INSTANCE
ReviewProcess WITH ...`.  Both mappings show the tables of those users and
projects only that are not contended, and the initial values of the others, of
whom nothing is promised.  `OperationConfig` contains `Versions == INSTANCE
ConfigVersions WITH ...`: of a key that is not shared the highest version, and the
highest that is active.  `Logins` sees neither token pairs nor refreshes: an
open login is one that has a live pair.  `ReviewProcess` sees the contents of the
versions and not their numbers.  `Startup` EXTENDS `Accounts` and takes
its steps while the API serves (`Serve`); a crash ends its sessions.  It contains
`Required == INSTANCE Provisioning WITH ...`, which sees the rows and whether
the API serves, and nothing of the script.

**One shape for requests.**  In `CheckoutSessions`, `OperationConfig`,
`AuthSessions`, `ProjectLifecycle`, `Notifications`, `Catalog` and `FeatureStore` a
request of worker `w` is a `...Load`
action (the reads and every check of the handler that relies on them, snapshot
kept in `snap` or `session`), further read actions where the handler queries
again (`CeilingCheck`, `KeyLookup`, `RollbackLoadPrevious`, `LogoutSelect`,
`CheckThrottle`, `LoadSubscriptions`), and
a `...Commit` action, which is the whole transaction block: assignments,
inserts, constraint checks, `Written` for every updated column.  A request that
its first read refuses changes nothing and is no action.  `Abort` is a dead
worker or a failed transaction at any point between: the session is gone, the
tables stand.  A late commit is a `...Commit` after any number of steps of other
workers.

**Overlap.**  Nothing in the code keeps two requests about one row from being in
flight together.  The models therefore have both environments, and a variable
that is chosen at the start and never changes says which: `overlap` in
`CheckoutSessions` for all orders, because an expiry run loads many; `shared` in
`OperationConfig` the configuration keys, and `contended` in `AuthSessions`,
`ProjectLifecycle`, `Notifications`, `Catalog` and `FeatureStore` the users,
projects, products or objects that may be hit by several requests at once.  One
run shows both kinds side by side.  Properties that say `~overlap`, `\notin
shared` or `\ contended` hold under an assumption about the *clients* (one
request at a time per row) that the code does not enforce, and say nothing of
the races it excludes.

**Correspondence of actions and code.**

| action | code |
|---|---|
| `CreateOrder` | `order_service.create_order` (the price from `OrderPricing`) |
| `ExpireLoad`, `ExpireCommit` | `expire_unpaid_orders`: the select, then the loop and its commit |
| `SettleLoad`, `SettleCommit` | `settle_order`: lines 45-83, then the transaction |
| `ReturnLoad`, `CeilingCheck`, `ReturnCommit` | `create_return` |
| `ExchangeLoad`, `ExchangeCommit` | `create_exchange` |
| `RefundLoad`, `CeilingCheck`, `KeyLookup`, `RefundCommit`, `Reject` | `reverse_settlement_refund`: its three queries in order, the insert under the unique key, the replay and conflict answers |
| `CreatePromotionRule`, `CreateOrder` of `OrderPricing` | `create_promotion_rule`, `create_order` with `PromotionEngine.apply` |
| `CreateLoad/Commit`, `RolloutLoad/Commit`, `RollbackLoad`, `RollbackLoadPrevious`, `RollbackCommit` | `create_operation_config`, `gradual_rollout`, `rollback_operation_config` |
| `LoginLoad`, `LoginFailed`, `LoginSucceeded` | `login` with `_load_user_for_auth`, `_lock_user_if_needed` |
| `RefreshLoad`, `RefreshCommit` | `refresh_token` |
| `LogoutLoad`, `LogoutSelect`, `LogoutCommit` | `get_current_user`, then `logout` |
| `CreateProject` | `create_project` |
| `EditLoad/Commit`, `SubmitLoad`, `ResubmitLoad`, `SubmitCommit`, `RejectLoad/Commit`, `DeactivateLoad/Commit` | the functions of `project_service.py` of those names; `SubmitCommit` is `_create_project_version`, which submit and resubmit share |
| `SubscribeLoad/Commit` | `subscribe_event`; a subscription that is found is left as it is |
| `TriggerLoad`, `CheckThrottle`, `LoadSubscriptions`, `NotifyCommit` | `trigger_notification`: the first query, which starts the transaction and fixes `created_at`, `_is_throttled`, the subscriptions, one row per channel |
| `MarkLoad/Commit` | `mark_notification_read` |
| `CreateUser`, `CreateRole`, `CreatePermission` | `create_user`, `create_role_endpoint`, `create_permission_endpoint`: one insert under a unique name |
| `AssignLoad`, `AssignLookup`, `AssignInsert` | the four assignment endpoints: the target, then for each item the lookups and `assign_role` or `assign_permission` with a transaction of its own |
| `DatabaseReady`, `Migrate` | the `pg_isready` loop, `alembic upgrade head` |
| `SeedReference`, `SeedExistingUser`, `SeedNewUser`, `SeedFinish` | `seed_demo.main`: the reference rows flushed, each user found or created (which commits), the memberships and the last commit |
| `StartApi`, `StartDatabase`, `CrashApi`, `CrashDatabase` | the restart policy of both containers, and what a dead process takes with it |
| `CreateProduct`, `StatusLoad/Commit` | `create_product`, `update_product_status` |
| `Precheckout`, `OrderLoad/Commit` | `precheckout_product`, then the product of a line in `create_order` |
| `CreateFeatureDefinition`, `UpsertLoad/Commit`, `BuildDailyAnalytics` | `create_feature_definition`, `upsert_feature_value`, `build_daily_analytics` |
| `Latest`, `Consistent`, `Windowed`, `Counted` | `verify_feature_consistency`, `sliding_window_average`, `frequency_per_minute` |

**State that is not a column.**  `collected`, `refunded` and `returned` are sums
of rows of their tables; `failed`, `recent`, `signed_out` and `rejected` are what
the audit log says; `token.login` and `token.parent` follow the chain of
rotations the audit log names.  They are read by properties only, except
`refunded`, which is the ceiling query itself.

**Abstractions.**  Amounts are whole cents.  Time is a counter the action `Tick`
advances, and the ages of the code (30 minutes, 7 days, 15 minutes, token
lifetimes) are constants in ticks that keep their order and their boundaries
(`<`, `<=`) from the code.  Names, reasons and messages are left out, content of
a project is a value per column, passwords are the outcome of verifying them.
Database ids are positions in a sequence; the rows one trigger inserts, one per
channel, are one member of it.

## 3. The runs

Deadlock checking is off in every configuration, and has to be: clients may stop
sending requests, and every behaviour ends where a bound does.  The bounds are
guards on starting something new (`MaxCollected`, `MaxReturned`, `MaxRows`,
`MaxTokens`, `MaxVersions`, `MaxRules`, `MaxFailures`, `MaxMarked`,
`MaxProducts`, `MaxCrashes`, the clock); what is in flight can always finish or
abort.  `MaxTriggers`, `MaxSubscriptions` and `MaxValues` stop the commit
instead: the request is then only aborted.

**Fairness.**  Only `Startup` states any: weak fairness of `StartDatabase` and of
`ScriptStep`.  The restart policy `unless-stopped` is the reason for the restart
of either container, the script itself for its other steps: it is a sequence of
commands in which nothing waits except for the database.  Nothing is assumed of
crashes, which are bounded, or of requests.  Handlers of the services run to
their end by themselves; nothing waits, retries or is scheduled (expiry is a
request like any other), so there is no promise of the code that something
eventually happens beyond "the request is answered".

| run | module | what it asks | states |
|---|---|---|---|
| `checkout` | `CheckoutSessions` | one order and two workers, requests that overlap and that do not, crashes and replays: what survives without locks, and, for requests that follow one another, is the row exactly the sum of the records and do the sessions implement the ledger | 1,306,452 |
| `replay_refused` | `CheckoutSessions` | violation, section 5 | |
| `overpayment` | `CheckoutSessions` | violation, section 5 | |
| `pricing` | `OrderPricing` | every pair of rules, every basket of up to two lines: do the totals agree, do rules commute, can a split basket gain or get round a limit | 63,891 |
| `operations` | `OperationConfig`, `FeatureStore` | two administrators on two keys, shared and not: does the version chain stay sound, is a version in force, and does a key with one request at a time go through the atomic versions; upserts of every speed, contended and not, while the clock runs: what do the consistency check, the window and the frequency say | 839,011 |
| `rollback` | `OperationConfig` | violation, section 5 | |
| `auth` | `AuthSessions` | logins, refreshes and logouts, contended and not: lockout and token rotation, and whether a user with one request at a time sees atomic logins | 3,028,498 |
| `project` | `ProjectLifecycle` | applicant, reviewer and manager, contended and not: versions, reviews, deactivation, and whether a project with one request at a time goes through the atomic process | 309,230 |
| `notifications` | `Notifications` | one recipient, contended and not: how many triggers a window lets through, do receipts agree with their times | 1,661,382 |
| `throttle` | `Notifications` | violation, section 5 | |
| `startup` | `Startup` | starts interrupted anywhere, and accounts administered by two workers when it serves: what is served, logged, answered and finally reached | 73,998 |
| `catalog` | `Catalog` | two products that share texts in every way, withdrawn and offered again while a cart waits: does what is sold answer to the text, is it what was shown, and may it be sold | 1,294,432 |

Why the bounds are enough:

* *checkout*: prices 0, 1 and 2 and amounts 0 to 2 give a free order, one that a
  single cent settles and one with a partial payment on each side of a refund;
  a collected total of up to 4 reaches pay, refund, pay again, refund again,
  where only the lifetime ceiling refuses; of two keys one can be replayed while
  the other is used.  Every race here needs two sessions on one row.  The clock
  runs over both boundaries, expiry at 1 and the return window at 2, to 3.
* *replay_refused, overpayment*: the same hazards with one price; the runs stop at
  the first counterexample.
* *pricing*: unit prices 3 and 1; rules on both sides of each threshold, with
  and without their optional parameters, two at a time, which is what can
  interact; quantities up to 4 pass one group and start the next; discounts of
  4 and 5 tenths of a cent are the two sides of rounding.
* *operations*: three rows give one key the chain create, create, roll back,
  create, roll back, or one key two versions and the other one; two
  administrators; two percentages tell a rollout from what it replaces.  Times to
  live 1 and 2, three values and a clock to 3 let a value that was written later
  expire earlier, with every delay between the start of a request, its time
  stamp and its commit.  The two halves share no table, so a behaviour in which
  both move shows nothing that one in which one moves does not.
* *auth*: one user, because no action reads the rows of two, in both worlds
  (`contended` is empty or the user); lockout after 2 attempts so that a third
  falls into and after the lock; lifetimes 1 and 2 put the three expiry
  boundaries on different ticks; three token pairs are two logins and a
  rotation or two rotations.
* *project*: one project in both worlds, three people with different permission
  sets, one of whom may apply and review; three versions, so that a version has
  a predecessor that has one; one column with two values.
* *notifications*: two workers and three triggers, one more than the bound under
  overlap allows; a window of 1 on a clock up to 2 puts a trigger on its end and
  behind it; a subscription for any type or for the one type; receipts of the
  first trigger only, since no action reads those of two.
* *startup*: a superuser and a cashier, so that creating the second user commits
  the flag of the first; two crashes, so that a repaired start is itself
  interrupted; lists whose items are unknown, repeated or bound already, sent
  by two workers.
* *catalog*: two products and two texts are every way a text can be a barcode, a
  code or a name of one product or of both; a status update about one flag
  overlaps one about another.

Workers, orders, keys, texts and projects that no definition names are symmetric
(`Symmetry` in the `MC` modules), except in *startup*, whose liveness property
rules it out; people with permissions are not.

Each property of each passing run has a mutant (`PROJECT.json`): a variant of one
definition, kept next to it and marked `Mutant:`, with a plausible bug in it, a
dropped check or a stale value, under which the property fails in the same run.

## 4. The proofs

TLC checks the instances above; TLAPS proves the following for every value of
the constants that satisfies the named assumptions (amounts are naturals, the
expiry age is less than the return window, `Null` is not a value, ...).  Each
theorem rests on an inductive invariant, proved in three steps (initial, one
lemma per action, one step of the whole next-state relation), and the theorems
follow from it.

| module | theorems | the invariant and why it is needed |
|---|---|---|
| `OrderProofs` | `TypeCorrect`, `BreakdownAddsUpHolds`, `PriorityIrrelevantHolds`, `LimitSeesThroughSplitsHolds`, `SplitNeverPaysHolds` | For any rules, any number of them, and orders of any length. The totals and the engine are recursions on sequences; two inductions (`SumsExist`, `ApplyIs`) show what they compute: the result of all rules is, in each of its parts, the sum of what every rule gives alone (`OneRule`). A sum does not depend on the order of its parts (`TotalPermuted`), and what a rule takes off a line of all the units is no less than off two lines of them (`SavedSuperadditive`). The invariant is `TypeOK` with `BreakdownAddsUp`; the work is in the lemmas about operators. |
| `OrderProofs`, second part | `PaidWithinPriceHolds`, `RefundCeilingHolds`, `StatusMatchesPaidHolds`, `ThroughputBoundedHolds`, `VoidIsFinalHolds` | Of `OrderLedger`, as `Ledger`. The promises are inductive only together: the overpayment check keeps the amount in range because the status says there is something to pay, and the status is right because the amount is in range. `LedgerFresh` adds that an order nobody opened has seen no money. |
| `CheckoutProofs` | `TypeCorrect`, `PaidWithinPriceHolds`, `PaidIsCollectedHolds`, `NoEarlyVoidHolds`, `RefundOncePerKeyHolds` | For any interleaving. A commit writes a value computed from a stale row, so the invariant says what a stale row is still good for (`SnapshotOK`): the price and age never change, its paid amount is in range, and at least that much was collected, since `collected` only grows. |
| `CheckoutProofs`, second part | `LedgerBalancedSerial`, `RefundCeilingSerial`, `StatusMatchesPaidSerial`, `VoidIsFinalSerial`, `Refinement` | Of behaviours without `overlap`, which the properties say themselves. No two sessions hold one order (`Exclusive`), so a loaded row is the stored row (`Current`), and a request's earlier checks still hold at its commit (`Stage`). Every step is then a step of `OrderLedger` or a stutter. |
| `OperationsProofs` | `TypeCorrect`, `ChainDescendsHolds`, `InForceHolds`, `VersionsHold` | For any interleaving. An inactive row was rolled back or has a newer row over it that is neither rolled back nor about to be by somebody who thinks the older one is active (`Replaced`); the first row of a key is never rolled back; the newest row that was not rolled back is therefore active. For keys that are not shared one request is in flight, what it read is still so at its commit (`Fresh`), and no version number is given twice (`Distinct`): the row of a create is then the highest, the row before the one taken back is the highest of those still active, and every step is a step of `ConfigVersions` or a stutter. |
| `AuthProofs` | `TypeCorrect`, `LineageHolds`, `LockedForCauseHolds`, `OneLivePerLoginHolds`, `FailuresCountedHolds`, `SignedOutStaysOutHolds`, `LockStandsHolds`, `Refinement` | For contended users: bounds that stale reads cannot break (no counter, read or stored, exceeds the failures on record; a revoked token stays revoked). For the others: one request in flight, whose row is the stored row. Every step is then a step of `Logins` or a stutter: one live pair per login makes a refresh an exchange that the set of open logins does not show, and the numbering of tokens makes a new login new. |
| `ProjectProofs` | `TypeCorrect`, `HistoryChainedHolds`, `ReviewRecordedHolds`, `RevisedOnRejectionHolds`, `SubmittedAsSeenHolds`, `DeactivatedStaysHolds`, `Refinement` | A loaded version number is never ahead of the stored one, so the unique constraint lets a submission through only if no other was first, and then what it knew of the review still holds. For projects that are not contended the loaded row is the stored row at the commit, which makes every commit one step of `ReviewProcess`. |
| `NotificationProofs` | `TypeCorrect`, `ReceiptMatchesHolds`, `BurstBoundedHolds` | For contended users a count: while the window of a notification is open it throttles every check, so nobody joins those that may still deliver in it, and one that delivers leaves them; what was delivered and what may be are together at most the workers (`Crowd`). For the others, a session that passed the throttle is past every window (`Passed`), so the one notification of a window is alone in it, and a mark knows the receipt it replaces (`Marking`). |
| `StartupProofs` | `TypeCorrect`, `AnsweredIsBoundHolds`, `AuditedOnceHolds`, `Refinement` | What the seed read as existing stays, what it read as missing is in its session, so at every user everything before is stored or about to be (`Seeding`), and the last commit completes it before the API opens (`Served`). Bindings of the seed are therefore there before a request could log one. Every step is a step of `Provisioning` or a stutter. |
| `OperationsProofs`, second part | `FeatureTypeCorrect`, `CountedIsWindowedHolds`, `MismatchMeansExpiredHolds` | For any interleaving a value's two times lie in its request (`Timed`). For objects that are not contended a request starts after everything stored about its object (`Behind`), so both times, and with one time to live the expiry, order the values alike (`Ordered`): the latest value expires last. |
| `CatalogProofs` | `TypeCorrect`, `ShownIsSoldHolds`, `UpdatesKeepApartHolds`, `WithdrawnNotSoldHolds` | Sessions refer to products that exist and the unique indexes keep codes apart (`Unique`), and both the product the cart showed and the one an order found are among the matches of the text (`Referenced`), so both bear it and share no unique column (`ShownIsSold`). For products that are not contended, requests in flight keep apart (`FlightsApart`), so the flags an update names are still as it loaded them and what an order found sellable still is (`StillTrue`). |

Type correctness is proved for every module with sessions and for `OrderPricing`,
where it says that no stored amount is negative: this is what `CheckoutAssumption`
and `LedgerAssumption` ask of prices.  Runs do not always repeat it.

*Induction.*  The totals of `OrderPricing` are recursive functions on the prefixes
of a sequence.  The induction theorems of the library take a predicate as a
parameter, which the installed provers cannot instantiate; that the order of the
naturals is well founded can be used without one (`WFMin`), and gives induction
for a *set* of naturals (`Induction` in `OrderProofs`).  A statement about a sum is
then proved for the set of lengths of which it holds.

The assumptions on constants are evaluated by TLC in the runs of the same
modules.

Only model-checked: `EventuallyServing`, a liveness property, and the absence of
anything worse than the section below in the runs that look for violations.

## 5. Where code and documents disagree

The claims are operators of `CheckoutClaims`, `OperationClaims` and
`NotificationClaims`.  Each run ends in a counterexample
of a few steps.

| run | document | what the model shows the code does |
|---|---|---|
| `replay_refused` | `questions.md:10`: same key and same payload is an idempotent success | the status, amount and ceiling checks run before the key is looked up and judge the order as the first request left it, so a replayed full refund is refused |
| `overpayment` | `payment.py:19` (endpoint): strict overpayment prevention | the remaining amount is read without a lock; two payments of one order pass together and both are recorded |
| `throttle` | `docs/design.md:58`: same recipient + same event/object limited to once per 10 minutes; `questions.md:20-21`: a throttled response instead of creating duplicate notifications | the throttle looks for a recent notification before the transaction that inserts one, and no constraint refuses a second; two triggers in flight together both notify.  What is left of the limit is `BurstBounded`: once per window for a recipient whose triggers do not overlap, and otherwise no more than there are workers |
| `rollback` | `questions.md:34-35`: should rollback always restore immediate previous active config version? Yes | without any overlap: create, create, rollback, create, rollback puts version 2 in force, which the first rollback had taken back, and not version 1, which was in force before version 3; a create chains to the highest version and not to the active one.  What the code does keep is `ImplementsVersions`: one version down |

More of the same root that no run of their own shows.  Two refunds with different
keys in flight together exceed the ceiling that `after_sales.py:111` (endpoint)
says is enforced, because the sum is queried before the insert (`RefundCeiling`
holds only without `overlap`).  An expiry run selects
first and voids later, so an order that settles in between is voided
(`docs/design.md:52` makes pending and partially paid orders eligible).  A payment
loaded before an expiry run commits is recorded on the order it voided
(`VoidIsFinal` holds only without overlap).  Two creates of one key in flight
together give one version number twice and leave two versions active (nothing is
promised of `shared` keys but the chain and a version in force).  A rejection or submission in flight during a deactivation
brings the project back (`DeactivatedStays` holds only for projects that are not
contended).

Of the catalog and the feature store, seen while modelling:

* the search takes any of several matches, so an order may sell another product
  than the cart showed, but only one that answers to the same text; `ShownIsSold` says
  when that is possible: the text is then in different columns of the two, or it is
  the name both have;
* retrieve answers 423 for a text whose first match is inactive, although an
  active product bears it too;
* the storage layer of a value is decided once, when it is written and its expiry
  is still ahead, so nothing becomes cold at its expiry (`docs/design.md:61-64`
  describes two layers); the consistency check then reports a mismatch, which
  `MismatchMeansExpired` shows to be the only reason it has for objects whose
  upserts do not overlap.

## 6. What is not modelled

`PROJECT.json` lists every component with its reason.  In short:

* *attachments*: one insert under a unique fingerprint and one scoped read; no
  other component reads the rows, and a second attachment of the same file is an
  error nobody catches;
* *no state or no decision*: receipts, CSV export, correlation, routing, schemas,
  exception handlers, settings, logging;
* *append-only*: the audit and access logs are written in the transaction of the
  handler and never read back; the models use what they say where a property
  needs it;
* *libraries*: encryption, password hashing, token generation;
* *the tables themselves*: the migrations create the schema and are a single
  step of `Startup`; an index or a constraint is modelled where a handler meets
  it.

Inside modelled components: read operations change nothing and are no actions
(the searches, windows and checks that properties speak of are operators);
`change_password` replaces a hash, and `reveal_sensitive_contact` is a read that
appends to the access log; audit entries that no property needs, reasons and
formatting are left out; returns are registered but, as in the code, do not count
in the refund ceiling, so no property bounds them; the numbers of feature values
and of daily metrics are left out, and a second build of a day is refused as the
unique index does, without the answer it gets; the promotion and the price of
an order line are in `OrderPricing`, its product in `Catalog`.

## 7. Plan

Done, with theorems: pricing and the money of an order (ledger, sessions,
refinement), the configurations, login and tokens (sessions, refinement), the
project lifecycle (sessions, refinement), notifications, the catalog, the
feature store, accounts with the start of the container (sessions, refinement,
liveness).

What is left, in this order:

1. Permissions that change under a request: `Accounts` composed with
   `ProjectLifecycle`, whose `Permissions` are fixed today.
2. Attachments, with the fingerprint and the scope of their readers.
