# Mnemo API: formal model

Mnemo is a FastAPI service for spaced repetition. PostgreSQL holds the data, Redis carries the
import-job ids and the rate-limit counters, and a separate worker process imports CSV files. This
directory holds TLA+ models of the parts in which several requests, processes or failures meet, TLC
runs that check them on small instances, and proofs, checked by TLAPS, that hold for every instance.

Paths are relative to the repository; `services/`, `api/`, `workers/`, `models/`, `middleware/` stand
for directories under `src/mnemo/`. `PROJECT.json` maps every definition to the lines it models.

## 1. Inventory

Every HTTP request runs in one database transaction (`db/database.py`, `get_db`): a COMMIT after the
handler returns, a ROLLBACK if it raises. PostgreSQL runs at its default level, READ COMMITTED: each
statement sees what is committed when it starts, a statement that meets a locked row waits for it and
looks at it again. This is where most of the hard behaviour comes from: SQLAlchemy reads a row,
Python computes, a flush writes the result back, and nothing but an explicit `with_for_update()`, a
unique index or a foreign key orders two requests.

| component | state | operations | interacts with |
|---|---|---|---|
| CSV import (`api/v1/routes/imports.py`, `services/import_job.py`, `workers/import_worker.py`, `db/redis.py`) | `import_jobs` rows, the Redis list, the worker's loop | upload, enqueue, BLPOP, claim from the table, import, fail, requeue, reset at start | decks (cards are inserted; deleting a deck cascades to its jobs) |
| Study sessions (`services/session.py`) | `sessions`, `session_cards` (answered, position) | start, answer, skip, end, expiry | memory states (an answer updates them), cards (deletion cascades) |
| Memory states (`services/spaced_repetition.py`, `api/v1/routes/memory_states.py`) | `card_memory_states`: ease, interval, repetitions, streak | get-or-create under a lock (looking a state up creates it), update after an answer | sessions, cards |
| Decks and cards (`services/deck.py`, `services/flashcard.py`) | `decks.card_count`, `decks.version`, `flashcards` | create, edit, delete a card; import; rename, delete a deck | imports, sessions |
| Deck names, idempotency keys (`services/idempotency.py`, `services/deck.py`) | unique constraint on the name as written, `idempotency_keys` | creation with a key, replay, expiry, renaming | decks |
| Rate limits and size limits (`middleware/rate_limit.py`, `middleware/input_limits.py`) | fixed-window counters in Redis | count, refuse, fail open | every request |
| Accounts (`services/user.py`, `services/api_key.py`, `services/auth.py`, `api/dependencies.py`) | `users`, `api_keys`, signed tokens | provision, create, rename, consent, delete, exchange a key, log in | every request |
| Study plans (`services/plan.py`) | `study_plans` | create from the deck's card_count, read the latest | decks |
| Progress (`services/progress.py`) | none of its own: computed from answers and memory states | streak, cards due today, reports | sessions, memory states |
| Flutter client (`apiapp/lib/core/api`, `apiapp/lib/features/auth`) | the API key and user id in the secure storage, the token in memory | log in, refresh, log out, react to 401 | the API |

What makes each one correct:

- *import*: an accepted file is imported at most once and completely or not at all, its status tells
  the truth, its outcome is final, and every accepted job gets one;
- *sessions*: a card is scored once, an answered card stays where it is, positions are distinct, a
  session ends when (and only when) its cards are answered or somebody ends it;
- *memory states*: no answer is lost or counted twice; the schedule follows from the run of correct
  answers; a better answer is never punished;
- *decks*: card_count is the number of cards, a change of the cards shows in the version, nothing
  outlives its deck, requests do not wait for each other for ever;
- *names and keys*: no two names of one user are written alike; a repeated request finds the answer of the first one;
  an answer never tells of a deck that does not exist;
- *rate limits*: no more requests of a window pass than its limit, nobody is refused for nothing,
  counters do not pile up;
- *accounts*: names differ, an account and its key exist together, consent shows the last word,
  somebody can still administer;
- *plans and progress*: a plan covers the deck if the time suffices and never asks for more time than
  there is; the streak is what a diary would show; due today means due by today's date;
- *client credentials*: key and id in the storage, and the token in memory, are of one account; a
  refused token does not come back; every task ends.

The hazards, each at the line where it bites and with the properties that would catch it, or a note on
why none does, are the list "hazards" of `PROJECT.json`.

## 2. The modules

| module | what it is |
|---|---|
| `ImportPipeline` | upload handler, Redis list, jobs table, any number of workers, deck deletion, faults |
| `ImportContract` | what the pipeline promises: the abstract specification it implements |
| `StudySession` | one session under concurrent answers, skips, ends, direct answers, look-ups of memory states, card deletions |
| `SpacedRepetition` | the arithmetic of one card's memory state under any sequence of scores |
| `DeckCards` | one deck's cards and its two counters under every request that writes them |
| `IdempotentCreation` | the decks of one user: names, keys, renaming, expiry |
| `RateLimit` | the counters of the limiter in Redis, its two ways of counting, faults, and the size check after it |
| `Accounts` | accounts, API keys, consent and tokens under concurrent requests |
| `StudyPlan`, `StudyDays` | the making of a plan, a day per step; and, extending it, the days it is made in: answers, due dates, zones |
| `ClientCredentials` | the token, key and id of the Flutter client, its tasks and the storage they share, with a server that expires tokens |
| `*Proofs` | the theorems about each of them; those about `SpacedRepetition` are in `StudyDaysProofs` |
| `MC*` | the small sets TLC uses |

Conventions. A variable holds *committed* data. What an open transaction has read, locked and written
is in `tx[r]` (for a worker: in `pc[w]`), because a transaction here writes only rows it has locked or
index entries it has reserved, so that its writes can take effect at its commit. One action is one
statement that can wait, or one stretch of code between two of them. A wait is a guard
(`Free`, `DeckFree`, `Insertable`, ...). PostgreSQL's deadlock detector is the action
`DeadlockVictim`, enabled for each member of a minimal cycle of waits. Variables marked "history"
(`answers`, `drills`, `stale`, `told`, `wish`, `crossed`, `feud`, `hits`, `late`, `run`, `last`,
`altered`, `refused`, `overtaken`) exist for the properties only.

Each module has one type invariant, `TypeOK` (`MemoryTypeOK`, `PlanTypeOK`). Four of them are checked by a run of their own module;
those of `RateLimit`, `Accounts`, `ClientCredentials`, `StudyDays` and `SpacedRepetition` are there for the
reader and for the proofs (add them to the INVARIANTS of a configuration to check them). All are proved,
that of `StudyDays` as a part of its inductive invariant.

### ImportPipeline and ImportContract

`Submit`/`Enqueue`/`EnqueueLost` are the three ways through `import_csv`: the job row is committed
first, the RPUSH follows, and a Redis error is swallowed. A worker goes round the loop of
`run_worker`: `Start` resets PROCESSING jobs; `Dequeue` or `DequeueNothing` is the BLPOP; `LockJob` is
the SELECT ... FOR UPDATE of `_process_job`; `ClaimDbJob` is `_claim_db_job` with SKIP LOCKED;
`Import`/`Reject` are the two ways through `process_import_job`; `MarkFailed` is the exception
handler, which has rolled back, so that its lock is gone; `Commit`, `CommitFails` and `GiveUp` are the
end of the transaction, where a Redis job is requeued (`Requeue`, `RequeueLost`) and a job from the
table is not. `DeleteDeck`, `DeleteCommit`, `DeleteAborted` are the deletion of a deck with its
cascade. `DbError`, `CommitUnacknowledged` and `Crash` are the faults. Of a file the model knows
whether the parser accepts it and whether the database does (`Contents`).

`ImportContract` has no queue, no worker and no crash: a job is accepted, then completed together
with its cards or failed without them, exactly once, and is forgotten only with its deck; and an
accepted job does not stay queued. `ImplementsContract` is the refinement (`outcome <- status`).

### StudySession

The model follows `SELECT ... FOR UPDATE ORDER BY position LIMIT 1` closely, since everything hangs on
it: `Pick` takes the sorted snapshot, `LockHead` waits for the lowest row of it and then looks at the
row *as it is now* (a row that no longer matches is passed over, but its lock is kept; one that does
is returned whatever its position is by then). `RankTop` and `LockTop` do the same for the highest
row in `skip_card`. `ReadMemory` is `get_or_create_memory_state`, `Flush` the flush (an INSERT of a
new memory row waits for a rival's and fails if it was committed: `InsertFails`), `IsLast` the query
for another unanswered card. `Drill` and `Peek` are the two routes that call `get_or_create_memory_state` without a
session, `POST /cards/{id}/answer` and `GET /cards/{id}/memory`. The second one writes, too: it commits a row with
no reviews for a card that had none, which is why the model keeps the set of cards that have a row (`stored`) apart
from the reviews counted in it. `Refuse` is every way to the 409; it changes nothing, because the ENDED
that the code flushes for an expired session is rolled back with the exception.

### SpacedRepetition

The ease is kept in hundredths, in which every change of the code's floats is exact; the one place
where a float can differ, a product just above a whole number before `math.ceil`, is a
nondeterministic extra day (`RoundedUp`). `BeyondHorizon` is the OverflowError of
`now + timedelta(days=interval)`; the request fails and changes nothing.

### DeckCards

`ReadDeck` is the unlocked read of the counters, `FlushDeck` the UPDATE that waits for the deck's row,
`FlushCard` the statement on the card's row that follows it, `CountCards` and `WipeCards` the two
statements of `_wipe_deck_cards`, `CommitDrop` the deletion of the deck with what the cascade takes
along. `NewCount`, `NewVersion` and `Written` are the sums as the code computes them from what it
read (the ORM leaves unchanged columns out of the UPDATE). Concurrent requests really do overwrite
each other's sums (`DeckLostCount.cfg`); the history variable `stale` becomes TRUE at the first such
commit, and `CountRight` and `VersionTells` say that there is no *other* way for the counters to go
wrong.

### IdempotentCreation

`LookUp` and `WipeRecord` are `get_idempotency_record` (replay, or delete what has expired),
`CheckName` is `_deck_name_exists`, `WriteName` the INSERT or UPDATE against the unique constraint on the
name, `StoreRecord` is `store_idempotency_record` in its savepoint, `Commit` the end of
`get_db`, with or without the answer reaching the client, `Lose` a request that ends before it.
A conflict found by `CheckName` is an ordinary answer and its transaction is committed, the deletion of
an expired record included; one found by the constraint is a rollback.

The look-up compares names in lower case (`Namesakes`, with the constant `Lower`), the constraint as they are
written. `models/deck.py:25` declares a unique index on lower(name) as well, `ix_decks_user_name_lower`, but the
database is made by `alembic upgrade head`, and no migration creates it: there is only `uq_decks_user_name`
(`alembic/versions/6f9b2c1a7d4e_add_decks_flashcards_idempotency.py:44`). So `NamesDiffer` speaks of names that are
written alike. Of names that differ in case only two can come to exist (`CaseTwins.cfg`); `CheckName` then has its
third case, the error of `scalar_one_or_none`.

### RateLimit

`Arrive` reads the clock once: the window's number goes into the counter's key, the rest of the window
becomes the time to live. `Eval` is the script; `EvalFails` leads to the substitute, `Incr` and `Expire`;
`IncrFails` and `ExpireFails` let the request pass uncounted (`Admitted`). Every failed command has two
versions: not applied, and applied with its reply lost. `Crash` ends all requests under way. `Judged`
follows the reply without an await and hands over to `SizeAnswer`, the middleware behind. `Tick` lets
Redis drop what has expired. Headers are left out. Limits and windows are constants, so the numbers of
`core/constants.py` are one instance.

### Accounts

A request is one transaction that begins with its authentication, whose SELECT is the only read of the
row: what `BeginConsent` loads decides what the ORM later writes (`Consented`: a column that has not
changed is left out, and `Idle`: a revocation that found nothing to revoke writes nothing).
`CheckName` is the look-up of `provision_user`, `WriteName` the INSERT or UPDATE against the unique index
on the normalized name (409 for provisioning, an error for the others), `WriteKey` the API key in the
same transaction, `UseKey` the `last_used_at` stamp of `validate_api_key` with its row lock, `WriteDelete`
and `Cascade` the deletion of a user with its keys. `CommitToken` and `Login` are the two ways to a
token. `DeadlockVictim` and `Lose` end a request without effect.

Abstractions. Every account has a name; only provisioned ones have a password. Of all tokens issued to
an account the model keeps the widest scope, and none expires here (`ClientCredentials` has expiry). Names
are trimmed and in lower case. `revoke_api_key` is called by no route and is left out, and so are the
operations that only read.

### StudyPlan and StudyDays

`AskPlan` computes `DailyTarget` and `MaxByTime` as `create_plan` does, `PlanDay` is one turn of the loop in
`generate_schedule`. `StudyDays` puts it into a calendar: instants are in UTC and dates are computed, on
every request, with the offset that the user's zone has at the instant in question (`Date`), so that a
move (`MoveTo`) or a change of daylight saving time moves the dates of past answers. `Study` is an
answer in a session, `Review` a direct answer, which moves the card's due date but is no answer of a
session. `Streak` and `DueToday` are the two computations, `EndOfToday` the instant up to which a card is
due. The variables `run` and `last` are a diary kept day by day, the reference the streak is compared with.

### ClientCredentials

Dart runs one task at a time and switches at an `await`. A task is in one of four places: `idle`; `sent`,
its request on the way; `served`, the answer on the way; `storage`, waiting for the secure storage, which
works off `queue` in order, one key at a time (`StorageStep`). `TokenComes`, `CallSucceeds`, `Refused` and
`Fails` are what a task does with an answer, up to its next await. `Refused` is the interceptor of a 401:
its handler drops the token, asks for the storage to be cleared and goes on by itself (`handler`), while
the exception reaches the task (`Caught`), which, if it is a refresh, asks for the same again. `Fails` is
every other failure, the time-out of a request that the server has served included. The server
(`Serve`, `Expire`, `Close`) issues tokens, and forgets them.

## 3. The runs

| run | instance | states | shows |
|---|---|---|---|
| `import_one_worker` | 3 jobs, 2 decks, 1 worker, 1 fault, 1 crash | 186 000 | types; an outcome is final; the contract is implemented (a failed job leaves no cards, a completed one has them), liveness included |
| `import_two_workers` | 2 jobs (one overlong), 2 decks, 2 workers, 2 faults, 1 crash | 265 000 | at most one import per job; status and cards agree; ids do not multiply |
| `session_requests` | 3 cards, 2 connections; answer, skip, end, direct answer, look-up; positions to 4 | 4.0 million | no card scored twice, no review lost, answered cards stay, a skip moves a card back, ended sessions stay ended and end only when done |
| `session_progress` | 2 cards, 2 connections; answer, skip, look-up, delete | 339 000 | every request is answered although they lock rows in different orders |
| `deck_requests` | 2 cards, 2 connections, every request, edits up to version 4 | 260 000 | counters right until a stale sum is written; no orphans; every request is answered |
| `repetition_schedule` | all scores, horizon 1000 days, ease up to 3.00 | 109 000 | intervals are earned, grow, and a better score is never worse |
| `creation_requests` | 3 clients, 2 keys, 2 names that differ in case only, 3 decks, rename, delete, expire | 354 000 | no two names are written alike; answers tell of real decks; a stored answer is replayed |
| `rate_limit` | 4 requests of one client to two endpoints, windows of 2 and 3 ticks, limits 1 and 2, 2 faults | 1.05 million | the limit holds; refusals have a cause; a counter without expiry needs two faults |
| `account_requests` | 3 accounts that want one name, 2 connections, every request | 388 000 | names differ; keys and accounts live together; consent shows the last word; an admin is left unless one was deleted by a deleted one |
| `study_days` | 2 decks, 2 zones (one with a change of its offset), 6 ticks of half a day, 3 answers; plans for 0 or 12 cards, 1 or 5 days, 1 or 8 minutes | 2.13 million | plans fit; the streak is the diary's; due today means due by date, but for cards due near midnight across a change of the offset |
| `client_credentials` | 2 tasks, 2 accounts, 2 tokens, calls with and without a token | 661 000 | pairs match; a refused token is not reused; the token is of the stored account; every task ends |
| `credentials_lost` | 1 task, 1 account, 1 token | | VIOLATED: a refresh that timed out takes the key of an open account from the storage |

Seven more configurations, all violated, reproduce the observations of the next section: run
`tlc -config ImportHeadOfLine.cfg MCImportPipeline.tla`, and likewise `SessionPositions` and
`SessionNeverEnds` with `MCStudySession`, `DeckLostCount` with `MCDeckCards`, `CreationRetryConflict` and
`CaseTwins` with `MCIdempotentCreation`, and `ConsentRevoked` with `MCAccounts`.

Why the bounds are enough to be interesting. Two connections suffice for every race between a read
and a write of one row; three cards let a skip wait for a row that a second request has moved while a
third card is the new maximum; three clients on two keys let a request with a key, another one with
the same key and a third with the same name overlap. `MaxPosition`, `MaxVersion` and `MaxDrills`
only stop *new* requests, never one in progress (`MaxDrills`: no direct answer is begun once a card has had this
many). In `import_two_workers` two faults allow a lost
acknowledgement and a second failure of the same job. With the ease bounded by 3.00 (0.5 above its
start) and a horizon of 1000 days every branch of the arithmetic is taken, the overflow included; the
proofs need neither bound. `session_requests` leaves deletions to `session_progress`, and the proofs
of its invariants cover them.

In `rate_limit` four requests are enough to exceed either limit and be counted twice, and two faults to lose a reply
and then stop between INCR and EXPIRE; the clock reaches tick 2, so that a window of two ticks ends and one of three does not. In
`account_requests` one name for three accounts makes every pair of writers meet at the index, and three
accounts are needed for two admins to delete each other with a third looking on. In `study_days` a day has
two ticks, so that the offsets 0 and 1 move midnight, and the change of the offset comes at tick 3 of 5;
of the plans, that of 12 cards in 5 days of 8 minutes has days whose reviews are cut to the time that is left.
In `client_credentials` two tasks suffice for every race of a refresh with a login, a logout or a 401, and
two tokens for a token to be replaced; the proofs hold for any number.

`deck_requests` and `creation_requests` contain a stuttering action `Rested` for the state in which
nothing is left to ask (the deck is gone, or all ids are used up), so that TLC's deadlock check means:
no request is ever stuck. The deadlock check is off where the model runs out of things to do: in `rate_limit`
each request is sent once and the clock stops; in `account_requests` ids are generated once and the last
account can be deleted by its rival; in `study_days` the clock stops; in `client_credentials` tokens run
out while all accounts are closed.

### Fairness

`ImportPipeline`: weak fairness of each worker's next step (the loop runs, and `docker-compose.yml`
restarts the container: `unless-stopped`) and strong fairness of the commit of a deck's deletion
(PostgreSQL hands a released row to a waiter). Nothing is assumed of clients, Redis or the faults,
and the faults are bounded, as any promise of progress requires. `StudySession` and `DeckCards`:
strong fairness of each connection's next step, for row locks that are handed on in turn and deadlocks
that are broken; no request has to arrive. `ClientCredentials`: weak fairness of the storage's next step
and of each task's answer, because Dio is given connect, send and receive time-outs
(`apiapp/lib/core/api/api_client.dart:24`) and therefore always comes back with something; nothing is
assumed of the server. `RateLimit`, `Accounts` and `StudyDays` have safety properties only.

## 4. What the counterexamples say

- **A refresh that merely timed out logs the user out for good** (run `credentials_lost`,
  `apiapp/lib/features/auth/auth_repository.dart:93`). The comment one line above says that stored
  credentials are cleared if the exchange fails with 401, and so does `apiapp/docs/SPEC.md:648`; the code
  catches every `ApiException`, which is also what a time-out, a broken connection, a 429 and a 5xx become.
- **The oldest job that cannot be committed starves the others** (`ImportHeadOfLine.cfg`,
  `workers/import_worker.py:123`). Rows are flushed by the commit, outside of the try block that would
  record FAILED; the job stays QUEUED, is the oldest, and is claimed again by every poll of the table. A
  job whose id never reached Redis is then never imported.
- **Two skips compute the same position** (`SessionPositions.cfg`, `services/session.py:281`): the row that
  was the highest is locked, but by the time the lock is granted it need not be the highest.
- **A session whose last two cards are answered at the same time never ends**
  (`SessionNeverEnds.cfg`, `services/session.py:209`): each request still sees the other's card open.
- **card_count loses updates** (`DeckLostCount.cfg`, `services/flashcard.py:53`).
- **A repetition that overlaps its first request is a conflict** (`CreationRetryConflict.cfg`,
  `services/deck.py:47`): the key is stored after the name is taken.
- **Two decks can have names that differ in case only** (`CaseTwins.cfg`, `services/deck.py:36`). Two creations look
  the name up at the same time and both commit, since the constraint in the database is on the name as written;
  `models/deck.py:25` declares an index that would refuse the second one, and
  `tests/unit/test_deck_service_edge_cases.py:15` says that a name that differs in case is a conflict. From then on
  every creation or renaming to that name ends in an internal error, because `scalar_one_or_none` finds two rows.
- **A revocation of consent that overlaps a grant can be lost** (`ConsentRevoked.cfg`,
  `api/v1/routes/provision.py:155`): a revocation that loaded the account before the grant was committed
  finds nothing to revoke and writes nothing, although it commits, and is answered, after the grant.
  `ConsentTells` says that there is no other way.

Further observations made while modelling, for which no configuration is kept:

- PROCESSING is flushed but never committed, so no client ever sees it, although
  `apiapp/docs/SPEC.md` lists it among the states of a job.
- With a *second* worker an outcome can be overwritten: the handler of a failed import has given up
  its lock and writes FAILED over whatever is there (`services/import_job.py:252`). `OutcomeIsFinal`
  is therefore checked for the one worker that `docker-compose.yml` starts.
- An answer or skip that has read the session as active commits after `end_session`
  (`services/session.py:166`): there is no lock on the session's row. It does not reopen the session
  (`EndedStaysEnded`).
- Two simultaneous skips move the same card twice, the second one from the end
  (`services/session.py:266`).
- The interval has no upper bound. After thirteen perfect answers in a row `due_at` is past the last
  date Python has, and this and every later correct answer fails (`services/spaced_repetition.py:83`).
- If the deck of the first request is renamed while a repetition is under way, the repetition
  creates a second deck: that the key is taken is noticed in the savepoint and ignored.
- A renaming that loses the race for its name ends in an internal error instead of a 409:
  `services/deck.py:153` reads an attribute of the deck after the rollback has expired it.
- An end_session that overlaps another one overwrites `ended_at` (`services/session.py:318`).
- A late 401 to a request that was sent with an old token deletes the credentials of a login that came
  in between (`apiapp/lib/core/api/api_client.dart:51`). What is left is whole (`PairsMatch`), but nothing is.
- A rename to a name that is taken, and a creation by `POST /v1/users`, end in an internal error: only
  provisioning turns the refusal of the index into a 409 (`services/user.py:331`).
- A provisioning whose answer is lost has made an account whose key nobody knows, and its name is taken
  from then on; there is no Idempotency-Key on that route.
- The end of today is computed with the offset there is now: on the day on which the clock changes a card
  that is due in the last hour falls on the wrong side (`services/progress.py:129`). `DueTodayByDate`
  says that this is all that goes wrong: a card on the wrong side is due no further from midnight than the offsets
  are apart, what is overdue is counted, and nothing is counted that is due a whole day from now.
- A progress report reads its sums in several statements, each with a snapshot of its own, so that its
  numbers need not agree with each other while answers arrive.
- A card creation with an Idempotency-Key always fails: `db.begin()` at `api/v1/routes/cards.py:77` is
  called on a session whose transaction the authentication has already begun. Because of that the
  functions reserve_ and finalize_idempotency_record are never reached.

## 5. What is proved

All theorems hold for *every* value of the constants: any sets of jobs, decks, workers, cards, clients,
keys, names, tasks and accounts, any windows, offsets and bounds. They rest on the named assumptions
of the modules, which only say that marker values such as `NoCard` are not members of the sets, that
bounds are numbers, and that cards are finitely many; TLC evaluates them in the runs. Two theorems have
a hypothesis of their own: `ContractKept` and `OutcomesAreFinal` speak of one worker (`OneWorker`), which
is how `docker-compose.yml` starts it, and do not hold for two.

| theorem | property | why it needs more than itself |
|---|---|---|
| `ImportPipelineProofs!TypeCorrect` | `TypeOK` | inductive as it stands, with what a worker's place says about its job |
| `ImportedAtMostOnce`, `StatusAgreesWithCards` | `AtMostOnce`, `StatusMatchesCards` | two open transactions never have the same job (`LockExcludes`); an import under way still finds its job QUEUED (`ImportsQueued`); only ids of stored jobs travel (`KnownIds`); PROCESSING is never committed (`StoredOnce`) |
| `DeliveredOnce` | `OneDelivery` | a job whose id is still to be pushed is nowhere yet (`NotYetSent`); a worker that requeues a job is the one that took it from the list (`RequeuesOwn`) |
| `ContractKept` | the safety half of `ImplementsContract` | step by step: `Contract!Init` at the start, and every step is one of `Contract!Next` or leaves its variables alone; with one worker a job that is about to be marked FAILED is still QUEUED (`FailsQueued`) |
| `OutcomesAreFinal` | `OutcomeIsFinal` | the same invariant, through the contract |
| `StudySessionProofs!TypeCorrect` | `TypeOK` | no row has two locks |
| `NoCardAnsweredTwice`, `NoReviewLost` | `AnsweredOnce`, `ReviewsCounted` | a request past its lock holds a card that is still open (`CardTaken`); an open card has no answer (`OpenUnanswered`); memory rows have one writer (`MemoryExclusive`), and what that writer has read is still there (`MemoryKnown`) |
| `AnsweredCardsStayPut` | `AnsweredStaysPut` | the same invariant, and that a session starts empty (`Fresh`) |
| `SkipsMoveBack`, `EndedByLastAnswer` | `SkipMovesBack`, `EndsOnlyWhenDone` | what a request remembers stays true while others commit (`Looks`): no position it has read is beyond the committed one, the place it has chosen is behind its card, and a request that is to end the session holds the only card left open |
| `NeverReopened` | `EndedStaysEnded` | no more than the steps themselves: none that writes the session's row makes it active again |
| `StudyDaysProofs!MemoryTypeCorrect`, `IntervalAlwaysEarned` | `MemoryTypeOK`, `IntervalEarned` | together inductive; rests on monotonicity of products and of rounding up |
| `IntervalAlwaysGrows`, `BetterAnswersLater` | `IntervalGrows`, `BetterIsLater` | an ease of at least 1.30 lengthens every interval of at least a day (`Lengthens`) |
| `DeckCardsProofs!TypeCorrect`, `CountAlwaysRight`, `NeverOrphans` | `TypeOK`, `CountRight`, `NoOrphans` | versions grow as long as nobody writes stale sums (`Seen`); so a REPLACE that still has the current version has deleted every card there is (`Emptied`); pending ids are new and unshared (`Fresh`) |
| `VersionAlwaysTells` | `VersionTells` | the same invariant |
| `IdempotentCreationProofs!TypeCorrect`, `NamesAlwaysDiffer` | `TypeOK`, `NamesDiffer` | names here are names as written; one that is written and not committed belongs to nobody else (`Reserved`), and no two transactions have written the same entry (`Apart`) |
| `ToldDecksExist` | `ToldIsThere` | a deck's name never goes back to NoName |
| `StoredAnswersAreReplayed` | `StoredIsReplayed` | no two stored answers tell of one deck (`OneRecordEach`), so that a request that deletes an expired record deletes that one and no later one (`WipesOld`); an answer is stored only under a free key (`StoresFree`); so what is owed to a request that has not looked yet is still there (`OwedIsThere`) |
| `StudyDaysProofs!PlansFit` | `PlanFits` | what is still to be introduced fits the days that are left (a target of total over days, rounded up, leaves nothing), each day's reviews fit what its new cards leave of the time |
| `StreakAlwaysOfDiary` | `StreakOfDiary` | the dates with answers are those of the diary: the last `run` days up to `last` are among them, the day before is not, and none is later |
| `DueTodayAlwaysByDate` | `DueTodayByDate` | arithmetic of rounded quotients, for any two offsets: now lies in the day that the cutoff ends (`EndOfTodayRight`), and an instant that two offsets put on different sides of midnight is no further from it than they are apart (`BetweenOffsets`) |
| `RateLimitProofs!TypeCorrect`, `LeaksNeedTwoFaults` | `TypeOK`, `LeakNeedsTwoFaults` | no counter goes away before its window is over (`Expiries`); INCR alone follows a failed EVAL (`ShapeOf`) |
| `LimitAlwaysKept` | `LimitKept` | as long as the window lasts, each request counted in it holds a place of its own, none beyond the counter (`Places`); those who pass therefore map one to one into the places up to the limit |
| `AlwaysRefusedForCause` | `RefusedForCause` | the counter is no further than the requests that took a place and those a fault has hit, unless these have reached the limit (`UsedUp`); the sets only grow, and are finite because only finitely many requests have been sent |
| `AccountsProofs!TypeCorrect` | `TypeOK` | rows and keys are taken only when free (`AdvanceStep`) |
| `NamesAlwaysDiffer` | `NamesDiffer` | the name a request has entered is no other account's (`Reserved`), and two requests have entered different ones (`Apart`) |
| `AlwaysKeyed` | `KeyedAccounts` | account and key are committed together; the id of an account about to be is nobody's yet (`Fresh`); a creation makes no admin (`Shape`) |
| `ConsentAlwaysTells` | `ConsentTells` | a request that met no opposite one leaves both columns as it wanted, whatever it loaded (`ConsentArrives`); an account that is gone has no wish (`NoOrphanWish`) |
| `AdminAlwaysLeft` | `SomeAdminLeft` | who deletes, if still there, has the key of an admin (`ByAdmin`), because only such an account gets an admin's token (`TokensRight`), and is not the one deleted; left out is the deletion of an admin by one deleted before (`feud`) |
| `ClientCredentialsProofs!TypeCorrect` | `TypeOK` | inductive; tokens once issued stay issued |
| `PairsAlwaysMatch` | `PairsMatch` | speaks of what the storage *will* hold once the queue is done (`Leaves`): the id it will hold is that of the key it holds now; what a refresh has read of the key is what it will read of the id (`Underway`), because whoever asks for the key later also comes later with the id |
| `RefusedNeverReused` | `RefusedNotReused` | a token on its way to the client is carried by no request and is known to nobody else (`NewToken`) |
| `TokenAlwaysOfStored` | `TokenOfStored` | the key that will be stored is the one the token was issued for, or none (`Tracks`); a refresh that nothing has overtaken has read such a key (`OnlyCleared`, `Sends`) |

The proofs are laid out alike: lemmas on what a step does to the one request or worker it moves
(`Updated`, `StepTyped`, `QuietStep`, ...), one lemma or step per action, and a last step that combines
them with the temporal logic.

**Only model-checked**: liveness (`RequestReturns` of two modules, `TasksEnd`, and the promise
`EventuallyResolved` in `ImplementsContract`), which is out of the prover's reach. Every other property of
the passing runs is a theorem. No definition here is recursive, so that no induction over data, which is
out of reach too, is missing.

## 6. What is not modelled

- What rows a CSV file yields and which of them are duplicates; what cards and answers say; the fuzzy
  evaluation of an answer: data that no property here depends on.
- Handlers that only read (`GET /cards/{id}/memory` is none of them, see `Peek`), pagination, the summary of a session.
- Deck creation without a key: it is the creation of the model less its lookup and its record.
- Several sessions of a user, several decks with shared cards: rows of different sessions and decks do
  not meet, except in the memory states, where the direct answers (`Drill`) stand for the others.
- The sums and rates of the progress reports, apart from the streak and the cards due today; the labels
  of a plan; headers and messages of the limiters.
- The time `ended_at` of a session; which card of a file is a duplicate of which.
- Profile fields other than name, consent and zone; `revoke_api_key`, which no route calls; accounts
  without a name.
- Of the client, everything but its credentials.
- Scripts that fill a database with test data.
- Configuration, static tables of countries and time zones, health checks, migrations, the client's
  user interface: no state, or no logic of their own.

## 7. Plan

The order is that of importance to the user's data.

1. *Done*: the import pipeline and its contract; sessions and memory states; the arithmetic; decks and
   counters; names and keys; rate limits; accounts; plans and days; the client's credentials; the
   theorems above.
2. *Imports and card creations on one deck*: duplicates that two imports insert (the deck's card
   set by content).
3. *The client with the accounts*: `ClientCredentials` has a server of its own, of which `Accounts` could
   be shown to be an implementation.
