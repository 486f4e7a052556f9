# vinted-sniper in TLA+

vinted-sniper watches saved Vinted searches and tells you about new listings. One process,
one event loop, one SQLite file: a task per search, a dispatcher that delivers, a supervisor
that starts and cancels the search tasks, and a dashboard and a Telegram bot whose handlers
write to the same tables. Nothing here runs in parallel, everything interleaves: between two
`await`s any other task may run, and the process may die anywhere. The models keep every
state change, guard and `await` of the code, and abstract what listings, messages and
destinations look like.

## Inventory

| component | state | operations | what is hard | what makes it correct |
|---|---|---|---|---|
| outbox (`db/repo.py`, migrations) | `items`, `outbox`, `destinations` | one statement or transaction per `Repo` method | rows written by several tasks whatever their status | a row in flight has one holder; settled stays settled |
| dispatcher (`deliver/dispatcher.py`) | `_quiet_now`, the Discord gate, one worker per destination, `_senders` | `run`, `drain`, `_serve` | a send takes seconds while others write; partial results; crash between send and write | delivered is recorded, copies have a cause, every queued row ends |
| senders (`deliver/*.py`) | the settings they were built from | `send` | batches split into messages, lost answers, refused payloads; kept while the destination changes | what is returned adds up to the batch |
| destinations and pairing (`db/repo.py`, `botctl/telegram_bot.py`, `web/`, `cli.py`) | `destinations`, pairing codes | add, edit, delete, `create_pairing`, `claim_pairing` | read, then write, across processes; ids that come back | one destination waits; a connected chat is where alerts go |
| poller and dedup (`engine/poller.py`, `engine/dedup.py`) | `query_state`, locals of one check | `tick`, `_check`, `select` | reads used after awaits, overlapping searches, restarts of a first check | recorded with its alert or not at all; silence stays silence; the mark only rises |
| database connection (`db/connection.py`) | one connection, a write lock | `execute`, `transaction`, reads | reads take no lock and see an open transaction | nothing rolled back is built on |
| saved searches (`db/repo.py`, dashboard, bot, CLI) | `queries`, `query_destinations` | add, edit, pause, delete, block a seller, clone | forms saved long after they were rendered, read-modify-write across awaits | a save settles what the search feeds |
| supervisor (`app.py`) | tasks and their signatures | `_reconcile`, `_guard` | a task is cancelled at any await; edits within one second | the tasks follow the table |
| sessions, cooldown, pacing, proxies (`vinted/`) | cached and stored sessions, per-site locks, gates, routes set aside | `get`, `invalidate`, `discard_blocked`, `rotate`, `bootstrap` | a late answer about an old session; a refusal seen by several searches; a task cancelled while it holds the lock | one bootstrap at a time; a hold is announced once, never cut short, and ends |
| watchdog (`engine/watchdog.py`) | `_already_warned`, `query_state` | one pass every two minutes | flags set before a notice that may fail | a frozen feed is announced once |
| enrichment watch, weekly report | `_warned`, `weekly_report_sent_at` | one pass each | errors and restarts between saying and remembering | nothing is repeated without a cause |
| liveness checker (`engine/liveness.py`) | `sold_at`, `sold_checked_at` | `check_due` | a wardrobe that changes while its pages are read | what stays is kept, what left is noticed |
| sweep (`engine/sweep.py`) | `sweep_runs`, `sweep_candidates`, the endpoint's flag | a long job in stages that costs money | failures and stops in every stage, one sweep at a time | whole bills, closed rows stay closed, the endpoint frees |
| token bucket (`ratelimit.py`) | level, lock | `acquire` | cancelled waiters | the rate holds |
| migrations (`db/migrations.py`) | `user_version`, the schema | `apply_pending` | a script is not a transaction; two processes | the recorded version is honest |
| login throttle (`web/security.py`) | failures, strikes, cooldowns per address | `failed`, `succeeded` | the edge of the window, across cooldowns | guesses are paced |
| dashboard, bot, CLI (`web/`, `botctl/`, `cli.py`) | none of their own | handlers | two-step handlers beside workers | see dispatcher, saved searches, sweep |
| filters, parsing, i18n, backup, configuration | none | pure functions or one request | | |

`PROJECT.json` lists every component with its status, and under `hazards` what each is
exposed to, at its line.

## Modules

**`Outbox`** is the table where finding and delivering meet. A column of the table is a
function of the row's unique key (listing, destination, kind); each `Repo` method is one
atomic step, as it is one statement or one transaction behind the write lock.
`deactivate_destination` and `delete_destination` are several writes and stay several steps.
Time is two sets of rows: `due` (`next_attempt_at` has passed) and `stale` (`created_at` is
older than the delivery window). `RecordNewItem` takes one listing of a transaction; that
allows more interleavings than the code, and `Watch` models the whole transaction.

**`Dispatcher`** extends it with `run`, `drain` and one `_serve` per destination. `pc` is
where a worker awaits, `batch`, `delivered`, `under` and `outcome` are its locals. The far
end is nondeterministic: it takes a message and answers, takes it and the answer is lost,
refuses it, limits the rate (for all of Discord, too) or is gone for good. How each sender
splits a batch is `Message`: Discord stacks a batch over its threshold, Telegram folds what
is over its own into a digest, ntfy sends one by one, a webhook gets one POST. Beside the
workers run pollers (`Alert`), the enrichment endpoint (`Enrich`), retention (`Prune`) and
the handlers that enable, delete and pair destinations. History variables record what the
far end has (`copies`) and what the process never learnt of it (`unrecorded`).

**`Watch`** is the finding side: one task per search going through `_check` await by await,
`dedup.select`, price drops, `record_new_items` as an open transaction whose inserts others
already see, and the supervisor starting, replacing and cancelling tasks anywhere.
A page is any subset of the listings (which of the catalog Vinted returns is its choice). A
failing check changes no state of this module and is a stutter. Adjacent reads with no write
of the same data possible between them are one step; `query_state` is read where it is used,
because only the search's own task writes it. `known`, `before` and `dests` are kept in the
task and used later, as the code does.

**`Findings`** is what watching promises, without tasks, awaits or transactions: what is known
of each listing, the alerts, who reads them, and which searches have had their first check. A
check that found listings makes them known in one step, together with alerts of the newest of
them, as many as the cap allows, to every reader of the search (`Announce`); a fall that is
told is a fall worth telling (`ReportFall`); retention forgets a listing, and a reader who
leaves takes his alerts along. `Watch` implements it (`FindingsKept`) with `items` as committed:
what an open transaction has inserted is not known yet (`KnownPrice`). So the locals a check
carries over its awaits, the rows others already see and the rollbacks have no effect of their
own, and no cancellation, crash, deletion or other search in between makes a check tell less
than it found. Of the owner's changes to the destinations `Watch` has the deletion, the one that
can fail a transaction; one enabled while a check is between its read and its write hears from
the next check on, and is in `Dispatcher` and `Destinations`.

**`Site`** is one country site: the session manager with its cache, its table and its lock,
`tick` around a check with every error it handles, the watchdog's rotations, the hold after a
refusal with its copy in `app_state`, and proxies set aside. A session is an object that
tasks keep while the cache and the table move on, so `task` holds the session in hand, and a
session's name is given again once nothing refers to it. A check is here what it asks of
Vinted: a page, then a few seller profiles, whose refusals are swallowed. Delays are in steps
of a clock; the wait between checks is any time the hold allows, so the request budget and
the backoff's formula only pick one of its behaviours. `_consecutive_errors` is kept as
far as it decides something here: whether there was an error before this one.
`Site` shares no state with `Watch` and `Dispatcher`: what a check records does not depend on
which session answered, and a refusal records nothing.

**`Destinations`** is where alerts go: the rows of `destinations` with what `config_json` says, the
owner's handlers, the two halves of pairing a Telegram chat, each a read
and a later write, and the senders the dispatcher builds from a row and keeps as long as the
row's settings are the same. `pair-telegram` is a process of its own, so any number of
pairings and a restart of the service may come between. Ids are given out as SQLite does.
Of a code matters whether it is too old. A worker is here what it holds of a sender; what it
claims and how a batch fares is in `Dispatcher`, and which destinations ask for notices is
left open. `connected` and `blind` are history: the chat that was told "Connected" of a row, and what
was connected since a pairing looked.

**`AlertLedger`** is the abstract specification of delivery, one record per notification:
what it may become next, and that a copy leaves only while it is queued. `Dispatcher`
implements it: `NoteOf` maps a row of the table, with what its worker holds, to such a record,
`Ledger == INSTANCE AlertLedger WITH ledger <- ...`, and `LedgerKept` is its step formula.

**`Sweep`** is one look at existing stock: `run_sweep`, `judge_sweep` and `_buy_verdicts`
await by await for several runs at once, launched from the dashboard, which claims a flag, or
from the command line with and without `--judge`. A page is any subset of the stock, an answer
of the photo check any ranking of the listings of its batch, and a call to the flows costs
one unit (`spent` remembers what they reported). Every write may raise; the dashboard then
rescues the row, and the command line does not. A stop ends the tasks of the dashboard or
a command anywhere.

**`Searches`** is the table of saved searches beside the supervisor: `_reconcile` compares
signatures, and tasks check and die. Ids are given out as SQLite does, so the id of a deleted
search returns, and `updated_at` has whole seconds.

**`Wardrobe`** is the liveness checker against wardrobes that change: the pages of a seller
are read one per step, newest first, while listings are uploaded, closed and taken down, and
rows recorded and pruned. An answer may count only some of its entries, those with an integer
id (`client.py:312`), and may name no total of pages, which ends the read as a complete one
(`client.py:209`); a total it does name is taken to be true. `turn` orders the sellers by their last look, and `recent` says
whose last look is younger than `RECHECK_AFTER_S`. A candidate of a sweep too old to be
looked at again counts as pruned.

**`Watchdog`** decides which feed is frozen, warns once and rotates; **`Notices`** is the
watch over the webhook agent and the weekly report. Both speak through `notify_status`,
here one step that may raise. **`Pacing`** is the token bucket with its lock and a clock;
a sleep may last longer than asked. **`Throttle`** is the login brake: its handler has no
await, so a request is one step. **`Settings`** is what several handlers write of one search:
the edit form (`update_query`, then the routes one by one), the "Skip seller" button, the
clone, and the switch of a destination. **`Migrations`** runs the scripts statement by
statement in several processes.

**`DispatcherProofs`**, **`LedgerProofs`**, **`WatchProofs`**, **`SiteProofs`**,
**`SweepProofs`**, **`DestinationsProofs`**, **`DashboardProofs`** (of `Settings` and
`Throttle`) and **`ChoresProofs`** (of the components of `MCChores`) prove. The `MC...` modules hold the values of the constants for TLC;
`MCDashboard`, `MCChores` and `MCDestinations` (with `Site`) also put components that share no state beside each other, and
the initial state picks the one that moves (`part`), so each behaviour is one of that
component's. Operators marked "Mutant" are small mistakes the properties must catch;
nothing else uses them.

## Runs

| run | question |
|---|---|
| `delivery` | partial results, lost answers, exceptions, an owner who connects, deletes and enables, and a crash: who holds a row, what is marked sent, why a copy exists; the refinement of `AlertLedger`; also the inductive invariant of the proofs |
| `settled` | follow-ups and the score floor against verdicts at any moment; every queued row is settled, and none outlives the delivery window for ever (liveness), over Discord |
| `checks` | one search over three listings: silence, settling, floods, price drops; the refinement of `Findings`; also the inductive invariant of the proofs |
| `overlap` | two searches over one connection, with `FIRST_RUN_MODE=newest`: rollback, dirty reads, the supervisor, again with the refinement of `Findings`; every search gets back to waiting (liveness) |
| `site` | refusals, expired tokens, rotations, cancellations and a crash around one site's session: one bootstrap at a time, one announcement per hold, no hold cut short; also the inductive invariant of the proofs. Beside it an owner, two pairings, a chat that taps and workers with kept senders: one destination waits, and a chat told it is connected is where alerts go |
| `reopens` | every check and rotation ends, and every hold runs out (liveness) |
| `dashboard` | a sweep: bills, winners, closed rows, and an endpoint that frees (liveness); the pace of wrong passwords; a form that settles; also the inductive invariant of the sweep's proofs |
| `chores` | tasks follow the table, gone listings and frozen feeds are noticed (liveness); a frozen feed is warned of once; what stays in a wardrobe is kept, nothing is repeated, the rate and the recorded schema version hold; the type invariant of the six modules |

`TypeOK` of `Dispatcher`, `Watch`, `Site` and `Sweep` is the first conjunct of their `IInv`.

Runs whose name starts with `found_` check what a comment or a docstring says and the code
does not do; TLC shows how. `PROJECT.json` quotes each under `findings`:

- `found_hot_verdict_lost`: a hot verdict that arrives while the alert is being sent queues no
  follow-up;
- `found_told_twice`: two overlapping searches announce one listing, each to its own
  destination;
- `found_hold_forgotten`: a restart forgets part of a hold, because a later refusal with a
  shorter backoff overwrote its deadline;
- `found_half_migrated`: a script runs outside the transaction opened for it, so a process that
  dies within one, or before its version is recorded, leaves what ran behind.

Other differences, which no run states:

- deleting a destination deletes its delivered rows by cascade
  (`0008_verdict_notifications.sql:8`), although `repo.py:647` says the history stays;
- a restart in quiet hours forgets which destinations slept, and the drain after the window
  expires what was held for them (`dispatcher.py:133`, `repo.py:1435`);
- a sender is kept while `config_json` is the same, with the language it was built with, so a
  destination whose language was changed goes on in the old one until a restart
  (`dispatcher.py:313`), although `docs/configuration.md:216` says its alerts are rendered in it;
- a worker that claims between the write of `chat_id` and the discard of the backlog sends a
  new chat what it should not get (`telegram_bot.py:84-88`);
- two `pair-telegram` commands that overlap leave two destinations waiting, although
  `create_pairing` says a second link refreshes the first; and one that looked before a chat
  connected writes its new code over it (`telegram_bot.py:65`). `OneWaiting` and
  `HeardWhereConnected` say so;
- two chats that tap one link at once are both told "Connected", and the later one is
  (`telegram_bot.py:84`);
- an id of a deleted destination is given out again, so a form, a tap or a pairing that read the
  old row writes to the new one, which may be of another kind and is then disabled as
  misconfigured (`repo.py:597`);
- a crash or an edit between `record_new_items` and `record_success` makes the next check a
  first check again, and with `FIRST_RUN_MODE=newest` a second listing is announced
  (`poller.py:294`, `docs/architecture.md:103`);
- the watchdog's fresh session can be the one it has just deleted, stored again by an answer
  that came in late, although `rotate` promises a different persona (`session.py:148`);
- a seller skipped by the button is lost when an edit form that was rendered before is saved,
  and so is one of two sellers skipped at the same time (`repo.py:423`);
- a listing that is still up is marked gone for good when something in front of it leaves the
  wardrobe while the pages are read: it moves onto a page already read (`client.py:209`).
  `SteadyIsKept` says where that cannot happen;
- a listing that is still up is marked gone for good, too, when an answer leaves it out: one
  without an integer `pagination.total_pages` ends the read as complete, and what stands on later
  pages counts as absent (`client.py:209`); an entry without an integer id counts as absent
  (`client.py:312`). The `Wardrobe` docstring ("whether every page was read", `client.py:65`)
  and `server.py:1266` ("never a guess") say otherwise. `Wardrobe` models both answers, and
  `SteadyIsKept` promises nothing of the listings they leave out (`steady`);
- with more sellers than the cap of a cycle who always have rows nobody looked at, the others
  wait, although `repo.py:1212` says nobody starves; `GoneIsNoticed` is checked where all due
  sellers fit in a cycle, and asks nothing of a wardrobe with more pages than are read;
- an outage of the agent is told again when retention removes listings of the streak: fewer are
  left than make an outage, the flag goes back, and the next unanswered ones set it again
  (`enrichwatch.py`);
- two processes that upgrade at once may begin a rebuild of a table that the other has
  finished (`0006`, `0008`), which is why `VersionIsHonest` leaves rebuilds out;
- what a failing call to the flows cost is not known, and what a task was told and not yet
  wrote when it was stopped is not billed (`sweep.py:491`); `BillIsWhole` says so;
- a session loaded from the table has no route, although its cookie was minted through one
  and "travels with it" (`session.py:48`, `session.py:243`);
- a search whose token is refused drops the session of its site also when another search has
  already replaced it (`session.py:120`);
- a crash between the far end's answer and `mark_sent` sends again what was sent, although
  `0001_init.sql:88` says a crash cannot; `DuplicatesExplained` allows exactly that;
- `attempts` counts for a whole batch that is handed back, so a row behind a refused one can
  be given up without ever having been tried (`dispatcher.py:232`);
- a row waiting for its retry is overtaken by later ones (`dispatcher.py:237`), although
  `docs/architecture.md:88` says rows go out in the order found;
- the drop of a listing recorded silently is announced though it never was
  (`poller.py:251`, `docs/configuration.md:209`), and two searches with pages of different
  age can report one drop twice (`poller.py:347`);
- a seller profile that cannot be read rejects the listing, and the mark then passes it
  (`poller.py:185`), although `_hydrate_seller` says a failure never costs the alert.

### Bounds

Batches of two (`MaxBatch`), thresholds of one and `MAX_ATTEMPTS` of two reach every branch
of splitting, partial delivery and giving up with two listings and one destination
(`delivery`, `settled`). `MaxCrashes = 1` puts a crash at every point; the state it
leaves is an ordinary one, so a second crash starts from a state the first already reaches.
`MaxWindows` counts quiet windows. In `Watch` three listings (two stamps and one without)
are enough for a flood over `MaxNotify = 1` and for both sides of the mark, with two prices
for one drop, and two searches for every race over the shared tables. `Site` has two
searches and the watchdog, so three tasks for one lock, and holds of up to two steps, so that
of two refusals one can be longer and a hold under way can be prolonged. `site` reads one
profile per check and has one proxy besides the direct route; `MaxSessions` bounds the
sessions in use at a time, not in all. `reopens` leaves out profiles, proxies and the crash,
which add nothing a check could wait for. `CHECK_DEADLOCK FALSE`
in the delivery runs: when the bounded crashes, windows and listings are used up nothing has
to happen any more. `Watch` and `Site` never stop and are checked for deadlock. In `settled`
one listing goes through the whole life of an alert, with a hot and a poor verdict, a quiet
window, retention and a crash. `dashboard` has two sweeps, the second of them with nothing on
sale; three listings in pages of two, of which the funnel keeps two, batches of one and one
opinion, so that a batch is followed by another and the ceiling leaves a winner out; two forms on
two searches, or one form beside a clone (`FewAtOnce`); and six wrong passwords, enough for a
third cooldown at the ceiling. In `chores` a wardrobe can have three pages of one listing
where the cap is two, so a read may be complete, cut off, or ended early by an answer without a
total, at any page of it; both sellers fit in one cycle, so the cap
of a cycle never keeps one waiting there; the two searches watched share a site; the clock
of the bucket fills it from empty and drains it again; of three scripts one is a rebuild and
one can be left half done, under two processes and two kills. Both bound
stops and errors. The destinations of `site` have two rows, two pairers and one chat, and two
things between their steps at a time, one once pairings have overlapped; a worker is alone or
beside a pairing (`FewAtOnce`): every race of two handlers over a row and over an id that comes
back. The searches
of `site` and its pairers are interchangeable (symmetry); `reopens` uses no symmetry, as it checks liveness.

### Fairness

Weak fairness for the dispatcher's loop, its workers, the clock and half-finished handlers:
the event loop runs every ready task, delays run out, quiet windows end. Nothing obliges
pollers, agents, owners or crashes. In `Watch` a check is strongly fair, as it competes for
the write lock, which `asyncio.Lock` hands on in order of arrival; `Start` is weakly fair
(the supervisor passes every fifteen seconds). In `Site` the steps of a task under way are
strongly fair for the same reason, the lock of the site; every request ends in an answer or
a timeout. Nothing obliges a search to begin a check, the watchdog to rotate or a proxy to
return. In `Sweep` a task that can run does run, and every step is weakly fair as it waits for
nothing but an answer, which comes or times out. The supervisor's passes (`Searches`), the
cycle of the liveness checker and its clock (`Wardrobe`) and the watchdog's rounds are weakly
fair: they are loops that suppress what a pass raises.

## Proofs

`DispatcherProofs` proves, for every value of the constants, that `IInv` is an invariant of
`Dispatcher!Spec` and from it the properties that `PROJECT.json` lists. Taken alone none of
the safety properties is inductive: that what is marked sent was accepted depends on what a
worker holds in `delivered`, which depends on nobody else writing its rows. `IInv` says who
owns a row: the table, when no worker does (`WorkersInsideDrain`, `Leases`), or one worker
between its claim and its last write (`HeldRows`), with the one exception the code has, an
owner deleting the destination; and where every copy the far end has is accounted for
(`CopiesKnown`). The assumptions are `ConstantsAssumption` and `DispatcherAssumption`.
The step proof has one lemma per group of actions and one step per conjunct the action can
disturb.

`WatchProofs` does the same for `Watch`, for any searches, listings and routes, any cap,
either first-run mode and any number of crashes. Its `IInv` rests on three facts that relate
a check under way to the shared tables. At most one transaction is open and knows what it
inserted (`OneTransaction`), so a rollback takes away exactly that: `NothingHalfRecorded`
follows, cancellations and crashes included. What a check leaves out when it decides is
recorded, known, aged or under the mark (`CandidatesAccounted`), and what it records stays
until it is done (`RecordedStays`): `CheckSettlesPage`. A listing recorded silently keeps its
row as long as it could be taken for news (`SilentIsKept`), so the next check either knows it
or finds it too old (`SilentIsKnown`): `SilentStaysSilent`. `Silence` assumes
`FIRST_RUN_MODE=silent`: in the other mode a first check that is repeated announces what the
first attempt recorded silently. The proof cuts
`IInv` by search (`Sound`): `LocalStep` says that a step of one search's task preserves it if
it preserves what `IInv` says of that search, and one lemma per action shows that.
The assumption is `WatchAssumption`; listings are finite in number, as the page is a list.

The refinement `Watch` => `Findings` (`FindingsAreKept`) is proved there, too. `IInv` does not
suffice: a check writes what it decided several awaits before, so one has to know that the
decision still holds. `PlansHold` says so of each check: the announced are still the newest of
the recorded, the search is still as far as it was, nobody it tells is missing
from the destinations it read (in `Watch` they only become fewer, and then the foreign key fails
the transaction), and
what it inserted costs what its page says. TLC checked it on both runs' instances before it was
proved (`PlansAlwaysHold`). Every step then is one of `Findings` or hidden: inserting is hidden,
because an open transaction's rows are not known (`RecordItemsHides`); committing announces
(`CommitAnnounces`); a rollback takes back what was never known (`RollbackStep`).

`SiteProofs` proves all safety properties of `Site`, for any searches and proxies, any longest
backoff, and any number of profiles, sessions and crashes. Each needs one fact that relates
tasks to what they share: whoever is between finding no session and publishing one holds the
lock (`LockHeld`), also when others are cancelled, so bootstraps exclude each other; an open
gate has nothing announced, so the search that closes it is the first to announce; a quick
retry leaves an error behind, so the next 401 is not quick. The proof judges a step by the
task that takes it (`Sound`, `LocalStep`). The assumption is `SiteAssumption`.

`LedgerProofs` proves that `Dispatcher` implements `AlertLedger`, from `IInv`: the initial states
are its initial states, and each action turns each notification as the ledger allows or
not at all.

`SweepProofs` proves `SweepIInv` for any runs, listings, rankings, bounds and number of stops.
What a run pays for is right because of where its task is: the row is open while the task works
on it (`RowFollowsTask`), one answer at most is reported and not yet billed
(`BillFollowsTask`), and the answers in memory are those in the table when the winners are
chosen (`AnswersFollowTask`); `FlagCovers` keeps a second sweep out. The assumption is
`SweepAssumption`.

`ChoresProofs` holds six arguments. Of the bucket: what was let through since any request,
and what could be let through at once, fit in one burst and the refill since then; `RateHeld`
is that sum without its second part. Of the migrations: every script up to the recorded
version is whole, and what a process has in hand comes right after what it has seen, so
a second process only repeats statements that fail or change nothing. Of the notices: since the
last one the flag stands and the outage has gone on. Of the wardrobes: what was on sale all
along, was left out of no answer and is not read yet stands on a page yet to be read, because as long as nothing leaves
the wardrobe a listing only moves to later pages (`PageOnlyRises`). Of the saved searches: types (`SearchesSafe`). Of the watchdog: a
search whose notice went out, or failed, is in `_already_warned` until its feed moves, and the
one a round is about to speak of was put there and not spoken of yet (`WatchdogIInv`), so
nothing is said twice of one silence (`WarnsOnce`).
`ChoresTypes` puts them together: a step of the composition is a step of one component and
a stutter of the others (`PartsMove`), and each component's specification follows from the
composition (`PartsAreComponents`).

`DashboardProofs` proves of the forms that every one nobody crossed is on course
(`SaveOnCourse`): it was rendered from the destinations that are active, and what is routed and
what it has yet to write make up what was ticked. Of the throttle, that wrong passwords
are paced across cooldowns (`GuessesStayPaced`). That is about all wrong
guesses, of which the code keeps some: `ThrottleIInv` says that the failures kept are the
last wrong guesses (`FailuresAreLast`), and that one no longer kept has left the window or
was paid for with a cooldown, over or under way (`ForgottenIsPaid`).

`DestinationsProofs` proves its two properties for any number of destinations, chats and pairings.
What makes them inductive: the row of a chat that was told still says that chat
(`ToldIsBound`), and what a pairing found before it writes is the only row that waits, and
no chat was told of it unless behind its back (`PairerOnCourse`). Most steps set nothing
waiting and touch no such row (`Settles`), which takes one lemma; a pairing that writes takes
another (`WritingIsSafe`). That workers then reach the chat follows from how a kept sender is
compared (`TakenSender`).

The proofs of `Dispatcher` hold for every kind of destination, webhooks included, which no run
instantiates as a destination of the dispatcher.

Every safety property a passing run checks is proved, and some no run lists by itself are, too:
that what is settled stays settled (`SettledForGood`), the try budget (`BudgetIsKept`, a part of
`IInv`), that a listing is recorded with its notifications or not at all (`Atomicity`, a part of `IInv`),
that a search's mark only rises (`MarksRise`), that a token is replaced at once only once (`RetriesOnce`) and the invariants of
`Throttle` and `Destinations`, which TLC found to hold on their instances. Only model-checked: liveness (fairness is
outside the prover's reach), what the violations show, and `ENABLED`-based facts such as the
absence of deadlock.

## Not modelled, and the plan

Left for later: the composition of `Watch` and `Site` in one specification, so that a refusal
in the middle of a check meets the shared tables, too.

Not planned: text matching, parsing, taxonomy, message wording, the HTTP calls of the magic
flows and their validation, import and export, statistics and the health page. They keep no
state that another actor waits for. `failure_count` (display only), the market statistics, the stagger of first checks, and graceful shutdown, which ends
like a crash at an await, are left out, and so is a task cancelled inside `Database.execute`
between its statement and the commit (`connection.py:94`): each single-statement write is one
step. The pool of HTTP clients is not modelled either: a request on a closed client fails
as a network error would.
