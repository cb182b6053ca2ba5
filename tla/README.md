# Sentinel Fleet in TLA+

A verification project for the Sentinel Fleet (`src/src/sentinel_fleet/`): TLA+
modules translated from its Python source, TLC configurations that check them on
small instances, and theorems about them that TLAPS checks for every value of
their constants. File names below are relative to `src/src/sentinel_fleet/`.

    tlc -workers 2 -config FleetRuns.cfg MCFleetRuns     # one run
    tlapm FleetRunsProofs.tla                            # one proof module

## 1. The system

A FastAPI service that runs on one event loop in one process (the deployment
caps it at one instance). Handlers are coroutines: a handler runs without
interruption from one `await` to the next, and it really suspends only at an
agent's lock, in a `to_thread` call (the safety screen, reading an upload), in a
model or tool call, or on a socket. State lives in stores (`core/storage.py`)
whose `get`/`list_all` return copies and whose `put` is atomic per key, so two
handlers meet in three ways: through a row one of them read before it suspended,
through the order of several puts, and through in-memory objects (locks, the
run-log bus, the status of the agents) that a restart loses.

| component | state | operations | what makes it hard |
|---|---|---|---|
| Gateway and agents (`core/gateway.py`, `conductor/lifecycle.py`, `core/identity.py`) | one FIFO lock and a status per agent | `execute_tool_call`, `quarantine`, `release` | the lock is held over the tool's await; the status changes while calls queue; four ways to refuse |
| Task records (`uas/task_master.py`) | task -> state | create, `update_task_state`, cancel, delete | runs are suspended while operators move their records; runs die at a restart |
| Template runs and chains (`uas/routines.py`, `core/chain_runner.py`) | a coroutine, its steps, its log | `enqueue_template`, chain, race and research steps | every refusal, failure and approval must settle log and task |
| Invoice workflow (`web/server.py` 3300-3683) | a coroutine and a document | `api_process_invoice`, `run_omniledger_workflow` | quarantine by the screen; a log nobody closes |
| Approval tickets (`uas/ticket_master.py`) | ticket -> status | create, approve, reject, withdraw | decided by other requests than the ones that wait |
| Routines and schedules (`uas/routines.py`) | binding -> due time, status | set, remove, `fire_due` | rows read before a run and saved after it; faults leave a binding due |
| Occurrence arithmetic (`core/schedule_math.py`) | none | `next_after` | folds and gaps of daylight saving |
| Run log and console (`core/run_log.py`, `web/server.py` 2959-3060) | ring of lines, subscribers' queues | emit, close, subscribe, snapshot, WebSocket | replay races the run's end; eviction |
| Users and role profiles (`core/users.py`, `core/permissions.py`) | two registries | create, update, suspend, reactivate, delete, reseed | long sequences of legal calls; an organization's last administrator |
| Policies and bindings (`core/policy_catalog.py`, `core/binding_rules.py`) | policies, bindings, their tickets | bind, remove, `resolve_forward` | seven rules, two stores, two tickets per binding |
| Templates (`uas/task_templates.py`) | template rows | create, update, share, hide, delete | references from bindings and to components |
| Artifacts (`core/artifacts.py`) | bytes and metadata | store, share, retain, hold, delete | two writes per operation; retention replaced |
| Documents, ledger (`core/structured_documents.py`, `domains/omniledger/`) | documents, drafts | create, book, delete | written back after awaits |
| Chat sessions (`chat/service.py`) | sessions with their turns | send, race, share | a session is read before a model call and saved after it |
| Contact hub (`core/privacy_contacts.py`, with letters in `web/server.py` and `dispute_loop.py`) | contacts with their objections | add, opt out, draft, request a letter, reseed | an objection between draft and letter; one address in several scopes and spellings |
| Demo guard (`core/demo_guard.py`, middleware of `web/server.py`) | rolling windows, of the service and per workspace | reserve, release, quarantine | refunds of what left the window, eviction at the limit |
| Prompts and skills (`core/prompts.py`, `core/skills.py`) | versioned, shared rows | create, add and delete versions, share, delete, reseed | what templates and transcripts refer to; numbers that repeat; rows from before tenants |
| Domains, memory | tables, one store | lookups | none of their own |
| Stores, telemetry | files, a bounded tail of spans | put, get, delete, flush | file format and recovery |

How they meet: a request or a sweep of `fire_due` creates a task record, opens a
run log, and drives gateway calls, each under its agent's lock; an ASK rule or a
template's `requires_approval` opens a ticket and ends the run; consoles follow
the log; operators cancel, delete, approve and release meanwhile. Binding a
policy asks `binding_rules` for a verdict and, when it says "forward", opens a
ticket whose decision `web/server.py` carries back to the binding. Templates and
chat turns refer to prompts, versions and skills; a route that deletes one looks
through both stores first. Every mutating request of a demo visitor passes the
guard.

What would make each component correct: a run in flight owns its record, and
every ending settles record and log; a quarantine is exclusive and never caused
for everybody by an anonymous visitor; an occurrence is run once and a backlog
without gaps; a console shows every line once, in order, and is let go; an
organization keeps an administrator; a verdict is the strictest its rules ask
for; a request, its ticket and its binding agree, and nothing is in force before
its approval; a promise of retention is not shortened; a stored document is not
revived or overwritten by a late save; an answer or a choice of sharing is lost
only to a call that overlapped it; a reference to a component can be followed; an
objection is permanent; a window holds no more than its limit. `PROJECT.json` lists the hazards at their
lines, with the property that covers each or the reason why none does.

## 2. Modules

| module | models | variables | proofs |
|---|---|---|---|
| `TaskLifecycle` | the task table's promise (abstract) | `state` | |
| `FleetRuns` | runs, gateway, agents, tickets of runs; implements `TaskLifecycle` | `task ticket log pc todo public queue quarantined crashes` | `FleetRunsProofs` |
| `OccurrenceRuns` | what `fire_due` promises about runs and dates (abstract) | `now run` | |
| `RoutineScheduler` | routine and schedule bindings, `fire_due`; implements `OccurrenceRuns` | `clock template routine schedule minted phase sweepNow copy running recorded ran edits` | `RoutineSchedulerProofs` |
| `RunConsole` | one run log and its WebSocket consoles | `kind record writer seq closed at inbox replay lastSeq sawClosed seen` | `FleetRunsProofs` |
| `UserAdmin` | users and role profiles | `profile user` | `PolicyBindingsProofs` |
| `BindingRules` | the seven binding rules, as operators, and the documented matrix | | `PolicyBindingsProofs` |
| `PolicyBindings` | policy bindings and their tickets | `binding tickets lost` | `PolicyBindingsProofs` |
| `Retention` | what a store promises about retention (abstract) | `now kept until held` | |
| `Documents` | invoice documents, the workflows that write them back, ledger and dispute tickets; implements `Retention` | `clock doc ledger run ticket overtaken` | `DocumentsProofs` |
| `Artifacts` | result documents in two stores | `clock row bytes faults doubted` | `ArtifactsProofs` |
| `ComponentRegistry` | prompts with their versions, skills, the seeding of both | `prompts skills clock` | `LibraryProofs` |
| `ChatSessions` (extends it) | sessions, sends and races, sharing | `sessions calls asked` | `LibraryProofs` |
| `Library` (extends both) | templates, references, deletions that ask for them, the process | `templates up` | `LibraryProofs` |
| `DemoGuard` | rolling windows, leases, visitors' quarantines | `now global shares seen open charges forgotten quarantines` | `DemoGuardProofs` |
| `Contacts` | contacts, objections, drafts and letters | `contacts letters objections up` | `ContactsProofs` |
| `ScheduleMath` | `next_after` on the wall clock of a zone whose offset changes | `zone spec clock due since` | |

`MC*` modules only give constants their values. Operators headed "Mistake" are
plausible bugs of the definition below them; nothing uses them, and they show
that the properties tell such a bug from the code.

**FleetRuns.** A run and its task record share an id. `pc` is the await a run is
suspended at: `screening` (Model Armor in a thread), `waiting` (for the agent's
lock), `admitted` (Model Armor inside the gateway), `tool` (the tool's await).
An action is the code between two of these, so `AskHuman` is the refusal inside
`execute_tool_call`, the release of the lock on leaving `async with`, the ticket,
the closed log and the moved task, up to the caller's end. `queue[a]` is the
asyncio lock, holder first: it is FIFO, and leaving it hands it to the next
waiter, whose check runs at its own later step (between the two it holds the
lock in `waiting`). Plans of gateway calls stand for templates and for the two
call sequences of the invoice workflow; what a screen, a permission rule or a
tool says is a choice. `public` is a demo workspace's run. `Crash` keeps the
stores, among them the run logs with their flags, and loses coroutines, locks,
agent status and subscribers; nothing resumes a run (`dead`), and its log stays
open. Race steps and research steps are left out.

**RoutineScheduler.** A sweep takes `now`, reads the due routines (copies), runs
each in turn, saves each copy after its run, and does the same for schedules;
operators act only where the sweep is suspended, in a run. `NextAfter` has an
interval count from where it is asked and fixed occurrences (daily, weekly and
cron rules) lie on a grid; zones are in `ScheduleMath`. `recorded` and
`ran` are history: of which occurrences a binding has a task record, and how
often one was run and not refused. `RunLost` is a run that is refused or killed,
as often as it likes: a refused call leaves `run_template` as an exception and
ends the sweep. `OccurrenceRuns` is the promise of `fire_due`:
of each binding and date it knows only whether a run is awaited or done, and it
starts one only when none is awaited, the date has come, has had no run and is
after every date that has. A lost run gives its date back. `RunOf` reads that
state off the ledger and the sweep.

**RunConsole.** Lines are sequence numbers. A console is accepted, subscribes
and snapshots in one step (there is no await between them), sends its replay
line by line, reads the task record again, and then closes or reads its queue.
`kind` says what is behind the task: a template run, an invoice workflow (which
never emits and never closes a log) or a task an operator queued.

**UserAdmin.** Every method runs under the registry's lock without an await, so a
request is one step. A caller is an organization's administrator or, from code
inside the deployment only, system-wide (the console's routes never pass it).
Grants are reduced to the wildcard that makes an administrator, deviations to a
denied `user.manage`; those two decide `_is_active_administrator`. `Restart` is a
start: it writes missing seeds, rewrites the shipped profiles, and moves a seeded
user, also a deleted one, from the organization `legacy-unassigned` home
(`ComesHome`), asking neither for another administrator nor whether the user's
profile is open there.

**BindingRules, PolicyBindings.** R1 to R7 are one operator each; `Strictest`
combines them. A binding carries the names of two tickets: of the request that
created it and of its removal. A handler writes the ticket store and then the
binding store, and a failure or a crash in between is an action of its own
(`...Interrupted`), which remembers its ticket in `lost`. Requests that cross an
organization are refused before anything changes and are left out.

**Retention, Documents.** `run_omniledger_workflow` suspends in its gateway
calls; an action is the code from one call's return to the next call
(`Extract`, `Audit`, `Book`, `Dispute`), `Stops` every way a call can end it.
After the extraction the document is put under its owner; after the audit and
the booking it is written back by plain assignment (`WriteBack`), which makes a
legacy-unassigned row when the id is gone. Owners and managers act in between.
A date of 0 is the `creator_managed` policy. An id whose row was deleted may be
drawn again, by anybody, and a workflow that is suspended at it still writes
back: `overtaken` is history, the workflows this happened to. Departments are
left out.
`FleetRuns` has the same workflow's task, log and locks. `Retention` is the
promise: `now` is the clock, `kept` the ids in the store, `until` and `held` the
fields of their rows.

**Artifacts.** An operation has no await, but it writes bytes and metadata one
after the other: `StoreHalfway` and `DeleteHalfway` are the operation that stops
in between, by an exception or a death. A result is looked for before it is
stored (`Reusable`), by reading the earlier records' bytes; `StoreAgain` is a
store for which these reads fail with a backend error, so that a second record
appears (`doubted` is history: the records that could not be read). `RetryDelete` is the deletion of a
tombstone, which only removes bytes. Who may read is left out.

**ComponentRegistry, ChatSessions, Library.** One state for three components,
because the properties are about how they refer to each other. A registry's
method runs without an await, so a request is one step; the versions of a prompt
are a set with time stamps instead of a list. A call (one send or one race) reads
its session, waits for its models with a `copy` of it (`Ask`), and saves the copy
with its turn (`Answer`); a blocked message saves at once (`Block`), a refused
component saves at most a new session (`Refuse`). Why a component is refused
besides access (approval, role, gate, screen) is left out: `Refuse` is always
possible. `Library` has the routes: `Remove` asks every template and every turn
before it deletes, as `_references_to` does, and templates are checked when their
steps are stored: the skills of every step, the prompt only of one whose source
is the library (`Checked`; the default is `custom`), although a prompt that a
custom step names holds up a deletion too. Templates of a program without tenants
are there from the start, unchecked and edited by nobody. A session is shared
with a list of names of which the short ones are kept, up to a number (`Kept`).
`Start` is the seeding of both registries, also over rows from
before tenants; `Crash` loses the calls. `asked`, `missed` and `cut` are history:
the sharing last chosen, what was saved in a session while a call waited, and
whether what a call cites was deleted while no transcript showed it. Sharing and
hiding a template change no reference and are left out.

**DemoGuard.** `Look` is what every reservation does to the rows before it is
decided: the window is pruned, the workspace seen, and at the limit the one that
was not seen for longest is dropped. `Admit` and `Refuse` follow; `Keep` and
`Release` are the two ends of a request in the middleware. Rows are sets of time
stamps, which differ. `charges` and `forgotten` are history: what was let through
and not refunded, and what of it lay in a workspace that was dropped. The guard is in
memory only, so a restart is a new initial state.

**Contacts.** Contacts are kept in store order. A contact is visible in its
scope; `Permitted` is `validate_send_permission` over every visible spelling of
the address. `Draft` is the check of the dispute loop, `RequestLetter` the one
before a letter is rendered, which is asked about the requester's scope and then
awaits the gateway (`FinishLetter`). `Start` refreshes or adds the seeded
contacts. `objections` and `late` are history.

**ScheduleMath.** Instants are minutes of UTC; a wall clock is an instant plus an
offset that changes once, forward or back. `Instant`, `Fold` and `Valid` are what
`zoneinfo` does (PEP 495), `NextDaily` and `NextCron` the two searches of
`next_after`; a cron expression is the set of minutes it names. The state is one
routine that is set and fired by it.

## 3. Runs

| run | instance | shows |
|---|---|---|
| `fleet` | 2 runs, 5 agents, 6 tools, 2 template plans (one out of scope), 2 invoice plans, 1 restart | `ActiveRunOwnsTask`, `NoOrphanedRun`, `OpenLogIsLive`, `TicketMatchesTask`, `ScopeQuarantineIsExclusive`, `ImplementsLifecycle` (refinement), `RunsSettle` (liveness) |
| `sched` | 2 templates, 1 routine id, 2 schedule ids, 3 settings, 2 slots, clock to 3, 4 edits, any number of refused and lost runs | `AtMostOnePending`, `RefiresOnlyAfterTrouble`, `ScheduleStatusTellsTruth`, `CatchUpMissesNothing`, `RunsKeepThePromise` (refinement), `DueIsDealtWith` (liveness) |
| `console` | 2 consoles, ring of 2, bursts of up to 2, 5 lines | `SeenIsGapless`, `NothingMissedWhileOpen`, `LetGoWithWholeLog`, `ConsolesAreLetGo` (liveness) |
| `users` | 3 users, one of them seeded, 1 organization and `legacy-unassigned`, 3 profiles; the users that are not seeded are symmetric | `UserProfileFits`, `KeepsAnAdministrator`, `TombstonesAreFinal` |
| `policies` | administrator, operator and member, a mandated and an own policy, 2 bindings (symmetric), 3 tickets, 1 interrupted handler | `DecisionIsCarriedOut`, `ForceNeedsApproval`, `EndedIsFinal` |
| `documents` | 2 workflows of an owner and a manager, 2 document ids, clock to 3 | `ContentStaysWithOwner`, `BookedIsInLedger`, `ImplementsRetention` (refinement) |
| `artifacts` | 3 artifacts, 2 creators, 2 contents (each symmetric), clock to 3, 2 operations that fail | `LiveHasBytes`, `StoredOnceOnly`, `ErasureIsOrderly` |
| `artifacts_hold` | the same | violated: `HeldBytesStay` |
| `library` | a writer and an editor, 2 prompts (one shipped, one where its legacy row is moved), 1 skill, 2 numbers, 2 texts, 1 template with a pinned, an unpinned and a custom step, 1 session, 1 list of readers, 2 calls (symmetric) | `TemplateRefsResolve`, `PinnedTextStands`, `ActiveIsNewest`, `LostOnlyToOverlap`, `SharingStands`, `StartKeepsTexts` |
| `demo` | 3 workspaces (symmetric) and room for 2, limits 3 and 2 for writes, 1 and 1 for external calls, window of 3, clock to 5 | `ServiceCeiling`, `ShareUnlessForgotten`, `RowsAreCharges` |
| `contacts` | clerk, manager, manager of another organization, one address in 2 spellings and another, 1 seed, 3 contacts, 1 letter | `ObjectionIsPermanent`, `LetterOnlyIfClear` |
| `schedule_dst` | a day of 24 minutes whose hour of 4 is repeated or skipped, every daily time, one cron expression | violated: `NextIsStrictlyAfter` |

The type invariants of all modules with a specification but `ScheduleMath`, whose
one run ends at its violation, are proved; no run checks them.

Why the bounds are enough. Two runs are what contention needs: one holds an
agent's lock while the other waits, is refused behind it or is handed it; the
two template plans share the solver and the extractor with each other and with
the invoices, so a scope violation can hit an agent whose lock the other run
wants. One restart reaches a death in every `pc`. In the scheduler, two templates
and three ids give a sweep a second row to deal with while the first one's run is
suspended and the operator edits either; a clock of 3 against occurrences every 1
or 2 ticks and a grace of 1 has rows due now, late and missed, and a backlog of
two; four edits suffice to set, replace, remove and set again. Only a routine that
is set again after its removal needs a second routine id, and the theorems have
any number of them. A ring of 2 under bursts of 2 overruns while a console replays. Three users are the seeded
administrator, who can be moved to `legacy-unassigned` and comes home, a second
one to hand over to and a bystander; the third profile is one an organization
makes itself. Two bindings and three tickets allow a
binding both of its tickets while another is under review. Two workflows and two
ids let a workflow draw an id that another owner has, that its own owner has, or
that is free, and write back after either was deleted, or deleted and drawn
again; the manager processes
documents too, so a hold can be on one's own or on somebody else's. Three
artifacts are one left over from a store that stopped halfway, its repetition,
and another result; a second halfway operation can then hit either. A clock of 3
has a date ahead, moved on, and passed. In the library, two calls in one session
overlap each other, a deletion and a choice of sharing, whose list has one name
too long to keep; lists cut for their length, and sessions shared with a
department or organization, are left to the theorem. Two numbers let a deleted
one be used again and a version be written under the number of another; the two
prompt ids are a shipped one, found missing, as shipped or altered by a start,
and the place an altered one is moved to. What takes three calls (a turn that was
saved over and comes back with a later copy) is left to the proofs. Three
workspaces with room for two make every new visitor drop one; a window of 3 in a
clock of 5 has reservations that leave it, and refunds after that. One address in
two spellings and two organizations has a contact in each scope next to one that
objected; a third contact comes after. The bounds
`MaxCrashes`, `MaxEdits`, `MaxFaults`, `MaxTime`, `MaxLines`, `MaxTickets`,
`MaxInterruptions`, `MaxClock`, `MaxGap` and `MaxContacts` only end or thin out
behaviours; no property mentions them, and the theorems do not depend on their
values. Deadlock is checked in `library` and `contacts`, where a crash and a
start always remain; elsewhere it is not: a bounded behaviour ends, and the
service is allowed to be idle.

Fairness. `fleet`: weak fairness for each run's own steps. The event loop runs
every ready coroutine, asyncio's lock wakes its waiters in order, Model Armor and
the model backends answer or raise; nobody is obliged to approve, cancel, release
or call again. `sched`: weak fairness for the sweep as a whole: the external
scheduler keeps calling `fire_due` and a run returns, is refused or is lost.
Which of these is left open, so `DueIsDealtWith` promises that what is due is
dealt with unless runs are refused or lost for ever (section 4). `console`: weak
fairness for each console's own steps: a send completes or the client is gone
and a filled queue is read; the run owes nothing, and may stop without a word.

## 4. Findings

Each is a run TLC must find violated.

- `HeldBytesStay` (`core/artifacts.py:423`): a deletion that could not remove the
  bytes removes them when it is retried, also under a legal hold set meanwhile.
- `NextIsStrictlyAfter` (`core/schedule_math.py:121`): a cron routine asked for
  its next occurrence in the second pass of a repeated hour is answered with one
  of the first, in the past; it is due at every sweep until the hour is over.

Seen while modelling, without a run of their own:

- `uas/routines.py:480-482`, 541: a routine whose agent stays quarantined, or that
  is refused for another lasting reason, raises out of every sweep and stays due;
  it and every binding behind it then wait for ever. `DueIsDealtWith` excepts
  exactly runs that are refused or lost without end.
- `uas/routines.py:556-557`: the sweep saves the routine it read before its run. One
  that an operator removed and set again during the run, under a new id, is then
  there twice and both fire, although 86-87 say that a template has at most one.
- `core/run_log.py:144`: the log of a run that a restart killed is loaded open
  again with nothing behind it, and its consoles wait for ever; `OpenLogIsLive`
  excepts such a run. An invoice workflow never opens a log, with the same effect.
- `core/users.py:279-285`: a start moves a seeded user out of `legacy-unassigned`
  without the check for a last administrator there and without asking whether the
  user's profile is open at home; of a deleted one too. The properties of `users`
  except this move.
- `core/artifacts.py:298-310`: when an earlier record cannot be read, the same
  result is stored a second time beside it. `StoredOnceOnly` excepts the records
  that could not be read.
- `web/server.py:2589`, 1903: a step with a prompt id and the default source is
  stored unchecked, so it can name a prompt that does not exist or that its
  editor may not read, and it holds up the deletion of that prompt by others.
- `chat/service.py:213-218`: of a sharing list, names of over 200 characters and
  all after the 50th name are dropped, and the answer is a success.
- `core/prompts.py:193-194`: a start moves an altered shipped prompt with two puts;
  the model's start is one step.
- `web/server.py:3030`: a run that ends during a console's replay has its last
  lines on the queue when the console is closed. `LetGoWithWholeLog` says that
  these are the only lines a console that is closed can lack.
- `core/policy_catalog.py:579`, 487-488: a removal decided before the binding
  itself leaves a binding in force whose removal is pending for ever.
- `web/server.py:3600`: a document deleted while its workflow awaits the audit or
  the booking is stored again, as a row that nobody may read or delete. When its
  id (32 random bits) was drawn again meanwhile, the late write puts the deleted
  document's content into the other owner's row; `ContentStaysWithOwner` and
  `BookedIsInLedger` except such workflows (`overtaken`).
- `web/server.py:1915-1917`: only stored transcripts are asked whether a component
  is in use. A reply that is waited for when what it cites is deleted cites
  something that is gone; so does a turn that was saved over and comes back with
  a later copy, which takes three calls and was found by the proof of
  `PinnedTextStands`, not by TLC. `cut` marks both.
- `chat/service.py:521-613`: a race uses its components and its turn does not say
  so, hence they can be deleted while it is in a transcript.
- `core/privacy_contacts.py:127`: a start writes the shipped note over the reason
  an operator gave for an objection; the objection itself stays.
- `web/server.py:2378`: an objection recorded while a letter is rendered does not
  stop that letter (`late`).
- `uas/routines.py:517`: the log is closed before the task is written; when that
  write raises, the record stays IN_PROGRESS. `FleetRuns` has the case
  (`StoreMayFail`); the run `fleet` and `NoRunIsOrphaned` assume it away.
- `uas/routines.py:541`: a run that raises out of `fire_due` leaves its binding
  due, and the next call starts the same occurrence again, although the docstring
  (588-592) says a second call does nothing. `RefiresOnlyAfterTrouble` says that
  this is the only way to it.
- `core/gateway.py:85`: the repository's README (388) says a scope violation does
  not quarantine fleet-wide; for a caller outside the demo it does.
- `web/server.py:2959`: CANCELLED is not among the states that end a console, so
  one opened on a cancelled task that never logged waits for ever.
- `core/artifacts.py:465-471`: the `creator_managed` policy may replace a
  retention date that is ahead ("may be extended but not shortened"), which
  `core/structured_documents.py` refuses; hence only documents are shown to
  implement `Retention`.
- `core/artifacts.py:400`: sharing a tombstone gives it shares again, which the
  deletion removed as content-bearing.
- A deleted document leaves its dispute ticket with nobody who may decide it.

## 5. Proofs

The constants are arbitrary sets and numbers with the named assumptions of the
component's module, which every run of that module evaluates. Two proof modules
extend a second component, which is why its names differ from the first one's
(`ConsoleSpec`, `UsersSpec`): `FleetRunsProofs` has the theorems about the
consoles that read along with the runs, `PolicyBindingsProofs` those about the
users whose roles decide on bindings.

**FleetRunsProofs** (assumes `PlansAssumption`, `ConfigAssumption`). The
inductive invariant joins `TypeOK`, `ActiveRunOwnsTask` and `OpenLogIsLive` with
`LockInv`, what the lock guarantees (a run past admission is the head of its
agent's queue), and `FreshInv` (an id not used yet has no record). Without
`LockInv` the type alone is not inductive, as releasing the lock takes a `Tail`.
From it:
`TypeCorrect`, `ActiveRunsOwnTheirTasks`, `OpenLogsAreLive`, `NoRunIsOrphaned`
(assuming that stores do not raise; section 4 says what happens when they do),
`ScopeQuarantineExclusive`, `TicketsMatchTasks` (under the same assumption: a
task starts to wait in the step that opens its ticket, and deciding a ticket
leaves it on record and moves no task), and
`RunsImplementLifecycle`: the initial state maps to the table's, and every action
to a `Create`, a `Move`, a `Delete` or a stutter. A run in flight is
`in_progress`, hence every `Settle` is an edge of the table.

**RunConsole, in FleetRunsProofs** (assumes `LinesAssumption`). The properties
are not inductive: that what is shown has no gap depends on what the queue holds
next, and that nothing is missed on where the queue begins. The invariant says
of each console (`View`) that what it sent is the log from its snapshot's first
line on, of a subscribed one (`JoinsIn`) that sent, replay and queue put together
are that log up to its last line, with the sentinel at most at the end and only
once the run's coroutine is gone (`Whole`), and that the part sent or still to be
replayed covers the snapshot. Hence the next line on the queue of a live console
is after the snapshot and is never dropped as a duplicate: subscribing before the
snapshot costs nothing. `NotYet` says that before the task exists nothing was
emitted and nobody looks. From it `ConsolesAreWellTyped`, `ConsolesShowNoGap` and
`ConsolesMissNothing`. The sequence lemmas before it (`HeadMoves`, `HeadOfCat`,
`EndGrows`, `FromJoins`) say how a line moves from one part of the whole to
another.

**RoutineSchedulerProofs** (assumes `BoundsAssumption`, `IdsAssumption`,
`SettingsAssumption`, `RowAssumption`). Everything turns on a row the sweep read
before a run and saves after it, so the invariant says of each copy what it says
of the stored row. `CopiesFit`: copies are rows under ids that were handed out.
`LedgerFits`: of an occurrence at most one run went through or is under way. `RoutinesAhead`: what a routine has run lies before its next due time,
but for the run under way; a late save therefore cannot bring back an occurrence
that was run. `SchedulesTrue`: a schedule being dealt with is pending, and its row
is as it was read or was withdrawn. `OnePending`: one pending schedule per
template. `RoutinesDrained`: the due time of a routine that catches up is one of
its occurrences (`OnTheBeat`), and all before it have a record; the step to the
next one is exactly one interval (`NoneBetweenMultiples`, `NextOnGrid`). From it
`Types`, `PendingIsUnique`, `NoSecondRecord`, `StatusIsTrue` and
`BacklogIsComplete`. `KeepsThePromise` is a step simulation: a started run is a
`Fire`, one that returns a `Return`, one that is lost a `Lose`, a tick a `Tick`,
and all else a stutter. That a `Fire` is in order is `RoutinesAhead` for a
routine and, for a schedule, that its id is set to one date only (`OneDate`,
inductive given the invariant).

**UserAdmin, in PolicyBindingsProofs** (assumes `SeedAssumption`,
`AbsentAssumption`). `UsersTypeOK`,
which includes the tombstone's shape, is inductive, and `UsersTypeOK /\
UserProfileFits` after it. `LastAdministratorStays` is an action property: a
request changes one row or one profile, so whoever administered an organization
before still does, or the step's guard names another who does; for an edited
profile the guard counts under the grants as they will be. A start only moves
seeded users (`HomeRow`), and all organizations but `legacy-unassigned` keep what
they had. `TombstonesStay` is by cases; of a deleted seeded user the organization
may change once, and nothing else.

**PolicyBindingsProofs** (assumes `BindingAssumption`, `NobodyAssumption`).
`VerdictsFollowTheMatrix` compares the rules with the matrix the tests list, for
every role, type, target and reach, and any actor and owner;
`NoRuleLoosensAnother` holds for actors with deviations too. For the states, the
invariant adds two facts to `TypeOK`, `DecisionIsCarriedOut` and
`ForceNeedsApproval`: `Linked` (a ticket a row names was opened for that row and
that question, so a decision never reaches a row by the wrong name) and
`RemovalInFlight` (a removal under review is the one its row names, unless its
handler was interrupted). From it the four theorems that name the run's
properties, and `BindingsAreWellTyped`.

**DocumentsProofs** (assumes `OwnersAssumption`, `RowAssumption`).
`ContentStaysWithOwner` is not inductive, as a late write knows only its
workflow. The invariant adds `HasDocument` (a workflow that has extracted has a
document's id), `RowNamesRun` (a row holds what a workflow extracted under that
id), `OwnerKept` (the row a suspended workflow will write to is its owner's or
legacy, unless the workflow was overtaken), `OneOwner` and `OneContent`
(suspended workflows that meet in an id, and one that meets the content of its
row, have one owner, unless somebody was overtaken at that id) and
`TicketHasDocument`. The step that draws an id is the one place that needs the
check for another owner's document, and where that check finds nothing because
the document was deleted the workflow still waiting on it becomes overtaken. `DocumentsKeepRetention` is a step simulation: an extraction
or a write-back is an `Add` or a stutter, a request an `Extend`, `Hold`,
`LiftHold`, `Remove` or a stutter.

**ArtifactsProofs** (assumes `ArtifactsAssumption`, `RowAssumption`). The
invariant is `TypeOK`, `LiveHasBytes` and `StoredOnceOnly` together: a result is
stored once because the bytes of every live row are there, so the search for a
stored result finds it; when it cannot read them, the record it found is doubted,
and the property says nothing of it from then on. `ErasureKeepsOrder` is by cases over the operations.

**LibraryProofs** (assumes the named assumptions of `ComponentRegistry`,
`ChatSessions` and `Library`). The six properties of the run `library`, and
`TypeOK`. The registries'
part adds `Stamped` to the type: versions have time stamps of their own, none in
the future, so that a new one is after all others and the first with a number
stays the first. Every edit but a deletion only grows a registry (`Grows`: who
refers to anything finds what it found), which keeps templates and citations at
once (`ReferencesWhenGrown`); a deletion keeps those that do not name it, and
the routes' guard or `cut` covers those that do (`ReferencesWhenCut`).
`PinnedTextStands` is about transcripts; what is inductive is `CitesStand`, about
every reply not cut, since any of them can still reach a transcript.
`LostOnlyToOverlap` and `SharingStands` need what every waiting copy knows
(`TurnsTracked`, `SharingTracked`): an answer or a choice is in the copy, or the
call knows that it missed it; what of a choice is stored is `Grants`, which cuts
and drops as the route does. `SeedsOwned \/ Untouched` tells the first start,
which may move rows, from every later one, which moves none.

**DemoGuardProofs** (assumes `GuardAssumption`). The invariant adds to the
properties that rows are finite (`FiniteRows`), that charges have different times
(`Distinct`) and that a charge still in its window has its rows unless it was
forgotten (`Covered`). The ceiling follows by counting: the charges in a window
map injectively to rows, and a request is admitted only below the limit.

**ContactsProofs** (assumes `ContactsAssumption`). The invariant adds to
`TypeOK` and `LetterOnlyIfClear` that every recorded objection is on a contact
that still has its scope and address (`Recorded`), that a running process has
refreshed its seeded contacts (`SeedsRefreshed`), and that nothing is rendered
while it does not run. `ObjectionIsPermanent` follows from the first two.

Only model-checked: liveness (`RunsSettle`, `DueIsDealtWith`,
`ConsolesAreLetGo`), which depends on fairness and is out of the prover's reach,
`LetGoWithWholeLog`, and the two runs of section 4 that end in a violation.
Every other property of a run is stated by a theorem. `OneRemovalAtATime` is
proved and not run: it follows from the invariant, and tells no plausible bug
from the code that the other properties do not.

## 6. Not modelled

Pure input and output (extraction, letters, chat backends, web reader, exports),
token verification (`core/access.py`: models start from a verified actor),
pattern matching in the screens (a run sees its outcome as a choice), the memory
bank's search, read-only views, the placeholder dispatcher and the model router.
Not yet modelled: what section 7 lists. `PROJECT.json` has every component with
its status.

## 7. Plan

Done: `TaskLifecycle` and `FleetRuns`; `OccurrenceRuns` and `RoutineScheduler`;
`RunConsole`; `UserAdmin`; `BindingRules` and `PolicyBindings`; `Retention`, `Documents` and
`Artifacts`; `ComponentRegistry`, `ChatSessions` and `Library`; `DemoGuard`;
`Contacts`; `ScheduleMath`. Left, in order of importance:

1. Race and research steps in `FleetRuns`: several agents' calls in one step.
2. Writing and editing policies (`create_policy`, `update_policy`), which put
   bindings in force back under review; manual tickets.
3. Sharing and hiding templates.
4. Stores and telemetry: the file format, its recovery, the bounded tail.
