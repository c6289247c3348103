# JARVIS, verified: TLA+ models of the server

This directory models the parts of JARVIS (`src/core/app`) whose correctness
depends on the *order* of things: rows of a database written by single SQL
statements, coroutines that read, wait and write, requests from the owner's
phone, other machines that poll, and a process that may be restarted between
any two statements. The modules are checked with TLC on small instances. What
makes them safe - every invariant and every action property that a passing run
checks, and the refinement of the task engine's abstract specification - is proved
with TLAPS for every number of tasks, calls, requests, machines and crashes. Only
liveness is model-checked and not proved.

Contents: [the system](#1-the-system) · [modules](#2-the-modules-and-how-they-correspond-to-the-code) ·
[runs](#3-the-runs) · [fairness](#4-fairness) · [what is proved](#5-what-is-proved) ·
[disagreements found](#6-where-code-and-documentation-disagree) ·
[what is not modelled](#7-what-is-not-modelled) · [plan](#8-plan)

## 1. The system

JARVIS is one FastAPI process (several during a deploy) over PostgreSQL. There
are no transactions around the sequences that matter here: `app.db.execute`
and friends take a pooled connection for one statement and commit it, so **the
unit of atomicity in every module is one SQL statement**, and whatever Python
decides between two statements is decided on rows that may have changed.

| component | state it keeps | operations | what makes it hard | what makes it correct |
|---|---|---|---|---|
| Task engine (`agents/orchestrator, runtime, tasks, approvals, permissions`, `resume.py`, `routes/agents.py`) | `workflows`, `tasks`, `task_approvals`; live coroutines | start, advance, run a step, park, approve, reject, cancel, recover, abandon, resume | several `advance` calls for one workflow; a minute tick that re-queues and restarts; crashes | a step is run by one runner, in order, with the owner's yes, a bounded number of times; status is truthful; work that can run is picked up |
| Workflow cost, model choice (`agents/cost, model_router, performance`) | `tasks.spend_inr`, `workflows.spend_inr`, `agent_metrics` | affordable, choose a tier and a model, charge, measure | check and charge are separate statements, the charge is two, steps run side by side | overspend bounded by what runs at once; the sums agree; a model answers for its own work only |
| Agent registry, trials, performance (`agents/registry, trials, performance, factory`) | `agents`, `agent_trials`, `agent_metrics` | register, set_status, start, promote, reject, abandon, version_for, measure | a decision is five statements; tasks run meanwhile | one trial, one live version, decisions on the trial's own numbers |
| Planning and context (`agents/planner, context`) | none | plan a workflow, repair the plan | model output | plan is acyclic and names real steps |
| Scheduler (`scheduler.py`, `budget.py`) | `schedules`, an advisory lock | create, enable, delete, run_due | overlapping instances, midnight, lost locks, lateness | once per moment, within the daily caps, and what is due runs |
| Media pieces (`media/*`, `capabilities/*`) | `content_pieces`, brand rules | begin, revise, gate, settle, decide | second director on one piece; revision counter in a local variable | bounded revisions; owner's decision stands |
| Self-development and governor (`dev/*`, `governor.py`, `routes/dev.py`) | `change_requests`, `governor_policy` | plan, build, review, decide, set ceiling, stop | the proposal is visible before its review; two taps build at once | only reviewed changes within the ceiling are approved without the owner; his first answer stands |
| Repository and versions (`dev/repo, recovery, scientist`) | a branch and a worktree per title, the checkout, `known_good` | open and close a worktree, commit, record the running version, name the way back | builds share the branch; tests leave files; restarts at any step | what he is shown is what the branch holds, without the protected core; the way back is the last other version that started |
| Sidecars (`sidecars.py`, `routes/sidecars.py`, `sidecar/`) | `sidecars`, `sidecar_pairings`, `sidecar_jobs` | pair, revoke, pause, queue, approve, poll, report, expire | two copies poll with one token; codes redeemed twice; stale reads | a job runs once, within the grant, with a yes; a stand-down closes jobs |
| Commands on this machine, publishing (`computer.py`, `social/*`, `capabilities/machine, publish`) | approvals of exact commands, posts, the account | propose, approve, run, post, connect | effect first, record later; retries | effects at most once per approval, records that are true |
| Research and browsing (`tools/browser, fetch`, `capabilities/browse_page`, `browse.py`, `claims.py`) | a browser for one session | read pages, carry out an approved sequence of clicks and typing | pages lead elsewhere and change; a retry starts from the top | nothing is done to a page that he did not approve there |
| Language models (`llm/*`, `keys.py`) | `provider_keys`, a cache of them in each process | set and remove a key, choose, ask, fall back | two requests refresh one cache; keys change under calls; restarts | who was named answers or nobody; all are tried before a call fails; the cache agrees with the table |
| Voice and live (`voice/*`, `routes/live.py`) | a websocket with one Gemini session after another, the standing offer | call, speak, offer, take up, reconnect, hang up | turns are judged detached from the call; sessions drop | work begun by voice was agreed to, once; a yes is taken up; reconnecting ends |
| Conversation and offers (`routes/message.py`, `offer.py`) | messages, offers | chat, take up an offer | an offer made in one message, used in the next | an offer is used once and only when answered |
| Memory and facts (`memory.py`, `facts.py`, `status.py`, `routes/records.py`) | `memories` that link to each other, `briefing_marks` | store an exchange, learn from it in the background, forget, restore, erase, purge, brief | learning goes on after the reply, beside other exchanges and what the owner takes back | what is taken back stays away; no fact is stored twice; finished work is told |
| Accounts (`auth.py`) | users, sessions | sign in | | |
| Start-up, migration, dashboards | configuration | | | |

How they interact: the scheduler's `loop` calls `resume.after_restart` each
minute (recover, abandon, resume) and `run_due`, which starts workflows through
the orchestrator. A route or the media director starts or advances workflows
too. `runtime.run_task` asks the registry for a version and `trials.version_for`
for the arm, `permissions.require_approval` for the owner's yes, `cost` for the
budget, and runs the capability's function; capabilities call sidecars, the
command runner, publishing and the self-development director. The owner's
requests (routes) write the same rows at any time. `system_control` holds the
emergency stop that several of them read at their start.

`PROJECT.json` lists the components with their source files, and under
`hazards` the forty places where this code is hard to test, each with the
properties that would catch it going wrong.

## 2. The modules, and how they correspond to the code

Conventions in all of them. A row is an entry of a function (a record when it
has several columns that matter). **An action is one SQL statement**, or one
read that a later statement acts on; a coroutine or request is a program
counter with the local variables it carries across its awaits. Reads that
nothing can change before they are used are folded into the statement that
uses them. A crash loses every coroutine and keeps every row. Variables under
"history" are read by no action; they let a property speak about the past, or
name exactly the circumstance in which a guarantee lapses. Operators with a
comment `Mutant:` are plausible wrong versions of the definition that follows
them; no specification uses them, and each property is shown to fail when its
mutant replaces the definition. `PROJECT.json` maps each definition to the
lines it stands for.

### TaskEngine (and GatedWork)

One workflow. `After` is the plan, `Needs[t]` the categories a step must ask
about before it is worked on (those whose policy is to ask), `Inside[t]` those its own function may ask about on
the way, as commands and the browser do (`AskInside`: `ApprovalRequired` out of
`fn`).

| TLA+ | code |
|---|---|
| `status, deps, attempts, started, awaiting` | columns of `tasks`; `started` only as null / younger / older than fifteen minutes |
| `decision` | `task_approvals`, unique per task and category |
| `wf, wfOld` | `workflows.status`; `updated_at` more than six hours ago |
| `starter` | `orchestrator.start`: inserts all tasks as queued, then wires dependencies one by one |
| `adv[a]` | a live call of `orchestrator.advance`: `look` (tasks.runnable), `wave` (gather), `cancel`/`cancelled` (gate said stop), `settle`/`write` (`_settle` reads, then writes) |
| `at[a][t]` | the `runtime.run_task` advance *a* spawned for *t*: `start`, `gate` (claimed), a category (about to park on it), `work` |
| `req[r]` | an approve or reject request: `decide` (INSERT), `apply` (resume or abandon), `downstream`, `advance` (detached) |
| `Recover, Abandon, Resume` | `resume.after_restart`, once a minute and at start-up |

The unconditional writes are kept: `Complete`, `Fail`, `Park` write by id
whatever the status is by then, `FailUnclaimed` fails a task it has not
claimed, `WireTask` sets `blocked` on a task that may already be running.
Agents are nondeterministic: they may succeed, fail, fail for good.

`GatedWork` is the abstract promise, three variables and five actions: an
answer is given once and is final; work on a task begins only with every
needed yes; a task is tried at most `max_attempts` times and once more per
approval. `KeepsPromise` says that the engine implements it (decisions as
answers, holders at `work` as working, attempts as tries).

Assumed: no call of `advance` lasts six hours (`AgeFlow` waits for none to be
live); without `SlowSteps`, a single step does not outlast the fifteen minutes
of `recover_stuck`, which is what `scheduler._pick_up_stalled_work` says.

Two variables of the history name when a yes has no effect: `cut` holds the yeses
that were recorded when the process died before they were applied, `again` the
categories a task's own function asked about when they had been answered already
(a second answer is refused). Policies that let a category pass unasked are in
`Effects`.

### Resumption

Several workflows, each the chain of its steps told by the step it has come to;
later ones are blocked. What is between two statements of one task is in
`TaskEngine`; here a step's work is one action, and so is `after_restart`.

| TLA+ | code |
|---|---|
| `flow[w]` | the rows of `workflows` and `tasks`: the status, the step, its status and tries; `since` is the minutes since `started_at` (which `claim` keeps), `age` those since `updated_at` |
| `recent` | the order of `updated_at`, latest first |
| `run[w]` | the call of `advance` for a workflow: `look`, `work`. A second one for the same workflow finds nothing to run and settles |
| `Touch` | what writes `updated_at`: a charge that is not zero, and every settlement |
| `Recovered`, `Abandoned`, `Unfinished`, `AfterRestart` | `recover_stuck`, `abandon_old`, `unfinished` and `resume_all`, from the loop of every minute (`Minute`) and at a start (`Death`) |

`crowded` holds the workflows that had work left while others were resumed,
`away` those that grew too old while the process was not there; both are
forgotten when a workflow is touched. `scheduler.loop` awaits `run_due` and then
`after_restart`, and `MCScheduler` puts the two modules side by side: they have
no row in common, so a behaviour follows one of them.

### Sidecars

`codes, sidecars, jobs` are the three tables. `redeem[r]` is a call of
`redeem_pairing` (read, insert, mark), `owner` a `set_status` or
`pair_this_browser` of two statements, `caller` whoever calls `queue` with a
sidecar it read before, `poll[p]` one copy of the sidecar program: its poll at
the server (authenticate, stop, sweep, take) and then the jobs in its hand,
run and reported one by one. The unique index on names of rows that are not
revoked is `Live(n) = {}` in `Insert`. A token is identified with its row, so
two copies of the program may both poll with it.

### Scheduler

Time is a count of ticks, `PerDay` to a day; `row[s]` is a schedule;
`pass[i]` a call of `run_due` by the loop or the cron endpoint of any
instance, from the stop over the advisory lock, the due rows, the ceiling
before each row, the claim, the run, to the unlock. `NextDue` is `next_due`:
the first named moment strictly later, found in a week and a day. `Drop`
models the pooled connection that holds the lock going away while the call
continues over others. `last_outcome` is left out (nothing reads it), a
schedule's time zone is the settings' one, and deleting a row forgets what it
ran that day, as the table does.

### Trials

`status[v]` is `agents.status` for the versions of one capability, `trials`
the rows of `agent_trials`, `score[v][e]` what `agent_metrics` says of *v*
since trial *e* began. `call[c]` is a request through `trials.start`,
`promote`, `reject` or `abandon`, one step per statement, `work[w]` a task that
asks `resolve`, then `version_for`, runs, and is measured. `Judge` is the rule
of `judge` in whole numbers (a tenth is `10 * …`); it agrees with the code's
rounded floats as long as the product of the two run counts stays below about
200 000. The share a trial takes is the constant `Takes`.

### DevChanges

One row of `change_requests` and the repository its change is made in.

| TLA+ | code |
|---|---|
| `plan`, `row` | the plan (`director.begin`) and the row: state, by whom, whose diff |
| `build[b]` | a call of `director.build` from the route's detached task: `ask` (let in on a row read before), `open`, `write`, `commit`, `propose`, `audit`, `ceiling` (read), `stop` (checked, and decided), `act` |
| `repo` | the branch of the change and whose commit it holds, the build that has it checked out, the head of the running checkout, and whether it has uncommitted edits. Two builds share branch and path, which are named after the title |
| `Open` | `repo.state`, `git worktree add -b`: it fails if the branch is there, after removing whatever worktree was in the way |
| `Commit` | everything is staged, what the tests left behind too, and `constitution.refuse` looks at it; a build whose worktree was taken finds none |
| `known`, `version`, `Restart` | `known_good`: a row at a start unless the newest is of the same commit, the newest `KEEP` kept |
| `AtTheRepository` | the owner edits the checkout, takes another commit, deletes a branch |

The content of a change is its risk level, its test result, whether the
auditor found something blocking, and what he was shown: `repo.commit` returns
the first 120 000 characters of the diff, and `_files_in` reads the paths out of
those. `Audited` gives the three cases - all of the commit; a part, in which a
file past the cut, or one whose name git quotes, is neither weighed nor missed;
no path at all, which is a finding - and the Governor weighs what was seen
(`Outcome`). The patterns that give a path its level are not modelled, the level
is chosen. `ans` remembers his answer, for which diff he gave it, and which reviews
and builds were under way then. The Governor's budget test is absent from
`Outcome` because it is absent from the running code: `budget.remaining` does
not exist and the error is swallowed.

### Media

One piece over its workflow, with the engine of `TaskEngine` reduced to claim,
answer and failure.

| TLA+ | code |
|---|---|
| `rows` | the workflow's tasks in order of creation: kind, what they wait for, status, tries, what the agent said, which scripts it was briefed with (`of`) |
| `last` | the script and the review completed last, by which `verdict_of` and `package_of` go |
| `flow`, `piece` | `workflows.status`; state and package of the row of `content_pieces` |
| `dir[d]` | a director at work, numbered by age: `open`, `look`, `work` (a wave), `cancel`/`flow` (`_gate` said stop), `verdict`/`status` (`orchestrator._settle`), `read`/`ask`/`close`/`record` (`director._settle` and `_outcome`), `script`/`review`/`wire` (`_add`); its `attempt` is the local variable that counts revisions |
| `Resume`, `Recover`, `Abandon` | the tick: a second director beside the first, or a bare `advance` when the piece has no record yet |
| `Decide` | `records.decide`, one conditional UPDATE |

What an agent answers is chosen (`Says`); what it is *briefed* with is not:
`context._dependency_results` follows the step's dependencies, read when it
runs, and a review that is created first and wired second may be claimed in
between. `past` names the circumstances in which a guarantee lapses: `raced`
(two directors), `died` (a crash), `cut` (a crash between the statements of one
decision, or before the piece was on record), `stale` (an older reading
recorded over a newer), `unsaid` (a record that could not be written:
`RecordLost`, since `_outcome` logs the exception of `records.settle` and goes
on). An exception elsewhere ends the director and is one of the ways of `Crash`.

### Effects and Browsing

What happens outside the database, under an engine reduced to claim, park,
retry, recover and the owner's answer as one step (its two statements are in
`TaskEngine`).

| TLA+ | code |
|---|---|
| `job`, `named` | whether a task posts the piece, runs a command or uses a page; whether its `constraints` name the permission, without which `require_approval` is not called |
| `policy` | `approvals.default_policy` of publishing, the owner's to set: with `auto` a post that is named goes out unasked (`Gate`), and `unasked` remembers which did |
| `task`, `yes` | rows of `tasks` (`old`: `started_at` is fifteen minutes ago) and `task_approvals` |
| `run[r]` | a call of `run_task`: a command through `stop`, `exactly` (`approved_exactly`), `spawn`, `tell` (a model explains the output); a post through `gate`, `piece` (`_text_for`), `account`, `who` (the account read again), `post` (the current endpoint), `older` (the older one, after any refusal), `record`; then `done`, `fail`, `refuse` or `park` |
| `piece`, `Approve`, `Resettle` | the row of `content_pieces`, the owner's decision, and a director of `Media` that settles late |
| `account`, `signin`, `back[b]` | the connected account, the one-time state of a sign-in, and the browser coming back from LinkedIn |

`done`, `out`, `blessed` count effects and approvals; `lost` holds the tasks
whose effect nobody saw or recorded in time (killed after the time-out; a post
that LinkedIn took and answered with an error or not at all, which the second
request or the next attempt follows; an error after the effect; a crash; taken
from a live runner by `recover_stuck`); `unread` the tasks whose yes could not be
read (`approved_exactly` takes an exception for a no); `past.together` says
that two tasks held the piece at once, `past.overtaken` that a director settled
between the reading and the record. Text handed to a publishing step directly
takes the same path without the piece. What is asked inside an agent (a command,
a touch) goes by no policy.

`Browsing` extends it by the third kind of task. `tab[r]` is the page before a
runner: the step it is at, whether the page still lies at the address that was
asked for, what the element is (a link is followed after a check of its
address, a control needs the owner), and whether the page changed since it was
looked at. A session closes its browser and keeps nothing, so a retry runs the
sequence from the top. `acts` is what was done to pages, `strayed` the tasks a page
led to a button or a field at another address than the one that was asked for.

### Live

`routes/live.py` and the spoken half of `offer.py`. The events are what the
owner says (`ask`, `yes`, `no`: anything else changes nothing), what Gemini's
session does and what the page does; sound is not modelled.

| TLA+ | code |
|---|---|
| `call[c]` | `live_voice` and `_pump` of one websocket: `none`, `connect`, `pump`, `closed`; `key` is `id(websocket)`, `turn` the exchange that `_remember` is storing, `attempt` and `carried` as there; `page` what the page has done |
| `standing[k]` | `_STANDING`; an offer bears the number of the turn that asked for it |
| `hand[n]` | `_handle_turn` of turn `n`, detached: `judge` (`from_speech`, a model call, and `build`), `agreed`, `work`; `session` is the session object it was given |
| `Remembered`, `Understand` | `_remember` returns and the handler runs up to its first await |
| `Begin` | `_act` says that it begins, in the session the turn was spoken in; if that is gone the injection fails and nothing is run |
| `ReadEnd` | `stopLive` sends `end` before it closes; `browser_to_gemini` returns without an exception, so `_pump` takes it for the end of Gemini's session |

`outlived` holds the offers put down after their call had ended (`finally` has
already removed the entry then, and CPython gives the id away again), `cut` the
turns whose session ended before they were acted on, `barren` the sessions in a
row that did not respond: any response counts as carried (`Hear`), a completed turn
or a piece of one. `said[n].to` is the offer that stood when turn `n` was spoken,
`swapped` the turns during whose `_remember` another offer came to stand (`Pending`
are those being remembered). The emergency stop is read once, in `Dial`, and is one
of the ways in which the owner is turned away. The buttons of an offer start work
through routes of their own, which do not look at `_STANDING`; they are left out.

### Providers and Spending

`Providers` is who answers a call.

| TLA+ | code |
|---|---|
| `table`, `cache[i]` | `provider_keys`; `keys._CACHE` of process *i* (more than one during a deploy) |
| `edit[r]` | `save` or `remove` of `routes/settings_keys.py`, or a start-up: the statement, then `refresh` as a SELECT and a fill of the cache. `behind` names the processes that need not have the latest keys: another one wrote, the read failed (`refresh` swallows it), or two requests to one process crossed |
| `Usual`, `Others`, `ForPreference` | `get_provider`, `_others`, `_for_preference`: the chain that is tried in turn, built from the cache and the environment when the call is made |
| `call[c]` | a message with a preference or none, the test of a key, an agent's question, the second opinion on a change; `left` is what remains of the chain |
| `GeminiAdapter` ... `MockAdapter` | each adapter as the ways one request may end; Gemini's sends a request once more without a thinking budget |

`Spending` extends it by the money of one workflow. A step is a call: `taken`,
`afforded` (`cost.affordable`), `routed` (`model_router.choose`, `_model_for`:
the *label* it is priced and measured under), `handed` (the call is under way),
`between` and `charged` (the two statements of `cost.charge`), then
`tasks.complete` and `_measure`. A statement that fails on the way, the second of
the charge among them, is caught like an agent's error (`Fail`): the task is tried
again and keeps what it was charged, and `adrift` holds what its workflow was not.
Money counts in half rupees, the estimate of a
step without a budget of its own. Order, gates and waiting of steps, also where an
agent's function asks the owner, are in `TaskEngine`.

### Memory

| TLA+ | code |
|---|---|
| `row`, `link` | `memories`: two rows of an exchange, and the facts learned from it; forgotten is an `expires_at` that has passed; `related_memory_ids` |
| `ex[e]` | one message, typed, spoken, opening a site or for the shortcut on his device (the last two get a sentence of the program, `Canned`): `gathered` (history, facts, briefing), `stored` (both rows in one INSERT, the reply is out), `known` (the facts shown to the model that learns, of which `list_facts` gives a limited number: `Listings`, here any so many, since the order of rows is not modelled), `facts` (stored one by one), `mark` (`status.mark_seen`) |
| `quote[e]` | what the reply repeats of what its model was shown |
| `Forget`, `Restore`, `Delete`/`Strip`, `ForgetAll`, `Purge` | the routes of `records.py`; deleting is two statements, `WholeExchange` is `_WHOLE_EXCHANGE` |
| `news`, `Finish` | workflows completed since `briefing_marks.last_seen_at`; `recent_work` shows the latest few |

A text is the set of things it tells. `tardy` holds the exchanges that were being
learned from when they were taken back, `together` those learned from at the
same time, `restored` the things a restoration brought back as facts, `loose`
what a purge or a crash left unstripped, `unlisted[e]` the facts that exchange `e`
was not shown, there being too many, `missed` the work no model told and
why.

## 3. The runs

The MC modules give the constants their values; every bound is named there or
in the `.cfg`. Deadlock is not checked, because each of these systems may come
to rest (all work finished, all bounded events used).

| run | asks | instance and why it is enough |
|---|---|---|
| `engine_race` | `OwnerGate`, `SingleRunner`, `OrderRespected`, `CompletedMeansAll`, `AttemptsBounded` | chain of two steps, the second asking; two advances (the fewest that race), one owner request, two attempts (one retry), a gate, no crash |
| `engine_recovery` | `KeepsPromise` (refinement), `RunnableIsServed`, `ApprovalTakesEffect` | same plan, the first step asking from inside and the second at the gate; one advance at a time so that liveness can be explored, one crash at any point, one use of the stop, no gate that stops the wave (that is in `engine_race`) |
| `engine_interrupts` | `NeverInterrupts`, section 6 | smallest instance that shows it |
| `sidecars` | `RunsAsAllowed`, `OneLivePerCode`, `StandDown` | two rows with one name (re-pairing), two redeemers of one code, two pollers, one job, one capability that always asks and one that does not, two upsets: two is what re-pairing with a crash, or a stand-down with a time-out, takes |
| `scheduler` | `RunsBounded`, `DueIsServed`, `PickedUpOrCrowded` | two schedules, two calls, two ticks a day over three days, a week of three days, so that a late run and the day's own fall on one day and a midnight falls between check and claim; one upset. Beside them a workflow of three steps of which the first asks, so that a step is left blocked while he thinks and after a rejection, and one of a single step; one resumed at a time instead of five, so that two workflows crowd; one crash, with a restart at once or after hours. `RESUMABLE` is four times `STUCK` (six hours are twenty-four times fifteen minutes), which leaves room for as many recoveries as there are attempts |
| `trials` | `OneAnswers`, `EvidenceKept` | two versions, two requests at a time out of four (four are needed for a trial, its decision, the opposite trial and its decision), a worker on each arm, a crash |
| `dev_changes` | `ApprovedWithin`, `BranchIsSound`, `WayBack`, `FirstAnswerStands` | two builds, three risk levels (lowest, highest the ceiling may allow, protected), three commits of which two are kept, six events of the owner, the stop or a restart: two taps, a raised ceiling, an answer, and two more, or three starts from three commits; audits of all, a part or none of a diff |
| `media` | `DeskIsSound`, `ClosedMeansSettled`, `AnswerIsFinal` | two directors, two attempts at a step, one revision as in the code; one event: a crash, a retry, a record that is not written, or a tick beside a director at work. A second director may itself be followed by ordinary resumptions, so one event reaches every pair of director states |
| `effects` | `OnlyWhatHeApproved`, `OncePerYes`, `RecordsAreTrue`, `NothingUnseen`, `CanBeAnswered` | two tasks out of posts and commands, or one on a page that fills in a field and taps a button (`Alone`: it shares nothing with the others); two runners, a redirect, three attempts as in the code, one event (a crash, a lost or unreadable answer, an error after the effect, a decision on the piece, the account or the policy): one is enough for each excuse, since each names one event; both policies to begin with; waiting, ageing and being recovered are not events, so a task parked for long and taken from its runner is reached without one |
| `live` | `AgreedOnce`, `ReconnectsBounded`, `YesIsTakenUp` | two calls that get the same id, one after the other (calls with different ids share nothing); three turns, so that two requests are judged at once and a yes falls between, or one is refused and then agreed to; one reconnect and two lost sessions, the fewest that exhaust it |
| `memory` | `ForgottenStaysForgotten`, `NoTwins`, `DeletedLeavesNoReference`, `NewsReachesHim` | a typed exchange in which the owner tells two things, and one, before, beside or after it, spoken, opening a site or for his device, whose reply may repeat them; a list of one known fact, so that two are too many; two moves among his taps, a crash and work that ends (two workflows, of which a briefing shows one), so that what one exchange quotes of another is taken back while either is learned from, or one workflow crowds the other out. Things, and workflows, are interchangeable: no action tells one from another |
| `models` | `CacheAgrees`, `AnsweredAsAsked`, `OverspendBounded`, `BooksAreTrue` | two steps, one planned cheap and one risky, in two runners, three attempts, a budget of two estimates and answers of at most two; the primary's key set and removed, another configured, a local model; two changes or restarts. Steps run, through one restart at most, while no key changes and nobody else asks, or the other way round (`Apart`): the two meet only in who answers, which no step looks at |

What the passing runs show, and where each guarantee ends:

* *Engine.* No step is worked on, or delivers a result, without the owner's yes
  to each category it needs, over retries, recoveries and approvals
  (`OwnerGate`). Two calls of `advance` never hold one task **unless**
  `recover_stuck` re-queued it under a live runner (`usurped`) or an advance
  began before the plan was wired (`early`) - the second happens when a crash
  falls into `start` and the tick resumes half a plan. The same `early` limits
  `OrderRespected` and `CompletedMeansAll`. Attempts are bounded by
  `max_attempts` plus the approvals given, and one more for a step that was
  wired while it ran. A yes takes effect **unless** the process died between the
  two statements of that very yes, the task's own function asked again for what
  was answered, or the task had a second runner (`usurped`, `early`).
* *Resumption.* Work that stopped without finishing is taken up again, and not
  closed as left too long before that, **unless** as many workflows as are resumed
  at once were touched later, or the process was away for hours. The first of
  these can last for ever (section 6).
* *Sidecars.* A job runs at most once whichever copies poll, reports are lost
  or time-outs fall in between; only within what the owner chose at pairing;
  after a yes where the capability always asks. Jobs of a machine that was
  stood down are closed, **except** those queued on a stale reading of its row
  and those of a machine whose name has been used before.
* *Scheduler.* A schedule runs at most once for each moment it names, at most
  `max_per_day` times a day; all of them together at most the ceiling, **plus**
  one for each connection that was dropped together with the lock.
* *Trials.* The index keeps trials apart; one version is live, promotions are
  supported by the trial's own numbers unless forced, and something stays live
  at rest - **unless** two requests act across each other (`crossed`) or a
  crash cuts a decision short (`cut`).
* *Self-development.* However many builds two taps begin, what the Governor
  approves without asking passed its tests, has no blocking finding, and as much
  of it as the auditor was shown lies within a ceiling that was in force since the
  proposal; what lies past the first 120 000 characters may be above every ceiling
  (section 6), but is never in the protected core, which reaches no branch at all.
  The diff he is shown is the one on the branch. His answer stands for the diff he
  answered, **except** that a review under way when he gave it writes over it, and
  that another build under way then starts over. The way back is the last other
  version that was seen to start.
* *Media.* In every interleaving of two directors, crashes and retries no piece
  that rests on a contradicted claim reaches the owner. Nothing is written on a
  contradicted claim, **except** by a second director or after a crash between
  the verification and the gate. A piece called ready carries the script that
  passed, **except** when two directors revised at once or one died in `_add`.
  A closed workflow leaves a piece with an outcome, **except** when a director
  died between the statements of a settlement, when a tick came before the
  piece was on record, when an older reading was recorded last, or when the record
  could not be written. An answer given at rest is final.
* *Effects.* Every command run and every package posted was approved by the
  owner; a post whose step names the permission had his yes to that step as well,
  **except** under his policy `auto`. One yes buys one effect, **except** where
  what was done but not seen or recorded is tried again, by the second request of
  `linkedin.post` or by the engine, or two tasks post the piece at the same time. A
  task that failed did nothing, with the same exception, and a piece called
  published is the one that went out unless a director made it anew meanwhile.
* *Pages.* Nothing is done to a page that he did not approve for that task and
  address, over retries and wherever the steps lead, **except** to a page that
  changes between the look and the touch. A task that waits can be answered,
  **unless** a page led it to something to touch at another address, the answer
  could not be read (of a command or a page), or it was taken from a live runner:
  one answer is kept for a task, so those wait for ever.
* *Live.* Work begun by voice was agreed to by one spoken yes, is the offer that
  stood when he said it, in the conversation that offered it, and was never
  declined by a spoken no; **except** that an offer which comes in while the yes is
  being remembered is run in its place, and an offer put down after its call had
  ended may be taken up in another. A yes is acted on **unless** its session ends
  first. After a session without a response at most `MAX_RECONNECTS` more are
  opened in vain.
* *Memory.* What he takes back by way of his message is not recalled again,
  neither half of the exchange nor a fact read out of it, **except** facts that
  were being learned just then. Two live facts that say the same come only of two
  exchanges learned from at once, of a restoration, or of a list of known facts that
  was too short for the older one. Erasing leaves no reference
  behind, **except** beside learning, a purge or a crash. Finished work is told or
  still waits to be told, **except** what ended between a briefing and its mark,
  what was not among the latest, and what a message was briefed with that no model
  answered: one that opened a site, or one for his device.
* *Models.* At rest a process goes by the keys on record **unless** another wrote
  last, the reading failed or two requests crossed. A provider that must answer
  answers, or nobody; a call that names none fails only after every configured
  provider has failed. A workflow goes over its budget by no more than the steps
  that run side by side cost; what it spent is what its tasks spent, **except**
  for a charge cut by a crash or whose second statement failed; no model is measured on a run it was not given.

## 4. Fairness

`TaskEngine!FairSpec`: each coroutine runs on (asyncio's event loop), each
request that has begun is served, and `Recover`, `Abandon` and `Resume` come
round because `scheduler.loop` calls `resume.after_restart` every minute.
Nothing is assumed of the owner, of agents or of crashes, so
`RunnableIsServed` is about work *that can run*: a task that waits for an
answer may wait for ever. A weakly fair `Resume` suffices, since an unfinished
workflow stays unfinished until somebody touches it.

`MCScheduler!LoopSpec` joins the fairness of `Scheduler!FairSpec` and
`Resumption!WorkSpec`. `RunDue(i)` is weakly fair for each instance, the loop that
comes round; `DueIsServed` says that a due schedule that may run does not stay so.
`Minute` is the same loop, and each call of `advance` goes on. Time, the owner,
crashes and dropped connections are not fair, nor are new workflows.

`Live!FairSpec`: each call and each detached handler runs on. Speaking, leaving
and the end of a session are not fair. That judging and working come to an end
is assumed (both are model calls with time-outs); `YesIsTakenUp` needs only
that the handler begins.

The other modules state no liveness: whether they go on depends on the owner, on
another machine, on a provider or on a page.

## 5. What is proved

Every theorem is about the specification TLC checks, for every value of its
constants that meets the module's `ASSUME`: any number of tasks, runners,
requests, machines, versions, schedules, exchanges, crashes and events. Apart from
the sizes the assumptions say what keeps names apart (`NamesAssumption` in
`TaskEngine`, `"none" \notin Task` in `Effects`, `Nothing # Fresh` in
`DevChanges`), that there is an `id()` at all (`Key # {}` in `Live`, whose
records choose one), a process, a step and a run (`Process`, `Task`, `Runner`), that
what is summed or counted over is finite, that a schedule names an hour of the day
and days of the week, and that the dearest answer costs something
(`MaxPrice \in Nat \ {0}`; were everything free, a workflow would stay within its
budget and not, as the bound says, below it by the estimate).

Each component has an inductive invariant made of named parts (`IInv`,
`SchedulerInv`, `PurseInv`, ...; in the task engine several, proved one after the
other), lemmas per action or per part that it is kept, and theorems that derive the
properties from it. TLC checked it as an invariant before it was proved. The table
says which
property of section 3 each module proves; what follows says why the property
alone would not do.

| module | about | theorems |
|---|---|---|
| `TaskEngineProofs` | `TaskEngine`, `GatedWork` | `TypeCorrect`, `OwnerGate`, `SingleRunner`, `OrderRespected`, `CompletedMeansAll`, `AttemptsBounded`, `KeepsPromise` (refinement), `YesIsUnderWay` (the safety half of `ApprovalTakesEffect`) |
| `SidecarsProofs` | `Sidecars` | `RunsAsAllowed`, `OneLivePerCode`, `StandDown` |
| `TrialsProofs` | `Trials` | `OneAnswers`, `EvidenceKept` |
| `DevChangesProofs` | `DevChanges` | `ApprovedWithin`, `BranchIsSound`, `WayBack`, `FirstAnswerStands` (action property) |
| `MediaProofs` | `Media` | `DeskIsSound`, `ClosedMeansSettled`, `AnswerIsFinal` (action property) |
| `EffectsProofs` | `Effects`, `Browsing` | `OnlyWhatHeApproved`, `OncePerYes`, `RecordsAreTrue`, `NothingUnseen`, `CanBeAnswered` |
| `ConversationProofs` | `Live`, `Memory` | `AgreedOnce`, `ReconnectsBounded`, `ForgottenStaysForgotten`, `NoTwins`, `DeletedLeavesNoReference`, `NewsReachesHim` |
| `LimitsProofs` | `Scheduler`, `Providers`, `Spending` | `RunsBounded`, `CacheAgrees`, `AnsweredAsAsked`, `OverspendBounded`, `BooksAreTrue`, and `SpendingSpec => Spec` (the calls that are paid for are calls of `Providers`) |

### The task engine

* `TypeCorrect == Spec => []TypeOK`. By induction, one step per action
  (`TypeStep`).
* `OwnerGateHolds == Spec => []OwnerGate`. `OwnerGate` is inductive given
  `TypeOK`. Three facts carry it: a runner is at `work` only if it was there
  before or has just passed the gate with every needed yes (`WorkBegins`); a
  result is written only by a runner at `work` (`DeliveredFrame`); an approval,
  once given, is never withdrawn (`ApprovalsFinal`, from the ON CONFLICT DO
  NOTHING of `Decide`).
* `SingleRunnerHolds == Spec => []SingleRunner`. Not inductive by itself: that
  two runners cannot both claim rests on a held task *not being claimable*.
  `Exclusive` adds that: while neither `usurped` nor `early` excuses it, a held
  task is neither queued, blocked, waiting nor absent. Its step needs `Quiet`:
  before the wiring is finished nothing advances (else `early`), and outside a
  wave no `run_task` is alive - so `CreateTask` and `WireTask`, which would make
  a held task claimable, find nobody holding one, and `Look`, which resets its
  runners, finds them idle.
* `OrderRespectedHolds == Spec => []OrderRespected`. Three invariants, proved in
  this order. `Wired`: a task depends on nothing or on exactly `After[t]`, and
  once the wiring has finished no task is absent and all edges are in place.
  `Ordered`: a completed task has been delivered, and a runner that was spawned
  has its predecessors delivered - because `Spawn` happens after the wiring
  (or is `early`), reads the edges through `Wired` and finds only completed
  predecessors, which `Ordered` says are delivered.
* `CompletedMeansAllHolds == Spec => []CompletedMeansAll`. The verdict is decided
  on rows read in `Judge` and written later, so the invariant must speak about a
  verdict *about to be* written (`Reported`).
* `AttemptsBoundedHolds == Spec => []AttemptsBounded`. `Asked`: the request that
  is about to re-open a waiting task holds an approved category that no other
  request holds and that has not re-opened it yet. `Counted`: attempts so far,
  plus one if the task is still owed a run, are at most `MaxAttempts`, plus the
  categories that have re-opened it, plus one for a task wired twice.
* `PromiseKept == Spec => KeepsPromise`, that is, `TaskEngine` implements the
  abstract specification `GatedWork` under the mapping of `TaskEngine`:
  `ClaimIsTry` (a claim is a `Try`, within the bound by `Counted`), `WorkFrame`
  (only an approval, a claim and a delivery move the mapped state), and
  `PromiseStep` puts them together, using the invariants above.
* `YesIsUnderWayHolds == Spec => []YesIsUnderWay`. A task that waits on a category
  he approved, for none of the reasons `Stranded` names, has a request that holds
  this very yes and is about to put the task back; fairness does the rest, which
  TLC checks. `InHand` says that a runner which is about to park on an approved
  category is excused, and that a task a request still has to put back is in no
  runner's hands and waits for that very category, or is over (`Settled`);
  `Exclusive` that nobody claims it meanwhile.

### Sidecars

That a job runs once is a fact about jobs that were handed out and have *not*
run. `RunsSound` says that such a job lies with one copy of the program, is no
longer queued, and was asked about; that whatever ran is not handed out again
follows because only queued jobs are taken. `JobsSound` and `RowsSound` carry
what was granted from the code through the row to the job: `granted` is written
once, when the row is inserted, which is why a reading that is stale in its
status is not stale in what it allows (`CallerSound`). `OneLivePerCode` needs
nothing but the index on names and that a row is named as its code says.
`StandDown` is kept by a frame lemma per part of its statement (`StoodFrame`)
and the excuse that only grows (`ReusedStays`).

### Trials

The unique index makes the latest row the only one running (`LatestRuns`). The
rest is `CallsSound`: what a request holds at each of its points (`Shape`), and,
until requests act across each other, that the trial it holds is the running one
(`Handles`) - so no two requests hold trials apart - and that its numbers were
measured in that trial (`Measured`: they may be out of date, but counts only grow).
`Answered` says that a moment without a live version has a request about to
activate one. The running version that `live` picks is the newest of a set
(`LiveIs`), which exists because the versions are finite: `HasMax` takes a
smallest set without a newest member and leaves one out.

### Changes to its own code

Two taps start two builds that share the row, the branch and the worktree. What
keeps them apart is git: `Open` makes the branch only where there is none.
`BranchOwned` is the heart: at most one build writes on a fresh branch, and
whoever has committed is whose commit the branch holds. Then the row under review
holds the reviewer's own diff (`RowOwned`), and the ceiling a reviewer compares
with was in force since its proposal (`CeilingSound`). `OutcomeSound` is about an
approval decided on and not yet written; it and `ApprovedWithin` go by what the
auditor was shown, and the protected core is kept out by `constitution.refuse`,
which looks at all that is staged. `FirstAnswerStands` needs that an answered
row is written by two kinds of steps only: a review of the very diff he answered,
or a build that had not come to its review; and that both, if they are not over,
are among those `ans` names (`AnswerSound`), since no build can begin on an
answered row.

`WayBack` is about `known_good`, of which only the newest rows are kept. Its two
newest rows are enough (`KnownSound`): they are the version that was seen to start
last and another before it. Neighbours differ because a start from the same commit
adds no row, and at least two rows are kept (`KeptNewest`; this is what `KEEP` is
assumed to be two or more for). `PreviousToRunning` is stated over the positions
of the rows, since the prover knows nothing of `SelectSeq`.

### A piece of media

`MediaInvariant` joins two chains.

*The plan.* `StepsSound`: one of the five steps begins only after what it depends
on is completed, and stays with one runner - whoever runs it and however often a
director begins anew, as long as the rows are claimed by one UPDATE. So a
review means that the claims were verified, and whatever is made of the rows
after they have been read - a revision, a record of an outcome for the owner, his
desk - rests on sound claims (`ClaimsSound`): the first part of `DeskIsSound`
needs no excuse. `GateSound` is the second part:
while the claims are contradicted, no step behind the gate is in any hand, and it
is cancelled or about to be. Its excuses are those of the property, a second
director or a death, and `DirectorsSound` says why they suffice: until then there
is one director, and it asks the gate.

*The revisions.* As long as directors do not meet and none is interrupted midway,
the rows beyond the plan come in pairs, each script and its review made after the
pair before has come to rest (`PairsSound`); a revision is begun only while the
workflow counts as closed, so that no tick starts a second director
(`ClosedRounds`); and so the script and the review completed last belong to one
pair, and a pass is about the script that `package_of` finds (`PassSound`). None
of these is inductive without the other two. The half-made pair - a script without
a review, a review not yet wired - has clauses of its own (`Newest`, `Unwired`).

`ClosedMeansSettled` needs `Outlook`: a closed workflow has a director that has
yet to record an outcome, or a piece that has one, and whoever might still record
"running" over it is counted as overtaken. `AnswerIsFinal` needs `AnswerSound`:
after an answer in peace, there is no director and none can be started, so that
only `Abandon` is left, which keeps an answered piece.

### Effects and pages

`EffectsProofs` is about `Browsing`, whose steps include those of `Effects`;
commands, posts and pages are proved together. `AnswersSound` puts his yes before
the gate. `TasksSound` is about the tasks nobody has lost sight of: they have one
runner, and an effect that was had is in its row or in that runner's hands, which
is what makes "once" inductive. `PostsPaid` counts: until an effect is lost sight
of, each post, the one a runner is about to make and the one an approved piece
invites are paid for by an approval of their own; the second request of one attempt
(`Request`) comes after a post that did not go out, or one that is lost. `PackagesSound` ties what is on its way out to what was approved,
and to the row but for a director that came between. `PagesSound` and `WaitsSound`
do for pages and for waiting tasks what `AnswersSound` does for the gate:
`WaitsSound` says that a runner about to park has no answer yet or is excused, and
that a page asks at another address only for a task that strayed there.

### The live conversation

An offer is named by the turn that made it, and from then on it is in one place:
it stands under the id of its conversation, or one turn has agreed to it, or it
was declined (`StandingSound`, `HandsSound`, `PastSound`). That a yes meets an
offer of its own conversation rests on `KeysApart`: two open websockets have
different ids, and closing one removes what stands there; what is put down
afterwards is in `outlived`. `OfferSound` follows a turn from the moment it is
spoken: as long as it is not in `swapped`, what stands under its id while it is
remembered is what it was spoken to, and what it agrees to is that. `ReconnectsBounded` needs that the budget is spent at
least as fast as sessions fail (`BudgetSound`).

### Memory

An exchange is a star of references: its reply and its facts point at the owner's
message, and nothing points into another exchange. While the message is there the
star is whole (`LinksSound`), so taking the message back reaches all of it;
`LearnersSound` says that what is learned later either finds the message or is
excused. `ReadingsSound` says of two exchanges that one was shown what the other
had stored, unless they learn together or what it was not shown is in `unlisted`.
`BriefingsSound` says that a briefing
carries all the news, but for what was missed.

A proof attempt corrected a variable of the model's history here. With a third
tap, one more than the run has, a tap on a message that had already been purged
counted as taking back by way of the message, though there was nothing left to
tap, and TLC then showed a fact stored afterwards. `forgot` is now set only while
the message is there (`ByMessage`); the promise is about that.

### Sums

Counts of runs and money are sums over rows (`SumFunction` of the community
modules, a fold over a finite set). The library's induction theorems take an
operator, which the prover cannot instantiate; `OneByOne` does without. The facts
to be shown of every subset of a finite set are turned into a *set*, the subsets
they hold of, and the strict subsets of a finite set are well founded: a smallest
subset outside it would have all its own smaller ones inside. From it follow that
the fold satisfies its own equation (`AddsExists`, `AddsUnique`, `SumUnfold`; the
library defines it by a CHOOSE over recursive functions), that the element that is
taken out does not matter (`SumTake`), and what the proofs use: a sum is a natural
number, is monotone, may leave out zeros, and moves by what one term moves
(`SumNat`, `SumBelow`, `SumPart`, `SumChange`).

### The scheduler

`RunsBounded` is three bounds, and each needs something of its own.

*Once for each moment.* The runs of a row and the moments that have passed say
nothing of the next run. `EachItsMoment` does: the runs so far are at most the
moments before the one the row is *due* at, which is itself named. A claim moves
`due` to the first moment after now (`NextDueIs`: there is one, within a week and a
day), so the moment it was due at is used up and no later one is. A row that is late
by several moments runs once and loses the rest, which is what the bound allows.

*`max_per_day`.* `RowsTell`: the row's own count and date are those of the history,
and no day after its date has a run; so the WHERE of `_claim`, which only sees the
row, bounds the day. Time never runs back over a midnight in the owner's zone.

*The ceiling.* It is looked at in one statement and claimed in another. While a pass
holds the lock nobody else claims, so there is room for the one claim that follows;
a pass whose lock was dropped with its connection claims without it, once, and must
then ask again and fails. `CeilingKept` counts a pass that is about
to claim (`Claims`) as if it had claimed: today's runs and those passes together stay
within the ceiling and the drops. Those of them that no longer hold the lock
(`Orphans`) are at most the drops, and a pass that still holds it is the only one.

### Who answers

*Keys.* `CacheAgrees` is about requests at rest, so the invariant must know about
those under way: what a request is about to fill in is what is on record
(`FillsAreFresh`), unless another process wrote meanwhile or two requests to one
process crossed. The statement makes every other process `behind`, and its own too
when somebody else is already reading for it.

*Calls.* The chain a call was given is described by what it contains and not by how
it is built (`UsualIs`: everybody configured, the local model last, the placeholder
only alone). `NobodySkipped` then holds step by step: whoever was configured has
failed or is still in the chain. `HardAlone`: a provider that must answer is the
whole chain. Keys may change under a call; it keeps what it was made with.

`SpendingIsServed` shows that each step of a workflow's purse is a step of
`Providers` or leaves it alone, so both theorems hold of the calls that are paid for.
The run `models` keeps steps and changes of keys apart (`Apart`) to stay small; the
theorems do not.

### What is spent

`OverspendBounded` fails to be inductive because the look (`cost.affordable`) is
three statements before the charge. `WithinPromise` adds to what is spent the most
that the runs let through may still cost: a run is let through only while something
is left, and gives up its share when it charges, fails or stops. `BooksBalance`
follows a charge through its two statements: the sum over tasks moves with the first,
`HalfMade` holds the amount until the second, a crash moves it to `cut` and a
failure of the second to `adrift`.
`HeldToAccount` counts with each model the runs that have it and are not measured
yet. A step of a run sees to three things (`Written`, `Promised`, `PaidFor`), and
`RunGoesOn` shows once that this keeps all of them.

Two conditions came out of these proofs, and are now in the models' assumptions: a
process and a run exist, and `MaxPrice` is not zero. The order of the chain in
`Others` is spelled out where it used `SelectSeq`, a RECURSIVE operator in the
library; the two say the same of the four providers.

### What stays with TLC

* Liveness (`RunnableIsServed`, `ApprovalTakesEffect`, `DueIsServed`,
  `PickedUpOrCrowded`, `YesIsTakenUp`): fairness and `ENABLED` are out of the
  prover's reach.
* `NeverInterrupts` is refuted (section 6).

## 6. Where code and documentation disagree

One statement of the source is refuted by a run that expects a violation; the
quotation is in `PROJECT.json`. `recover_stuck` does interrupt running work
(`NeverInterrupts`): `claim` keeps the first `started_at`, so a task that waited
for the owner, or for the slowest step of its wave before a retry, counts as
stuck as soon as it runs again.

Seen while modelling, and part of the modules as the code has it, unless it says
otherwise:

Engine, pieces and publishing

* A piece is revised more than once: revisions are counted in a local variable
  (`media/director.py:171`), a tick starts another director for a piece under
  way, and that one starts from zero. `director.py:9` says "a review that says
  revise gets one more attempt, then the owner".
* A rejection closes one level of dependants only (`approvals.py:139-146`); the
  level after stays blocked and its workflow is resumed every minute.
* Work that stopped is not always restarted, as `scheduler.py:326` has it:
  `resume_all` takes the five workflows touched last, restarting touches a
  workflow even when nothing in it can run, and one that waits for the owner, or
  whose step he rejected, counts as unfinished while a later step is blocked. Five
  of those stay first for ever, and an interrupted one is closed after six hours.
  Without `crowded` in `PickedUpOrCrowded` TLC shows such a behaviour.
* An approval does not touch the workflow. One whose last step the owner took hours
  to approve is marked failed by the next tick while that step is at work, until
  it settles; if the process dies meanwhile, it is closed in the very restart that
  would have picked it up.
* A workflow whose last step waits for the owner, or was rejected, has no work
  left for `unfinished` and is not touched: after six hours `abandon_old` closes
  it as failed, "Interrupted by a restart". One whose steps are all completed, but
  whose settlement a crash cut off, is closed in the same way.
* A workflow that a gate cancelled is settled as running or failed, because
  `_settle` knows no cancelled tasks.
* Activating a version takes two statements; after a crash between them
  rejecting the candidate leaves nothing live.
* A revised script depends on nothing, and a briefing holds only the results a
  step depends on: the second attempt sees neither the review nor the research.
* A briefing carries the `summary` of a structured result, so a reviewer is
  shown the script's summary.
* `_gate` looks at the verification only; when the strategist declines, script
  and review still run.
* A director that finds no verdict records the workflow's status, `running`,
  as the state of the piece. That is none of the piece's documented states, and
  `in_progress` and `abandon_old` then overlook it.
* A crash between `orchestrator._settle` and `_outcome`, or an exception of
  `records.settle`, which `_outcome` logs, leaves the piece `producing`: the
  workflow is closed and no tick touches it again.
* An agent's function that asks for what was answered parks its task for good:
  `approvals.decide` keeps one answer.
* The owner is asked about a post only when the planner put the permission among
  the step's `constraints` and his policy for publishing is not `auto`; the
  docstring of `publish.py` says every time. The
  emergency stop, which commands look at, is not looked at before a post.
* `linkedin.post` reads the account twice; disconnected in between, it skips
  the checks on what the account may do and posts with the token it holds. After
  any status from 400 on it tries the older endpoint, also when a gateway failed
  after the post was taken: one call may post twice and report one success.
* `computer.approved_exactly` and `browser.approved_exactly` take a failure to read
  the answer for none. The task parks, and can be answered no more.
* An approved command is run again, under the same yes, by the retry after its
  time-out or after a model failed to explain its output, and by
  `recover_stuck` when the yes came more than fifteen minutes after the task
  was first claimed.

Voice

* A tap on stop during a call reconnects once: `end` is read before the close,
  so one more Gemini session is opened (`live.py:448` says that tapping stop
  ends everything). A reconnect does not read the emergency stop again.
* Two requests judged at once both make an offer, and the later judgement
  replaces the other (`live.py:471`: "One offer at a time"). An offer judged
  after the call has ended waits under the id for the next call
  (`live.py:303`). A yes is weighed when its turn has been remembered, so an offer
  that came in meanwhile is what is run, also where he said yes to another or to
  nothing.
* What the work found is put into the session the yes was spoken in; after a
  reconnect nobody hears it. If that session is gone before the work begins,
  the page shows it running and nothing runs.
* Declining an offer with its button leaves it standing for a later spoken
  yes, and one started with the button is started again by it.

Machines, changes and versions

* A stand-down fails after its first statement when the machine's name was used
  before: the subquery by name returns two rows (`sidecars.py:491-496`), so jobs
  stay queued on a machine that is paused. `StandDown` excepts it.
* `records.refuse` and `records.approved_by_governor` write whatever the row says
  by then, so the review of a change overrides an answer that the owner gave
  while it was going on (`records.decide` guards only its own statement).
* A build that got as far as its branch can fail but not be repeated: the branch
  stays, `git worktree add -b` refuses it, and the "failed may be built again" of
  `routes/dev.py` needs the owner to delete it first. A second tap's
  `open_worktree` removes the first build's worktree before it fails, which fails
  both.
* The Auditor and the Governor go by the paths in the first 120 000 characters of a
  diff (`repo.py:345`), and by those that git does not quote; a file beyond them
  has no level, and is not missed.
* A row stays `building` after a crash; no route leaves that state.
* `previous_to_running` compares with the checkout's head, not with the code that
  runs; the two differ between a pull and a restart.
* `budget.remaining`, which the Governor calls, does not exist; the error is
  swallowed and the budget is never part of a review.

Pages

* The owner approves a sequence at the address he typed, and each step is compared
  at the address the page has (`page.url`). After a redirect, a navigation or a
  mere normalisation the later steps ask again, the one answer per task is taken,
  and the task waits for ever.
* A retry repeats the approved steps from the top.

Models and money

* Capabilities call `get_provider(settings)` and never hand on what the router
  chose: the choice is a label. Work labelled local is billed nothing while the
  primary answers, and what a fallback answers is billed at the primary's price.
  The tier argument of `get_provider` is passed by nobody.
* The second statement of a charge may fail; the error is the agent's by then, the
  task is tried again, and the workflow never learns of what it cost.
* What a failed attempt cost is never charged (`cost.py:4` says a task rolls up
  to a workflow); answers of two of the four providers have no price.
* A refusal inside a capability is held against the model that had the work.
* A soft preference whose provider has a key but is down fails; only one without
  a key falls back.
* The Auditor passes a string where `get_provider` looks for a `provider`, so the
  usual provider gives the second opinion, and `independent` is set all the same
  (`auditor.py:232-241`); the director does not say who wrote the change.
* `GeminiAdapter` says that thinking is "off for the rest of this process", but
  each call builds a new adapter, which asks with it again.

Memory

* Forgetting an exchange through JARVIS's reply takes the message with it and
  leaves the facts. Facts still being learned are stored after their exchange has
  been taken back, linked to a message that is gone.
* Restoring a message brings back the facts that a later one superseded.
* Learning compares with the latest hundred facts (`facts.py:240`), so with more an
  old one is stored again, which `facts.py:257` rules out.
* `purge_forgotten` strips no references. Two exchanges learned from at once
  store a fact twice.
* A message that opens a site, or is for the shortcut on his device, marks the news
  as told, though no model saw it.

Agents made at run time (`agents/factory.py`, not modelled, without a caller)

* `register` keeps the status of a row that exists, so an agent that was retired
  and is made again stays retired, whatever `make` returns. A parent made anew
  with fewer permissions leaves its child with more than it has.

## 7. What is not modelled

Four components of section 1 have no module. Planning and the assembly of a
step's context are a model call and prompts; the plan they yield is a constant of
`TaskEngine`. Accounts are single-statement checks of one login. Start-up,
migration and administration read and wire; the restart they perform is `Crash`.
The dashboards keep no state that the server relies on.

Model calls, prompts, HTML, audio and cryptography are inputs or absent;
contents of results, logging, telemetry and the read-only routes are left out
everywhere. Inside the components that have a module:

* *Engine*: the idempotency key of `tasks.create` (no caller passes one), routing
  by permission; several workflows whose calls meet statement by statement
  (`TaskEngine` has one, `Resumption` is coarser), and a resumed piece's director
  beside them.
* *Registry*: agents made at run time, and a redeploy that widens permissions
  during a trial.
* *Scheduler*: the arithmetic of the month's budget (a spent share is an event).
* *Self-development*: the patterns that give a path its level, the content of
  plans and diffs, experiments (`scientist.py` inserts and reads rows), the undo
  branch of a version.
* *Sidecars*: token refresh, the change of a grant, how an outcome is rendered.
* *Effects*: the policies of categories other than publishing; `Needs` of `TaskEngine`
  holds the categories whose policy is to ask.
* *Commands*: the fixed list of commands that only look (`run_known`).
* *Browsing*: research and reading, which change nothing, search, sites opened by
  name, pictures, the wording rules of `claims.py`.
* *Models*: token counts, the shadow price, budgets of single tasks, what the owner
  earned and spent (`money.py`), whether a local model can be reached.
* *Conversation and memory*: the buttons of an offer, which start work through
  routes that do not look at `_STANDING`; attachments, sessions, sums noted with
  facts, how many turns and facts a model is shown (the list of known facts beside
  learning has its limit).

## 8. Plan

1. **Registry** - agents made at run time and a redeploy that widens permissions
   during a trial, added to `Trials`.
2. **Algorithms** - planner repair, the risk level of paths, version history,
   against reference definitions over bounded inputs.

No safety property of section 3 is left without a theorem. What the plan adds to a
module is to be proved with the module's invariant.
