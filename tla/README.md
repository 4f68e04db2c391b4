# Prompta, specified in TLA+

A verification development kept beside Prompta: TLA+ modules translated from the
source, TLC configurations that check them on small instances, and theorems that
TLAPS proves for every size.

Prompta sends prompts to ChatGPT by driving a real browser. There is no API to ask
whether a prompt arrived, so the hard question of the program is the one a payment
system has: *a send whose outcome is unknown must not be repeated, a send that was
not taken should be, and what the user is told must be true*, over process crashes,
lapsing leases, timeouts, two databases without a common transaction and a browser
that may do the work after everybody stopped waiting. The development starts there, goes
on with the scheduler that makes the prompts, and ends at the page that shows what
became of them.

Paths below are relative to the repository (`src/…`, `scripts/…`, `docs/…`, `tests/…`).

## 1. Inventory

Prompta is a set of systemd services that share SQLite files and one browser.

| Component | Source | State it keeps | Operations | Modelled in |
|---|---|---|---|---|
| Delivery queue | `delivery_queue.py`, `delivery_state.py` | `job_deliveries`: status, lease, retry instant and count, order | enqueue, claim, renew, retry, complete, fail, cancel, bump, promote, expire, reconcile | `DeliveryQueue` |
| Results store | `response_store.py`, `response_tables.py` | `job_responses`: status, `accepted_at`, capture owner and deadline | ensure queued, accept, observe, submit, capture, finish, recover, hand over | `DeliveryQueue` |
| Delivery worker | `delivery_worker.py` | the claim it holds, `lease_lost` | sweep, reconcile, claim, hand to a sender, settle | `DeliveryWorker` |
| Browser sender | `delivery_browser.py`, `send_outcome.py`, `fire_and_forget.py` | one thread and one tab for each send | dispatch, evidence, receipt, handshake, capture | `DeliveryWorker` |
| Stop | `stop_jobs.py` | what it read | read both stores, cancel, press Stop in the tab, close the result | `StopJob` |
| Manual replies | `reply_contracts.py`, `manual_reply_dispatch.py`, `manual_reply_worker.py`, `reply_tables.py` | a row for each reply, its lineage | queue or merge, prepare, claim, dispatch, finish, recover, stop | `ManualReplies` |
| Scheduler | `scheduler_service.py`, `scheduler_policy.py`, `scheduler_runtime.py`, `manual_fire.py`, `jobs.py`, `core.py` | job definitions and `scheduler_state` rows (one database) | reconcile finished deliveries, plan, queue what is due; add, edit, fire now, pause, stop, remove | `Scheduler` |
| History recovery | `history_recovery.py`, `tool_recovery.py` | durable pacing slot, backoffs, security pause | pick a candidate, read a saved chat, record the outcome | effect only, in `DeliveryWorker` |
| Deployment, watchdog | `deployment_gate.py`, `scripts/deploy_guarded.py`, `scripts/rolling_deploy.py`, `browser_watchdog.py` | pause marker, interrupted list, failure count | pause, kill, migrate, hand over, start, verify, resume; restart the browser | `Deployment`; the hand-over in `DeliveryQueue` |
| Tab ownership | `browser_ownership.py`, `owned_tab_recovery.py`, with `patchright_driver.py` and `browser_watchdog.py` | ledger of owned tabs | lease, renew, claim an expired tab, close, attach to a surviving one | `TabOwnership` |
| Rate limits, resources | `rate_limit.py`, `resource_pressure.py` | shared backoff, hysteresis | report, read, admit | planned |
| Web API and events | `web*.py`, `live_events.py` | the snapshot of each event stream | calls the stores, tells pages that a topic changed | the stream in `LiveUpdates`; each endpoint beside its caller |
| Event stream client | `ui/liveUpdates.ts`, `ui/toast.ts`, `ui/localRead.ts` | the source, its timers, the notice | connect, reconnect, poll, tell the pages, announce an outage | `LiveUpdates`, `OutageNotice` |
| Chats page | `ui/ChatsPageController.ts`, `ui/resultListRefresh.ts`, `ui/turnRecovery.ts`, `ui/localReceiptReconciliation.ts` | rows, transcript, pins, badges | refresh, page, select, prefetch, pin, read | `ChatList`, `ChatDetail`, `ChatPins`, `ChatReads` |
| Composers | `ui/ChatComposerController.ts`, `ui/composerDraftMemory.ts`, `ui/freshQueueReceipt.ts`, `ui/pendingExactReply.ts` | drafts on screen, in memory and in browser storage, the ledgers of request ids | type, switch, send by one of several routes, send again, put back, restore | `ChatSends` |
| Jobs page | `ui/JobsPageController.ts` | the table, the editor, uploads | refresh, command, edit, upload | `JobsPage` |
| Other UI | `ui/*.tsx`, `ui/resultFormatting.ts`, … | what the controllers give it | show | not modelled |
| Browser driver, parsing | `patchright_driver.py`, `response_capture.py`, `tool_events.py`, `owned_tool_stream.py`, `model_picker.py`, `connector_approval_supervisor.py` | per tab | DOM scripts | abstracted to evidence |
| Persistence | `persistence.py`, `schema_migrations.py`, `image_store.py`, … | schema | set-up | not modelled |

How they interact. The UI, the CLI and the scheduler call `enqueue_*`; the row then
waits. A delivery worker sweeps lapsed leases every 15 seconds, claims the next row
under `BEGIN IMMEDIATE` when a slot is free, starts a sender and a lease renewer, and
writes down what the sender reported. The sender clicks, looks for evidence, writes
the receipt into the *other* database and only then reports; afterwards it goes on, in
the background, to capture the answer. Stop, history recovery, deployment and the
orphan scan write to the same two databases at any moment. Calls on the results
database that follow a queue commit are best effort. Follow-ups are rows of the results
database; their worker scans them every second, binds the next one to the verified
turn it answers, claims it under the queue's writer lock, so that slots are shared with
first deliveries, clicks, and watches the answer in the same thread.

The scheduler is a loop of its own: it reads the state of its jobs, writes back what
finished deliveries mean for the next run, and hands what is due to the queue under a
send id computed from the schedule; the user's commands change the same rows from
other processes between any two of its transactions. The page learns of all this by
an event stream that carries no data, only "read again"; every click, draft and read
of it crosses a network that may lose the answer after the server did the work.

What makes each correct, and what is hard about it:

- **Queue and results.** Terminal decisions stand; a receipt is never taken back by a
  verdict decided earlier and written later; equal rows start in order; quarantine
  resolves when a receipt exists. Hard: no transaction spans the databases.
- **Worker and sender.** ChatGPT takes a prompt at most once; nothing retried is still
  on the wire; every claim ends. Hard: a crash between click and receipt, a receipt
  after the handshake timed out, stale owners, overlapping incarnations.
- **Stop.** A stopped run is not sent afterwards. Hard: two reads, a cancellation, up
  to 15 seconds in a browser and a write, with workers going on in between.
- **Manual replies.** A claimed reply is never sent again; every reply follows exactly the
  turn it was bound to, in the user's order; a follow-up merged into an unclaimed delivery is
  part of what is sent; slots are shared with the queue. Hard: requests that land after
  everybody gave up, message ids that change, two databases, a claim whose process died.
- **Scheduler.** No delivery is stranded although queue and pending metadata are separate
  commits; an interval never starts early; the jobs of a mutex group exclude one another;
  an edited job goes on. Hard: the identity of an occurrence is read from state that
  commands change, in other processes and in the middle of a tick.
- **Event stream client.** No page is stranded, misses a change, or keeps quiet about an
  outage; the notice goes when its reasons do. Hard: five timers, three sources of
  "visible", "online" and "open" that contradict one another, answers that never come.
- **Pages.** What is shown becomes what the server has: no late answer undoes a click, no
  read mixes two chats, no turn vanishes, no refresh is forgotten. Hard: reads and
  writes in flight together, answered in any order or never, writes that commit after the
  page gave them up, other tabs.
- **Composers.** What was typed is sent once or is still there. Hard: an answer that is lost
  after the server queued the prompt, a page that closes, storage that refuses.
- **History recovery.** The pace and the security pause survive restarts; requested,
  pinned and automatic candidates do not starve one another.
- **Deployment.** Admissions resume only over a verified release, whatever step failed. Hard: two programs
  stop and start the same units, each may die anywhere, and a boot starts what is enabled, which is not what ran.
- **Tab ownership.** The reaper never closes a tab in use, and no tab leaks. Hard: several processes and
  the browser, which answers late or never, around a ledger whose rows are read some time before they are used.
- **Rate limits.** The backoff doubles to its cap and resets after a quiet time.

`PROJECT.json` lists the hazards one by one, each at its line, with the properties
that cover it or the reason why none does yet.

## 2. Modules

```
AtMostOnceSend          what is promised for each send (abstract)
DeliveryQueue           both stores, every transaction, any caller   <- MCDeliveryQueue
  DeliveryQueueProofs   theorems about it
DeliveryWorker          EXTENDS DeliveryQueue: workers, senders, ChatGPT  <- MCDeliveryWorker
  DeliveryWorkerProofs  theorems; DeliveryWorker => DeliveryQueue, => AtMostOnceSend
StopJob                 EXTENDS DeliveryWorker: Stop beside the workers   <- MCStopJob
  StopJobProofs         theorems; StopJob => DeliveryWorker

ReplyPromise            what is promised for each follow-up (abstract)
ManualReplies           replies, their worker, Stop, recoveries, ChatGPT  <- MCManualReplies
  ManualRepliesProofs   theorems; ManualReplies => ReplyPromise

Scheduler               ticks, commands, deaths, deliveries seen from outside <- MCScheduler
  SchedulerProofs       theorems about it

LiveUpdates             the event stream and one page
OutageNotice            EXTENDS LiveUpdates: local reads and the toast
  LiveUpdatesProofs     theorems about both; OutageNotice => LiveUpdates
ChatList, ChatDetail, ChatPins, ChatReads, ChatSends, JobsPage
                        one machine of the page each, with its endpoint
  PageProofs            theorems about all of them
TabOwnership            the ledger of tabs: drivers, the watchdog, recoveries
Deployment              deployments, the watchdog's recovery, --resume, boots
  OperationsProofs      theorems about both
MCParts                 EXTENDS these eight and MCScheduler, side by side
```

**DeliveryQueue.** One function for each column of the two tables; an action is one
committed transaction, its guard the `WHERE` of the `UPDATE`. `projection` holds the
results calls that follow a queue commit and have not run: somebody applies them
(`ApplyProjection`, however late) or they are lost (`LoseProjection`: the call raised
and was logged, or the process died). `confirmed[w]` is the list of accepted ids that a
`reconcile_accepted_outcomes` under way carries from its first commit to its second.
`now` is the wall clock. `QueueSpec` lets anybody call anything at any time, so what
holds of it holds for every caller of the real API.

**DeliveryWorker.** `pc`, `job`, `outcome`, `lost` are the locals of the worker's loop and
of `_deliver_one`; a member of `Worker` is one incarnation of the process (and its
lease owner). `sender[s]` is the position of the thread that sends prompt `s`: `pre`
(before `dispatch_started`), `clicked`, `acked`/`seen` (evidence from the network or
from the page), `receipted`, `capturing`, `closing`, or how it ended. `host[s]` is the
process it lives in; `post[s]` and `accepts[s]` are ChatGPT's side, which no crash
undoes. With `FireAndForget` the click alone is the receipt, as in production.

**StopJob.** `StopJobService.stop` as five steps with what it read in `readResult` and
`readRow`, because its decision uses the row it read, not the row it cancelled.

**AtMostOnceSend.** Per send a verdict (pending, unknown, delivered, refused) and the
number of times ChatGPT took it. The refinement mapping is `Reported(status[s])`.

**ManualReplies.** `rstatus`, `byUser`, `parent`, `lease`, `stamp` are columns of
`manual_reply_turns` (`status`, `queued_by_user`, `parent_id`, `lease_owner` with its
deadline, the rank of `created_at`); `messageId` is the stored id that answers a
turn, of `job_responses` for the original and of the reply rows for the others. `stage[r]` is
the position of the thread of `_dispatch` (`run` before the branch is verified, `ready`
before the claim, `claimed`, `clicked`, `watching` for the answer, `answered` between
`accepted` and `observe`, `closing`), and `pump` what the scan found and `submit` has
not seen. `thread[c]` is the conversation at ChatGPT; a turn is answered by one or more
messages (`units`), each with an id, and any of them may be the id a page shows.

**ReplyPromise.** Per follow-up a verdict (waiting, claimed, sent, stopped, withdrawn) and the
number of times ChatGPT took it; the mapping is `Reported(r)` and `Takes(r)`.

**Scheduler.** `defined` are the jobs as they are configured, `jobState` the row of each in
`scheduler_state` (`initial`, `next`, `sent`, `queued`, `fired`: its instants; `last`,
`completed`: the delivery it waits for and the one it has settled), `delivery` the rows of
the queue that belong to jobs. `tick` is where the loop is and what it read: the states
at the start (`seen`), the definitions (`defs`), the identity it is about to queue (`id`).
`request` is a command between two of its transactions. A send id is the triple of job, prompt and
`occurrence_key`. Three history variables serve the properties and change nothing:
`dispatched` (when a job was last handed to the queue or fired, as far as its record goes: a job that was
made anew or whose marker a command had cut off starts without one, and the record of an older delivery
replaces that of a later one), `touched` (jobs a command was about during
this tick) and `excused` (deliveries a command cut off from their job, such as those
of a removed job). What the history variables exempt is listed under "seen while modelling".

**TabOwnership.** `target` is the browser, `leases` the table `owned_tabs`, `driver[t]` how far the code that opened the
tab is (`opened`, `prepared`, `ready`, `left`), or that it is dead and a recovery has `found` the tab or is `recovering` on
it. `asking` holds the renewals that have read the clock and wait for the ledger; `reaper` is where the watchdog's
tick is, with all it has read. `closing` are commands to the browser that were given up and may still arrive. `active` and `strayed` are
histories.

**Deployment.** `pause` is the file `deployment.pause` and what is written in it; `running` and `enabled` are the units
in systemd, where a generation is a number that stands for its two workers; `current` is `worker-generation.json`.
`deployer` and `watchdog` say how far `deploy` and `recover_crashed_browser` are and which units they read at the
start; `operator` is between the two lines of `--resume`. `raced` is a history (see "seen while modelling").

**LiveUpdates.** `ui` is the module state of `liveUpdates.ts` with what the browser tells it,
`stream` the generator of `web.py` for the current connection. Each function of the file
is an operator from records to records, each callback an action that composes them in the
code's order. **OutageNotice** adds the one toast, its waiting list and the three flags of
`toast.ts`, a local read, and the React effect of `App` that passes the status on. `Without` drops waiting toasts as the
`splice` calls do; it picks the k-th that stays by counting, and not with `SelectSeq`, which the prover has no definition of.

**The pages.** In each, the server's state is the first variable (`activity`, `saved`,
`pinned`, `reply`/`receipt`, `server`, `jobs`), and a request is `asked` until the server
answers or, for a write, commits, `served` until the page sees it, and may fail at any point;
a write given up by its timeout may commit later (`transit`, `late`, `astray`, `stray`).
The generation counters of the code are a `current` or `valid` flag on the request in flight.
`ChatList` is the paged and searched list with its staged rows of an animation frame,
`ChatDetail` the transcript with its two reads, its cache and prefetches, `ChatPins` the
queue of pin writes, `ChatReads` the receipts of read replies, `JobsPage` the table, its commands,
the editor and uploads. `ChatSends` has the drafts on screen, in memory and in browser storage, the
ledgers of unacknowledged ids, and the routes of a Send: a new chat (`"chat"`), the offer to continue an
unverified one in a new chat (`"fallback"`), a reply queued behind a turn that goes on or the exact reply
of a turn that still waits (`"queue"`), and a reply after a complete answer, which starts a new chat with a
prompt that quotes the old one (`"continue"`).

### Abstractions

Messages, images, models, conversation ids, error texts and timestamps that no
property tells apart are left out. Further:

- `accepted` stands for the pair accepted/generating, which every modelled transaction
  treats alike; `conversation_id` is only ever stored beside an `accepted_at`.
- `captureOwner` reduces `pid:thread` to the incarnation.
- What the page shows is reduced to the evidence a sender obtains. Assumed of the
  world: a prompt still in the composer was not posted; HTTP 429 and other 4xx answers
  mean it was not taken; a 2xx answer, a page that generates, or assistant text on the
  owned tab mean it was. Whether a click posted is decided at the click, and the POST may be
  taken at any later time (`inflight`).
- Exceptions the worker does not name are handled like `SendNotAcceptedError` by
  `_deliver_one` and are merged with it as `refused`.
- Reading the quarantined ids and the first commit of a reconcile are one step: an
  id that becomes quarantined in between waits for the next sweep.
- `rate_limited` and `retrying` share `retry_attempt`, as in the code. The count is kept
  only up to `MaxAttempt`, with which it is compared.
- Admission, the deployment gate and a full pool only keep a worker from claiming;
  nothing forces a claim in the model, so each such refusal is one of its behaviours.
- In `StopJob`, the free `StopResult` of `Producer` stays enabled (a Stop by
  another client): more behaviours, never fewer.
- Not reachable and left out: the early return of send-only mode on an earlier
  `submitted` receipt (`delivery_browser.py:265`, a claimed row never has one unless the mode
  changed), and the rate-limit text after the click (`delivery_browser.py:1047`). `upsert` is called
  by tests only.

In `ManualReplies`:

- `accepted` stands for accepted/generating. The first delivery of a chat is
  three states and what the claimed message contained (`carried`); a retried delivery stays `running`,
  since neither a merge nor a reply tells it apart.
- There is no clock. A lease is held, lapsed, or dead (its process is gone), and may lapse at
  any step; deployments detach it (`HandOver`).
- Pauses, back-off, pacing and `has_capacity` only put a reply off; they are `Defer`, or no
  step at all.
- What a page shows is the identity of turns and messages; that equal texts can be
  told apart by their position is assumed, as the probes do. A page that shows a reply shows it
  truly; a click may post or not, and a request may land at any later time or never.
- Stop is one transaction here; its steps and the tab are in `StopJob`. Send-only mode has
  no replies (`manual_reply_worker.py:30`).
- `Overtaking` says whether requests may commit in the opposite order of their `created_at`,
  which the code reads before it takes the lock. The runs exclude it (see "seen while
  modelling"); the theorems hold either way.
- An original whose outcome is unknown has no conversation id, so the branch of
  `recover_original_parent` for it cannot be reached.

In `Scheduler`:

- Every end of a delivery but success is one status, `outcome_unknown` included: the scheduler
  reads no more. Queued, retrying and rate-limited are one status, too.
- The lock file of a mutex group may be held by another process at any decision: a free choice.
- An end takes time, so that none falls on the very instant of its occurrence.
- Priorities, start-in-minutes, the account of a job, estimates and the deliveries of Fire
  now themselves are left out. Clearing all jobs is removing each. Commands come one at a
  time; each may die between its transactions, as the tick may.

In `TabOwnership`:

- The unit of time is longer than a write waits for the ledger (2 s), and a claim that times out holds it longer
  (3 s), so that no renewal that was asked before it follows it. The clock starts at `MaxAge`.
- A tab is opened once; a target id never returns. What a page shows, and which chat a recovery wants, decide only whether
  a step is taken. The reaper over CDP and the one over HTTP are one.

In `Deployment`:

- The checkout, migrations, unit files and the browser either work or fail, as one of `DeployFails` and `WatchEnds`.
  A step that starts or stops several units is one step; stopping may also have happened before the failure.
- Nobody starts or stops units but the two programs and a boot. `--resume` is used as its help says, for a
  leftover pause: nobody is at work under it when it begins. The dispatches themselves, and which of them
  are handed over, are in `DeliveryQueue` and `ManualReplies`.

In the page modules:

- Delays are left out: a timer that is set may fire at any time, a request may be given up at
  any time, a remembered chat may be too old at any selection.
- `ChatList`: a run has one stamp, and search decides by run. `ChatDetail`: a turn is a version
  that grows, and what a turn shows (text, tools, status) grows with it.
- `ChatSends`: a text is the sequence of the pieces typed, by number; text is not deleted. The prompt of a
  continuation is its text and what it quotes (`context`), which may be another at every Send. Which state of the
  last turn leads to which route (`sendReply`) is left out: each route of the open composer, and each refusal, may be taken
  at any Send. `Elsewhere` is every other chat, whose composer is not followed. `Offer` is possible more often than in the code, which
  looks for the preflight error. A write to storage may be refused; what was written can be read again.
  Left out: uploads, the buttons that retry a failed turn or continue a given one in a new chat, unmounting a
  composer, the limit of 48 remembered drafts, and a prompt so long that nothing can be quoted. `JobsPage`: of the form only the
  attachments are kept; visibility is in `LiveUpdates`. `ChatReads`: the read marks that an old
  version left in the browser are not imported.

## 3. Runs

| Run | Asks | Instance | Result |
|---|---|---|---|
| `delivery_queue` | any caller, any order | 2 sends (symmetric), 1 owner, 1 slot, clock 0..1, one send out of line | 717 k states, holds |
| `worker_tracked` | safety, both refinements and what must happen, with evidence | 1 send, 2 incarnations (one may crash), lease 2, clock 0..4, 2 attempts, fair | 153 k states, holds |
| `stop_job` | send-only mode, Stop at every step | 1 send, 2 incarnations, lease 2, clock 0..4 | 880 k states, holds |
| `replies` | follow-ups: order, merges, at most once | 1 chat, 2 replies (symmetric), 2 messages for a turn, 1 crash | 391 k states, holds |
| `reply_liveness` | slots shared; replies are tried, claims end | 2 chats for 1 slot, 1 reply, 1 crash | 59 k states, holds |
| `outage` | is the page told, and the user of an outage? | 1 topic, 3 messages, 1 waiting toast, fair | 160 k states, holds |
| `parts` | does each part of the page come to agree with the server, each job go on, once, each tab live while it is used, and work go only to what serves? | see "bounds" | 1.4 M states, holds |
| `send_only_quarantine` | does a send-only receipt settle a quarantine? | 1 send | violated |
| `slot_limit` | are deliveries and captures within `max_workers`? | 2 sends, 1 slot | violated |
| `stop_race` | is a run Stop answered for never sent? | 1 send | violated |
| `wedged_job` | does a job that is only edited go on? | 1 interval job, 2 commands between ticks | violated |
| `reply_lineage` | is a bound reply resumed if ids change? | 1 reply, 2 messages for a turn, fair | violated |

Properties, by what they would catch:

- `QueueInv` — a lease without owner, a receipt denied by its result, a reconcile that
  carries an id without receipt. `FirstInFirstOut` — an older equal row overtaken.
  `TerminalIsFinal` — a stale owner or sweep rewriting a decision. `ReceiptSurvives` — a
  late pessimistic projection erasing an acceptance, or a finished answer rewritten.
- `NothingOnTheWire` — a row offered or retried while an earlier POST of it was taken or may
  be. `DeliveryInv` — queue, workers and senders disagree; it implies `SoleSender` (theorem `OnlyOneSender`).
- `ImplementsAtMostOnce` — a prompt taken twice, or a verdict that is not true.
  `ImplementsQueue` — a step of the workers that is none of the stores' transactions.
- `EveryClaimEnds`, `ReceiptSettlesQuarantine`, `QuarantineIsShown` — a slot held for
  ever, a receipt never used, a prompt shown as queued for ever.
- `CancelledStopIsQuiet` — a Stop that cancelled and yet something was sent.

- `TurnsInOrder` — a late or unclear reply and its successor bound to the same parent, a
  conversation that forks or is out of order. `MergedIsSent` — a merge into a message a worker has
  taken. `KeepsPromise` — a reply taken twice, or taken after it was withdrawn, or claimed twice.
- `ClaimsWithinLimit` — a reply claimed beside deliveries and captures that fill the slots.
- `ClaimsEnd`, `ReadyIsServed` — a row in dispatch whose process is gone; a reply that is put
  off after it was bound and forgotten.

- `LiveInv` — a stream that is gone with no way back (`NeverStranded`), a poll that stopped or
  runs for nobody (`PollsWhileUsed`), a change nobody will tell a connected page of
  (`NothingMissed`), an outage nobody announces (`OutageIsAnnounced`). `PagesCatchUp`,
  `SilenceIsNoticed` — a page that stays behind, a dead stream that passes for alive.
- `NoticeIsTrue`, `NoticeGoes` — a notice without a reason, or one that stays.
- `NoHole` — a chat missing between two pages of the list, or one the search does not find.
- `ShownIsOneChat`, `NoRefreshIsLost`, `TurnsNeverVanish` — an answer for the chat that was left;
  a change swallowed by a load that had read before it; a turn lost to a read that failed or crossed.
- `PinsAgree`, `ClicksShow`, `BadgesAgree` — an optimistic change that outlives its rejection
  or is undone by an older read.
- `LostIsReconciled` — a prompt sent twice because its answer was lost: the same text by the same route, quoting the
  same, is the same request. By another route, or after the transcript changed, it is another one (see below).
- `UnsentIsKept` — a text that is nowhere any more; except what exceeds the length of a draft and, when the page is
  closed, replies on their way and drafts of which storage refused the last write (`lost`).
- `JobsAgree`, `ImagesBelong` — a list left old by a command, an upload attached to another form.
- `PendingIsKnown` — a queued delivery no job waits for, which will be queued again.
  `GroupExcludes` — two jobs of a group at once. `KeepsCadence` — an interval that starts early,
  by a stale marker, a crash or an edit.
- `SparesActive` — a tab closed although its driver renewed the lease after the watchdog had read it.
  `OpenIsLeased` — an open tab that no watchdog will ever find.
- `AdmittedServes` — work admitted to a generation that is half started, that a boot would not bring back, or
  beside an older one.

Each property has, in `PROJECT.json`, a plausible bug of the code (the operators marked
`mutant`) under which it fails on the same instance.

**Bounds.** `Horizon` caps the clock: claims and renewals that would expire after it are
not made, so every lease that exists can lapse within the run. `MaxAttempt` 2 gives a
retry and the dead letter that ends retrying; `MaxBumps` caps the priority, and
`OneOutOfLine` keeps at least one of the two sends of `delivery_queue` neither promoted nor bumped, and looks at a bumped one
while no projection is left to do (the order decides claims only). Two
incarnations are the smallest number where one takes over while the other still runs or its POST
is still travelling. Deliveries meet each other only through order and slots, so order is
checked with two sends in the stores (where callers are arbitrary), and slots and their
hand-over from one send to the next in `slot_limit`, for every size by theorem. Replies
interact within a chat only with their predecessor, hence two of them; two messages for a turn are the
least with which an id can change; `MaxOutstanding` has the code's value, and `reply_liveness` has one
message for a turn because with two `ReadyIsServed` fails (`reply_lineage`). For first deliveries, the rest concerns one prompt and all its senders. Clock 0..4 with leases of 2
lets a lease be renewed, lapse, and the retried row be claimed again. The theorems remove
these bounds for the safety properties of these modules.

`outage`: one topic, since no handler relates two; one waiting toast of four, so that the list
overflows; an error of a read, another error and the notice, while feedback (which is shown at once and is not an error)
adds nothing to them (with it, 364 k states, all hold); `Grace` 1 says that the quiet time of `toast.ts` is over before the next read. With
2, reads that come before it is over put it off each time and `NoticeGoes` fails (see below).

`parts`: the nine machines share no state, so `moving` picks one for a behaviour and the states
are the sum and not the product; the focus is a choice of the initial state, so each machine has all its
behaviours. What is expensive is not combined with everything else (`PartsBound`). List: 3 chats in pages of 1, a search that excludes one, 3 changes. Transcript: 2 chats, a turn
and a follow-up, 2 reads of a kind in flight (a superseded load beside the current one,
while some chat is not remembered yet). Pins: 2 chats, 3 clicks, 1 change
by another tab, so that a click returns to where it began. Badges: 1 chat (chats share only the bulk
receipt), 2 replies, 2 receipts in flight, one of them (or a late one) beside "mark all read". Composers: 3 pieces of text, of which 2 fit into a draft,
2 request ids, 2 things that a continuation may quote (the first to be quoted is called 1), 1 write that storage refuses, 1 closed page;
requests, pieces and troubles (refused writes, closed pages, POSTs astray, deliveries that end badly) are 4 at most, so that a text beyond the length of a draft
meets any one trouble, or a request and none; two requests are about one piece; 2 sends are in flight
while requests and pieces are 2 at most and nothing disturbs them, else 1; the text on screen has no piece twice. The ledgers never fill with 2 records
each, but a registration may fail at any time (`RegisterFails`), which is the same refusal. Jobs page: 2 changes, the editor
opened twice. Scheduler: one job and a command, or two jobs of a group and none, 1 crash, the clock 1..3 (1..2 where a command and a crash both fall) with
intervals of 1 and 2: an interval is dispatched, ends and is due again within it. (One job with the clock up to 4 also holds.)
Tabs: 1 tab, leases of 2 units, 4 units to pass: opened, renewed, expired, missed by one tick and closed by a later one; the code treats
tabs one by one but for `PerTick`, and 2 tabs with 2 units to pass also hold (3.2 M states).
Deployments: 2, so that one comes after one that failed, was lifted by hand, or was overtaken by a recovery; failures,
deaths, recoveries and boots are not bounded. `VIEW Moved` tells states apart by the machine that moves; the others are
as they began.

**Deadlock** is checked in every run but `parts` and `wedged_job`, where clicks, versions, time and
commands are bounded and a behaviour that has used them up is at its end. In the others producers, clocks,
sweeps and frames leave the final states with a step.

**Fairness** (`worker_tracked`, `send_only_quarantine`): time passes; the steps of a
sender up to its answer are weakly fair because each is under a timeout; the
incarnations that do not crash are started (systemd restarts the unit), leave a claimed
job (their waits have deadlines) and sweep. Sweep and the two halves of the
reconcile are strongly fair: the loop returns to them every 15 seconds and the databases are
not busy at every attempt. Nothing is assumed of ChatGPT, of claims, of renewals,
of captures, of the user or of best-effort projections. The incarnations that may crash
have no fairness.

For the replies (`reply_liveness`, `reply_lineage`): the pump returns every second and is
blocked neither for ever nor at every scan, a preflight that is tried again and again ends in
`ready` or failed again and again, and a slot that is free again and again is got (strong
fairness of these three); threads leave every other state by a deadline, leases lapse, captures
end, the orphan sweep recurs. Nothing is assumed of the user, of ChatGPT's answers or of recoveries.

For the page (`outage`): a timer that is set fires, a minute of silence passes, React runs the effect of a
changed status. Nothing is assumed of the server, the network, the user or the success of a read;
`NoticeGoes` names what it needs of them. The state machines of `parts` have only safety properties: "at rest"
in them is the code's own rest, nothing in flight and (but for the badges) no error shown.

### Where the code disagrees

1. **`send_only_quarantine`.** In send-only mode a worker that dies, or loses its lease,
   after `mark_submitted` and before `complete_claim` leaves the row
   `outcome_unknown` for ever: `reconcile_accepted_outcomes` accepts a receipt only with
   the statuses of the other mode (`delivery_queue.py:116`), although its comment says
   that a local `accepted_at` is the evidence (`delivery_queue.py:98`).
2. **`slot_limit`.** A sender whose handshake timed out may save its receipt and capture
   afterwards, while its slot is given to another row; `docs/configuration.md:13` calls the
   limit global.
3. **`stop_race`.** A row claimed between Stop's read and its cancellation is neither
   cancelled nor refused as "still starting"; Stop answers ok, the result says stopped
   and the prompt is sent. Both stores stay consistent and the at-most-once promise
   holds; the answer is wrong.
4. **`wedged_job`.** An edit of the cadence "rebases from the last send" by clearing the next and the
   initial due time (`web_jobs.py:186`, `tests/test_web_jobs.py:356`). Without these the identity
   of the occurrence falls back to the last success (`scheduler_policy.py:151`). After an edit, a delivery that
   fails and another edit, the identity is that of the failed delivery again: the queue returns the finished row at
   every tick, and the job is never sent again, without an error.
5. **`reply_lineage`.** A recovery of an interrupted answer may replace its stored id by that of a later
   message of the turn. A follow-up bound to the old id and put off is prepared for ever
   (`reply_contracts.py:341`), although "A prepared intent that was never claimed can be
   resumed" (`manual_reply_dispatch.py:174`), and blocks the ones behind it until Stop.

### Seen while modelling, without a run

Each of these is a case that a passing property names and exempts, or that the model leaves out by a
named constant, so that it is not mistaken for something shown.

*Replies.* `queue_followup` stamps a follow-up before it takes the writer lock, and the stamps order the
branch. If the requests of two follow-ups commit in the other order and the first to commit is
bound in between, both are bound to one parent and sent, the later one first
(`reply_contracts.py:210`, `:216`). `Overtaking` set to TRUE in `Replies.cfg` shows it. The sentences
`docs/configuration.md:19` and `:21` on whether follow-ups take a slot contradict each
other; the model follows the code, in which they do.

*Scheduler.*

- "Serialize jobs sharing this group" (`core.py:169`, `docs/configuration.md:17`) does not hold for a
  one-time job: its definition is removed once it is queued, and its pending delivery no longer makes the group
  busy (`scheduler_service.py:73`, `:220`). Neither does it after a crash between queue and record of one
  job of the group, and Fire now ignores groups. `GroupExcludes` speaks of defined jobs and recorded deliveries.
- The scheduler dies between queue and record, and before the next tick the prompt is edited, the job is
  fired, or an unsettled last delivery moves the markers: the next decision has another identity, and the
  occurrence is delivered twice (`scheduler_service.py:195`; `excused`).
- It dies between the record and the removal of a one-time job: the job stays listed after its success.
- A one-time job that is rescheduled while its tick queues it is removed by the end of that tick.
- `_record_pending_metadata` writes the `created_at` of whatever row the queue returned (`scheduler_service.py:218`). After
  the edits of `wedged_job` this is an old row, and its date replaces a later `last_enqueued_at`: the next
  interval may start within its length of the true last dispatch, which `scheduler_policy.py:103` rules out. TLC showed it with one
  job edited from an interval to daily and back, no crash, a day of one and an interval of four units. `KeepsCadence` speaks of
  the last dispatch that is on record; the cause is that of `wedged_job`.
- A job cleared or defined anew during a tick may be dispatched by it at once, without its initial delay. A Fire now
  between decision and queue is followed by the scheduled delivery at once (`touched`).
- `prompta add` over an existing job clears its state and forgets its pending delivery.
- Fire now is three transactions (`manual_fire.py:20`): dying after the first leaves the countdown as it was.

*Tabs.*

- A tab that is opened and leased between the watchdog's list of targets and its list of leases looks like one that is
  gone, and its row is dropped (`browser_watchdog.py:214`); the second lease, after navigation, usually makes up for it.
  `strayed` in `OpenIsLeased`.
- A watchdog that is cut off while its command is on the way to the browser, before the command times out, gives the
  ledger to a renewal that had waited for it; the tab is then closed just after it was renewed. `"lost"` in `SparesActive`.
- `docs/service-architecture.md:87` speaks of 45 minutes of inactivity; `MAX_OWNED_TAB_AGE_SECONDS` is 15 minutes.
- `MAX_EXPIRED_TABS_PER_TICK` counts failed attempts, and the rows keep their order: four expired tabs that cannot be
  closed keep the watchdog from all others.

*Deployment.*

- A recovery that takes up its leftover pause while `--resume` is between its check and its removal of the file goes on
  without a pause; admissions are open while it stops workers, and a deployment may start beside it: `raced`.
- A watchdog killed between creating the pause and writing its marker (`browser_watchdog.py:334`) leaves an empty
  file that neither the watchdog nor a deployment lifts. A deployment that failed after `retired` is not
  repeatable either before `--resume` (`deploy_guarded.py:35`), and `--resume` does not repeat `verify_recorded_work`.
- A worker that passed the gate before the pause and claims after `record_interrupted_work` is not in the inventory: its
  row is not handed over and goes the ordinary way of a lapsed lease.

*Page.*

- A reconnect timer that is still pending when a stream recovers by itself replaces the good stream while
  the status stays "connected" (compare the comment at `liveUpdates.ts:100`).
- Going offline while the page is hidden and coming back visible never arms the indicator
  (compare `tests/liveUpdatesRecovery.test.ts:327`): the exception in `OutageIsAnnounced`.
- Each successful read starts the quiet time of the outage notice anew (`toast.ts:57`); with polls every 5 s
  the notice does not go while the page polls.
- A toast of another kind displaces the sticky notice (compare `localRead.ts:3`).
- Selecting A, B and A again clears `detailInFlightFor` when the first load of A ends, so that a
  second load of A is not coalesced (`ChatsPageController.ts:885`).
- After a search whose first page failed, the next refresh merges the rows of the old search with
  those of the new (`resultListRefresh.ts:3`): `whole` in `NoHole`. A next page asked while the first is being read is not
  superseded (`ChatsPageController.ts:808`).
- A follow-up whose answer was lost is put back before what was typed since; sending both is another fingerprint, hence a
  second follow-up that contains the first.
- A follow-up whose answer was lost, sent again after the answer it was queued behind completed, goes as a new chat
  with an id of its own in the other ledger (`ChatsPageController.ts:1406`), and a continuation sent again after the transcript
  changed has another hash; the first request may still commit, so both can go through (compare "A lost HTTP receipt must not turn a later explicit
  Send into a second fresh chat", `freshQueueReceipt.ts:4`). `LostIsReconciled` claims nothing of these; no run
  shows them, because the module takes the route and the quotation as free choices.
- A follow-up's text leaves storage at submit and is lost if the page closes before the POST arrives
  (compare "Never drop the text", `ChatComposerController.ts:265`). So is, when the page is closed, a draft that storage refused
  (`:154`, `:277`, the error is swallowed), and what a reply that is put back has beyond 32000 characters (`:268` may store
  more than `:433` restores): `lost` in `UnsentIsKept`.
- Leaving a new chat while its prompt is being sent and coming back leaves the accepted draft in place.
- A list answer dropped for a command that then fails leaves an old list without an error, and the late
  answer of a command overwrites a newer list: `dropped` in `JobsAgree`.
- Fields of the job editor can be edited while it saves; those edits are discarded on success.

## 4. Proofs

`DeliveryQueueProofs` (any sends, owners, bounds; assumption `QueueAssumption`):

- `QueueInvariant`: `QueueInv` is inductive. Its parts are types, columns that are set and
  cleared together (`RowsConsistent`), `ReceiptShown`, and `ConfirmedHaveReceipts`.
  The last is what makes the rest go through: the second commit of a reconcile does not
  look at the results again, so success rests on ids read earlier, and only because no
  transaction ever clears `accepted_at` are they still right. `QueueTypes` is its first part.
- `TerminalDecisionsStand`, `ReceiptsSurvive`: the two action properties, one case for each
  transaction, from `QueueInv`.
- `DispatchIsFair`: `FirstInFirstOut` from `OrderInv`, which adds that sequence numbers are
  distinct among the rows and never exceed their number (by the cardinality of the rows
  present), that priorities never rise above 0, and that a row never queued has none.

`DeliveryWorkerProofs` (also `WorkerAssumption`; both modes unless said otherwise):

- `SystemInvariant`: `SystemInv == QueueInv /\ DeliveryInv` is inductive. `NothingOnTheWire`
  alone is not: a retry is right because of what the *worker* concluded, which is right
  because of what the *sender* reported (`Holding`, `Untouched`), which depends on a
  claimed row being in one worker's hands only (`Holding`) and on nobody
  holding what the queue offers (`Offered`). Success needs `Evidence`, and
  a reconciled success needs `ConfirmedHaveReceipts` of the stores.
- `WorkersImplementQueue`: every step of the system is a transaction of the stores or leaves
  them alone (lemma `Simulation`), so the four theorems above hold of the system too.
- `WorkersAgree`, `OnlyOneSender`, `NothingOfARetryIsOnTheWire` follow from the invariant.
- `PromiseKept`: outside send-only mode the system implements `AtMostOnceSend`. The assumption is
  needed: with `FireAndForget` a click that posted nothing is reported as delivered.
  `NothingOfARetryIsOnTheWire` holds in both modes and is what send-only mode still
  guarantees: no duplicates, although "succeeded" means clicked.

`StopJobProofs` (the same assumptions, both modes):

- `StopsAreClients`: a step of Stop is, for the workers and stores, one that another client may take, or none
  (lemma `StopIsAClient`), so every theorem about `DeliveryWorker` holds beside Stops, among them
  `NothingOfARetryBesideStops`.
- `CancelledIsNeverSent`: `CancelledStopIsQuiet`, from `SystemInv` and two facts about Stop: it says that it cancelled only
  after this very Stop cancelled the row, and a cancelled row remains (`TerminalKept`). What was *read* plays no
  part, which is why its stale reads do no harm here; they do in `stop_race`.

`ManualRepliesProofs` (any chats, replies, limits and crashes, whether or not requests overtake
one another; assumption `ReplyAssumption`):

- `ReplyTypes`: types. Stamps are bounded, so the last turn of a branch exists and is a turn
  (lemma `LastIsTurn`), which is what a new row is bound to.
- `ReplyInvariant`: `ReplyInv` is inductive. `OnItsWay(r)` ties the row of a reply to its
  thread, its request and its turn: a row that was never claimed has nothing on the wire and
  no thread past the claim; before the click there is no request; only a request that
  landed is a turn, once. `Opening(c)` is about the first delivery: while it is open
  the conversation is empty, while the original is queued no row of the chat is past
  "queued", and prompt and claimed message contain the merged rows. At-most-once rests on the claim
  alone: no status that may have been claimed leads back to one that was not (`WayMove`).
- `PromiseKept`: every step is one of `ReplyPromise` or keeps every report (`PromiseStep`).
- `MergesAreSent` follows from `Opening`.
- `ClaimsFindASlot`: only `ClaimReply` makes a row "dispatching", and it adds at most one
  chat to the occupied ones. Claims are covered, not all growth: a capture may be reopened
  by other means (finding `slot_limit`).

- `TurnsAreInOrder`: `TurnsInOrder`, assuming that requests do not overtake one another between their
  timestamp and the writer lock (`Overtaking` is FALSE; the code does not exclude it, see the hazard at
  `reply_contracts.py:210`). `OrderInv` is inductive with `ReplyInv`: a bound row answers the last turn before it, and all
  of those are settled and taken (`Bound`), so a request that lands finds its parent at the tip; a stamp is given
  once (`StampsTell`); and only turns of the conversation have answers or ids (`AnswersTaken`), so no row is
  bound to what is not there. Being settled and being taken are never lost (`RowMove`), which is why `Bound` survives crashes and recoveries.

`SchedulerProofs` (any jobs, cadences, groups, jitter, commands and deaths; assumption `SchedulerAssumption`):

- `SchedulerInvariant`: `SchedulerInv` is inductive. `PendingIsKnown` alone is not, since a decision goes by what the tick
  read before. `StraysAwait`: a delivery that no state knows has the identity which the job has *now*, its last run is
  settled and its first run needs no date, so that neither the reconciliation nor the planning of the next tick
  moves a marker of that identity before the decision comes upon it. `HandIsFree`: the job in hand waits for nothing else, so recording
  one delivery never makes the job forget another. `UntouchedStay`: what no command was about during the tick is as
  the tick read it. `GroupWaits`: between the look at the group and the record no other job of it gets a delivery, for only
  the tick records deliveries.
- `PendingStaysKnown`, `GroupAlwaysExcludes` follow from it.
- `CadenceInvariant`, beside it: the last dispatch of a job is in its state (`Recorded`), or the decision comes upon its
  delivery, whatever became of that (`Recognized`), which then adds no new one; and what is about to be queued anew is due
  by a floor above all dispatches in the state (`InTime`, lemma `FloorHolds`).
- `CadenceIsKept`: `KeepsCadence`, from `InTime`. The proof brought up the replaced record under "seen while modelling": with
  the true last dispatch the property does not hold, on an instance larger than that of `parts`.

`LiveUpdatesProofs` (any sets of topics and messages, any limit and grace; assumptions `LiveAssumption`, `ToastAssumption`):

- `LiveInvariant`: `LiveInv`. It is inductive with four facts about what is impossible (`LiveIInv`): a page without
  subscribers has nothing running and reports nothing (`StoppedIsQuiet`), an offline page has no source
  (`OfflineIsCut`), a connected page has one that is not closed (`ConnectedHasSource`), and on an open
  stream a visible page that is behind has its frame coming (`ChangesAreComing`). There is a lemma for
  what each function of the file does to a record, and one for each group of callbacks.
- `NoticeInvariant`, `NoticeTellsTrue`: `NoticeIsTrue` is not inductive, since a notice that waited would be shown by whatever
  is dismissed in front of it. `NoticeInv` says that it never waits: `notify` shows it at once or not at all, and what moves up
  from the list (`Without`, lemmas `RankIsTaken` and `WithoutIsSeq`) was said by others.
- `NoticeRefinesLive`: every step of the page with its notice is one of the stream or leaves it alone, so what is proved of
  `Spec` holds of `NoticeSpec`, which the run checks.

`OperationsProofs`, of `TabOwnership` (any tabs, ages and closings per tick; assumption `TabAssumption`):

- `TabInvariant`: `TabIInv`. `ActiveTabsAreSpared` follows from two of its parts. `ClaimIsDue`: what the watchdog has
  claimed is older than its cutoff and stays so, because the claim keeps writers off. `DoomedStay`: a tab that may still
  close after a timeout has an expired row that no waiting renewal can revive and that the next tick does not
  mistake for one of a tab that is gone. `RowIsTrue` says that a row is the last activity.
- `OpenTabsAreLeased` is a part of it.

`OperationsProofs`, of `Deployment` (any number of deployments; assumption `DeploymentAssumption`):

- `DeployInvariant`: `DeployIInv`. `OwnerWorks`: who is at work has the pause, and there is one. `OneGeneration`: a boot can
  bring back only the generation that is written down, and never does so beside another. `DeployerIsAt` lists what
  each step has changed so far, so that what is left behind by a failure there is known. The lemma `UpServes` is the
  point: whatever was left behind, if the written generation and its frontends are found to be up, nothing
  else runs and a boot starts the same (unless `raced`); hence `--resume` and the watchdog need to look at nothing else.
- `AdmissionIsServed`: `AdmittedServes`.

`PageProofs` (any chats, turns, slots, clicks, texts and failures; assumptions of the constants only):

- `PinsAreTrue`, `ClicksAreShown`, from `PinInv`: nothing is read while something is written, and the list that a read
  brings, or the last write that the server answered, is what it had when the page was last told.
- `BadgesAreTrue`, from `ReadInv`: `Pledged` ties every badge that was put away in advance to a receipt that is on
  the server, was overtaken by a newer reply, or is under way and takes the promise back if it fails. `ListKnows` says when
  a list is old. No error need be shown for a badge to be true.
- `LostIsFound`, `NothingTypedIsLost`, from `SendInv`: an id stands for one request, which stays in the ledger of the
  browser until the user is told that it was accepted, and a route, text and quotation have one id there (`IdsAgree`); so sending
  them again finds that id. Memory has what is on screen, cut (`ScreenAgrees`), and storage what is in memory unless it refused
  the last write (`MemoryAgrees`). Every piece of text is `Safe`: on screen, in memory, leaving, sent, `lost`, or at rest in the storage of a composer that is
  closed and from which nothing is on its way; only then can no write of its own replace what storage has. The only assumption is
  `SendAssumption`; there may be any number of sends, refusals and closed pages.
- `JobsAreShown`, from `JobsInv`: once the page was told of all changes it shows them, says that it does not, or has a read
  under way that began after them or is asked for again; `ToldOfCommand` is the same for the time in which an answer of a command
  may overtake a read. `ImagesStayHome` needs `FormInv`, that a running upload counts only for the opening on screen.
- `OneChatIsShown`, `RefreshesWait`, `TurnsAreKept`, from `DetailInv`: one load at most counts, it is of the selected chat, and it is a first view
  exactly while nothing of that chat is shown (`Steers`); no answer in flight says more than the server has (`Says`).
- `ListInvariant`, `ListHasNoHole`: `ListInv` is `NoHole` while chats move. `Covers`: whoever is found, did not move since the
  last first page was served and ranks before the place where the next page starts, is on screen with its stamp; it is kept because
  a chat that does not move only sinks when others do (`MovesCover`). A first page adds who moved since the one before,
  which it lists if they are at most a page (`FirstCovers`, the reason for that condition in `whole`); an older page continues where
  the rows in front of it end (`MoreCovers`), which is why a refresh that crosses it ends `whole`. Two stamps differ
  (`StampsDiffer`), so the rows above a row of a page, counted, are on it or in front of it (`PageFits` and the lemmas before it).

Only model-checked:

- liveness and fairness, which the prover cannot express (`EveryClaimEnds`, `ClaimsEnd`, `PagesCatchUp`, `NoticeGoes`
  and the like), for which it has neither fairness nor ENABLED;
- the violations, whose counterexamples TLC shows.

Every invariant and every action property that a passing run checks is stated by a theorem.

## 5. Plan

In order, each with its MC module, run and theorems:

1. The Stop of replies joins `StopJob`.
2. `HistoryRecovery`: durable pacing, backoff and the 1-in-3 turn, and which of several candidates is read
   (`response_store.py:685`: later candidates may starve).
3. `RateLimit`, `ResourcePressure`: functions, against a reference definition.

Theorems to come: those of the modules above. All state is kept in functions and recursion out of
modules with proofs, so the existing invariants extend by conjuncts.

### Not modelled

DOM scripts and parsers (`response_capture.py`, `tool_events.py`, `patchright_driver.py`), which are data;
migrations, file and view helpers; components of the page that only show what the controllers hold, formatting and layout;
of the merge of a follow-up, that it commits to two database files of different journal modes, of which a crash within
COMMIT may keep one (`reply_contracts.py:212`). `src/static/app.js`, two thirds of the JavaScript in the
repository, is the bundle generated from `ui/`; the map names the sources.

## 6. Running

In the directory of the modules:

```
tlc -workers 2 -config DeliveryQueue.cfg MCDeliveryQueue.tla
tlc -workers 2 -config WorkerTracked.cfg MCDeliveryWorker.tla
tlc -workers 2 -config StopJob.cfg MCStopJob.tla
tlc -workers 2 -config Replies.cfg MCManualReplies.tla
tlc -workers 2 -config OutageNotice.cfg OutageNotice.tla
tlc -workers 2 -config Parts.cfg MCParts.tla
tlc -workers 2 -config WedgedJob.cfg MCScheduler.tla
tlapm DeliveryQueueProofs.tla
tlapm DeliveryWorkerProofs.tla
tlapm StopJobProofs.tla
tlapm ManualRepliesProofs.tla
tlapm SchedulerProofs.tla
tlapm LiveUpdatesProofs.tla
tlapm OperationsProofs.tla
tlapm PageProofs.tla
```
