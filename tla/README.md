# A TLA+ model of the agent core

This directory models the parts of the repository that carry an agent's state: the
driver that turns messages into turns, the scheduler that runs a step's tool
calls, the controller that makes a session's log durable, the coordinator that
says who may write it, the registry of background jobs and the runtime of
reminders. Each is a single job at a time and a great many interleavings: between
two awaits anybody may send, cancel, flush or dispose, listeners run inside the
caller, and promises settle in any order. That is what the modules are about;
text, schemas, adapters and I/O are left out.

Source paths below are relative to `src/packages/`.

## 1. The system

### Components that carry the core state

| component | state | operations | talks to |
|---|---|---|---|
| `core/agent-loop/src/agent.ts` (`ReactLoopAgent`) | `phase` with its abort controller and `wakeRequested` latch, turn and step counters | `send`, `followup`, `steer`, `inject`, `cancel`, `runMaintenance`, `whenIdle`; the driver `kick` / `turn` / `preStep` / `step` | appends to the session, claims from the inbox, runs `executeToolCalls`, publishes `agent/status`, `agent/turn-stopping`, `agent/error` |
| `core/agent/src/inbox.ts` | `nextStep` and `nextTurn` lists, mirrored by `agent/inbox/spliced` events | `append`, `prepend`, `claim`, `clear`, `replace`, `remove`, replay of a restored log | every mutation is an append of its session, then a live notification |
| `core/agent/src/consumed-work.ts` | a fold of the log: open turn, last accounting turn end, work dropped unrun | `foldConsumedWork` | read by subagents, goals and jobs to know what became of accepted work |
| `core/agent-loop/src/tool-calls.ts` | per group: slots, pool, next call to start, commits, the observed abort, the first failure | `executeToolCalls`, `runGroup` | the tools registry (prepare, dispatch, finalize), the session |
| `session/session-persistence/src/write-behind.ts` | queue, timer, active write, barrier, expired and paused flags | `enqueue`, `flush`, `cancelAutomaticWait` | the coordinator's sink |
| `session/session-persistence/src/coordinator.ts` | per id: stored cursor, owner, one live controller, retirements | session handlers, `flush`, `append`, `load`, `prepare`, `retire` | the backend, one serialized chain per id |
| `session/session-persistence/src/preparations.ts` | one prepared log per id, its reservation phase | `reserve`, `commit`, `discard`, `adopt` | the coordinator |
| `core/session/src/index.ts` | the append-only log, its sequence counter, the nesting guard | `append`, `fork`, `dispose` | every listener of `session/event` |
| `jobs/jobs-local/src/index.ts` (`LocalJobRegistry`) | a record per job with its waiters, `reported` and its owner's bucket | `start`, `read`, `kill`, `wait`, `settle`, teardown of an owner and of the service | producers, completion listeners (`tool-jobs` sends the notices) |
| `schedule/schedule/src` (`ScheduleRuntime`, tools) | the log's `schedule/change` events; a timer, a run, an idle wait | `schedule_create` / `_list` / `_delete`, `requestDrive`, `driveOnce`, `dispose` | one transaction queue per agent, the agent's maintenance phase and `followup`, `sessions.flush` |
| `subagent`, `goal` | registries that start and report background work | | maintenance, follow-ups, the log |
| approvals, questions, settings, credentials, LLM retry | small protocols with races of their own | | |

The other components are listed in PROJECT.json with the reason each is left
out: transport, user interface, adapters, generated code, operating-system I/O.

### What is hard

* **Awaits.** `turn` looks at its signal after each await, never between; a
  value read before one may be stale behind it.
* **Listeners inside the caller.** `send` publishes `agent/inbox/inserted`
  between its insertion and its wake; the idle status is published inside the
  old driver.  A listener may start the next driver from there.
* **The nesting guard.** A listener of `session/event` may not append, so a
  `cancel` from there that would clear a non-empty inbox throws half way.
* **Abort.** Cancellation is a signal the driver, the scheduler and the stages
  observe later, each at its own point.
* **Out-of-order completion.** Tool bodies settle in any order; commits must not.
* **Failure of one step of several.** A stage that throws while bodies run, a
  batch the backend refuses while newer events queue behind it, an
  initialization that fails under a waiting flush.
* **Timers.** The batching window expires while a write is active; the deadline
  of a wait meets the settlement of its job; a reminder's clock is set back.
* **Crashes.** A batch is written up to some record, a torn one behind it; a
  reminder is queued before its dispatch is durable.
* **Other processes.** A stored log has no lock: a prepared view may be stale by
  the time it is committed.

### What makes each component correct

* Driver and inbox: every message is in one place and settles once; turns are
  balanced; nothing enters the model behind an abort; a message sent to wake the
  agent is claimed unless something documented parked it; the account of the log
  never loses accepted work.
* Scheduler: model order, pairing of call and result on every exit, the pool's
  limit, exclusive calls as barriers, nothing started behind a stop, quiescence.
* Write-behind: the stored log is a prefix of the live one, no event is lost
  between queue, batch and backend, a resolved flush covers its caller, queued
  work always has somebody who will write it.
* Persistence: one owner or one reservation per id, a session that was given up
  is stored, recovery never closes the turn of a session that still runs, every
  preparation is answered.
* Jobs: every completion reaches its owner or somebody who asked, once; the first
  outcome is final; no notice goes to an owner that is being torn down.
* Reminders: the log always replays; a confirmed answer outlives a crash; an
  active reminder always has something that will look at it; each occurrence is
  presented once by a runtime.

## 2. The modules

| module | models | kind |
|---|---|---|
| `DurableLog` | what persistence promises about one session | abstract specification |
| `WriteBehind` | `SessionWriteBehind`, the coordinator's `flush`, the sink | detailed specification, implements `DurableLog` |
| `WriteBehindProofs` | | type, safety theorems |
| `WriteBehindRefinement` | | refinement theorem |
| `ToolCalls` | `executeToolCalls`, `runGroup` | specification |
| `ToolCallsProofs` | | type, pool and stop theorems |
| `ToolCallsLogProofs` | | order, barrier and pairing theorems |
| `AgentLoop` | `ReactLoopAgent`, `Inbox`, `foldConsumedWork` | specification |
| `AgentLoopProofs` | | type, message, turn, abort and account theorems |
| `Persistence` | `SessionPersistenceCoordinator`, `SessionPreparations`, the backend's crashes, for one session id | specification |
| `PersistenceProofs` | | type, ownership, durability and repair theorems |
| `JobsLocal` | `LocalJobRegistry` | specification |
| `JobsLocalProofs` | | type, notice and outcome theorems |
| `Schedule` | `ScheduleRuntime`, its tools, the fold, the transaction queue | specification |
| `ScheduleProofs` | | replay, confirmation, waking and reminding theorems |
| `MC*` | one small instance each, with the symmetry of the safety runs | TLC |

How they compose: `Persistence` takes a session's buffering from `WriteBehind`
as one write that may fail, and `Schedule` takes from `AgentLoop` that a phase is
idle, running or maintenance, that a turn's end publishes the idle status and
that the end of a maintenance does not.

### WriteBehind

An event is its sequence number (from 1; the code counts from 0).  `accepted`
is the length of the live log, `durable` the stored events, `pending` the queue
and `batch` the events inside the active write.  JavaScript runs one job at a
time, so an action is the code between two suspension points and three
variables say which continuations are still to run: `active` is `ok` or
`failed` between the settlement of the sink and the `finally` handler that
clears it, `continuing` between that and `continueAutomatic`, and `barrier`
says where `drainBarrier` is suspended: at somebody else's write, at its own,
or about to resume with an outcome.  `startWrite` is the helper `StartWrite`;
the `catch` handler is `WriteFail`.  A timer fires as a task, so `Deadline`
waits until no continuation is due.

`Init` is a controller built for a session with `seed` events, of which any
prefix may be stored; when the event handler builds it, the event that made it
do so is the last of the seed *and* queued, which is why the sink filters.
`InitOk` and `InitFail` are `onCreated` as the controller sees it.  The batch
ascends, so the filter keeps a suffix; `Fresh` says so with a `CHOOSE`, because
`SelectSeq` is out of the provers' reach.  An append is all or nothing
(`appendBatch` is one transaction of the backend).

### ToolCalls

Calls are numbered in model order. `pc` names the await `runGroup` is suspended
at: classification, a tool's `prepare`, the pool race, a `finalize` in either of
the two places that commit, and the drain behind a failure. `Settled` and
`DispatchFailed` are bodies that settle at any await, `Abort` the signal at any
point another job can run. Classification is free, so each call may be
reclassified at each look. Every stage may throw: the classification
(`ClassifyFailed`), a look or an append while the pool is filled (`StartFailed`),
`prepare` and a finalization or the append of its result (`FinalizeFailed`). The
log holds `tool/call` and `tool/result` events with the position a result cites.

### AgentLoop

`pc` is the driver's position: an await (`assemble`, `pre-step`, `rejected`,
`entered`, `step`, `stopping`, `between`, `leaving`), a live notification
(`start`, `error`) or an append whose listeners run (`opened`, `opening`,
`next`, `ended`).  Other code calls at awaits and notifications; inside appends only a
`cancel` that appends nothing succeeds (`ObserverCancel`).  `sending` is the
gap between an insertion and its wake, `retire` the gap between a driver's last
assignment and the return of the listeners of its idle status, in which a
listener may already run the next driver.  `log` is the state
`foldConsumedWork` computes from the log.  `fate` is a history variable: what
became of each message.  A waiting one is `owed` a turn if it was sent to wake
the driver; it becomes merely `pending` when a stop the code documents parks it
(a rejected, failed or emptied turn, an abort that kept the inbox, disposal),
and it is `late` from the start if it reaches a live driver behind its last look.
`PreStep` is the waterfall that ends with an abort, an error or a rejection,
`Accept` the one that answers with a batch: its listeners may leave any of the
claimed messages out (`omitted`) and may add some of their own, of which the
model keeps only that there are some (`context`).

`Init` is an agent over a log whose replay leaves any finite set of messages
waiting, in any order on either list, none of them owed anything. The inbox's
lists change by `Send` (waking or not, on either list), `Claim` and the clearing
inside `Cancel`, and by what others do to it: `Prepend` (context plugins),
`Withdraw` and `Edit` (the queue of the user interface; an edited message takes
over what the old one was owed), `SteerQueued` (a queued prompt is removed and
sent again as steering, two appends of one job) and `Restore` (a pre-step listener
that is going to drop its own message only puts the rest of the claimed batch
back; the listeners of those insertions run while the driver still holds the
batch, hence the position `restored`).

A step's model request and tools are one outcome: completed, cut at
`max-tokens`, tools that owe another request, or an error.  The scheduler inside
it is `ToolCalls`; composing the two would only multiply their states, since the
driver looks at nothing of the scheduler but that outcome.

### Persistence

One session id.  Whatever touches the backend runs on the id's chain, so `chain`
is a queue of operations and an action that serves its head is the operation with
the await inside it: `InitDone` is `onCreated` (adoption of the stored prefix, cut
of a torn tail), `ReleaseDone` the end of `retireCore`, `LoadDone` and
`CommitDone` the two halves of `prepare`.  An append is two actions, because what
it checks before its await and what it does behind it are about a place that
moves meanwhile: `AppendStarts` looks whether a preparation is in the way and
sets `writing`; `BatchDone` (`appendLiveBatch`) and `SuffixDone` (the rest of a seed
or of a published preparation, which an `InitDone` becomes when the log lacks
it) end it.  An append that succeeds removes whatever entry is in place then, also
one that a consumer has begun to commit: that consumer is `ousted`, and
`CommitOusted` is its commit, which finds an owner or a moved revision and
reserves nothing.  `life` follows a Session from the
store through its last flush; `overlap` is a disposal that finds a write
active, whose outcome the final flush does not look at, unless it is the write of
an explicit flush, which the final one joins.  `state` and `entry` are
the coordinator's and the preparations' records.  A `consumer` is one call of
`prepare`; `awaits` is the retirement it found when it started, the only one it
waits for.  Every event carries its author, so that the log shows who wrote it.
A Session is any fresh one: `Fresh` takes it by `CHOOSE`, since Sessions differ
in nothing before their publication.  `Crash` keeps a prefix of what the head
of the chain was writing and may leave a torn record; `Reload` is a restart of
the plugin, whose teardown flushes every session it still knows (a failed
retirement included) and which initializes the live session again.

### JobsLocal

Every method but `wait` is synchronous and one action; the continuation of a
producer's promise (`SettleDone`) and of a wait (`WaitReturn`) are jobs of their
own.  A wait stays counted in `waiters` until its continuation runs, unless it
aborted.  `notices` counts what the owner's completion listener delivers: one
notice for each settlement nobody has claimed.  `claimed` and `told` are history
variables: who gave a job up, and who has been handed its status.

### Schedule

The log is the state, as in the code: `Active` folds it (`ActiveIn`, a recursive
function on its length, so that it can be proved about). It holds the three
changes and the queued follow-up (`remind`), which the agent's inbox journals in
the same log. `queue` is the agent's transaction queue; its head awaits a flush.
`run` says where the runtime's run is: in the queue, inside its maintenance task,
behind it in the flush of the dispatch, or `ending` between `runRequested`'s last
look at `requested` and `retire`. `Released` gives the phase back: the parked
follow-up starts a driver, unless a listener canceled it, and then the agent is
idle without a status that says so. `Claim` writes the follow-up and then, in
some order of the batch, the first k of its dispatches; an append that throws
faults the runtime. Maintenance of another plugin is an action, because its end
publishes no status and only the idle wait hears it. `Restart` stands for a crash
and for a disposal followed by a resume: it keeps at least what was flushed.

## 3. The runs

| run | instance | shows |
|---|---|---|
| `write_behind` | 2 callers, 4 events, seed up to 1 | types, `Owed`, `NoStrandedWork`, refinement of `DurableLog`, `EventuallyDurable`, `FlushAnswered` |
| `tool_calls` | 3 calls, pool of 2 | types, `ModelOrder`, `PoolBound`, `ExclusiveBarrier`, `PairedOnReturn`, `NoStartAfterStop`, `Terminates` |
| `agent_loop` | 2 messages, turns of up to 2 steps, steering of queued prompts in 2 turns | types, `OnePlace`, `DriverOwnsPhase`, `Balanced`, `NothingEntersAborted`, `SettledForGood`, `OnePromptPerTurn`, `WorkAccounted`, `AbortConverges`, `WakeServedUnlessLate` |
| `persistence` | 2 sessions, 2 calls of `prepare`, 2 events, 2 crashes or reloads | types, `ExclusiveReservation`, `OwnedPrefix`, `RetiredIsDurable`, `RepairOnlyAbandoned` |
| `prepare` | the same with 1 event and no crash | `PrepareAnswers` |
| `jobs` | 2 jobs, 1 owner, 2 waits, a limit of 1 | types, `NoticeOwed`, `FirstOutcomeWins`, `NoticeHasReader`, `TeardownEnds` |
| `schedule` | 2 tool calls, 2 reminders, 5 ticks, 2 turns, 2 lives | types and replay, `ConfirmedHolds`, `WakeGuaranteed`, `RemindedOnce` |
| `reminders` | 2 tool calls, 1 reminder, 3 ticks, the clock set back once | `WakeGuaranteed`, `DueIsReminded` |
| `lost_wake` | that of `agent_loop` | `WakeServed` fails: finding 1 |
| `disposal_latch` | the same | `DisposalNeverLatches` fails: finding 2 |
| `idle_cancel` | the same | `IdleCancelIsNoOp` fails: finding 3 |
| `notice_left` | the same | `TurnOutlivesNotice` fails: finding 4 |

**Bounds.** `MaxEvents` = 4 with a seed of 1 leaves three live events: one in the
failed batch, one queued behind it and one arriving in the barrier; two callers
give one that opens a barrier and one that joins it or awaits initialization
across it. What the bound hides, a producer that never pauses and starves a
barrier, is listed as a hazard. Three calls over a pool of two give a full pool
with a call waiting, a reclassified call with both a predecessor and a successor,
and skipped calls on either side of a started one. Two messages give a claimed and
a queued one, on either list, and two steps a turn that continues; turns are
bounded by the messages because a turn needs one to open (a wake without a message
opens at most one empty turn), except that a queued prompt steered into an aborted
turn is queued again and wakes the next: nothing is steered out of the queue
behind turn `MaxTurns` = 2. The runs that expect a violation keep it at 1. Two
Sessions are a disposed one and its successor under the id, two consumers a holder
and a waiter, or one that an append ousts and one that finds its place empty; a
call of `prepare` is single-use, since one that is answered leaves nothing behind
but the entry. Two events leave a written and a buffered one, two crashes a crash
of what recovers from the first. Two jobs under a limit of 1 are one in an
owner's bucket and one outside it; two waits are one that a settlement releases
and one that its deadline took. Two reminders are a batch of two, of which a
failing append may record one, or a one-shot that goes before a fixed rate; an
interval of 2 in five instants misses an occurrence, and one-shots of 1 and 3
instants fall due before or behind it and in either order of their creation; two
lives are one crash. The clock is set back in the smaller run only, where it
multiplies less. Every counter is bounded by these constants, so the runs exhaust
their state spaces.

**Deadlock** is checked in `write_behind`, where callers may always flush again.
The other systems stop: a scheduler when its step is over, an agent when
every message was sent and it is idle and disposed, a registry when its service
is gone, a runtime when it was disposed, a log when its sessions are over.

**Symmetry** of the tool calls and of the consumers is used in the safety runs
`persistence` and `schedule`, and in no run with a liveness property.

**Fairness.**  Weak fairness of what the code itself schedules: every promise a
backend, stage or listener returned settles, an armed timer fires, the event
loop runs every continuation.  Callers, producers, aborts and disposals owe
nothing.  Where success and failure are alternatives the fairness is of their
disjunction, so a promise settles but may fail every time; that is why
`EventuallyDurable` excuses a paused or uninitialized controller.  In
`agent_loop` the driver's jobs, the end of a maintenance and the return of the
listeners of an idle status are strongly fair: the model splits a send and its
wake, during which they cannot run, but in the code the two are one job, so
however often a queued prompt is steered, the jobs behind it run in between.  In
`prepare`
the chain, a retirement and a holder (which publishes or releases) are weakly
fair and `Resume` strongly: the waiters of an entry are reactions of one promise
and run in the order they were added, so none is passed over for ever.  In
`jobs` a producer whose cancel returned settles, and a wait has a deadline;
nothing says when a producer finishes by itself.  In `reminders` a timer fires
once its target is reached and may fire earlier (long waits are split, and a
clock set back makes any timer early); a turn and another plugin's maintenance
end.  `DueIsReminded` excuses a drive that gave up on a failing flush: the code
has no retry timer and says so.

Every property of a passing run has a mutant in PROJECT.json, a plausible slip
in the code that the run finds: the slips are the operators named after what they
do wrong (`RequeuedBehind`, `ArmsIfEmpty`, `OneTooMany`, `KeepsMode`, ...).

## 4. What is proved

`WriteBehindProofs` and `WriteBehindRefinement`, for any set of callers and any
bounds, from the constants' assumptions alone:

* `TypeCorrect`, `OwesEverything`, `StrandsNoWork`: the three invariants of the
  run; `StoresPrefix`, `FlushCoversCallers`: the stored log is a prefix of the
  live log, and a resolved flush covers its caller;
* `Refinement`: `Spec => ImplementsLog`.  The mapping shows a caller that awaits
  initialization or the barrier as pending; `StepSimulation` maps every action
  to one abstract action or a stutter, a write to `LogStore`, a barrier's
  settlement to one `LogResolve` or `LogReject` of all its callers.

None of these is inductive.  Even `TypeOK` is not: `Fresh` filters a batch, and
that the filter is defined, let alone that what it leaves continues the stored
log, depends on what is in the queue.  The inductive invariant is

    Inv == TypeOK /\ QueueInv /\ WriterInv /\ CallInv /\ NoStrandedWork

`QueueInv` says that `batch \o pending` is one gapless run ending at `accepted`
and beginning no later than behind the cursor (behind the seed before
initialization), which `WriteFail` keeps because the batch goes back in front.
`WriterInv` says who may be writing: a barrier's own write or a detached one,
never both, an expired window only under a write whose continuation will see
it, no continuation behind an idle barrier.  `NoStrandedWork` needs exactly
that.  `CallInv` relates each caller's mark to the log and to the barrier it
joined; a barrier closes over an empty queue and no active write (`Quiescent`),
so everything accepted is stored.  The step lemmas (`TypeStep`, `QueueStep`,
`WriterStep`, `CallStep`, `StrandedStep`) have one step per action.  The parts
of the invariant were model-checked before they were proved.

`ToolCallsProofs` proves `TypeCorrect`, `PoolNeverOverrun` and
`NothingBehindStop` (the action property `NoStartAfterStop`) of the scheduler,
for any number of calls and any limit, from

    Inv == TypeOK /\ CountInv /\ PoolInv /\ StopInv

A result cites the position of its own call event, so types need `CountInv`:
every started call is in the log, only started calls are in the pool or have a
result, and the next call to start is the one behind them wherever the
scheduler fills the pool.  `PoolInv` bounds the pool's set and carries the room
`fillPool` saw across the await of `prepare`.  `StopInv` says that at the point
that starts calls no failure is pending and every abort has been observed, and
that between two groups no body runs whose rejection could go unseen.

`JobsLocalProofs` proves `TypeCorrect`, `NoCompletionLost` (`NoticeOwed`),
`OutcomeIsFinal` (`FirstOutcomeWins`) and `NoticesAreRead` (`NoticeHasReader`)
for any jobs, owners, waits and limit, from

    Inv == TypeOK /\ WaitInv /\ ClaimInv /\ DrainInv /\ StartedInv /\ NoticeOwed

`NoticeOwed` alone is not inductive: `settle` stays silent about a job that is
already reported, and only `ClaimInv` says that a live reported job was claimed.
`WaitInv` says that a pending wait is on a live job, so a settlement releases
every wait it counted and a wait that counts will be handed the status.
`DrainInv` (the teardown of an owner claims all of its live jobs, and none starts
behind it) is what keeps a notice from an owner that drains.  `SettleEffect` and
`TeardownEffect` say once what a settlement and a teardown do to waits, claims
and notices.

`PersistenceProofs` proves every safety property of the run `persistence` for
any sessions, consumers, length of log and number of crashes: `TypeCorrect`,
`Exclusive` (`ExclusiveReservation`), `OwnerHasPrefix` (`OwnedPrefix`), `Durable`
(`RetiredIsDurable`) and `RepairsAbandoned` (the action property
`RepairOnlyAbandoned`).  It assumes that no session is called `other` or
`repair`, the two authors that are none.  The properties lean on one another, so
one invariant carries them all:

* the chain: `OpsInv` (whose operations are queued), `OpenInv` (a session is
  opened by one operation, the live one last) and `LoadInv` (a load that is
  waited for stands behind every opening queued before it, so a prepared log is
  committed only when nobody is about to open).  An abort takes a commit out of
  the middle of the chain, so the step lemmas compare the two chains through a
  map of their positions (`Thinned`, `Grown`);
* the owner: `TrackInv` (its log extends the stored one, the cursor is its
  length, and what is unbuffered ends at the cursor) and `WriterInv` (a queued
  batch or suffix is the owner's).  `OwnedPrefix` is part of it; the equality of
  cursor and buffer is what makes the next batch extend the log without a gap;
* the entry: `EntryInv`, `HolderInv`, `ReservedInv` and `WritingInv` give
  `ExclusiveReservation`.  The last says that an append under way is the head of
  the chain and that no entry becomes reserved behind it: a reservation is made by
  a commit at the head.  An append that passed its check can still remove an entry
  that is being committed, so `HolderInv` counts the holders by the entry's phase
  and leaves an ousted consumer out;
* the sessions: `ReleaseInv` and `LifeInv` follow the retirement; `IdleInv` says
  that an open session without the id never had an event, which is why
  a repair behind its back loses nothing;
* authorship: an initialization claims an ownerless log when its seed extends
  the tracked prefix.  What keeps a session from claiming a log longer than that
  prefix, and so from writing behind a stranger's events, is that no log begins
  with an event of a session that is yet to come (`FreshInv`) and that a
  session waiting to open over such a log did not write it (`ForeignInv`).

`RetiredIsDurable` is inductive only next to these: a release follows a flush
(`ReleaseInv`), an open session with an event owns the log (`IdleInv`), and the
owner's log with nothing left to write is the stored one (`TrackInv`); from then
on every step only extends the stored log (`DiskGrows`).  There is one step
lemma per part, each over all actions; `TypesStep` to `RetiredStep` name them.

`ToolCallsLogProofs` adds the log of a step: `LogInModelOrder` (`ModelOrder`),
`ExclusiveIsBarrier` (`ExclusiveBarrier`) and `ReturnPairsCalls`
(`PairedOnReturn`), for any number of calls and any pool, from

    FullInv == Inv /\ GroupInv /\ LogInv /\ ModelOrder /\ ExclusiveBarrier /\ PairedOnReturn

The log is append-only, so a property of it is inductive once the state says
enough about what may be appended next.  `GroupInv` does: commits follow starts
and stay ahead of the groups consumed, an exclusive group is one call, every
started and uncommitted call is in the pool, in a slot or being prepared (until
a stage fails), and where the scheduler fills the pool nothing is left that could
be committed.  The last is what makes an exclusive call wait: when its group begins
everything before it has a result, and the next group is classified only behind
its commit.  `LogInv` ties the counters to the events.

`AgentLoopProofs` proves every safety property of the run `agent_loop` for any
set of messages, any turns and steps: `TypeCorrect`, `MessagesHaveOnePlace`
(`OnePlace`), `PhaseOwnsDriver` (`DriverOwnsPhase`), and the action properties
`TurnsAreBalanced` (`Balanced`), `AbortedEntersNothing` (`NothingEntersAborted`),
`FatesAreSettled` (`SettledForGood`), `WorkIsAccounted` (`WorkAccounted`) and
`TurnsCarryOnePrompt` (`OnePromptPerTurn`), from

    Inv == TypeOK /\ TurnInv /\ PlaceInv

`PlaceInv` is `OnePlace` in a form that a step can keep: the two lists and the
driver's batch repeat nothing and share nothing, a message is in a list exactly
while its fate is a waiting one and in the batch exactly while it is claimed, and
the driver holds a batch only at the positions of `Holding`, in a turn whose log
knows that it claimed.  Every action is first classified by what it does to the
messages (`Quiet`, `Settling`, `Claiming`, `Clearing`, `Accept`, `Restore`, or one
message's own), and
`PlaceInv` is proved per kind; without the classes each of two dozen handlers
would repeat the same argument about spliced queues.  `TurnInv` says what the log
has open by where the driver is; it gives `Balanced` and, with the position of an
abort, `NothingEntersAborted`.  `OnePlace` counts occurrences, so the last
lemmas go from injective queues to cardinalities.  The replayed inbox of
`Init` is finite, as a log is.

`ScheduleProofs` proves every safety property of the runs `schedule` and
`reminders` for any tools, ids, instants, turns and lives: `TypeCorrect` (with it
`Replays`: the log never becomes one the fold rejects), `ConfirmationHolds`
(`ConfirmedHolds`), `WakeIsGuaranteed` (`WakeGuaranteed`) and `RemindsOnce`
(`RemindedOnce`), from

    Inv == LogInv /\ StateTypes /\ CallTypes /\ FaultInv /\ CallInv
             /\ ConfirmedHolds /\ WakeGuaranteed /\ OnceInv

`LogInv` says that the log is `Valid`: each event was legal behind the events
before it.  Tools append one legal event, `Claim` several, a crash takes a prefix,
and all three keep it.  `Good` is what the fold makes of a valid log (ids are the
first numbers, one record each, on the grid of its creation, none of a deleted
reminder).  That every valid log is good is an induction over its length, and that
a claim's dispatches are legal one behind the other is one over the order they are
written in.  The library's induction theorems are out of reach, since they take
an operator as a parameter, but its theorem that every non-empty set of numbers has a
least one takes none: suppose some prefix is not good and look at the
shortest.  `Least` states that, and both inductions are by it.
`CallInv` says that a tool at its flush has its change in the log; it is what
`ConfirmedHolds` needs when the flush succeeds.  `WakeGuaranteed` is inductive
next to the types: the end of a turn can overtake a run's flush, and then leaves
a request behind; a run whose flush fails while no turn is left to end is a drive
that gave up.  `OnceInv` counts how often an occurrence was presented and that
one still open was presented only in earlier lives, which is what lets a restart
present it again; a faulted runtime, which may have queued a reminder without its
dispatch, runs no more (`FaultInv`).

With this every safety invariant and every action property that a passing run
checks is a theorem.  **Only model-checked** is liveness, since fairness and
`ENABLED` are out of the prover's reach: `EventuallyDurable`, `FlushAnswered`,
`Terminates`, `AbortConverges`, `WakeServedUnlessLate`, `PrepareAnswers`,
`TeardownEnds` and `DueIsReminded`.  The four findings are counterexamples of
runs.

## 5. Findings

1. **A wake can be lost** (`lost_wake`).  `turn` looks at the inbox for the last
   time at `agent.ts:331`; the driver's idle status is set a microtask later.  A
   waking send in between sees a live, unaborted driver, so it neither starts
   one nor latches the wake, contrary to `agent.ts:182`.
2. **Disposal can latch a wake** (`disposal_latch`).  `agent.ts:183-185` tests
   the abort reason, and a signal keeps its first reason: a user abort before
   the disposal keeps the latch open.
3. **Idle cancellation is not a no-op** (`idle_cancel`).  `cancel` clears the
   inbox before it looks at the phase (`agent.ts:142`), contrary to
   `runtime-types.ts:80`.
4. **A turn can close over a job notice** (`notice_left`).  Only a completed turn
   looks at the next-step inbox before it closes (`agent.ts:302-307`); one whose
   step fails or whose pre-step is rejected does not, contrary to
   `tool-jobs/README.md:23`.

## 6. Not modelled, and abstractions to know of

* `whenIdle`'s waiters; what a listener does between the two events of one
  `clear`, or of the removal and the insertion of `SteerQueued`.  `Prepend` puts
  a message of its own in front of the next-step list, as the one caller of
  `prepend` outside a pre-step does, and wakes nobody.
* In `AgentLoop`: a listener of an insertion may cancel, withdraw or edit before
  the sender's wake; a send, a maintenance or a disposal nested inside `send`
  (between `agent.ts:125` and `126`) is no action.  The
  put-backs of one pre-step listener are one `Restore`, although the code prepends
  them one by one and their listeners run in between.
* In `ToolCalls`: `acceptContext` (`tool-calls.ts:156`), which throws behind the
  append of its result if at all, never fails.
* `appendBatch` fails as a whole; only a crash leaves a part of a batch.
* In `Persistence`: the coordinator's public `create`, `append` and `load`, and
  with them adoption, which nothing in the repository calls.  A new Session's seed
  therefore holds events of its own only: an ownerless log that is not empty
  (`coordinator.ts:1244-1263`) always refuses it, and one that reproduces the
  stored prefix and claims it does not occur.  A published preparation is handed its log by
  `Publish`, a restarted plugin adopts it, and both are modelled; inspection and
  ranged reads, which appear only as the eviction of a stale view; the two steps
  of `commitRepair` are one that may fail half way; another process is kept out
  while this one owns or reserves the log, since the format has no lock.
* In `JobsLocal`: output text, listings and the change stream.  That no method is
  called once the service is gone (`Live`) rests on the framework, which takes the
  service away from its dependants; the registry itself has no check.
* In `Schedule`: parsing of instants, calendars and time zones, the wording of
  the framing, the four-digit-year range.  A flush that succeeds and the decision
  behind it are one step, because everything else that could change the log waits
  in the same queue.  The second look of the decision, inside the maintenance
  (`runtime.ts:258-266`), is not repeated: a clock that moves between the two looks
  is one that moved before the first (a clock set back there arms the timer as
  `DriveWaits` does).  Two errors are left out, which this repository's agent gives
  only while the agents service closes: an idle wait that rejects
  (`runtime.ts:196-201`), behind which a due reminder has nobody to look at it,
  and a run that cannot be started (`runtime.ts:111-116`).  All fixed rates share
  one interval.
* The session's log is its length (`WriteBehind`) or its fold (`AgentLoop`).
* A tool's own waits and retries are inside its stage.
* The reasons PROJECT.json gives for each component not modelled.

## 7. Plan

In this order; each module brings its run, its mutants and, where it says so,
its theorems.

1. Proofs: an abstract log with one writer at a time and crashes, that
   `Persistence` implements as `WriteBehind` implements `DurableLog`; an abstract inbox
   (a message waits, is held, is settled) that `AgentLoop` implements.
2. `JsonlLog`: publication by rename, compression, torn tail and repair record by
   record.  Abstract specification: a log that keeps every acknowledged prefix,
   which `Persistence` then shares.
3. `Approval` with questions: exactly one decision per request, the abort race,
   pairs enclosed by turns.
4. `Subagent` continuation slots and `GoalDriver` (of which `AgentLoop` has the
   pre-step): rounds never overlap a prompt, each round accounted for through `foldConsumedWork`.
5. `SettingsFile`: locked read-modify-write, last writer, stale cache.
6. `AgentLoop` extended by `whenIdle` and the waiters of a teardown.

Proof-bearing modules declare no recursive operator: sequences are described by
what they hold at each index, and a fold is a recursive function (`ActiveIn`) or
the state it reaches.
