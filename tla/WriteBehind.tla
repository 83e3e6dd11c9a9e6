---------------------------- MODULE WriteBehind -----------------------------
(***************************************************************************)
(* One live session's write controller: SessionWriteBehind with the two    *)
(* pieces of the persistence coordinator that drive it, the flush wrapper  *)
(* that waits for initialization and the sink that filters and appends a   *)
(* batch.  JavaScript runs one job at a time, so an action is the code     *)
(* between two suspension points; `active`, `continuing` and `barrier`     *)
(* record which continuations are still to run.                            *)
(***************************************************************************)
EXTENDS DurableLog

CONSTANT MaxSeed       \* bound on the events a session is created with

ASSUME WriteBehindAssumption == MaxSeed \in Nat /\ MaxSeed <= MaxEvents

VARIABLES seed,            \* length of the log when the controller was built
          init,            \* live.init: "pending", "ok" or "failed"
          pending,         \* queued events, oldest first
          batch,           \* the events of the write in progress
          timer,           \* is the batching timer armed
          active,          \* the active write: see ActiveState
          background,      \* is the active write a detached one
          continuing,      \* is continueAutomatic scheduled
          barrier,         \* progress of drainBarrier: see BarrierState
          deadlineExpired,
          automaticPaused

queueVars == <<pending, batch>>
writeVars == <<active, background, continuing>>
flagVars  == <<timer, deadlineExpired, automaticPaused>>
vars == <<logVars, seed, init, queueVars, flagVars, writeVars, barrier>>

\* "writing": the sink has not answered; "ok" and "failed": it has, and the
\* finally handler that clears `active` has not run yet.
ActiveState == {"none", "writing", "ok", "failed"}

\* "overlap": drainBarrier awaits somebody else's write; "writing": its own;
\* "ok" and "failed": its own write is over and its await is about to resume.
BarrierState == {"none", "overlap", "writing", "ok", "failed"}

TypeOK ==
  /\ accepted \in 0..MaxEvents /\ seed \in 0..MaxSeed
  /\ durable \in Seq(1..MaxEvents)
  /\ call \in [Callers -> {"none", "init", "joined", "resolved", "rejected"}]
  /\ mark \in [Callers -> 0..MaxEvents]
  /\ init \in {"pending", "ok", "failed"}
  /\ pending \in Seq(1..MaxEvents) /\ batch \in Seq(1..MaxEvents)
  /\ active \in ActiveState /\ barrier \in BarrierState
  /\ timer \in BOOLEAN /\ background \in BOOLEAN /\ continuing \in BOOLEAN
  /\ deadlineExpired \in BOOLEAN /\ automaticPaused \in BOOLEAN

\* A controller is built for a session with `seed` events, a prefix of which
\* is already stored.  When the handler of session/event builds it, the event
\* is the last of the seed and is queued as well.
Init ==
  /\ seed \in 0..MaxSeed
  /\ accepted = seed
  /\ \E k \in 0..seed : durable = LogOf(k)
  /\ \/ pending = <<>>
     \/ seed > 0 /\ pending = <<seed>>
  /\ timer = (pending # <<>>)
  /\ batch = <<>>
  /\ init = "pending"
  /\ active = "none" /\ background = FALSE /\ continuing = FALSE
  /\ barrier = "none"
  /\ deadlineExpired = FALSE /\ automaticPaused = FALSE
  /\ call = [c \in Callers |-> "none"]
  /\ mark = [c \in Callers |-> 0]

-----------------------------------------------------------------------------
(* The controller's helpers *)

\* startWrite: the whole queue becomes the batch of a new active write.
StartWrite(detached, queue) ==
  /\ batch' = queue
  /\ pending' = <<>>
  /\ timer' = FALSE
  /\ deadlineExpired' = FALSE
  /\ active' = "writing"
  /\ background' = detached

\* The batch without the events initialization has already stored.  A batch
\* ascends, so the sink's filter keeps its suffix.
FirstFresh(events, cursor) ==
  CHOOSE k \in 1..(Len(events) + 1) :
    /\ \A i \in 1..(k - 1) : events[i] <= cursor
    /\ \A i \in k..Len(events) : events[i] > cursor

Fresh(events, cursor) == SubSeq(events, FirstFresh(events, cursor), Len(events))

\* The contiguity contract of an append: each event continues the stored log.
Contiguous(events, cursor) ==
  \A i \in 1..Len(events) : events[i] = cursor + i

\* The retained batch goes back in front of what was queued meanwhile.
\* RequeuedBehind is the slip of appending it.
RequeuedBehind == pending \o batch
Requeued == batch \o pending

\* enqueue: a paused or idle automatic path gets a new window.  ArmsIfEmpty
\* forgets the paused one.
ArmsIfEmpty == pending = <<>>
ArmsTimer == automaticPaused \/ pending = <<>>

\* continueAutomatic's test for writing on without a new window.
\* NeverContinues waits for a timer that fired long ago.
NeverContinues == FALSE
ContinuesAtOnce == barrier = "none" /\ pending # <<>> /\ deadlineExpired

\* drainBarrier's loop condition.  DrainsOnce is a barrier content with the
\* write it found.
DrainsOnce == TRUE
Drained == pending = <<>>

\* The sequence number of the next event; SkippedSeq leaves a gap.
SkippedSeq == accepted + 2
NextSeq == accepted + 1

\* Every caller that joined the barrier receives its outcome.
\* SettleResolved forgets them when the barrier fails.
SettleResolved(outcome) ==
  call' = [c \in Callers |-> IF call[c] = "joined" /\ outcome = "resolved"
                              THEN outcome ELSE call[c]]
Settle(outcome) ==
  call' = [c \in Callers |-> IF call[c] = "joined" THEN outcome ELSE call[c]]

-----------------------------------------------------------------------------
(* Producers *)

\* session/event: queue a copy; arm the window if the automatic path is idle.
Enqueue ==
  /\ accepted < MaxEvents
  /\ accepted' = NextSeq
  /\ pending' = Append(pending, NextSeq)
  /\ IF barrier # "none" THEN UNCHANGED flagVars
     ELSE /\ timer' = (timer \/ ArmsTimer)
          /\ automaticPaused' = FALSE
          /\ deadlineExpired' = (deadlineExpired /\ ~automaticPaused)
  /\ UNCHANGED <<durable, call, mark, seed, init, batch, writeVars, barrier>>

-----------------------------------------------------------------------------
(* Initialization and the sink, both in the backend *)

InitOk ==
  /\ init = "pending"
  /\ init' = "ok"
  /\ durable' = LogOf(seed)
  /\ UNCHANGED <<accepted, call, mark, seed, queueVars, flagVars, writeVars,
                 barrier>>

InitFail ==
  /\ init = "pending"
  /\ init' = "failed"
  /\ UNCHANGED <<logVars, seed, queueVars, flagVars, writeVars, barrier>>

\* The sink awaits initialization, drops what is already stored, checks
\* contiguity and appends the rest in one durable batch.
WriteOk ==
  /\ active = "writing" /\ init = "ok"
  /\ Contiguous(Fresh(batch, Len(durable)), Len(durable))
  /\ durable' = durable \o Fresh(batch, Len(durable))
  /\ batch' = <<>>
  /\ active' = "ok"
  /\ UNCHANGED <<accepted, call, mark, seed, init, pending, flagVars,
                 background, continuing, barrier>>

\* Initialization failed, or the backend refused the batch: the catch handler
\* puts the batch back in front of the queue and pauses automatic retries.
WriteFail ==
  /\ active = "writing" /\ init # "pending"
  /\ pending' = Requeued
  /\ batch' = <<>>
  /\ timer' = FALSE
  /\ deadlineExpired' = FALSE
  /\ automaticPaused' = TRUE
  /\ active' = "failed"
  /\ UNCHANGED <<logVars, seed, init, background, continuing, barrier>>

-----------------------------------------------------------------------------
(* Continuations of a settled write *)

\* The finally handler; the awaiting continuation is scheduled behind it.
WriteSettled ==
  /\ active \in {"ok", "failed"}
  /\ active' = "none"
  /\ continuing' = (continuing \/ (background /\ active = "ok"))
  /\ barrier' = IF barrier = "writing" THEN active ELSE barrier
  /\ UNCHANGED <<logVars, seed, init, queueVars, flagVars, background>>

\* continueAutomatic, after a detached write succeeded.
ContinueAutomatic ==
  /\ continuing
  /\ continuing' = FALSE
  /\ IF ContinuesAtOnce
     THEN StartWrite(TRUE, pending)
     ELSE UNCHANGED <<queueVars, timer, deadlineExpired, active, background>>
  /\ UNCHANGED <<logVars, seed, init, automaticPaused, barrier>>

\* A timer is a task: it fires only when no continuation is waiting to run.
NoContinuation ==
  /\ active \in {"none", "writing"}
  /\ ~continuing
  /\ barrier \notin {"ok", "failed"}
  /\ ~(barrier = "overlap" /\ active = "none")

\* onDeadline.
Deadline ==
  /\ timer /\ NoContinuation
  /\ IF active # "none"
     THEN /\ timer' = FALSE
          /\ deadlineExpired' = TRUE
          /\ UNCHANGED <<queueVars, active, background>>
     ELSE StartWrite(TRUE, pending)
  /\ UNCHANGED <<logVars, seed, init, automaticPaused, continuing, barrier>>

-----------------------------------------------------------------------------
(* The barrier *)

\* drainBarrier leaves its loop: empty queue, so the barrier closes and its
\* callers resolve in the same job; otherwise it starts another write.
BarrierResume ==
  /\ \/ barrier = "overlap" /\ active = "none"
     \/ barrier = "ok"
  /\ automaticPaused' = (automaticPaused /\ barrier # "overlap")
  /\ IF Drained
     THEN /\ barrier' = "none"
          /\ Settle("resolved")
          /\ UNCHANGED <<queueVars, timer, deadlineExpired, active, background>>
     ELSE /\ barrier' = "writing"
          /\ StartWrite(FALSE, pending)
          /\ UNCHANGED call
  /\ UNCHANGED <<accepted, durable, mark, seed, init, continuing>>

\* drainBarrier's own write was rejected.
BarrierReject ==
  /\ barrier = "failed"
  /\ barrier' = "none"
  /\ Settle("rejected")
  /\ UNCHANGED <<accepted, durable, mark, seed, init, queueVars, flagVars,
                 writeVars>>

\* The coordinator's flush: stop the automatic wait, then await live.init.
FlushCall(c) ==
  /\ call[c] = "none"
  /\ call' = [call EXCEPT ![c] = "init"]
  /\ mark' = [mark EXCEPT ![c] = accepted]
  /\ timer' = FALSE
  /\ deadlineExpired' = FALSE
  /\ UNCHANGED <<accepted, durable, seed, init, queueVars, automaticPaused,
                 writeVars, barrier>>

FlushInitFailed(c) ==
  /\ call[c] = "init" /\ init = "failed"
  /\ call' = [call EXCEPT ![c] = "rejected"]
  /\ timer' = FALSE
  /\ deadlineExpired' = FALSE
  /\ UNCHANGED <<accepted, durable, mark, seed, init, queueVars,
                 automaticPaused, writeVars, barrier>>

\* SessionWriteBehind.flush finds a barrier and joins it.
FlushJoin(c) ==
  /\ call[c] = "init" /\ init = "ok" /\ barrier # "none"
  /\ call' = [call EXCEPT ![c] = "joined"]
  /\ UNCHANGED <<accepted, durable, mark, seed, init, queueVars, flagVars,
                 writeVars, barrier>>

\* SessionWriteBehind.flush opens the barrier and runs drainBarrier up to its
\* first await: an active write, its own write, or nothing left to do.
FlushOpen(c) ==
  /\ call[c] = "init" /\ init = "ok" /\ barrier = "none"
  /\ automaticPaused' = FALSE
  /\ \/ /\ active # "none"
        /\ barrier' = "overlap"
        /\ call' = [call EXCEPT ![c] = "joined"]
        /\ timer' = FALSE
        /\ deadlineExpired' = FALSE
        /\ UNCHANGED <<queueVars, active, background>>
     \/ /\ active = "none" /\ pending # <<>>
        /\ barrier' = "writing"
        /\ call' = [call EXCEPT ![c] = "joined"]
        /\ StartWrite(FALSE, pending)
     \/ /\ active = "none" /\ pending = <<>>
        /\ call' = [call EXCEPT ![c] = "resolved"]
        /\ timer' = FALSE
        /\ deadlineExpired' = FALSE
        /\ UNCHANGED <<queueVars, active, background, barrier>>
  /\ UNCHANGED <<accepted, durable, mark, seed, init, continuing>>

\* The caller consumes the answer and may flush again later.
FlushReturn(c) ==
  /\ call[c] \in {"resolved", "rejected"}
  /\ call' = [call EXCEPT ![c] = "none"]
  /\ mark' = [mark EXCEPT ![c] = 0]
  /\ UNCHANGED <<accepted, durable, seed, init, queueVars, flagVars, writeVars,
                 barrier>>

-----------------------------------------------------------------------------
Flush(c) ==
  FlushCall(c) \/ FlushInitFailed(c) \/ FlushJoin(c) \/ FlushOpen(c)
               \/ FlushReturn(c)

Next ==
  \/ Enqueue
  \/ InitOk \/ InitFail
  \/ WriteOk \/ WriteFail
  \/ WriteSettled \/ ContinueAutomatic \/ Deadline
  \/ BarrierResume \/ BarrierReject
  \/ \E c \in Callers : Flush(c)

Spec == Init /\ [][Next]_vars

\* Every promise the backend returns settles, an armed timer fires, and the
\* event loop runs every continuation.  Producers and callers owe nothing.
Fairness ==
  /\ WF_vars(InitOk \/ InitFail)
  /\ WF_vars(WriteOk \/ WriteFail)
  /\ WF_vars(WriteSettled)
  /\ WF_vars(ContinueAutomatic)
  /\ WF_vars(Deadline)
  /\ WF_vars(BarrierResume \/ BarrierReject)
  /\ \A c \in Callers : WF_vars(FlushInitFailed(c) \/ FlushJoin(c) \/ FlushOpen(c))

FairSpec == Spec /\ Fairness
-----------------------------------------------------------------------------
(* Correctness *)

\* The stored log is exactly a prefix of the live log: retries, the filter of
\* the sink and concurrent flushes never reorder, repeat or skip an event.
StoredPrefix == durable = LogOf(Len(durable)) /\ Len(durable) <= accepted

\* Once initialization stored the seed, the batch in flight and the queue
\* together hold every event the backend does not store, in log order.
Owed ==
  init = "ok" =>
    \A e \in (Len(durable) + 1)..accepted :
      \E i \in 1..Len(batch \o pending) :
        /\ (batch \o pending)[i] = e
        /\ i = Len(batch \o pending) - (accepted - e)

\* A flush that resolves covers every event appended before it was called.
FlushCovers ==
  \A c \in Callers : call[c] = "resolved" => mark[c] <= Len(durable)

\* Queued work is never stranded: unless automatic retries are paused after a
\* reported failure, a timer, an expired window, a barrier or a flush that
\* awaits initialization is going to write it.
NoStrandedWork ==
  pending # <<>> /\ init # "failed" =>
    \/ timer
    \/ deadlineExpired /\ (active # "none" \/ continuing)
    \/ barrier # "none"
    \/ automaticPaused
    \/ \E c \in Callers : call[c] = "init"

\* The barrier admits nobody else: while it drains, no automatic write starts
\* and no timer is armed behind it.
BarrierOwnsWrites ==
  /\ barrier # "none" => ~timer /\ ~deadlineExpired
  /\ barrier = "writing" => active # "none" /\ ~background

\* Every queued event reaches the backend, unless a write failed and paused
\* automatic retries or initialization failed.
EventuallyDurable ==
  \A n \in 1..MaxEvents :
    accepted >= n ~> (Len(durable) >= n \/ automaticPaused \/ init = "failed")

\* Every flush is answered.
FlushAnswered ==
  \A c \in Callers : call[c] = "init" ~> call[c] \in {"resolved", "rejected"}

-----------------------------------------------------------------------------
\* The controller implements the abstract log: a caller awaiting
\* initialization or the shared barrier has its flush pending.
Log == INSTANCE DurableLog WITH
         call <- [c \in Callers |->
                    IF call[c] \in {"init", "joined"} THEN "pending" ELSE call[c]]

ImplementsLog == Log!LogSpec
=============================================================================
