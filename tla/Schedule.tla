------------------------------ MODULE Schedule ------------------------------
(***************************************************************************)
(* Durable reminders of one root agent: the ScheduleRuntime with its       *)
(* management tools, over the session's log.                               *)
(*                                                                         *)
(* The log is the state; timers, runs and waits are projections of it.     *)
(* `queue` is the agent's transaction queue, shared by the tools and by the*)
(* runtime's run, whose head awaits a flush.  A crash keeps a prefix of the*)
(* log that holds at least what was flushed.  Of the agent only the idle,  *)
(* running and maintenance phases matter here (AgentLoop has the rest);    *)
(* time is a clock that ticks and may be set back.                         *)
(***************************************************************************)
EXTENDS Naturals, Sequences, FiniteSets, SequencesExt

CONSTANTS Calls,      \* tool calls
          None,       \* no timer
          Delays,     \* from a one-shot's creation to its target
          Interval,   \* the interval of a fixed-rate reminder
          MaxTime, MaxBack, MaxIds, MaxTurns, MaxLives   \* bounds

ASSUME ScheduleAssumption ==
  /\ None \notin Nat /\ "drive" \notin Calls
  /\ Delays \subseteq Nat \ {0} /\ Interval \in Nat \ {0}
  /\ {MaxTime, MaxBack, MaxIds, MaxTurns, MaxLives} \subseteq Nat

VARIABLES now, back,
          log,        \* the session's events about reminders
          saved,      \* how many of them are durable
          agent,      \* "idle", "running" or "maintenance"
          turns,      \* turns the user has started
          queue,      \* transactions of the agent
          call,       \* the tool calls
          run,        \* where the runtime's run is
          requested,  \* was another drive asked for
          timer,      \* target of the armed timer
          idleWait,   \* is the runtime waiting for the agent to become idle
          failed,     \* did the last drive give up on a failure
          faulted, stopping,
          lives       \* installations of the runtime so far

clock   == <<now, back>>
stored  == <<log, saved>>
runtime == <<run, requested, timer, idleWait, failed>>
owner   == <<faulted, stopping, lives>>
vars == <<clock, stored, agent, turns, queue, call, runtime, owner>>

\* An event: a schedule/change, or the queued follow-up of a reminder with
\* the occurrences it presents.
Event(op, id, kind, at, shown) ==
  [op |-> op, id |-> id, kind |-> kind, at |-> at, shown |-> shown]
Created(id, kind, at) == Event("create", id, kind, at, {})
Deleted(id) == Event("delete", id, "none", 0, {})
Dispatched(id, kind, acceptedAt) == Event("dispatch", id, kind, acceptedAt, {})
Reminded(shown) == Event("remind", 0, "none", 0, shown)

NoCall == [pc |-> "idle", op |-> "none", id |-> 0, shown |-> {}]

Init ==
  /\ now = 0 /\ back = 0
  /\ log = <<>> /\ saved = 0
  /\ agent = "idle" /\ turns = 0
  /\ call = [t \in Calls |-> NoCall]
  /\ queue = <<"drive">> /\ run = "queued" /\ requested = FALSE
  /\ timer = None /\ idleWait = FALSE /\ failed = FALSE
  /\ faulted = FALSE /\ stopping = FALSE /\ lives = 1

-----------------------------------------------------------------------------
(* The fold *)

\* resolveEveryOccurrence: the latest occurrence due, and the first after the
\* decision.  Stepped advances by one interval whatever was missed.
Occurrence(at, t) == at + ((t - at) \div Interval) * Interval
Stepped(at, t) == at + Interval
NextAt(at, t) == Occurrence(at, t) + Interval

\* foldScheduleEvents: the active records.
Fold(active, e) ==
  LET others == {r \in active : r.id # e.id}
      mine   == active \ others
  IN CASE e.op = "create" -> active \cup {[id |-> e.id, kind |-> e.kind, at |-> e.at]}
       [] e.op = "delete" \/ (e.op = "dispatch" /\ e.kind = "once") -> others
       [] e.op = "dispatch" /\ e.kind = "every" ->
            others \cup {[r EXCEPT !.at = NextAt(r.at, e.at)] : r \in mine}
       [] OTHER -> active

ActiveIn(events) ==
  LET active[n \in 0 .. Len(events)] ==
        IF n = 0 THEN {} ELSE Fold(active[n - 1], events[n])
  IN active[Len(events)]
Active == ActiveIn(log)
Seen == {i \in DOMAIN log : log[i].op = "create"}

\* dueDecision: the first one-shot due, else all fixed-rate records due.
Due == {r \in Active : r.at <= now}
Earlier(r, s) == r.at < s.at \/ (r.at = s.at /\ r.id <= s.id)
Once == {r \in Due : r.kind = "once"}
Batch == IF Once # {} THEN {r \in Once : \A s \in Once : Earlier(r, s)} ELSE Due

Shown == {<<r.id, IF r.kind = "once" THEN r.at ELSE Occurrence(r.at, now)>> : r \in Batch}
Orders ==
  {q \in SetToSeqs(Batch) : \A i, j \in DOMAIN q : i < j => Earlier(q[i], q[j])}
Dispatch(r) == Dispatched(r.id, r.kind, IF r.kind = "once" THEN 0 ELSE now)

\* The earliest target; Latest is the other end.
Targets == {r.at : r \in Active}
Latest == IF Active = {} THEN None ELSE CHOOSE t \in Targets : \A u \in Targets : t >= u
Earliest == IF Active = {} THEN None ELSE CHOOSE t \in Targets : \A u \in Targets : t <= u

-----------------------------------------------------------------------------
(* Requests and the run *)

Runs == ~stopping /\ ~faulted

\* requestDrive, with q the transaction queue otherwise.
RequestDrive(q) ==
  IF ~Runs THEN queue' = q /\ UNCHANGED <<run, requested, timer, failed>>
  ELSE /\ timer' = None /\ failed' = FALSE
       /\ IF run = "none"
          THEN run' = "queued" /\ requested' = FALSE /\ queue' = Append(q, "drive")
          ELSE requested' = TRUE /\ queue' = q /\ UNCHANGED run

\* The end of a drive, and runRequested's look for another: `asked` adds the
\* request of the drive itself, `bad` says that it gave up.
EndDrive(asked, bad) ==
  IF (requested \/ asked) /\ ~stopping /\ ~faulted'
  THEN /\ requested' = FALSE /\ failed' = FALSE
       /\ run' = "queued" /\ queue' = Append(Tail(queue), "drive")
  ELSE /\ run' = "ending" /\ queue' = Tail(queue) /\ failed' = bad
       /\ UNCHANGED requested

Driving == run = "queued" /\ Head(queue) = "drive"

DriveStopped ==
  /\ Driving /\ stopping
  /\ timer' = None /\ UNCHANGED faulted /\ EndDrive(FALSE, FALSE)
  /\ UNCHANGED <<clock, stored, agent, turns, call, idleWait, stopping, lives>>

\* The preflight's flush rejects.
DriveUnsaved ==
  /\ Driving /\ ~stopping
  /\ timer' = None /\ UNCHANGED faulted /\ EndDrive(FALSE, TRUE)
  /\ UNCHANGED <<clock, stored, agent, turns, call, idleWait, stopping, lives>>

\* Nothing is due: arm for the earliest target.
DriveWaits ==
  /\ Driving /\ ~stopping /\ Due = {}
  /\ saved' = Len(log)
  /\ timer' = Earliest
  /\ UNCHANGED faulted /\ EndDrive(FALSE, FALSE)
  /\ UNCHANGED <<clock, log, agent, turns, call, idleWait, stopping, lives>>

\* Something is due and the agent is busy: wait for it.  Forsaken leaves it to
\* the end of the turn.
Forsaken == agent = "running"
Waits == TRUE

DriveBusy ==
  /\ Driving /\ ~stopping /\ Due # {} /\ agent # "idle"
  /\ saved' = Len(log) /\ timer' = None
  /\ idleWait' = (idleWait \/ Waits)
  /\ UNCHANGED faulted /\ EndDrive(FALSE, FALSE)
  /\ UNCHANGED <<clock, log, agent, turns, call, stopping, lives>>

\* Maintenance: the follow-up is queued, then its dispatches are appended.  An
\* append that throws after k of them faults the runtime.
Claim(order, k) ==
  /\ Driving /\ ~stopping /\ Due # {} /\ agent = "idle"
  /\ saved' = Len(log) /\ timer' = None
  /\ log' = Append(log, Reminded(Shown)) \o [i \in 1 .. k |-> Dispatch(order[i])]
  /\ faulted' = (k < Len(order))
  /\ agent' = "maintenance" /\ run' = "maintenance"
  /\ UNCHANGED <<clock, turns, queue, call, requested, idleWait, failed, stopping, lives>>

DriveClaims == \E order \in Orders : \E k \in 0 .. Len(order) : Claim(order, k)

\* Framing or the follow-up fails: nothing is written.
ClaimFails ==
  /\ Driving /\ ~stopping /\ Due # {} /\ agent = "idle"
  /\ saved' = Len(log) /\ timer' = None
  /\ UNCHANGED faulted /\ EndDrive(FALSE, TRUE)
  /\ UNCHANGED <<clock, log, agent, turns, call, idleWait, stopping, lives>>

\* The phase is given back; the parked follow-up starts a driver, unless it was
\* canceled meanwhile: then the agent is idle and no status says so.
Released ==
  /\ run = "maintenance"
  /\ agent' \in {"running", "idle"}
  /\ UNCHANGED faulted
  /\ IF faulted THEN EndDrive(FALSE, FALSE)
                ELSE run' = "barrier" /\ UNCHANGED <<queue, requested, failed>>
  /\ UNCHANGED <<clock, stored, turns, call, timer, idleWait, stopping, lives>>

\* The flush behind the dispatch, and the request for what is due next.  When
\* it rejects, the end of the follow-up's turn asks; without one nobody does.
Barrier ==
  /\ run = "barrier" /\ UNCHANGED owner
  /\ \/ saved' = Len(log) /\ EndDrive(TRUE, FALSE)
     \/ UNCHANGED saved /\ EndDrive(FALSE, agent # "running")
  /\ UNCHANGED <<clock, log, agent, turns, call, timer, idleWait>>

\* retire: a request that landed in the gap starts the next run.  Deaf does
\* not look.
Deaf == FALSE
Again == requested

Retire ==
  /\ run = "ending"
  /\ IF Again /\ Runs
     THEN /\ run' = "queued" /\ requested' = FALSE /\ failed' = FALSE
          /\ timer' = None /\ queue' = Append(queue, "drive")
     ELSE run' = "none" /\ UNCHANGED <<requested, failed, timer, queue>>
  /\ UNCHANGED <<clock, stored, agent, turns, call, idleWait, owner>>

\* A timer may fire early: long waits are split.
TimerFires ==
  /\ timer # None
  /\ RequestDrive(queue)
  /\ UNCHANGED <<clock, stored, agent, turns, call, idleWait, owner>>

IdleWaitEnds ==
  /\ idleWait /\ (agent = "idle" \/ stopping)
  /\ idleWait' = FALSE
  /\ RequestDrive(queue)
  /\ UNCHANGED <<clock, stored, agent, turns, call, owner>>

-----------------------------------------------------------------------------
(* The tools *)

Settled(t) == call[t].pc \in {"idle", "done"}
Answer(t, op, id, shown) ==
  call' = [call EXCEPT ![t] = [pc |-> "done", op |-> op, id |-> id, shown |-> shown]]

CallTool(t, op, id) ==
  /\ agent = "running" /\ call[t].pc = "idle" /\ ~stopping
  /\ call' = [call EXCEPT ![t] = [pc |-> "queued", op |-> op, id |-> id, shown |-> {}]]
  /\ queue' = Append(queue, t)
  /\ UNCHANGED <<clock, stored, agent, turns, runtime, owner>>

Serving(t, pc) == queue # <<>> /\ Head(queue) = t /\ call[t].pc = pc

\* A preflight that rejects, or a signal that aborted the call in the queue.
ToolRefused(t) ==
  /\ Serving(t, "queued")
  /\ Answer(t, "uncertain", 0, {})
  /\ queue' = Tail(queue)
  /\ UNCHANGED <<clock, stored, agent, turns, runtime, owner>>

\* schedule_list, and a schedule_delete of what is not active.
ToolReads(t) ==
  /\ Serving(t, "queued")
  /\ call[t].op = "list" \/ (call[t].op = "delete" /\ ~\E r \in Active : r.id = call[t].id)
  /\ saved' = Len(log)
  /\ Answer(t, "list", 0, {r.id : r \in Active})
  /\ RequestDrive(Tail(queue))
  /\ UNCHANGED <<clock, log, agent, turns, idleWait, owner>>

\* After its preflight the call is found aborted, or its input invalid.
ToolAborts(t) ==
  /\ Serving(t, "queued") /\ call[t].op # "list"
  /\ saved' = Len(log)
  /\ Answer(t, "uncertain", 0, {})
  /\ RequestDrive(Tail(queue))
  /\ UNCHANGED <<clock, log, agent, turns, idleWait, owner>>

Writes(t, e) ==
  /\ Serving(t, "queued")
  /\ saved' = Len(log)
  /\ log' = Append(log, e)
  /\ call' = [call EXCEPT ![t].pc = "barrier", ![t].id = e.id]
  /\ RequestDrive(queue)
  /\ UNCHANGED <<clock, agent, turns, idleWait, owner>>

\* A fixed rate begins one interval from now, a one-shot is due when its caller
\* says.
Begins(kind) == {now + d : d \in IF kind = "every" THEN {Interval} ELSE Delays}

ToolCreates(t, kind) ==
  /\ call[t].op = "create" /\ Cardinality(Seen) < MaxIds
  /\ \E at \in Begins(kind) : Writes(t, Created(Cardinality(Seen) + 1, kind, at))

\* Deletable looks for the record; Trusting believes the caller.
Trusting(id) == TRUE
Deletable(id) == \E r \in Active : r.id = id

ToolDeletes(t) ==
  /\ call[t].op = "delete" /\ Deletable(call[t].id)
  /\ Writes(t, Deleted(call[t].id))

\* The flush behind the mutation; a call it rejects is not confirmed.  Hopeful
\* confirms it all the same.
Hopeful(op) == op
Unconfirmed(op) == "uncertain"

ToolBarrier(t) ==
  /\ Serving(t, "barrier")
  /\ \/ /\ saved' = Len(log)
        /\ Answer(t, call[t].op, call[t].id, {})
        /\ RequestDrive(Tail(queue))
     \/ /\ Answer(t, Unconfirmed(call[t].op), call[t].id, {})
        /\ queue' = Tail(queue)
        /\ UNCHANGED <<saved, run, requested, timer, failed>>
  /\ UNCHANGED <<clock, log, agent, turns, idleWait, owner>>

ToolStep(t) ==
  \/ ToolRefused(t) \/ ToolReads(t) \/ ToolAborts(t)
  \/ \E kind \in {"once", "every"} : ToolCreates(t, kind)
  \/ ToolDeletes(t) \/ ToolBarrier(t)

-----------------------------------------------------------------------------
(* The agent, the clock and the lives of the runtime *)

UserTurn ==
  /\ agent = "idle" /\ turns < MaxTurns
  /\ agent' = "running" /\ turns' = turns + 1
  /\ UNCHANGED <<clock, stored, queue, call, runtime, owner>>

\* Maintenance of another plugin, under which the agent's status is idle.
OtherMaintenance ==
  /\ agent = "idle" /\ turns < MaxTurns
  /\ agent' = "maintenance" /\ turns' = turns + 1
  /\ UNCHANGED <<clock, stored, queue, call, runtime, owner>>

OtherReleases ==
  /\ agent = "maintenance" /\ run # "maintenance"
  /\ agent' = "idle"
  /\ UNCHANGED <<clock, stored, turns, queue, call, runtime, owner>>

\* The turn settles with its tools, and the status listener asks for a drive.
TurnEnds ==
  /\ agent = "running" /\ \A t \in Calls : Settled(t)
  /\ agent' = "idle"
  /\ IF \E i \in DOMAIN log : log[i].op # "remind"
     THEN RequestDrive(queue)
     ELSE UNCHANGED <<queue, run, requested, timer, failed>>
  /\ UNCHANGED <<clock, stored, turns, call, idleWait, owner>>

Tick ==
  /\ now < MaxTime
  /\ now' = now + 1
  /\ UNCHANGED <<back, stored, agent, turns, queue, call, runtime, owner>>

TurnBack ==
  /\ now > 0 /\ back < MaxBack
  /\ now' = now - 1 /\ back' = back + 1
  /\ UNCHANGED <<stored, agent, turns, queue, call, runtime, owner>>

Dispose ==
  /\ ~stopping
  /\ stopping' = TRUE /\ requested' = FALSE /\ timer' = None
  /\ UNCHANGED <<clock, stored, agent, turns, queue, call, run, idleWait, failed, faulted, lives>>

\* The session is taken up again, after a crash or a disposal: at least what
\* was flushed is still there, and a call in flight has no answer.
Restart ==
  /\ lives < MaxLives /\ lives' = lives + 1
  /\ \E k \in saved .. Len(log) : log' = SubSeq(log, 1, k) /\ saved' = k
  /\ agent' = "idle"
  /\ call' = [t \in Calls |-> IF Settled(t) THEN call[t] ELSE [NoCall EXCEPT !.pc = "done"]]
  /\ queue' = <<"drive">> /\ run' = "queued" /\ requested' = FALSE
  /\ timer' = None /\ idleWait' = FALSE /\ failed' = FALSE
  /\ faulted' = FALSE /\ stopping' = FALSE
  /\ UNCHANGED <<clock, turns>>

-----------------------------------------------------------------------------
Drive == DriveStopped \/ DriveUnsaved \/ DriveWaits \/ DriveBusy \/ DriveClaims \/ ClaimFails

Next ==
  \/ Drive \/ Released \/ Barrier \/ Retire \/ TimerFires \/ IdleWaitEnds
  \/ \E t \in Calls : ToolStep(t)
  \/ \E t \in Calls, id \in 1 .. MaxIds : CallTool(t, "delete", id)
  \/ \E t \in Calls, op \in {"create", "list"} : CallTool(t, op, 0)
  \/ UserTurn \/ OtherMaintenance \/ OtherReleases \/ TurnEnds
  \/ Tick \/ TurnBack \/ Dispose \/ Restart

SafetySpec == Init /\ [][Next]_vars

\* A settled promise is taken up, a flush settles, a due timer fires; a turn
\* and another plugin's maintenance end.
Fairness ==
  /\ WF_vars(Drive) /\ WF_vars(Released) /\ WF_vars(Barrier) /\ WF_vars(Retire)
  /\ WF_vars(TimerFires /\ timer <= now) /\ WF_vars(IdleWaitEnds)
  /\ WF_vars(\E t \in Calls : ToolStep(t))
  /\ WF_vars(TurnEnds) /\ WF_vars(OtherReleases)

Spec == SafetySpec /\ Fairness

-----------------------------------------------------------------------------
(* Properties *)

\* The log replays: an id is created once, deleted or dispatched only while
\* its record is active, and a dispatch never precedes its target.
Replays ==
  \A i \in DOMAIN log :
    LET before == ActiveIn(SubSeq(log, 1, i - 1))
        mine   == {r \in before : r.id = log[i].id}
    IN CASE log[i].op = "create" -> \A j \in 1 .. i - 1 : log[j].op # "create" \/ log[j].id # log[i].id
         [] log[i].op = "delete" -> mine # {}
         [] log[i].op = "dispatch" ->
              \E r \in mine : r.kind = log[i].kind /\ (r.kind = "every" => r.at <= log[i].at)
         [] OTHER -> TRUE

\* Types, and a log the fold accepts: two tools, or a tool and the runtime,
\* cannot write it corrupt between one's fold and its append.
TypeOK ==
  /\ now \in 0 .. MaxTime /\ back \in 0 .. MaxBack
  /\ saved \in 0 .. Len(log) /\ Replays
  /\ agent \in {"idle", "running", "maintenance"}
  /\ run \in {"none", "queued", "maintenance", "barrier", "ending"}
  /\ \A t \in Calls : call[t].pc \in {"idle", "queued", "barrier", "done"}
  /\ timer \in Nat \cup {None}
  /\ requested \in BOOLEAN /\ idleWait \in BOOLEAN /\ failed \in BOOLEAN
  /\ faulted \in BOOLEAN /\ stopping \in BOOLEAN

\* What a tool confirmed or listed is durable, whatever flush failed and
\* whenever the process died.
ConfirmedHolds ==
  \A t \in Calls : call[t].pc = "done" =>
    LET kept == SubSeq(log, 1, saved)
        Holds(op, id) == \E i \in DOMAIN kept : kept[i].op = op /\ kept[i].id = id
    IN /\ call[t].op \in {"create", "delete"} => Holds(call[t].op, call[t].id)
       /\ \A id \in call[t].shown : Holds("create", id)

\* While a reminder is active something will look at it again: a run, a request
\* behind the ending one, the wait for idle, the end of a turn, or a timer no
\* later than its target.  Only a drive that gave up on a failure leaves none.
WakeGuaranteed ==
  (Runs /\ Active # {} /\ ~failed) =>
    \/ run \in {"queued", "maintenance", "barrier"} \/ (run = "ending" /\ requested)
    \/ idleWait \/ agent = "running"
    \/ timer # None /\ \A target \in Targets : timer <= target

\* No occurrence is presented twice by one runtime, missed ones are skipped
\* to the latest of the creation's grid, and a deleted reminder stays silent.
RemindedOnce ==
  LET reminders == {i \in DOMAIN log : log[i].op = "remind"}
  IN \A i \in reminders : \A shown \in log[i].shown :
       /\ Cardinality({j \in reminders : shown \in log[j].shown}) <= lives
       /\ \A j \in 1 .. i : ~(log[j].op = "delete" /\ log[j].id = shown[1])
       /\ \E j \in 1 .. i :
            /\ log[j].op = "create" /\ log[j].id = shown[1]
            /\ shown[2] >= log[j].at /\ (shown[2] - log[j].at) % Interval = 0

\* What is due is presented, or the runtime stopped, faulted, gave up on a
\* failure, or the clock went back.
DueIsReminded ==
  \A id \in 1 .. MaxIds :
    (\E r \in Due : r.id = id) ~> ((~\E r \in Due : r.id = id) \/ ~Runs \/ failed)
=============================================================================
