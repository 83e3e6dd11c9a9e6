----------------------------- MODULE AgentLoop ------------------------------
(***************************************************************************)
(* One agent's driver: ReactLoopAgent with its inbox and the account       *)
(* foldConsumedWork keeps of the log it writes.                            *)
(*                                                                         *)
(* JavaScript runs one job at a time, so a step of the model is the code   *)
(* between two points at which other code can run.  There are three kinds: *)
(*   - an await of the driver: anybody may call the agent;                 *)
(*   - a live notification (agent/status, agent/inbox/inserted, ...): its  *)
(*     listeners run inside the caller and may call the agent;             *)
(*   - an append to the session: its listeners may call the agent too, but *)
(*     Session.append refuses to nest, so they cannot change the inbox.    *)
(* `pc` names the point the driver is at.                                  *)
(***************************************************************************)
EXTENDS Naturals, Sequences, FiniteSets, SequencesExt

CONSTANTS Messages,    \* identified user messages, each sent at most once
          MaxSteps,    \* bound on the steps a turn's tools may ask for
          MaxTurns     \* bound on the turns in which a queued prompt is steered

ASSUME AgentLoopAssumption == MaxSteps \in Nat \ {0} /\ MaxTurns \in Nat

VARIABLES phase,       \* "idle", "maintenance" or "running"
          abort,       \* the reason of the phase's aborted controller, or "none"
          wake,        \* the phase's wakeRequested latch
          turn,        \* last opened turn
          step,        \* last opened step of the turn
          nextStep,    \* the inbox's next-step list
          nextTurn,    \* the inbox's next-turn list
          pc,          \* where the driver is
          batch,       \* messages claimed for, or entering, the proposed step
          context,     \* does the entered batch carry messages of its own
          target,      \* inbox target of the next pre-step
          turnEnds,    \* the turn's ending so far
          retire,      \* an old driver's status listeners run: its latch
          sending,     \* a waking send whose notification runs: its class
          disposed,    \* has the owner begun disposal
          log,         \* what the session log says: see Ledger
          fate         \* what became of each message

inbox  == <<nextStep, nextTurn>>
driver == <<turn, step, pc, batch, context, target, turnEnds>>
vars == <<phase, abort, wake, inbox, driver, retire, sending, disposed, log,
          fate>>

PC == {"off", "start", "opened", "assemble", "pre-step", "restored", "rejected",
       "entered", "opening", "step", "next", "stopping", "error", "ended", "between",
       "leaving"}

Ending == {"completed", "max-tokens", "blocked", "aborted", "error"}

\* A message waits in the inbox: "owed" a turn, because it was sent to wake the
\* driver; "late", because it was sent so behind the driver's last look; or just
\* "pending", because it was not, or was parked by a documented stop.
Waiting == {"pending", "owed", "late"}
Fate == Waiting \cup {"unsent", "claimed", "entered", "omitted", "canceled", "discarded"}

\* The log as foldConsumedWork reads it: the open turn and step (0 if none),
\* whether the open turn stepped or claimed, the last accounting turn/end and
\* whether work was canceled unrun since.
Ledger == [open : Nat, openStep : Nat, stepped : BOOLEAN, claimed : BOOLEAN,
           end : {<<0, "none">>} \cup (Nat \X Ending), droppedUnrun : BOOLEAN]

TypeOK ==
  /\ phase \in {"idle", "maintenance", "running"}
  /\ abort \in {"none", "user", "disposed"}
  /\ wake \in BOOLEAN /\ context \in BOOLEAN /\ disposed \in BOOLEAN
  /\ turn \in Nat /\ step \in Nat
  /\ nextStep \in Seq(Messages) /\ nextTurn \in Seq(Messages)
  /\ pc \in PC
  /\ batch \in Seq(Messages)
  /\ target \in {"next-turn", "next-step"}
  /\ turnEnds \in Ending \cup {"none"}
  /\ phase = "idle" => abort = "none" /\ ~wake
  /\ retire \in {"no", "plain", "replay"}
  /\ sending \in {"no", "plain", "afterAbort"}
  /\ log \in Ledger
  /\ fate \in [Messages -> Fate]

\* An agent over a log that may hold undelivered messages: Inbox replays it.
Init ==
  /\ \E steps \in SUBSET Messages : \E prompts \in SUBSET (Messages \ steps) :
       /\ IsFiniteSet(steps) /\ IsFiniteSet(prompts)
       /\ nextStep \in SetToSeqs(steps) /\ nextTurn \in SetToSeqs(prompts)
       /\ fate = [m \in Messages |->
                    IF m \in steps \cup prompts THEN "pending" ELSE "unsent"]
  /\ phase = "idle" /\ abort = "none" /\ wake = FALSE
  /\ turn = 0 /\ step = 0
  /\ pc = "off" /\ batch = <<>> /\ context = FALSE
  /\ target = "next-turn" /\ turnEnds = "none"
  /\ retire = "no" /\ sending = "no" /\ disposed = FALSE
  /\ log = [open |-> 0, openStep |-> 0, stepped |-> FALSE, claimed |-> FALSE,
            end |-> <<0, "none">>, droppedUnrun |-> FALSE]

-----------------------------------------------------------------------------
(* Helpers *)

Pending == ToSet(nextStep) \cup ToSet(nextTurn)
HasPending == nextStep # <<>> \/ nextTurn # <<>>

\* locate: where a queue holds a message.
Position(queue, m) == CHOOSE i \in DOMAIN queue : queue[i] = m

\* A queue without a message, spliced out where it is.
Without(queue, m) ==
  IF m \in ToSet(queue) THEN RemoveAt(queue, Position(queue, m)) ELSE queue

Aborted == abort # "none"

\* Other code runs at every point but inside a session append.
CanCall == pc \notin {"opened", "opening", "ended", "next"} /\ sending = "no"

\* The driver's own jobs wait for the notification of a send, and its awaits
\* for the retirement of an older driver as well.
Job == sending = "no"
Awaited == Job /\ retire = "no"

\* What becomes of the messages in S, and of the others when what waits is
\* parked.
Becomes(S, what) == [m \in Messages |-> IF m \in S THEN what ELSE fate[m]]
Parking(S, what) ==
  [m \in Messages |-> CASE m \in S -> what
                        [] m \notin S /\ fate[m] \in Waiting -> "pending"
                        [] OTHER -> fate[m]]

\* An idle agent starts a driver.  StartsOverAborted takes an aborted driver
\* for a dead one.
StartsOverAborted == phase = "idle" \/ Aborted
Starts == phase = "idle"

\* setPhase(running) of wakeDriver.
StartDriver ==
  /\ phase' = "running" /\ abort' = "none" /\ wake' = FALSE
  /\ step' = 0
  /\ pc' = "start"

\* Live drivers claim queued work themselves; disposal never latches.
\* LatchesMaintenance forgets the wake behind an aborted driver.
LatchesMaintenance(wakeAfterAbort) == abort # "disposed" /\ phase = "maintenance"
Latches(wakeAfterAbort) ==
  abort # "disposed" /\ (phase = "maintenance" \/ wakeAfterAbort)

\* wakeDriver: start a driver, or latch the wake behind maintenance or an
\* aborted activity.
WakeDriver(wakeAfterAbort) ==
  IF Starts
  THEN StartDriver
  ELSE /\ wake' = (wake \/ Latches(wakeAfterAbort))
       /\ UNCHANGED <<phase, abort, step, pc>>

\* foldConsumedWork's accountsForClaim.  IgnoresBlocked takes a rejected turn
\* for one with nothing left to run.
IgnoresBlocked(reason) == reason \notin {"completed", "blocked"}
AccountsForClaim(reason) == reason # "completed"

\* turn/end, as foldConsumedWork reads it.
LogTurnEnd(reason) ==
  LET accounts == log.stepped \/ (log.claimed /\ AccountsForClaim(reason)) IN
  [log EXCEPT !.open = 0, !.openStep = 0, !.stepped = FALSE, !.claimed = FALSE,
     !.end = IF accounts THEN <<turn, reason>> ELSE @,
     !.droppedUnrun = @ /\ ~accounts]

\* The turn closes: a thrown or early-returned ending leaves the driver, an
\* ordinary one ("ended") looks for queued work first.  Claimed messages that
\* did not enter are gone.
EndTurn(reason, then) ==
  /\ turnEnds' = reason
  /\ log' = LogTurnEnd(reason)
  /\ pc' = then
  /\ LET gone == {m \in ToSet(batch) : fate[m] = "claimed"} IN
     fate' = IF then = "leaving" /\ reason # "aborted"
             THEN Parking(gone, "discarded") ELSE Becomes(gone, "discarded")
  /\ batch' = <<>>

\* signal.throwIfAborted() between two appends of a turn.
EndAborted == EndTurn("aborted", "leaving")

\* Claiming at a turn boundary takes one queued prompt; AllPrompts takes them
\* all.
AllPrompts == IF target = "next-turn" THEN nextTurn ELSE <<>>
Prompt == IF target = "next-turn" /\ nextTurn # <<>> THEN <<Head(nextTurn)>> ELSE <<>>

\* What the claim leaves of the next-turn list; LeavesAll only reads it.
LeavesAll(claimed) == nextTurn
Unclaimed(claimed) == SubSeq(nextTurn, Len(claimed) + 1, Len(nextTurn))

\* The next-step list once the inbox is cleared.  KeepsSteering clears the
\* queued prompts only.
KeepsSteering == nextStep
ClearedSteps == <<>>

\* The look at the signal between the pre-step and step/start; LooksAway
\* relies on the look before the batch was returned.
LooksAway == FALSE
StopsEntry == Aborted

\* The ending of a turn with nothing to show the model; NoEnding closes it
\* with what the variable holds.
NoEnding == turnEnds
EmptyEnding == "completed"

\* The step counter behind a turn that continues; KeepsCounting does not reset.
KeepsCounting == step
FirstPosition == 0

\* runMaintenance's finally block runs however the job settles.  OnSuccess is
\* the same block behind the await.
OnSuccess == Awaited /\ ~Aborted
Finally == Awaited

\* throwError: agent/error is published before the turn closes.
Throw ==
  /\ turnEnds' = "error"
  /\ pc' = "error"

-----------------------------------------------------------------------------
(* Callers *)

\* The agent can be reached until it is disposed and at rest.
Reachable == disposed => phase # "idle"

\* send, up to the notification of its insertion, with `prompts` queued.
Insert(m, where, wakeup, prompts) ==
  /\ LET afterAbort == wakeup /\ phase # "idle" /\ Aborted IN
       /\ IF where = "next-turn" \/ afterAbort
          THEN nextTurn' = Append(prompts, m) /\ UNCHANGED nextStep
          ELSE nextStep' = Append(nextStep, m) /\ nextTurn' = prompts
       /\ sending' = IF ~wakeup THEN "no"
                     ELSE IF afterAbort THEN "afterAbort" ELSE "plain"
  /\ LET leaving == pc = "leaving" /\ ~Aborted
         served  == turnEnds \in {"completed", "max-tokens"} /\ step > 0
     IN fate' = [fate EXCEPT ![m] =
          CASE ~wakeup \/ disposed \/ (leaving /\ ~served) -> "pending"
            [] wakeup /\ ~disposed /\ leaving /\ served -> "late"
            [] OTHER -> "owed"]
  /\ UNCHANGED <<phase, abort, wake, driver, retire, disposed>>

Send(m, where, wakeup) ==
  /\ CanCall /\ Reachable /\ fate[m] = "unsent"
  /\ Insert(m, where, wakeup, nextTurn)
  /\ UNCHANGED log

Followup(m) == Send(m, "next-turn", TRUE)
Steer(m)    == Send(m, "next-step", TRUE)
Inject(m)   == Send(m, "next-step", FALSE) \/ Send(m, "next-turn", FALSE)

\* A context plugin puts a message in front of the next step's input.
Prepend(m) ==
  /\ CanCall /\ Reachable /\ fate[m] = "unsent"
  /\ nextStep' = <<m>> \o nextStep
  /\ fate' = [fate EXCEPT ![m] = "pending"]
  /\ UNCHANGED <<phase, abort, wake, nextTurn, driver, retire, sending, disposed, log>>

\* remove: a pending message is withdrawn, unrun.  A listener of an insertion
\* may do so before the wake.
Withdraw(m) ==
  /\ CanCall \/ sending # "no"
  /\ Reachable /\ fate[m] \in Waiting
  /\ nextStep' = Without(nextStep, m) /\ nextTurn' = Without(nextTurn, m)
  /\ fate' = [fate EXCEPT ![m] = "canceled"]
  /\ log' = [log EXCEPT !.droppedUnrun = TRUE]
  /\ UNCHANGED <<phase, abort, wake, driver, retire, sending, disposed>>

\* replace: n takes the place of a waiting message, and what that is owed.
Edit(m, n) ==
  /\ CanCall \/ sending # "no"
  /\ Reachable /\ fate[m] \in Waiting /\ fate[n] = "unsent"
  /\ nextStep' = ReplaceAll(nextStep, m, n) /\ nextTurn' = ReplaceAll(nextTurn, m, n)
  /\ fate' = [fate EXCEPT ![m] = "canceled", ![n] = fate[m]]
  /\ UNCHANGED <<phase, abort, wake, driver, retire, sending, disposed, log>>

\* The user steers a queued prompt: it is removed and sent again.
SteerQueued(m) ==
  /\ CanCall /\ phase = "running" /\ m \in ToSet(nextTurn) /\ turn <= MaxTurns
  /\ Insert(m, "next-step", TRUE, Without(nextTurn, m))
  /\ log' = [log EXCEPT !.droppedUnrun = TRUE]

\* send's wakeDriver, after the listeners of the insertion.
SendWake ==
  /\ sending # "no"
  /\ WakeDriver(sending = "afterAbort")
  /\ sending' = "no"
  /\ UNCHANGED <<inbox, turn, batch, context, target, turnEnds, retire,
                 disposed, log, fate>>

\* What a cancellation changes; clearing the inbox is a durable cancellation.
DoCancel(cause, keepInbox) ==
  /\ IF keepInbox
     THEN /\ UNCHANGED <<inbox, log, wake>>
          /\ fate' = IF phase # "idle" /\ ~Aborted THEN Parking({}, "pending") ELSE fate
     ELSE /\ nextStep' = ClearedSteps /\ nextTurn' = <<>>
          /\ fate' = Becomes(Pending, "canceled")
          /\ log' = [log EXCEPT !.droppedUnrun = @ \/ HasPending]
          /\ wake' = (wake /\ phase = "idle")
  /\ abort' = IF phase # "idle" /\ ~Aborted THEN cause ELSE abort

Cancel(keepInbox) ==
  /\ CanCall \/ sending # "no"
  /\ DoCancel("user", keepInbox)
  /\ UNCHANGED <<phase, driver, retire, sending, disposed>>

\* A listener of turn/start, step/start or turn/end cancels.  Clearing a non-empty inbox
\* would nest an append: the call throws before it aborts anything.
ObserverCancel(keepInbox) ==
  /\ pc \in {"opened", "opening", "ended"} /\ Job
  /\ keepInbox \/ ~HasPending
  /\ DoCancel("user", keepInbox)
  /\ UNCHANGED <<phase, driver, retire, sending, disposed>>

\* The lifecycle owner's dispose, up to whenIdle.
Dispose ==
  /\ CanCall /\ ~disposed
  /\ disposed' = TRUE
  /\ DoCancel("disposed", FALSE)
  /\ UNCHANGED <<phase, driver, retire, sending>>

RunMaintenance ==
  /\ CanCall /\ phase = "idle" /\ ~disposed
  /\ phase' = "maintenance" /\ abort' = "none" /\ wake' = FALSE
  /\ UNCHANGED <<inbox, driver, retire, sending, disposed, log, fate>>

\* The maintenance job settles: idle, then replay a latched wake.
EndMaintenance ==
  /\ phase = "maintenance" /\ Finally
  /\ IF wake /\ HasPending
     THEN StartDriver
     ELSE phase' = "idle" /\ abort' = "none" /\ wake' = FALSE
          /\ UNCHANGED <<step, pc>>
  /\ UNCHANGED <<inbox, turn, batch, context, target, turnEnds, retire, sending,
                 disposed, log, fate>>

-----------------------------------------------------------------------------
(* The driver *)

\* turn(): an aborted driver leaves without opening a turn.
OpenTurn ==
  /\ pc \in {"start", "between"} /\ Job
  /\ pc = "between" => Awaited
  /\ IF Aborted
     THEN pc' = "leaving" /\ UNCHANGED <<turn, turnEnds, target, log>>
     ELSE /\ turn' = turn + 1
          /\ turnEnds' = "none"
          /\ target' = "next-turn"
          /\ log' = [log EXCEPT !.open = turn + 1]
          /\ pc' = "opened"
  /\ UNCHANGED <<phase, abort, wake, inbox, step, batch, context, retire,
                 sending, disposed, fate>>

\* preStep up to its first await: claim all next-step input and, at a turn
\* boundary, one queued prompt.
Claim ==
  /\ pc \in {"opened", "next"} /\ Job
  /\ IF Aborted
     THEN EndAborted /\ UNCHANGED inbox
     ELSE LET claimed == nextStep \o Prompt
          IN /\ batch' = claimed
             /\ nextStep' = <<>>
             /\ nextTurn' = Unclaimed(Prompt)
             /\ fate' = Becomes(ToSet(claimed), "claimed")
             /\ log' = [log EXCEPT !.claimed = @ \/ claimed # <<>>]
             /\ pc' = "assemble"
             /\ UNCHANGED turnEnds
  /\ UNCHANGED <<phase, abort, wake, turn, step, context, target, retire,
                 sending, disposed>>

\* The system prompt is assembled; the pre-step waterfall runs next.
Assembled ==
  /\ pc = "assemble" /\ Awaited
  /\ IF Aborted THEN EndAborted
     ELSE \/ pc' = "pre-step" /\ UNCHANGED <<turnEnds, log, fate, batch>>
          \/ Throw /\ UNCHANGED <<log, fate, batch>>
  /\ UNCHANGED <<phase, abort, wake, inbox, turn, step, context, target, retire,
                 sending, disposed>>

\* The messages of S in the order of the batch.
InOrder(S) == {q \in SetToSeqs(S) : \A i, j \in DOMAIN q :
                 i < j => Position(batch, q[i]) < Position(batch, q[j])}

\* The pre-step waterfall ends with an abort, an error or a rejection.
PreStep ==
  /\ pc = "pre-step" /\ Awaited
  /\ IF Aborted THEN EndAborted
     ELSE \/ Throw /\ UNCHANGED <<log, fate, batch>>
          \/ pc' = "rejected" /\ UNCHANGED <<turnEnds, log, fate, batch>>
  /\ UNCHANGED <<phase, abort, wake, inbox, turn, step, context, target, retire,
                 sending, disposed>>

\* It answers with the entering batch: its listeners may leave any claimed
\* messages out and may add messages of their own.
Accept(omitted) ==
  /\ pc = "pre-step" /\ Awaited /\ ~Aborted
  /\ batch' \in InOrder(ToSet(batch) \ omitted)
  /\ fate' = Becomes(omitted, "omitted")
  /\ context' \in BOOLEAN
  /\ pc' = "entered"
  /\ UNCHANGED <<phase, abort, wake, inbox, turn, step, target, turnEnds, retire,
                 sending, disposed, log>>

\* A pre-step listener that is going to reject the step, or sees it aborted, puts
\* claimed input back in front of the next-step list: all but a message of its
\* own.
Restore(S) ==
  /\ pc = "pre-step" /\ Awaited
  /\ S # {} /\ S # ToSet(batch)
  /\ \E retained \in InOrder(S) : nextStep' = retained \o nextStep
  /\ batch' \in InOrder(ToSet(batch) \ S)
  /\ fate' = Becomes(S, "pending")
  /\ pc' = "restored"
  /\ UNCHANGED <<phase, abort, wake, nextTurn, turn, step, context, target, turnEnds,
                 retire, sending, disposed, log>>

Restored ==
  /\ pc = "restored" /\ Awaited
  /\ IF Aborted THEN EndAborted
     ELSE pc' = "rejected" /\ UNCHANGED <<turnEnds, log, fate, batch>>
  /\ UNCHANGED <<phase, abort, wake, inbox, turn, step, context, target, retire,
                 sending, disposed>>

\* A rejected step closes the turn at once, whatever the signal says by now.
Rejected ==
  /\ pc = "rejected" /\ Awaited
  /\ EndTurn("blocked", "leaving")
  /\ UNCHANGED <<phase, abort, wake, inbox, turn, step, context, target, retire,
                 sending, disposed>>

\* An empty batch ends the turn unless the model is owed another request;
\* otherwise the step opens.
Entered ==
  /\ pc = "entered" /\ Awaited
  /\ LET empty == batch = <<>> /\ ~context IN
       CASE empty /\ turnEnds # "none" ->
              EndTurn(turnEnds, "ended") /\ UNCHANGED step
         [] empty /\ turnEnds = "none" /\ step = 0 ->
              EndTurn(EmptyEnding, "leaving") /\ UNCHANGED step
         [] ~(empty /\ (turnEnds # "none" \/ step = 0)) /\ StopsEntry ->
              EndAborted /\ UNCHANGED step
         [] OTHER ->
              /\ step' = step + 1
              /\ log' = [log EXCEPT !.openStep = step + 1, !.stepped = TRUE]
              /\ pc' = "opening"
              /\ UNCHANGED <<turnEnds, batch, fate>>
  /\ context' = FALSE
  /\ UNCHANGED <<phase, abort, wake, inbox, turn, target, retire, sending,
                 disposed>>

\* The batch's messages enter the open step; step() looks at the signal next.
EnterBatch ==
  /\ pc = "opening" /\ Job
  /\ fate' = Becomes(ToSet(batch), "entered")
  /\ batch' = <<>>
  /\ pc' = "step"
  /\ UNCHANGED <<phase, abort, wake, inbox, turn, step, context, target, turnEnds,
                 retire, sending, disposed, log>>

\* max-tokens is sticky over the endings of later steps.
Sticky(stepEnd) == IF turnEnds = "max-tokens" THEN turnEnds ELSE stepEnd

\* How step() settles: the model answered without tools or a tool concluded the
\* turn ("completed"), the answer was cut ("max-tokens"), the tools ran and owe
\* another request ("none"), or a request, a stream or a stage threw.  Failed
\* requests are retried inside, with the same awaits.
StepOutcome == {"completed", "max-tokens", "none", "error"}

\* step() settles; an abort it did not see itself counts before its outcome.
StepEnd(outcome) ==
  /\ pc = "step" /\ Awaited
  /\ outcome = "none" => step < MaxSteps
  /\ LET ended == [log EXCEPT !.openStep = 0]
         ending == Sticky(outcome) IN
     CASE Aborted ->
            /\ turnEnds' = "aborted" /\ pc' = "leaving"
            /\ log' = LogTurnEnd("aborted")
            /\ UNCHANGED target
       [] ~Aborted /\ outcome = "error" ->
            Throw /\ log' = ended /\ UNCHANGED target
       [] OTHER ->
            /\ turnEnds' = ending
            /\ log' = ended
            /\ IF ending # "none" /\ nextStep = <<>>
               THEN pc' = "stopping" /\ UNCHANGED target
               ELSE pc' = "next" /\ target' = "next-step"
  /\ UNCHANGED <<phase, abort, wake, inbox, turn, step, batch, context, retire,
                 sending, disposed, fate>>

\* agent/turn-stopping ran: steering it left behind continues the turn.
Stopping ==
  /\ pc = "stopping" /\ Awaited
  /\ IF Aborted THEN EndAborted /\ UNCHANGED target
     ELSE \/ Throw /\ UNCHANGED <<target, log, fate, batch>>
          \/ IF nextStep = <<>>
             THEN EndTurn(turnEnds, "ended") /\ UNCHANGED target
             ELSE /\ pc' = "next" /\ target' = "next-step"
                  /\ UNCHANGED <<turnEnds, log, fate, batch>>
  /\ UNCHANGED <<phase, abort, wake, inbox, turn, step, context, retire,
                 sending, disposed>>

\* agent/error was published: the turn closes with the error.
ErrorEnd ==
  /\ pc = "error" /\ Job
  /\ EndTurn("error", "leaving")
  /\ UNCHANGED <<phase, abort, wake, inbox, turn, step, context, target, retire,
                 sending, disposed>>

\* After turn/end: queued work continues under a fresh controller.
Ended ==
  /\ pc = "ended" /\ Job
  /\ IF HasPending
     THEN abort' = "none" /\ wake' = FALSE /\ step' = FirstPosition /\ pc' = "between"
     ELSE pc' = "leaving" /\ UNCHANGED <<abort, wake, step>>
  /\ UNCHANGED <<phase, inbox, turn, batch, context, target, turnEnds, retire,
                 sending, disposed, log, fate>>

\* kick's finally: read the latch, then publish the idle status.
Leave ==
  /\ pc = "leaving" /\ Awaited
  /\ retire' = IF wake THEN "replay" ELSE "plain"
  /\ phase' = "idle" /\ abort' = "none" /\ wake' = FALSE
  /\ pc' = "off"
  /\ UNCHANGED <<inbox, turn, step, batch, context, target, turnEnds, sending,
                 disposed, log, fate>>

\* Its listeners returned, a driver one of them started being at an await.
Retire ==
  /\ retire # "no" /\ Job
  /\ pc \in {"off", "assemble", "leaving"}
  /\ retire' = "no"
  /\ IF retire = "replay" /\ HasPending
     THEN WakeDriver(FALSE)
     ELSE UNCHANGED <<phase, abort, wake, step, pc>>
  /\ UNCHANGED <<inbox, turn, batch, context, target, turnEnds, sending,
                 disposed, log, fate>>

-----------------------------------------------------------------------------
Callers ==
  \/ \E m \in Messages :
       \/ Followup(m) \/ Steer(m) \/ Inject(m) \/ Prepend(m)
       \/ Withdraw(m) \/ SteerQueued(m) \/ \E n \in Messages : Edit(m, n)
  \/ \E keep \in BOOLEAN : Cancel(keep) \/ ObserverCancel(keep)
  \/ Dispose
  \/ RunMaintenance

Driver ==
  \/ OpenTurn \/ Claim \/ Assembled \/ PreStep \/ Rejected \/ Entered
  \/ (\E S \in SUBSET ToSet(batch) : Accept(S) \/ Restore(S)) \/ Restored
  \/ EnterBatch
  \/ (\E outcome \in StepOutcome : StepEnd(outcome))
  \/ Stopping \/ ErrorEnd \/ Ended \/ Leave

Next == Callers \/ SendWake \/ EndMaintenance \/ Retire \/ Driver

Spec == Init /\ [][Next]_vars

\* Every await of the driver settles and every listener returns.  Callers owe
\* nothing, but a send and its wake are one job: however often a prompt is sent
\* again, the jobs behind it run in between.
FairSpec ==
  /\ Spec
  /\ WF_vars(SendWake) /\ SF_vars(Retire) /\ SF_vars(EndMaintenance)
  /\ SF_vars(Driver)

-----------------------------------------------------------------------------
(* Correctness *)

Occurrences(queue, m) == Cardinality({i \in DOMAIN queue : queue[i] = m})

\* Every message is in one place: pending once in one list, in the claimed
\* batch, or settled.  Nothing is lost, duplicated or resurrected.
OnePlace ==
  \A m \in Messages :
    /\ Occurrences(nextStep \o nextTurn, m) = (IF fate[m] \in Waiting THEN 1 ELSE 0)
    /\ Occurrences(batch, m) = (IF fate[m] = "claimed" THEN 1 ELSE 0)

\* A driver runs exactly in the running phase, and outside of one neither a
\* turn nor a step of the log is open.
DriverOwnsPhase ==
  /\ phase = "running" <=> pc # "off"
  /\ pc = "off" => log.open = 0
  /\ log.openStep # 0 => log.open = turn /\ log.openStep = step
  /\ log.open # 0 => pc \notin {"start", "between", "ended", "leaving"}

\* Turns and steps never overlap and are numbered without gaps, steps from 1 in
\* every turn.
Balanced ==
  [][ /\ log'.open # log.open =>
          \/ log.open = 0 /\ log'.open = turn + 1
          \/ log'.open = 0 /\ log'.openStep = 0
      /\ log'.openStep # log.openStep =>
          \/ log'.openStep = 0
          \/ /\ log.openStep = 0 /\ log.open = turn
             /\ log'.openStep = (IF log.stepped THEN step ELSE 0) + 1
    ]_vars

\* Once the signal is aborted the model sees nothing more: no step opens until a
\* fresh controller exists, and a message enters no step but one that was open
\* when the abort came, out of its opening events.
NothingEntersAborted ==
  [][ Aborted =>
        /\ log'.openStep \in {0, log.openStep}
        /\ \A m \in Messages : fate'[m] = "entered" /\ fate[m] # "entered" =>
             pc = "opening" /\ log.openStep = step ]_vars

\* Canceled, discarded and omitted messages never run; entered ones run once.
SettledForGood ==
  [][ \A m \in Messages :
        fate[m] \in {"entered", "omitted", "canceled", "discarded"}
          => fate'[m] = fate[m] ]_vars

\* A turn carries at most one queued prompt: the next-turn list shrinks by at
\* most its head, only at the turn's first claim, but for prompts that are
\* canceled or steered.
OnePromptPerTurn ==
  [][ Len(nextTurn') < Len(nextTurn) =>
        \/ \A m \in ToSet(nextTurn) \ ToSet(nextTurn') :
             fate'[m] = "canceled" \/ m \in ToSet(nextStep')
        \/ nextTurn' = Tail(nextTurn) /\ step = 0 /\ log.claimed = FALSE
             /\ log.open = turn ]_vars

\* No accepted work is lost from the account: input a turn took and never showed
\* to the model is accounted for by that turn's own ending, which is no success,
\* and queued input a cancellation drops is reported as dropped unrun, unless
\* another message takes its place.
WorkAccounted ==
  [][ \A m \in Messages :
        /\ fate[m] = "claimed" /\ fate'[m] = "discarded" =>
             log'.end[1] = turn /\ log'.end[2] # "completed"
        /\ fate[m] \in Waiting /\ fate'[m] = "canceled" =>
             log'.droppedUnrun \/ \E n \in Messages : Edit(m, n)
    ]_vars

\* A cancelled activity converges.
AbortConverges == Aborted ~> ~Aborted

\* A message sent to wake the driver is claimed or canceled, unless one of the
\* documented stops parked it: a turn rejected, failed or emptied while it was
\* queued, an abort that kept the inbox, disposal.
WakeServed ==
  \A m \in Messages : fate[m] \in {"owed", "late"} ~> fate[m] \notin {"owed", "late"}

\* The same but for the messages that reach a live driver between its last look
\* at the inbox and its idle status: nobody claims them and no wake is latched.
WakeServedUnlessLate ==
  \A m \in Messages : fate[m] = "owed" ~> fate[m] # "owed"

\* What the driver says of disposal: it never latches a wake, whoever aborted
\* the activity first.
DisposalNeverLatches == [][disposed /\ phase' = phase => (wake' => wake)]_vars

\* What the handle says of cancel: with no active activity it is a no-op.  A step
\* that withdraws a lone message may look like one, and is not meant.
IdleCancelIsNoOp ==
  [][ phase = "idle" /\ (\E keep \in BOOLEAN : Cancel(keep))
        /\ ~(\E m \in Messages : Withdraw(m))
          => UNCHANGED <<inbox, fate>> ]_vars

\* What tool-jobs says of a notice it injects into a busy owner: it joins the
\* next-step inbox, and the turn cannot close while that inbox holds it.  Here
\* even with no cancellation in play: what the list holds once the turn has
\* stepped was sent while the owner was busy.
TurnOutlivesNotice ==
  [][ log.open # 0 /\ log'.open = 0 /\ log.stepped /\ ~Aborted
        => nextStep' = <<>> ]_vars

=============================================================================
