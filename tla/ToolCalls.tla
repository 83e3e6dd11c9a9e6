----------------------------- MODULE ToolCalls ------------------------------
(***************************************************************************)
(* The tool-call scheduler of one assistant step (executeToolCalls and     *)
(* runGroup).  The calls of the step, in model order, are 1..NumCalls.     *)
(* The scheduler runs exclusive calls alone and parallel calls in a pool,  *)
(* commits results in model order, and must stay coherent when the turn is *)
(* aborted or one of its own stages throws.  `pc` names the await at which *)
(* the scheduler is suspended; everything between two awaits is one step.  *)
(*                                                                         *)
(* Contexts a result carries are accepted with it, so they have no state   *)
(* of their own: a "result" record of the log stands for both.             *)
(***************************************************************************)
EXTENDS Naturals, Sequences, FiniteSets

CONSTANTS NumCalls,      \* tool calls of the assistant message
          MaxParallel    \* config.maxParallelToolCalls

ASSUME ToolCallsAssumption ==
  /\ NumCalls \in Nat \ {0}
  /\ MaxParallel \in Nat \ {0}

Calls == 1..NumCalls
Mode  == {"parallel", "exclusive"}

VARIABLES pc,           \* where the scheduler is suspended
          signal,       \* the step's abort signal
          base,         \* planned calls consumed by earlier groups (`next`)
          group,        \* last call of the current group
          mode,         \* mode of the current group
          nextToStart,  \* next call of the group to start
          committed,    \* calls whose result is in the log
          started,      \* last call whose tool/call was appended by startCall
          aborted,      \* the group's observation of the signal
          failed,       \* schedulerFailure # undefined
          slot,         \* per call: its result, ready to commit
          inFlight,     \* calls whose dispatch promise the pool holds
          settled,      \* members of inFlight whose promise has settled
          conclude,     \* a committed result concluded the turn: group, step
          log           \* tool/call and tool/result events of the step

schedVars == <<base, group, mode, nextToStart>>
vars == <<pc, signal, schedVars, committed, started, aborted, failed, slot,
          inFlight, settled, conclude, log>>

PC == {"classify", "fill", "prepare", "started", "commitFill", "finalizeFill",
       "race", "commitRace", "finalizeRace", "drain", "done", "failed"}

Event == [type : {"call"}, call : Calls, ran : Mode \cup {"skipped"}]
           \cup [type : {"result"}, call : Calls, cites : Nat,
                 skipped : BOOLEAN, concludes : BOOLEAN]

TypeOK ==
  /\ pc \in PC
  /\ signal \in BOOLEAN /\ aborted \in BOOLEAN /\ failed \in BOOLEAN
  /\ base \in 0..NumCalls /\ group \in 0..NumCalls /\ mode \in Mode
  /\ nextToStart \in 1..(NumCalls + 1)
  /\ committed \in 0..NumCalls /\ started \in 0..NumCalls
  /\ slot \in [Calls -> {"none", "post", "final"}]
  /\ inFlight \in SUBSET Calls /\ settled \in SUBSET inFlight
  /\ conclude \in [group : BOOLEAN, step : BOOLEAN]
  /\ log \in Seq(Event)

Init ==
  /\ pc = "classify"
  /\ signal \in BOOLEAN
  /\ base = 0 /\ group = 0 /\ mode = "exclusive" /\ nextToStart = 1
  /\ committed = 0 /\ started = 0
  /\ aborted = FALSE /\ failed = FALSE
  /\ slot = [i \in Calls |-> "none"]
  /\ inFlight = {} /\ settled = {}
  /\ conclude = [group |-> FALSE, step |-> FALSE]
  /\ log = <<>>

-----------------------------------------------------------------------------
(* Helpers *)

\* Other jobs run while the scheduler awaits, and never between the look at the
\* signal and the next start: "fill" is a point inside one job.
Suspended == pc # "fill"

CallEvent(i, ran) == [type |-> "call", call |-> i, ran |-> ran]

ResultEvent(i, cited, isSkipped, concludes) ==
  [type |-> "result", call |-> i, cites |-> cited, skipped |-> isSkipped,
   concludes |-> concludes]

\* callSeqs: where the log holds the tool/call a result must cite.  LatestCall
\* cites the call appended last.
LatestCall(i) == CHOOSE n \in 1..Len(log) :
                   /\ log[n].type = "call"
                   /\ \A k \in (n + 1)..Len(log) : log[k].type # "call"
CallSeq(i) == CHOOSE n \in 1..Len(log) : log[n].type = "call" /\ log[n].call = i

\* The synthetic call/result pairs for the calls after `from`, which no one
\* started: two events per call, the result citing the event before it.
\* NoPairs leaves those calls without a result.
NoPairs(from) == <<>>
SkippedPairs(from) ==
  [n \in 1..(2 * (NumCalls - from)) |->
     LET i == from + (n + 1) \div 2 IN
       IF n % 2 = 1 THEN CallEvent(i, "skipped")
                    ELSE ResultEvent(i, Len(log) + n - 1, TRUE, FALSE)]

\* What a failing stage does: remember it, then drain what was dispatched.
Fail == failed' = TRUE /\ pc' = "drain"

\* How many planned calls a finished group consumed.  ConsumesNext counts the
\* next call to start instead of the started ones.
ConsumesNext == nextToStart
Consumed == started

\* The pool's limit; OneTooMany is off by one.
OneTooMany == Cardinality(inFlight) <= MaxParallel
PoolHasRoom == Cardinality(inFlight) < MaxParallel

\* Every call of a parallel group but its first is classified again before it
\* starts; `m` is what the registry says now.  KeepsMode trusts the group.
KeepsMode(m) == TRUE
Reclassified(m) == nextToStart > base + 1 /\ mode = "parallel" => m = "parallel"

\* fillPool's guard.
MayStart(m) == ~aborted /\ nextToStart <= group /\ PoolHasRoom /\ Reclassified(m)

\* The look at the signal behind every commit; NeverLooks keeps what the group
\* saw when it began.
NeverLooks == aborted
ObservedAbort == aborted \/ signal

\* The pool without a call the race has delivered; KeepsAll leaves it in.
KeepsAll(i) == inFlight
Remaining(i) == inFlight \ {i}

-----------------------------------------------------------------------------
(* executeToolCalls: form the next group, or stop *)

Classify(m) ==
  /\ pc = "classify" /\ base < NumCalls /\ ~aborted
  /\ mode' = m
  /\ group' = IF m = "parallel" THEN NumCalls ELSE base + 1
  /\ nextToStart' = base + 1
  /\ aborted' = signal
  /\ pc' = "fill"
  /\ UNCHANGED <<signal, base, committed, started, failed, slot, inFlight,
                 settled, conclude, log>>

\* Classifying the first call of a group throws: no body runs any more.
ClassifyFailed ==
  /\ pc = "classify" /\ base < NumCalls /\ ~aborted
  /\ failed' = TRUE /\ pc' = "failed"
  /\ UNCHANGED <<signal, schedVars, committed, started, aborted, slot, inFlight,
                 settled, conclude, log>>

\* All calls were consumed.
Return ==
  /\ pc = "classify" /\ base = NumCalls /\ ~aborted
  /\ pc' = "done"
  /\ UNCHANGED <<signal, schedVars, committed, started, aborted, failed, slot,
                 inFlight, settled, conclude, log>>

-----------------------------------------------------------------------------
(* fillPool *)

\* startCall up to its await: the tool/call event is durable first.
StartCall(m) ==
  /\ pc = "fill" /\ MayStart(m)
  /\ log' = Append(log, CallEvent(nextToStart,
                                  IF nextToStart = base + 1 THEN mode ELSE m))
  /\ started' = nextToStart
  /\ pc' = "prepare"
  /\ UNCHANGED <<signal, schedVars, committed, aborted, failed, slot, inFlight,
                 settled, conclude>>

\* Its classification throws, or the log refuses its event.
StartFailed ==
  /\ pc = "fill" /\ ~aborted /\ nextToStart <= group /\ PoolHasRoom
  /\ Fail
  /\ UNCHANGED <<signal, schedVars, committed, started, aborted, slot, inFlight,
                 settled, conclude, log>>

\* prepare resolved: dispatch the body, or keep the immediate result.
Prepared(kind) ==
  /\ pc = "prepare" /\ ~failed
  /\ IF kind = "dispatch"
     THEN inFlight' = inFlight \cup {nextToStart} /\ UNCHANGED slot
     ELSE slot' = [slot EXCEPT ![nextToStart] = kind] /\ UNCHANGED inFlight
  /\ pc' = "started"
  /\ UNCHANGED <<signal, schedVars, committed, started, aborted, failed,
                 settled, conclude, log>>

\* prepare threw, or an earlier dispatch failed while it ran.
PrepareFailed ==
  /\ pc = "prepare"
  /\ Fail
  /\ UNCHANGED <<signal, schedVars, committed, started, aborted, slot, inFlight,
                 settled, conclude, log>>

\* startCall returned.
Started ==
  /\ pc = "started"
  /\ nextToStart' = nextToStart + 1
  /\ IF failed THEN Fail ELSE pc' = "commitFill" /\ UNCHANGED failed
  /\ UNCHANGED <<signal, base, group, mode, committed, started, aborted, slot,
                 inFlight, settled, conclude, log>>

\* fillPool stops: nothing may start.  An exclusive reclassification leaves
\* the call to the next group.
StopFill(m) ==
  /\ pc = "fill" /\ ~MayStart(m)
  /\ inFlight # {}
  /\ pc' = "race"
  /\ UNCHANGED <<signal, schedVars, committed, started, aborted, failed, slot,
                 inFlight, settled, conclude, log>>

\* The group is over; its started calls are consumed.
EndGroup(m) ==
  /\ pc = "fill" /\ ~MayStart(m)
  /\ inFlight = {} /\ ~aborted
  /\ base' = Consumed
  /\ conclude' = [group |-> FALSE, step |-> conclude.step \/ conclude.group]
  /\ pc' = "classify"
  /\ UNCHANGED <<signal, group, mode, nextToStart, committed, started, aborted,
                 failed, slot, inFlight, settled, log>>

\* The group is over after an abort: every call never started gets its pair.
EndAborted ==
  /\ pc = "fill" /\ aborted /\ inFlight = {}
  /\ log' = log \o SkippedPairs(started)
  /\ base' = NumCalls
  /\ conclude' = [group |-> FALSE, step |-> conclude.step \/ conclude.group]
  /\ pc' = "done"
  /\ UNCHANGED <<signal, group, mode, nextToStart, committed, started, aborted,
                 failed, slot, inFlight, settled>>

-----------------------------------------------------------------------------
(* commitReady, entered from fillPool and from the race loop *)

Committing == [commitFill |-> "finalizeFill", commitRace |-> "finalizeRace"]
Finalizing == [finalizeFill |-> "commitFill", finalizeRace |-> "commitRace"]

Ready == committed < group /\ slot[committed + 1] # "none"

\* Append the result of the next call in model order.
Commit(concludes) ==
  LET i == committed + 1 IN
  /\ log' = Append(log, ResultEvent(i, CallSeq(i), FALSE, concludes))
  /\ committed' = i
  /\ conclude' = [conclude EXCEPT !.group = @ \/ concludes]

\* A final result needs no await.
CommitFinal(concludes) ==
  /\ pc \in DOMAIN Committing /\ Ready /\ slot[committed + 1] = "final"
  /\ Commit(concludes)
  /\ UNCHANGED <<pc, signal, schedVars, started, aborted, failed, slot,
                 inFlight, settled>>

\* A post-result is finalized first; other dispatches settle meanwhile.
Finalize ==
  /\ pc \in DOMAIN Committing /\ Ready /\ slot[committed + 1] = "post"
  /\ pc' = Committing[pc]
  /\ UNCHANGED <<signal, schedVars, committed, started, aborted, failed, slot,
                 inFlight, settled, conclude, log>>

Finalized(concludes) ==
  /\ pc \in DOMAIN Finalizing
  /\ Commit(concludes)
  /\ pc' = Finalizing[pc]
  /\ UNCHANGED <<signal, schedVars, started, aborted, failed, slot, inFlight,
                 settled>>

\* The result cannot be finalized or finished, or the log refuses it.
FinalizeFailed ==
  /\ pc \in DOMAIN Finalizing \/ (pc \in DOMAIN Committing /\ Ready)
  /\ Fail
  /\ UNCHANGED <<signal, schedVars, committed, started, aborted, slot, inFlight,
                 settled, conclude, log>>

\* The next call in model order has no result yet: look at the failure, then
\* at the signal, and go on filling the pool.
Committed ==
  /\ pc \in DOMAIN Committing /\ ~Ready
  /\ IF failed THEN Fail /\ UNCHANGED aborted
     ELSE /\ aborted' = ObservedAbort
          /\ pc' = "fill"
          /\ UNCHANGED failed
  /\ UNCHANGED <<signal, schedVars, committed, started, slot, inFlight, settled,
                 conclude, log>>

-----------------------------------------------------------------------------
(* The race over dispatched calls *)

\* A dispatched body settles with a result, at any await of the scheduler.
Settled(i, kind) ==
  /\ Suspended /\ i \in inFlight \ settled
  /\ settled' = settled \cup {i}
  /\ slot' = [slot EXCEPT ![i] = kind]
  /\ UNCHANGED <<pc, signal, schedVars, committed, started, aborted, failed,
                 inFlight, conclude, log>>

\* Its promise rejects: a failure of the scheduler, not of the tool.
DispatchFailed(i) ==
  /\ Suspended /\ i \in inFlight \ settled
  /\ settled' = settled \cup {i}
  /\ failed' = TRUE
  /\ UNCHANGED <<pc, signal, schedVars, committed, started, aborted, slot,
                 inFlight, conclude, log>>

\* The race resumes with one settled call.
Race(i) ==
  /\ pc = "race" /\ i \in settled
  /\ inFlight' = Remaining(i)
  /\ settled' = settled \ {i}
  /\ IF failed THEN Fail ELSE pc' = "commitRace" /\ UNCHANGED failed
  /\ UNCHANGED <<signal, schedVars, committed, started, aborted, slot, conclude,
                 log>>

\* Every dispatched call settled: rethrow the first failure.
Drained ==
  /\ pc = "drain" /\ settled = inFlight
  /\ pc' = "failed"
  /\ UNCHANGED <<signal, schedVars, committed, started, aborted, failed, slot,
                 inFlight, settled, conclude, log>>

\* The user or the owner aborts the turn.
Abort ==
  /\ Suspended /\ pc \notin {"done", "failed"} /\ ~signal
  /\ signal' = TRUE
  /\ UNCHANGED <<pc, schedVars, committed, started, aborted, failed, slot,
                 inFlight, settled, conclude, log>>

-----------------------------------------------------------------------------
Scheduler ==
  \/ \E m \in Mode : Classify(m) \/ StartCall(m) \/ StopFill(m) \/ EndGroup(m)
  \/ Return \/ EndAborted
  \/ Started \/ Committed \/ Finalize \/ Drained
  \/ \E b \in BOOLEAN : CommitFinal(b)
  \/ \E i \in Calls : Race(i)

\* The stages and bodies the scheduler awaits; each settles one way or another.
Stages ==
  \/ \E kind \in {"dispatch", "post", "final"} : Prepared(kind)
  \/ ClassifyFailed \/ StartFailed \/ PrepareFailed
  \/ \E b \in BOOLEAN : Finalized(b)
  \/ FinalizeFailed

Body(i) == DispatchFailed(i) \/ \E kind \in {"post", "final"} : Settled(i, kind)

Next == Scheduler \/ Stages \/ (\E i \in Calls : Body(i)) \/ Abort

Spec == Init /\ [][Next]_vars

FairSpec ==
  /\ Spec
  /\ WF_vars(Scheduler) /\ WF_vars(Stages)
  /\ \A i \in Calls : WF_vars(Body(i))

-----------------------------------------------------------------------------
(* Correctness *)

Indices(type) == {n \in 1..Len(log) : log[n].type = type}

Running == inFlight \ settled

\* The log is in model order whatever order bodies finish in, repeats no call
\* and no result, and every result cites the tool/call event of its own call.
ModelOrder ==
  /\ \A m, n \in 1..Len(log) :
       m < n /\ log[m].type = log[n].type => log[m].call < log[n].call
  /\ \A n \in Indices("result") :
       /\ log[n].cites \in 1..(n - 1)
       /\ log[log[n].cites].type = "call"
       /\ log[log[n].cites].call = log[n].call

\* Bodies overlap only inside the configured pool.
PoolBound == Cardinality(Running) <= MaxParallel

\* An exclusive call is a barrier: it starts after every earlier result is
\* committed and its own result is committed before any later call starts.
ExclusiveBarrier ==
  \A n \in Indices("call") : log[n].ran = "exclusive" =>
    /\ \A i \in 1..(log[n].call - 1) :
         \E k \in 1..(n - 1) : log[k].type = "result" /\ log[k].call = i
    /\ \A k \in Indices("call") : log[k].call > log[n].call =>
         \E r \in (n + 1)..(k - 1) :
           log[r].type = "result" /\ log[r].call = log[n].call

\* On return, aborted or not, every call of the message has its call event and
\* its result, so the transcript the model sees next is well formed; results
\* were made up exactly for the calls that never started, and the step concludes
\* the turn exactly when a result of any of its groups said so.
PairedOnReturn ==
  pc = "done" =>
    /\ \A type \in {"call", "result"} :
         {log[n].call : n \in Indices(type)} = Calls
    /\ {log[n].call : n \in {k \in Indices("result") : log[k].skipped}}
         = (started + 1)..NumCalls
    /\ conclude.step <=> \E n \in Indices("result") : log[n].concludes

\* Nothing starts behind a stop: once the signal is aborted or a stage failed
\* no tool/call is appended for a call that would run, and after a failure not
\* even the call being prepared is dispatched.
NothingStarts ==
  /\ signal \/ failed => started' = started
  /\ failed => Running' \subseteq Running

NoStartAfterStop == [][NothingStarts]_vars

\* The step ends, unless a body or a stage never settles, and neither outcome
\* leaves a tool body running behind it.
Terminates == <>(pc \in {"done", "failed"} /\ Running = {})
=============================================================================
