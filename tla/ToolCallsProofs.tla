-------------------------- MODULE ToolCallsProofs ---------------------------
(***************************************************************************)
(* What the scheduler of tool calls keeps for any number of calls and any  *)
(* pool: its types, the pool's limit, and that nothing starts behind a     *)
(* stop.  CountInv relates the counters to the log and the pool, PoolInv   *)
(* carries the pool's room across the await of prepare, and StopInv says   *)
(* what the scheduler knows of the signal and of a failure where it looks. *)
(***************************************************************************)
EXTENDS ToolCalls, FiniteSetTheorems, SequenceTheorems, TLAPS

USE ToolCallsAssumption

\* The points of a group at which the next call to start is the one behind the
\* started calls.
Behind == {"fill", "commitFill", "finalizeFill", "race", "commitRace",
           "finalizeRace"}

\* The counters agree: every started call has its event in the log, and only a
\* started call is in the pool or has a result.
CountInv ==
  /\ pc = "classify" => base = started
  /\ pc \in Behind => nextToStart = started + 1
  /\ pc \in {"prepare", "started"} => nextToStart = started /\ started \in Calls
  /\ \A i \in inFlight : i <= started
  /\ \A i \in Calls : slot[i] # "none" => i <= started
  /\ \A i \in 1..started :
       \E n \in 1..Len(log) : log[n].type = "call" /\ log[n].call = i
  /\ pc \in DOMAIN Finalizing => Ready

\* The pool never exceeds its limit, and has room for a call being prepared.
PoolInv ==
  /\ IsFiniteSet(inFlight)
  /\ Cardinality(inFlight) <= MaxParallel
  /\ pc = "prepare" => Cardinality(inFlight) < MaxParallel

\* Where it fills the pool, the scheduler has seen every abort, and no stage or
\* body has failed; between groups no body runs.
StopInv ==
  /\ pc = "fill" => ~failed /\ (signal => aborted)
  /\ pc = "classify" => ~failed /\ inFlight = {}

Inv == TypeOK /\ CountInv /\ PoolInv /\ StopInv

-----------------------------------------------------------------------------
(* The events of the log *)

\* The two places that commit, and where each awaits a finalization.
LEMMA CommitPoints ==
  /\ DOMAIN Committing = {"commitFill", "commitRace"}
  /\ DOMAIN Finalizing = {"finalizeFill", "finalizeRace"}
  /\ Committing["commitFill"] = "finalizeFill"
  /\ Committing["commitRace"] = "finalizeRace"
  /\ Finalizing["finalizeFill"] = "commitFill"
  /\ Finalizing["finalizeRace"] = "commitRace"
  BY DEF Committing, Finalizing

\* Both kinds of event the scheduler appends are events.
LEMMA EventTypes ==
  ASSUME NEW i \in Calls
  PROVE  /\ \A ran \in Mode \cup {"skipped"} : CallEvent(i, ran) \in Event
         /\ \A cited \in Nat, isSkipped \in BOOLEAN, concludes \in BOOLEAN :
              ResultEvent(i, cited, isSkipped, concludes) \in Event
  BY DEF CallEvent, ResultEvent, Event

\* A started call has a call event to cite.
LEMMA CallSeqType ==
  ASSUME log \in Seq(Event), CountInv, NEW i \in Calls, i <= started,
         started \in Nat
  PROVE  CallSeq(i) \in 1..Len(log)
<1>1. i \in 1..started
  BY DEF Calls
<1>2. \E n \in 1..Len(log) : log[n].type = "call" /\ log[n].call = i
  BY <1>1 DEF CountInv
<1> QED BY <1>2 DEF CallSeq

\* The pairs made up for calls nobody started are events.
LEMMA SkippedPairsType ==
  ASSUME log \in Seq(Event), NEW from \in 0..NumCalls
  PROVE  SkippedPairs(from) \in Seq(Event)
<1> DEFINE len == 2 * (NumCalls - from)
           f == SkippedPairs(from)
<1>1. len \in Nat /\ Len(log) \in Nat
  OBVIOUS
<1>2. ASSUME NEW n \in 1..len
      PROVE  f[n] \in Event
  <2>1. from + (n + 1) \div 2 \in Calls
    BY <1>1, <1>2 DEF Calls
  <2>2. Len(log) + n - 1 \in Nat
    BY <1>1, <1>2
  <2>3. f[n] = IF n % 2 = 1
               THEN CallEvent(from + (n + 1) \div 2, "skipped")
               ELSE ResultEvent(from + (n + 1) \div 2, Len(log) + n - 1, TRUE, FALSE)
    BY <1>2 DEF SkippedPairs
  <2> QED BY <2>1, <2>2, <2>3, EventTypes
<1>3. f = [n \in 1..len |-> f[n]]
  BY DEF SkippedPairs
<1> HIDE DEF f, len
<1>4. f \in [1..len -> Event]
  BY <1>2, <1>3
<1>5. f \in Seq(Event)
  BY <1>1, <1>4, SeqDef
<1> QED BY <1>5 DEF f

-----------------------------------------------------------------------------
(* Types *)

\* A committed result leaves the log a sequence of events.
LEMMA CommitType ==
  ASSUME TypeOK, CountInv, Ready, NEW concludes \in BOOLEAN, Commit(concludes)
  PROVE  /\ log' \in Seq(Event)
         /\ committed' \in 0..NumCalls
         /\ conclude' \in [group : BOOLEAN, step : BOOLEAN]
<1> USE DEF TypeOK
<1>1. committed + 1 \in Calls /\ committed + 1 <= started
  BY DEF Ready, CountInv, Calls
<1>2. CallSeq(committed + 1) \in Nat
  BY <1>1, CallSeqType
<1>3. ResultEvent(committed + 1, CallSeq(committed + 1), FALSE, concludes) \in Event
  BY <1>1, <1>2, EventTypes
<1>4. log' = Append(log, ResultEvent(committed + 1, CallSeq(committed + 1), FALSE,
                                     concludes))
  BY DEF Commit
<1>5. log' \in Seq(Event)
  BY <1>3, <1>4, AppendProperties
<1>6. committed' \in 0..NumCalls
  BY <1>1 DEF Commit, Calls
<1>7. conclude' \in [group : BOOLEAN, step : BOOLEAN]
  BY DEF Commit
<1> QED BY <1>5, <1>6, <1>7

\* Every step keeps every variable in its type.  A commit needs the counters:
\* what a result cites is the event of a call that started.
LEMMA TypeStep ==
  ASSUME TypeOK, CountInv, [Next]_vars
  PROVE  TypeOK'
<1> USE DEF TypeOK, PC, Calls, Mode, schedVars
<1>1. ASSUME NEW m \in Mode, Classify(m) PROVE TypeOK'
  BY <1>1 DEF Classify
<1>2. ASSUME NEW m \in Mode, StartCall(m) PROVE TypeOK'
  <2>1. nextToStart \in Calls /\ nextToStart <= group
    BY <1>2 DEF StartCall, MayStart
  <2>2. log' \in Seq(Event)
    BY <1>2, <2>1, EventTypes DEF StartCall
  <2> QED BY <1>2, <2>1, <2>2 DEF StartCall
<1>3. ASSUME NEW m \in Mode, StopFill(m) PROVE TypeOK'
  BY <1>3 DEF StopFill
<1>4. ASSUME NEW m \in Mode, EndGroup(m) PROVE TypeOK'
  BY <1>4 DEF EndGroup, Consumed
<1>5. CASE Return
  BY <1>5 DEF Return
<1>6. CASE EndAborted
  <2>1. log' \in Seq(Event)
    BY <1>6, SkippedPairsType, ConcatProperties DEF EndAborted
  <2> QED BY <1>6, <2>1 DEF EndAborted
<1>7. CASE Started
  <2>1. nextToStart + 1 \in 1..(NumCalls + 1)
    BY <1>7 DEF Started, CountInv
  <2> QED BY <1>7, <2>1 DEF Started, Fail
<1>8. CASE Committed
  BY <1>8 DEF Committed, Fail, ObservedAbort
<1>9. CASE Finalize
  <2>1. pc' \in PC
    BY <1>9, CommitPoints DEF Finalize
  <2> QED BY <1>9, <2>1 DEF Finalize
<1>10. CASE Drained
  BY <1>10 DEF Drained
<1>11. ASSUME NEW b \in BOOLEAN, CommitFinal(b) PROVE TypeOK'
  BY <1>11, CommitType DEF CommitFinal
<1>12. ASSUME NEW i \in Calls, Race(i) PROVE TypeOK'
  BY <1>12 DEF Race, Remaining, Fail
<1>13. ASSUME NEW kind \in {"dispatch", "post", "final"}, Prepared(kind)
       PROVE  TypeOK'
  <2>1. nextToStart \in Calls
    BY <1>13 DEF Prepared, CountInv
  <2> QED BY <1>13, <2>1 DEF Prepared
<1>14. CASE ClassifyFailed \/ StartFailed \/ PrepareFailed
  <2>1. CASE ClassifyFailed
    BY <2>1 DEF ClassifyFailed
  <2>2. CASE StartFailed
    BY <2>2 DEF StartFailed, Fail
  <2>3. CASE PrepareFailed
    BY <2>3 DEF PrepareFailed, Fail
  <2> QED BY <1>14, <2>1, <2>2, <2>3
<1>15. ASSUME NEW b \in BOOLEAN, Finalized(b) PROVE TypeOK'
  <2>1. Ready /\ pc' \in PC
    BY <1>15, CommitPoints DEF Finalized, CountInv
  <2> QED BY <1>15, <2>1, CommitType DEF Finalized
<1>16. CASE FinalizeFailed
  BY <1>16, CommitPoints DEF FinalizeFailed, Fail
<1>17. ASSUME NEW i \in Calls, DispatchFailed(i) PROVE TypeOK'
  BY <1>17 DEF DispatchFailed
<1>18. ASSUME NEW i \in Calls, NEW kind \in {"post", "final"}, Settled(i, kind)
       PROVE  TypeOK'
  BY <1>18 DEF Settled
<1>19. CASE Abort
  BY <1>19 DEF Abort
<1>20. CASE UNCHANGED vars
  BY <1>20 DEF vars
<1> QED BY <1>1, <1>2, <1>3, <1>4, <1>5, <1>6, <1>7, <1>8, <1>9, <1>10, <1>11,
           <1>12, <1>13, <1>14, <1>15, <1>16, <1>17, <1>18, <1>19, <1>20
        DEF Next, Scheduler, Stages, Body

-----------------------------------------------------------------------------
(* The counters *)

\* Appending events keeps every call event where it is.
LEMMA CallsStayLogged ==
  ASSUME TypeOK, CountInv, NEW more \in Seq(Event), log' = log \o more
  PROVE  \A i \in 1..started :
           \E n \in 1..Len(log') : log'[n].type = "call" /\ log'[n].call = i
<1>1. log \in Seq(Event)
  BY DEF TypeOK
<1> SUFFICES ASSUME NEW i \in 1..started
             PROVE  \E n \in 1..Len(log') : log'[n].type = "call" /\ log'[n].call = i
  OBVIOUS
<1>2. PICK n \in 1..Len(log) : log[n].type = "call" /\ log[n].call = i
  BY DEF CountInv
<1>3. n \in 1..Len(log') /\ log'[n] = log[n]
  BY <1>1, <1>2, ConcatProperties
<1> QED BY <1>2, <1>3

\* A commit keeps every call event where it is.
LEMMA CommitKeepsCalls ==
  ASSUME TypeOK, CountInv, Ready, NEW concludes \in BOOLEAN, Commit(concludes)
  PROVE  \A i \in 1..started :
           \E n \in 1..Len(log') : log'[n].type = "call" /\ log'[n].call = i
<1> DEFINE e == ResultEvent(committed + 1, CallSeq(committed + 1), FALSE, concludes)
<1>1. committed + 1 \in Calls /\ committed + 1 <= started
  BY DEF TypeOK, Ready, CountInv, Calls
<1>2. CallSeq(committed + 1) \in Nat
  BY <1>1, CallSeqType DEF TypeOK
<1>3. e \in Event
  BY <1>1, <1>2, EventTypes
<1>4. log' = Append(log, e)
  BY DEF Commit
<1> HIDE DEF e
<1>5. log \in Seq(Event)
  BY DEF TypeOK
<1>6. Append(log, e) = log \o <<e>> /\ <<e>> \in Seq(Event)
  BY <1>3, <1>5
<1> QED BY <1>4, <1>6, CallsStayLogged

\* Every step keeps the counters in agreement with the log and the pool.
LEMMA CountStep ==
  ASSUME TypeOK, CountInv, [Next]_vars
  PROVE  CountInv'
<1> USE DEF CountInv, Behind, Calls, schedVars, Ready
<1>0. /\ base \in 0..NumCalls /\ group \in 0..NumCalls
      /\ nextToStart \in 1..(NumCalls + 1)
      /\ committed \in 0..NumCalls /\ started \in 0..NumCalls
      /\ slot \in [Calls -> {"none", "post", "final"}]
      /\ inFlight \in SUBSET Calls /\ settled \in SUBSET inFlight
      /\ log \in Seq(Event)
  BY DEF TypeOK
<1> USE <1>0, CommitPoints
<1>1. ASSUME NEW m \in Mode, Classify(m) PROVE CountInv'
  BY <1>1 DEF Classify
<1>2. ASSUME NEW m \in Mode, StartCall(m) PROVE CountInv'
  <2>1. /\ nextToStart = started + 1 /\ nextToStart \in Calls
        /\ nextToStart <= group /\ started' = nextToStart
    BY <1>2 DEF StartCall, MayStart
  <2> DEFINE ran == IF nextToStart = base + 1 THEN mode ELSE m
             e == CallEvent(nextToStart, ran)
  <2>2. ran \in Mode
    BY DEF TypeOK
  <2>3. e \in Event /\ e.type = "call" /\ e.call = nextToStart
    BY <2>1, <2>2, EventTypes DEF CallEvent
  <2>4. log' = Append(log, e)
    BY <1>2 DEF StartCall
  <2> HIDE DEF e, ran
  <2>5. /\ Len(log') = Len(log) + 1 /\ log'[Len(log) + 1] = e
        /\ \A n \in 1..Len(log) : log'[n] = log[n]
    BY <2>3, <2>4, AppendProperties
  <2>6. \A i \in 1..started' :
          \E n \in 1..Len(log') : log'[n].type = "call" /\ log'[n].call = i
    <3> SUFFICES ASSUME NEW i \in 1..started'
                 PROVE  \E n \in 1..Len(log') :
                          log'[n].type = "call" /\ log'[n].call = i
      OBVIOUS
    <3>1. CASE i = nextToStart
      BY <2>3, <2>5, <3>1
    <3>2. CASE i # nextToStart
      <4>1. i \in 1..started
        BY <2>1, <3>2
      <4>2. PICK n \in 1..Len(log) : log[n].type = "call" /\ log[n].call = i
        BY <4>1
      <4> QED BY <2>5, <4>2
    <3> QED BY <3>1, <3>2
  <2>7. /\ pc' = "prepare" /\ nextToStart' = nextToStart
        /\ slot' = slot /\ inFlight' = inFlight
    BY <1>2 DEF StartCall
  <2>8. /\ \A i \in inFlight' : i <= started'
        /\ \A i \in Calls : slot'[i] # "none" => i <= started'
    BY <2>1, <2>7
  <2> QED BY <2>1, <2>6, <2>7, <2>8
<1>3. ASSUME NEW m \in Mode, StopFill(m) PROVE CountInv'
  BY <1>3 DEF StopFill
<1>4. ASSUME NEW m \in Mode, EndGroup(m) PROVE CountInv'
  BY <1>4 DEF EndGroup, Consumed
<1>5. CASE Return
  BY <1>5 DEF Return
<1>6. CASE EndAborted
  <2>1. \A i \in 1..started' :
          \E n \in 1..Len(log') : log'[n].type = "call" /\ log'[n].call = i
    BY <1>6, SkippedPairsType, CallsStayLogged DEF EndAborted
  <2> QED BY <1>6, <2>1 DEF EndAborted
<1>7. CASE Started
  BY <1>7 DEF Started, Fail
<1>8. CASE Committed
  BY <1>8 DEF Committed, Fail
<1>9. CASE Finalize
  <2>1. pc' \in {"finalizeFill", "finalizeRace"}
    BY <1>9 DEF Finalize
  <2> QED BY <1>9, <2>1 DEF Finalize
<1>10. CASE Drained
  BY <1>10 DEF Drained
<1>11. ASSUME NEW b \in BOOLEAN, CommitFinal(b) PROVE CountInv'
  <2>1. \A i \in 1..started' :
          \E n \in 1..Len(log') : log'[n].type = "call" /\ log'[n].call = i
    BY <1>11, CommitKeepsCalls DEF CommitFinal
  <2> QED BY <1>11, <2>1 DEF CommitFinal
<1>12. ASSUME NEW i \in Calls, Race(i) PROVE CountInv'
  BY <1>12 DEF Race, Remaining, Fail
<1>13. ASSUME NEW kind \in {"dispatch", "post", "final"}, Prepared(kind)
       PROVE  CountInv'
  <2>1. /\ pc = "prepare" /\ pc' = "started" /\ nextToStart = started
        /\ nextToStart' = nextToStart /\ started' = started /\ log' = log
    BY <1>13 DEF Prepared
  <2>2. /\ \A i \in inFlight' : i <= started
        /\ \A i \in Calls : slot'[i] # "none" => i <= started
    <3>1. CASE kind = "dispatch"
      <4>1. inFlight' = inFlight \cup {started} /\ slot' = slot
        BY <1>13, <2>1, <3>1 DEF Prepared
      <4> QED BY <4>1
    <3>2. CASE kind # "dispatch"
      <4>1. inFlight' = inFlight /\ slot' = [slot EXCEPT ![started] = kind]
        BY <1>13, <2>1, <3>2 DEF Prepared
      <4>2. \A i \in Calls : i # started => slot'[i] = slot[i]
        BY <4>1
      <4> QED BY <4>1, <4>2
    <3> QED BY <3>1, <3>2
  <2> QED BY <2>1, <2>2
<1>14. CASE ClassifyFailed \/ StartFailed \/ PrepareFailed
  <2>1. CASE ClassifyFailed
    BY <2>1 DEF ClassifyFailed
  <2>2. CASE StartFailed
    BY <2>2 DEF StartFailed, Fail
  <2>3. CASE PrepareFailed
    BY <2>3 DEF PrepareFailed, Fail
  <2> QED BY <1>14, <2>1, <2>2, <2>3
<1>15. ASSUME NEW b \in BOOLEAN, Finalized(b) PROVE CountInv'
  <2>1. \A i \in 1..started' :
          \E n \in 1..Len(log') : log'[n].type = "call" /\ log'[n].call = i
    BY <1>15, CommitKeepsCalls DEF Finalized
  <2>2. pc' \in {"commitFill", "commitRace"}
    BY <1>15 DEF Finalized
  <2> QED BY <1>15, <2>1, <2>2 DEF Finalized
<1>16. CASE FinalizeFailed
  BY <1>16 DEF FinalizeFailed, Fail
<1>17. ASSUME NEW i \in Calls, DispatchFailed(i) PROVE CountInv'
  BY <1>17 DEF DispatchFailed
<1>18. ASSUME NEW i \in Calls, NEW kind \in {"post", "final"}, Settled(i, kind)
       PROVE  CountInv'
  BY <1>18 DEF Settled
<1>19. CASE Abort
  BY <1>19 DEF Abort
<1>20. CASE UNCHANGED vars
  BY <1>20 DEF vars
<1> HIDE DEF CountInv
<1> QED BY <1>1, <1>2, <1>3, <1>4, <1>5, <1>6, <1>7, <1>8, <1>9, <1>10, <1>11,
           <1>12, <1>13, <1>14, <1>15, <1>16, <1>17, <1>18, <1>19, <1>20
        DEF Next, Scheduler, Stages, Body

-----------------------------------------------------------------------------
(* The pool *)

\* Every step keeps the pool within its limit: a call joins it behind the guard
\* of fillPool, and nothing else fills it while prepare is awaited.
LEMMA PoolStep ==
  ASSUME TypeOK, PoolInv, [Next]_vars
  PROVE  PoolInv'
<1> USE DEF PoolInv, schedVars
<1>0. Cardinality(inFlight) \in Nat
  BY FS_CardinalityType
<1> USE <1>0
<1>1. ASSUME NEW m \in Mode, Classify(m) PROVE PoolInv'
  BY <1>1 DEF Classify
<1>2. ASSUME NEW m \in Mode, StartCall(m) PROVE PoolInv'
  <2>1. Cardinality(inFlight) < MaxParallel
    BY <1>2 DEF StartCall, MayStart, PoolHasRoom
  <2> QED BY <1>2, <2>1 DEF StartCall
<1>3. ASSUME NEW m \in Mode, StopFill(m) PROVE PoolInv'
  BY <1>3 DEF StopFill
<1>4. ASSUME NEW m \in Mode, EndGroup(m) PROVE PoolInv'
  BY <1>4 DEF EndGroup
<1>5. CASE Return
  BY <1>5 DEF Return
<1>6. CASE EndAborted
  BY <1>6 DEF EndAborted
<1>7. CASE Started
  BY <1>7 DEF Started, Fail
<1>8. CASE Committed
  BY <1>8 DEF Committed, Fail
<1>9. CASE Finalize
  BY <1>9, CommitPoints DEF Finalize
<1>10. CASE Drained
  BY <1>10 DEF Drained
<1>11. ASSUME NEW b \in BOOLEAN, CommitFinal(b) PROVE PoolInv'
  BY <1>11 DEF CommitFinal
<1>12. ASSUME NEW i \in Calls, Race(i) PROVE PoolInv'
  <2>1. /\ IsFiniteSet(inFlight \ {i})
        /\ Cardinality(inFlight \ {i}) <= Cardinality(inFlight)
    BY FS_RemoveElement
  <2>2. Cardinality(inFlight \ {i}) \in Nat
    BY <2>1, FS_CardinalityType
  <2>3. inFlight' = inFlight \ {i} /\ pc' \in {"drain", "commitRace"}
    BY <1>12 DEF Race, Remaining, Fail
  <2> QED BY <2>1, <2>2, <2>3
<1>13. ASSUME NEW kind \in {"dispatch", "post", "final"}, Prepared(kind)
       PROVE  PoolInv'
  <2>1. pc = "prepare" /\ pc' = "started"
    BY <1>13 DEF Prepared
  <2>2. inFlight' = inFlight \/ inFlight' = inFlight \cup {nextToStart}
    BY <1>13 DEF Prepared
  <2>3. /\ IsFiniteSet(inFlight \cup {nextToStart})
        /\ Cardinality(inFlight \cup {nextToStart}) <= Cardinality(inFlight) + 1
    BY FS_AddElement
  <2>4. Cardinality(inFlight \cup {nextToStart}) \in Nat
    BY <2>3, FS_CardinalityType
  <2> QED BY <2>1, <2>2, <2>3, <2>4
<1>14. CASE ClassifyFailed \/ StartFailed \/ PrepareFailed
  <2>1. CASE ClassifyFailed
    BY <2>1 DEF ClassifyFailed
  <2>2. CASE StartFailed
    BY <2>2 DEF StartFailed, Fail
  <2>3. CASE PrepareFailed
    BY <2>3 DEF PrepareFailed, Fail
  <2> QED BY <1>14, <2>1, <2>2, <2>3
<1>15. ASSUME NEW b \in BOOLEAN, Finalized(b) PROVE PoolInv'
  BY <1>15, CommitPoints DEF Finalized
<1>16. CASE FinalizeFailed
  BY <1>16, CommitPoints DEF FinalizeFailed, Fail
<1>17. ASSUME NEW i \in Calls, DispatchFailed(i) PROVE PoolInv'
  BY <1>17 DEF DispatchFailed
<1>18. ASSUME NEW i \in Calls, NEW kind \in {"post", "final"}, Settled(i, kind)
       PROVE  PoolInv'
  BY <1>18 DEF Settled
<1>19. CASE Abort
  BY <1>19 DEF Abort
<1>20. CASE UNCHANGED vars
  BY <1>20 DEF vars
<1> QED BY <1>1, <1>2, <1>3, <1>4, <1>5, <1>6, <1>7, <1>8, <1>9, <1>10, <1>11,
           <1>12, <1>13, <1>14, <1>15, <1>16, <1>17, <1>18, <1>19, <1>20
        DEF Next, Scheduler, Stages, Body

-----------------------------------------------------------------------------
(* Stops *)

\* Every step keeps the scheduler informed: it reaches the place that starts
\* calls only behind a look at the failure and at the signal.
LEMMA StopStep ==
  ASSUME TypeOK, StopInv, [Next]_vars
  PROVE  StopInv'
<1> USE DEF StopInv, schedVars
<1>0. inFlight \in SUBSET Calls /\ settled \in SUBSET inFlight
  BY DEF TypeOK
<1> USE <1>0
<1>1. ASSUME NEW m \in Mode, Classify(m) PROVE StopInv'
  BY <1>1 DEF Classify
<1>2. ASSUME NEW m \in Mode, StartCall(m) PROVE StopInv'
  BY <1>2 DEF StartCall
<1>3. ASSUME NEW m \in Mode, StopFill(m) PROVE StopInv'
  BY <1>3 DEF StopFill
<1>4. ASSUME NEW m \in Mode, EndGroup(m) PROVE StopInv'
  BY <1>4 DEF EndGroup
<1>5. CASE Return
  BY <1>5 DEF Return
<1>6. CASE EndAborted
  BY <1>6 DEF EndAborted
<1>7. CASE Started
  BY <1>7 DEF Started, Fail
<1>8. CASE Committed
  BY <1>8 DEF Committed, Fail, ObservedAbort
<1>9. CASE Finalize
  BY <1>9, CommitPoints DEF Finalize
<1>10. CASE Drained
  BY <1>10 DEF Drained
<1>11. ASSUME NEW b \in BOOLEAN, CommitFinal(b) PROVE StopInv'
  BY <1>11 DEF CommitFinal
<1>12. ASSUME NEW i \in Calls, Race(i) PROVE StopInv'
  BY <1>12 DEF Race, Remaining, Fail
<1>13. ASSUME NEW kind \in {"dispatch", "post", "final"}, Prepared(kind)
       PROVE  StopInv'
  BY <1>13 DEF Prepared
<1>14. CASE ClassifyFailed \/ StartFailed \/ PrepareFailed
  <2>1. CASE ClassifyFailed
    BY <2>1 DEF ClassifyFailed
  <2>2. CASE StartFailed
    BY <2>2 DEF StartFailed, Fail
  <2>3. CASE PrepareFailed
    BY <2>3 DEF PrepareFailed, Fail
  <2> QED BY <1>14, <2>1, <2>2, <2>3
<1>15. ASSUME NEW b \in BOOLEAN, Finalized(b) PROVE StopInv'
  BY <1>15, CommitPoints DEF Finalized
<1>16. CASE FinalizeFailed
  BY <1>16, CommitPoints DEF FinalizeFailed, Fail
<1>17. ASSUME NEW i \in Calls, DispatchFailed(i) PROVE StopInv'
  BY <1>17 DEF DispatchFailed, Suspended
<1>18. ASSUME NEW i \in Calls, NEW kind \in {"post", "final"}, Settled(i, kind)
       PROVE  StopInv'
  BY <1>18 DEF Settled, Suspended
<1>19. CASE Abort
  BY <1>19 DEF Abort, Suspended
<1>20. CASE UNCHANGED vars
  BY <1>20 DEF vars
<1> QED BY <1>1, <1>2, <1>3, <1>4, <1>5, <1>6, <1>7, <1>8, <1>9, <1>10, <1>11,
           <1>12, <1>13, <1>14, <1>15, <1>16, <1>17, <1>18, <1>19, <1>20
        DEF Next, Scheduler, Stages, Body

\* A step from a state that satisfies StopInv starts nothing behind a stop.
LEMMA StopsStarting ==
  ASSUME TypeOK, StopInv, [Next]_vars
  PROVE  NothingStarts
<1> USE DEF NothingStarts, Running, StopInv, schedVars
<1>1. ASSUME NEW m \in Mode, Classify(m) PROVE NothingStarts
  BY <1>1 DEF Classify
<1>2. ASSUME NEW m \in Mode, StartCall(m) PROVE NothingStarts
  <2>1. ~aborted /\ pc = "fill"
    BY <1>2 DEF StartCall, MayStart
  <2>2. ~signal /\ ~failed
    BY <2>1
  <2> QED BY <2>2
<1>3. ASSUME NEW m \in Mode, StopFill(m) PROVE NothingStarts
  BY <1>3 DEF StopFill
<1>4. ASSUME NEW m \in Mode, EndGroup(m) PROVE NothingStarts
  BY <1>4 DEF EndGroup
<1>5. CASE Return
  BY <1>5 DEF Return
<1>6. CASE EndAborted
  BY <1>6 DEF EndAborted
<1>7. CASE Started
  BY <1>7 DEF Started, Fail
<1>8. CASE Committed
  BY <1>8 DEF Committed, Fail
<1>9. CASE Finalize
  BY <1>9 DEF Finalize
<1>10. CASE Drained
  BY <1>10 DEF Drained
<1>11. ASSUME NEW b \in BOOLEAN, CommitFinal(b) PROVE NothingStarts
  BY <1>11 DEF CommitFinal
<1>12. ASSUME NEW i \in Calls, Race(i) PROVE NothingStarts
  <2>1. /\ inFlight' = inFlight \ {i} /\ settled' = settled \ {i}
        /\ i \in settled /\ started' = started
    BY <1>12 DEF Race, Remaining
  <2> QED BY <2>1
<1>13. ASSUME NEW kind \in {"dispatch", "post", "final"}, Prepared(kind)
       PROVE  NothingStarts
  BY <1>13 DEF Prepared
<1>14. CASE ClassifyFailed \/ StartFailed \/ PrepareFailed
  <2>1. CASE ClassifyFailed
    BY <2>1 DEF ClassifyFailed
  <2>2. CASE StartFailed
    BY <2>2 DEF StartFailed, Fail
  <2>3. CASE PrepareFailed
    BY <2>3 DEF PrepareFailed, Fail
  <2> QED BY <1>14, <2>1, <2>2, <2>3
<1>15. ASSUME NEW b \in BOOLEAN, Finalized(b) PROVE NothingStarts
  BY <1>15 DEF Finalized
<1>16. CASE FinalizeFailed
  BY <1>16, CommitPoints DEF FinalizeFailed, Fail
<1>17. ASSUME NEW i \in Calls, DispatchFailed(i) PROVE NothingStarts
  BY <1>17 DEF DispatchFailed
<1>18. ASSUME NEW i \in Calls, NEW kind \in {"post", "final"}, Settled(i, kind)
       PROVE  NothingStarts
  BY <1>18 DEF Settled
<1>19. CASE Abort
  BY <1>19 DEF Abort
<1>20. CASE UNCHANGED vars
  BY <1>20 DEF vars
<1> QED BY <1>1, <1>2, <1>3, <1>4, <1>5, <1>6, <1>7, <1>8, <1>9, <1>10, <1>11,
           <1>12, <1>13, <1>14, <1>15, <1>16, <1>17, <1>18, <1>19, <1>20
        DEF Next, Scheduler, Stages, Body

-----------------------------------------------------------------------------
(* The theorems *)

\* A scheduler about to classify its first call satisfies the invariant.
LEMMA InitInv == Init => Inv
<1> SUFFICES ASSUME Init PROVE Inv
  OBVIOUS
<1> USE DEF Init
<1>1. TypeOK
  <2>1. <<>> \in Seq(Event)
    OBVIOUS
  <2>2. log \in Seq(Event)
    BY <2>1
  <2>3. slot \in [Calls -> {"none", "post", "final"}]
    OBVIOUS
  <2>4. conclude \in [group : BOOLEAN, step : BOOLEAN]
    OBVIOUS
  <2>5. /\ signal \in BOOLEAN /\ aborted \in BOOLEAN /\ failed \in BOOLEAN
        /\ pc \in PC /\ mode \in Mode
    BY DEF PC, Mode
  <2>6. /\ base \in 0..NumCalls /\ group \in 0..NumCalls
        /\ nextToStart \in 1..(NumCalls + 1)
        /\ committed \in 0..NumCalls /\ started \in 0..NumCalls
        /\ inFlight \in SUBSET Calls /\ settled \in SUBSET inFlight
    OBVIOUS
  <2> HIDE DEF Init
  <2> QED BY <2>2, <2>3, <2>4, <2>5, <2>6, Zenon DEF TypeOK
<1>2. CountInv
  BY CommitPoints DEF CountInv, Behind, Calls
<1>3. PoolInv
  BY FS_EmptySet DEF PoolInv
<1>4. StopInv
  BY DEF StopInv
<1> QED BY <1>1, <1>2, <1>3, <1>4 DEF Inv

\* The invariant is inductive.
LEMMA InvStep == Inv /\ [Next]_vars => Inv'
  BY TypeStep, CountStep, PoolStep, StopStep DEF Inv

\* Every reachable state of the scheduler satisfies the invariant.
THEOREM Invariance == Spec => []Inv
  BY InitInv, InvStep, PTL DEF Spec

\* The scheduler's variables keep their types: in particular every result
\* committed cites a position of the log.
THEOREM TypeCorrect == Spec => []TypeOK
<1>1. Inv => TypeOK
  BY DEF Inv
<1> QED BY <1>1, Invariance, PTL

\* No more bodies run at once than maxParallelToolCalls allows.
THEOREM PoolNeverOverrun == Spec => []PoolBound
<1>1. Inv => PoolBound
  <2> SUFFICES ASSUME Inv PROVE PoolBound
    OBVIOUS
  <2>1. Running \in SUBSET inFlight
    BY DEF Running
  <2>2. /\ IsFiniteSet(inFlight) /\ Cardinality(inFlight) <= MaxParallel
    BY DEF Inv, PoolInv
  <2>3. /\ IsFiniteSet(Running)
        /\ Cardinality(Running) <= Cardinality(inFlight)
    BY <2>1, <2>2, FS_Subset
  <2>4. Cardinality(Running) \in Nat /\ Cardinality(inFlight) \in Nat
    BY <2>2, <2>3, FS_CardinalityType
  <2> QED BY <2>2, <2>3, <2>4 DEF PoolBound
<1> QED BY <1>1, Invariance, PTL

\* Nothing starts behind a stop: an abort or a failed stage lets the started
\* calls finish and adds none.
THEOREM NothingBehindStop == Spec => NoStartAfterStop
<1>1. Inv /\ [Next]_vars => NothingStarts
  BY StopsStarting DEF Inv
<1> QED BY <1>1, Invariance, PTL DEF Spec, NoStartAfterStop
=============================================================================
