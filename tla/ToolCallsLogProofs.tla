------------------------- MODULE ToolCallsLogProofs --------------------------
(***************************************************************************)
(* What the log of an assistant step holds, for any number of calls and    *)
(* any pool: calls and results in model order, the barrier of an exclusive *)
(* call, and a pair for every call when the step returns.  The log is      *)
(* append-only, so each is proved from what the log remembers: GroupInv    *)
(* relates commits, starts and groups, and LogInv relates them to the log. *)
(***************************************************************************)
EXTENDS ToolCallsProofs

USE ToolCallsAssumption

\* A started call without a result in the log is in the pool, has its result
\* in a slot, or is being prepared.
Underway(i) == i \in inFlight \/ slot[i] # "none" \/ (pc = "prepare" /\ i = started)

\* Commits follow starts and stay ahead of the groups consumed; an exclusive
\* group is one call; between groups, and where the pool is filled, nothing that
\* could be committed is left behind.
GroupInv ==
  /\ committed <= started /\ started <= group
  /\ pc # "done" => base <= committed
  /\ pc \notin {"classify", "done", "failed"} => (mode = "exclusive" => group = base + 1)
  /\ pc = "classify" => committed = started /\ ~conclude.group
  /\ pc = "fill" => ~Ready
  /\ ~failed => \A i \in settled : slot[i] # "none"
  /\ ~failed => \A i \in (committed + 1)..started : Underway(i)

\* The log holds a result for every committed call and, until the step is over,
\* nothing but started calls and committed results; an exclusive call is of a
\* group consumed or the only one of its group; a conclusion is remembered.
LogInv ==
  /\ \A i \in 1..committed : \E n \in Indices("result") : log[n].call = i
  /\ pc # "done" =>
       /\ \A n \in Indices("call") :
            /\ log[n].call <= started
            /\ log[n].ran = "exclusive" => log[n].call <= base \/ group = base + 1
       /\ \A n \in Indices("result") : log[n].call <= committed /\ ~log[n].skipped
       /\ conclude.step \/ conclude.group
            <=> \E n \in Indices("result") : log[n].concludes

FullInv == Inv /\ GroupInv /\ LogInv /\ ModelOrder /\ ExclusiveBarrier /\ PairedOnReturn

-----------------------------------------------------------------------------
(* Steps that write the log *)

\* Where everything that was started is committed, the scheduler may end a group.
LEMMA AllCommitted ==
  ASSUME TypeOK, CountInv, StopInv, GroupInv, pc = "fill",
         inFlight = {} \/ started = base
  PROVE  committed = started
<1>1. /\ base \in 0..NumCalls /\ group \in 0..NumCalls
      /\ committed \in 0..NumCalls /\ started \in 0..NumCalls
      /\ slot \in [Calls -> {"none", "post", "final"}]
      /\ inFlight \in SUBSET Calls
  BY DEF TypeOK
<1>2. committed <= started /\ base <= committed /\ started <= group /\ ~Ready /\ ~failed
  BY DEF GroupInv, StopInv
<1>3. CASE started = base
  BY <1>1, <1>2, <1>3
<1>4. CASE inFlight = {}
  <2> SUFFICES ASSUME committed < started PROVE FALSE
    BY <1>1, <1>2
  <2>1. committed + 1 \in (committed + 1)..started
    BY <1>1
  <2>2. slot[committed + 1] # "none"
    BY <1>2, <1>4, <2>1 DEF GroupInv, Underway
  <2> QED BY <1>1, <1>2, <2>2 DEF Ready
<1> QED BY <1>3, <1>4

\* Appending an event to the log.
LEMMA AppendedLog ==
  ASSUME log \in Seq(Event), NEW e \in Event, log' = Append(log, e)
  PROVE  /\ Len(log) \in Nat /\ Len(log') = Len(log) + 1
         /\ log'[Len(log) + 1] = e
         /\ \A n \in 1..Len(log) : log'[n] = log[n]
  BY AppendProperties

\* What the scheduler writes when a call starts: all it started before is in the
\* log, and behind an exclusive call it never starts another one.
LEMMA StartEffect ==
  ASSUME TypeOK, CountInv, StopInv, GroupInv, LogInv, NEW m \in Mode, StartCall(m)
  PROVE  \E ran \in Mode :
           /\ log' = Append(log, CallEvent(started + 1, ran))
           /\ CallEvent(started + 1, ran) \in Event
           /\ started' = started + 1 /\ started + 1 \in Calls
           /\ pc' = "prepare"
           /\ ran = "exclusive" => committed = started /\ group' = base' + 1
           /\ \A n \in Indices("call") : log[n].ran = "exclusive" => log[n].call <= base
<1> DEFINE ran == IF nextToStart = base + 1 THEN mode ELSE m
<1>1. /\ base \in 0..NumCalls /\ group \in 0..NumCalls /\ mode \in Mode
      /\ nextToStart \in 1..(NumCalls + 1)
      /\ committed \in 0..NumCalls /\ started \in 0..NumCalls
  BY DEF TypeOK
<1>2. /\ nextToStart = started + 1 /\ nextToStart <= group /\ Reclassified(m)
      /\ pc = "fill" /\ started' = nextToStart /\ pc' = "prepare"
      /\ UNCHANGED <<base, group, committed>>
      /\ log' = Append(log, CallEvent(nextToStart, ran))
  BY DEF StartCall, MayStart, CountInv, Behind, schedVars
<1>3. ran \in Mode /\ started + 1 \in Calls
  BY <1>1, <1>2 DEF Calls
<1>4. ASSUME ran = "exclusive"
      PROVE  committed = started /\ group' = base' + 1
  <2>1. base <= started
    BY <1>1, <1>2 DEF GroupInv
  <2>2. mode = "exclusive" => group = base + 1
    BY <1>2 DEF GroupInv
  <2>3. CASE nextToStart = base + 1
    <3>1. started = base /\ mode = "exclusive"
      BY <1>1, <1>2, <1>4, <2>3
    <3> QED BY <1>2, <2>2, <3>1, AllCommitted
  <2>4. CASE nextToStart # base + 1
    <3>1. nextToStart > base + 1 /\ m = "exclusive"
      BY <1>1, <1>2, <1>4, <2>1, <2>4
    <3>2. mode = "exclusive"
      BY <1>1, <1>2, <3>1 DEF Reclassified, Mode
    <3> QED BY <1>1, <1>2, <2>2, <3>1, <3>2
  <2> QED BY <2>3, <2>4
<1>5. ASSUME NEW n \in Indices("call"), log[n].ran = "exclusive"
      PROVE  log[n].call <= base
  <2>1. log[n].call <= started /\ (log[n].call <= base \/ group = base + 1)
    BY <1>2, <1>5 DEF LogInv
  <2>2. n \in 1..Len(log) /\ log[n].type = "call"
    BY DEF Indices
  <2>3. log[n].call \in Calls
    BY <2>2 DEF TypeOK, Event
  <2> QED BY <1>1, <1>2, <2>1, <2>3 DEF Calls
<1> HIDE DEF ran
<1>6. CallEvent(started + 1, ran) \in Event
  BY <1>3, EventTypes
<1> QED BY <1>1, <1>2, <1>3, <1>4, <1>5, <1>6

\* What it writes when it commits: the result of the next call in model order,
\* citing that call's event.
LEMMA CommitEffect ==
  ASSUME TypeOK, CountInv, Ready, NEW b \in BOOLEAN, Commit(b)
  PROVE  \E q \in 1..Len(log) :
           /\ log' = Append(log, ResultEvent(committed + 1, q, FALSE, b))
           /\ ResultEvent(committed + 1, q, FALSE, b) \in Event
           /\ log[q].type = "call" /\ log[q].call = committed + 1
           /\ committed' = committed + 1 /\ committed + 1 \in Calls
           /\ committed + 1 <= started
           /\ conclude'.step = conclude.step
           /\ conclude'.group = (conclude.group \/ b)
<1>1. committed + 1 \in Calls /\ committed + 1 <= started /\ committed + 1 \in 1..started
  BY DEF TypeOK, Ready, CountInv, Calls
<1>2. \E n \in 1..Len(log) : log[n].type = "call" /\ log[n].call = committed + 1
  BY <1>1 DEF CountInv
<1>3. /\ CallSeq(committed + 1) \in 1..Len(log)
      /\ log[CallSeq(committed + 1)].type = "call"
      /\ log[CallSeq(committed + 1)].call = committed + 1
  BY <1>2 DEF CallSeq
<1>4. ResultEvent(committed + 1, CallSeq(committed + 1), FALSE, b) \in Event
  <2>1. CallSeq(committed + 1) \in Nat
    BY <1>3
  <2> QED BY <1>1, <2>1, EventTypes
<1>5. /\ conclude'.step = conclude.step
      /\ conclude'.group = (conclude.group \/ b)
  BY DEF Commit, TypeOK
<1> QED BY <1>1, <1>3, <1>4, <1>5 DEF Commit

\* The pairs made up for the calls behind `from`: a call event at every odd place
\* and its result right behind it.
LEMMA SkippedAt ==
  ASSUME NEW from \in 0..NumCalls, log \in Seq(Event)
  PROVE  /\ Len(SkippedPairs(from)) = 2 * (NumCalls - from)
         /\ \A j \in 1..(NumCalls - from) :
              /\ SkippedPairs(from)[2 * j - 1] = CallEvent(from + j, "skipped")
              /\ SkippedPairs(from)[2 * j]
                   = ResultEvent(from + j, Len(log) + 2 * j - 1, TRUE, FALSE)
         /\ \A n \in 1..(2 * (NumCalls - from)) :
              \E j \in 1..(NumCalls - from) : n = 2 * j - 1 \/ n = 2 * j
<1> DEFINE len == 2 * (NumCalls - from)
           S == SkippedPairs(from)
<1>1. len \in Nat /\ Len(log) \in Nat
  OBVIOUS
<1>2. /\ Len(S) = len
      /\ \A n \in 1..len :
           S[n] = IF n % 2 = 1
                  THEN CallEvent(from + (n + 1) \div 2, "skipped")
                  ELSE ResultEvent(from + (n + 1) \div 2, Len(log) + n - 1, TRUE, FALSE)
  BY <1>1 DEF SkippedPairs
<1> HIDE DEF S
<1>3. ASSUME NEW j \in 1..(NumCalls - from)
      PROVE  /\ S[2 * j - 1] = CallEvent(from + j, "skipped")
             /\ S[2 * j] = ResultEvent(from + j, Len(log) + 2 * j - 1, TRUE, FALSE)
  <2>1. 2 * j - 1 \in 1..len /\ 2 * j \in 1..len
    OBVIOUS
  <2> DEFINE odd == 2 * j - 1
             even == 2 * j
  <2>2. /\ odd \in 1..len /\ even \in 1..len /\ odd % 2 = 1 /\ even % 2 # 1
        /\ (odd + 1) \div 2 = j /\ (even + 1) \div 2 = j
    BY <2>1
  <2> HIDE DEF odd, even
  <2>3. /\ S[odd] = CallEvent(from + j, "skipped")
        /\ S[even] = ResultEvent(from + j, Len(log) + even - 1, TRUE, FALSE)
    BY <1>2, <2>2, Zenon
  <2> QED BY <2>3 DEF odd, even
<1>4. ASSUME NEW n \in 1..len
      PROVE  \E j \in 1..(NumCalls - from) : n = 2 * j - 1 \/ n = 2 * j
  <2>1. (n + 1) \div 2 \in 1..(NumCalls - from)
    OBVIOUS
  <2>2. n = 2 * ((n + 1) \div 2) - 1 \/ n = 2 * ((n + 1) \div 2)
    OBVIOUS
  <2> QED BY <2>1, <2>2
<1> QED BY <1>2, <1>3, <1>4 DEF S

\* A step writes the log when it starts a call, commits a result or makes up the
\* pairs of an aborted step, forms or ends a group, or touches none of that.
LEMMA LogSteps ==
  ASSUME TypeOK, CountInv, [Next]_vars
  PROVE  \/ \E m \in Mode : StartCall(m)
         \/ /\ Ready /\ UNCHANGED <<base, group, mode, started>>
            /\ pc # "done" /\ pc' \in {"commitFill", "commitRace"}
            /\ \E b \in BOOLEAN : Commit(b)
         \/ EndAborted
         \/ \E m \in Mode : Classify(m) \/ EndGroup(m)
         \/ Return
         \/ /\ UNCHANGED <<log, started, committed, base, group, mode, conclude>>
            /\ pc' = "done" <=> pc = "done"
<1> USE DEF schedVars
<1>1. ASSUME NEW m \in Mode, StopFill(m)
      PROVE  UNCHANGED <<log, started, committed, base, group, mode, conclude>>
               /\ pc # "done" /\ pc' # "done"
  BY <1>1 DEF StopFill
<1>2. CASE \/ Started \/ Committed
           \/ ClassifyFailed \/ StartFailed \/ PrepareFailed \/ FinalizeFailed
  BY <1>2, CommitPoints
     DEF Started, Committed, ClassifyFailed, StartFailed, PrepareFailed, FinalizeFailed, Fail
<1>3. CASE Finalize
  <2>1. pc' # "done" /\ pc # "done"
    BY <1>3, CommitPoints DEF Finalize
  <2> QED BY <1>3, <2>1 DEF Finalize
<1>4. CASE Drained \/ Abort
  BY <1>4 DEF Drained, Abort
<1>5. ASSUME NEW b \in BOOLEAN, CommitFinal(b)
      PROVE  /\ Ready /\ UNCHANGED <<base, group, mode, started>>
             /\ pc # "done" /\ pc' \in {"commitFill", "commitRace"} /\ Commit(b)
  BY <1>5, CommitPoints DEF CommitFinal
<1>6. ASSUME NEW b \in BOOLEAN, Finalized(b)
      PROVE  /\ Ready /\ UNCHANGED <<base, group, mode, started>>
             /\ pc # "done" /\ pc' \in {"commitFill", "commitRace"} /\ Commit(b)
  <2>1. pc # "done" /\ pc' \in {"commitFill", "commitRace"} /\ Ready
    BY <1>6, CommitPoints DEF Finalized, CountInv
  <2> QED BY <1>6, <2>1 DEF Finalized
<1>7. ASSUME NEW i \in Calls, Race(i)
      PROVE  UNCHANGED <<log, started, committed, base, group, mode, conclude>>
               /\ pc # "done" /\ pc' # "done"
  BY <1>7 DEF Race, Fail
<1>8. ASSUME NEW kind \in {"dispatch", "post", "final"}, Prepared(kind)
      PROVE  UNCHANGED <<log, started, committed, base, group, mode, conclude>>
               /\ pc # "done" /\ pc' # "done"
  BY <1>8 DEF Prepared
<1>9. ASSUME NEW i \in Calls, Body(i)
      PROVE  UNCHANGED <<log, started, committed, base, group, mode, conclude, pc>>
  BY <1>9 DEF Body, DispatchFailed, Settled
<1>10. CASE UNCHANGED vars
  BY <1>10 DEF vars
<1> QED BY <1>1, <1>2, <1>3, <1>4, <1>5, <1>6, <1>7, <1>8, <1>9, <1>10
        DEF Next, Scheduler, Stages

-----------------------------------------------------------------------------
(* The groups *)

\* Every step keeps commits behind starts and starts inside their group.
LEMMA GroupStep ==
  ASSUME TypeOK, CountInv, StopInv, GroupInv, [Next]_vars
  PROVE  GroupInv'
<1> USE DEF GroupInv, Underway, Calls, schedVars, Ready
<1>0. /\ base \in 0..NumCalls /\ group \in 0..NumCalls /\ mode \in Mode
      /\ nextToStart \in 1..(NumCalls + 1)
      /\ committed \in 0..NumCalls /\ started \in 0..NumCalls
      /\ slot \in [Calls -> {"none", "post", "final"}]
      /\ inFlight \in SUBSET Calls /\ settled \in SUBSET inFlight
      /\ conclude \in [group : BOOLEAN, step : BOOLEAN]
  BY DEF TypeOK
<1> USE <1>0
<1>1. ASSUME NEW m \in Mode, Classify(m) PROVE GroupInv'
  <2>1. /\ base = started /\ committed = started /\ base < NumCalls
        /\ \A i \in Calls : slot[i] # "none" => i <= started
    BY <1>1 DEF Classify, CountInv
  <2> QED BY <1>1, <2>1 DEF Classify, Mode
<1>2. ASSUME NEW m \in Mode, StartCall(m) PROVE GroupInv'
  <2>1. nextToStart = started + 1 /\ nextToStart <= group
    BY <1>2 DEF StartCall, MayStart, CountInv, Behind
  <2> QED BY <1>2, <2>1 DEF StartCall
<1>3. ASSUME NEW m \in Mode, StopFill(m) PROVE GroupInv'
  BY <1>3 DEF StopFill
<1>4. ASSUME NEW m \in Mode, EndGroup(m) PROVE GroupInv'
  <2>1. committed = started
    BY <1>4, AllCommitted DEF EndGroup
  <2>2. conclude'.group = FALSE
    BY <1>4 DEF EndGroup
  <2> QED BY <1>4, <2>1, <2>2 DEF EndGroup, Consumed
<1>5. CASE Return
  BY <1>5 DEF Return
<1>6. CASE EndAborted
  BY <1>6 DEF EndAborted
<1>7. CASE Started
  BY <1>7 DEF Started, Fail
<1>8. CASE Committed
  BY <1>8, CommitPoints DEF Committed, Fail
<1>9. CASE Finalize
  <2>1. pc' \in {"finalizeFill", "finalizeRace"} /\ pc \in {"commitFill", "commitRace"}
    BY <1>9, CommitPoints DEF Finalize
  <2> QED BY <1>9, <2>1 DEF Finalize
<1>10. CASE Drained
  BY <1>10 DEF Drained
<1>11. ASSUME NEW b \in BOOLEAN, CommitFinal(b) PROVE GroupInv'
  <2>1. pc \in {"commitFill", "commitRace"} /\ committed + 1 <= started
    BY <1>11, CommitPoints DEF CommitFinal, CountInv
  <2> QED BY <1>11, <2>1 DEF CommitFinal, Commit
<1>12. ASSUME NEW i \in Calls, Race(i) PROVE GroupInv'
  BY <1>12 DEF Race, Remaining, Fail
<1>13. ASSUME NEW kind \in {"dispatch", "post", "final"}, Prepared(kind)
       PROVE  GroupInv'
  <2>1. nextToStart = started /\ pc = "prepare" /\ pc' = "started"
    BY <1>13 DEF Prepared, CountInv
  <2> QED BY <1>13, <2>1 DEF Prepared
<1>14. CASE ClassifyFailed \/ StartFailed \/ PrepareFailed
  <2>1. CASE ClassifyFailed
    BY <2>1 DEF ClassifyFailed
  <2>2. CASE StartFailed
    BY <2>2 DEF StartFailed, Fail
  <2>3. CASE PrepareFailed
    BY <2>3 DEF PrepareFailed, Fail
  <2> QED BY <1>14, <2>1, <2>2, <2>3
<1>15. ASSUME NEW b \in BOOLEAN, Finalized(b) PROVE GroupInv'
  <2>1. /\ pc \in {"finalizeFill", "finalizeRace"} /\ pc' \in {"commitFill", "commitRace"}
        /\ committed + 1 <= started
    BY <1>15, CommitPoints DEF Finalized, CountInv
  <2> QED BY <1>15, <2>1 DEF Finalized, Commit
<1>16. CASE FinalizeFailed
  BY <1>16, CommitPoints DEF FinalizeFailed, Fail
<1>17. ASSUME NEW i \in Calls, DispatchFailed(i) PROVE GroupInv'
  BY <1>17 DEF DispatchFailed, Suspended
<1>18. ASSUME NEW i \in Calls, NEW kind \in {"post", "final"}, Settled(i, kind)
       PROVE  GroupInv'
  <2>1. /\ \A k \in Calls : slot'[k] # "none" <=> slot[k] # "none" \/ k = i
        /\ settled' = settled \cup {i} /\ pc # "fill"
    BY <1>18 DEF Settled, Suspended
  <2> QED BY <1>18, <2>1 DEF Settled
<1>19. CASE Abort
  BY <1>19 DEF Abort, Suspended
<1>20. CASE UNCHANGED vars
  BY <1>20 DEF vars
<1> HIDE DEF GroupInv
<1> QED BY <1>1, <1>2, <1>3, <1>4, <1>5, <1>6, <1>7, <1>8, <1>9, <1>10, <1>11,
           <1>12, <1>13, <1>14, <1>15, <1>16, <1>17, <1>18, <1>19, <1>20
        DEF Next, Scheduler, Stages, Body

-----------------------------------------------------------------------------
(* The order of the log *)

\* The step that ends an aborted step appends a call and a result for each call
\* that never started, once every started call has its result.
LEMMA EndAbortedEffect ==
  ASSUME TypeOK, CountInv, StopInv, GroupInv, EndAborted
  PROVE  /\ committed = started /\ pc # "done" /\ pc' = "done"
         /\ UNCHANGED <<started, committed>>
         /\ conclude'.step = (conclude.step \/ conclude.group)
         /\ Len(log) \in Nat /\ started \in 0..NumCalls
         /\ Len(log') = Len(log) + 2 * (NumCalls - started)
         /\ \A n \in 1..Len(log) : log'[n] = log[n]
         /\ \A j \in 1..(NumCalls - started) :
              /\ log'[Len(log) + 2 * j - 1] = CallEvent(started + j, "skipped")
              /\ log'[Len(log) + 2 * j]
                   = ResultEvent(started + j, Len(log) + 2 * j - 1, TRUE, FALSE)
         /\ \A n \in 1..Len(log') :
              \/ n \in 1..Len(log)
              \/ \E j \in 1..(NumCalls - started) :
                   n = Len(log) + 2 * j - 1 \/ n = Len(log) + 2 * j
<1> DEFINE S == SkippedPairs(started)
           l == Len(log)
<1>1. /\ log \in Seq(Event) /\ l \in Nat /\ started \in 0..NumCalls
      /\ committed = started
  BY AllCommitted DEF TypeOK, EndAborted
<1>2. /\ log' = log \o S /\ pc # "done" /\ pc' = "done"
      /\ UNCHANGED <<started, committed>>
      /\ conclude'.step = (conclude.step \/ conclude.group)
  BY DEF EndAborted
<1>3. S \in Seq(Event)
  BY <1>1, SkippedPairsType
<1>4. /\ Len(S) = 2 * (NumCalls - started)
      /\ \A j \in 1..(NumCalls - started) :
           /\ S[2 * j - 1] = CallEvent(started + j, "skipped")
           /\ S[2 * j] = ResultEvent(started + j, l + 2 * j - 1, TRUE, FALSE)
      /\ \A n \in 1..Len(S) :
           \E j \in 1..(NumCalls - started) : n = 2 * j - 1 \/ n = 2 * j
  BY <1>1, SkippedAt
<1> HIDE DEF S
<1>5. /\ Len(log') = l + Len(S)
      /\ \A n \in 1..l : log'[n] = log[n]
      /\ \A n \in 1..Len(S) : log'[l + n] = S[n]
  BY <1>1, <1>2, <1>3, ConcatProperties
<1>6. ASSUME NEW j \in 1..(NumCalls - started)
      PROVE  log'[l + 2 * j - 1] = S[2 * j - 1] /\ log'[l + 2 * j] = S[2 * j]
  <2>1. /\ 2 * j - 1 \in 1..Len(S) /\ 2 * j \in 1..Len(S)
        /\ l + (2 * j - 1) = l + 2 * j - 1
    BY <1>1, <1>4
  <2> QED BY <1>5, <2>1
<1>7. ASSUME NEW n \in 1..Len(log'), n \notin 1..l
      PROVE  \E j \in 1..(NumCalls - started) : n = l + 2 * j - 1 \/ n = l + 2 * j
  <2>1. n - l \in 1..Len(S)
    BY <1>1, <1>4, <1>5, <1>7
  <2>2. PICK j \in 1..(NumCalls - started) : n - l = 2 * j - 1 \/ n - l = 2 * j
    BY <1>4, <2>1
  <2> QED BY <1>1, <2>2
<1> QED BY <1>1, <1>2, <1>4, <1>5, <1>6, <1>7

\* An event behind all of its kind keeps the log in model order, if a result
\* cites its call.
LEMMA OrderAppended ==
  ASSUME log \in Seq(Event), ModelOrder, NEW e \in Event, log' = Append(log, e),
         \A n \in 1..Len(log) : log[n].type = e.type => log[n].call < e.call,
         e.type = "result" => /\ e.cites \in 1..Len(log)
                              /\ log[e.cites].type = "call"
                              /\ log[e.cites].call = e.call
  PROVE  ModelOrder'
<1>1. /\ Len(log) \in Nat /\ Len(log') = Len(log) + 1
      /\ log'[Len(log) + 1] = e
      /\ \A n \in 1..Len(log) : log'[n] = log[n]
  BY AppendedLog
<1>2. ASSUME NEW m \in 1..Len(log'), NEW n \in 1..Len(log'),
             m < n, log'[m].type = log'[n].type
      PROVE  log'[m].call < log'[n].call
  <2>1. m \in 1..Len(log)
    BY <1>1, <1>2
  <2>2. CASE n \in 1..Len(log)
    BY <1>1, <1>2, <2>1, <2>2 DEF ModelOrder
  <2>3. CASE n = Len(log) + 1
    BY <1>1, <1>2, <2>1, <2>3
  <2> QED BY <1>1, <2>2, <2>3
<1>3. ASSUME NEW n \in 1..Len(log'), log'[n].type = "result"
      PROVE  /\ log'[n].cites \in 1..(n - 1)
             /\ log'[log'[n].cites].type = "call"
             /\ log'[log'[n].cites].call = log'[n].call
  <2>1. CASE n \in 1..Len(log)
    <3>1. /\ log[n].cites \in 1..(n - 1) /\ log[log[n].cites].type = "call"
          /\ log[log[n].cites].call = log[n].call
      BY <1>1, <1>3, <2>1 DEF ModelOrder, Indices
    <3>2. log[n].cites \in 1..Len(log)
      BY <1>1, <2>1, <3>1
    <3> QED BY <1>1, <2>1, <3>1, <3>2
  <2>2. CASE n = Len(log) + 1
    BY <1>1, <1>3, <2>2
  <2> QED BY <1>1, <2>1, <2>2
<1> QED BY <1>2, <1>3 DEF ModelOrder, Indices

\* Every step keeps the log in model order.
LEMMA OrderStep ==
  ASSUME TypeOK, CountInv, StopInv, GroupInv, LogInv, ModelOrder, [Next]_vars
  PROVE  ModelOrder'
<1>0. /\ log \in Seq(Event) /\ started \in 0..NumCalls /\ committed \in 0..NumCalls
      /\ Len(log) \in Nat
      /\ \A n \in 1..Len(log) : log[n] \in Event
      /\ \A n \in 1..Len(log) : log[n].call \in Calls
  BY DEF TypeOK, Event
<1>1. ASSUME NEW m \in Mode, StartCall(m) PROVE ModelOrder'
  <2>1. PICK ran \in Mode :
          /\ log' = Append(log, CallEvent(started + 1, ran))
          /\ CallEvent(started + 1, ran) \in Event
    BY <1>1, StartEffect
  <2>2. \A n \in 1..Len(log) : log[n].type = "call" => log[n].call <= started
    BY <1>1 DEF LogInv, Indices, StartCall
  <2> DEFINE e == CallEvent(started + 1, ran)
  <2>3. e.type = "call" /\ e.call = started + 1
    BY DEF CallEvent
  <2>4. e \in Event /\ log' = Append(log, e)
    BY <2>1
  <2> HIDE DEF e
  <2>5. \A n \in 1..Len(log) : log[n].type = e.type => log[n].call < e.call
    BY <1>0, <2>2, <2>3 DEF Calls
  <2> QED BY <1>0, <2>3, <2>4, <2>5, OrderAppended
<1>2. ASSUME Ready, NEW b \in BOOLEAN, Commit(b), pc # "done" PROVE ModelOrder'
  <2>1. PICK q \in 1..Len(log) :
          /\ log' = Append(log, ResultEvent(committed + 1, q, FALSE, b))
          /\ ResultEvent(committed + 1, q, FALSE, b) \in Event
          /\ log[q].type = "call" /\ log[q].call = committed + 1
    BY <1>2, CommitEffect
  <2>2. \A n \in 1..Len(log) : log[n].type = "result" => log[n].call <= committed
    BY <1>2 DEF LogInv, Indices
  <2> DEFINE e == ResultEvent(committed + 1, q, FALSE, b)
  <2>3. e.type = "result" /\ e.call = committed + 1 /\ e.cites = q
    BY DEF ResultEvent
  <2>4. e \in Event /\ log' = Append(log, e)
    BY <2>1
  <2> HIDE DEF e
  <2>5. \A n \in 1..Len(log) : log[n].type = e.type => log[n].call < e.call
    BY <1>0, <2>2, <2>3 DEF Calls
  <2> QED BY <1>0, <2>1, <2>3, <2>4, <2>5, OrderAppended
<1>3. CASE EndAborted
  <2> DEFINE l == Len(log)
             more == NumCalls - started
  <2>1. /\ committed = started /\ pc # "done"
        /\ Len(log') = l + 2 * more
        /\ \A n \in 1..l : log'[n] = log[n]
        /\ \A j \in 1..more :
             /\ log'[l + 2 * j - 1] = CallEvent(started + j, "skipped")
             /\ log'[l + 2 * j] = ResultEvent(started + j, l + 2 * j - 1, TRUE, FALSE)
        /\ \A n \in 1..Len(log') :
             n \in 1..l \/ \E j \in 1..more : n = l + 2 * j - 1 \/ n = l + 2 * j
    BY <1>3, EndAbortedEffect
  <2>2. \A j \in 1..more :
          /\ log'[l + 2 * j - 1].type = "call" /\ log'[l + 2 * j - 1].call = started + j
          /\ log'[l + 2 * j].type = "result" /\ log'[l + 2 * j].call = started + j
          /\ log'[l + 2 * j].cites = l + 2 * j - 1
    <3> TAKE j \in 1..more
    <3>1. /\ log'[l + 2 * j - 1] = CallEvent(started + j, "skipped")
          /\ log'[l + 2 * j] = ResultEvent(started + j, l + 2 * j - 1, TRUE, FALSE)
      BY <2>1
    <3> QED BY <3>1 DEF CallEvent, ResultEvent
  <2>3. \A n \in 1..l : log[n].call \in Nat /\ log[n].call <= started
    <3> SUFFICES ASSUME NEW n \in 1..l PROVE log[n].call \in Nat /\ log[n].call <= started
      OBVIOUS
    <3>1. log[n].type \in {"call", "result"}
      BY <1>0 DEF Event
    <3>2. log[n].type = "call" => log[n].call <= started
      BY <2>1 DEF LogInv, Indices
    <3>3. log[n].type = "result" => log[n].call <= committed
      BY <2>1 DEF LogInv, Indices
    <3> QED BY <1>0, <2>1, <3>1, <3>2, <3>3 DEF Calls
  <2>4. more \in Nat /\ l \in Nat
    BY <1>0
  <2> HIDE DEF l, more
  <2>5. ASSUME NEW m \in 1..Len(log'), NEW n \in 1..Len(log'),
               m < n, log'[m].type = log'[n].type
        PROVE  log'[m].call < log'[n].call
    <3>1. CASE n \in 1..l
      <4>1. m \in 1..l
        BY <2>4, <2>5, <3>1
      <4> QED BY <2>1, <2>5, <3>1, <4>1 DEF ModelOrder, l
    <3>2. ASSUME NEW j \in 1..more, n = l + 2 * j - 1 \/ n = l + 2 * j, m \in 1..l
          PROVE  log'[m].call < log'[n].call
      <4>1. log'[n].call = started + j
        BY <2>2, <3>2
      <4>2. log'[m].call \in Nat /\ log'[m].call <= started
        BY <2>1, <2>3, <3>2
      <4> QED BY <1>0, <4>1, <4>2
    <3>3. ASSUME NEW j \in 1..more, n = l + 2 * j - 1 \/ n = l + 2 * j,
                 NEW k \in 1..more, m = l + 2 * k - 1 \/ m = l + 2 * k
          PROVE  log'[m].call < log'[n].call
      <4>1. log'[n].call = started + j /\ log'[m].call = started + k
        BY <2>2, <3>3
      <4>2. j # k
        <5> SUFFICES ASSUME j = k PROVE FALSE
          OBVIOUS
        <5>1. m = l + 2 * j - 1 /\ n = l + 2 * j
          BY <2>4, <2>5, <3>3
        <5> QED BY <2>2, <2>5, <5>1
      <4>3. k < j
        BY <2>4, <2>5, <3>3, <4>2
      <4> QED BY <1>0, <4>1, <4>3
    <3> QED BY <2>1, <3>1, <3>2, <3>3
  <2>6. ASSUME NEW n \in 1..Len(log'), log'[n].type = "result"
        PROVE  /\ log'[n].cites \in 1..(n - 1)
               /\ log'[log'[n].cites].type = "call"
               /\ log'[log'[n].cites].call = log'[n].call
    <3>1. CASE n \in 1..l
      <4>1. /\ log[n].cites \in 1..(n - 1) /\ log[log[n].cites].type = "call"
            /\ log[log[n].cites].call = log[n].call
        BY <2>1, <2>6, <3>1 DEF ModelOrder, Indices, l
      <4>2. log[n].cites \in 1..l
        BY <2>4, <3>1, <4>1
      <4> QED BY <2>1, <3>1, <4>1, <4>2
    <3>2. ASSUME NEW j \in 1..more, n = l + 2 * j - 1 \/ n = l + 2 * j
          PROVE  /\ log'[n].cites \in 1..(n - 1)
                 /\ log'[log'[n].cites].type = "call"
                 /\ log'[log'[n].cites].call = log'[n].call
      <4>1. n = l + 2 * j
        BY <2>2, <2>6, <3>2
      <4>2. log'[n].cites = l + 2 * j - 1 /\ log'[n].call = started + j
        BY <2>2, <4>1
      <4>3. l + 2 * j - 1 \in 1..(n - 1)
        BY <2>4, <4>1
      <4> QED BY <2>2, <4>2, <4>3
    <3> QED BY <2>1, <3>1, <3>2
  <2> QED BY <2>5, <2>6 DEF ModelOrder, Indices
<1>4. CASE UNCHANGED log
  BY <1>4 DEF ModelOrder, Indices
<1>5. ASSUME NEW m \in Mode, Classify(m) \/ EndGroup(m) PROVE UNCHANGED log
  BY <1>5 DEF Classify, EndGroup
<1>6. CASE Return
  BY <1>4, <1>6 DEF Return
<1> QED BY <1>1, <1>2, <1>3, <1>4, <1>5, <1>6, LogSteps

-----------------------------------------------------------------------------
(* What the log remembers *)

\* A new call event adds a call and leaves the results as they were.
LEMMA CallAppended ==
  ASSUME log \in Seq(Event), NEW i, NEW ran, log' = Append(log, CallEvent(i, ran)),
         CallEvent(i, ran) \in Event
  PROVE  /\ Indices("result")' = Indices("result")
         /\ Indices("call")' = Indices("call") \cup {Len(log) + 1}
         /\ \A n \in 1..Len(log) : log'[n] = log[n]
         /\ Len(log) \in Nat /\ Len(log') = Len(log) + 1
         /\ log'[Len(log) + 1].call = i /\ log'[Len(log) + 1].ran = ran
<1> DEFINE e == CallEvent(i, ran)
<1>1. e.type = "call" /\ e.call = i /\ e.ran = ran
  BY DEF CallEvent
<1>2. e \in Event /\ log' = Append(log, e)
  OBVIOUS
<1> HIDE DEF e
<1>3. /\ Len(log) \in Nat /\ Len(log') = Len(log) + 1
      /\ log'[Len(log) + 1] = e
      /\ \A n \in 1..Len(log) : log'[n] = log[n]
  BY <1>2, AppendedLog
<1> QED BY <1>1, <1>3 DEF Indices

\* A new result leaves the calls as they were.
LEMMA ResultAppended ==
  ASSUME log \in Seq(Event), NEW i, NEW q, NEW b,
         log' = Append(log, ResultEvent(i, q, FALSE, b)),
         ResultEvent(i, q, FALSE, b) \in Event
  PROVE  /\ Indices("result")' = Indices("result") \cup {Len(log) + 1}
         /\ Indices("call")' = Indices("call")
         /\ \A n \in 1..Len(log) : log'[n] = log[n]
         /\ Len(log) \in Nat /\ Len(log') = Len(log) + 1
         /\ log'[Len(log) + 1].call = i /\ log'[Len(log) + 1].skipped = FALSE
         /\ log'[Len(log) + 1].concludes = b
<1> DEFINE e == ResultEvent(i, q, FALSE, b)
<1>1. e.type = "result" /\ e.call = i /\ e.skipped = FALSE /\ e.concludes = b
  BY DEF ResultEvent
<1>2. e \in Event /\ log' = Append(log, e)
  OBVIOUS
<1> HIDE DEF e
<1>3. /\ Len(log) \in Nat /\ Len(log') = Len(log) + 1
      /\ log'[Len(log) + 1] = e
      /\ \A n \in 1..Len(log) : log'[n] = log[n]
  BY <1>2, AppendedLog
<1>4. 1..Len(log') = (1..Len(log)) \cup {Len(log) + 1}
  BY <1>3
<1>5. /\ Indices("result")' = Indices("result") \cup {Len(log) + 1}
      /\ Indices("call")' = Indices("call")
  BY <1>1, <1>3, <1>4 DEF Indices
<1> QED BY <1>1, <1>3, <1>5

\* Every step keeps what the log remembers of starts, commits and conclusions.
LEMMA LogStep ==
  ASSUME TypeOK, CountInv, StopInv, GroupInv, LogInv, [Next]_vars
  PROVE  LogInv'
<1> USE DEF LogInv
<1>0. /\ log \in Seq(Event) /\ started \in 0..NumCalls /\ committed \in 0..NumCalls
      /\ Len(log) \in Nat /\ base \in 0..NumCalls /\ group \in 0..NumCalls
      /\ \A n \in 1..Len(log) : log[n].call \in Calls
  BY DEF TypeOK, Event
<1>00. /\ \A n \in Indices("call") : n \in 1..Len(log) /\ log[n].call \in Calls
       /\ \A n \in Indices("result") : n \in 1..Len(log) /\ log[n].call \in Calls
  BY <1>0 DEF Indices
<1>1. ASSUME NEW m \in Mode, StartCall(m) PROVE LogInv'
  <2>1. PICK ran \in Mode :
          /\ log' = Append(log, CallEvent(started + 1, ran))
          /\ CallEvent(started + 1, ran) \in Event
          /\ started' = started + 1
          /\ ran = "exclusive" => committed = started /\ group' = base' + 1
          /\ \A n \in Indices("call") : log[n].ran = "exclusive" => log[n].call <= base
    BY <1>1, StartEffect
  <2>2. pc # "done" /\ UNCHANGED <<base, group, committed, conclude>>
    BY <1>1 DEF StartCall, schedVars
  <2>3. /\ Indices("result")' = Indices("result")
        /\ Indices("call")' = Indices("call") \cup {Len(log) + 1}
        /\ \A n \in 1..Len(log) : log'[n] = log[n]
        /\ log'[Len(log) + 1].call = started + 1 /\ log'[Len(log) + 1].ran = ran
    BY <1>0, <2>1, CallAppended
  <2>4. \A n \in Indices("call") \cup Indices("result") : log'[n] = log[n]
    BY <1>00, <2>3
  <2>5. ASSUME NEW n \in Indices("call")'
        PROVE  /\ log'[n].call <= started'
               /\ log'[n].ran = "exclusive" => log'[n].call <= base' \/ group' = base' + 1
    <3>1. CASE n = Len(log) + 1
      BY <1>0, <2>1, <2>3, <3>1
    <3>2. CASE n \in Indices("call")
      <4>1. /\ log[n].call <= started /\ log[n].call \in Calls
            /\ log[n].ran = "exclusive" => log[n].call <= base
        BY <1>00, <2>1, <2>2, <3>2
      <4>2. log[n].call <= started'
        BY <1>0, <2>1, <4>1 DEF Calls
      <4> QED BY <2>2, <2>4, <3>2, <4>1, <4>2
    <3> QED BY <2>3, <3>1, <3>2
  <2>6. /\ \A n \in Indices("result")' : log'[n].call <= committed' /\ ~log'[n].skipped
        /\ conclude'.step \/ conclude'.group
             <=> \E n \in Indices("result")' : log'[n].concludes
    BY <2>2, <2>3, <2>4
  <2> QED BY <2>2, <2>3, <2>4, <2>5, <2>6
<1>2. ASSUME Ready, NEW b \in BOOLEAN, Commit(b), pc # "done",
             UNCHANGED <<base, group, mode, started>>
      PROVE  LogInv'
  <2>1. PICK q \in 1..Len(log) :
          /\ log' = Append(log, ResultEvent(committed + 1, q, FALSE, b))
          /\ ResultEvent(committed + 1, q, FALSE, b) \in Event
          /\ committed' = committed + 1
          /\ conclude'.step = conclude.step
          /\ conclude'.group = (conclude.group \/ b)
    BY <1>2, CommitEffect
  <2>2. /\ Indices("result")' = Indices("result") \cup {Len(log) + 1}
        /\ Indices("call")' = Indices("call")
        /\ \A n \in 1..Len(log) : log'[n] = log[n]
        /\ log'[Len(log) + 1].call = committed + 1
        /\ log'[Len(log) + 1].skipped = FALSE
        /\ log'[Len(log) + 1].concludes = b
    BY <1>0, <2>1, ResultAppended
  <2>3. ASSUME NEW i \in 1..(committed')
        PROVE  \E n \in Indices("result")' : log'[n].call = i
    <3>1. CASE i = committed + 1
      BY <2>2, <3>1
    <3>2. CASE i # committed + 1
      <4>1. i \in 1..committed
        BY <1>0, <2>1, <3>2
      <4> QED BY <1>00, <2>2, <4>1
    <3> QED BY <3>1, <3>2
  <2>4. \A n \in Indices("call")' :
          /\ log'[n].call <= started'
          /\ log'[n].ran = "exclusive" => log'[n].call <= base' \/ group' = base' + 1
    BY <1>00, <1>2, <2>2
  <2>5. \A n \in Indices("result")' : log'[n].call <= committed' /\ ~log'[n].skipped
    <3> TAKE n \in Indices("result")'
    <3>1. CASE n = Len(log) + 1
      <4>1. /\ log'[n].call = committed + 1 /\ log'[n].skipped = FALSE
        BY <2>2, <3>1
      <4>2. committed' = committed + 1 /\ committed' \in Nat
        BY <1>0, <2>1
      <4>3. log'[n].call <= committed'
        BY <4>1, <4>2
      <4> QED BY <4>1, <4>3
    <3>2. CASE n \in Indices("result")
      <4>1. /\ log'[n] = log[n] /\ log[n].call \in Calls
            /\ log[n].call <= committed /\ ~log[n].skipped
        BY <1>00, <1>2, <2>2, <3>2
      <4>2. log[n].call <= committed'
        BY <1>0, <2>1, <4>1 DEF Calls
      <4> QED BY <4>1, <4>2
    <3> QED BY <2>2, <3>1, <3>2
  <2>6. conclude'.step \/ conclude'.group
          <=> \E n \in Indices("result")' : log'[n].concludes
    <3>1. conclude.step \/ conclude.group
            <=> \E n \in Indices("result") : log[n].concludes
      BY <1>2
    <3>2. (\E n \in Indices("result")' : log'[n].concludes)
            <=> b \/ \E n \in Indices("result") : log[n].concludes
      BY <1>00, <2>2
    <3> QED BY <2>1, <3>1, <3>2
  <2> QED BY <2>3, <2>4, <2>5, <2>6
<1>3. CASE EndAborted
  <2>1. /\ pc' = "done" /\ committed' = committed /\ Len(log') = Len(log) + 2 * (NumCalls - started)
        /\ \A n \in 1..Len(log) : log'[n] = log[n]
    BY <1>3, EndAbortedEffect
  <2>2. \A n \in Indices("result") : n \in Indices("result")'
    BY <1>0, <1>00, <2>1 DEF Indices
  <2> QED BY <1>00, <2>1, <2>2
<1>4. ASSUME NEW m \in Mode, Classify(m) PROVE LogInv'
  <2>1. base = started /\ pc # "done"
        /\ UNCHANGED <<log, base, started, committed, conclude>>
    BY <1>4 DEF Classify, CountInv
  <2> QED BY <2>1 DEF Indices
<1>5. ASSUME NEW m \in Mode, EndGroup(m) PROVE LogInv'
  <2>1. base' = started /\ pc # "done" /\ UNCHANGED <<log, started, committed>>
    BY <1>5 DEF EndGroup, Consumed
  <2>2. conclude'.step \/ conclude'.group <=> conclude.step \/ conclude.group
    BY <1>5 DEF EndGroup
  <2> QED BY <2>1, <2>2 DEF Indices
<1>6. CASE Return
  BY <1>6 DEF Return, Indices
<1>7. CASE /\ UNCHANGED <<log, started, committed, base, group, mode, conclude>>
           /\ pc' = "done" <=> pc = "done"
  BY <1>7 DEF Indices
<1> HIDE DEF LogInv
<1> QED BY <1>1, <1>2, <1>3, <1>4, <1>5, <1>6, <1>7, LogSteps

-----------------------------------------------------------------------------
(* The barrier of an exclusive call *)

\* The result of a committed call is in the log, behind the call's event.
LEMMA ResultBehind ==
  ASSUME TypeOK, LogInv, ModelOrder, NEW n \in Indices("call"),
         log[n].call <= committed
  PROVE  \E r \in (n + 1)..Len(log) :
           log[r].type = "result" /\ log[r].call = log[n].call
<1>1. /\ Len(log) \in Nat /\ n \in 1..Len(log) /\ log[n].type = "call"
      /\ log[n].call \in Calls /\ committed \in 0..NumCalls
  BY DEF TypeOK, Event, Indices
<1>2. PICK r \in Indices("result") : log[r].call = log[n].call
  <2>1. log[n].call \in 1..committed
    BY <1>1 DEF Calls
  <2>2. \A i \in 1..committed : \E k \in Indices("result") : log[k].call = i
    BY DEF LogInv
  <2> QED BY <2>1, <2>2, Zenon
<1>3. /\ r \in 1..Len(log) /\ log[r].type = "result"
      /\ log[r].cites \in 1..(r - 1) /\ log[log[r].cites].type = "call"
      /\ log[log[r].cites].call = log[r].call
  BY <1>2 DEF ModelOrder, Indices
<1> DEFINE q == log[r].cites
<1>4. q \in 1..Len(log) /\ q < r /\ log[q].type = "call" /\ log[q].call = log[n].call
  BY <1>1, <1>2, <1>3
<1> HIDE DEF q
<1>5. ~(n < q) /\ ~(q < n)
  BY <1>1, <1>4 DEF ModelOrder, Calls
<1>6. n = q
  BY <1>1, <1>4, <1>5
<1> QED BY <1>1, <1>2, <1>3, <1>4, <1>6

\* Every step keeps the barrier of every exclusive call.
LEMMA ExclusiveStep ==
  ASSUME TypeOK, CountInv, StopInv, GroupInv, LogInv, ModelOrder,
         ExclusiveBarrier, [Next]_vars
  PROVE  ExclusiveBarrier'
<1>0. /\ log \in Seq(Event) /\ started \in 0..NumCalls /\ committed \in 0..NumCalls
      /\ Len(log) \in Nat /\ base \in 0..NumCalls
      /\ \A n \in 1..Len(log) : log[n].call \in Calls
  BY DEF TypeOK, Event
<1>00. /\ \A n \in Indices("call") : n \in 1..Len(log) /\ log[n].call \in Calls
       /\ \A n \in Indices("result") : n \in 1..Len(log) /\ log[n].call \in Calls
  BY <1>0 DEF Indices
<1>1. ASSUME NEW m \in Mode, StartCall(m) PROVE ExclusiveBarrier'
  <2> DEFINE l == Len(log)
  <2>1. PICK ran \in Mode :
          /\ log' = Append(log, CallEvent(started + 1, ran))
          /\ CallEvent(started + 1, ran) \in Event
          /\ ran = "exclusive" => committed = started
          /\ \A n \in Indices("call") : log[n].ran = "exclusive" => log[n].call <= base
    BY <1>1, StartEffect
  <2>2. pc # "done" /\ base <= committed
    BY <1>1 DEF StartCall, GroupInv
  <2>3. /\ Indices("result")' = Indices("result")
        /\ Indices("call")' = Indices("call") \cup {l + 1}
        /\ \A n \in 1..l : log'[n] = log[n]
        /\ log'[l + 1].call = started + 1 /\ log'[l + 1].ran = ran
    BY <1>0, <2>1, CallAppended
  <2>4. l \in Nat
    BY <1>0
  <2> HIDE DEF l
  <2>5. ASSUME NEW n \in Indices("call"), log[n].ran = "exclusive"
        PROVE  /\ \A i \in 1..(log'[n].call - 1) :
                    \E k \in 1..(n - 1) : log'[k].type = "result" /\ log'[k].call = i
               /\ \A k \in Indices("call")' : log'[k].call > log'[n].call =>
                    \E r \in (n + 1)..(k - 1) :
                      log'[r].type = "result" /\ log'[r].call = log'[n].call
    <3>1. n \in 1..l /\ log'[n] = log[n] /\ \A k \in 1..(n - 1) : log'[k] = log[k]
      BY <1>00, <2>3, <2>4 DEF l
    <3>2. ASSUME NEW i \in 1..(log[n].call - 1)
          PROVE  \E k \in 1..(n - 1) : log'[k].type = "result" /\ log'[k].call = i
      BY <2>5, <3>1 DEF ExclusiveBarrier
    <3>3. ASSUME NEW k \in Indices("call"), log[k].call > log[n].call
          PROVE  \E r \in (n + 1)..(k - 1) :
                   log'[r].type = "result" /\ log'[r].call = log[n].call
      <4>1. PICK r \in (n + 1)..(k - 1) : log[r].type = "result" /\ log[r].call = log[n].call
        BY <2>5, <3>3 DEF ExclusiveBarrier
      <4>2. k \in 1..l
        BY <1>00 DEF l
      <4>3. r \in 1..l
        BY <2>4, <3>1, <4>2
      <4> QED BY <2>3, <4>1, <4>3
    <3>4. \E r \in (n + 1)..l : log'[r].type = "result" /\ log'[r].call = log[n].call
      <4>1. log[n].call <= committed
        BY <1>0, <1>00, <2>1, <2>2, <2>5 DEF Calls
      <4>2. PICK r \in (n + 1)..l : log[r].type = "result" /\ log[r].call = log[n].call
        BY <4>1, ResultBehind DEF l
      <4>3. r \in 1..l
        BY <2>4, <3>1, <4>2
      <4> QED BY <2>3, <4>2, <4>3
    <3>5. \A k \in Indices("call") : log'[k] = log[k]
      BY <1>00, <2>3 DEF l
    <3>6. l + 1 - 1 = l
      BY <2>4
    <3>7. ASSUME NEW k \in Indices("call")', log'[k].call > log'[n].call
          PROVE  \E r \in (n + 1)..(k - 1) :
                   log'[r].type = "result" /\ log'[r].call = log'[n].call
      <4>1. CASE k \in Indices("call")
        BY <3>1, <3>3, <3>5, <3>7, <4>1
      <4>2. CASE k = l + 1
        <5>1. k - 1 = l
          BY <2>4, <4>2
        <5> QED BY <3>1, <3>4, <5>1
      <4> QED BY <2>3, <4>1, <4>2
    <3> QED BY <3>1, <3>2, <3>7
  <2>6. ASSUME ran = "exclusive"
        PROVE  /\ \A i \in 1..(log'[l + 1].call - 1) :
                    \E k \in 1..l : log'[k].type = "result" /\ log'[k].call = i
               /\ \A k \in Indices("call")' : ~(log'[k].call > log'[l + 1].call)
    <3>0. log'[l + 1].call - 1 = started
      BY <1>0, <2>3
    <3>1. ASSUME NEW i \in 1..started
          PROVE  \E k \in 1..l : log'[k].type = "result" /\ log'[k].call = i
      <4>1. i \in 1..committed
        BY <2>1, <2>6
      <4>2. PICK k \in Indices("result") : log[k].call = i
        BY <4>1 DEF LogInv
      <4>3. k \in 1..l /\ log[k].type = "result"
        BY DEF Indices, l
      <4> QED BY <2>3, <4>2, <4>3
    <3>2. ASSUME NEW k \in Indices("call")' PROVE ~(log'[k].call > log'[l + 1].call)
      <4>1. CASE k = l + 1
        BY <1>0, <2>3, <4>1
      <4>2. CASE k \in Indices("call")
        <5>1. log[k].call <= started /\ log[k].call \in Calls /\ log'[k] = log[k]
          BY <1>00, <2>2, <2>3, <4>2 DEF LogInv, l
        <5> QED BY <1>0, <2>3, <5>1 DEF Calls
      <4> QED BY <2>3, <4>1, <4>2
    <3> QED BY <3>0, <3>1, <3>2
  <2>7. ASSUME NEW n \in Indices("call")', log'[n].ran = "exclusive"
        PROVE  /\ \A i \in 1..(log'[n].call - 1) :
                    \E k \in 1..(n - 1) : log'[k].type = "result" /\ log'[k].call = i
               /\ \A k \in Indices("call")' : log'[k].call > log'[n].call =>
                    \E r \in (n + 1)..(k - 1) :
                      log'[r].type = "result" /\ log'[r].call = log'[n].call
    <3>1. CASE n \in Indices("call")
      <4>1. log[n].ran = "exclusive"
        BY <1>00, <2>3, <2>7, <3>1 DEF l
      <4> QED BY <2>5, <3>1, <4>1
    <3>2. CASE n = l + 1
      <4>1. ran = "exclusive" /\ n - 1 = l
        BY <2>3, <2>4, <2>7, <3>2
      <4> QED BY <2>6, <3>2, <4>1
    <3> QED BY <2>3, <3>1, <3>2
  <2> QED BY <2>7 DEF ExclusiveBarrier
<1>2. ASSUME Ready, NEW b \in BOOLEAN, Commit(b) PROVE ExclusiveBarrier'
  <2> DEFINE l == Len(log)
  <2>1. PICK q \in 1..Len(log) :
          /\ log' = Append(log, ResultEvent(committed + 1, q, FALSE, b))
          /\ ResultEvent(committed + 1, q, FALSE, b) \in Event
    BY <1>2, CommitEffect
  <2>2. /\ Indices("call")' = Indices("call")
        /\ \A n \in 1..l : log'[n] = log[n]
    BY <1>0, <2>1, ResultAppended
  <2>3. l \in Nat /\ \A n \in Indices("call") : n \in 1..l
    BY <1>00
  <2> HIDE DEF l
  <2>4. \A n \in Indices("call") : /\ log'[n] = log[n]
                                   /\ \A k \in 1..(n - 1) : log'[k] = log[k]
    BY <2>2, <2>3
  <2>5. \A n, k \in Indices("call") : \A r \in (n + 1)..(k - 1) : log'[r] = log[r]
    BY <2>2, <2>3
  <2> QED BY <2>2, <2>4, <2>5 DEF ExclusiveBarrier
<1>3. CASE EndAborted
  <2> DEFINE l == Len(log)
             more == NumCalls - started
  <2>1. /\ committed = started /\ pc # "done"
        /\ \A n \in 1..l : log'[n] = log[n]
        /\ \A j \in 1..more :
             /\ log'[l + 2 * j - 1] = CallEvent(started + j, "skipped")
             /\ log'[l + 2 * j] = ResultEvent(started + j, l + 2 * j - 1, TRUE, FALSE)
        /\ \A n \in 1..Len(log') :
             n \in 1..l \/ \E j \in 1..more : n = l + 2 * j - 1 \/ n = l + 2 * j
    BY <1>3, EndAbortedEffect
  <2>2. \A j \in 1..more : /\ log'[l + 2 * j].type = "result"
                           /\ log'[l + 2 * j - 1].ran = "skipped"
    <3> TAKE j \in 1..more
    <3>1. /\ log'[l + 2 * j - 1] = CallEvent(started + j, "skipped")
          /\ log'[l + 2 * j] = ResultEvent(started + j, l + 2 * j - 1, TRUE, FALSE)
      BY <2>1
    <3> QED BY <3>1 DEF CallEvent, ResultEvent
  <2>3. l \in Nat /\ more \in Nat
    BY <1>0
  <2>4. \A n \in Indices("call") : n \in 1..l /\ log'[n] = log[n]
    BY <1>00, <2>1
  <2>5. \A n \in Indices("call")' :
          \/ n \in Indices("call")
          \/ log'[n].ran = "skipped" /\ n > l
    <3> SUFFICES ASSUME NEW n \in 1..Len(log'), log'[n].type = "call"
                 PROVE  \/ n \in 1..Len(log) /\ log[n].type = "call"
                        \/ log'[n].ran = "skipped" /\ n > l
      BY DEF Indices
    <3>1. CASE n \in 1..l
      BY <2>1, <3>1
    <3>2. ASSUME NEW j \in 1..more, n = l + 2 * j - 1
          PROVE  log'[n].ran = "skipped" /\ n > l
      BY <2>2, <2>3, <3>2
    <3>3. ASSUME NEW j \in 1..more, n = l + 2 * j PROVE FALSE
      BY <2>2, <3>3
    <3> QED BY <2>1, <3>1, <3>2, <3>3
  <2> HIDE DEF l, more
  <2>6. ASSUME NEW n \in Indices("call")', log'[n].ran = "exclusive"
        PROVE  /\ \A i \in 1..(log'[n].call - 1) :
                    \E k \in 1..(n - 1) : log'[k].type = "result" /\ log'[k].call = i
               /\ \A k \in Indices("call")' : log'[k].call > log'[n].call =>
                    \E r \in (n + 1)..(k - 1) :
                      log'[r].type = "result" /\ log'[r].call = log'[n].call
    <3>1. /\ n \in Indices("call") /\ n \in 1..l /\ log'[n] = log[n]
          /\ log[n].ran = "exclusive"
      BY <2>4, <2>5, <2>6
    <3>2. ASSUME NEW i \in 1..(log[n].call - 1)
          PROVE  \E k \in 1..(n - 1) : log'[k].type = "result" /\ log'[k].call = i
      <4>1. PICK k \in 1..(n - 1) : log[k].type = "result" /\ log[k].call = i
        BY <3>1 DEF ExclusiveBarrier
      <4>2. k \in 1..l
        BY <2>3, <3>1
      <4> QED BY <2>1, <4>1, <4>2 DEF l
    <3>3. ASSUME NEW k \in Indices("call"), log[k].call > log[n].call
          PROVE  \E r \in (n + 1)..(k - 1) :
                   log'[r].type = "result" /\ log'[r].call = log[n].call
      <4>1. PICK r \in (n + 1)..(k - 1) : log[r].type = "result" /\ log[r].call = log[n].call
        BY <3>1, <3>3 DEF ExclusiveBarrier
      <4>2. r \in 1..l
        BY <2>3, <2>4, <3>1
      <4> QED BY <2>1, <4>1, <4>2 DEF l
    <3>4. ASSUME NEW k \in 1..Len(log'), k > l
          PROVE  \E r \in (n + 1)..(k - 1) :
                   log'[r].type = "result" /\ log'[r].call = log[n].call
      <4>1. log[n].call <= committed
        BY <2>1, <3>1 DEF LogInv
      <4>2. PICK r \in (n + 1)..l : log[r].type = "result" /\ log[r].call = log[n].call
        BY <3>1, <4>1, ResultBehind DEF l
      <4>3. r \in 1..l /\ r \in (n + 1)..(k - 1)
        BY <2>3, <3>1, <3>4
      <4> QED BY <2>1, <4>2, <4>3 DEF l
    <3>5. \A k \in Indices("call")' : k \in 1..Len(log')
      BY DEF Indices
    <3> QED BY <2>4, <2>5, <3>1, <3>2, <3>3, <3>4, <3>5
  <2> QED BY <2>6 DEF ExclusiveBarrier
<1>4. CASE UNCHANGED log
  BY <1>4, SMTT(30) DEF ExclusiveBarrier, Indices
<1>5. ASSUME NEW m \in Mode, Classify(m) \/ EndGroup(m) PROVE UNCHANGED log
  BY <1>5 DEF Classify, EndGroup
<1>6. CASE Return
  BY <1>4, <1>6 DEF Return
<1> QED BY <1>1, <1>2, <1>3, <1>4, <1>5, <1>6, LogSteps

-----------------------------------------------------------------------------
(* What a finished step leaves *)

\* In a finished log every call has its event and its result.
LEMMA PairsOnReturn ==
  ASSUME TypeOK, CountInv, GroupInv, LogInv, Return
  PROVE  PairedOnReturn'
<1>1. /\ log \in Seq(Event) /\ base = NumCalls /\ base = started
      /\ committed = started /\ ~conclude.group /\ pc # "done"
      /\ UNCHANGED <<log, conclude, started>>
      /\ conclude \in [group : BOOLEAN, step : BOOLEAN]
  BY DEF Return, TypeOK, CountInv, GroupInv
<1>2. \A type : \A n \in Indices(type) : log[n].call \in Calls
  BY <1>1 DEF Indices, Event
<1>3. \A i \in Calls : \E n \in Indices("call") : log[n].call = i
  BY <1>1 DEF CountInv, Calls, Indices
<1>4. \A i \in Calls : \E n \in Indices("result") : log[n].call = i
  BY <1>1 DEF LogInv, Calls
<1>5. \A type \in {"call", "result"} : {log[n].call : n \in Indices(type)} = Calls
  BY <1>2, <1>3, <1>4
<1>6. {log[n].call : n \in {k \in Indices("result") : log[k].skipped}}
        = (started + 1)..NumCalls
  <2>1. {k \in Indices("result") : log[k].skipped} = {}
    BY <1>1 DEF LogInv
  <2>2. (started + 1)..NumCalls = {}
    BY <1>1 DEF TypeOK
  <2> QED BY <2>1, <2>2
<1>7. conclude.step <=> \E n \in Indices("result") : log[n].concludes
  BY <1>1 DEF LogInv
<1>8. \A type : Indices(type)' = Indices(type)
  BY <1>1 DEF Indices
<1> QED BY <1>1, <1>5, <1>6, <1>7, <1>8 DEF PairedOnReturn

\* So it has in the log of an aborted step, whose pairs are made up for exactly
\* the calls that never started.
LEMMA PairsOnAbort ==
  ASSUME TypeOK, CountInv, StopInv, GroupInv, LogInv, EndAborted
  PROVE  PairedOnReturn'
<1> DEFINE l == Len(log)
           more == NumCalls - started
<1>1. /\ committed = started /\ pc # "done" /\ started' = started
      /\ Len(log') = l + 2 * more
      /\ \A n \in 1..l : log'[n] = log[n]
      /\ \A j \in 1..more :
           /\ log'[l + 2 * j - 1] = CallEvent(started + j, "skipped")
           /\ log'[l + 2 * j] = ResultEvent(started + j, l + 2 * j - 1, TRUE, FALSE)
      /\ \A n \in 1..Len(log') :
           n \in 1..l \/ \E j \in 1..more : n = l + 2 * j - 1 \/ n = l + 2 * j
  BY EndAbortedEffect
<1>2. conclude'.step = (conclude.step \/ conclude.group)
  BY EndAbortedEffect
<1>3. l \in Nat /\ more \in Nat /\ started \in 0..NumCalls
      /\ \A n \in 1..l : log[n].call \in Calls
  BY DEF TypeOK, Event
<1>4. ASSUME NEW j \in 1..more
      PROVE  /\ log'[l + 2 * j - 1].type = "call" /\ log'[l + 2 * j - 1].call = started + j
             /\ log'[l + 2 * j].type = "result" /\ log'[l + 2 * j].call = started + j
             /\ log'[l + 2 * j].skipped = TRUE /\ log'[l + 2 * j].concludes = FALSE
             /\ l + 2 * j - 1 \in 1..Len(log') /\ l + 2 * j \in 1..Len(log')
             /\ started + j \in Calls /\ started + j \in (started + 1)..NumCalls
  <2>1. /\ log'[l + 2 * j - 1] = CallEvent(started + j, "skipped")
        /\ log'[l + 2 * j] = ResultEvent(started + j, l + 2 * j - 1, TRUE, FALSE)
    BY <1>1
  <2>2. /\ l + 2 * j - 1 \in 1..Len(log') /\ l + 2 * j \in 1..Len(log')
        /\ started + j \in Calls /\ started + j \in (started + 1)..NumCalls
    BY <1>1, <1>3 DEF Calls
  <2> QED BY <2>1, <2>2 DEF CallEvent, ResultEvent
<1>5. \A n \in 1..l : n \in 1..Len(log')
  BY <1>1, <1>3
<1> HIDE DEF l, more
<1>6. ASSUME NEW type \in {"call", "result"}
      PROVE  {log'[n].call : n \in Indices(type)'} = Calls
  <2>1. ASSUME NEW n \in Indices(type)' PROVE log'[n].call \in Calls
    <3>1. n \in 1..Len(log')
      BY DEF Indices
    <3>2. CASE n \in 1..l
      BY <1>1, <1>3, <3>2
    <3>3. ASSUME NEW j \in 1..more, n = l + 2 * j - 1 \/ n = l + 2 * j
          PROVE  log'[n].call \in Calls
      BY <1>4, <3>3, ZenonT(60)
    <3> QED BY <1>1, <3>1, <3>2, <3>3
  <2>2. ASSUME NEW i \in Calls
        PROVE  \E n \in Indices(type)' : log'[n].call = i
    <3>1. CASE i <= started
      <4>1. i \in 1..started /\ i \in 1..committed
        BY <1>1, <1>3, <3>1 DEF Calls
      <4>2. \E n \in 1..l : log[n].type = type /\ log[n].call = i
        <5>1. CASE type = "call"
          BY <4>1, <5>1 DEF CountInv, l
        <5>2. CASE type = "result"
          <6>1. PICK n \in Indices("result") : log[n].call = i
            BY <4>1 DEF LogInv
          <6> QED BY <5>2, <6>1 DEF Indices, l
        <5> QED BY <5>1, <5>2
      <4>3. PICK n \in 1..l : log[n].type = type /\ log[n].call = i
        BY <4>2
      <4> QED BY <1>1, <1>5, <4>3 DEF Indices
    <3>2. CASE ~(i <= started)
      <4>1. PICK j \in 1..more : i = started + j
        <5>1. i - started \in 1..more /\ i = started + (i - started)
          BY <1>3, <3>2 DEF Calls, more
        <5> QED BY <5>1
      <4> QED BY <1>4, <4>1, ZenonT(60) DEF Indices
    <3> QED BY <3>1, <3>2
  <2> QED BY <2>1, <2>2
<1>7. {log'[n].call : n \in {k \in Indices("result")' : log'[k].skipped}}
        = (started + 1)..NumCalls
  <2>1. ASSUME NEW n \in Indices("result")', log'[n].skipped
        PROVE  log'[n].call \in (started + 1)..NumCalls
    <3>1. n \in 1..Len(log') /\ log'[n].type = "result"
      BY DEF Indices
    <3>2. CASE n \in 1..l
      <4>1. n \in Indices("result") /\ log'[n] = log[n]
        BY <1>1, <3>1, <3>2 DEF Indices, l
      <4>2. ~log[n].skipped
        BY <1>1, <4>1 DEF LogInv
      <4> QED BY <2>1, <4>1, <4>2
    <3>3. ASSUME NEW j \in 1..more, n = l + 2 * j - 1 \/ n = l + 2 * j
          PROVE  log'[n].call \in (started + 1)..NumCalls
      BY <1>4, <3>3, ZenonT(60)
    <3> QED BY <1>1, <3>1, <3>2, <3>3
  <2>2. ASSUME NEW i \in (started + 1)..NumCalls
        PROVE  \E n \in Indices("result")' : log'[n].skipped /\ log'[n].call = i
    <3>1. PICK j \in 1..more : i = started + j
      <4>1. i - started \in 1..more /\ i = started + (i - started)
        BY <1>3 DEF more
      <4> QED BY <4>1
    <3>2. /\ l + 2 * j \in 1..Len(log') /\ log'[l + 2 * j].type = "result"
          /\ log'[l + 2 * j].skipped /\ log'[l + 2 * j].call = i
      BY <1>4, <3>1
    <3> QED BY <3>2 DEF Indices
  <2> QED BY <2>1, <2>2
<1>8. conclude'.step <=> \E n \in Indices("result")' : log'[n].concludes
  <2>1. conclude.step \/ conclude.group <=> \E n \in Indices("result") : log[n].concludes
    BY <1>1 DEF LogInv
  <2>2. ASSUME NEW n \in Indices("result")', log'[n].concludes
        PROVE  n \in Indices("result") /\ log[n].concludes
    <3>1. n \in 1..Len(log') /\ log'[n].type = "result"
      BY DEF Indices
    <3>2. CASE n \in 1..l
      BY <1>1, <2>2, <3>1, <3>2 DEF Indices, l
    <3>3. ASSUME NEW j \in 1..more, n = l + 2 * j - 1 \/ n = l + 2 * j
          PROVE  FALSE
      BY <1>4, <2>2, <3>1, <3>3
    <3> QED BY <1>1, <3>1, <3>2, <3>3
  <2>3. ASSUME NEW n \in Indices("result"), log[n].concludes
        PROVE  n \in Indices("result")' /\ log'[n].concludes
    BY <1>1, <1>5, <2>3 DEF Indices, l
  <2> QED BY <1>2, <2>1, <2>2, <2>3
<1> QED BY <1>1, <1>6, <1>7, <1>8 DEF PairedOnReturn

\* Every step keeps the promise of a return.
LEMMA PairedStep ==
  ASSUME TypeOK, CountInv, StopInv, GroupInv, LogInv, PairedOnReturn, [Next]_vars
  PROVE  PairedOnReturn'
<1>1. CASE pc' # "done"
  BY <1>1 DEF PairedOnReturn
<1>2. ASSUME NEW m \in Mode, StartCall(m) \/ Classify(m) \/ EndGroup(m)
      PROVE  pc' # "done"
  BY <1>2 DEF StartCall, Classify, EndGroup
<1>3. CASE EndAborted
  BY <1>3, PairsOnAbort
<1>4. CASE Return
  BY <1>4, PairsOnReturn
<1>5. CASE /\ UNCHANGED <<log, started, committed, base, group, mode, conclude>>
           /\ pc' = "done" <=> pc = "done"
  BY <1>5 DEF PairedOnReturn, Indices
<1> QED BY <1>1, <1>2, <1>3, <1>4, <1>5, LogSteps

-----------------------------------------------------------------------------
(* The theorems about the log *)

\* The scheduler begins with an empty log.
LEMMA InitFull == Init => FullInv
<1> SUFFICES ASSUME Init PROVE FullInv
  OBVIOUS
<1>1. Inv
  BY InitInv
<1>2. GroupInv
  BY DEF Init, GroupInv, Ready
<1>3. Len(log) = 0 /\ \A type : Indices(type) = {}
  BY DEF Init, Indices
<1>4. LogInv
  BY <1>3 DEF Init, LogInv
<1>5. ModelOrder /\ ExclusiveBarrier /\ PairedOnReturn
  BY <1>3 DEF Init, ModelOrder, ExclusiveBarrier, PairedOnReturn
<1> QED BY <1>1, <1>2, <1>4, <1>5 DEF FullInv

\* The whole invariant is inductive.
LEMMA FullStep == FullInv /\ [Next]_vars => FullInv'
<1> SUFFICES ASSUME FullInv, [Next]_vars PROVE FullInv'
  OBVIOUS
<1>1. Inv /\ GroupInv /\ LogInv /\ ModelOrder /\ ExclusiveBarrier /\ PairedOnReturn
  BY DEF FullInv
<1>2. TypeOK /\ CountInv /\ StopInv
  BY <1>1 DEF Inv
<1>3. Inv'
  BY <1>1, InvStep
<1> QED BY <1>1, <1>2, <1>3, GroupStep, LogStep, OrderStep, ExclusiveStep,
           PairedStep DEF FullInv

\* Every reachable state satisfies it.
THEOREM FullInvariance == Spec => []FullInv
  BY InitFull, FullStep, PTL DEF Spec

\* Whatever order bodies settle in, the log holds calls and results in model
\* order and each result cites its own call.
THEOREM LogInModelOrder == Spec => []ModelOrder
<1>1. FullInv => ModelOrder
  BY DEF FullInv
<1> QED BY <1>1, FullInvariance, PTL

\* An exclusive call waits for every earlier result, and every later call for
\* its own.
THEOREM ExclusiveIsBarrier == Spec => []ExclusiveBarrier
<1>1. FullInv => ExclusiveBarrier
  BY DEF FullInv
<1> QED BY <1>1, FullInvariance, PTL

\* A step that returns leaves a call and a result for every call of the message,
\* made up exactly for the calls it never started, and concludes the turn
\* exactly when a result says so.
THEOREM ReturnPairsCalls == Spec => []PairedOnReturn
<1>1. FullInv => PairedOnReturn
  BY DEF FullInv
<1> QED BY <1>1, FullInvariance, PTL
=============================================================================
