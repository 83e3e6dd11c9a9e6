----------------------- MODULE WriteBehindRefinement ------------------------
(***************************************************************************)
(* WriteBehind implements DurableLog: every step of the controller is a    *)
(* step of the abstract log, or changes nothing of it.                     *)
(***************************************************************************)
EXTENDS WriteBehindProofs

\* What the abstract log sees of a call.
Seen(state) == IF state \in {"init", "joined"} THEN "pending" ELSE state

\* The refinement mapping's value of call.
SeenCall == [c \in Callers |-> Seen(call[c])]

\* The abstract actions under the mapping, spelled out.
LEMMA AbstractActions ==
  /\ Log!LogAppend <=> /\ accepted < MaxEvents /\ accepted' = accepted + 1
                       /\ UNCHANGED <<durable, SeenCall, mark>>
  /\ Log!LogStore <=> /\ \E k \in (Len(durable) + 1)..accepted : durable' = LogOf(k)
                      /\ UNCHANGED <<accepted, SeenCall, mark>>
  /\ \A c : Log!LogCall(c) <=>
       /\ SeenCall[c] = "none"
       /\ SeenCall' = [SeenCall EXCEPT ![c] = "pending"]
       /\ mark' = [mark EXCEPT ![c] = accepted]
       /\ UNCHANGED <<accepted, durable>>
  /\ Log!LogResolve <=>
       /\ \E S \in SUBSET {c \in Callers : SeenCall[c] = "pending"} :
            /\ \A c \in S : mark[c] <= Len(durable)
            /\ SeenCall' = [c \in Callers |-> IF c \in S THEN "resolved" ELSE SeenCall[c]]
       /\ UNCHANGED <<accepted, durable, mark>>
  /\ Log!LogReject <=>
       /\ \E S \in SUBSET {c \in Callers : SeenCall[c] = "pending"} :
            SeenCall' = [c \in Callers |-> IF c \in S THEN "rejected" ELSE SeenCall[c]]
       /\ UNCHANGED <<accepted, durable, mark>>
  /\ \A c : Log!LogReturn(c) <=>
       /\ SeenCall[c] \in {"resolved", "rejected"}
       /\ SeenCall' = [SeenCall EXCEPT ![c] = "none"]
       /\ mark' = [mark EXCEPT ![c] = 0]
       /\ UNCHANGED <<accepted, durable>>
  BY DEF Log!LogAppend, Log!LogStore, Log!LogCall, Log!LogResolve, Log!LogReject,
         Log!LogReturn, Log!LogOf, LogOf, SeenCall, Seen

\* The abstract view of a step, and of one that changes nothing visible.
AbstractStep == Log!LogNext \/ UNCHANGED <<accepted, durable, SeenCall, mark>>

\* What the mapping shows of a caller: a flush awaiting initialization or the
\* barrier is pending, everything else is shown as it is.
LEMMA SeenValues ==
  ASSUME TypeOK, NEW c \in Callers
  PROVE  /\ SeenCall[c] = Seen(call[c])
         /\ call[c] \in {"init", "joined"} <=> SeenCall[c] = "pending"
         /\ call[c] \notin {"init", "joined"} => SeenCall[c] = call[c]
  BY DEF TypeOK, SeenCall, Seen

\* A step that stores the log up to some event is an abstract store or nothing.
LEMMA StoreStep ==
  ASSUME TypeOK, QueueInv, UNCHANGED <<accepted, call, mark>>,
         Len(durable') \in Nat, durable' = LogOf(Len(durable')),
         Len(durable) <= Len(durable'), Len(durable') <= accepted
  PROVE  AbstractStep
<1>1. UNCHANGED SeenCall
  BY DEF SeenCall, Seen
<1>2. CASE Len(durable) = Len(durable')
  <2>1. UNCHANGED durable
    BY <1>2 DEF QueueInv, StoredPrefix
  <2> QED BY <1>1, <2>1 DEF AbstractStep
<1>3. CASE Len(durable) # Len(durable')
  <2>1. Len(durable') \in (Len(durable) + 1)..accepted
    BY <1>3 DEF TypeOK
  <2>2. Log!LogStore
    BY <1>1, <2>1, AbstractActions
  <2> QED BY <2>2, ZenonT(60) DEF AbstractStep, Log!LogNext
<1> QED BY <1>2, <1>3

\* A step that answers the callers that joined the barrier is one answer of the
\* abstract log to all of them.
LEMMA SettleStep ==
  ASSUME TypeOK, UNCHANGED <<accepted, durable, mark>>,
         NEW outcome \in {"resolved", "rejected"}, Settle(outcome),
         outcome = "resolved" =>
           \A c \in Callers : call[c] = "joined" => mark[c] <= Len(durable)
  PROVE  AbstractStep
<1> DEFINE S == {c \in Callers : call[c] = "joined"}
<1>1. S \in SUBSET {c \in Callers : SeenCall[c] = "pending"}
  BY SeenValues
<1>2. SeenCall' = [c \in Callers |-> IF c \in S THEN outcome ELSE SeenCall[c]]
  BY DEF Settle, SeenCall, Seen
<1>3. outcome = "resolved" => \A c \in S : mark[c] <= Len(durable)
  OBVIOUS
<1> HIDE DEF S
<1>4. CASE outcome = "resolved"
  <2>1. Log!LogResolve
    BY <1>1, <1>2, <1>3, <1>4, AbstractActions
  <2> QED BY <2>1, ZenonT(60) DEF AbstractStep, Log!LogNext
<1>5. CASE outcome = "rejected"
  <2>1. Log!LogReject
    BY <1>1, <1>2, <1>5, AbstractActions
  <2> QED BY <2>1, ZenonT(60) DEF AbstractStep, Log!LogNext
<1> QED BY <1>4, <1>5

\* A step that gives one pending caller its answer.
LEMMA AnswerStep ==
  ASSUME TypeOK, UNCHANGED <<accepted, durable, mark>>,
         NEW c \in Callers, call[c] \in {"init", "joined"},
         NEW outcome \in {"resolved", "rejected"},
         call' = [call EXCEPT ![c] = outcome],
         outcome = "resolved" => mark[c] <= Len(durable)
  PROVE  AbstractStep
<1>1. {c} \in SUBSET {d \in Callers : SeenCall[d] = "pending"}
  BY SeenValues
<1>2. SeenCall' = [d \in Callers |-> IF d \in {c} THEN outcome ELSE SeenCall[d]]
  BY DEF SeenCall, Seen, TypeOK
<1>3. CASE outcome = "resolved"
  <2>1. \A d \in {c} : mark[d] <= Len(durable)
    BY <1>3
  <2>2. Log!LogResolve
    BY <1>1, <1>2, <1>3, <2>1, AbstractActions
  <2> QED BY <2>2, ZenonT(60) DEF AbstractStep, Log!LogNext
<1>4. CASE outcome = "rejected"
  <2>1. Log!LogReject
    BY <1>1, <1>2, <1>4, AbstractActions
  <2> QED BY <2>1, ZenonT(60) DEF AbstractStep, Log!LogNext
<1> QED BY <1>3, <1>4

\* Every caller's own step is a call, an answer, a return or nothing.
LEMMA CallerStep ==
  ASSUME Inv, NEW c \in Callers, Flush(c)
  PROVE  AbstractStep
<1> USE DEF Inv, logVars, queueVars, writeVars, flagVars
<1>1. CASE FlushCall(c)
  <2>1. SeenCall[c] = "none"
    BY <1>1, SeenValues DEF FlushCall
  <2>2. SeenCall' = [SeenCall EXCEPT ![c] = "pending"]
    BY <1>1 DEF FlushCall, SeenCall, Seen, TypeOK
  <2>3. Log!LogCall(c)
    BY <1>1, <2>1, <2>2, AbstractActions DEF FlushCall
  <2> QED BY <2>3 DEF AbstractStep, Log!LogNext
<1>2. CASE FlushInitFailed(c)
  BY <1>2, AnswerStep DEF FlushInitFailed
<1>3. ASSUME call[c] = "init", call' = [call EXCEPT ![c] = "joined"],
             UNCHANGED <<accepted, durable, mark>>
      PROVE  AbstractStep
  <2>1. UNCHANGED SeenCall
    BY <1>3 DEF SeenCall, Seen, TypeOK
  <2> QED BY <1>3, <2>1 DEF AbstractStep
<1>4. CASE FlushJoin(c)
  BY <1>3, <1>4 DEF FlushJoin
<1>5. CASE FlushOpen(c)
  <2>1. CASE active = "none" /\ pending = <<>>
    <3>1. Len(durable) = accepted /\ mark[c] <= accepted
      BY <1>5, <2>1, Quiescent DEF FlushOpen, CallInv
    <3> QED BY <1>5, <2>1, <3>1, AnswerStep DEF FlushOpen
  <2>2. CASE active # "none" \/ pending # <<>>
    BY <1>3, <1>5, <2>2 DEF FlushOpen
  <2> QED BY <2>1, <2>2
<1>6. CASE FlushReturn(c)
  <2>1. SeenCall[c] \in {"resolved", "rejected"}
    BY <1>6, SeenValues DEF FlushReturn
  <2>2. SeenCall' = [SeenCall EXCEPT ![c] = "none"]
    BY <1>6 DEF FlushReturn, SeenCall, Seen, TypeOK
  <2>3. Log!LogReturn(c)
    BY <1>6, <2>1, <2>2, AbstractActions DEF FlushReturn
  <2> QED BY <2>3 DEF AbstractStep, Log!LogNext
<1> QED BY <1>1, <1>2, <1>4, <1>5, <1>6 DEF Flush

\* Every step of the controller is a step of the abstract log or changes
\* nothing of it.
LEMMA StepSimulation ==
  ASSUME Inv, Inv', [Next]_vars
  PROVE  AbstractStep
<1> USE DEF Inv, logVars, queueVars, writeVars, flagVars
<1>1. CASE Enqueue
  <2>1. UNCHANGED SeenCall
    BY <1>1 DEF Enqueue, SeenCall, Seen
  <2>2. Log!LogAppend
    BY <1>1, <2>1, AbstractActions DEF Enqueue, NextSeq
  <2> QED BY <2>2, ZenonT(60) DEF AbstractStep, Log!LogNext
<1>2. CASE InitOk
  <2>1. durable' = LogOf(seed) /\ Len(durable') = seed
    BY <1>2, LogIsSeq DEF InitOk, TypeOK
  <2>2. Len(durable) <= seed /\ seed <= accepted /\ seed \in Nat
    BY <1>2 DEF InitOk, QueueInv, TypeOK
  <2> QED BY <1>2, <2>1, <2>2, StoreStep DEF InitOk
<1>3. CASE WriteOk
  BY <1>3, WriteOkStores, StoreStep DEF WriteOk
<1>4. CASE BarrierResume
  <2>1. CASE Drained
    <3>1. Settle("resolved") /\ UNCHANGED <<accepted, durable, mark>>
      BY <1>4, <2>1 DEF BarrierResume
    <3>2. Len(durable) = accepted
      BY <1>4, <2>1, Quiescent DEF BarrierResume, Drained, WriterInv
    <3>3. \A c \in Callers : call[c] = "joined" => mark[c] <= Len(durable)
      BY <3>2 DEF CallInv
    <3> QED BY <3>1, <3>3, SettleStep
  <2>2. CASE ~Drained
    <3>1. UNCHANGED <<accepted, durable, call, mark>>
      BY <1>4, <2>2 DEF BarrierResume
    <3> QED BY <3>1 DEF AbstractStep, SeenCall, Seen
  <2> QED BY <2>1, <2>2
<1>5. CASE BarrierReject
  BY <1>5, SettleStep DEF BarrierReject
<1>6. ASSUME NEW c \in Callers, Flush(c) PROVE AbstractStep
  BY <1>6, CallerStep
<1>7. CASE InitFail \/ WriteFail \/ WriteSettled \/ ContinueAutomatic \/ Deadline
             \/ UNCHANGED vars
  <2>1. UNCHANGED <<accepted, durable, call, mark>>
    BY <1>7 DEF InitFail, WriteFail, WriteSettled, ContinueAutomatic, Deadline, vars
  <2> QED BY <2>1 DEF AbstractStep, SeenCall, Seen
<1> QED BY <1>1, <1>2, <1>3, <1>4, <1>5, <1>6, <1>7 DEF Next

\* A new controller is a new abstract log.
LEMMA InitSimulation == Init => Log!LogInit
<1> SUFFICES ASSUME Init PROVE Log!LogInit
  OBVIOUS
<1>1. accepted \in 0..MaxEvents
  BY DurableLogAssumption, WriteBehindAssumption DEF Init
<1>2. \E k \in 0..accepted : durable = Log!LogOf(k)
  BY DEF Init, LogOf, Log!LogOf
<1>3. SeenCall = [c \in Callers |-> "none"]
  BY DEF Init, SeenCall, Seen
<1> QED BY <1>1, <1>2, <1>3 DEF Init, Log!LogInit, SeenCall, Seen

\* The controller implements the abstract log: whatever the batching, the
\* retries and the barriers do, the backend stores ever longer prefixes of the
\* live log, and a flush resolves only once it is covered.
THEOREM Refinement == Spec => ImplementsLog
<1>1. AbstractStep => [Log!LogNext]_(Log!logVars)
  BY DEF AbstractStep, Log!logVars, SeenCall, Seen
<1>2. Inv /\ Inv' /\ [Next]_vars => [Log!LogNext]_(Log!logVars)
  BY <1>1, StepSimulation
<1> QED BY <1>2, InitSimulation, Invariance, PTL DEF Spec, ImplementsLog, Log!LogSpec
=============================================================================
