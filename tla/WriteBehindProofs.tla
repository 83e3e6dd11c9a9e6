------------------------- MODULE WriteBehindProofs --------------------------
(***************************************************************************)
(* Proofs about WriteBehind, for every number of callers and events.       *)
(***************************************************************************)
EXTENDS WriteBehind, SequenceTheorems, TLAPS

USE DurableLogAssumption, WriteBehindAssumption

-----------------------------------------------------------------------------
(* The sink's filter *)

\* Dropping a prefix of a sequence of events leaves a sequence of events.
LEMMA FreshType ==
  ASSUME NEW events \in Seq(1..MaxEvents), NEW cursor \in Nat,
         FirstFresh(events, cursor) \in 1..(Len(events) + 1)
  PROVE  /\ Fresh(events, cursor) \in Seq(1..MaxEvents)
         /\ Len(Fresh(events, cursor)) = Len(events) + 1 - FirstFresh(events, cursor)
         /\ \A i \in 1..Len(Fresh(events, cursor)) :
              Fresh(events, cursor)[i] = events[FirstFresh(events, cursor) + i - 1]
  BY SMTT(30) DEF Fresh

\* On events numbered first + 1, first + 2, ..., the filter drops exactly the
\* stored ones: the first fresh event is the one behind the cursor.
LEMMA FreshOfRun ==
  ASSUME NEW events \in Seq(1..MaxEvents), NEW cursor \in Nat, NEW first \in Nat,
         first <= cursor,
         \A i \in 1..Len(events) : events[i] = first + i
  PROVE  /\ FirstFresh(events, cursor) \in 1..(Len(events) + 1)
         /\ cursor >= first + Len(events) =>
              FirstFresh(events, cursor) = Len(events) + 1
         /\ cursor < first + Len(events) =>
              FirstFresh(events, cursor) = cursor - first + 1
<1> DEFINE n == Len(events)
           Splits(k) == /\ \A i \in 1..(k - 1) : events[i] <= cursor
                        /\ \A i \in k..n : events[i] > cursor
<1>1. n \in Nat
  OBVIOUS
<1>2. \E k \in 1..(n + 1) : Splits(k)
  <2>1. CASE cursor >= first + n
    <3>1. n + 1 \in 1..(n + 1) /\ Splits(n + 1)
      BY <1>1, <2>1
    <3> QED BY <3>1
  <2>2. CASE cursor < first + n
    <3>1. cursor - first + 1 \in 1..(n + 1) /\ Splits(cursor - first + 1)
      BY <1>1, <2>2
    <3> QED BY <3>1
  <2> QED BY <1>1, <2>1, <2>2
<1>3. FirstFresh(events, cursor) = CHOOSE k \in 1..(n + 1) : Splits(k)
  BY DEF FirstFresh
<1> DEFINE f == FirstFresh(events, cursor)
<1>4. f \in 1..(n + 1) /\ Splits(f)
  BY <1>2, <1>3
<1> HIDE DEF f
<1>5. cursor >= first + n => f = n + 1
  <2> SUFFICES ASSUME cursor >= first + n, f # n + 1 PROVE FALSE
    OBVIOUS
  <2>1. f \in 1..n
    BY <1>1, <1>4
  <2>2. events[f] > cursor
    BY <1>1, <1>4, <2>1
  <2> QED BY <1>1, <2>1, <2>2
<1>6. cursor < first + n => f = cursor - first + 1
  <2> SUFFICES ASSUME cursor < first + n PROVE f = cursor - first + 1
    OBVIOUS
  <2>1. CASE f < cursor - first + 1
    <3>1. f \in 1..n /\ f \in f..n
      BY <1>1, <1>4, <2>1
    <3>2. events[f] > cursor
      BY <1>4, <3>1
    <3> QED BY <1>1, <2>1, <3>1, <3>2
  <2>2. CASE f > cursor - first + 1
    <3>1. cursor - first + 1 \in 1..n /\ cursor - first + 1 \in 1..(f - 1)
      BY <1>1, <1>4, <2>2
    <3>2. events[cursor - first + 1] <= cursor
      BY <1>4, <3>1
    <3> QED BY <1>1, <3>1, <3>2, SMTT(30)
  <2> QED BY <1>1, <1>4, <2>1, <2>2
<1> QED BY <1>4, <1>5, <1>6 DEF f

-----------------------------------------------------------------------------
(* The inductive invariants *)

\* The event before the oldest one the controller holds.
First == accepted - Len(pending) - Len(batch)

\* The batch and the queue are one gapless run of events that ends with the
\* youngest and begins no later than behind the stored ones (behind the seed,
\* until initialization has stored it).
QueueInv ==
  /\ Len(pending) + Len(batch) <= accepted
  /\ \A i \in 1..Len(pending) : pending[i] = accepted - Len(pending) + i
  /\ \A i \in 1..Len(batch) : batch[i] = First + i
  /\ active # "writing" => batch = <<>>
  /\ seed <= accepted
  /\ init = "pending" => First <= seed /\ Len(durable) <= seed
  /\ init = "ok" => First <= Len(durable)
  /\ StoredPrefix

\* A flush was called no later than now, joins only behind a successful
\* initialization, and is resolved only once it is covered.
CallInv ==
  /\ \A c \in Callers : mark[c] <= accepted
  /\ \A c \in Callers : call[c] = "joined" => init = "ok"
  /\ FlushCovers

\* Who may be writing: a barrier's own write or a detached one, never both, and
\* no automatic write is scheduled behind a barrier.
WriterInv ==
  /\ BarrierOwnsWrites
  /\ barrier # "none" => init = "ok"
  /\ barrier \in {"ok", "failed"} => active = "none"
  /\ active # "none" /\ barrier # "writing" => background
  /\ continuing /\ barrier = "none" => active = "none"
  /\ timer \/ deadlineExpired => pending # <<>>
  /\ deadlineExpired =>
       active = "writing" \/ (active = "ok" /\ background) \/ continuing
  /\ barrier = "failed" \/ (barrier = "writing" /\ active = "failed") =>
       automaticPaused

-----------------------------------------------------------------------------
(* Initialization and the sink *)

\* The log of a session with d events is a sequence of length d.
LEMMA LogIsSeq ==
  ASSUME NEW d \in Nat
  PROVE  /\ LogOf(d) \in Seq(Nat)
         /\ Len(LogOf(d)) = d
         /\ \A i \in 1..d : LogOf(d)[i] = i
         /\ d <= MaxEvents => LogOf(d) \in Seq(1..MaxEvents)
<1>1. LogOf(d) \in [1..d -> Nat]
  BY DEF LogOf
<1>2. d <= MaxEvents => LogOf(d) \in [1..d -> 1..MaxEvents]
  BY DEF LogOf
<1>3. \A S : LogOf(d) \in [1..d -> S] => LogOf(d) \in Seq(S)
  BY SeqDef
<1>4. \A i \in 1..d : LogOf(d)[i] = i
  BY DEF LogOf
<1>5. Len(LogOf(d)) = d
  <2>1. LogOf(d) \in Seq(Nat) /\ DOMAIN LogOf(d) = 1..d
    BY <1>1, <1>3
  <2>2. Len(LogOf(d)) \in Nat /\ 1..Len(LogOf(d)) = 1..d
    BY <2>1, LenProperties
  <2> QED BY <2>2
<1> QED BY <1>1, <1>2, <1>3, <1>4, <1>5

\* A log extended by the events that continue it is a log.
LEMMA LogGrows ==
  ASSUME NEW d \in Nat, NEW fresh \in Seq(1..MaxEvents),
         Contiguous(fresh, d)
  PROVE  LogOf(d) \o fresh = LogOf(d + Len(fresh))
<1> DEFINE m == d + Len(fresh)
           old == LogOf(d)
           new == LogOf(m)
<1>1. fresh \in Seq(Nat) /\ Len(fresh) \in Nat /\ m \in Nat
  BY LenProperties, SeqMonotonic
<1>2. /\ old \in Seq(Nat) /\ Len(old) = d
      /\ \A i \in 1..d : old[i] = i
  BY LogIsSeq
<1>3. /\ new \in Seq(Nat) /\ Len(new) = m
      /\ \A i \in 1..m : new[i] = i
  BY <1>1, LogIsSeq
<1>4. \A i \in 1..Len(fresh) : fresh[i] = d + i
  BY DEF Contiguous
<1> HIDE DEF old, new
<1>5. /\ old \o fresh \in Seq(Nat)
      /\ Len(old \o fresh) = Len(old) + Len(fresh)
      /\ \A i \in 1..(Len(old) + Len(fresh)) :
           (old \o fresh)[i] = IF i <= Len(old) THEN old[i] ELSE fresh[i - Len(old)]
  BY <1>1, <1>2, ConcatProperties
<1>6. ASSUME NEW i \in 1..m
      PROVE  (old \o fresh)[i] = new[i]
  <2>1. CASE i <= d
    BY <1>1, <1>2, <1>3, <1>5, <2>1
  <2>2. CASE ~(i <= d)
    <3>1. i - d \in 1..Len(fresh)
      BY <1>1, <2>2
    <3>2. fresh[i - d] = d + (i - d)
      BY <1>4, <3>1
    <3>3. d + (i - d) = i
      BY <1>1
    <3>4. (old \o fresh)[i] = fresh[i - d]
      BY <1>2, <1>5, <2>2
    <3> QED BY <1>3, <3>2, <3>3, <3>4
  <2> QED BY <2>1, <2>2
<1>7. old \o fresh = new
  BY <1>1, <1>2, <1>3, <1>5, <1>6, SeqEqual
<1> QED BY <1>7 DEF old, new

\* A successful write leaves the backend with a longer prefix of the log that
\* reaches to the end of the batch and no further than the session does.
LEMMA WriteOkStores ==
  ASSUME TypeOK, QueueInv, WriteOk
  PROVE  /\ Len(durable') \in Nat
         /\ durable' = LogOf(Len(durable'))
         /\ Len(durable) <= Len(durable')
         /\ First + Len(batch) <= Len(durable')
         /\ Len(durable') <= accepted
<1> DEFINE d == Len(durable)
           n == Len(batch)
           fresh == Fresh(batch, d)
<1>1. /\ d \in Nat /\ n \in Nat /\ First \in Nat
      /\ batch \in Seq(1..MaxEvents) /\ accepted \in Nat /\ Len(pending) \in Nat
  BY DEF TypeOK, QueueInv, First
<1>2. /\ First <= d /\ d <= accepted /\ First + n <= accepted
      /\ durable = LogOf(d)
      /\ \A i \in 1..n : batch[i] = First + i
  BY <1>1 DEF QueueInv, StoredPrefix, WriteOk, TypeOK, First
<1>3. /\ FirstFresh(batch, d) \in 1..(n + 1)
      /\ d >= First + n => FirstFresh(batch, d) = n + 1
      /\ d < First + n => FirstFresh(batch, d) = d - First + 1
  BY <1>1, <1>2, FreshOfRun
<1>4. /\ fresh \in Seq(1..MaxEvents)
      /\ Len(fresh) = n + 1 - FirstFresh(batch, d)
  BY <1>1, <1>3, FreshType
<1>5. durable' = durable \o fresh /\ Contiguous(fresh, d)
  BY DEF WriteOk
<1> DEFINE k == FirstFresh(batch, d)
<1> HIDE DEF d, n, fresh, k
<1>6. Len(fresh) \in Nat /\ d + Len(fresh) \in Nat
  BY <1>1, <1>4, LenProperties
<1>7. durable' = LogOf(d + Len(fresh))
  BY <1>1, <1>2, <1>4, <1>5, LogGrows
<1>8. Len(durable') = d + Len(fresh)
  BY <1>6, <1>7, LogIsSeq
<1>9. d + Len(fresh) <= accepted /\ First + n <= d + Len(fresh)
  <2>1. /\ k \in 1..(n + 1) /\ Len(fresh) = n + 1 - k
        /\ d >= First + n => k = n + 1
        /\ d < First + n => k = d - First + 1
    BY <1>3, <1>4 DEF k
  <2>2. CASE d >= First + n
    BY <1>1, <1>2, <2>1, <2>2
  <2>3. CASE d < First + n
    BY <1>1, <1>2, <2>1, <2>3
  <2> QED BY <1>1, <2>2, <2>3
<1> QED BY <1>1, <1>6, <1>7, <1>8, <1>9 DEF d, n

-----------------------------------------------------------------------------
(* Type correctness *)

\* Every step keeps every variable in its type.  A successful write needs the
\* queue's shape: the filter of the sink is defined on a run of events.
LEMMA TypeStep ==
  ASSUME TypeOK, QueueInv, [Next]_vars
  PROVE  TypeOK'
<1> USE DEF TypeOK, ActiveState, BarrierState, logVars, queueVars, writeVars,
            flagVars
<1>0. <<>> \in Seq(1..MaxEvents)
  OBVIOUS
<1>a. ASSUME NEW detached \in BOOLEAN, StartWrite(detached, pending)
      PROVE  /\ batch' \in Seq(1..MaxEvents) /\ pending' \in Seq(1..MaxEvents)
             /\ timer' \in BOOLEAN /\ deadlineExpired' \in BOOLEAN
             /\ active' \in ActiveState /\ background' \in BOOLEAN
  BY <1>0, <1>a DEF StartWrite
<1>1. CASE Enqueue
  <2>1. accepted + 1 \in 1..MaxEvents /\ accepted + 1 \in 0..MaxEvents
    BY <1>1 DEF Enqueue
  <2>2. Append(pending, accepted + 1) \in Seq(1..MaxEvents)
    BY <2>1
  <2> QED BY <1>1, <2>1, <2>2 DEF Enqueue, ArmsTimer, NextSeq
<1>2. CASE InitOk
  <2>1. LogOf(seed) \in Seq(1..MaxEvents)
    BY LogIsSeq
  <2> QED BY <1>2, <2>1 DEF InitOk
<1>3. CASE InitFail
  BY <1>3 DEF InitFail
<1>4. CASE WriteOk
  <2>1. durable' \in Seq(1..MaxEvents)
    BY <1>4, WriteOkStores, LogIsSeq
  <2> QED BY <1>4, <2>1 DEF WriteOk
<1>5. CASE WriteFail
  <2>1. batch \o pending \in Seq(1..MaxEvents)
    OBVIOUS
  <2> QED BY <1>0, <1>5, <2>1 DEF WriteFail, Requeued
<1>6. CASE WriteSettled
  BY <1>6 DEF WriteSettled
<1>7. CASE ContinueAutomatic
  <2>1. CASE ContinuesAtOnce
    BY <1>7, <1>a, <2>1 DEF ContinueAutomatic
  <2>2. CASE ~ContinuesAtOnce
    BY <1>7, <2>2 DEF ContinueAutomatic
  <2> QED BY <2>1, <2>2
<1>8. CASE Deadline
  <2>1. CASE active = "none"
    BY <1>8, <1>a, <2>1 DEF Deadline
  <2>2. CASE active # "none"
    BY <1>8, <2>2 DEF Deadline
  <2> QED BY <2>1, <2>2
<1>9. CASE BarrierResume
  <2>1. automaticPaused' \in BOOLEAN
    BY <1>9 DEF BarrierResume
  <2>2. CASE Drained
    BY <1>9, <2>1, <2>2 DEF BarrierResume, Settle
  <2>3. CASE ~Drained
    BY <1>9, <1>a, <2>1, <2>3 DEF BarrierResume
  <2> QED BY <2>2, <2>3
<1>10. CASE BarrierReject
  BY <1>10 DEF BarrierReject, Settle
<1>11. ASSUME NEW c \in Callers, Flush(c) PROVE TypeOK'
  <2>1. CASE FlushCall(c)
    BY <2>1 DEF FlushCall
  <2>2. CASE FlushInitFailed(c)
    BY <2>2 DEF FlushInitFailed
  <2>3. CASE FlushJoin(c)
    BY <2>3 DEF FlushJoin
  <2>4. CASE FlushOpen(c)
    <3>1. CASE active = "none" /\ pending # <<>>
      BY <1>a, <2>4, <3>1 DEF FlushOpen
    <3>2. CASE active # "none" \/ pending = <<>>
      BY <2>4, <3>2 DEF FlushOpen
    <3> QED BY <3>1, <3>2
  <2>5. CASE FlushReturn(c)
    BY <2>5 DEF FlushReturn
  <2> QED BY <1>11, <2>1, <2>2, <2>3, <2>4, <2>5 DEF Flush
<1>12. CASE UNCHANGED vars
  BY <1>12 DEF vars
<1> QED BY <1>1, <1>2, <1>3, <1>4, <1>5, <1>6, <1>7, <1>8, <1>9, <1>10, <1>11,
           <1>12 DEF Next

-----------------------------------------------------------------------------
(* The queue *)

\* Starting a write moves the queue into the batch and changes nothing else.
LEMMA StartWriteKeepsQueue ==
  ASSUME TypeOK, QueueInv, active # "writing",
         NEW detached, StartWrite(detached, pending),
         UNCHANGED <<accepted, durable, seed, init>>
  PROVE  QueueInv'
<1>1. batch = <<>> /\ batch' = pending /\ pending' = <<>> /\ active' = "writing"
  BY DEF QueueInv, StartWrite
<1>2. /\ Len(batch) = 0 /\ Len(pending') = 0 /\ Len(batch') = Len(pending)
      /\ Len(pending) \in Nat /\ accepted \in Nat
  BY <1>1 DEF TypeOK
<1>3. First' = First /\ First = accepted - Len(pending)
  BY <1>2 DEF First
<1>4. \A i \in 1..Len(batch') : batch'[i] = First' + i
  BY <1>1, <1>2, <1>3 DEF QueueInv
<1>5. StoredPrefix'
  BY DEF QueueInv, StoredPrefix, LogOf
<1> QED BY <1>1, <1>2, <1>3, <1>4, <1>5 DEF QueueInv

\* What leaves the log, the queue, the batch and the writer alone leaves the
\* queue in shape.
LEMMA QueueUnchanged ==
  ASSUME QueueInv, UNCHANGED <<accepted, durable, seed, init, pending, batch>>,
         active' = "writing" => active = "writing",
         active = "writing" => active' = "writing"
  PROVE  QueueInv'
  BY DEF QueueInv, StoredPrefix, LogOf, First

\* Every step keeps the batch and the queue one run that ends with the youngest
\* event and leaves no gap behind the stored ones.
LEMMA QueueStep ==
  ASSUME TypeOK, QueueInv, WriterInv, [Next]_vars
  PROVE  QueueInv'
<1> USE DEF logVars, queueVars, writeVars, flagVars
<1>1. CASE Enqueue
  <2>1. /\ accepted \in Nat /\ pending \in Seq(1..MaxEvents)
        /\ Len(pending) \in Nat /\ Len(batch) \in Nat
    BY DEF TypeOK
  <2>2. /\ accepted' = accepted + 1 /\ pending' = Append(pending, accepted + 1)
        /\ UNCHANGED <<durable, seed, init, batch, active>>
    BY <1>1 DEF Enqueue, NextSeq
  <2>3. /\ Len(pending') = Len(pending) + 1
        /\ \A i \in 1..Len(pending) : pending'[i] = pending[i]
        /\ pending'[Len(pending) + 1] = accepted + 1
    BY <2>1, <2>2
  <2>4. First' = First /\ Len(batch') = Len(batch)
    BY <2>1, <2>2, <2>3 DEF First
  <2>5. \A i \in 1..Len(pending') : pending'[i] = accepted' - Len(pending') + i
    BY <2>1, <2>2, <2>3, SMTT(30) DEF QueueInv
  <2>6. StoredPrefix'
    BY <2>1, <2>2 DEF QueueInv, StoredPrefix, LogOf, TypeOK
  <2>7. \A i \in 1..Len(batch') : batch'[i] = First' + i
    BY <2>2, <2>4 DEF QueueInv
  <2>8. Len(pending') + Len(batch') <= accepted' /\ seed' <= accepted'
    BY <2>1, <2>2, <2>3, <2>4 DEF QueueInv, TypeOK
  <2> QED BY <2>2, <2>4, <2>5, <2>6, <2>7, <2>8 DEF QueueInv
<1>2. CASE InitOk
  <2>1. durable' = LogOf(seed) /\ Len(durable') = seed /\ init' = "ok"
    BY <1>2, LogIsSeq DEF InitOk, TypeOK
  <2>2. UNCHANGED <<accepted, seed, pending, batch, active>> /\ First' = First
    BY <1>2 DEF InitOk, First
  <2>3. StoredPrefix'
    BY <2>1, <2>2 DEF StoredPrefix, QueueInv, LogOf
  <2> QED BY <1>2, <2>1, <2>2, <2>3 DEF QueueInv, InitOk
<1>3. CASE InitFail
  <2>1. init' = "failed" /\ UNCHANGED <<accepted, durable, seed, pending, batch, active>>
    BY <1>3 DEF InitFail
  <2>2. First' = First /\ (StoredPrefix' <=> StoredPrefix)
    BY <2>1 DEF First, StoredPrefix, LogOf
  <2> QED BY <2>1, <2>2 DEF QueueInv
<1>4. CASE WriteOk
  <2>1. /\ batch' = <<>> /\ active' = "ok" /\ init = "ok"
        /\ UNCHANGED <<accepted, seed, init, pending>>
    BY <1>4 DEF WriteOk
  <2>2. /\ accepted \in Nat /\ Len(pending) \in Nat /\ Len(batch) \in Nat
        /\ Len(batch') = 0
    BY <2>1 DEF TypeOK
  <2>3. First' = First + Len(batch)
    BY <2>1, <2>2 DEF First
  <2>4. StoredPrefix' /\ First' <= Len(durable')
    BY <1>4, <2>1, <2>3, WriteOkStores DEF StoredPrefix, LogOf
  <2>5. Len(pending') + Len(batch') <= accepted'
    BY <2>1, <2>2 DEF QueueInv
  <2> QED BY <2>1, <2>2, <2>4, <2>5 DEF QueueInv
<1>5. CASE WriteFail
  <2>1. /\ pending' = batch \o pending /\ batch' = <<>> /\ active' = "failed"
        /\ UNCHANGED <<accepted, durable, seed, init>>
    BY <1>5 DEF WriteFail, Requeued
  <2>2. /\ batch \in Seq(Nat) /\ pending \in Seq(Nat) /\ accepted \in Nat
        /\ Len(pending) \in Nat /\ Len(batch) \in Nat
    BY SeqMonotonic DEF TypeOK
  <2>3. /\ Len(pending') = Len(batch) + Len(pending) /\ Len(batch') = 0
        /\ \A i \in 1..(Len(batch) + Len(pending)) : pending'[i] =
             IF i <= Len(batch) THEN batch[i] ELSE pending[i - Len(batch)]
    BY <2>1, <2>2, ConcatProperties
  <2>4. First' = First
    BY <2>1, <2>2, <2>3 DEF First
  <2>5. ASSUME NEW i \in 1..Len(pending')
        PROVE  pending'[i] = accepted' - Len(pending') + i
    <3>1. CASE i <= Len(batch)
      BY <2>1, <2>2, <2>3, <3>1 DEF QueueInv, First
    <3>2. CASE ~(i <= Len(batch))
      <4>1. i - Len(batch) \in 1..Len(pending)
        BY <2>2, <2>3, <3>2
      <4>2. pending[i - Len(batch)] = accepted - Len(pending) + (i - Len(batch))
        BY <4>1 DEF QueueInv
      <4>3. pending'[i] = pending[i - Len(batch)]
        BY <2>3, <3>2
      <4> QED BY <2>1, <2>2, <2>3, <4>2, <4>3
    <3> QED BY <3>1, <3>2
  <2>6. StoredPrefix'
    BY <2>1 DEF StoredPrefix, QueueInv, LogOf
  <2>7. Len(pending') + Len(batch') <= accepted'
    BY <2>1, <2>2, <2>3 DEF QueueInv
  <2> QED BY <2>1, <2>3, <2>4, <2>5, <2>6, <2>7 DEF QueueInv
<1>6. CASE WriteSettled
  BY <1>6, QueueUnchanged DEF WriteSettled
<1>7. CASE ContinueAutomatic
  <2>1. CASE ContinuesAtOnce
    <3>1. active # "writing"
      BY <1>7, <2>1 DEF ContinueAutomatic, ContinuesAtOnce, WriterInv
    <3> QED BY <1>7, <2>1, <3>1, StartWriteKeepsQueue DEF ContinueAutomatic
  <2>2. CASE ~ContinuesAtOnce
    BY <1>7, <2>2, QueueUnchanged DEF ContinueAutomatic
  <2> QED BY <2>1, <2>2
<1>8. CASE Deadline
  <2>1. CASE active = "none"
    BY <1>8, <2>1, StartWriteKeepsQueue DEF Deadline
  <2>2. CASE active # "none"
    BY <1>8, <2>2, QueueUnchanged DEF Deadline
  <2> QED BY <2>1, <2>2
<1>9. CASE BarrierResume
  <2>1. CASE Drained
    BY <1>9, <2>1, QueueUnchanged DEF BarrierResume
  <2>2. CASE ~Drained
    <3>1. active # "writing"
      BY <1>9 DEF BarrierResume, WriterInv
    <3> QED BY <1>9, <2>2, <3>1, StartWriteKeepsQueue DEF BarrierResume
  <2> QED BY <2>1, <2>2
<1>10. CASE BarrierReject
  BY <1>10, QueueUnchanged DEF BarrierReject
<1>11. ASSUME NEW c \in Callers, Flush(c) PROVE QueueInv'
  <2>1. CASE FlushCall(c)
    BY <2>1, QueueUnchanged DEF FlushCall
  <2>2. CASE FlushInitFailed(c)
    BY <2>2, QueueUnchanged DEF FlushInitFailed
  <2>3. CASE FlushJoin(c)
    BY <2>3, QueueUnchanged DEF FlushJoin
  <2>4. CASE FlushOpen(c)
    <3>1. CASE active = "none" /\ pending # <<>>
      BY <2>4, <3>1, StartWriteKeepsQueue DEF FlushOpen
    <3>2. CASE active # "none" \/ pending = <<>>
      BY <2>4, <3>2, QueueUnchanged DEF FlushOpen
    <3> QED BY <3>1, <3>2
  <2>5. CASE FlushReturn(c)
    BY <2>5, QueueUnchanged DEF FlushReturn
  <2> QED BY <1>11, <2>1, <2>2, <2>3, <2>4, <2>5 DEF Flush
<1>12. CASE UNCHANGED vars
  BY <1>12, QueueUnchanged DEF vars
<1> QED BY <1>1, <1>2, <1>3, <1>4, <1>5, <1>6, <1>7, <1>8, <1>9, <1>10, <1>11,
           <1>12 DEF Next

-----------------------------------------------------------------------------
(* The writers *)

\* Starting a write leaves no window behind.
LEMMA StartWriteFacts ==
  ASSUME NEW detached \in BOOLEAN, NEW queue, StartWrite(detached, queue)
  PROVE  /\ ~timer' /\ ~deadlineExpired' /\ active' = "writing"
         /\ detached <=> background'
  BY DEF StartWrite

\* Every step keeps the barrier's writes and the detached ones apart.
LEMMA WriterStep ==
  ASSUME TypeOK, WriterInv, [Next]_vars
  PROVE  WriterInv'
<1> USE DEF logVars, queueVars, writeVars, flagVars, WriterInv, BarrierOwnsWrites
<1>1. CASE Enqueue
  <2>1. Len(pending') = Len(pending) + 1 /\ Len(pending) \in Nat
    BY <1>1 DEF Enqueue, TypeOK
  <2>2. pending' # <<>>
    BY <2>1
  <2> QED BY <1>1, <2>2 DEF Enqueue
<1>2. CASE InitOk
  BY <1>2 DEF InitOk
<1>3. CASE InitFail
  BY <1>3 DEF InitFail
<1>4. CASE WriteOk
  BY <1>4 DEF WriteOk
<1>5. CASE WriteFail
  BY <1>5 DEF WriteFail
<1>6. CASE WriteSettled
  BY <1>6 DEF WriteSettled, TypeOK, ActiveState, BarrierState
<1>7. CASE ContinueAutomatic
  <2>1. CASE ContinuesAtOnce
    <3>1. StartWrite(TRUE, pending) /\ barrier = "none" /\ UNCHANGED barrier
      BY <1>7, <2>1 DEF ContinueAutomatic, ContinuesAtOnce
    <3>2. ~timer' /\ ~deadlineExpired' /\ background' /\ ~continuing'
      BY <1>7, <3>1, StartWriteFacts DEF ContinueAutomatic
    <3> QED BY <3>1, <3>2
  <2>2. CASE ~ContinuesAtOnce
    BY <1>7, <2>2 DEF ContinueAutomatic, ContinuesAtOnce
  <2> QED BY <2>1, <2>2
<1>8. CASE Deadline
  <2>1. CASE active = "none"
    <3>1. StartWrite(TRUE, pending) /\ barrier = "none" /\ UNCHANGED barrier
      BY <1>8, <2>1 DEF Deadline
    <3>2. ~timer' /\ ~deadlineExpired' /\ background' /\ ~continuing'
      BY <1>8, <3>1, StartWriteFacts DEF Deadline, NoContinuation
    <3> QED BY <3>1, <3>2
  <2>2. CASE active # "none"
    BY <1>8, <2>2 DEF Deadline, NoContinuation
  <2> QED BY <2>1, <2>2
<1>9. CASE BarrierResume
  <2>1. CASE Drained
    BY <1>9, <2>1 DEF BarrierResume, Drained
  <2>2. CASE ~Drained
    BY <1>9, <2>2, StartWriteFacts DEF BarrierResume
  <2> QED BY <2>1, <2>2
<1>10. CASE BarrierReject
  BY <1>10 DEF BarrierReject
<1>11. ASSUME NEW c \in Callers, Flush(c) PROVE WriterInv'
  <2>1. CASE FlushCall(c)
    BY <2>1 DEF FlushCall
  <2>2. CASE FlushInitFailed(c)
    BY <2>2 DEF FlushInitFailed
  <2>3. CASE FlushJoin(c)
    BY <2>3 DEF FlushJoin
  <2>4. CASE FlushOpen(c)
    <3>1. CASE active = "none" /\ pending # <<>>
      BY <2>4, <3>1, StartWriteFacts DEF FlushOpen
    <3>2. CASE active # "none" \/ pending = <<>>
      BY <2>4, <3>2 DEF FlushOpen
    <3> QED BY <3>1, <3>2
  <2>5. CASE FlushReturn(c)
    BY <2>5 DEF FlushReturn
  <2> QED BY <1>11, <2>1, <2>2, <2>3, <2>4, <2>5 DEF Flush
<1>12. CASE UNCHANGED vars
  BY <1>12 DEF vars
<1> QED BY <1>1, <1>2, <1>3, <1>4, <1>5, <1>6, <1>7, <1>8, <1>9, <1>10, <1>11,
           <1>12 DEF Next

-----------------------------------------------------------------------------
(* The callers *)

\* With nothing queued and nothing in flight, the backend stores everything.
LEMMA Quiescent ==
  ASSUME TypeOK, QueueInv, init = "ok", active # "writing", pending = <<>>
  PROVE  Len(durable) = accepted
<1>1. batch = <<>> /\ Len(batch) = 0 /\ Len(pending) = 0
  BY DEF QueueInv
<1>2. accepted \in Nat /\ Len(durable) \in Nat /\ Len(durable) <= accepted
  BY DEF TypeOK, QueueInv, StoredPrefix
<1>3. First = accepted /\ First <= Len(durable)
  BY <1>1, <1>2 DEF First, QueueInv
<1> QED BY <1>2, <1>3

\* The stored log never shrinks.
LEMMA DurableGrows ==
  ASSUME TypeOK, QueueInv, [Next]_vars
  PROVE  Len(durable) <= Len(durable')
<1>1. CASE InitOk
  BY <1>1, LogIsSeq DEF InitOk, QueueInv, TypeOK
<1>2. CASE WriteOk
  BY <1>2, WriteOkStores
<1>3. CASE ~InitOk /\ ~WriteOk
  <2>1. UNCHANGED durable
    BY <1>3 DEF Next, vars, logVars, Enqueue, InitFail, WriteFail, WriteSettled,
       ContinueAutomatic, Deadline, BarrierResume, BarrierReject, Flush,
       FlushCall, FlushInitFailed, FlushJoin, FlushOpen, FlushReturn
  <2> QED BY <2>1 DEF TypeOK
<1> QED BY <1>1, <1>2, <1>3

\* A step that answers nobody keeps the calls in order.
LEMMA CallsUnchanged ==
  ASSUME TypeOK, QueueInv, CallInv, [Next]_vars,
         UNCHANGED <<call, mark>>, accepted <= accepted',
         init = "ok" => init' = "ok"
  PROVE  CallInv'
<1>1. Len(durable) <= Len(durable')
  BY DurableGrows
<1>2. accepted' \in Nat /\ accepted \in Nat /\ Len(durable) \in Nat
  BY TypeStep DEF TypeOK
<1>3. Len(durable') \in Nat
  <2>1. TypeOK'
    BY TypeStep
  <2> QED BY <2>1 DEF TypeOK
<1> QED BY <1>1, <1>2, <1>3 DEF CallInv, FlushCovers, TypeOK

\* Every step keeps the callers' flushes in order.
LEMMA CallStep ==
  ASSUME TypeOK, QueueInv, WriterInv, CallInv, [Next]_vars
  PROVE  CallInv'
<1> USE DEF logVars, queueVars, writeVars, flagVars
<1>0. accepted \in Nat /\ \A c \in Callers : mark[c] \in Nat /\ mark[c] <= accepted
  BY DEF TypeOK, CallInv
<1>1. CASE Enqueue
  BY <1>0, <1>1, CallsUnchanged DEF Enqueue, NextSeq
<1>2. CASE InitOk
  BY <1>0, <1>2, CallsUnchanged DEF InitOk
<1>3. CASE InitFail
  BY <1>0, <1>3, CallsUnchanged DEF InitFail
<1>4. CASE WriteOk
  BY <1>0, <1>4, CallsUnchanged DEF WriteOk
<1>5. CASE WriteFail
  BY <1>0, <1>5, CallsUnchanged DEF WriteFail
<1>6. CASE WriteSettled
  BY <1>0, <1>6, CallsUnchanged DEF WriteSettled
<1>7. CASE ContinueAutomatic
  BY <1>0, <1>7, CallsUnchanged DEF ContinueAutomatic
<1>8. CASE Deadline
  BY <1>0, <1>8, CallsUnchanged DEF Deadline
<1>9. CASE BarrierResume
  <2>1. CASE Drained
    <3>1. /\ UNCHANGED <<accepted, durable, mark, init>>
          /\ call' = [c \in Callers |-> IF call[c] = "joined" THEN "resolved" ELSE call[c]]
      BY <1>9, <2>1 DEF BarrierResume, Settle
    <3>2. Len(durable) = accepted
      BY <1>9, <2>1, Quiescent DEF BarrierResume, Drained, WriterInv
    <3> QED BY <1>0, <3>1, <3>2 DEF CallInv, FlushCovers
  <2>2. CASE ~Drained
    BY <1>0, <1>9, <2>2, CallsUnchanged DEF BarrierResume
  <2> QED BY <2>1, <2>2
<1>10. CASE BarrierReject
  <2>1. /\ UNCHANGED <<accepted, durable, mark, init>>
        /\ call' = [c \in Callers |-> IF call[c] = "joined" THEN "rejected" ELSE call[c]]
    BY <1>10 DEF BarrierReject, Settle
  <2> QED BY <2>1 DEF CallInv, FlushCovers
<1>11. ASSUME NEW c \in Callers, Flush(c) PROVE CallInv'
  <2>1. CASE FlushCall(c)
    BY <1>0, <2>1 DEF FlushCall, CallInv, FlushCovers, TypeOK
  <2>2. CASE FlushInitFailed(c)
    BY <2>2 DEF FlushInitFailed, CallInv, FlushCovers, TypeOK
  <2>3. CASE FlushJoin(c)
    BY <2>3 DEF FlushJoin, CallInv, FlushCovers, TypeOK
  <2>4. CASE FlushOpen(c)
    <3>1. CASE active = "none" /\ pending = <<>>
      <4>1. Len(durable) = accepted
        BY <2>4, <3>1, Quiescent DEF FlushOpen
      <4>2. /\ UNCHANGED <<accepted, durable, mark, init>>
            /\ call' = [call EXCEPT ![c] = "resolved"]
        BY <2>4, <3>1 DEF FlushOpen
      <4> QED BY <1>0, <4>1, <4>2 DEF CallInv, FlushCovers, TypeOK
    <3>2. CASE active # "none" \/ pending # <<>>
      <4>1. /\ UNCHANGED <<accepted, durable, mark, init>> /\ init = "ok"
            /\ call' = [call EXCEPT ![c] = "joined"]
        BY <2>4, <3>2 DEF FlushOpen
      <4> QED BY <4>1 DEF CallInv, FlushCovers, TypeOK
    <3> QED BY <3>1, <3>2
  <2>5. CASE FlushReturn(c)
    BY <1>0, <2>5 DEF FlushReturn, CallInv, FlushCovers, TypeOK
  <2> QED BY <1>11, <2>1, <2>2, <2>3, <2>4, <2>5 DEF Flush
<1>12. CASE UNCHANGED vars
  BY <1>0, <1>12, CallsUnchanged DEF vars
<1> QED BY <1>1, <1>2, <1>3, <1>4, <1>5, <1>6, <1>7, <1>8, <1>9, <1>10, <1>11,
           <1>12 DEF Next

-----------------------------------------------------------------------------
(* No stranded work *)

\* A step that neither queues nor takes the automatic path's way out keeps the
\* queued work served.
LEMMA StrandsNothing ==
  ASSUME NoStrandedWork, UNCHANGED <<pending, timer, deadlineExpired, barrier,
                                     automaticPaused, call, active, continuing>>,
         init' # "failed" => init # "failed"
  PROVE  NoStrandedWork'
  BY DEF NoStrandedWork

\* Every step leaves queued work somebody who will write it.
LEMMA StrandedStep ==
  ASSUME TypeOK, WriterInv, NoStrandedWork, [Next]_vars
  PROVE  NoStrandedWork'
<1> USE DEF logVars, queueVars, writeVars, flagVars
<1>1. CASE Enqueue
  <2>1. CASE barrier # "none"
    BY <1>1, <2>1 DEF Enqueue, NoStrandedWork
  <2>2. CASE barrier = "none" /\ ArmsTimer
    BY <1>1, <2>2 DEF Enqueue, NoStrandedWork
  <2>3. CASE barrier = "none" /\ ~ArmsTimer
    <3>1. pending # <<>> /\ ~automaticPaused
      BY <2>3 DEF ArmsTimer
    <3>2. /\ timer' <=> timer
          /\ ~automaticPaused'
          /\ deadlineExpired' <=> deadlineExpired
          /\ UNCHANGED <<init, call, active, continuing, barrier>>
      BY <1>1, <2>3, <3>1 DEF Enqueue, TypeOK
    <3> QED BY <3>1, <3>2 DEF NoStrandedWork
  <2> QED BY <2>1, <2>2, <2>3
<1>2. CASE InitOk
  BY <1>2 DEF InitOk, NoStrandedWork
<1>3. CASE InitFail
  BY <1>3 DEF InitFail, NoStrandedWork
<1>4. CASE WriteOk
  BY <1>4 DEF WriteOk, NoStrandedWork
<1>5. CASE WriteFail
  BY <1>5 DEF WriteFail, NoStrandedWork
<1>6. CASE WriteSettled
  BY <1>6 DEF WriteSettled, NoStrandedWork, WriterInv, TypeOK, ActiveState
<1>7. CASE ContinueAutomatic
  <2>1. CASE ContinuesAtOnce
    <3>1. pending' = <<>>
      BY <1>7, <2>1 DEF ContinueAutomatic, StartWrite
    <3> QED BY <3>1 DEF NoStrandedWork
  <2>2. CASE ~ContinuesAtOnce
    BY <1>7, <2>2 DEF ContinueAutomatic, ContinuesAtOnce, NoStrandedWork
  <2> QED BY <2>1, <2>2
<1>8. CASE Deadline
  <2>1. CASE active = "none"
    <3>1. pending' = <<>>
      BY <1>8, <2>1 DEF Deadline, StartWrite
    <3> QED BY <3>1 DEF NoStrandedWork
  <2>2. CASE active # "none"
    BY <1>8, <2>2 DEF Deadline, NoStrandedWork
  <2> QED BY <2>1, <2>2
<1>9. CASE BarrierResume
  <2>1. CASE Drained
    <3>1. pending' = <<>>
      BY <1>9, <2>1 DEF BarrierResume, Drained
    <3> QED BY <3>1 DEF NoStrandedWork
  <2>2. CASE ~Drained
    BY <1>9, <2>2 DEF BarrierResume, NoStrandedWork
  <2> QED BY <2>1, <2>2
<1>10. CASE BarrierReject
  BY <1>10 DEF BarrierReject, NoStrandedWork, WriterInv
<1>11. ASSUME NEW c \in Callers, Flush(c) PROVE NoStrandedWork'
  <2>1. CASE FlushCall(c)
    <3>1. call'[c] = "init"
      BY <2>1 DEF FlushCall, TypeOK
    <3> QED BY <3>1 DEF NoStrandedWork
  <2>2. CASE FlushInitFailed(c)
    BY <2>2 DEF FlushInitFailed, NoStrandedWork
  <2>3. CASE FlushJoin(c)
    BY <2>3 DEF FlushJoin, NoStrandedWork
  <2>4. CASE FlushOpen(c)
    <3>1. CASE active = "none" /\ pending = <<>>
      <4>1. pending' = <<>>
        BY <2>4, <3>1 DEF FlushOpen
      <4> QED BY <4>1 DEF NoStrandedWork
    <3>2. CASE active # "none" \/ pending # <<>>
      <4>1. barrier' # "none"
        BY <2>4, <3>2 DEF FlushOpen
      <4> QED BY <4>1 DEF NoStrandedWork
    <3> QED BY <3>1, <3>2
  <2>5. CASE FlushReturn(c)
    <3>1. \A d \in Callers : call[d] = "init" => call'[d] = "init"
      BY <2>5 DEF FlushReturn, TypeOK
    <3> QED BY <2>5, <3>1 DEF FlushReturn, NoStrandedWork
  <2> QED BY <1>11, <2>1, <2>2, <2>3, <2>4, <2>5 DEF Flush
<1>12. CASE UNCHANGED vars
  BY <1>12, StrandsNothing DEF vars
<1> QED BY <1>1, <1>2, <1>3, <1>4, <1>5, <1>6, <1>7, <1>8, <1>9, <1>10, <1>11,
           <1>12 DEF Next

-----------------------------------------------------------------------------
(* The invariants of the specification *)

\* Everything the steps above keep.
Inv == TypeOK /\ QueueInv /\ WriterInv /\ CallInv /\ NoStrandedWork

\* A new controller satisfies the invariant.
LEMMA InitInv == Init => Inv
<1> SUFFICES ASSUME Init PROVE Inv
  OBVIOUS
<1> USE DEF Init
<1>1. PICK k \in 0..seed : durable = LogOf(k)
  OBVIOUS
<1>2. /\ k \in Nat /\ k <= seed /\ seed \in Nat /\ seed <= MaxEvents
      /\ accepted = seed
  OBVIOUS
<1>3. durable \in Seq(1..MaxEvents) /\ Len(durable) = k
  BY <1>1, <1>2, LogIsSeq
<1>4. /\ pending \in Seq(1..MaxEvents)
      /\ Len(pending) \in {0, 1} /\ Len(pending) <= seed
      /\ \A i \in 1..Len(pending) : pending[i] = accepted - Len(pending) + i
  <2>1. CASE pending = <<>>
    BY <1>2, <2>1
  <2>2. CASE seed > 0 /\ pending = <<seed>>
    BY <1>2, <2>2
  <2> QED BY <2>1, <2>2
<1>5. batch \in Seq(1..MaxEvents) /\ Len(batch) = 0
  OBVIOUS
<1>6. TypeOK
  <2>1. accepted \in 0..MaxEvents /\ seed \in 0..MaxSeed
    BY <1>2
  <2>2. call \in [Callers -> {"none", "init", "joined", "resolved", "rejected"}]
    OBVIOUS
  <2>3. mark \in [Callers -> 0..MaxEvents]
    OBVIOUS
  <2>4. timer \in BOOLEAN
    OBVIOUS
  <2>5. /\ background \in BOOLEAN /\ continuing \in BOOLEAN
        /\ deadlineExpired \in BOOLEAN /\ automaticPaused \in BOOLEAN
        /\ init \in {"pending", "ok", "failed"}
        /\ active \in ActiveState /\ barrier \in BarrierState
    BY DEF ActiveState, BarrierState
  <2> QED BY <1>3, <1>4, <1>5, <2>1, <2>2, <2>3, <2>4, <2>5 DEF TypeOK
<1>7. StoredPrefix
  BY <1>1, <1>2, <1>3 DEF StoredPrefix
<1>8. First = seed - Len(pending) /\ First <= seed
  BY <1>2, <1>4, <1>5 DEF First
<1>9. QueueInv
  BY <1>2, <1>3, <1>4, <1>5, <1>7, <1>8 DEF QueueInv
<1>10. CallInv
  BY <1>2 DEF CallInv, FlushCovers
<1>11. WriterInv
  BY DEF WriterInv, BarrierOwnsWrites
<1>12. NoStrandedWork
  BY DEF NoStrandedWork
<1> QED BY <1>6, <1>9, <1>10, <1>11, <1>12 DEF Inv

\* The invariant is inductive.
LEMMA InvStep == Inv /\ [Next]_vars => Inv'
  BY TypeStep, QueueStep, WriterStep, CallStep, StrandedStep DEF Inv

\* Every reachable state of the controller satisfies the invariant.
THEOREM Invariance == Spec => []Inv
  BY InitInv, InvStep, PTL DEF Spec

\* The variables of the controller and its callers keep their types.
THEOREM TypeCorrect == Spec => []TypeOK
<1>1. Inv => TypeOK
  BY DEF Inv
<1> QED BY <1>1, Invariance, PTL

\* What the backend stores is always a prefix of the live log: no retry, filter
\* or flush reorders, repeats or skips an event.
THEOREM StoresPrefix == Spec => []StoredPrefix
<1>1. Inv => StoredPrefix
  BY DEF Inv, QueueInv
<1> QED BY <1>1, Invariance, PTL

\* After initialization the batch and the queue hold every event the backend
\* does not store, in log order.
THEOREM OwesEverything == Spec => []Owed
<1>1. ASSUME Inv PROVE Owed
  <2> DEFINE owed == batch \o pending
             n == Len(batch) + Len(pending)
  <2>1. /\ batch \in Seq(Nat) /\ pending \in Seq(Nat)
        /\ Len(batch) \in Nat /\ Len(pending) \in Nat
        /\ accepted \in Nat /\ Len(durable) \in Nat
    BY <1>1, SeqMonotonic DEF Inv, TypeOK
  <2>2. /\ Len(owed) = n
        /\ \A i \in 1..n : owed[i] =
             IF i <= Len(batch) THEN batch[i] ELSE pending[i - Len(batch)]
    BY <2>1, ConcatProperties
  <2>3. \A i \in 1..n : owed[i] = First + i
    <3> SUFFICES ASSUME NEW i \in 1..n PROVE owed[i] = First + i
      OBVIOUS
    <3>1. CASE i <= Len(batch)
      <4>1. i \in 1..Len(batch) /\ owed[i] = batch[i]
        BY <2>1, <2>2, <3>1
      <4> QED BY <1>1, <4>1 DEF Inv, QueueInv
    <3>2. CASE ~(i <= Len(batch))
      <4>1. i - Len(batch) \in 1..Len(pending)
        BY <2>1, <3>2
      <4>2. pending[i - Len(batch)] = accepted - Len(pending) + (i - Len(batch))
        BY <1>1, <4>1 DEF Inv, QueueInv
      <4>3. owed[i] = pending[i - Len(batch)]
        BY <2>2, <3>2
      <4> QED BY <2>1, <4>2, <4>3 DEF First
    <3> QED BY <3>1, <3>2
  <2> HIDE DEF owed
  <2>4. ASSUME init = "ok", NEW e \in (Len(durable) + 1)..accepted
        PROVE  \E i \in 1..Len(owed) : owed[i] = e /\ i = Len(owed) - (accepted - e)
    <3>1. First <= Len(durable) /\ First = accepted - n
      BY <1>1, <2>1, <2>4 DEF Inv, QueueInv, First
    <3>2. e - First \in 1..n
      BY <2>1, <3>1
    <3>3. owed[e - First] = First + (e - First)
      BY <2>3, <3>2
    <3>4. First + (e - First) = e /\ e - First = n - (accepted - e)
      BY <2>1, <3>1
    <3> QED BY <2>2, <3>2, <3>3, <3>4
  <2> QED BY <2>4 DEF Owed, owed
<1> QED BY <1>1, Invariance, PTL

\* A flush that resolves covers every event appended before it was called.
THEOREM FlushCoversCallers == Spec => []FlushCovers
<1>1. Inv => FlushCovers
  BY DEF Inv, CallInv
<1> QED BY <1>1, Invariance, PTL

\* Queued work always has a timer, an expired window, a barrier or a waiting
\* flush to write it, unless a reported failure paused the automatic path.
THEOREM StrandsNoWork == Spec => []NoStrandedWork
<1>1. Inv => NoStrandedWork
  BY DEF Inv
<1> QED BY <1>1, Invariance, PTL
=============================================================================
