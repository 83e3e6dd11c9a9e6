----------------------------- MODULE DurableLog -----------------------------
(***************************************************************************)
(* What session persistence promises about one session's event log, seen   *)
(* from outside: events are appended to the live session, the backend      *)
(* stores ever longer prefixes of that log, and a flush that resolves      *)
(* covers every event appended before it was called.  How batches are      *)
(* formed, delayed, retried or merged is the business of WriteBehind.      *)
(*                                                                         *)
(* Events are named by their sequence number, counted from 1.              *)
(***************************************************************************)
EXTENDS Naturals, Sequences

CONSTANTS Callers,     \* concurrent callers of the flush barrier
          MaxEvents    \* bound on the events one session appends

ASSUME DurableLogAssumption == MaxEvents \in Nat

VARIABLES accepted,    \* how many events the live session has appended
          durable,     \* the events the backend stores, in stored order
          call,        \* per caller: no call, a pending flush, or its answer
          mark         \* per caller: the log length when its flush was called

logVars == <<accepted, durable, call, mark>>

\* The log of a session that has appended n events.
LogOf(n) == [i \in 1..n |-> i]

LogInit ==
  /\ accepted \in 0..MaxEvents
  /\ \E k \in 0..accepted : durable = LogOf(k)
  /\ call = [c \in Callers |-> "none"]
  /\ mark = [c \in Callers |-> 0]

\* The live session appends one more event.
LogAppend ==
  /\ accepted < MaxEvents
  /\ accepted' = accepted + 1
  /\ UNCHANGED <<durable, call, mark>>

\* The backend commits a longer prefix of the live log.
LogStore ==
  /\ \E k \in (Len(durable) + 1)..accepted : durable' = LogOf(k)
  /\ UNCHANGED <<accepted, call, mark>>

LogCall(c) ==
  /\ call[c] = "none"
  /\ call' = [call EXCEPT ![c] = "pending"]
  /\ mark' = [mark EXCEPT ![c] = accepted]
  /\ UNCHANGED <<accepted, durable>>

\* One shared barrier resolves some of the pending calls, all of them covered.
LogResolve ==
  /\ \E S \in SUBSET {c \in Callers : call[c] = "pending"} :
        /\ \A c \in S : mark[c] <= Len(durable)
        /\ call' = [c \in Callers |-> IF c \in S THEN "resolved" ELSE call[c]]
  /\ UNCHANGED <<accepted, durable, mark>>

\* One shared barrier rejects some of the pending calls.
LogReject ==
  /\ \E S \in SUBSET {c \in Callers : call[c] = "pending"} :
        call' = [c \in Callers |-> IF c \in S THEN "rejected" ELSE call[c]]
  /\ UNCHANGED <<accepted, durable, mark>>

LogReturn(c) ==
  /\ call[c] \in {"resolved", "rejected"}
  /\ call' = [call EXCEPT ![c] = "none"]
  /\ mark' = [mark EXCEPT ![c] = 0]
  /\ UNCHANGED <<accepted, durable>>

LogNext ==
  \/ LogAppend
  \/ LogStore
  \/ LogResolve
  \/ LogReject
  \/ \E c \in Callers : LogCall(c) \/ LogReturn(c)

LogSpec == LogInit /\ [][LogNext]_logVars
=============================================================================
