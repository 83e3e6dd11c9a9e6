----------------------------- MODULE JobsLocal ------------------------------
(***************************************************************************)
(* The background-job registry LocalJobRegistry: jobs with an owner or     *)
(* without one, waiters with a deadline and an abort signal, and the       *)
(* disposal of an owner and of the service.                                *)
(*                                                                         *)
(* Every method but wait is synchronous.  A producer reports through the   *)
(* promise `done`, so the settlement of a job is a job of its own that     *)
(* runs after whatever resolved it; a wait that was released or timed out  *)
(* is still counted until its continuation runs.                           *)
(*                                                                         *)
(* Callers are the ones assertAccess lets through.  Completion listeners   *)
(* are one listener per owner, which delivers a notice for an unreported   *)
(* settlement, as tool-jobs does.                                          *)
(***************************************************************************)
EXTENDS Naturals, FiniteSets

CONSTANTS Jobs,      \* jobs that may be started
          Agents,    \* owners
          Unowned,   \* the bucket of jobs without an owner
          Waits,     \* calls of wait that may be in progress at once
          Limit      \* maxConcurrentJobsPerOwner

ASSUME JobsAssumption ==
  /\ Limit \in Nat \ {0}
  /\ Unowned \notin Agents /\ "service" \notin Agents /\ "none" \notin Jobs

VARIABLES status,    \* of each job's record; "none" before start
          owner,     \* of each started job
          stored,    \* the records the registry still holds
          reported,  \* has the terminal status been claimed by somebody
          done,      \* the producer's promise: its outcome once it resolved
          wait,      \* each wait's job and where it is
          life,      \* of each owner and of the service
          rounds,    \* rounds of completion listeners each job has had
          notices,   \* notices delivered for each job
          told,      \* jobs whose terminal status a caller has been handed
          claimed    \* jobs a kill or a teardown has claimed

record == <<status, stored, reported, rounds, notices>>
vars == <<record, owner, done, wait, life, told, claimed>>

Service == "service"
Owners == Agents \cup {Unowned}

\* "completed" stands for "killed" too: the registry treats them alike.
Outcome == {"completed", "failed"}
Status  == {"none", "running", "stopping"} \cup Outcome

Terminal(j) == status[j] \in Outcome
Active(j)   == status[j] \in {"running", "stopping"}

NoWait == [job |-> "none", at |-> "idle"]
Wait == {NoWait} \cup
        [job : Jobs, at : {"pending", "released", "timed out", "aborted"}]

Init ==
  /\ status = [j \in Jobs |-> "none"]
  /\ owner = [j \in Jobs |-> Unowned]
  /\ stored = {} /\ reported = {}
  /\ done = [j \in Jobs |-> "open"]
  /\ wait = [w \in Waits |-> NoWait]
  /\ life = [a \in Agents \cup {Service} |-> "live"]
  /\ rounds = [j \in Jobs |-> 0] /\ notices = [j \in Jobs |-> 0]
  /\ told = {} /\ claimed = {}

-----------------------------------------------------------------------------
(* Helpers *)

\* An aborted wait is uncounted at once, any other by its continuation.
\* CountsAborted leaves every wait to its continuation.
CountsAborted == {"pending", "released", "timed out", "aborted"}
Counted == {"pending", "released", "timed out"}

\* job.waiters.
Waiters(j) == {w \in Waits : wait[w].job = j /\ wait[w].at \in Counted}

\* activeTaskCount of one owner's bucket.
ActiveJobs(o) == {j \in stored : owner[j] = o /\ Active(j)}

\* settle's first-wins check.  LastWins records every outcome.
LastWins(j) == TRUE
Unsettled(j) == ~Terminal(j)

\* What settling the jobs S does to the waits on them and to the listeners;
\* `claims` are the jobs already claimed when it happens.
Settle(S, claims) ==
  LET quiet == reported \cup claims \cup {j \in S : Waiters(j) # {}}
      heard == IF life'[Service] = "live" THEN S ELSE {}
      noted == {j \in heard \ quiet : owner[j] # Unowned}
  IN /\ reported' = quiet
     /\ wait' = [w \in Waits |->
                   IF wait[w].job \in S /\ wait[w].at = "pending"
                   THEN [wait[w] EXCEPT !.at = "released"] ELSE wait[w]]
     /\ rounds' = [j \in Jobs |-> rounds[j] + IF j \in heard THEN 1 ELSE 0]
     /\ notices' = [j \in Jobs |-> notices[j] + IF j \in noted THEN 1 ELSE 0]

\* cancelForTeardown claims a record before its producer runs.  ClaimsStopped
\* claims the ones whose cancel returned.
ClaimsStopped(live, thrown) == live \ thrown
TeardownClaims(live, thrown) == live

\* A record whose cancel threw is failed by force.  LeavesRunning waits for
\* its producer like for any other.
LeavesRunning(thrown) == {}
ForceFailed(thrown) == thrown

\* A teardown awaits the terminal record of every job it cancelled.  Hurries
\* drops the records at once.
Hurries(S) == TRUE
Quiescent(S) == \A j \in S : Terminal(j)

\* cancelForTeardown over the jobs S: each cancel returns or throws.
CancelForTeardown(S) ==
  LET live == {j \in S : ~Terminal(j)} IN
  \E thrown \in SUBSET live :
    /\ Settle(ForceFailed(thrown), TeardownClaims(live, thrown))
    /\ status' = [j \in Jobs |-> CASE j \in ForceFailed(thrown) -> "failed"
                                   [] j \in live \ thrown -> "stopping"
                                   [] OTHER -> status[j]]
    /\ claimed' = claimed \cup live

-----------------------------------------------------------------------------
(* The registry's methods; each fails once the service is unloading *)

Live == life[Service] = "live"

\* start: a live owner with room in its bucket, and a starter that returns.
Start(j, o) ==
  /\ Live /\ status[j] = "none"
  /\ o \in Agents => life[o] = "live"
  /\ Cardinality(ActiveJobs(o)) < Limit
  /\ status' = [status EXCEPT ![j] = "running"]
  /\ owner' = [owner EXCEPT ![j] = o]
  /\ stored' = stored \cup {j}
  /\ UNCHANGED <<reported, rounds, notices, done, wait, life, told,
                 claimed>>

\* read, and kill of a job that has already finished: the caller is handed the
\* terminal status.
ReadTerminal(j) ==
  /\ Live /\ j \in stored /\ Terminal(j)
  /\ reported' = reported \cup {j}
  /\ told' = told \cup {j}
  /\ UNCHANGED <<status, stored, rounds, notices, owner, done, wait,
                 life, claimed>>

\* kill of a live job; a cancel that throws leaves everything as it was.
Kill(j) ==
  /\ Live /\ j \in stored /\ ~Terminal(j)
  /\ status' = [status EXCEPT ![j] = "stopping"]
  /\ reported' = reported \cup {j}
  /\ claimed' = claimed \cup {j}
  /\ UNCHANGED <<stored, rounds, notices, owner, done, wait, life, told>>

\* wait on a live job; on a finished one it is a read.
WaitCall(w, j) ==
  /\ Live /\ wait[w] = NoWait
  /\ j \in stored /\ ~Terminal(j)
  /\ wait' = [wait EXCEPT ![w] = [job |-> j, at |-> "pending"]]
  /\ UNCHANGED <<record, owner, done, life, told, claimed>>

\* The deadline expires, or the caller's signal aborts: the resolver goes.
WaitStop(w, at) ==
  /\ wait[w].at = "pending"
  /\ wait' = [wait EXCEPT ![w].at = at]
  /\ UNCHANGED <<record, owner, done, life, told, claimed>>

\* The continuation of a wait: the aborted one rejects, the others return the
\* snapshot of the moment.
WaitReturn(w) ==
  /\ wait[w].at \in {"released", "timed out", "aborted"}
  /\ wait' = [wait EXCEPT ![w] = NoWait]
  /\ LET hands == {j \in {wait[w].job} : Terminal(j) /\ wait[w].at # "aborted"}
     IN reported' = reported \cup hands /\ told' = told \cup hands
  /\ UNCHANGED <<status, stored, rounds, notices, owner, done, life,
                 claimed>>

-----------------------------------------------------------------------------
(* Producers *)

\* A producer's work ends: its promise resolves, or rejects ("failed").
Finish(j, outcome) ==
  /\ status[j] # "none" /\ done[j] = "open"
  /\ done' = [done EXCEPT ![j] = outcome]
  /\ UNCHANGED <<record, owner, wait, life, told, claimed>>

\* The continuation of that promise settles the job unless something has.
SettleDone(j) ==
  /\ done[j] \in Outcome
  /\ done' = [done EXCEPT ![j] = "settled"] /\ UNCHANGED life
  /\ IF Unsettled(j)
     THEN Settle({j}, {}) /\ status' = [status EXCEPT ![j] = done[j]]
     ELSE UNCHANGED <<status, reported, rounds, notices, wait>>
  /\ UNCHANGED <<stored, owner, told, claimed>>

-----------------------------------------------------------------------------
(* Disposal *)

\* The scope of an owner unloads: its jobs are cancelled and awaited.
DisposeOwner(a) ==
  /\ life[a] = "live"
  /\ life' = [life EXCEPT ![a] = "draining"]
  /\ CancelForTeardown({j \in stored : owner[j] = a})
  /\ UNCHANGED <<stored, owner, done, told>>

\* They have settled: their records go.
OwnerGone(a) ==
  /\ life[a] = "draining"
  /\ Quiescent({j \in stored : owner[j] = a})
  /\ life' = [life EXCEPT ![a] = "gone"]
  /\ stored' = {j \in stored : owner[j] # a}
  /\ UNCHANGED <<status, reported, rounds, notices, owner, done,
                 wait, told, claimed>>

\* The service unloads: the listeners are closed before anything is cancelled.
DisposeService ==
  /\ Live
  /\ life' = [life EXCEPT ![Service] = "draining"]
  /\ CancelForTeardown(stored)
  /\ UNCHANGED <<stored, owner, done, told>>

ServiceGone ==
  /\ life[Service] = "draining"
  /\ Quiescent(stored)
  /\ life' = [life EXCEPT ![Service] = "gone"]
  /\ stored' = {}
  /\ UNCHANGED <<status, reported, rounds, notices, owner, done,
                 wait, told, claimed>>

-----------------------------------------------------------------------------

Next ==
  \/ \E j \in Jobs :
       \/ \E o \in Owners : Start(j, o)
       \/ ReadTerminal(j) \/ Kill(j) \/ SettleDone(j)
       \/ \E outcome \in Outcome : Finish(j, outcome)
       \/ \E w \in Waits : WaitCall(w, j)
  \/ \E w \in Waits :
       WaitStop(w, "timed out") \/ WaitStop(w, "aborted") \/ WaitReturn(w)
  \/ \E a \in Agents : DisposeOwner(a) \/ OwnerGone(a)
  \/ DisposeService \/ ServiceGone

Spec == Init /\ [][Next]_vars

\* Continuations run, a cancel that returned gets its producer to stop, and a
\* wait has a deadline.  Nothing says when a producer finishes by itself.
FairSpec ==
  /\ Spec
  /\ \A j \in Jobs : /\ WF_vars(SettleDone(j))
                    /\ WF_vars(status[j] = "stopping" /\ Finish(j, "completed"))
  /\ \A w \in Waits : WF_vars(WaitReturn(w)) /\ WF_vars(WaitStop(w, "timed out"))
  /\ \A a \in Agents : WF_vars(OwnerGone(a))
  /\ WF_vars(ServiceGone)

-----------------------------------------------------------------------------
(* Properties *)

\* Every job is of one life: a record is kept from its start until it is
\* terminal, and nothing is reported of one that never started
\* (start, disposeOwned, disposeAll).
TypeOK ==
  /\ status \in [Jobs -> Status]
  /\ owner \in [Jobs -> Owners]
  /\ stored \in SUBSET Jobs /\ reported \in SUBSET Jobs
  /\ \A j \in Jobs : j \notin stored => Terminal(j) \/ status[j] = "none"
  /\ \A j \in stored : status[j] # "none"
  /\ done \in [Jobs -> Outcome \cup {"open", "settled"}]
  /\ wait \in [Waits -> Wait]
  /\ life \in [Agents \cup {Service} -> {"live", "draining", "gone"}]
  /\ rounds \in [Jobs -> Nat] /\ notices \in [Jobs -> Nat]
  /\ told \in SUBSET Jobs /\ claimed \in SUBSET Jobs

\* A wait that will hand its caller the terminal status.
Owes(w, j) == wait[w].job = j /\ wait[w].at \in {"released", "timed out"}

\* Nobody swallows a completion: a terminal job of a live owner has been
\* announced to it, unless a caller knows its status, is about to be handed
\* it, or gave the job up - whichever of the settlement, the deadline and the
\* abort of a wait came first (wait, settle).
NoticeOwed ==
  \A j \in Jobs : Terminal(j) /\ owner[j] # Unowned /\ Live =>
     \/ notices[j] > 0
     \/ j \in told \cup claimed
     \/ \E w \in Waits : Owes(w, j)

\* The first outcome is the record for good and its listeners run in one
\* round, even when a producer settles after a teardown has failed its job
\* (settle, cancelForTeardown).
FirstOutcomeWins ==
  [][\A j \in Jobs : Terminal(j) => status'[j] = status[j]
                                  /\ rounds'[j] = rounds[j]]_vars

\* A notice goes out only to an owner that is not being torn down, of a job
\* that nobody waits for or has killed: the model turn it may start is never
\* one nobody needs (settle, kill, cancelForTeardown).
NoticeHasReader ==
  [][\A j \in Jobs : notices'[j] # notices[j] =>
        /\ life[owner[j]] = "live" /\ life'[owner[j]] = "live"
        /\ j \notin claimed
        /\ ~\E w \in Waits : wait[w].job = j /\ wait[w].at # "aborted"]_vars

\* Tearing down an owner or the service ends, whichever cancels throw
\* (disposeOwned, disposeAll, cancelForTeardown).
TeardownEnds ==
  \A a \in Agents \cup {Service} : life[a] = "draining" ~> life[a] = "gone"
=============================================================================
