-------------------------- MODULE JobsLocalProofs ---------------------------
(***************************************************************************)
(* What the job registry keeps for any jobs, owners and waits: its types,  *)
(* that no completion is swallowed, that the first outcome is final and    *)
(* that a notice has a reader.  WaitInv says that a wait still pending is  *)
(* on a live job, ClaimInv that what is reported before its outcome was    *)
(* claimed by a kill or a teardown, and DrainInv that the teardown of an   *)
(* owner has claimed all of its live jobs, and StartedInv that only a      *)
(* started job has an outcome to settle.                                   *)
(***************************************************************************)
EXTENDS JobsLocal, TLAPS

USE JobsAssumption

WaitInv ==
  \A w \in Waits : wait[w].at = "pending" =>
    wait[w].job \in Jobs /\ ~Terminal(wait[w].job)

ClaimInv ==
  /\ claimed \subseteq reported
  /\ \A j \in reported : Terminal(j) \/ j \in claimed

DrainInv ==
  \A j \in Jobs : Active(j) /\ owner[j] \in Agents /\ life[owner[j]] # "live"
                    => j \in claimed

StartedInv == \A j \in Jobs : done[j] # "open" => status[j] # "none"

Inv == TypeOK /\ WaitInv /\ ClaimInv /\ DrainInv /\ StartedInv /\ NoticeOwed

-----------------------------------------------------------------------------
(* Settling *)

\* A wait is idle exactly when it is no wait, and else it is on a job.
LEMMA WaitShape ==
  ASSUME NEW x \in Wait
  PROVE  /\ x.at = "idle" <=> x = NoWait
         /\ x # NoWait => x.job \in Jobs
         /\ x.at \in {"idle", "pending", "released", "timed out", "aborted"}
<1>1. CASE x = NoWait
  BY <1>1 DEF NoWait
<1>2. CASE x # NoWait
  <2>1. x \in [job : Jobs, at : {"pending", "released", "timed out", "aborted"}]
    BY <1>2 DEF Wait
  <2> QED BY <1>2, <2>1
<1> QED BY <1>1, <1>2

\* What settling does to the claims, the waits and the notices: nothing that
\* was owed is dropped, and each settled job of an owner is reported already,
\* owed by a wait or announced.
LEMMA SettleEffect ==
  ASSUME TypeOK, NEW S \in SUBSET Jobs, NEW claims \in SUBSET Jobs,
         Settle(S, claims)
  PROVE  /\ reported' \in SUBSET Jobs
         /\ wait' \in [Waits -> Wait]
         /\ rounds' \in [Jobs -> Nat] /\ notices' \in [Jobs -> Nat]
         /\ reported \cup claims \subseteq reported'
         /\ reported' \subseteq reported \cup claims \cup S
         /\ \A j \in Jobs \ S : rounds'[j] = rounds[j]
         /\ \A j \in Jobs : notices'[j] >= notices[j]
         /\ \A j \in Jobs : notices'[j] # notices[j] =>
              /\ j \in S /\ owner[j] # Unowned
              /\ j \notin reported \cup claims /\ Waiters(j) = {}
         /\ \A w \in Waits, j \in Jobs : Owes(w, j) => Owes(w, j)'
         /\ \A w \in Waits : wait'[w].at = "pending" =>
              wait'[w] = wait[w] /\ wait[w].job \notin S
         /\ \A j \in S : owner[j] # Unowned /\ life'[Service] = "live" =>
              \/ j \in reported \cup claims \/ notices'[j] > 0
              \/ \E w \in Waits : Owes(w, j)'
<1> USE DEF TypeOK
<1> DEFINE quiet == reported \cup claims \cup {j \in S : Waiters(j) # {}}
           heard == IF life'[Service] = "live" THEN S ELSE {}
           noted == {j \in heard \ quiet : owner[j] # Unowned}
<1>1. /\ reported' = quiet
      /\ wait' = [w \in Waits |->
                    IF wait[w].job \in S /\ wait[w].at = "pending"
                    THEN [wait[w] EXCEPT !.at = "released"] ELSE wait[w]]
      /\ rounds' = [j \in Jobs |-> rounds[j] + IF j \in heard THEN 1 ELSE 0]
      /\ notices' = [j \in Jobs |-> notices[j] + IF j \in noted THEN 1 ELSE 0]
  BY DEF Settle
<1>2. heard \subseteq S /\ noted \subseteq heard \ quiet
  OBVIOUS
<1>3. reported' \in SUBSET Jobs /\ reported \cup claims \subseteq reported'
      /\ reported' \subseteq reported \cup claims \cup S
  BY <1>1
<1>4. ASSUME NEW w \in Waits
      PROVE  /\ wait'[w] \in Wait
             /\ \A j \in Jobs : Owes(w, j) => Owes(w, j)'
             /\ wait'[w].at = "pending" => wait'[w] = wait[w] /\ wait[w].job \notin S
             /\ \A j \in S : wait[w].job = j /\ wait[w].at \in Counted => Owes(w, j)'
  <2>1. CASE wait[w].job \in S /\ wait[w].at = "pending"
    <3>1. wait'[w] = [wait[w] EXCEPT !.at = "released"]
      BY <1>1, <2>1
    <3>2. wait[w] # NoWait /\ wait[w] \in Wait
      BY <2>1 DEF NoWait
    <3>3. wait[w] \in [job : Jobs, at : {"pending", "released", "timed out", "aborted"}]
      BY <3>2 DEF Wait
    <3> QED BY <3>3, <2>1, <3>1, <3>2 DEF Wait, Owes, Counted
  <2>2. CASE ~(wait[w].job \in S /\ wait[w].at = "pending")
    <3>1. wait'[w] = wait[w]
      BY <1>1, <2>2
    <3> QED BY <2>2, <3>1 DEF Owes, Counted
  <2> QED BY <2>1, <2>2
<1>5. wait' \in [Waits -> Wait]
  BY <1>1, <1>4
<1>6. ASSUME NEW j \in Jobs
      PROVE  /\ rounds'[j] = rounds[j] + IF j \in heard THEN 1 ELSE 0
             /\ notices'[j] = notices[j] + IF j \in noted THEN 1 ELSE 0
             /\ rounds[j] \in Nat /\ notices[j] \in Nat
  BY <1>1
<1>7. rounds' \in [Jobs -> Nat] /\ notices' \in [Jobs -> Nat]
  <2> HIDE DEF heard, noted
  <2> QED BY <1>1
<1>8. /\ \A j \in Jobs \ S : rounds'[j] = rounds[j]
      /\ \A j \in Jobs : notices'[j] >= notices[j]
      /\ \A j \in Jobs : notices'[j] # notices[j] => j \in noted
  <2> HIDE DEF heard, noted
  <2> QED BY <1>2, <1>6
<1>9. \A j \in noted : /\ j \in S /\ owner[j] # Unowned
                       /\ j \notin reported \cup claims /\ Waiters(j) = {}
  OBVIOUS
<1>10. ASSUME NEW j \in S, owner[j] # Unowned, life'[Service] = "live"
       PROVE  \/ j \in reported \cup claims \/ notices'[j] > 0
              \/ \E w \in Waits : Owes(w, j)'
  <2>1. CASE Waiters(j) # {}
    <3>1. PICK w \in Waits : wait[w].job = j /\ wait[w].at \in Counted
      BY <2>1 DEF Waiters
    <3> QED BY <1>4, <3>1
  <2>2. CASE Waiters(j) = {} /\ j \notin reported \cup claims
    <3>1. j \in noted
      BY <1>10, <2>2
    <3> HIDE DEF noted
    <3> QED BY <1>6, <3>1
  <2> QED BY <2>1, <2>2
<1> HIDE DEF quiet, heard, noted
<1> QED BY <1>3, <1>4, <1>5, <1>7, <1>8, <1>9, <1>10

\* The parts of it that concern the claims, the waits and the rounds.
LEMMA SettleClaims ==
  ASSUME TypeOK, NEW S \in SUBSET Jobs, NEW claims \in SUBSET Jobs,
         Settle(S, claims)
  PROVE  /\ reported \cup claims \subseteq reported'
         /\ reported' \subseteq reported \cup claims \cup S
<1>1. reported' = reported \cup claims \cup {j \in S : Waiters(j) # {}}
  BY DEF Settle
<1> QED BY <1>1

LEMMA SettleWaits ==
  ASSUME TypeOK, NEW S \in SUBSET Jobs, NEW claims \in SUBSET Jobs,
         Settle(S, claims), NEW w \in Waits, wait'[w].at = "pending"
  PROVE  wait'[w] = wait[w] /\ wait[w].job \notin S
<1>1. wait' = [v \in Waits |->
                 IF wait[v].job \in S /\ wait[v].at = "pending"
                 THEN [wait[v] EXCEPT !.at = "released"] ELSE wait[v]]
  BY DEF Settle
<1>2. CASE wait[w].job \in S /\ wait[w].at = "pending"
  <2>1. wait[w] \in Wait
    BY DEF TypeOK
  <2>2. wait'[w].at = "released"
    BY <1>1, <1>2, <2>1 DEF Wait, NoWait
  <2> QED BY <2>2
<1>3. CASE ~(wait[w].job \in S /\ wait[w].at = "pending")
  BY <1>1, <1>3
<1> QED BY <1>2, <1>3

LEMMA SettleRounds ==
  ASSUME TypeOK, NEW S \in SUBSET Jobs, NEW claims \in SUBSET Jobs,
         Settle(S, claims), NEW j \in Jobs \ S
  PROVE  rounds'[j] = rounds[j]
<1> DEFINE heard == IF life'[Service] = "live" THEN S ELSE {}
<1>1. rounds' = [k \in Jobs |-> rounds[k] + IF k \in heard THEN 1 ELSE 0]
  BY DEF Settle
<1>2. j \notin heard /\ rounds[j] \in Nat
  BY DEF TypeOK
<1> HIDE DEF heard
<1> QED BY <1>1, <1>2

\* Of each job a teardown cancels the status and the claim, whichever cancels
\* throw; all others keep theirs.
LEMMA TeardownEffect ==
  ASSUME TypeOK, NEW S \in SUBSET stored, CancelForTeardown(S)
  PROVE  \E thrown \in SUBSET Jobs, live \in SUBSET Jobs :
           /\ live = {j \in S : ~Terminal(j)} /\ thrown \subseteq live
           /\ Settle(thrown, live)
           /\ claimed' = claimed \cup live
           /\ status' \in [Jobs -> Status]
           /\ \A j \in thrown : status'[j] = "failed"
           /\ \A j \in live \ thrown : status'[j] = "stopping"
           /\ \A j \in Jobs \ live : status'[j] = status[j]
<1> DEFINE live == {j \in S : ~Terminal(j)}
<1>1. PICK thrown \in SUBSET live :
        /\ Settle(thrown, live)
        /\ status' = [j \in Jobs |-> CASE j \in thrown -> "failed"
                                       [] j \in live \ thrown -> "stopping"
                                       [] OTHER -> status[j]]
        /\ claimed' = claimed \cup live
  BY DEF CancelForTeardown, ForceFailed, TeardownClaims
<1>2. live \in SUBSET Jobs /\ thrown \in SUBSET Jobs /\ thrown \subseteq live
  BY DEF TypeOK
<1> HIDE DEF live
<1>3. /\ \A j \in thrown : status'[j] = "failed"
      /\ \A j \in live \ thrown : status'[j] = "stopping"
      /\ \A j \in Jobs \ live : status'[j] = status[j]
  BY <1>1, <1>2
<1>4. \A j \in Jobs : status'[j] \in Status
  BY <1>2, <1>3 DEF TypeOK, Status, Outcome
<1>5. status' \in [Jobs -> Status]
  BY <1>1, <1>4
<1>6. live = {j \in S : ~Terminal(j)}
  BY DEF live
<1> QED BY <1>1, <1>2, <1>3, <1>5, <1>6

-----------------------------------------------------------------------------
(* One step at a time *)

\* The settlement of one job records its outcome, once.
LEMMA SettleDoneEffect ==
  ASSUME TypeOK, NEW j \in Jobs, SettleDone(j)
  PROVE  /\ done' \in [Jobs -> Outcome \cup {"open", "settled"}]
         /\ \/ /\ ~Terminal(j) /\ Settle({j}, {})
               /\ status' \in [Jobs -> Status] /\ status'[j] \in Outcome
               /\ \A k \in Jobs \ {j} : status'[k] = status[k]
            \/ Terminal(j) /\ UNCHANGED <<status, reported, rounds, notices, wait>>
         /\ UNCHANGED <<stored, owner, life, told, claimed>>
<1> USE DEF TypeOK
<1>1. /\ done' = [done EXCEPT ![j] = "settled"] /\ done[j] \in Outcome
      /\ UNCHANGED <<stored, owner, life, told, claimed>>
  BY DEF SettleDone
<1>2. CASE ~Terminal(j)
  <2>1. Settle({j}, {}) /\ status' = [status EXCEPT ![j] = done[j]]
    BY <1>2 DEF SettleDone, Unsettled
  <2> QED BY <1>1, <1>2, <2>1 DEF Status
<1>3. CASE Terminal(j)
  BY <1>1, <1>3 DEF SettleDone, Unsettled
<1> QED BY <1>2, <1>3

\* Every step of the registry keeps its types.
LEMMA TypeStep ==
  ASSUME TypeOK, [Next]_vars
  PROVE  TypeOK'
<1> USE DEF TypeOK, Terminal, Status, Outcome, record
<1>1. ASSUME NEW j \in Jobs, NEW o \in Owners, Start(j, o)
      PROVE  TypeOK'
  BY <1>1 DEF Start, Active
<1>2. ASSUME NEW j \in Jobs, ReadTerminal(j)
      PROVE  TypeOK'
  BY <1>2 DEF ReadTerminal
<1>3. ASSUME NEW j \in Jobs, Kill(j)
      PROVE  TypeOK'
  BY <1>3 DEF Kill
<1>4. ASSUME NEW j \in Jobs, SettleDone(j)
      PROVE  TypeOK'
  <2>1. CASE ~Terminal(j)
    <3>1. /\ Settle({j}, {}) /\ status' \in [Jobs -> Status] /\ status'[j] \in Outcome
          /\ \A k \in Jobs \ {j} : status'[k] = status[k]
          /\ done' \in [Jobs -> Outcome \cup {"open", "settled"}]
          /\ UNCHANGED <<stored, owner, life, told, claimed>>
      BY <1>4, <2>1, SettleDoneEffect
    <3>2. /\ reported' \in SUBSET Jobs /\ wait' \in [Waits -> Wait]
          /\ rounds' \in [Jobs -> Nat] /\ notices' \in [Jobs -> Nat]
      BY <3>1, SettleEffect
    <3> QED BY <3>1, <3>2
  <2>2. CASE Terminal(j)
    BY <1>4, <2>2, SettleDoneEffect
  <2> QED BY <2>1, <2>2
<1>5. ASSUME NEW j \in Jobs, NEW outcome \in Outcome, Finish(j, outcome)
      PROVE  TypeOK'
  BY <1>5 DEF Finish
<1>6. ASSUME NEW w \in Waits, NEW j \in Jobs, WaitCall(w, j)
      PROVE  TypeOK'
  BY <1>6 DEF WaitCall, Wait
<1>7. ASSUME NEW w \in Waits, NEW at \in {"timed out", "aborted"}, WaitStop(w, at)
      PROVE  TypeOK'
  <2>1. wait[w].job \in Jobs /\ wait[w] # NoWait
    BY <1>7, WaitShape DEF WaitStop, NoWait
  <2>2. wait[w] \in [job : Jobs, at : {"pending", "released", "timed out", "aborted"}]
    BY <2>1 DEF Wait
  <2>3. wait' = [wait EXCEPT ![w] = [wait[w] EXCEPT !.at = at]]
    BY <1>7 DEF WaitStop
  <2>4. [wait[w] EXCEPT !.at = at] \in Wait
    BY <2>2 DEF Wait
  <2>5. wait' \in [Waits -> Wait]
    BY <2>3, <2>4
  <2> QED BY <1>7, <2>5 DEF WaitStop
<1>8. ASSUME NEW w \in Waits, WaitReturn(w)
      PROVE  TypeOK'
  <2>1. wait[w].job \in Jobs
    BY <1>8, WaitShape DEF WaitReturn, NoWait
  <2>2. wait' \in [Waits -> Wait]
    BY <1>8 DEF WaitReturn, Wait
  <2> QED BY <1>8, <2>1, <2>2 DEF WaitReturn
<1>9. ASSUME NEW S \in SUBSET stored, CancelForTeardown(S),
             life' \in [Agents \cup {Service} -> {"live", "draining", "gone"}],
             UNCHANGED <<stored, owner, done, told>>
      PROVE  TypeOK'
  <2>1. PICK thrown \in SUBSET Jobs, live \in SUBSET Jobs :
          /\ live = {j \in S : ~Terminal(j)} /\ thrown \subseteq live
          /\ Settle(thrown, live)
          /\ claimed' = claimed \cup live
          /\ status' \in [Jobs -> Status]
          /\ \A j \in thrown : status'[j] = "failed"
          /\ \A j \in live \ thrown : status'[j] = "stopping"
          /\ \A j \in Jobs \ live : status'[j] = status[j]
    BY <1>9, TeardownEffect
  <2>2. /\ reported' \in SUBSET Jobs /\ wait' \in [Waits -> Wait]
        /\ rounds' \in [Jobs -> Nat] /\ notices' \in [Jobs -> Nat]
    BY <2>1, SettleEffect
  <2>3. live \subseteq stored
    BY <2>1
  <2> QED BY <1>9, <2>1, <2>2, <2>3
<1>10. ASSUME NEW a \in Agents, DisposeOwner(a)
       PROVE  TypeOK'
  BY <1>9, <1>10 DEF DisposeOwner
<1>11. ASSUME NEW a \in Agents, OwnerGone(a)
       PROVE  TypeOK'
  BY <1>11 DEF OwnerGone, Quiescent
<1>12. CASE DisposeService
  BY <1>9, <1>12 DEF DisposeService, Service
<1>13. CASE ServiceGone
  BY <1>13 DEF ServiceGone, Quiescent
<1>14. CASE UNCHANGED vars
  BY <1>14 DEF vars
<1> HIDE DEF TypeOK, Terminal, Status, Outcome, record
<1> QED BY <1>1, <1>2, <1>3, <1>4, <1>5, <1>6, <1>7, <1>8, <1>10, <1>11,
           <1>12, <1>13, <1>14 DEF Next

\* The steps that end a job touch no wait but the ones they release: what is
\* still pending is pending on a live job.
LEMMA WaitStep ==
  ASSUME TypeOK, WaitInv, [Next]_vars
  PROVE  WaitInv'
<1> USE DEF TypeOK, WaitInv, Terminal, Outcome
<1>1. ASSUME NEW j \in Jobs, SettleDone(j)
      PROVE  WaitInv'
  <2>1. CASE ~Terminal(j)
    <3>1. /\ ~Terminal(j) /\ Settle({j}, {})
          /\ \A k \in Jobs \ {j} : status'[k] = status[k]
      BY <1>1, <2>1, SettleDoneEffect
    <3>2. \A w \in Waits : wait'[w].at = "pending" =>
            wait'[w] = wait[w] /\ wait[w].job \notin {j}
      <4>1. {j} \in SUBSET Jobs /\ {} \in SUBSET Jobs
        OBVIOUS
      <4> HIDE DEF TypeOK, Terminal
      <4> QED BY <3>1, <4>1, SettleWaits
    <3> QED BY <3>1, <3>2
  <2>2. CASE Terminal(j)
    BY <1>1, <2>2, SettleDoneEffect
  <2> QED BY <2>1, <2>2
<1>2. ASSUME NEW S \in SUBSET stored, CancelForTeardown(S)
      PROVE  WaitInv'
  <2>1. PICK thrown \in SUBSET Jobs, live \in SUBSET Jobs :
          /\ live = {j \in S : ~Terminal(j)} /\ thrown \subseteq live
          /\ Settle(thrown, live)
          /\ claimed' = claimed \cup live
          /\ status' \in [Jobs -> Status]
          /\ \A j \in thrown : status'[j] = "failed"
          /\ \A j \in live \ thrown : status'[j] = "stopping"
          /\ \A j \in Jobs \ live : status'[j] = status[j]
    BY <1>2, TeardownEffect
  <2>2. \A w \in Waits : wait'[w].at = "pending" =>
          wait'[w] = wait[w] /\ wait[w].job \notin thrown
    BY <2>1, SettleWaits
  <2> QED BY <2>1, <2>2
<1>3. ASSUME NEW a \in Agents, DisposeOwner(a)
      PROVE  WaitInv'
  BY <1>2, <1>3 DEF DisposeOwner
<1>4. CASE DisposeService
  BY <1>2, <1>4 DEF DisposeService
<1>5. ASSUME NEW j \in Jobs, NEW o \in Owners, Start(j, o)
      PROVE  WaitInv'
  BY <1>5 DEF Start
<1>6. ASSUME NEW j \in Jobs, ReadTerminal(j) \/ Kill(j)
      PROVE  WaitInv'
  BY <1>6 DEF ReadTerminal, Kill
<1>7. ASSUME NEW j \in Jobs, NEW outcome \in Outcome, Finish(j, outcome)
      PROVE  WaitInv'
  BY <1>7 DEF Finish, record
<1>8. ASSUME NEW w \in Waits, NEW j \in Jobs, WaitCall(w, j)
      PROVE  WaitInv'
  BY <1>8 DEF WaitCall, record
<1>9. ASSUME NEW w \in Waits, NEW at \in {"timed out", "aborted"}, WaitStop(w, at)
      PROVE  WaitInv'
  <2>1. wait' = [wait EXCEPT ![w] = [wait[w] EXCEPT !.at = at]] /\ UNCHANGED status
    BY <1>9 DEF WaitStop, record
  <2>2. wait[w] \in Wait /\ wait[w].at = "pending"
    BY <1>9 DEF WaitStop
  <2>3. [wait[w] EXCEPT !.at = at].at # "pending"
    BY <2>2 DEF Wait, NoWait
  <2> QED BY <2>1, <2>3
<1>10. ASSUME NEW w \in Waits, WaitReturn(w)
       PROVE  WaitInv'
  BY <1>10 DEF WaitReturn, NoWait
<1>11. ASSUME NEW a \in Agents, OwnerGone(a)
       PROVE  WaitInv'
  BY <1>11 DEF OwnerGone
<1>12. CASE ServiceGone
  BY <1>12 DEF ServiceGone
<1>13. CASE UNCHANGED vars
  BY <1>13 DEF vars, record
<1> HIDE DEF TypeOK, WaitInv, ClaimInv, DrainInv
<1> QED BY <1>1, <1>3, <1>4, <1>5, <1>6, <1>7, <1>8, <1>9, <1>10, <1>11,
           <1>12, <1>13 DEF Next

\* A report before the outcome is a claim, and only live jobs are claimed.
LEMMA ClaimStep ==
  ASSUME TypeOK, ClaimInv, [Next]_vars
  PROVE  ClaimInv'
<1> USE DEF TypeOK, ClaimInv, Terminal, Outcome
<1>1. ASSUME NEW j \in Jobs, SettleDone(j)
      PROVE  ClaimInv'
  <2>1. CASE ~Terminal(j)
    <3>1. /\ ~Terminal(j) /\ Settle({j}, {}) /\ status'[j] \in Outcome
          /\ \A k \in Jobs \ {j} : status'[k] = status[k]
          /\ UNCHANGED claimed
      BY <1>1, <2>1, SettleDoneEffect
    <3>2. /\ reported \cup {} \subseteq reported'
          /\ reported' \subseteq reported \cup {} \cup {j}
      <4>1. {j} \in SUBSET Jobs /\ {} \in SUBSET Jobs
        OBVIOUS
      <4> HIDE DEF TypeOK, Terminal
      <4> QED BY <3>1, <4>1, SettleClaims
    <3> QED BY <3>1, <3>2
  <2>2. CASE Terminal(j)
    BY <1>1, <2>2, SettleDoneEffect
  <2> QED BY <2>1, <2>2
<1>2. ASSUME NEW S \in SUBSET stored, CancelForTeardown(S)
      PROVE  ClaimInv'
  <2>1. PICK thrown \in SUBSET Jobs, live \in SUBSET Jobs :
          /\ live = {j \in S : ~Terminal(j)} /\ thrown \subseteq live
          /\ Settle(thrown, live)
          /\ claimed' = claimed \cup live
          /\ status' \in [Jobs -> Status]
          /\ \A j \in thrown : status'[j] = "failed"
          /\ \A j \in live \ thrown : status'[j] = "stopping"
          /\ \A j \in Jobs \ live : status'[j] = status[j]
    BY <1>2, TeardownEffect
  <2>2. /\ reported \cup live \subseteq reported'
        /\ reported' \subseteq reported \cup live
    BY <2>1, SettleClaims
  <2> QED BY <2>1, <2>2
<1>3. ASSUME NEW a \in Agents, DisposeOwner(a)
      PROVE  ClaimInv'
  BY <1>2, <1>3 DEF DisposeOwner
<1>4. CASE DisposeService
  BY <1>2, <1>4 DEF DisposeService
<1>5. ASSUME NEW j \in Jobs, NEW o \in Owners, Start(j, o)
      PROVE  ClaimInv'
  BY <1>5 DEF Start
<1>6. ASSUME NEW j \in Jobs, ReadTerminal(j) \/ Kill(j)
      PROVE  ClaimInv'
  BY <1>6 DEF ReadTerminal, Kill
<1>7. ASSUME NEW w \in Waits, WaitReturn(w)
      PROVE  ClaimInv'
  BY <1>7 DEF WaitReturn
<1>8. ASSUME UNCHANGED <<status, reported, claimed>>
      PROVE  ClaimInv'
  BY <1>8
<1>9. ASSUME NEW j \in Jobs, NEW outcome \in Outcome, Finish(j, outcome)
      PROVE  ClaimInv'
  BY <1>8, <1>9 DEF Finish, record
<1>10. ASSUME NEW w \in Waits, NEW j \in Jobs, WaitCall(w, j)
       PROVE  ClaimInv'
  BY <1>8, <1>10 DEF WaitCall, record
<1>11. ASSUME NEW w \in Waits, NEW at \in {"timed out", "aborted"}, WaitStop(w, at)
       PROVE  ClaimInv'
  BY <1>8, <1>11 DEF WaitStop, record
<1>12. ASSUME NEW a \in Agents, OwnerGone(a)
       PROVE  ClaimInv'
  BY <1>8, <1>12 DEF OwnerGone
<1>13. CASE ServiceGone \/ UNCHANGED vars
  BY <1>8, <1>13 DEF ServiceGone, vars, record
<1> HIDE DEF TypeOK, WaitInv, ClaimInv, DrainInv
<1> QED BY <1>1, <1>3, <1>4, <1>5, <1>6, <1>7, <1>9, <1>10, <1>11, <1>12,
           <1>13 DEF Next

\* No job starts under an owner that is being torn down, and the teardown
\* claims every live one in the step that begins it.
LEMMA DrainStep ==
  ASSUME TypeOK, DrainInv, [Next]_vars
  PROVE  DrainInv'
<1> USE DEF TypeOK, DrainInv, Terminal, Active, Outcome
<1>1. ASSUME NEW j \in Jobs, SettleDone(j)
      PROVE  DrainInv'
  BY <1>1, SettleDoneEffect
<1>2. ASSUME NEW S \in SUBSET stored, CancelForTeardown(S), UNCHANGED owner,
             \A j \in stored : owner[j] \in Agents /\ life'[owner[j]] # "live"
               => j \in S \/ life[owner[j]] # "live"
      PROVE  DrainInv'
  <2>1. PICK thrown \in SUBSET Jobs, live \in SUBSET Jobs :
          /\ live = {j \in S : ~Terminal(j)} /\ thrown \subseteq live
          /\ Settle(thrown, live)
          /\ claimed' = claimed \cup live
          /\ status' \in [Jobs -> Status]
          /\ \A j \in thrown : status'[j] = "failed"
          /\ \A j \in live \ thrown : status'[j] = "stopping"
          /\ \A j \in Jobs \ live : status'[j] = status[j]
    BY <1>2, TeardownEffect
  <2>2. ASSUME NEW j \in Jobs, Active(j)', owner[j] \in Agents, life'[owner[j]] # "live"
        PROVE  j \in claimed'
    <3>1. CASE j \in live
      BY <2>1, <3>1
    <3>2. CASE j \notin live
      <4>1. Active(j)
        BY <2>1, <2>2, <3>2
      <4>2. j \in stored /\ ~Terminal(j)
        BY <4>1
      <4>3. life[owner[j]] # "live"
        BY <1>2, <2>1, <2>2, <3>2, <4>2
      <4> QED BY <2>1, <2>2, <4>1, <4>3
    <3> QED BY <3>1, <3>2
  <2> QED BY <1>2, <2>2
<1>3. ASSUME NEW a \in Agents, DisposeOwner(a)
      PROVE  DrainInv'
  BY <1>2, <1>3 DEF DisposeOwner
<1>4. CASE DisposeService
  BY <1>2, <1>4 DEF DisposeService, Service
<1>5. ASSUME NEW j \in Jobs, NEW o \in Owners, Start(j, o)
      PROVE  DrainInv'
  BY <1>5 DEF Start, Owners
<1>6. ASSUME NEW j \in Jobs, ReadTerminal(j) \/ Kill(j)
      PROVE  DrainInv'
  BY <1>6 DEF ReadTerminal, Kill
<1>7. ASSUME UNCHANGED <<status, owner, life, claimed>>
      PROVE  DrainInv'
  BY <1>7
<1>8. ASSUME NEW j \in Jobs, NEW outcome \in Outcome, Finish(j, outcome)
      PROVE  DrainInv'
  BY <1>7, <1>8 DEF Finish, record
<1>9. ASSUME NEW w \in Waits, NEW j \in Jobs, WaitCall(w, j)
      PROVE  DrainInv'
  BY <1>7, <1>9 DEF WaitCall, record
<1>10. ASSUME NEW w \in Waits, NEW at \in {"timed out", "aborted"}, WaitStop(w, at)
       PROVE  DrainInv'
  BY <1>7, <1>10 DEF WaitStop, record
<1>11. ASSUME NEW w \in Waits, WaitReturn(w)
       PROVE  DrainInv'
  BY <1>7, <1>11 DEF WaitReturn
<1>12. ASSUME NEW a \in Agents, OwnerGone(a)
       PROVE  DrainInv'
  BY <1>12 DEF OwnerGone
<1>13. CASE ServiceGone
  BY <1>13 DEF ServiceGone, Service
<1>14. CASE UNCHANGED vars
  BY <1>7, <1>14 DEF vars, record
<1> HIDE DEF TypeOK, WaitInv, ClaimInv, DrainInv
<1> QED BY <1>1, <1>3, <1>4, <1>5, <1>6, <1>8, <1>9, <1>10, <1>11, <1>12,
           <1>13, <1>14 DEF Next

\* A producer resolves after its start, and no record returns to no status.
LEMMA StartedStep ==
  ASSUME TypeOK, StartedInv, [Next]_vars
  PROVE  StartedInv'
<1> USE DEF TypeOK, StartedInv
<1>1. ASSUME NEW j \in Jobs, SettleDone(j)
      PROVE  StartedInv'
  <2>1. /\ \A k \in Jobs \ {j} : done'[k] = done[k]
        /\ done[j] # "open"
    BY <1>1 DEF SettleDone, Outcome
  <2>2. /\ \A k \in Jobs \ {j} : status'[k] = status[k]
        /\ status'[j] \in Outcome \/ status'[j] = status[j]
    BY <1>1, SettleDoneEffect
  <2> QED BY <2>1, <2>2 DEF Outcome
<1>2. ASSUME NEW S \in SUBSET stored, CancelForTeardown(S), UNCHANGED done
      PROVE  StartedInv'
  <2>1. PICK thrown \in SUBSET Jobs, live \in SUBSET Jobs :
          /\ live = {j \in S : ~Terminal(j)} /\ thrown \subseteq live
          /\ Settle(thrown, live)
          /\ claimed' = claimed \cup live
          /\ status' \in [Jobs -> Status]
          /\ \A j \in thrown : status'[j] = "failed"
          /\ \A j \in live \ thrown : status'[j] = "stopping"
          /\ \A j \in Jobs \ live : status'[j] = status[j]
    BY <1>2, TeardownEffect
  <2> QED BY <1>2, <2>1
<1>3. ASSUME NEW a \in Agents, DisposeOwner(a)
      PROVE  StartedInv'
  BY <1>2, <1>3 DEF DisposeOwner
<1>4. CASE DisposeService
  BY <1>2, <1>4 DEF DisposeService
<1>5. ASSUME NEW j \in Jobs, NEW o \in Owners, Start(j, o)
      PROVE  StartedInv'
  BY <1>5 DEF Start
<1>6. ASSUME NEW j \in Jobs, ReadTerminal(j) \/ Kill(j)
      PROVE  StartedInv'
  BY <1>6 DEF ReadTerminal, Kill
<1>7. ASSUME NEW j \in Jobs, NEW outcome \in Outcome, Finish(j, outcome)
      PROVE  StartedInv'
  BY <1>7 DEF Finish, record
<1>8. ASSUME NEW w \in Waits, NEW j \in Jobs, WaitCall(w, j)
      PROVE  StartedInv'
  BY <1>8 DEF WaitCall, record
<1>9. ASSUME NEW w \in Waits, NEW at \in {"timed out", "aborted"}, WaitStop(w, at)
      PROVE  StartedInv'
  BY <1>9 DEF WaitStop, record
<1>10. ASSUME NEW w \in Waits, WaitReturn(w)
       PROVE  StartedInv'
  BY <1>10 DEF WaitReturn
<1>11. ASSUME NEW a \in Agents, OwnerGone(a)
       PROVE  StartedInv'
  BY <1>11 DEF OwnerGone
<1>12. CASE ServiceGone \/ UNCHANGED vars
  BY <1>12 DEF ServiceGone, vars, record
<1> HIDE DEF TypeOK, StartedInv
<1> QED BY <1>1, <1>3, <1>4, <1>5, <1>6, <1>7, <1>8, <1>9, <1>10, <1>11,
           <1>12 DEF Next

\* How a terminal job of an owner is accounted for.
Answered(j) ==
  notices[j] > 0 \/ j \in told \cup claimed \/ \E w \in Waits : Owes(w, j)

\* Settling keeps what was accounted for, and accounts for what it settles: a
\* report without a claim would be a hole, and ClaimInv says there is none.
LEMMA SettleAnswers ==
  ASSUME TypeOK, ClaimInv, NEW S \in SUBSET Jobs, NEW claims \in SUBSET Jobs,
         Settle(S, claims), \A j \in S : ~Terminal(j),
         told' = told, claimed' = claimed \cup claims, NEW j \in Jobs
  PROVE  /\ Answered(j) => Answered(j)'
         /\ j \in S /\ owner[j] # Unowned /\ life'[Service] = "live" => Answered(j)'
<1>1. /\ \A k \in Jobs : notices'[k] >= notices[k]
      /\ \A w \in Waits, k \in Jobs : Owes(w, k) => Owes(w, k)'
      /\ notices' \in [Jobs -> Nat]
      /\ \A k \in S : owner[k] # Unowned /\ life'[Service] = "live" =>
           \/ k \in reported \cup claims \/ notices'[k] > 0
           \/ \E w \in Waits : Owes(w, k)'
  BY SettleEffect
<1>2. notices[j] \in Nat /\ notices'[j] \in Nat /\ notices'[j] >= notices[j]
  BY <1>1 DEF TypeOK
<1>3. Answered(j) => Answered(j)'
  <2>1. CASE notices[j] > 0
    BY <1>2, <2>1 DEF Answered
  <2>2. CASE j \in told \cup claimed
    BY <2>2 DEF Answered
  <2>3. ASSUME NEW w \in Waits, Owes(w, j)
        PROVE  Answered(j)'
    BY <1>1, <2>3 DEF Answered
  <2> QED BY <2>1, <2>2, <2>3 DEF Answered
<1>4. ASSUME j \in S, owner[j] # Unowned, life'[Service] = "live"
      PROVE  Answered(j)'
  <2>1. j \in reported => j \in claimed
    BY <1>4 DEF ClaimInv
  <2>2. CASE j \in reported \cup claims
    BY <2>1, <2>2 DEF Answered
  <2>3. CASE notices'[j] > 0
    BY <2>3 DEF Answered
  <2>4. CASE \E w \in Waits : Owes(w, j)'
    BY <2>4 DEF Answered
  <2> QED BY <1>1, <1>4, <2>2, <2>3, <2>4
<1> QED BY <1>3, <1>4

\* No step leaves a completion of a live owner to nobody.
LEMMA NoticeStep ==
  ASSUME Inv, [Next]_vars
  PROVE  NoticeOwed'
<1> USE DEF Inv
<1> SUFFICES ASSUME NEW j \in Jobs, Terminal(j)', owner'[j] # Unowned, Live'
             PROVE  Answered(j)'
  BY DEF NoticeOwed, Answered
<1>0. Terminal(j) /\ owner[j] # Unowned /\ Live => Answered(j)
  BY DEF NoticeOwed, Answered
<1>1. ASSUME NEW k \in Jobs, SettleDone(k)
      PROVE  Answered(j)'
  <2>1. UNCHANGED <<owner, life, told, claimed>> /\ Live
    BY <1>1, SettleDoneEffect DEF Live
  <2>2. CASE ~Terminal(k)
    <3>1. /\ Settle({k}, {})
          /\ \A i \in Jobs \ {k} : status'[i] = status[i]
      BY <1>1, <2>2, SettleDoneEffect
    <3>2. /\ {k} \in SUBSET Jobs /\ {} \in SUBSET Jobs
          /\ \A i \in {k} : ~Terminal(i)
          /\ told' = told /\ claimed' = claimed \cup {}
      BY <2>1, <2>2
    <3>3. /\ Answered(j) => Answered(j)'
          /\ j \in {k} /\ owner[j] # Unowned /\ life'[Service] = "live" => Answered(j)'
      BY <3>1, <3>2, SettleAnswers
    <3>4. CASE j = k
      BY <2>1, <3>3, <3>4 DEF Live
    <3>5. CASE j # k
      BY <1>0, <2>1, <3>1, <3>3, <3>5 DEF Terminal
    <3> QED BY <3>4, <3>5
  <2>3. CASE Terminal(k)
    <3>1. UNCHANGED <<status, reported, rounds, notices, wait>>
      BY <1>1, <2>3, SettleDoneEffect
    <3> QED BY <1>0, <2>1, <3>1 DEF Answered, Owes, Terminal
  <2> QED BY <2>2, <2>3
<1>2. ASSUME NEW S \in SUBSET stored, CancelForTeardown(S), UNCHANGED <<owner, told>>,
             Live
      PROVE  Answered(j)'
  <2>1. PICK thrown \in SUBSET Jobs, live \in SUBSET Jobs :
          /\ live = {i \in S : ~Terminal(i)} /\ thrown \subseteq live
          /\ Settle(thrown, live)
          /\ claimed' = claimed \cup live
          /\ status' \in [Jobs -> Status]
          /\ \A i \in thrown : status'[i] = "failed"
          /\ \A i \in live \ thrown : status'[i] = "stopping"
          /\ \A i \in Jobs \ live : status'[i] = status[i]
    BY <1>2, TeardownEffect
  <2>2. CASE j \in live
    BY <2>1, <2>2 DEF Answered
  <2>3. CASE j \notin live
    <3>1. Terminal(j) /\ Answered(j)
      BY <1>0, <1>2, <2>1, <2>3 DEF Terminal
    <3>2. /\ \A k \in Jobs : notices'[k] >= notices[k]
          /\ \A w \in Waits, k \in Jobs : Owes(w, k) => Owes(w, k)'
          /\ notices' \in [Jobs -> Nat]
      BY <2>1, SettleEffect
    <3>3. CASE notices[j] > 0
      <4>1. notices[j] \in Nat /\ notices'[j] \in Nat /\ notices'[j] >= notices[j]
        BY <3>2 DEF TypeOK
      <4> QED BY <3>3, <4>1 DEF Answered
    <3>4. CASE j \in told \cup claimed
      BY <1>2, <2>1, <3>4 DEF Answered
    <3>5. ASSUME NEW w \in Waits, Owes(w, j)
          PROVE  Answered(j)'
      BY <3>2, <3>5 DEF Answered
    <3> QED BY <3>1, <3>3, <3>4, <3>5 DEF Answered
  <2> QED BY <2>2, <2>3
<1>3. ASSUME NEW a \in Agents, DisposeOwner(a)
      PROVE  Answered(j)'
  <2>1. Live
    BY <1>3 DEF DisposeOwner, Live, Service, TypeOK
  <2> QED BY <1>2, <1>3, <2>1 DEF DisposeOwner
<1>4. CASE DisposeService
  BY <1>4 DEF DisposeService, Live, Service, TypeOK
<1>5. ASSUME NEW k \in Jobs, NEW o \in Owners, Start(k, o)
      PROVE  Answered(j)'
  BY <1>0, <1>5 DEF Start, Answered, Owes, Terminal, TypeOK, Live, Outcome
<1>6. ASSUME NEW k \in Jobs, ReadTerminal(k)
      PROVE  Answered(j)'
  BY <1>0, <1>6 DEF ReadTerminal, Answered, Owes, Terminal, Live
<1>7. ASSUME NEW k \in Jobs, Kill(k)
      PROVE  Answered(j)'
  BY <1>0, <1>7 DEF Kill, Answered, Owes, Terminal, Live, TypeOK, Outcome
<1>8. ASSUME NEW k \in Jobs, NEW outcome \in Outcome, Finish(k, outcome)
      PROVE  Answered(j)'
  BY <1>0, <1>8 DEF Finish, record, Answered, Owes, Terminal, Live
<1>9. ASSUME NEW w \in Waits, NEW k \in Jobs, WaitCall(w, k)
      PROVE  Answered(j)'
  <2>1. UNCHANGED <<record, owner, told, claimed, life>> /\ wait[w] = NoWait
        /\ \A v \in Waits \ {w} : wait'[v] = wait[v]
    BY <1>9 DEF WaitCall, TypeOK
  <2>2. Terminal(j) /\ Live /\ owner[j] # Unowned
    BY <2>1 DEF record, Terminal, Live
  <2>3. ASSUME NEW v \in Waits, Owes(v, j)
        PROVE  Answered(j)'
    <3>0. NoWait.at \notin {"released", "timed out"}
      BY DEF NoWait
    <3>1. v # w
      BY <2>1, <2>3, <3>0 DEF Owes
    <3>2. wait'[v] = wait[v]
      BY <2>1, <3>1
    <3> QED BY <2>3, <3>2 DEF Owes, Answered
  <2>4. CASE notices[j] > 0 \/ j \in told \cup claimed
    BY <2>1, <2>4 DEF record, Answered
  <2> QED BY <1>0, <2>2, <2>3, <2>4 DEF Answered
<1>10. ASSUME NEW w \in Waits, NEW at \in {"timed out", "aborted"}, WaitStop(w, at)
       PROVE  Answered(j)'
  <2>1. UNCHANGED <<record, owner, told, claimed, life>> /\ wait[w].at = "pending"
        /\ \A v \in Waits \ {w} : wait'[v] = wait[v]
    BY <1>10 DEF WaitStop, TypeOK
  <2> QED BY <1>0, <2>1 DEF record, Answered, Owes, Terminal, Live
<1>11. ASSUME NEW w \in Waits, WaitReturn(w)
       PROVE  Answered(j)'
  <2>1. /\ UNCHANGED <<status, owner, notices, claimed, life>> /\ told \subseteq told'
        /\ \A v \in Waits \ {w} : wait'[v] = wait[v]
        /\ Owes(w, j) /\ Terminal(j) => j \in told'
    BY <1>11 DEF WaitReturn, TypeOK, Owes
  <2> QED BY <1>0, <2>1 DEF Answered, Owes, Terminal, Live
<1>12. ASSUME NEW a \in Agents, OwnerGone(a)
       PROVE  Answered(j)'
  BY <1>0, <1>12 DEF OwnerGone, Answered, Owes, Terminal, Live, Service, TypeOK
<1>13. CASE ServiceGone
  BY <1>13 DEF ServiceGone, Live, Service, TypeOK
<1>14. CASE UNCHANGED vars
  BY <1>0, <1>14 DEF vars, record, Answered, Owes, Terminal, Live
<1> HIDE DEF Inv
<1> QED BY <1>1, <1>3, <1>4, <1>5, <1>6, <1>7, <1>8, <1>9, <1>10, <1>11,
           <1>12, <1>13, <1>14 DEF Next

-----------------------------------------------------------------------------
(* The theorems *)

\* The invariant is inductive.
THEOREM Invariant == Spec => []Inv
<1>1. Init => Inv
  BY DEF Init, Inv, TypeOK, WaitInv, ClaimInv, DrainInv, StartedInv, NoticeOwed,
         Terminal, Active, Outcome, Status, Wait, NoWait, Owners
<1>2. Inv /\ [Next]_vars => Inv'
  <2> SUFFICES ASSUME Inv, [Next]_vars
               PROVE  Inv'
    OBVIOUS
  <2>1. TypeOK' /\ WaitInv' /\ ClaimInv' /\ DrainInv' /\ StartedInv'
    BY TypeStep, WaitStep, ClaimStep, DrainStep, StartedStep DEF Inv
  <2>2. NoticeOwed'
    BY NoticeStep
  <2> QED BY <2>1, <2>2 DEF Inv
<1> QED BY <1>1, <1>2, PTL DEF Spec

\* A record is kept from its start until it is terminal, and every variable
\* keeps its type (start, disposeOwned, disposeAll).
THEOREM TypeCorrect == Spec => []TypeOK
<1>1. Inv => TypeOK
  BY DEF Inv
<1> QED BY <1>1, Invariant, PTL

\* No completion is swallowed, however settlement, deadline, abort, kill and
\* teardown interleave (wait, settle).
THEOREM NoCompletionLost == Spec => []NoticeOwed
<1>1. Inv => NoticeOwed
  BY DEF Inv
<1> QED BY <1>1, Invariant, PTL

\* What one step leaves alone of a finished job.
Final == \A j \in Jobs : Terminal(j) => status'[j] = status[j]
                                               /\ rounds'[j] = rounds[j]

\* Every step leaves it alone: only a live job is settled.
LEMMA FinalStep ==
  ASSUME TypeOK, [Next]_vars
  PROVE  Final
<1> USE DEF Final
<1> SUFFICES ASSUME NEW j \in Jobs, Terminal(j)
             PROVE  status'[j] = status[j] /\ rounds'[j] = rounds[j]
  OBVIOUS
<1>1. ASSUME NEW k \in Jobs, SettleDone(k)
      PROVE  status'[j] = status[j] /\ rounds'[j] = rounds[j]
  <2>1. CASE ~Terminal(k)
    <3>1. /\ Settle({k}, {})
          /\ \A i \in Jobs \ {k} : status'[i] = status[i]
      BY <1>1, <2>1, SettleDoneEffect
    <3>2. {k} \in SUBSET Jobs /\ {} \in SUBSET Jobs
      OBVIOUS
    <3>3. \A i \in Jobs \ {k} : rounds'[i] = rounds[i]
      BY <3>1, <3>2, SettleRounds
    <3> QED BY <2>1, <3>1, <3>3
  <2>2. CASE Terminal(k)
    BY <1>1, <2>2, SettleDoneEffect
  <2> QED BY <2>1, <2>2
<1>2. ASSUME NEW S \in SUBSET stored, CancelForTeardown(S)
      PROVE  status'[j] = status[j] /\ rounds'[j] = rounds[j]
  <2>1. PICK thrown \in SUBSET Jobs, live \in SUBSET Jobs :
          /\ live = {i \in S : ~Terminal(i)} /\ thrown \subseteq live
          /\ Settle(thrown, live)
          /\ \A i \in Jobs \ live : status'[i] = status[i]
    BY <1>2, TeardownEffect
  <2>2. \A i \in Jobs \ thrown : rounds'[i] = rounds[i]
    BY <2>1, SettleRounds
  <2> QED BY <2>1, <2>2
<1>3. ASSUME NEW a \in Agents, DisposeOwner(a)
      PROVE  status'[j] = status[j] /\ rounds'[j] = rounds[j]
  BY <1>2, <1>3 DEF DisposeOwner
<1>4. CASE DisposeService
  BY <1>2, <1>4 DEF DisposeService
<1>5. ASSUME NEW k \in Jobs, NEW o \in Owners, Start(k, o)
      PROVE  status'[j] = status[j] /\ rounds'[j] = rounds[j]
  BY <1>5 DEF Start, Terminal, Outcome, TypeOK
<1>6. ASSUME NEW k \in Jobs, Kill(k)
      PROVE  status'[j] = status[j] /\ rounds'[j] = rounds[j]
  BY <1>6 DEF Kill, Terminal, TypeOK
<1>7. ASSUME UNCHANGED <<status, rounds>>
      PROVE  status'[j] = status[j] /\ rounds'[j] = rounds[j]
  BY <1>7
<1>8. ASSUME NEW k \in Jobs, ReadTerminal(k)
      PROVE  UNCHANGED <<status, rounds>>
  BY <1>8 DEF ReadTerminal
<1>9. ASSUME NEW k \in Jobs, NEW outcome \in Outcome, Finish(k, outcome)
      PROVE  UNCHANGED <<status, rounds>>
  BY <1>9 DEF Finish, record
<1>10. ASSUME NEW w \in Waits, NEW k \in Jobs, WaitCall(w, k)
       PROVE  UNCHANGED <<status, rounds>>
  BY <1>10 DEF WaitCall, record
<1>11. ASSUME NEW w \in Waits, NEW at \in {"timed out", "aborted"}, WaitStop(w, at)
       PROVE  UNCHANGED <<status, rounds>>
  BY <1>11 DEF WaitStop, record
<1>12. ASSUME NEW w \in Waits, WaitReturn(w)
       PROVE  UNCHANGED <<status, rounds>>
  BY <1>12 DEF WaitReturn
<1>13. ASSUME NEW a \in Agents, OwnerGone(a)
       PROVE  UNCHANGED <<status, rounds>>
  BY <1>13 DEF OwnerGone
<1>14. CASE ServiceGone \/ UNCHANGED vars
  BY <1>14 DEF ServiceGone, vars, record
<1> QED BY <1>1, <1>3, <1>4, <1>5, <1>6, <1>7, <1>8, <1>9, <1>10, <1>11,
           <1>12, <1>13, <1>14 DEF Next

\* The first outcome is final: whoever settles, fails by force, kills or
\* disposes afterwards finds the record terminal and leaves it and its
\* listeners alone (settle, cancelForTeardown).
THEOREM OutcomeIsFinal == Spec => FirstOutcomeWins
<1>1. TypeOK /\ [Next]_vars => [Final]_vars
  BY FinalStep
<1> QED BY <1>1, TypeCorrect, PTL DEF Spec, FirstOutcomeWins, Final

\* What one step demands of a job it announces.
Read == \A j \in Jobs : notices'[j] # notices[j] =>
              /\ life[owner[j]] = "live" /\ life'[owner[j]] = "live"
              /\ j \notin claimed
              /\ ~\E w \in Waits : wait[w].job = j /\ wait[w].at # "aborted"

\* Only the settlement of an unclaimed job announces one.
LEMMA ReadStep ==
  ASSUME Inv, [Next]_vars
  PROVE  Read
<1> USE DEF Read
<1> SUFFICES ASSUME NEW j \in Jobs, notices'[j] # notices[j]
             PROVE  /\ life[owner[j]] = "live" /\ life'[owner[j]] = "live"
                    /\ j \notin claimed
                    /\ ~\E w \in Waits : wait[w].job = j /\ wait[w].at # "aborted"
  OBVIOUS
<1>1. ASSUME NEW k \in Jobs, SettleDone(k)
      PROVE  /\ life[owner[j]] = "live" /\ life'[owner[j]] = "live"
             /\ j \notin claimed
             /\ ~\E w \in Waits : wait[w].job = j /\ wait[w].at # "aborted"
  <2>1. ~Terminal(k) /\ Settle({k}, {}) /\ UNCHANGED life
    BY <1>1, SettleDoneEffect DEF Inv
  <2>2. /\ j \in {k} /\ owner[j] # Unowned
        /\ j \notin reported \cup {} /\ Waiters(j) = {}
    <3>1. \A i \in Jobs : notices'[i] # notices[i] =>
            /\ i \in {k} /\ owner[i] # Unowned
            /\ i \notin reported \cup {} /\ Waiters(i) = {}
      BY <2>1, SettleEffect DEF Inv
    <3> QED BY <3>1
  <2>3. j \notin claimed
    BY <2>2 DEF Inv, ClaimInv
  <2>4. owner[j] \in Agents
    BY <2>2 DEF Inv, TypeOK, Owners
  <2>5. Active(j)
    <3>1. status[j] # "none"
      BY <1>1, <2>2 DEF SettleDone, Inv, StartedInv, Outcome
    <3> QED BY <2>1, <2>2, <3>1 DEF Inv, TypeOK, Status, Terminal, Active
  <2>6. life[owner[j]] = "live"
    BY <2>3, <2>4, <2>5 DEF Inv, DrainInv
  <2>7. ASSUME NEW w \in Waits, wait[w].job = j, wait[w].at # "aborted"
        PROVE  FALSE
    <3>1. wait[w] # NoWait
      BY <2>7 DEF NoWait
    <3>2. wait[w].at \in Counted
      BY <2>7, <3>1, WaitShape DEF Inv, TypeOK, Counted
    <3> QED BY <2>2, <2>7, <3>2 DEF Waiters
  <2> QED BY <2>1, <2>3, <2>6, <2>7
<1>2. ASSUME NEW S \in SUBSET stored, CancelForTeardown(S)
      PROVE  FALSE
  <2>1. PICK thrown \in SUBSET Jobs, live \in SUBSET Jobs :
          thrown \subseteq live /\ Settle(thrown, live)
    BY <1>2, TeardownEffect DEF Inv
  <2>2. \A i \in Jobs : notices'[i] # notices[i] =>
          i \in thrown /\ i \notin reported \cup live
    BY <2>1, SettleEffect, ZenonT(60) DEF Inv
  <2> QED BY <2>1, <2>2
<1>3. ASSUME NEW a \in Agents, DisposeOwner(a)
      PROVE  FALSE
  BY <1>2, <1>3 DEF DisposeOwner
<1>4. CASE DisposeService
  BY <1>2, <1>4 DEF DisposeService
<1>5. ASSUME NEW k \in Jobs, NEW o \in Owners, Start(k, o)
      PROVE  FALSE
  BY <1>5 DEF Start
<1>6. ASSUME NEW k \in Jobs, ReadTerminal(k) \/ Kill(k)
      PROVE  FALSE
  BY <1>6 DEF ReadTerminal, Kill
<1>7. ASSUME NEW k \in Jobs, NEW outcome \in Outcome, Finish(k, outcome)
      PROVE  FALSE
  BY <1>7 DEF Finish, record
<1>8. ASSUME NEW w \in Waits, NEW k \in Jobs, WaitCall(w, k)
      PROVE  FALSE
  BY <1>8 DEF WaitCall, record
<1>9. ASSUME NEW w \in Waits, NEW at \in {"timed out", "aborted"}, WaitStop(w, at)
      PROVE  FALSE
  BY <1>9 DEF WaitStop, record
<1>10. ASSUME NEW w \in Waits, WaitReturn(w)
       PROVE  FALSE
  BY <1>10 DEF WaitReturn
<1>11. ASSUME NEW a \in Agents, OwnerGone(a)
       PROVE  FALSE
  BY <1>11 DEF OwnerGone
<1>12. CASE ServiceGone \/ UNCHANGED vars
  BY <1>12 DEF ServiceGone, vars, record
<1> QED BY <1>1, <1>3, <1>4, <1>5, <1>6, <1>7, <1>8, <1>9, <1>10, <1>11,
           <1>12 DEF Next

\* A notice goes out only to an owner that is not being torn down, about a job
\* nobody waits for or has killed (settle, kill, cancelForTeardown).
THEOREM NoticesAreRead == Spec => NoticeHasReader
<1>1. Inv /\ [Next]_vars => [Read]_vars
  BY ReadStep
<1> QED BY <1>1, Invariant, PTL DEF Spec, NoticeHasReader, Read

=============================================================================
