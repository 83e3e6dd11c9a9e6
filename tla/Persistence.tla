---------------------------- MODULE Persistence -----------------------------
(***************************************************************************)
(* Who may write one session's stored log: the PersistenceCoordinator with *)
(* its SessionPreparations, for one session id.                            *)
(*                                                                         *)
(* Everything that touches the backend runs on the id's chain, one         *)
(* operation after the other; `chain` is that queue and its head is the    *)
(* operation that awaits the backend.  Around it sessions are published,   *)
(* append and are disposed of, and consumers prepare the stored log for a  *)
(* resume: an append asks before its await whether a preparation is in its *)
(* way, and one may begin behind it.  The buffering of a live session's    *)
(* events is WriteBehind's; here a write takes what is buffered and may    *)
(* fail.                                                                   *)
(*                                                                         *)
(* A crash may leave a part of the batch being written and a torn record   *)
(* behind it.  Another process may write while this one neither owns nor   *)
(* reserves the log: the format has no lock, its users keep out of each    *)
(* other's way.                                                            *)
(***************************************************************************)
EXTENDS Naturals, Sequences, FiniteSets, SequencesExt

CONSTANTS Sessions,    \* Session objects, each published at most once
          Consumers,   \* calls of prepare
          None,        \* no session
          MaxLog,      \* bound on the events of a log
          MaxCrashes   \* bound on crashes and reloads of the plugin

ASSUME PersistenceAssumption ==
  /\ None \notin Sessions \cup Consumers
  /\ {"other", "repair"} \cap Sessions = {}
  /\ MaxLog \in Nat \ {0} /\ MaxCrashes \in Nat

VARIABLES disk,      \* complete records of the stored log
          torn,      \* is there a torn record behind them
          store,     \* the session live under the id
          log,       \* each Session's events
          life,      \* where each Session is in its life
          init,      \* how the initialization of its write path stands
          base,      \* events of its log that are not buffered (any more)
          retiring,  \* the session whose retirement the coordinator tracks
          state,     \* what the coordinator knows of the stored log
          entry,     \* the preparation of the id
          consumer,  \* where each consumer is
          awaits,    \* the retirement a starting consumer found and awaits
          chain,     \* the operations of the id, in order
          writing,   \* has the backend been asked for the append at its head
          crashes

stored   == <<disk, torn>>
sessions == <<store, log, life, init, base, retiring>>
pool     == <<entry, consumer, awaits>>
vars == <<stored, sessions, state, pool, chain, writing, crashes>>

\* An event, by its author and whether it leaves a turn open.
Event == [by : Sessions \cup {"repair", "other"}, open : BOOLEAN]
By(who, open) == [by |-> who, open |-> open]

\* What the coordinator knows of the log, how the id is prepared, where a
\* consumer is.
State == [known : BOOLEAN, cursor : Nat, materialized : BOOLEAN,
          owner : Sessions \cup {None}]
Entry == [phase : {"none", "loading", "ready", "committing", "reserved"},
          view : Seq(Event), of : Seq(Event), tail : BOOLEAN]
\* "ousted": it commits an entry that an append has removed.
Place == {"idle", "start", "waiting", "committing", "ousted", "holding", "done"}

NoState == [known |-> FALSE, cursor |-> 0, materialized |-> FALSE, owner |-> None]
NoEntry == [phase |-> "none", view |-> <<>>, of |-> <<>>, tail |-> FALSE]

Op == [do : {"load", "commit", "init", "suffix", "batch", "release"},
       for : Sessions \cup Consumers \cup {None}, upto : Nat]

Init ==
  /\ disk = <<>> /\ torn = FALSE
  /\ store = None /\ retiring = None
  /\ log = [s \in Sessions |-> <<>>]
  /\ life = [s \in Sessions |-> "new"]
  /\ init = [s \in Sessions |-> "none"]
  /\ base = [s \in Sessions |-> 0]
  /\ state = NoState /\ entry = NoEntry
  /\ consumer = [c \in Consumers |-> "idle"]
  /\ awaits = [c \in Consumers |-> None]
  /\ chain = <<>> /\ writing = FALSE /\ crashes = 0

-----------------------------------------------------------------------------
(* Helpers *)

Queued(do, for, upto) == Append(chain, [do |-> do, for |-> for, upto |-> upto])
Running(do) == chain # <<>> /\ Head(chain).do = do
Pending(do, s) == \E i \in DOMAIN chain : chain[i].do = do /\ chain[i].for = s
Subject == Head(chain).for

\* interruptedTurnClosers: what balances a log a crash left inside a turn.
Closers(events) ==
  IF events # <<>> /\ Last(events).open THEN <<By("repair", FALSE)>> ELSE <<>>

\* isPreparedSourceCurrent.  AlwaysCurrent trusts the cached view.
AlwaysCurrent == TRUE
Current == entry.of = disk /\ entry.tail = torn

HasWork(s) == base[s] < Len(log[s])

\* assertWritable.
Writable == entry.phase \notin {"committing", "reserved"}

\* remove: the entry goes, c (if any) moves on, and its waiters look again;
\* who else commits it goes on without.  KeepsWaiters settles nobody.
KeepsWaiters(c, then) == [d \in Consumers |-> IF d = c THEN then ELSE consumer[d]]
Woken(c, then) ==
  [d \in Consumers |-> CASE d = c -> then
                         [] d # c /\ consumer[d] = "waiting" -> "start"
                         [] d # c /\ consumer[d] = "committing" -> "ousted"
                         [] OTHER -> consumer[d]]

RemoveEntry(c, then) ==
  /\ entry' = NoEntry
  /\ consumer' = Woken(c, then)
  /\ awaits' = [d \in Consumers |-> IF consumer'[d] = "start" /\ consumer[d] # "start"
                                    THEN retiring ELSE awaits[d]]

\* invalidate: an append changed the log under the entry.
Invalidate == IF entry.phase = "none" THEN UNCHANGED pool ELSE RemoveEntry(None, "done")

\* A Session has no identity before its publication: take any.
Fresh(s) == life[s] = "new" /\ s = CHOOSE t \in Sessions : life[t] = "new"

Forget(s) == retiring' = IF retiring = s THEN None ELSE retiring

-----------------------------------------------------------------------------
(* Sessions *)

\* A new session enters the store under the id, with a fork's seed or none.
\* initFor refuses it while a preparation holds the id.

Create(s, seed) ==
  /\ store = None /\ Fresh(s) /\ entry.phase = "none"
  /\ store' = s
  /\ life' = [life EXCEPT ![s] = "live"]
  /\ log' = [log EXCEPT ![s] = seed]
  /\ base' = [base EXCEPT ![s] = Len(seed)]
  /\ init' = [init EXCEPT ![s] = "pending"]
  /\ chain' = Queued("init", s, Len(seed))
  /\ UNCHANGED <<stored, retiring, state, pool, writing, crashes>>

\* session/event: an event of the live session joins its buffer.
AppendEvent(s, open) ==
  /\ store = s /\ Len(log[s]) < MaxLog
  /\ log' = [log EXCEPT ![s] = Append(@, By(s, open))]
  /\ UNCHANGED <<stored, store, life, init, base, retiring, state, pool, chain, writing, crashes>>

\* The buffer is written, by its window or by a flush: one write at a time.
\* Eager does not wait for it.
Eager(s) == TRUE
NotWriting(s) == ~Pending("batch", s)

StartWrite(s) ==
  /\ life[s] \in {"live", "retiring"} /\ init[s] = "ok"
  /\ HasWork(s) /\ NotWriting(s)
  /\ chain' = Queued("batch", s, Len(log[s]))
  /\ UNCHANGED <<stored, sessions, state, pool, writing, crashes>>

\* retire: the session left the store; its final flush begins.  A write
\* already active is settled without a look at its outcome ("overlap"), unless
\* it is the write of a flush, which the final one joins.
Detach(s) ==
  /\ store = s
  /\ store' = None /\ retiring' = s
  /\ \E then \in IF Pending("batch", s) THEN {"overlap", "retiring"} ELSE {"retiring"} :
       life' = [life EXCEPT ![s] = then]
  /\ UNCHANGED <<stored, log, init, base, state, pool, chain, writing, crashes>>

\* retireCore past its flush.  Hurried does not wait for it.
Hurried(s) == init[s] = "ok"
Flushed(s) == init[s] = "ok" /\ ~HasWork(s)

Retire(s) ==
  /\ life[s] = "retiring" /\ Flushed(s)
  /\ ~Pending("batch", s) /\ ~Pending("release", s)
  /\ chain' = Queued("release", s, 0)
  /\ UNCHANGED <<stored, sessions, state, pool, writing, crashes>>

\* The flush of a retirement rejects because initialization did.
RetireFail(s) ==
  /\ life[s] = "retiring" /\ init[s] = "failed"
  /\ life' = [life EXCEPT ![s] = "failed"] /\ Forget(s)
  /\ UNCHANGED <<stored, store, log, init, base, state, pool, chain, writing, crashes>>

ReleaseDone ==
  /\ Running("release")
  /\ life' = [life EXCEPT ![Subject] = "gone"] /\ Forget(Subject)
  /\ state' = IF state.owner = Subject THEN NoState ELSE state
  /\ chain' = Tail(chain)
  /\ UNCHANGED <<stored, store, log, init, base, pool, writing, crashes>>

-----------------------------------------------------------------------------
(* The write path's operations *)

\* onCreated.  The id is free for s if nobody owns it, or its owner neither
\* stored nor buffers anything.  Unwritten does not look at the buffer.
Unwritten == ~state.materialized
Abandoned == ~state.materialized /\ ~HasWork(state.owner)
Claimable == state.owner # None => Abandoned

\* What of the stored log the claim stands on: the tracked prefix of an
\* ownerless state, or all there is.
Prefix == IF state.known /\ state.owner = None THEN SubSeq(disk, 1, state.cursor)
                                               ELSE disk
Adopts == ~state.known \/ state.owner # None

SeedOf(s, n) == SubSeq(log[s], 1, n)
Accepts(s, n) ==
  /\ Claimable
  /\ IsPrefix(Prefix, SeedOf(s, n))
  /\ Adopts /\ disk = <<>> => entry.phase = "none"

Owned(s, n) == [known |-> TRUE, cursor |-> n, materialized |-> n > 0, owner |-> s]

\* The claim: a torn tail is cut off and the id is bound to s.
Claims(s, n) ==
  /\ Accepts(s, n)
  /\ torn' = (torn /\ ~Adopts)
  /\ state' = Owned(s, Len(Prefix))
  /\ UNCHANGED <<disk, pool>>

InitOk(s, n) ==
  /\ Claims(s, n) /\ Len(Prefix) = n
  /\ init' = [init EXCEPT ![s] = "ok"]
  /\ chain' = Tail(chain)

\* What the log lacks of the seed is appended, by the same operation.
InitGoesOn(s, n) ==
  /\ Claims(s, n) /\ Len(Prefix) < n
  /\ chain' = [chain EXCEPT ![1].do = "suffix"]
  /\ UNCHANGED init

\* A collision, a log that cannot be read or a torn tail that cannot be cut.
InitRejects(s) ==
  /\ state' = IF state.owner # None /\ Abandoned THEN NoState ELSE state
  /\ init' = [init EXCEPT ![s] = "failed"]
  /\ chain' = Tail(chain)
  /\ UNCHANGED <<stored, pool>>

InitDone ==
  /\ Running("init")
  /\ \/ InitOk(Subject, Head(chain).upto)
     \/ InitGoesOn(Subject, Head(chain).upto)
     \/ InitRejects(Subject)
  /\ UNCHANGED <<store, log, life, base, retiring, writing, crashes>>

\* appendCore up to its await: no preparation is in the way now, and the
\* backend is asked.
AppendStarts ==
  /\ Running("suffix") \/ Running("batch")
  /\ ~writing /\ Writable
  /\ writing' = TRUE
  /\ UNCHANGED <<stored, sessions, state, pool, chain, crashes>>

\* Behind it: the events of s past the cursor, up to n, are stored, and an
\* entry goes, even one that a consumer began to commit meanwhile.
Appends(s, n) ==
  /\ writing
  /\ disk' = disk \o SubSeq(log[s], state.cursor + 1, n)
  /\ state' = [state EXCEPT !.cursor = n, !.materialized = TRUE]
  /\ Invalidate
  /\ UNCHANGED torn

\* The backend refused, or a preparation was in the way.
AppendFails ==
  /\ writing \/ ~Writable
  /\ UNCHANGED <<stored, state, pool>>

\* What a seed, or a published preparation, holds beyond the stored log.
SuffixDone ==
  /\ Running("suffix")
  /\ \/ Appends(Subject, Head(chain).upto) /\ init' = [init EXCEPT ![Subject] = "ok"]
     \/ AppendFails /\ init' = [init EXCEPT ![Subject] = "failed"]
  /\ chain' = Tail(chain) /\ writing' = FALSE
  /\ UNCHANGED <<store, log, life, base, retiring, crashes>>

\* appendLiveBatch, and what its settlement means for a retirement.
BatchDone ==
  /\ Running("batch")
  /\ \/ /\ Appends(Subject, Head(chain).upto)
        /\ base' = [base EXCEPT ![Subject] = Head(chain).upto]
        /\ life' = [life EXCEPT ![Subject] = IF @ = "overlap" THEN "retiring" ELSE @]
        /\ UNCHANGED retiring
     \/ /\ AppendFails /\ UNCHANGED base
        /\ life' = [life EXCEPT ![Subject] =
             CASE @ = "overlap" -> "retiring" [] @ = "retiring" -> "failed" [] OTHER -> @]
        /\ IF life[Subject] = "retiring" THEN Forget(Subject) ELSE UNCHANGED retiring
  /\ chain' = Tail(chain) /\ writing' = FALSE
  /\ UNCHANGED <<store, log, init, crashes>>

-----------------------------------------------------------------------------
(* Consumers *)

Prepare(c) ==
  /\ consumer[c] = "idle"
  /\ consumer' = [consumer EXCEPT ![c] = "start"]
  /\ awaits' = [awaits EXCEPT ![c] = retiring]
  /\ UNCHANGED <<stored, sessions, state, entry, chain, writing, crashes>>

\* Past waitForRetirement, which awaits the retirement it found and no other.
Retired(c) == awaits[c] = None \/ awaits[c] # retiring

RefuseLive(c) ==
  /\ consumer[c] = "start" /\ Retired(c) /\ store # None
  /\ consumer' = [consumer EXCEPT ![c] = "done"]
  /\ awaits' = [awaits EXCEPT ![c] = None]
  /\ UNCHANGED <<stored, sessions, state, entry, chain, writing, crashes>>

\* entryFor: join the entry of the id, or start a load.
Reserve(c) ==
  /\ consumer[c] = "start" /\ Retired(c) /\ store = None
  /\ consumer' = [consumer EXCEPT ![c] = "waiting"]
  /\ awaits' = [awaits EXCEPT ![c] = None]
  /\ IF entry.phase = "none"
     THEN /\ entry' = [NoEntry EXCEPT !.phase = "loading"]
          /\ chain' = Queued("load", None, 0)
     ELSE UNCHANGED <<entry, chain>>
  /\ UNCHANGED <<stored, sessions, state, writing, crashes>>

\* prepareCore.  An entry invalidated while its log was read is not filled:
\* the load of its successor comes later in the chain.
Loads == entry.phase = "loading" /\ \A i \in 2 .. Len(chain) : chain[i].do # "load"

LoadDone ==
  /\ Running("load")
  /\ \/ ~Loads /\ UNCHANGED pool
     \/ /\ Loads /\ disk # <<>>
        /\ entry' = [phase |-> "ready", view |-> disk \o Closers(disk),
                     of |-> disk, tail |-> torn]
        /\ UNCHANGED <<consumer, awaits>>
     \/ /\ Loads   \* not found, unreadable or invalid: everyone waiting fails
        /\ entry' = NoEntry
        /\ consumer' = [c \in Consumers |->
             IF consumer[c] = "waiting" THEN "done" ELSE consumer[c]]
        /\ UNCHANGED awaits
  /\ chain' = Tail(chain)
  /\ UNCHANGED <<stored, sessions, state, writing, crashes>>

\* A waiter finds the entry ready and takes it.

Resume(c) ==
  /\ consumer[c] = "waiting" /\ entry.phase = "ready"
  /\ entry' = [entry EXCEPT !.phase = "committing"]
  /\ consumer' = [consumer EXCEPT ![c] = "committing"]
  /\ chain' = Queued("commit", c, 0)
  /\ UNCHANGED <<stored, sessions, state, awaits, writing, crashes>>

\* commitPrepared.  Ownerless does not ask for an owner.
Ownerless == FALSE
HasOwner == state.owner # None

Repairs == entry.tail \/ entry.view # entry.of

CommitRefused(c) == HasOwner /\ RemoveEntry(c, "done") /\ UNCHANGED <<stored, state>>

CommitStale(c) == ~HasOwner /\ ~Current /\ RemoveEntry(c, "start") /\ UNCHANGED <<stored, state>>

CommitRepair(c) ==
  /\ ~HasOwner /\ Current /\ Repairs
  /\ \/ disk' = entry.view /\ torn' = FALSE /\ RemoveEntry(c, "start")
     \/ UNCHANGED disk /\ torn' \in {torn, FALSE} /\ RemoveEntry(c, "done")
  /\ UNCHANGED state

\* The log stands as it was read: the reservation is made, unless the caller
\* aborted meanwhile.
CommitReserved(c) ==
  /\ ~HasOwner /\ Current /\ ~Repairs
  /\ state' = [known |-> TRUE, cursor |-> Len(entry.view), materialized |-> TRUE,
               owner |-> None]
  /\ \/ /\ entry' = [entry EXCEPT !.phase = "reserved"]
        /\ consumer' = [consumer EXCEPT ![c] = "holding"]
     \/ /\ entry' = [entry EXCEPT !.phase = "ready"]
        /\ consumer' = [consumer EXCEPT ![c] = "done"]
  /\ UNCHANGED <<stored, awaits>>

\* An append removed the entry before the commit began: the log has an owner,
\* or another revision than was read, and nothing is reserved.
CommitOusted(c) ==
  /\ consumer[c] = "ousted"
  /\ consumer' = [consumer EXCEPT ![c] = IF HasOwner THEN "done" ELSE "start"]
  /\ awaits' = [awaits EXCEPT ![c] = IF HasOwner THEN @ ELSE retiring]
  /\ UNCHANGED <<stored, state, entry>>

CommitDone ==
  /\ Running("commit")
  /\ \/ /\ consumer[Subject] = "committing"
        /\ \/ CommitRefused(Subject) \/ CommitStale(Subject)
           \/ CommitRepair(Subject) \/ CommitReserved(Subject)
     \/ CommitOusted(Subject)
  /\ chain' = Tail(chain)
  /\ UNCHANGED <<sessions, writing, crashes>>

\* The caller's signal aborts while it waits.
AbortWait(c) ==
  /\ consumer[c] \in {"start", "waiting"}
  /\ consumer' = [consumer EXCEPT ![c] = "done"]
  /\ awaits' = [awaits EXCEPT ![c] = None]
  /\ UNCHANGED <<stored, sessions, state, entry, chain, writing, crashes>>

\* It aborts before the commit has begun: that will do nothing.
AbortCommit(c) ==
  /\ \/ consumer[c] = "committing" /\ RemoveEntry(c, "done")
     \/ /\ consumer[c] = "ousted"
        /\ consumer' = [consumer EXCEPT ![c] = "done"] /\ UNCHANGED <<entry, awaits>>
  /\ \E i \in DOMAIN chain :
       /\ chain[i].do = "commit" /\ chain[i].for = c
       /\ chain' = RemoveAt(chain, i)
  /\ UNCHANGED <<stored, sessions, state, writing, crashes>>

\* attachPrepared: the reserved Session is published, with own more events.
Publish(c, s, own) ==
  /\ consumer[c] = "holding" /\ store = None /\ Fresh(s)
  /\ Len(entry.view \o own) <= MaxLog
  /\ store' = s
  /\ life' = [life EXCEPT ![s] = "live"]
  /\ log' = [log EXCEPT ![s] = entry.view \o own]
  /\ base' = [base EXCEPT ![s] = Len(entry.view \o own)]
  /\ state' = [state EXCEPT !.owner = s]
  /\ RemoveEntry(c, "done")
  /\ IF own = <<>>
     THEN init' = [init EXCEPT ![s] = "ok"] /\ UNCHANGED chain
     ELSE /\ init' = [init EXCEPT ![s] = "pending"]
          /\ chain' = Queued("suffix", s, Len(entry.view \o own))
  /\ UNCHANGED <<stored, retiring, writing, crashes>>

\* The consumer gives the reservation up, its Session grown or as it was.
Release(c, grown) ==
  /\ consumer[c] = "holding"
  /\ IF state.owner = None /\ ~grown
     THEN /\ entry' = [entry EXCEPT !.phase = "ready"]
          /\ consumer' = [consumer EXCEPT ![c] = "done"] /\ UNCHANGED awaits
     ELSE RemoveEntry(c, "done")
  /\ UNCHANGED <<stored, sessions, state, chain, writing, crashes>>

\* The pool is full, or an inspection found the ready view stale.
Evict ==
  /\ entry.phase = "ready"
  /\ RemoveEntry(None, "done")
  /\ UNCHANGED <<stored, sessions, state, chain, writing, crashes>>

-----------------------------------------------------------------------------
(* The world *)

\* Another process appends to a log this one neither owns nor reserves.
External(open) ==
  /\ state.owner = None /\ entry.phase # "reserved" /\ ~torn
  /\ Len(disk) < MaxLog
  /\ disk' = Append(disk, By("other", open))
  /\ UNCHANGED <<torn, sessions, state, pool, chain, writing, crashes>>

\* What the operation at the head of the chain is writing.
Writes ==
  CASE writing -> SubSeq(log[Subject], state.cursor + 1, Head(chain).upto)
    [] Running("commit") /\ consumer[Subject] = "committing" /\ ~HasOwner /\ Current ->
         Closers(disk)
    [] OTHER -> <<>>

\* The process ends in the middle of that write.  The first write of a log
\* publishes it whole; a later one may stop anywhere.
Crash ==
  /\ crashes < MaxCrashes
  /\ \E k \in 0 .. Len(Writes) :
       /\ disk = <<>> => k \in {0, Len(Writes)}
       /\ disk' = disk \o SubSeq(Writes, 1, k)
       /\ torn' \in CASE Writes = <<>> -> {torn}
                      [] k = Len(Writes) \/ disk = <<>> -> {FALSE}
                      [] OTHER -> BOOLEAN
  /\ store' = None /\ retiring' = None
  /\ life' = [s \in Sessions |-> IF life[s] \in {"new", "gone"} THEN life[s] ELSE "lost"]
  /\ init' = [s \in Sessions |-> "none"]
  /\ state' = NoState /\ entry' = NoEntry
  /\ consumer' = [c \in Consumers |-> IF consumer[c] = "idle" THEN "idle" ELSE "done"]
  /\ awaits' = [c \in Consumers |-> None]
  /\ log' = [s \in Sessions |-> IF life'[s] = "lost" THEN <<>> ELSE log[s]]
  /\ base' = [s \in Sessions |-> IF life'[s] = "lost" THEN 0 ELSE base[s]]
  /\ chain' = <<>> /\ writing' = FALSE /\ crashes' = crashes + 1

\* What the owner of the log has not stored: the teardown flushes every session
\* it still knows, one whose retirement failed included.
Rest ==
  IF HasOwner /\ init[state.owner] = "ok"
  THEN SubSeq(log[state.owner], state.cursor + 1, Len(log[state.owner])) ELSE <<>>

\* The plugin is reloaded once its flushes are through and its chains are
\* drained: the new coordinator knows nothing and initializes the live session
\* from its log; consumers depend on the service and end with it.
Reload ==
  /\ crashes < MaxCrashes /\ chain = <<>>
  /\ disk' \in {disk, disk \o Rest}
  /\ retiring' = None
  /\ life' = [s \in Sessions |->
       IF life[s] \in {"retiring", "failed"} THEN "lost" ELSE life[s]]
  /\ init' = [s \in Sessions |-> IF s = store THEN "pending" ELSE "none"]
  /\ log' = [s \in Sessions |-> IF life'[s] = "lost" THEN <<>> ELSE log[s]]
  /\ base' = [s \in Sessions |-> IF s = store THEN Len(log[s])
                                 ELSE IF life'[s] = "lost" THEN 0 ELSE base[s]]
  /\ chain' = IF store = None THEN <<>> ELSE Queued("init", store, Len(log[store]))
  /\ state' = NoState /\ entry' = NoEntry
  /\ consumer' = [c \in Consumers |-> IF consumer[c] = "idle" THEN "idle" ELSE "done"]
  /\ awaits' = [c \in Consumers |-> None]
  /\ crashes' = crashes + 1
  /\ UNCHANGED <<torn, store, writing>>

-----------------------------------------------------------------------------
ChainStep ==
  \/ ReleaseDone \/ InitDone \/ LoadDone \/ CommitDone
  \/ AppendStarts \/ SuffixDone \/ BatchDone

Next ==
  \/ ChainStep
  \/ \E s \in Sessions :
       \/ \E seed \in {<<>>, <<By(s, FALSE)>>} : Create(s, seed)
       \/ \E open \in BOOLEAN : AppendEvent(s, open)
       \/ StartWrite(s) \/ Detach(s) \/ Retire(s) \/ RetireFail(s)
  \/ \E c \in Consumers :
       \/ Prepare(c) \/ RefuseLive(c) \/ Reserve(c) \/ Resume(c)
       \/ AbortWait(c) \/ AbortCommit(c)
       \/ \E s \in Sessions : \E own \in {<<>>, <<By(s, FALSE)>>} : Publish(c, s, own)
       \/ \E grown \in BOOLEAN : Release(c, grown)
  \/ Evict
  \/ \E open \in BOOLEAN : External(open)
  \/ Crash \/ Reload

\* Backend operations settle; a final flush writes what is buffered; a holder
\* publishes or releases; and a waiter is not passed over for ever, since
\* reactions to one promise run in the order they were added.
Fairness ==
  /\ WF_vars(ChainStep)
  /\ \A s \in Sessions :
       WF_vars(life[s] = "retiring" /\ (StartWrite(s) \/ Retire(s) \/ RetireFail(s)))
  /\ \A c \in Consumers :
       /\ WF_vars(RefuseLive(c) \/ Reserve(c))
       /\ SF_vars(Resume(c))
       /\ WF_vars(\E grown \in BOOLEAN : Release(c, grown))

SafetySpec == Init /\ [][Next]_vars
Spec == SafetySpec /\ Fairness

-----------------------------------------------------------------------------
(* Properties *)

Types ==
  /\ disk \in Seq(Event) /\ torn \in BOOLEAN
  /\ store \in Sessions \cup {None} /\ retiring \in Sessions \cup {None}
  /\ log \in [Sessions -> Seq(Event)]
  /\ life \in [Sessions ->
       {"new", "live", "overlap", "retiring", "failed", "gone", "lost"}]
  /\ init \in [Sessions -> {"none", "pending", "ok", "failed"}]
  /\ base \in [Sessions -> Nat] /\ \A s \in Sessions : base[s] <= Len(log[s])
  /\ state \in State /\ entry \in Entry
  /\ consumer \in [Consumers -> Place]
  /\ awaits \in [Consumers -> Sessions \cup {None}]
  /\ chain \in Seq(Op) /\ writing \in BOOLEAN /\ crashes \in 0 .. MaxCrashes

OneWrite ==
  \A i \in DOMAIN chain : chain[i].do = "batch" =>
    /\ chain[i].upto \in base[chain[i].for] + 1 .. Len(log[chain[i].for])
    /\ \A j \in DOMAIN chain : chain[j].do = "batch" /\ chain[j].for = chain[i].for => j = i

\* Types; and a session has one write at a time, of events it still buffers.
TypeOK == Types /\ OneWrite

\* A preparation that is being committed or is reserved has one holder, also
\* when an append that passed its check earlier removes it under a commit; and
\* a reserved log is nobody's, no append is under way to it and it ends where
\* its holder's Session will go on: what attachPrepared insists on when the
\* Session is published never fails.
ExclusiveReservation ==
  /\ Cardinality({c \in Consumers : consumer[c] \in {"committing", "holding"}})
       = (IF entry.phase \in {"committing", "reserved"} THEN 1 ELSE 0)
  /\ entry.phase = "reserved" =>
       /\ state.owner = None /\ state.cursor = Len(entry.view)
       /\ entry.view = disk /\ ~torn /\ ~writing

\* While a session owns the log, the log is a clean prefix of the session's
\* own, as long as the cursor says and without a gap before the buffer, and a
\* queued batch is the owner's: nobody else writes it, and the next batch goes
\* to the right place.
OwnedPrefix ==
  /\ state.owner # None =>
       /\ IsPrefix(disk, log[state.owner]) /\ state.cursor = Len(disk) /\ ~torn
       /\ init[state.owner] = "ok" => base[state.owner] <= state.cursor
  /\ \A i \in DOMAIN chain : chain[i].do \in {"batch", "suffix"} => state.owner = chain[i].for

\* Recovery closes a turn for good only in a log whose session is over: never
\* behind a live session, one whose last events still drain, or one whose
\* retirement failed with events in memory.  (A session that never appended
\* may lose the id to the next one before it is released.)
RepairOnlyAbandoned ==
  [][disk' # disk /\ Last(disk').by = "repair" /\ Len(disk') = Len(disk) + 1
     /\ Running("commit")
       => \A s \in Sessions :
            life[s] \in {"live", "overlap", "retiring", "failed"}
              => init[s] = "failed" \/ log[s] = <<>>]_vars

\* The id of a disposed session is given up only when all its events are
\* stored, and nothing that happens to the log later takes one away.
RetiredIsDurable ==
  \A s \in Sessions : life[s] = "gone" => IsPrefix(log[s], disk)

\* Whoever asks for a preparation is answered: it holds the log or has failed.
PrepareAnswers ==
  \A c \in Consumers :
    consumer[c] \in {"start", "waiting", "committing", "ousted"}
      ~> consumer[c] \in {"holding", "done"}
=============================================================================
