-------------------------- MODULE PersistenceProofs --------------------------
(***************************************************************************)
(* What the coordinator keeps for any sessions, consumers, length of log   *)
(* and number of crashes.  The inductive invariant describes the chain (a  *)
(* session is opened by one operation, a load follows every opening that   *)
(* was queued before it), the owner (its log extends the stored one) and   *)
(* the sessions that lost the id (they never had an event).                *)
(***************************************************************************)
EXTENDS Persistence, SequenceTheorems, FiniteSetTheorems, TLAPS

Opens(i) == chain[i].do \in {"init", "suffix"}
Held == {"live", "overlap", "retiring", "failed"}
Holders == {c \in Consumers : consumer[c] \in {"committing", "holding"}}

\* An entry is read from a log with events, and closes its last turn.
EntryInv ==
  entry.phase \in {"ready", "committing", "reserved"} =>
    entry.of # <<>> /\ entry.view = entry.of \o Closers(entry.of)

\* The phase of the entry says what its one holder is doing.
HolderInv ==
  /\ \A c \in Consumers : consumer[c] = "committing" => entry.phase = "committing"
  /\ \A c \in Consumers : consumer[c] = "holding" => entry.phase = "reserved"
  /\ \A c, d \in Holders : c = d
  /\ entry.phase \in {"committing", "reserved"} => Holders # {}

\* A reserved log is nobody's, and stands as it was read.
ReservedInv ==
  entry.phase = "reserved" =>
    /\ state.owner = None /\ state.known /\ state.materialized
    /\ state.cursor = Len(entry.view)
    /\ entry.view = disk /\ disk # <<>> /\ ~torn

\* Whose operations are queued.
OpsInv ==
  /\ \A i \in DOMAIN chain :
       /\ chain[i].do \in {"init", "suffix", "batch", "release"} =>
            chain[i].for \in Sessions /\ life[chain[i].for] # "new"
       /\ chain[i].do = "commit" =>
            chain[i].for \in Consumers /\ consumer[chain[i].for] \in {"committing", "ousted"}
       /\ chain[i].do = "batch" => init[chain[i].for] = "ok"
  /\ \A i, j \in DOMAIN chain :
       chain[i].do = "commit" /\ chain[j].do = "commit" /\ chain[i].for = chain[j].for => i = j

\* A session is opened once, by an operation that is queued while it is not
\* open yet; the live session is opened last.
OpenInv ==
  /\ \A i \in DOMAIN chain : Opens(i) =>
       /\ init[chain[i].for] = "pending" /\ chain[i].upto = base[chain[i].for]
       /\ store # None => init[store] = "pending"
       /\ \A j \in DOMAIN chain : Opens(j) =>
            /\ chain[j].for = chain[i].for => j = i
            /\ chain[i].for = store => j <= i
  /\ \A s \in Sessions : init[s] = "pending" =>
       \E i \in DOMAIN chain : Opens(i) /\ chain[i].for = s

\* What was queued to open a session is read by the load that comes after.
LoadInv ==
  /\ entry.phase = "loading" =>
       /\ \E i \in DOMAIN chain : chain[i].do = "load"
       /\ \A i \in DOMAIN chain : Opens(i) =>
            \E j \in DOMAIN chain : i < j /\ chain[j].do = "load"
  /\ entry.phase \in {"ready", "committing", "reserved"} =>
       \A i \in DOMAIN chain : ~Opens(i)

\* What the coordinator's state says of the owner and of the stored log.
TrackInv ==
  /\ state.owner # None =>
       /\ IsPrefix(disk, log[state.owner]) /\ state.cursor = Len(disk) /\ ~torn
       /\ init[state.owner] = "ok" => base[state.owner] = state.cursor
       /\ state.known /\ life[state.owner] # "new"
       /\ ~state.materialized => state.cursor = 0
  /\ state.known /\ state.owner = None => state.cursor \in 1 .. Len(disk)

\* Who writes is the owner.  A log that has no event yet gets its first ones
\* from a batch or from the seed of the operation that claimed it.
WriterInv ==
  \A i \in DOMAIN chain :
    /\ chain[i].do \in {"batch", "suffix"} => state.owner = chain[i].for
    /\ chain[i].do = "suffix" => (i = 1 \/ state.materialized) /\ state.cursor <= chain[i].upto

\* An append under way is the head of the chain, and no reservation can be
\* made behind it.
WritingInv ==
  writing => (Running("suffix") \/ Running("batch")) /\ entry.phase # "reserved"

OwnerInv == TrackInv /\ WriterInv

\* A release is queued once, for a session with nothing left to write.
ReleaseInv ==
  \A i \in DOMAIN chain : chain[i].do = "release" =>
    /\ life[chain[i].for] = "retiring" /\ init[chain[i].for] = "ok"
    /\ ~HasWork(chain[i].for)
    /\ \A j \in DOMAIN chain :
         chain[j].do = "release" /\ chain[j].for = chain[i].for => j = i

\* The live session is the one in the store; a session that overlaps with a
\* write has one; a session in its life has begun to open.
LifeInv ==
  /\ store # None => life[store] = "live"
  /\ \A s \in Sessions :
       /\ life[s] = "live" => store = s
       /\ life[s] = "overlap" => Pending("batch", s)
       /\ life[s] \in Held => init[s] # "none"

\* An open session that does not own the log never had an event.
IdleInv ==
  \A s \in Sessions : init[s] = "ok" /\ life[s] \in Held =>
    state.owner = s \/ (log[s] = <<>> /\ store # s)

\* No log begins with an event of a session that is yet to come.
FreshInv ==
  \A s \in Sessions : life[s] = "new" =>
    /\ disk # <<>> => disk[1].by # s
    /\ \A t \in Sessions : log[t] # <<>> => log[t][1].by # s

\* A session that opens over a stored log nobody owns did not write it.
ForeignInv ==
  \A i \in DOMAIN chain : chain[i].do = "init" /\ state.known /\ state.owner = None =>
    /\ disk # <<>> /\ disk[1].by # chain[i].for
    /\ log[chain[i].for] # <<>> => log[chain[i].for][1].by = chain[i].for

Inv ==
  /\ TypeOK /\ EntryInv /\ HolderInv /\ ReservedInv /\ OpsInv /\ OpenInv /\ LoadInv
  /\ OwnerInv /\ ReleaseInv /\ LifeInv /\ IdleInv /\ FreshInv /\ ForeignInv
  /\ WritingInv /\ RetiredIsDurable

-----------------------------------------------------------------------------
(* Sequences *)

LEMMA Singleton ==
  ASSUME NEW S, NEW e \in S
  PROVE  <<e>> \in Seq(S) /\ Len(<<e>>) = 1 /\ <<e>>[1] = e
OBVIOUS

LEMMA PrefixDef ==
  ASSUME NEW S, NEW s \in Seq(S), NEW t \in Seq(S)
  PROVE  IsPrefix(s, t) <=> Len(s) <= Len(t) /\ \A i \in 1 .. Len(s) : s[i] = t[i]
<1>1. SubSeq(s, 1, Len(s)) = s
  OBVIOUS
<1>2. ASSUME Len(s) <= Len(t)
      PROVE  /\ SubSeq(t, 1, Len(s)) \in Seq(S) /\ Len(SubSeq(t, 1, Len(s))) = Len(s)
             /\ \A i \in 1 .. Len(s) : SubSeq(t, 1, Len(s))[i] = t[i]
  BY <1>2
<1>3. ASSUME Len(s) <= Len(t), \A i \in 1 .. Len(s) : s[i] = t[i]
      PROVE  s = SubSeq(t, 1, Len(s))
  BY <1>2, <1>3, SeqEqual
<1> QED BY <1>1, <1>2, <1>3 DEF IsPrefix

LEMMA PrefixTrans ==
  ASSUME NEW S, NEW r \in Seq(S), NEW s \in Seq(S), NEW t \in Seq(S),
         IsPrefix(r, s), IsPrefix(s, t)
  PROVE  IsPrefix(r, t)
BY PrefixDef

LEMMA PrefixConcat ==
  ASSUME NEW S, NEW s \in Seq(S), NEW t \in Seq(S)
  PROVE  s \o t \in Seq(S) /\ IsPrefix(s, s \o t) /\ IsPrefix(s, s)
<1>1. /\ s \o t \in Seq(S) /\ Len(s \o t) = Len(s) + Len(t)
      /\ Len(s) \in Nat /\ Len(t) \in Nat
      /\ \A i \in 1 .. Len(s) + Len(t) :
           (s \o t)[i] = IF i <= Len(s) THEN s[i] ELSE t[i - Len(s)]
  BY ConcatProperties, LenProperties
<1>2. Len(s) <= Len(s \o t) /\ \A i \in 1 .. Len(s) : s[i] = (s \o t)[i]
  BY <1>1
<1>3. IsPrefix(s, s \o t)
  BY <1>1, <1>2, PrefixDef
<1>4. IsPrefix(s, s)
  BY PrefixDef
<1> QED BY <1>1, <1>3, <1>4

LEMMA PrefixAppend ==
  ASSUME NEW S, NEW s \in Seq(S), NEW e \in S
  PROVE  Append(s, e) \in Seq(S) /\ IsPrefix(s, Append(s, e))
<1>1. /\ Append(s, e) \in Seq(S) /\ Len(s) <= Len(Append(s, e))
      /\ \A i \in 1 .. Len(s) : s[i] = Append(s, e)[i]
  OBVIOUS
<1> QED BY <1>1, PrefixDef

\* Writing what a log has beyond its stored prefix stores a longer prefix.
LEMMA PrefixExtend ==
  ASSUME NEW S, NEW s \in Seq(S), NEW t \in Seq(S), IsPrefix(s, t),
         NEW n \in Len(s) .. Len(t)
  PROVE  LET u == s \o SubSeq(t, Len(s) + 1, n)
         IN  /\ u \in Seq(S) /\ Len(u) = n
             /\ IsPrefix(u, t) /\ IsPrefix(s, u)
<1> DEFINE v == SubSeq(t, Len(s) + 1, n)
<1>1. v \in Seq(S) /\ Len(v) = n - Len(s) /\ \A i \in 1 .. Len(v) : v[i] = t[Len(s) + i]
  OBVIOUS
<1> HIDE DEF v
<1>2. /\ s \o v \in Seq(S) /\ Len(s \o v) = n
      /\ \A i \in 1 .. n : (s \o v)[i] = IF i <= Len(s) THEN s[i] ELSE v[i - Len(s)]
  BY <1>1, ConcatProperties
<1>3. \A i \in 1 .. Len(s) : s[i] = t[i]
  BY PrefixDef
<1>4. ASSUME NEW i \in 1 .. n
      PROVE  (s \o v)[i] = t[i]
  <2>1. CASE i <= Len(s)
    BY <1>2, <1>3, <2>1
  <2>2. CASE ~(i <= Len(s))
    <3>1. i - Len(s) \in 1 .. Len(v)
      BY <1>1, <2>2
    <3> QED BY <1>1, <1>2, <2>2, <3>1
  <2> QED BY <2>1, <2>2
<1>5. IsPrefix(s \o v, t)
  <2>1. Len(s \o v) <= Len(t) /\ \A i \in 1 .. Len(s \o v) : (s \o v)[i] = t[i]
    BY <1>2, <1>4
  <2>2. s \o v \in Seq(S)
    BY <1>2
  <2> HIDE <1>2
  <2> QED BY <2>1, <2>2, PrefixDef
<1>6. IsPrefix(s, s \o v)
  BY <1>1, PrefixConcat
<1> QED BY <1>2, <1>5, <1>6 DEF v

-----------------------------------------------------------------------------
(* The chain *)

\* What a step does to the chain: nothing, one operation more, one less.
LEMMA Queues ==
  ASSUME chain \in Seq(Op), NEW op \in Op, chain' = Append(chain, op)
  PROVE  /\ chain' \in Seq(Op) /\ DOMAIN chain = 1 .. Len(chain) /\ Len(chain) \in Nat
         /\ DOMAIN chain' = 1 .. Len(chain) + 1
         /\ \A i \in DOMAIN chain : chain'[i] = chain[i]
         /\ chain'[Len(chain) + 1] = op
BY AppendProperties, LenProperties

LEMMA Drops ==
  ASSUME chain \in Seq(Op), chain # <<>>, chain' = Tail(chain)
  PROVE  /\ chain' \in Seq(Op) /\ Head(chain) = chain[1] /\ Head(chain) \in Op
         /\ DOMAIN chain = 1 .. Len(chain) /\ Len(chain) \in Nat \ {0}
         /\ DOMAIN chain' = 1 .. Len(chain) - 1
         /\ \A i \in DOMAIN chain' : chain'[i] = chain[i + 1]
BY HeadTailProperties, LenProperties, EmptySeq

LEMMA Removes ==
  ASSUME chain \in Seq(Op), NEW k \in DOMAIN chain, chain' = RemoveAt(chain, k)
  PROVE  /\ chain' \in Seq(Op) /\ DOMAIN chain = 1 .. Len(chain) /\ Len(chain) \in Nat
         /\ DOMAIN chain' = 1 .. Len(chain) - 1
         /\ \A i \in DOMAIN chain' : chain'[i] = chain[IF i < k THEN i ELSE i + 1]
<1> DEFINE s == SubSeq(chain, 1, k - 1)
           t == SubSeq(chain, k + 1, Len(chain))
<1>1. DOMAIN chain = 1 .. Len(chain) /\ Len(chain) \in Nat /\ k \in 1 .. Len(chain)
  BY LenProperties
<1>2. /\ s \in Seq(Op) /\ Len(s) = k - 1
      /\ \A i \in 1 .. k - 1 : s[i] = chain[i]
  BY <1>1
<1>3. /\ t \in Seq(Op) /\ Len(t) = Len(chain) - k
      /\ \A i \in 1 .. Len(chain) - k : t[i] = chain[k + i]
  BY <1>1
<1> HIDE DEF s, t
<1>4. chain' = s \o t
  BY DEF RemoveAt, s, t
<1>5. /\ chain' \in Seq(Op) /\ Len(chain') = Len(s) + Len(t)
      /\ \A i \in 1 .. Len(s) + Len(t) : chain'[i] =
           IF i <= Len(s) THEN s[i] ELSE t[i - Len(s)]
  <2>1. s \in Seq(Op) /\ t \in Seq(Op)
    BY <1>2, <1>3
  <2> QED BY <1>4, <2>1, ConcatProperties
<1>6. DOMAIN chain' = 1 .. Len(chain) - 1
  BY <1>1, <1>2, <1>3, <1>5, LenProperties
<1>7. ASSUME NEW i \in 1 .. Len(chain) - 1
      PROVE  chain'[i] = chain[IF i < k THEN i ELSE i + 1]
  <2>1. CASE i < k
    BY <1>1, <1>2, <1>3, <1>5, <2>1
  <2>2. CASE ~(i < k)
    <3>1. i - Len(s) \in 1 .. Len(chain) - k /\ k + (i - Len(s)) = i + 1
      BY <1>1, <1>2, <2>2
    <3>2. t[i - Len(s)] = chain[i + 1]
      BY <1>3, <3>1
    <3>3. i \in 1 .. Len(s) + Len(t) /\ ~(i <= Len(s))
      BY <1>1, <1>2, <1>3, <2>2
    <3>4. chain'[i] = t[i - Len(s)]
      BY <1>5, <3>3
    <3> QED BY <2>2, <3>2, <3>4
  <2> QED BY <2>1, <2>2
<1> QED BY <1>1, <1>5, <1>6, <1>7

\* The head of the chain goes on as an append.
LEMMA GoesOn ==
  ASSUME chain \in Seq(Op), chain # <<>>, chain' = [chain EXCEPT ![1].do = "suffix"]
  PROVE  /\ chain' \in Seq(Op) /\ 1 \in DOMAIN chain /\ chain[1] = Head(chain)
         /\ DOMAIN chain = 1 .. Len(chain) /\ Len(chain) \in Nat
         /\ DOMAIN chain' = DOMAIN chain
         /\ \A i \in DOMAIN chain : i # 1 => chain'[i] = chain[i]
         /\ chain'[1] = [do |-> "suffix", for |-> chain[1].for, upto |-> chain[1].upto]
<1>1. /\ 1 \in DOMAIN chain /\ DOMAIN chain = 1 .. Len(chain) /\ Len(chain) \in Nat
      /\ chain[1] \in Op /\ chain[1] = Head(chain)
  BY HeadTailProperties, LenProperties, EmptySeq
<1>2. [chain[1] EXCEPT !.do = "suffix"]
        = [do |-> "suffix", for |-> chain[1].for, upto |-> chain[1].upto]
  BY <1>1 DEF Op
<1>3. [do |-> "suffix", for |-> chain[1].for, upto |-> chain[1].upto] \in Op
  BY <1>1 DEF Op
<1> QED BY <1>1, <1>2, <1>3

\* The operation at the head.
LEMMA AtHead ==
  ASSUME chain \in Seq(Op), NEW do, Running(do)
  PROVE  /\ chain # <<>> /\ 1 \in DOMAIN chain /\ chain[1] \in Op
         /\ Head(chain) = chain[1] /\ Subject = chain[1].for /\ chain[1].do = do
BY HeadTailProperties, LenProperties, EmptySeq DEF Running, Subject

-----------------------------------------------------------------------------
(* What the shared parts of the handlers do *)

LEMMA NoEntryType == NoEntry \in Entry /\ NoEntry.phase = "none"
<1>1. <<>> \in Seq(Event)
  BY EmptySeq
<1> QED BY <1>1 DEF NoEntry, Entry

\* An entry that is removed leaves nobody waiting for it or committing it.
LEMMA RemoveEffect ==
  ASSUME Types, NEW c, NEW then \in {"done", "start"}, RemoveEntry(c, then)
  PROVE  /\ entry' = NoEntry
         /\ consumer' \in [Consumers -> Place]
         /\ awaits' \in [Consumers -> Sessions \cup {None}]
         /\ c \in Consumers => consumer'[c] = then
         /\ \A d \in Consumers \ {c} :
              \/ consumer'[d] = consumer[d] /\ consumer[d] \notin {"waiting", "committing"}
              \/ consumer[d] = "waiting" /\ consumer'[d] = "start"
              \/ consumer[d] = "committing" /\ consumer'[d] = "ousted"
<1>1. entry' = NoEntry /\ consumer' = Woken(c, then)
  BY DEF RemoveEntry
<1>2. \A d \in Consumers \ {c} :
        consumer'[d] = IF consumer[d] = "waiting" THEN "start"
                       ELSE IF consumer[d] = "committing" THEN "ousted" ELSE consumer[d]
  BY <1>1 DEF Woken
<1>3. c \in Consumers => consumer'[c] = then
  BY <1>1 DEF Woken
<1>4. \A d \in Consumers : consumer'[d] \in Place
  BY <1>2, <1>3 DEF Types, Place
<1>5. consumer' \in [Consumers -> Place]
  BY <1>1, <1>4 DEF Woken
<1>6. awaits' \in [Consumers -> Sessions \cup {None}]
  BY DEF RemoveEntry, Types
<1> QED BY <1>1, <1>2, <1>3, <1>5, <1>6

\* An append that changes the log removes the entry.
LEMMA InvalidateEffect ==
  ASSUME Types, HolderInv, Invalidate
  PROVE  /\ entry' = NoEntry \/ (UNCHANGED entry /\ entry.phase = "none")
         /\ entry'.phase = "none"
         /\ consumer' \in [Consumers -> Place]
         /\ awaits' \in [Consumers -> Sessions \cup {None}]
         /\ \A d \in Consumers :
              \/ consumer'[d] = consumer[d] /\ consumer[d] # "committing"
              \/ consumer[d] = "waiting" /\ consumer'[d] = "start"
              \/ consumer[d] = "committing" /\ consumer'[d] = "ousted"
<1>1. CASE entry.phase = "none"
  BY <1>1 DEF Invalidate, pool, Types, HolderInv
<1>2. CASE entry.phase # "none"
  <2>1. RemoveEntry(None, "done")
    BY <1>2 DEF Invalidate
  <2>2. /\ entry' = NoEntry
        /\ consumer' \in [Consumers -> Place]
        /\ awaits' \in [Consumers -> Sessions \cup {None}]
        /\ \A d \in Consumers \ {None} :
             \/ consumer'[d] = consumer[d] /\ consumer[d] # "committing"
             \/ consumer[d] = "waiting" /\ consumer'[d] = "start"
             \/ consumer[d] = "committing" /\ consumer'[d] = "ousted"
    BY <2>1, RemoveEffect
  <2>3. Consumers \ {None} = Consumers
    BY PersistenceAssumption DEF PersistenceAssumption
  <2>4. entry'.phase = "none"
    BY <2>2 DEF NoEntry
  <2> QED BY <2>2, <2>3, <2>4
<1> QED BY <1>1, <1>2

\* Who writes owns the log: its batch goes on where the stored log ends.
LEMMA WriterOwns ==
  ASSUME Inv, NEW do \in {"batch", "suffix"}, Running(do),
         NEW s, s = Subject, NEW n, n = Head(chain).upto
  PROVE  /\ s \in Sessions /\ state.owner = s /\ n \in Nat /\ n <= Len(log[s])
         /\ IsPrefix(disk, log[s]) /\ ~torn /\ state.known
         /\ state.cursor = Len(disk) /\ Len(disk) <= n
<1> USE DEF Inv, TypeOK
<1>1. /\ 1 \in DOMAIN chain /\ chain[1].do = do /\ chain[1].for = s /\ chain[1].upto = n
      /\ chain[1] \in Op
  BY AtHead DEF Types
<1>2. n \in Nat
  BY <1>1 DEF Op
<1>3. s \in Sessions
  BY <1>1 DEF OpsInv
<1>4. s # None
  BY <1>3, PersistenceAssumption DEF PersistenceAssumption
<1>5. state.owner = s
  BY <1>1 DEF OwnerInv, TrackInv, WriterInv
<1>6. /\ IsPrefix(disk, log[s]) /\ state.cursor = Len(disk) /\ ~torn /\ state.known
      /\ init[s] = "ok" => base[s] = state.cursor
  BY <1>4, <1>5 DEF OwnerInv, TrackInv, WriterInv
<1>7. state.cursor <= n /\ n <= Len(log[s])
  <2>1. CASE do = "batch"
    <3>1. init[s] = "ok"
      BY <1>1, <2>1 DEF OpsInv
    <3>2. n \in base[s] + 1 .. Len(log[s]) /\ base[s] \in Nat
      BY <1>1, <1>3, <2>1 DEF OneWrite, Types
    <3> QED BY <1>6, <3>1, <3>2
  <2>2. CASE do = "suffix"
    <3>1. n = base[s] /\ base[s] <= Len(log[s])
      BY <1>1, <1>3, <2>2 DEF OpenInv, Opens, Types
    <3>2. state.cursor <= n
      BY <1>1, <2>2 DEF OwnerInv, TrackInv, WriterInv
    <3> QED BY <3>1, <3>2
  <2> QED BY <2>1, <2>2
<1> QED BY <1>2, <1>3, <1>5, <1>6, <1>7

\* Appending stores the owner's log up to what was asked.
LEMMA AppendsEffect ==
  ASSUME Inv, NEW do \in {"batch", "suffix"}, Running(do),
         NEW s, s = Subject, NEW n, n = Head(chain).upto, Appends(s, n)
  PROVE  /\ s \in Sessions /\ state.owner = s /\ n \in Nat /\ n <= Len(log[s])
         /\ disk' \in Seq(Event) /\ Len(disk') = n
         /\ IsPrefix(disk, disk') /\ IsPrefix(disk', log[s])
         /\ state' = [known |-> TRUE, cursor |-> n, materialized |-> TRUE, owner |-> s]
         /\ ~torn /\ torn' = torn
<1>1. /\ s \in Sessions /\ state.owner = s /\ n \in Nat /\ n <= Len(log[s])
      /\ IsPrefix(disk, log[s]) /\ ~torn /\ state.known
      /\ state.cursor = Len(disk) /\ Len(disk) <= n
  BY WriterOwns
<1>2. /\ disk \in Seq(Event) /\ log[s] \in Seq(Event) /\ Len(disk) \in Nat
      /\ Len(log[s]) \in Nat /\ state \in State
  BY <1>1, LenProperties DEF Inv, TypeOK, Types
<1>3. n \in Len(disk) .. Len(log[s])
  BY <1>1, <1>2
<1>4. /\ disk' = disk \o SubSeq(log[s], Len(disk) + 1, n) /\ torn' = torn
      /\ state' = [state EXCEPT !.cursor = n, !.materialized = TRUE]
  BY <1>1 DEF Appends
<1>5. disk' \in Seq(Event) /\ Len(disk') = n /\ IsPrefix(disk, disk') /\ IsPrefix(disk', log[s])
  BY <1>1, <1>2, <1>3, <1>4, PrefixExtend
<1>6. state' = [known |-> TRUE, cursor |-> n, materialized |-> TRUE, owner |-> s]
  BY <1>1, <1>2, <1>4 DEF State
<1> QED BY <1>1, <1>4, <1>5, <1>6

\* A session opens over a log that nobody tracks any more, and extends it.
LEMMA AcceptsEffect ==
  ASSUME Inv, Running("init"),
         NEW s, s = Subject, NEW n, n = Head(chain).upto, Accepts(s, n)
  PROVE  /\ s \in Sessions /\ n = base[s] /\ n \in Nat /\ n <= Len(log[s])
         /\ Adopts /\ Prefix = disk /\ IsPrefix(disk, log[s]) /\ Len(disk) <= n
<1> USE DEF Inv, TypeOK
<1>1. /\ 1 \in DOMAIN chain /\ chain[1].do = "init" /\ chain[1].for = s /\ chain[1].upto = n
      /\ chain[1] \in Op
  BY AtHead DEF Types
<1>2. s \in Sessions
  BY <1>1 DEF OpsInv
<1>3. n = base[s] /\ n \in Nat /\ n <= Len(log[s])
  BY <1>1, <1>2 DEF OpenInv, Opens, Types
<1>4. /\ disk \in Seq(Event) /\ log[s] \in Seq(Event)
      /\ Len(disk) \in Nat /\ Len(log[s]) \in Nat
  BY <1>2, LenProperties DEF Types
<1>5. /\ SeedOf(s, n) \in Seq(Event) /\ Len(SeedOf(s, n)) = n
      /\ \A i \in 1 .. n : SeedOf(s, n)[i] = log[s][i]
  BY <1>3, <1>4 DEF SeedOf
<1>6. IsPrefix(Prefix, SeedOf(s, n))
  BY DEF Accepts
<1>7. Adopts
  <2> SUFFICES ASSUME ~Adopts
               PROVE  FALSE
    OBVIOUS
  <2>1. state.known /\ state.owner = None
    BY DEF Adopts, Types
  <2>2. /\ state.cursor \in 1 .. Len(disk)
        /\ disk[1].by # s /\ (log[s] # <<>> => log[s][1].by = s)
    BY <1>1, <2>1 DEF OwnerInv, TrackInv, WriterInv, ForeignInv
  <2>3. /\ Prefix \in Seq(Event) /\ Len(Prefix) = state.cursor /\ Prefix[1] = disk[1]
    BY <1>4, <2>1, <2>2 DEF Prefix
  <2>4. Len(Prefix) <= n /\ Prefix[1] = SeedOf(s, n)[1]
    <3>1. Len(Prefix) <= n /\ \A i \in 1 .. Len(Prefix) : Prefix[i] = SeedOf(s, n)[i]
      BY <1>5, <1>6, <2>3, PrefixDef
    <3> QED BY <2>2, <2>3, <3>1
  <2>5. n >= 1
    BY <1>3, <2>2, <2>3, <2>4
  <2>6. log[s][1] = disk[1] /\ log[s] # <<>>
    BY <1>3, <1>4, <1>5, <2>3, <2>4, <2>5, EmptySeq
  <2> QED BY <2>2, <2>6
<1>8. Prefix = disk
  BY <1>7 DEF Adopts, Prefix
<1>9. Len(disk) <= n /\ \A i \in 1 .. Len(disk) : disk[i] = SeedOf(s, n)[i]
  BY <1>4, <1>5, <1>6, <1>8, PrefixDef
<1>10. \A i \in 1 .. Len(disk) : disk[i] = log[s][i]
  BY <1>3, <1>4, <1>5, <1>9
<1>11. IsPrefix(disk, log[s])
  <2>1. Len(disk) <= Len(log[s])
    BY <1>3, <1>4, <1>9
  <2> QED BY <1>4, <1>10, <2>1, PrefixDef
<1> QED BY <1>2, <1>3, <1>7, <1>8, <1>9, <1>11

LEMMA ClaimsEffect ==
  ASSUME Inv, Running("init"),
         NEW s, s = Subject, NEW n, n = Head(chain).upto, Claims(s, n)
  PROVE  /\ s \in Sessions /\ n = base[s] /\ n \in Nat /\ n <= Len(log[s])
         /\ disk' = disk /\ disk \in Seq(Event) /\ Len(disk) \in Nat /\ Prefix = disk
         /\ IsPrefix(disk, log[s]) /\ torn' = FALSE /\ state' = Owned(s, Len(disk))
<1>1. /\ s \in Sessions /\ n = base[s] /\ n \in Nat /\ n <= Len(log[s])
      /\ Adopts /\ Prefix = disk /\ IsPrefix(disk, log[s])
  BY AcceptsEffect DEF Claims
<1>2. disk \in Seq(Event) /\ Len(disk) \in Nat
  BY LenProperties DEF Inv, TypeOK, Types
<1>3. disk' = disk /\ torn' = FALSE /\ state' = Owned(s, Len(disk))
  BY <1>1 DEF Claims
<1> QED BY <1>1, <1>2, <1>3

\* Who loses the id to a session that opens never had an event.
LEMMA AbandonedEffect ==
  ASSUME Inv, Running("init"), state.owner # None, Abandoned, init[state.owner] = "ok"
  PROVE  log[state.owner] = <<>> /\ store # state.owner
<1> USE DEF Inv, TypeOK
<1>1. 1 \in DOMAIN chain /\ Opens(1)
  BY AtHead DEF Types, Opens
<1>2. state.owner \in Sessions
  BY DEF Types, State
<1>3. store # state.owner
  BY <1>1, <1>2, PersistenceAssumption DEF OpenInv, PersistenceAssumption
<1>4. base[state.owner] = 0
  BY DEF Abandoned, OwnerInv, TrackInv, WriterInv
<1>5. log[state.owner] \in Seq(Event) /\ ~(0 < Len(log[state.owner]))
  BY <1>2, <1>4 DEF Abandoned, HasWork, Types
<1>6. log[state.owner] = <<>>
  BY <1>5, EmptySeq
<1> QED BY <1>3, <1>6

\* What recovery writes behind a log: at most the event that closes its turn.
LEMMA ClosersType ==
  ASSUME NEW events \in Seq(Event)
  PROVE  Closers(events) \in Seq(Event) /\ Len(Closers(events)) <= 1
         /\ (events = <<>> => Closers(events) = <<>>)
<1> DEFINE r == By("repair", FALSE)
<1>1. r \in Event
  BY DEF By, Event
<1>2. CASE events # <<>> /\ Closers(events) = <<r>>
  <2> HIDE DEF r
  <2>1. <<r>> \in Seq(Event) /\ Len(<<r>>) = 1
    BY <1>1
  <2> QED BY <1>2, <2>1
<1>3. CASE Closers(events) = <<>>
  BY <1>3, EmptySeq
<1> QED BY <1>2, <1>3 DEF Closers

\* What a crash may cut short is the beginning of a session's log or what
\* follows the stored one.
LEMMA WritesEffect ==
  ASSUME Inv
  PROVE  /\ Writes \in Seq(Event)
         /\ disk = <<>> /\ Writes # <<>> =>
              \E s \in Sessions : log[s] # <<>> /\ Writes[1] = log[s][1]
<1> USE DEF Inv, TypeOK
<1>1. disk \in Seq(Event) /\ Len(disk) \in Nat /\ (disk = <<>> => Len(disk) = 0)
  BY LenProperties DEF Types
<1> DEFINE n == Head(chain).upto
<1>2. ASSUME Subject \in Sessions, n \in Nat, n <= Len(log[Subject]),
             Writes = SubSeq(log[Subject], Len(disk) + 1, n)
      PROVE  /\ Writes \in Seq(Event)
             /\ disk = <<>> /\ Writes # <<>> =>
                  \E s \in Sessions : log[s] # <<>> /\ Writes[1] = log[s][1]
  <2>1. log[Subject] \in Seq(Event) /\ Len(log[Subject]) \in Nat
    BY <1>2, LenProperties DEF Types
  <2> HIDE DEF n
  <2>2. /\ Writes \in Seq(Event)
        /\ Len(Writes) = IF Len(disk) + 1 <= n THEN n - Len(disk) ELSE 0
        /\ \A i \in 1 .. n - Len(disk) : Writes[i] = log[Subject][Len(disk) + i]
    BY <1>1, <1>2, <2>1
  <2>3. ASSUME disk = <<>>, Writes # <<>>
        PROVE  log[Subject] # <<>> /\ Writes[1] = log[Subject][1]
    <3>1. Len(disk) = 0 /\ Len(Writes) # 0
      BY <1>1, <2>2, <2>3, EmptySeq
    <3>2. n >= 1
      BY <1>2, <2>2, <3>1
    <3> QED BY <1>2, <2>1, <2>2, <3>1, <3>2, EmptySeq
  <2> QED BY <1>2, <2>2, <2>3
<1>3. CASE writing
  <2>1. /\ Subject \in Sessions /\ n \in Nat /\ n <= Len(log[Subject])
        /\ state.cursor = Len(disk)
    BY <1>3, WriterOwns DEF WritingInv
  <2>2. Writes = SubSeq(log[Subject], state.cursor + 1, n)
    <3>1. ~Running("commit")
      BY <1>3 DEF WritingInv, Running
    <3> QED BY <1>3, <3>1 DEF Writes
  <2> QED BY <1>2, <2>1, <2>2
<1>4. CASE ~writing
  <2>1. Writes = Closers(disk) \/ Writes = <<>>
    BY <1>4 DEF Writes
  <2>2. Closers(disk) \in Seq(Event) /\ (disk = <<>> => Closers(disk) = <<>>)
    BY <1>1, ClosersType
  <2> QED BY <2>1, <2>2, EmptySeq
<1> QED BY <1>3, <1>4

LEMMA CrashEffect ==
  ASSUME Inv, Crash
  PROVE  /\ disk' \in Seq(Event) /\ IsPrefix(disk, disk')
         /\ disk = <<>> /\ disk' # <<>> =>
              \E s \in Sessions : log[s] # <<>> /\ disk'[1] = log[s][1]
<1> DEFINE W == Writes
<1>1. /\ W \in Seq(Event) /\ disk \in Seq(Event) /\ Len(W) \in Nat
      /\ disk = <<>> /\ W # <<>> =>
           \E s \in Sessions : log[s] # <<>> /\ W[1] = log[s][1]
  BY WritesEffect, LenProperties DEF Inv, TypeOK, Types
<1>2. PICK k \in 0 .. Len(W) : disk' = disk \o SubSeq(W, 1, k)
  BY DEF Crash
<1> HIDE DEF W
<1>3. SubSeq(W, 1, k) \in Seq(Event) /\ Len(SubSeq(W, 1, k)) = k
      /\ \A i \in 1 .. k : SubSeq(W, 1, k)[i] = W[i]
  BY <1>1, <1>2
<1>4. disk' \in Seq(Event) /\ IsPrefix(disk, disk')
  BY <1>1, <1>2, <1>3, PrefixConcat
<1>5. ASSUME disk = <<>>, disk' # <<>>
      PROVE  W # <<>> /\ disk'[1] = W[1]
  <2>1. disk' = SubSeq(W, 1, k)
    BY <1>2, <1>3, <1>5, ConcatEmptySeq
  <2>2. k >= 1
    BY <1>3, <1>4, <1>5, <2>1, EmptySeq
  <2> QED BY <1>1, <1>2, <1>3, <2>1, <2>2, EmptySeq
<1> QED BY <1>1, <1>4, <1>5

\* What a teardown still writes is the owner's.
LEMMA RestEffect ==
  ASSUME Inv, Reload
  PROVE  /\ disk' \in Seq(Event) /\ IsPrefix(disk, disk')
         /\ disk' # disk => state.owner \in Sessions /\ IsPrefix(disk', log[state.owner])
         /\ disk = <<>> /\ disk' # <<>> =>
              \E s \in Sessions : log[s] # <<>> /\ disk'[1] = log[s][1]
<1> USE DEF Inv, TypeOK
<1> DEFINE s == state.owner
<1>1. disk \in Seq(Event)
  BY DEF Types
<1>2. CASE disk' = disk
  BY <1>1, <1>2, PrefixConcat, EmptySeq
<1>3. CASE disk' # disk
  <2>1. disk' = disk \o Rest
    BY <1>3 DEF Reload
  <2>2. CASE ~(HasOwner /\ init[s] = "ok")
    BY <1>1, <1>3, <2>1, <2>2, ConcatEmptySeq DEF Rest
  <2>3. CASE HasOwner /\ init[s] = "ok"
    <3>1. /\ s \in Sessions /\ log[s] \in Seq(Event) /\ Len(log[s]) \in Nat
          /\ IsPrefix(disk, log[s]) /\ state.cursor = Len(disk) /\ Len(disk) \in Nat
      BY <2>3, LenProperties DEF HasOwner, OwnerInv, TrackInv, Types, State
    <3>2. disk' = disk \o SubSeq(log[s], Len(disk) + 1, Len(log[s]))
      BY <2>1, <2>3, <3>1 DEF Rest
    <3> HIDE DEF s
    <3>3. Len(log[s]) \in Len(disk) .. Len(log[s])
      BY <1>1, <3>1, PrefixDef
    <3>4. disk' \in Seq(Event) /\ IsPrefix(disk, disk') /\ IsPrefix(disk', log[s])
      BY <1>1, <3>1, <3>2, <3>3, PrefixExtend
    <3>5. disk' # <<>> => log[s] # <<>> /\ disk'[1] = log[s][1]
      BY <3>1, <3>4, PrefixDef, EmptySeq
    <3> QED BY <3>1, <3>4, <3>5 DEF s
  <2> QED BY <2>2, <2>3
<1> QED BY <1>2, <1>3

-----------------------------------------------------------------------------
(* Types *)

\* What settles an initialization keeps the types.
LEMMA InitTypes ==
  ASSUME Inv, InitDone
  PROVE  Types'
<1> USE DEF Inv, TypeOK
<1> DEFINE s == Subject
           n == Head(chain).upto
<1>1. /\ UNCHANGED <<store, log, life, base, retiring, writing, crashes>>
      /\ Running("init") /\ chain # <<>>
  BY DEF InitDone, Running
<1>2. /\ 1 \in DOMAIN chain /\ chain[1].do = "init" /\ chain[1].for = s
  BY <1>1, AtHead DEF Types
<1>3. s \in Sessions
  BY <1>2 DEF OpsInv
<1> HIDE DEF s, n
<1>4. CASE InitOk(s, n) \/ InitGoesOn(s, n)
  <2>1. disk' = disk /\ torn' = FALSE /\ state' = Owned(s, Len(disk)) /\ Len(disk) \in Nat
    BY <1>1, <1>4, ClaimsEffect DEF s, n, InitOk, InitGoesOn
  <2>2. /\ \/ chain' = Tail(chain) /\ init' = [init EXCEPT ![s] = "ok"]
           \/ chain' = [chain EXCEPT ![1].do = "suffix"] /\ UNCHANGED init
        /\ UNCHANGED pool
    BY <1>4 DEF InitOk, InitGoesOn, Claims
  <2>3. chain' \in Seq(Op)
    BY <1>1, <2>2, Drops, GoesOn DEF Types
  <2>4. init' \in [Sessions -> {"none", "pending", "ok", "failed"}]
    BY <1>3, <2>2 DEF Types
  <2>5. state' \in State
    BY <1>3, <2>1 DEF Owned, State
  <2> QED BY <1>1, <2>1, <2>2, <2>3, <2>4, <2>5 DEF Types, pool
<1>5. CASE InitRejects(s)
  <2>1. chain' \in Seq(Op)
    BY <1>1, <1>5, Drops DEF InitRejects, Types
  <2> QED BY <1>1, <1>3, <1>5, <2>1 DEF InitRejects, stored, pool, NoState, Types, State
<1> QED BY <1>4, <1>5 DEF InitDone, s, n

LEMMA AppendTypes ==
  ASSUME Inv, NEW do \in {"batch", "suffix"}, Running(do),
         Appends(Subject, Head(chain).upto)
  PROVE  /\ disk' \in Seq(Event) /\ torn' \in BOOLEAN
         /\ state' \in State
         /\ entry' \in Entry
         /\ consumer' \in [Consumers -> Place]
         /\ awaits' \in [Consumers -> Sessions \cup {None}]
<1>1. /\ Subject \in Sessions /\ Head(chain).upto \in Nat /\ disk' \in Seq(Event)
      /\ torn' = torn
      /\ state' = [known |-> TRUE, cursor |-> Head(chain).upto, materialized |-> TRUE,
                   owner |-> Subject]
  BY AppendsEffect
<1>2. Invalidate
  BY DEF Appends
<1>3. /\ entry' = NoEntry \/ UNCHANGED entry
      /\ consumer' \in [Consumers -> Place]
      /\ awaits' \in [Consumers -> Sessions \cup {None}]
  BY <1>2, InvalidateEffect DEF Inv, TypeOK
<1> QED BY <1>1, <1>3, NoEntryType DEF Inv, TypeOK, Types, State

LEMMA CommitTypes ==
  ASSUME Inv, CommitDone
  PROVE  Types'
<1> USE DEF Inv, TypeOK
<1> DEFINE c == Subject
<1>1. /\ chain' \in Seq(Op) /\ UNCHANGED <<sessions, writing, crashes>> /\ Running("commit")
  BY Drops DEF CommitDone, Types, Running
<1>2. /\ 1 \in DOMAIN chain /\ chain[1].do = "commit" /\ chain[1].for = c
  BY <1>1, AtHead DEF Types
<1>3. c \in Consumers
  BY <1>2 DEF OpsInv
<1> HIDE DEF c
<1>4. ASSUME NEW then \in {"start", "done"}, RemoveEntry(c, then)
      PROVE  /\ entry' \in Entry
             /\ consumer' \in [Consumers -> Place]
             /\ awaits' \in [Consumers -> Sessions \cup {None}]
  BY <1>4, RemoveEffect, NoEntryType
<1>5. CASE CommitRefused(c) \/ CommitStale(c)
  BY <1>1, <1>4, <1>5 DEF CommitRefused, CommitStale, stored, sessions, Types
<1>6. CASE CommitRepair(c)
  <2>1. /\ entry' \in Entry /\ consumer' \in [Consumers -> Place]
        /\ awaits' \in [Consumers -> Sessions \cup {None}]
    BY <1>4, <1>6 DEF CommitRepair
  <2>2. disk' \in Seq(Event) /\ torn' \in BOOLEAN /\ UNCHANGED state
    BY <1>6 DEF CommitRepair, Types, Entry
  <2> QED BY <1>1, <2>1, <2>2 DEF sessions, Types
<1>7. CASE CommitReserved(c)
  <2>1. /\ entry' \in Entry
        /\ consumer' \in [Consumers -> Place]
        /\ Len(entry.view) \in Nat
    <3>1. consumer' \in [Consumers -> Place]
      BY <1>3, <1>7 DEF CommitReserved, Types, Place
    <3>2. entry' = [entry EXCEPT !.phase = "reserved"] \/ entry' = [entry EXCEPT !.phase = "ready"]
      BY <1>7 DEF CommitReserved
    <3>3. entry' \in Entry
      BY <3>2 DEF Types, Entry
    <3>4. Len(entry.view) \in Nat
      BY LenProperties DEF Types, Entry
    <3> QED BY <3>1, <3>3, <3>4
  <2>2. state' \in State /\ UNCHANGED <<stored, awaits>>
    <3>1. state' = [known |-> TRUE, cursor |-> Len(entry.view), materialized |-> TRUE,
                    owner |-> None]
      BY <1>7 DEF CommitReserved
    <3> QED BY <1>7, <2>1, <3>1 DEF CommitReserved, State
  <2> QED BY <1>1, <2>1, <2>2 DEF stored, sessions, Types
<1>8. CASE CommitOusted(c)
  <2>1. consumer' \in [Consumers -> Place] /\ awaits' \in [Consumers -> Sessions \cup {None}]
    BY <1>3, <1>8 DEF CommitOusted, Types, Place
  <2> QED BY <1>1, <1>8, <2>1 DEF CommitOusted, stored, sessions, Types
<1> QED BY <1>5, <1>6, <1>7, <1>8 DEF CommitDone, c

LEMMA TypesStep ==
  ASSUME Inv, [Next]_vars
  PROVE  Types'
<1> USE DEF Inv, TypeOK
<1>1. CASE InitDone
  BY <1>1, InitTypes
<1>2. CASE CommitDone
  BY <1>2, CommitTypes
<1>3. CASE SuffixDone
  <2>1. /\ chain' \in Seq(Op) /\ UNCHANGED <<store, log, life, base, retiring, crashes>>
        /\ init' \in [Sessions -> {"none", "pending", "ok", "failed"}]
        /\ Running("suffix") /\ writing' = FALSE
    BY <1>3, Drops DEF SuffixDone, Types, Running
  <2>2. CASE Appends(Subject, Head(chain).upto)
    BY <2>1, <2>2, AppendTypes DEF Types
  <2>3. CASE AppendFails
    BY <2>1, <2>3 DEF Types, AppendFails, stored, pool
  <2> QED BY <1>3, <2>2, <2>3 DEF SuffixDone
<1>4. CASE BatchDone
  <2>1. /\ chain' \in Seq(Op) /\ UNCHANGED <<store, log, init, crashes>> /\ writing' = FALSE
        /\ retiring' \in Sessions \cup {None}
        /\ life' \in [Sessions ->
              {"new", "live", "overlap", "retiring", "failed", "gone", "lost"}]
        /\ Running("batch")
    BY <1>4, Drops DEF BatchDone, Types, Running, Forget
  <2>2. CASE Appends(Subject, Head(chain).upto) /\ base' = [base EXCEPT ![Subject] = Head(chain).upto]
    <3>1. Subject \in Sessions /\ Head(chain).upto \in Nat /\ Head(chain).upto <= Len(log[Subject])
      BY <2>1, <2>2, AppendsEffect
    <3>2. base' \in [Sessions -> Nat] /\ \A s \in Sessions : base'[s] <= Len(log[s])
      BY <2>2, <3>1 DEF Types
    <3> QED BY <2>1, <2>2, <3>2, AppendTypes DEF Types
  <2>3. CASE AppendFails /\ UNCHANGED base
    BY <2>1, <2>3 DEF Types, AppendFails, stored, pool
  <2> QED BY <1>4, <2>2, <2>3 DEF BatchDone
<1>5. CASE ReleaseDone
  <2>1. chain' \in Seq(Op)
    BY <1>5, Drops DEF ReleaseDone, Types, Running
  <2> QED BY <1>5, <2>1 DEF ReleaseDone, Types, Forget, NoState, State, stored, pool
<1>6. CASE LoadDone
  <2>1. chain' \in Seq(Op)
    BY <1>6, Drops DEF LoadDone, Types, Running
  <2>2. entry' \in Entry
    <3>1. disk \o Closers(disk) \in Seq(Event)
      BY ClosersType, ConcatProperties DEF Types
    <3>2. [phase |-> "ready", view |-> disk \o Closers(disk), of |-> disk, tail |-> torn]
            \in Entry
      BY <3>1 DEF Types, Entry
    <3>3. entry \in Entry
      BY DEF Types
    <3> QED BY <1>6, <3>2, <3>3, NoEntryType DEF LoadDone, pool
  <2>3. consumer' \in [Consumers -> Place]
        /\ UNCHANGED <<awaits, stored, sessions, state, writing, crashes>>
    BY <1>6 DEF LoadDone, Types, Place, pool
  <2> QED BY <2>1, <2>2, <2>3 DEF Types, stored, sessions
<1>7. ASSUME NEW s \in Sessions, NEW seed \in {<<>>, <<By(s, FALSE)>>}, Create(s, seed)
      PROVE  Types'
  <2>1. By(s, FALSE) \in Event
    BY DEF By, Event
  <2>2. seed \in Seq(Event) /\ Len(seed) \in Nat
    BY <2>1, Singleton, EmptySeq
  <2>3. [do |-> "init", for |-> s, upto |-> Len(seed)] \in Op
    BY <2>2 DEF Op
  <2>4. chain' \in Seq(Op)
    BY <1>7, <2>3, Queues DEF Create, Queued, Types
  <2> QED BY <1>7, <2>2, <2>4 DEF Create, Types, stored, pool
<1>8. ASSUME NEW s \in Sessions, NEW open \in BOOLEAN, AppendEvent(s, open)
      PROVE  Types'
  <2>1. By(s, open) \in Event
    BY DEF By, Event
  <2>2. Append(log[s], By(s, open)) \in Seq(Event)
        /\ Len(Append(log[s], By(s, open))) = Len(log[s]) + 1 /\ Len(log[s]) \in Nat
    BY <2>1, AppendProperties, LenProperties DEF Types
  <2>3. log' = [log EXCEPT ![s] = Append(log[s], By(s, open))]
    BY <1>8 DEF AppendEvent
  <2>4. log' \in [Sessions -> Seq(Event)] /\ \A t \in Sessions : base[t] <= Len(log'[t])
    BY <2>2, <2>3 DEF Types
  <2> QED BY <1>8, <2>4 DEF AppendEvent, Types, stored, pool
<1>9. ASSUME NEW s \in Sessions, StartWrite(s)
      PROVE  Types'
  <2>1. [do |-> "batch", for |-> s, upto |-> Len(log[s])] \in Op
    BY LenProperties DEF Op, Types
  <2>2. chain' \in Seq(Op)
    BY <1>9, <2>1, Queues DEF StartWrite, Queued, Types
  <2> QED BY <1>9, <2>2 DEF StartWrite, Types, stored, sessions, pool
<1>10. ASSUME NEW s \in Sessions, Detach(s)
       PROVE  Types'
  BY <1>10 DEF Detach, Types, stored, pool
<1>11. ASSUME NEW s \in Sessions, Retire(s)
       PROVE  Types'
  <2>1. [do |-> "release", for |-> s, upto |-> 0] \in Op
    BY DEF Op
  <2>2. chain' \in Seq(Op)
    BY <1>11, <2>1, Queues DEF Retire, Queued, Types
  <2> QED BY <1>11, <2>2 DEF Retire, Types, stored, sessions, pool
<1>12. ASSUME NEW s \in Sessions, RetireFail(s)
       PROVE  Types'
  BY <1>12 DEF RetireFail, Forget, Types, stored, pool
<1>13. ASSUME NEW c \in Consumers, Prepare(c) \/ RefuseLive(c) \/ AbortWait(c)
       PROVE  Types'
  BY <1>13 DEF Prepare, RefuseLive, AbortWait, Types, Place, stored, sessions
<1>14. ASSUME NEW c \in Consumers, Reserve(c)
       PROVE  Types'
  <2>1. [do |-> "load", for |-> None, upto |-> 0] \in Op
    BY DEF Op
  <2>2. chain' \in Seq(Op) /\ entry' \in Entry
    BY <1>14, <2>1, Queues, NoEntryType DEF Reserve, Queued, Types, Entry
  <2> QED BY <1>14, <2>2 DEF Reserve, Types, Place, stored, sessions
<1>15. ASSUME NEW c \in Consumers, Resume(c)
       PROVE  Types'
  <2>1. [do |-> "commit", for |-> c, upto |-> 0] \in Op
    BY DEF Op
  <2>2. chain' \in Seq(Op) /\ entry' \in Entry
    BY <1>15, <2>1, Queues DEF Resume, Queued, Types, Entry
  <2> QED BY <1>15, <2>2 DEF Resume, Types, Place, stored, sessions
<1>16. ASSUME NEW c \in Consumers, AbortCommit(c)
       PROVE  Types'
  <2>1. chain' \in Seq(Op)
    BY <1>16, Removes DEF AbortCommit, Types
  <2>2. entry' \in Entry /\ consumer' \in [Consumers -> Place]
        /\ awaits' \in [Consumers -> Sessions \cup {None}]
    <3>1. CASE RemoveEntry(c, "done")
      BY <3>1, RemoveEffect, NoEntryType
    <3>2. CASE consumer' = [consumer EXCEPT ![c] = "done"] /\ UNCHANGED <<entry, awaits>>
      BY <3>2 DEF Types, Place
    <3> QED BY <1>16, <3>1, <3>2 DEF AbortCommit
  <2> QED BY <1>16, <2>1, <2>2 DEF AbortCommit, Types, stored, sessions
<1>17. ASSUME NEW c \in Consumers, NEW s \in Sessions, NEW own \in {<<>>, <<By(s, FALSE)>>},
              Publish(c, s, own)
       PROVE  Types'
  <2>1. By(s, FALSE) \in Event
    BY DEF By, Event
  <2>2. own \in Seq(Event)
    BY <2>1, Singleton, EmptySeq
  <2>3. entry.view \o own \in Seq(Event) /\ Len(entry.view \o own) \in Nat
    BY <2>2, ConcatProperties, LenProperties DEF Types, Entry
  <2>4. [do |-> "suffix", for |-> s, upto |-> Len(entry.view \o own)] \in Op
    BY <2>3 DEF Op
  <2>5. chain' \in Seq(Op)
    BY <1>17, <2>4, Queues DEF Publish, Queued, Types
  <2>6. entry' \in Entry /\ consumer' \in [Consumers -> Place]
        /\ awaits' \in [Consumers -> Sessions \cup {None}]
    BY <1>17, RemoveEffect, NoEntryType DEF Publish
  <2>7. /\ log' \in [Sessions -> Seq(Event)] /\ base' \in [Sessions -> Nat]
        /\ \A t \in Sessions : base'[t] <= Len(log'[t])
    BY <1>17, <2>3 DEF Publish, Types
  <2>8. /\ store' \in Sessions \cup {None} /\ state' \in State
        /\ life' \in [Sessions ->
              {"new", "live", "overlap", "retiring", "failed", "gone", "lost"}]
        /\ init' \in [Sessions -> {"none", "pending", "ok", "failed"}]
    BY <1>17 DEF Publish, Types, State
  <2> QED BY <1>17, <2>5, <2>6, <2>7, <2>8 DEF Publish, Types, stored
<1>18. ASSUME NEW c \in Consumers, NEW grown \in BOOLEAN, Release(c, grown)
       PROVE  Types'
  <2>1. entry' \in Entry /\ consumer' \in [Consumers -> Place]
        /\ awaits' \in [Consumers -> Sessions \cup {None}]
    <3>1. CASE RemoveEntry(c, "done")
      BY <3>1, RemoveEffect, NoEntryType
    <3>2. CASE entry' = [entry EXCEPT !.phase = "ready"]
               /\ consumer' = [consumer EXCEPT ![c] = "done"] /\ UNCHANGED awaits
      BY <3>2 DEF Types, Entry, Place
    <3> QED BY <1>18, <3>1, <3>2 DEF Release
  <2> QED BY <1>18, <2>1 DEF Release, Types, stored, sessions
<1>19. CASE Evict
  <2>1. entry' \in Entry /\ consumer' \in [Consumers -> Place]
        /\ awaits' \in [Consumers -> Sessions \cup {None}]
    BY <1>19, RemoveEffect, NoEntryType DEF Evict
  <2> QED BY <1>19, <2>1 DEF Evict, Types, stored, sessions
<1>20. ASSUME NEW open \in BOOLEAN, External(open)
       PROVE  Types'
  <2>1. By("other", open) \in Event
    BY DEF By, Event
  <2>2. disk' \in Seq(Event)
    BY <1>20, <2>1, PrefixAppend DEF External, Types
  <2> QED BY <1>20, <2>2 DEF External, Types, sessions, pool
<1>21. CASE Crash
  <2>1. disk' \in Seq(Event) /\ torn' \in BOOLEAN
    BY <1>21, CrashEffect DEF Crash, Types
  <2>2. /\ life' \in [Sessions ->
              {"new", "live", "overlap", "retiring", "failed", "gone", "lost"}]
        /\ log' \in [Sessions -> Seq(Event)] /\ base' \in [Sessions -> Nat]
        /\ \A s \in Sessions : base'[s] <= Len(log'[s])
    BY <1>21, EmptySeq DEF Crash, Types
  <2>3. entry' \in Entry /\ state' \in State /\ chain' \in Seq(Op) /\ writing' \in BOOLEAN
        /\ consumer' \in [Consumers -> Place]
    BY <1>21, NoEntryType, EmptySeq DEF Crash, NoState, State, Place
  <2>4. crashes' \in 0 .. MaxCrashes
    BY <1>21, PersistenceAssumption DEF Crash, Types, PersistenceAssumption
  <2>5. /\ store' \in Sessions \cup {None} /\ retiring' \in Sessions \cup {None}
        /\ init' \in [Sessions -> {"none", "pending", "ok", "failed"}]
        /\ awaits' \in [Consumers -> Sessions \cup {None}]
    BY <1>21 DEF Crash
  <2> QED BY <2>1, <2>2, <2>3, <2>4, <2>5 DEF Types
<1>22. CASE Reload
  <2>1. /\ life' \in [Sessions ->
              {"new", "live", "overlap", "retiring", "failed", "gone", "lost"}]
        /\ log' \in [Sessions -> Seq(Event)] /\ base' \in [Sessions -> Nat]
        /\ \A s \in Sessions : base'[s] <= Len(log'[s])
    <3>1. /\ <<>> \in Seq(Event) /\ Len(<<>>) = 0
          /\ \A s \in Sessions : log[s] \in Seq(Event) /\ Len(log[s]) \in Nat
      BY EmptySeq, LenProperties DEF Types
    <3>2. /\ life' \in [Sessions ->
                {"new", "live", "overlap", "retiring", "failed", "gone", "lost"}]
          /\ log' = [s \in Sessions |-> IF life'[s] = "lost" THEN <<>> ELSE log[s]]
          /\ base' = [s \in Sessions |-> IF s = store THEN Len(log[s])
                                 ELSE IF life'[s] = "lost" THEN 0 ELSE base[s]]
      BY <1>22 DEF Reload, Types
    <3>3. store # None => life'[store] # "lost"
      BY <1>22, <3>2 DEF Reload, Types, LifeInv
    <3> QED BY <3>1, <3>2, <3>3, PersistenceAssumption DEF Types, PersistenceAssumption
  <2>2. chain' \in Seq(Op)
    <3>1. CASE store = None
      BY <1>22, <3>1, EmptySeq DEF Reload
    <3>2. CASE store # None
      <4>1. [do |-> "init", for |-> store, upto |-> Len(log[store])] \in Op
        BY <3>2, LenProperties DEF Op, Types
      <4> QED BY <1>22, <3>2, <4>1, Queues DEF Reload, Queued, Types
    <3> QED BY <3>1, <3>2
  <2>3. entry' \in Entry /\ state' \in State /\ consumer' \in [Consumers -> Place]
    BY <1>22, NoEntryType, EmptySeq DEF Reload, NoState, State, Place
  <2>4. crashes' \in 0 .. MaxCrashes
    BY <1>22, PersistenceAssumption DEF Reload, Types, PersistenceAssumption
  <2>5. /\ store' \in Sessions \cup {None} /\ retiring' \in Sessions \cup {None}
        /\ init' \in [Sessions -> {"none", "pending", "ok", "failed"}]
        /\ awaits' \in [Consumers -> Sessions \cup {None}]
        /\ disk' \in Seq(Event) /\ torn' \in BOOLEAN /\ writing' \in BOOLEAN
    BY <1>22, RestEffect DEF Reload, Types
  <2> QED BY <2>1, <2>2, <2>3, <2>4, <2>5 DEF Types
<1>23. CASE UNCHANGED vars
  BY <1>23 DEF vars, stored, sessions, pool, Types
<1>24. CASE AppendStarts
  BY <1>24 DEF AppendStarts, stored, sessions, pool, Types
<1> HIDE DEF Inv, TypeOK
<1> QED BY <1>1, <1>2, <1>3, <1>4, <1>5, <1>6, <1>7, <1>8, <1>9, <1>10, <1>11, <1>12,
           <1>13, <1>14, <1>15, <1>16, <1>17, <1>18, <1>19, <1>20, <1>21, <1>22, <1>23,
           <1>24
        DEF Next, ChainStep

-----------------------------------------------------------------------------
(* The chain, one step at a time *)

\* The chain without its operation at r (0: with all of them): `up` says where
\* in the old chain an operation was, `down` where it is in the new one.
Thinned(r, up, down) ==
  /\ chain' \in Seq(Op) /\ DOMAIN chain \subseteq Nat /\ DOMAIN chain' \subseteq Nat
  /\ up \in [DOMAIN chain' -> DOMAIN chain \ {r}]
  /\ down \in [DOMAIN chain \ {r} -> DOMAIN chain']
  /\ \A i \in DOMAIN chain' : chain'[i] = chain[up[i]]
  /\ \A i, j \in DOMAIN chain' : (i < j <=> up[i] < up[j]) /\ (i = j <=> up[i] = up[j])
  /\ \A k \in DOMAIN chain \ {r} : up[down[k]] = k /\ chain'[down[k]] = chain[k]
  /\ \A k, l \in DOMAIN chain \ {r} : k < l <=> down[k] < down[l]

LEMMA ThinnedAt ==
  ASSUME chain \in Seq(Op), NEW r \in DOMAIN chain,
         DOMAIN chain' = 1 .. Len(chain) - 1, chain' \in Seq(Op),
         \A i \in DOMAIN chain' : chain'[i] = chain[IF i < r THEN i ELSE i + 1]
  PROVE  \E up, down : Thinned(r, up, down)
<1>1. DOMAIN chain = 1 .. Len(chain) /\ Len(chain) \in Nat
  BY LenProperties
<1> DEFINE up == [i \in DOMAIN chain' |-> IF i < r THEN i ELSE i + 1]
           down == [k \in DOMAIN chain \ {r} |-> IF k < r THEN k ELSE k - 1]
<1>2. /\ up \in [DOMAIN chain' -> DOMAIN chain \ {r}]
      /\ down \in [DOMAIN chain \ {r} -> DOMAIN chain']
  BY <1>1
<1>3. /\ \A i \in DOMAIN chain' : up[i] = IF i < r THEN i ELSE i + 1
      /\ \A k \in DOMAIN chain \ {r} : down[k] = IF k < r THEN k ELSE k - 1
  OBVIOUS
<1> HIDE DEF up, down
<1>4. \A i \in DOMAIN chain' : chain'[i] = chain[up[i]]
  BY <1>3
<1>5. \A i, j \in DOMAIN chain' : (i < j <=> up[i] < up[j]) /\ (i = j <=> up[i] = up[j])
  BY <1>1, <1>3
<1>6. \A k \in DOMAIN chain \ {r} : down[k] \in DOMAIN chain' /\ up[down[k]] = k
  BY <1>1, <1>3
<1>7. \A k, l \in DOMAIN chain \ {r} : k < l <=> down[k] < down[l]
  BY <1>1, <1>3
<1>8. DOMAIN chain \subseteq Nat /\ DOMAIN chain' \subseteq Nat
  BY <1>1
<1>9. Thinned(r, up, down)
  BY <1>2, <1>4, <1>5, <1>6, <1>7, <1>8 DEF Thinned
<1> QED BY <1>9

LEMMA ThinnedSame ==
  ASSUME chain \in Seq(Op), UNCHANGED chain
  PROVE  \E up, down : Thinned(0, up, down)
<1>1. DOMAIN chain = 1 .. Len(chain) /\ Len(chain) \in Nat
  BY LenProperties
<1> DEFINE up == [i \in DOMAIN chain |-> i]
<1>2. up \in [DOMAIN chain' -> DOMAIN chain \ {0}] /\ up \in [DOMAIN chain \ {0} -> DOMAIN chain']
  BY <1>1
<1>3. \A i \in DOMAIN chain : up[i] = i
  OBVIOUS
<1> HIDE DEF up
<1>4. Thinned(0, up, up)
  BY <1>1, <1>2, <1>3 DEF Thinned
<1> QED BY <1>4

LEMMA ThinnedTail ==
  ASSUME chain \in Seq(Op), chain # <<>>, chain' = Tail(chain)
  PROVE  1 \in DOMAIN chain /\ \E up, down : Thinned(1, up, down)
<1>1. /\ 1 \in DOMAIN chain /\ chain' \in Seq(Op) /\ DOMAIN chain' = 1 .. Len(chain) - 1
      /\ \A i \in DOMAIN chain' : chain'[i] = chain[i + 1] /\ ~(i < 1)
  BY Drops
<1> QED BY <1>1, ThinnedAt

LEMMA ThinnedRemove ==
  ASSUME chain \in Seq(Op), NEW r \in DOMAIN chain, chain' = RemoveAt(chain, r)
  PROVE  \E up, down : Thinned(r, up, down)
BY Removes, ThinnedAt

\* An initialization that has settled; one that goes on as an append.
InitEnds ==
  /\ Running("init")
  /\ InitOk(Subject, Head(chain).upto) \/ InitRejects(Subject)
  /\ UNCHANGED <<store, log, life, base, retiring, writing, crashes>>

Binds ==
  /\ Running("init") /\ InitGoesOn(Subject, Head(chain).upto)
  /\ UNCHANGED <<store, log, life, base, retiring, writing, crashes>>

\* The steps that settle the operation at the head.
Settles ==
  ReleaseDone \/ InitEnds \/ SuffixDone \/ BatchDone \/ LoadDone \/ CommitDone

\* Which operation a step takes out of the chain, if it adds none.
LEMMA ThinningStep ==
  ASSUME Types
  PROVE  /\ Settles => chain # <<>> /\ chain' = Tail(chain)
         /\ \A c \in Consumers : AbortCommit(c) => \E r \in DOMAIN chain :
              chain[r].do = "commit" /\ chain[r].for = c /\ chain' = RemoveAt(chain, r)
BY DEF Settles, InitEnds, InitOk, InitRejects, SuffixDone, BatchDone, ReleaseDone, LoadDone,
       CommitDone, Running, AbortCommit

\* The chain with one operation more, at its end.
Grown(do, for, upto) ==
  /\ chain' \in Seq(Op) /\ DOMAIN chain \subseteq Nat /\ Len(chain) + 1 \in Nat
  /\ Len(chain) + 1 \notin DOMAIN chain
  /\ DOMAIN chain' = DOMAIN chain \cup {Len(chain) + 1}
  /\ \A i \in DOMAIN chain : i < Len(chain) + 1 /\ chain'[i] = chain[i]
  /\ chain'[Len(chain) + 1] = [do |-> do, for |-> for, upto |-> upto]

LEMMA Grows ==
  ASSUME Types, NEW do, NEW for, NEW upto, chain' = Queued(do, for, upto),
         [do |-> do, for |-> for, upto |-> upto] \in Op
  PROVE  Grown(do, for, upto)
<1>1. chain' = Append(chain, [do |-> do, for |-> for, upto |-> upto])
  BY DEF Queued
<1>2. /\ chain' \in Seq(Op) /\ DOMAIN chain = 1 .. Len(chain) /\ Len(chain) \in Nat
      /\ DOMAIN chain' = 1 .. Len(chain) + 1
      /\ \A i \in DOMAIN chain : chain'[i] = chain[i]
      /\ chain'[Len(chain) + 1] = [do |-> do, for |-> for, upto |-> upto]
  BY <1>1, Queues DEF Types
<1> QED BY <1>2 DEF Grown

\* An event a session brings along.
LEMMA OwnEvent ==
  ASSUME NEW s \in Sessions, NEW own \in {<<>>, <<By(s, FALSE)>>}
  PROVE  /\ own \in Seq(Event) /\ Len(own) \in Nat
         /\ own # <<>> => own[1].by = s
<1>1. By(s, FALSE) \in Event /\ By(s, FALSE).by = s
  BY DEF By, Event
<1> QED BY <1>1, Singleton, EmptySeq

LEMMA QueueBySession ==
  ASSUME Types, NEW s \in Sessions
  PROVE  /\ \A own \in {<<>>, <<By(s, FALSE)>>} : Create(s, own) => Grown("init", s, Len(own))
         /\ StartWrite(s) => Grown("batch", s, Len(log[s]))
         /\ Retire(s) => Grown("release", s, 0)
<1>1. \A own \in {<<>>, <<By(s, FALSE)>>} : Len(own) \in Nat
  BY OwnEvent
<1>2. /\ \A n \in Nat : [do |-> "init", for |-> s, upto |-> n] \in Op
      /\ [do |-> "batch", for |-> s, upto |-> Len(log[s])] \in Op
      /\ [do |-> "release", for |-> s, upto |-> 0] \in Op
  BY LenProperties DEF Op, Types
<1>3. StartWrite(s) => Grown("batch", s, Len(log[s]))
  BY <1>2, Grows DEF StartWrite
<1>4. Retire(s) => Grown("release", s, 0)
  BY <1>2, Grows DEF Retire
<1>5. ASSUME NEW own \in {<<>>, <<By(s, FALSE)>>}, Create(s, own)
      PROVE  Grown("init", s, Len(own))
  BY <1>1, <1>2, <1>5, Grows DEF Create
<1> QED BY <1>3, <1>4, <1>5

LEMMA QueueByConsumer ==
  ASSUME Types, NEW c \in Consumers
  PROVE  /\ Reserve(c) => UNCHANGED chain \/ Grown("load", None, 0)
         /\ Resume(c) => Grown("commit", c, 0)
<1>1. /\ [do |-> "load", for |-> None, upto |-> 0] \in Op
      /\ [do |-> "commit", for |-> c, upto |-> 0] \in Op
  BY DEF Op
<1>2. Reserve(c) => UNCHANGED chain \/ Grown("load", None, 0)
  BY <1>1, Grows DEF Reserve
<1>3. Resume(c) => Grown("commit", c, 0)
  BY <1>1, Grows DEF Resume
<1> QED BY <1>2, <1>3

LEMMA QueueByPublish ==
  ASSUME Types, NEW c \in Consumers, NEW s \in Sessions,
         NEW own \in {<<>>, <<By(s, FALSE)>>}, Publish(c, s, own)
  PROVE  /\ entry.view \o own \in Seq(Event) /\ Len(entry.view \o own) \in Nat
         /\ \/ own = <<>> /\ UNCHANGED chain
            \/ own # <<>> /\ Grown("suffix", s, Len(entry.view \o own))
<1>1. own \in Seq(Event)
  BY OwnEvent
<1>2. entry.view \o own \in Seq(Event)
  BY <1>1, ConcatProperties DEF Types, Entry
<1>3. Len(entry.view \o own) \in Nat
  BY <1>2, LenProperties
<1>4. [do |-> "suffix", for |-> s, upto |-> Len(entry.view \o own)] \in Op
  BY <1>3 DEF Op
<1>5. CASE own = <<>>
  BY <1>2, <1>3, <1>5 DEF Publish
<1>6. CASE own # <<>>
  BY <1>2, <1>3, <1>4, <1>6, Grows DEF Publish
<1> QED BY <1>5, <1>6

\* Steps that queue nothing and settle nothing.
Aside ==
  \/ \E s \in Sessions : (\E open \in BOOLEAN : AppendEvent(s, open)) \/ Detach(s) \/ RetireFail(s)
  \/ \E c \in Consumers :
       \/ Prepare(c) \/ RefuseLive(c) \/ AbortWait(c)
       \/ \E grown \in BOOLEAN : Release(c, grown)
  \/ Evict \/ \E open \in BOOLEAN : External(open)
  \/ AppendStarts \/ UNCHANGED vars

\* Steps after which the process, or the plugin, starts over.
Restart == Crash \/ Reload

LEMMA StepKinds ==
  ASSUME [Next]_vars
  PROVE  \/ Settles \/ Binds \/ Aside \/ Restart
         \/ \E s \in Sessions :
              \/ \E seed \in {<<>>, <<By(s, FALSE)>>} : Create(s, seed)
              \/ StartWrite(s) \/ Retire(s)
         \/ \E c \in Consumers :
              \/ Reserve(c) \/ Resume(c) \/ AbortCommit(c)
              \/ \E s \in Sessions : \E own \in {<<>>, <<By(s, FALSE)>>} : Publish(c, s, own)
BY DEF Next, ChainStep, InitDone, Settles, InitEnds, Binds, Aside, Restart

LEMMA AsideChain ==
  ASSUME Aside
  PROVE  UNCHANGED chain
BY DEF Aside, AppendEvent, Detach, RetireFail, Prepare, RefuseLive, AbortWait, Release,
       Evict, External, AppendStarts, vars

LEMMA AsideSessions ==
  ASSUME Aside
  PROVE  \/ UNCHANGED sessions
         \/ \E s \in Sessions :
              (\E open \in BOOLEAN : AppendEvent(s, open)) \/ Detach(s) \/ RetireFail(s)
BY DEF Aside, Prepare, RefuseLive, AbortWait, Release, Evict, External, AppendStarts, vars

\* After a restart at most the live session's initialization is queued.
LEMMA RestartChain ==
  ASSUME Types, Restart
  PROVE  \/ chain' = <<>> /\ DOMAIN chain' = {} /\ (Reload => store = None)
         \/ /\ Reload /\ store # None /\ DOMAIN chain' = {1}
            /\ chain'[1] = [do |-> "init", for |-> store, upto |-> Len(log[store])]
<1>1. DOMAIN <<>> = {}
  OBVIOUS
<1>2. CASE Crash \/ (Reload /\ store = None)
  BY <1>1, <1>2 DEF Crash, Reload
<1>3. CASE Reload /\ store # None
  <2>1. [do |-> "init", for |-> store, upto |-> Len(log[store])] \in Op
    BY <1>3, LenProperties DEF Op, Types
  <2>2. DOMAIN chain' = 1 .. Len(chain) + 1 /\ Len(chain) = 0
        /\ chain'[Len(chain) + 1] = [do |-> "init", for |-> store, upto |-> Len(log[store])]
    BY <1>3, <2>1, Queues, EmptySeq DEF Reload, Queued, Types
  <2> QED BY <1>3, <2>2
<1> QED BY <1>2, <1>3 DEF Restart

\* Who survives a restart: the live session its plugin's reload.
LEMMA RestartLives ==
  ASSUME Types, Restart, NEW s \in Sessions
  PROVE  /\ life'[s] = "new" <=> life[s] = "new"
         /\ life'[s] = "gone" <=> life[s] = "gone"
         /\ life'[s] \in Held => Reload /\ life'[s] = life[s] /\ life[s] \in {"live", "overlap"}
         /\ log'[s] = IF life'[s] = "lost" THEN <<>> ELSE log[s]
         /\ state' = NoState /\ entry' = NoEntry
         /\ \A c \in Consumers : consumer'[c] \in {"idle", "done"}
<1>1. CASE Crash
  <2>1. /\ life' = [t \in Sessions |-> IF life[t] \in {"new", "gone"} THEN life[t] ELSE "lost"]
        /\ log' = [t \in Sessions |-> IF life'[t] = "lost" THEN <<>> ELSE log[t]]
        /\ state' = NoState /\ entry' = NoEntry
        /\ consumer' = [c \in Consumers |-> IF consumer[c] = "idle" THEN "idle" ELSE "done"]
    BY <1>1 DEF Crash
  <2> QED BY <2>1 DEF Types, Held
<1>2. CASE Reload
  <2>1. /\ life' = [t \in Sessions |->
              IF life[t] \in {"retiring", "failed"} THEN "lost" ELSE life[t]]
        /\ log' = [t \in Sessions |-> IF life'[t] = "lost" THEN <<>> ELSE log[t]]
        /\ state' = NoState /\ entry' = NoEntry
        /\ consumer' = [c \in Consumers |-> IF consumer[c] = "idle" THEN "idle" ELSE "done"]
    BY <1>2 DEF Reload
  <2> QED BY <1>2, <2>1 DEF Types, Held
<1> QED BY <1>1, <1>2 DEF Restart

\* What else the steps of the chain leave alone.
LEMMA ChainFrame ==
  ASSUME Settles
  PROVE  /\ UNCHANGED <<store, log>>
         /\ BatchDone \/ UNCHANGED base
BY DEF Settles, InitEnds, SuffixDone, BatchDone, ReleaseDone, LoadDone, CommitDone, sessions

\* A claim that goes on as an append changes what is known of the log, and
\* what the operation at the head does next.
LEMMA BindsEffect ==
  ASSUME Inv, Binds
  PROVE  /\ UNCHANGED <<sessions, disk, pool, writing, crashes>>
         /\ 1 \in DOMAIN chain /\ DOMAIN chain \subseteq Nat
         /\ DOMAIN chain' = DOMAIN chain
         /\ \A i \in DOMAIN chain : i # 1 => chain'[i] = chain[i]
         /\ chain[1].do = "init" /\ chain'[1].do = "suffix"
         /\ chain'[1].for = chain[1].for /\ chain'[1].upto = chain[1].upto
         /\ Subject = chain[1].for /\ Subject \in Sessions
         /\ chain[1].upto = base[Subject] /\ base[Subject] <= Len(log[Subject])
         /\ Len(disk) \in Nat /\ Len(disk) < base[Subject]
         /\ disk \in Seq(Event) /\ IsPrefix(disk, log[Subject])
         /\ torn' = FALSE /\ state' = Owned(Subject, Len(disk)) /\ Claimable
<1> DEFINE s == Subject
           n == Head(chain).upto
<1>1. chain \in Seq(Op) /\ Running("init") /\ InitGoesOn(s, n)
  BY DEF Binds, Inv, TypeOK, Types
<1>2. /\ chain # <<>> /\ Head(chain) = chain[1] /\ s = chain[1].for /\ chain[1].do = "init"
  BY <1>1, AtHead
<1>3. /\ 1 \in DOMAIN chain /\ DOMAIN chain \subseteq Nat /\ DOMAIN chain' = DOMAIN chain
      /\ \A i \in DOMAIN chain : i # 1 => chain'[i] = chain[i]
      /\ chain'[1] = [do |-> "suffix", for |-> chain[1].for, upto |-> chain[1].upto]
  BY <1>1, <1>2, GoesOn DEF InitGoesOn
<1>4. /\ s \in Sessions /\ n = base[s] /\ n <= Len(log[s])
      /\ disk' = disk /\ disk \in Seq(Event) /\ Len(disk) \in Nat /\ Prefix = disk
      /\ IsPrefix(disk, log[s]) /\ torn' = FALSE /\ state' = Owned(s, Len(disk))
  BY <1>1, ClaimsEffect DEF InitGoesOn
<1>5. Len(disk) < n
  BY <1>1, <1>4 DEF InitGoesOn
<1>6. UNCHANGED <<sessions, disk, pool, writing, crashes>> /\ Claimable
  BY <1>1 DEF Binds, InitGoesOn, Claims, Accepts, sessions
<1> QED BY <1>2, <1>3, <1>4, <1>5, <1>6

LEMMA OneWriteStep ==
  ASSUME Inv, [Next]_vars
  PROVE  OneWrite'
<1> USE DEF Inv, TypeOK
<1>0. /\ chain \in Seq(Op)
      /\ \A i \in DOMAIN chain : chain[i].do = "batch" =>
           chain[i].for \in Sessions /\ life[chain[i].for] # "new"
      /\ \A s \in Sessions : base[s] \in Nat /\ Len(log[s]) \in Nat
  BY LenProperties DEF Types, OpsInv
<1>1. ASSUME NEW r, NEW up, NEW down, Thinned(r, up, down),
             \A i \in DOMAIN chain \ {r} : chain[i].do = "batch" =>
               /\ base'[chain[i].for] = base[chain[i].for]
               /\ Len(log'[chain[i].for]) \in Nat
               /\ Len(log[chain[i].for]) <= Len(log'[chain[i].for])
      PROVE  OneWrite'
  <2> SUFFICES ASSUME NEW i \in DOMAIN chain', chain'[i].do = "batch"
               PROVE  /\ chain'[i].upto \in base'[chain'[i].for] + 1 .. Len(log'[chain'[i].for])
                      /\ \A j \in DOMAIN chain' :
                           chain'[j].do = "batch" /\ chain'[j].for = chain'[i].for => j = i
    BY DEF OneWrite
  <2>1. up[i] \in DOMAIN chain \ {r} /\ chain'[i] = chain[up[i]]
    BY <1>1 DEF Thinned
  <2>2. chain[up[i]].upto \in base[chain[up[i]].for] + 1 .. Len(log[chain[up[i]].for])
    BY <2>1 DEF OneWrite
  <2>3. chain'[i].upto \in base'[chain'[i].for] + 1 .. Len(log'[chain'[i].for])
    BY <1>0, <1>1, <2>1, <2>2
  <2>4. ASSUME NEW j \in DOMAIN chain', chain'[j].do = "batch", chain'[j].for = chain'[i].for
        PROVE  j = i
    <3>1. up[j] \in DOMAIN chain \ {r} /\ chain'[j] = chain[up[j]]
      BY <1>1 DEF Thinned
    <3>2. up[j] = up[i]
      BY <2>1, <2>4, <3>1 DEF OneWrite
    <3> QED BY <1>1, <3>2 DEF Thinned
  <2> QED BY <2>3, <2>4
<1>2. CASE Settles
  <2>1. chain # <<>> /\ chain' = Tail(chain)
    BY <1>2, ThinningStep
  <2>2. PICK up, down : Thinned(1, up, down)
    BY <1>0, <2>1, ThinnedTail
  <2>3. UNCHANGED log /\ (BatchDone \/ UNCHANGED base)
    BY <1>2, ChainFrame
  <2>4. CASE BatchDone
    <3>1. /\ 1 \in DOMAIN chain /\ chain[1].do = "batch" /\ chain[1].for = Subject
      BY <1>0, <2>4, AtHead DEF BatchDone
    <3>2. \A s \in Sessions \ {Subject} : base'[s] = base[s]
      BY <2>4 DEF BatchDone, Types
    <3>3. \A i \in DOMAIN chain \ {1} : chain[i].do = "batch" => chain[i].for # Subject
      BY <3>1 DEF OneWrite
    <3> QED BY <1>0, <1>1, <2>2, <2>3, <3>2, <3>3
  <2>5. CASE UNCHANGED base
    BY <1>0, <1>1, <2>2, <2>3, <2>5
  <2> QED BY <2>3, <2>4, <2>5
<1>3. CASE Aside
  <2>1. PICK up, down : Thinned(0, up, down)
    BY <1>0, <1>3, AsideChain, ThinnedSame
  <2>2. UNCHANGED <<base, log>> \/ \E s \in Sessions, open \in BOOLEAN : AppendEvent(s, open)
    BY <1>3 DEF Aside, Detach, RetireFail, Prepare, RefuseLive, AbortWait, Release, Evict,
                External, AppendStarts, vars, sessions
  <2>3. ASSUME NEW s \in Sessions, NEW open \in BOOLEAN, AppendEvent(s, open)
        PROVE  UNCHANGED base /\ \A t \in Sessions :
                 Len(log'[t]) \in Nat /\ Len(log[t]) <= Len(log'[t])
    <3>1. By(s, open) \in Event
      BY DEF By, Event
    <3>2. Len(Append(log[s], By(s, open))) = Len(log[s]) + 1
      BY <3>1, AppendProperties DEF Types
    <3> QED BY <1>0, <2>3, <3>2 DEF AppendEvent, Types
  <2> QED BY <1>0, <1>1, <2>1, <2>2, <2>3
<1>4. CASE Restart
  BY <1>4, RestartChain DEF OneWrite, Types
<1>5. ASSUME NEW do, NEW for, NEW upto, do # "batch", Grown(do, for, upto), UNCHANGED <<base, log>>
      PROVE  OneWrite'
  BY <1>5 DEF OneWrite, Grown
<1>6. ASSUME UNCHANGED <<chain, base, log>>
      PROVE  OneWrite'
  BY <1>6 DEF OneWrite
<1>7. ASSUME NEW do, NEW upto, do # "batch", NEW s \in Sessions, life[s] = "new",
             UNCHANGED chain \/ Grown(do, s, upto),
             \A t \in Sessions \ {s} : base'[t] = base[t] /\ log'[t] = log[t]
      PROVE  OneWrite'
  <2>1. \A i \in DOMAIN chain : chain[i].do = "batch" => chain[i].for \in Sessions \ {s}
    BY <1>0, <1>7
  <2>2. CASE UNCHANGED chain
    BY <1>7, <2>1, <2>2 DEF OneWrite
  <2>3. CASE Grown(do, s, upto)
    BY <1>7, <2>1, <2>3 DEF OneWrite, Grown
  <2> QED BY <1>7, <2>2, <2>3
<1>8. ASSUME NEW s \in Sessions, NEW own \in {<<>>, <<By(s, FALSE)>>}, Create(s, own)
      PROVE  OneWrite'
  <2>1. life[s] = "new" /\ \A t \in Sessions \ {s} : base'[t] = base[t] /\ log'[t] = log[t]
    BY <1>8 DEF Create, Fresh, Types
  <2>2. Grown("init", s, Len(own))
    BY <1>8, QueueBySession
  <2> QED BY <1>7, <2>1, <2>2
<1>9. ASSUME NEW s \in Sessions, StartWrite(s)
      PROVE  OneWrite'
  <2>1. UNCHANGED <<base, log>>
    BY <1>9 DEF StartWrite, sessions
  <2>2. Grown("batch", s, Len(log[s])) /\ ~Pending("batch", s) /\ base[s] < Len(log[s])
    BY <1>9, QueueBySession DEF StartWrite, NotWriting, HasWork
  <2>3. \A i \in DOMAIN chain : ~(chain[i].do = "batch" /\ chain[i].for = s)
    BY <2>2 DEF Pending
  <2> QED BY <1>0, <2>1, <2>2, <2>3 DEF OneWrite, Grown
<1>10. ASSUME NEW s \in Sessions, Retire(s)
       PROVE  OneWrite'
  BY <1>5, <1>10, QueueBySession DEF Retire, sessions
<1>11. ASSUME NEW c \in Consumers, Reserve(c) \/ Resume(c)
       PROVE  OneWrite'
  BY <1>5, <1>6, <1>11, QueueByConsumer DEF Reserve, Resume, sessions
<1>12. ASSUME NEW c \in Consumers, AbortCommit(c)
       PROVE  OneWrite'
  <2>1. PICK r \in DOMAIN chain : chain' = RemoveAt(chain, r)
    BY <1>12, ThinningStep
  <2>2. PICK up, down : Thinned(r, up, down)
    BY <1>0, <2>1, ThinnedRemove
  <2>3. UNCHANGED <<base, log>>
    BY <1>12 DEF AbortCommit, sessions
  <2> QED BY <1>0, <1>1, <2>2, <2>3
<1>13. ASSUME NEW c \in Consumers, NEW s \in Sessions, NEW own \in {<<>>, <<By(s, FALSE)>>},
              Publish(c, s, own)
       PROVE  OneWrite'
  <2>1. life[s] = "new" /\ \A t \in Sessions \ {s} : base'[t] = base[t] /\ log'[t] = log[t]
    BY <1>13 DEF Publish, Fresh, Types
  <2>2. UNCHANGED chain \/ Grown("suffix", s, Len(entry.view \o own))
    BY <1>13, QueueByPublish
  <2> QED BY <1>7, <2>1, <2>2
<1> HIDE DEF Inv, TypeOK
<1>14. CASE Binds
  <2>1. /\ UNCHANGED <<base, log>> /\ DOMAIN chain' = DOMAIN chain
        /\ \A i \in DOMAIN chain : chain'[i].do = "batch" => chain'[i] = chain[i]
    BY <1>14, BindsEffect DEF sessions
  <2> QED BY <2>1 DEF Inv, TypeOK, OneWrite
<1> QED BY <1>2, <1>3, <1>4, <1>8, <1>9, <1>10, <1>11, <1>12, <1>13, <1>14, StepKinds

\* A session's life has begun for good.
LEMMA LifeMoves ==
  ASSUME Types, [Next]_vars, NEW s \in Sessions, life[s] # "new"
  PROVE  life'[s] # "new"
<1> USE DEF Types
<1>1. CASE Settles
  BY <1>1 DEF Settles, InitEnds, SuffixDone, BatchDone, ReleaseDone, LoadDone, CommitDone,
              sessions
<1>2. CASE Aside
  <2>1. CASE UNCHANGED sessions
    BY <2>1 DEF sessions
  <2>2. ASSUME NEW t \in Sessions, NEW open, AppendEvent(t, open) \/ Detach(t) \/ RetireFail(t)
        PROVE  life'[s] # "new"
    BY <2>2 DEF AppendEvent, Detach, RetireFail
  <2> QED BY <1>2, <2>1, <2>2, AsideSessions
<1>3. CASE Restart
  BY <1>3, RestartLives
<1>4. ASSUME NEW t \in Sessions, NEW seed, Create(t, seed)
      PROVE  life'[s] # "new"
  BY <1>4 DEF Create
<1>5. ASSUME NEW t \in Sessions, StartWrite(t) \/ Retire(t)
      PROVE  life'[s] # "new"
  BY <1>5 DEF StartWrite, Retire, sessions
<1>6. ASSUME NEW c \in Consumers, Reserve(c) \/ Resume(c) \/ AbortCommit(c)
      PROVE  life'[s] # "new"
  BY <1>6 DEF Reserve, Resume, AbortCommit, sessions
<1>7. ASSUME NEW c \in Consumers, NEW t \in Sessions, NEW own, Publish(c, t, own)
      PROVE  life'[s] # "new"
  BY <1>7 DEF Publish
<1>8. CASE Binds
  BY <1>8 DEF Binds
<1> QED BY <1>1, <1>2, <1>3, <1>4, <1>5, <1>6, <1>7, <1>8, StepKinds

\* How the initialization of a session stands changes when it is published
\* and when the operation that opens it settles.
LEMMA InitMoves ==
  ASSUME Inv, [Next]_vars, ~Restart, NEW s \in Sessions
  PROVE  \/ init'[s] = init[s]
         \/ /\ life[s] = "new" /\ init'[s] \in {"pending", "ok"}
            /\ store' = s /\ life'[s] = "live"
         \/ /\ InitEnds \/ SuffixDone
            /\ Subject = s /\ init[s] = "pending" /\ init'[s] \in {"ok", "failed"}
<1> USE DEF Inv, TypeOK, Types
<1>1. CASE InitEnds \/ SuffixDone
  <2>1. 1 \in DOMAIN chain /\ Opens(1) /\ chain[1].for = Subject
    BY <1>1, AtHead DEF InitEnds, SuffixDone, Opens
  <2>2. Subject \in Sessions /\ init[Subject] = "pending"
    BY <2>1 DEF OpsInv, OpenInv, Opens
  <2> QED BY <1>1, <2>2 DEF InitEnds, SuffixDone, InitOk, InitRejects
<1>2. CASE BatchDone \/ ReleaseDone \/ LoadDone \/ CommitDone
  BY <1>2 DEF BatchDone, ReleaseDone, LoadDone, CommitDone, sessions
<1>3. CASE Aside
  BY <1>3 DEF Aside, AppendEvent, Detach, RetireFail, Prepare, RefuseLive, AbortWait, Release,
              Evict, External, AppendStarts, vars, sessions
<1>4. ASSUME NEW t \in Sessions, NEW seed, Create(t, seed)
      PROVE  \/ init'[s] = init[s]
             \/ /\ life[s] = "new" /\ init'[s] \in {"pending", "ok"}
                /\ store' = s /\ life'[s] = "live"
  BY <1>4 DEF Create, Fresh
<1>5. ASSUME NEW t \in Sessions, StartWrite(t) \/ Retire(t)
      PROVE  init'[s] = init[s]
  BY <1>5 DEF StartWrite, Retire, sessions
<1>6. ASSUME NEW c \in Consumers, Reserve(c) \/ Resume(c) \/ AbortCommit(c)
      PROVE  init'[s] = init[s]
  BY <1>6 DEF Reserve, Resume, AbortCommit, sessions
<1>7. ASSUME NEW c \in Consumers, NEW t \in Sessions, NEW own, Publish(c, t, own)
      PROVE  \/ init'[s] = init[s]
             \/ /\ life[s] = "new" /\ init'[s] \in {"pending", "ok"}
                /\ store' = s /\ life'[s] = "live"
  BY <1>7 DEF Publish, Fresh
<1>8. CASE Binds
  BY <1>8, BindsEffect DEF sessions
<1> QED BY <1>1, <1>2, <1>3, <1>4, <1>5, <1>6, <1>7, <1>8, StepKinds DEF Settles

\* Only its own commit, or its abort, ends a consumer's commit; others wake it
\* at most, or take its entry away.
Commits(place) == place \in {"committing", "ousted"}

LEMMA ConsumerMoves ==
  ASSUME Inv, NEW c \in Consumers, Commits(consumer[c])
  PROVE  /\ Settles => Commits(consumer'[c]) \/ (CommitDone /\ Subject = c)
         /\ Aside => Commits(consumer'[c])
         /\ \A s \in Sessions : \A own : Create(s, own) \/ StartWrite(s) \/ Retire(s) =>
              Commits(consumer'[c])
         /\ \A d \in Consumers :
              Reserve(d) \/ Resume(d) \/ (AbortCommit(d) /\ d # c) =>
                Commits(consumer'[c])
         /\ \A d \in Consumers, s \in Sessions : \A own : Publish(d, s, own) =>
              Commits(consumer'[c])
<1> USE DEF Inv, TypeOK, Commits
<1>1. ASSUME NEW d, NEW then \in {"done", "start"}, RemoveEntry(d, then), d # c
      PROVE  Commits(consumer'[c])
  BY <1>1, RemoveEffect
<1>2. c # None
  BY PersistenceAssumption DEF PersistenceAssumption
<1>3. ASSUME Invalidate
      PROVE  Commits(consumer'[c])
  BY <1>3, InvalidateEffect
<1>4. ASSUME UNCHANGED pool
      PROVE  Commits(consumer'[c])
  BY <1>4 DEF pool
<1>5. ASSUME InitEnds \/ SuffixDone \/ BatchDone
      PROVE  Commits(consumer'[c])
  BY <1>3, <1>4, <1>5 DEF InitEnds, InitOk, Claims, InitRejects, SuffixDone, BatchDone,
                          Appends, AppendFails
<1>6. ASSUME ReleaseDone
      PROVE  Commits(consumer'[c])
  BY <1>4, <1>6 DEF ReleaseDone
<1>7. ASSUME LoadDone
      PROVE  Commits(consumer'[c])
  BY <1>4, <1>7 DEF LoadDone, Types
<1>8. ASSUME CommitDone, Subject # c
      PROVE  Commits(consumer'[c])
  <2>1. CASE \E then \in {"done", "start"} : RemoveEntry(Subject, then)
    BY <1>1, <1>8, <2>1
  <2>2. CASE CommitReserved(Subject)
    BY <1>8, <2>2 DEF CommitReserved, Types
  <2>3. CASE CommitOusted(Subject)
    BY <1>8, <2>3 DEF CommitOusted, Types
  <2> QED BY <1>8, <2>1, <2>2, <2>3 DEF CommitDone, CommitRefused, CommitStale, CommitRepair
<1>9. ASSUME Aside
      PROVE  Commits(consumer'[c])
  <2>1. CASE Evict \/ AppendStarts \/ UNCHANGED vars \/ \E open \in BOOLEAN : External(open)
    BY <1>1, <1>2, <1>4, <2>1 DEF Evict, AppendStarts, External, vars, pool
  <2>2. ASSUME NEW s \in Sessions, (\E open \in BOOLEAN : AppendEvent(s, open)) \/ Detach(s) \/ RetireFail(s)
        PROVE  Commits(consumer'[c])
    <3>1. UNCHANGED pool
      BY <2>2 DEF AppendEvent, Detach, RetireFail
    <3> QED BY <1>4, <3>1
  <2>3. ASSUME NEW d \in Consumers, Prepare(d) \/ RefuseLive(d) \/ AbortWait(d)
        PROVE  Commits(consumer'[c])
    BY <2>3 DEF Prepare, RefuseLive, AbortWait, Types
  <2>4. ASSUME NEW d \in Consumers, NEW grown \in BOOLEAN, Release(d, grown)
        PROVE  Commits(consumer'[c])
    <3>1. d # c
      BY <2>4 DEF Release
    <3> QED BY <1>1, <2>4, <3>1 DEF Release, Types
  <2> QED BY <1>9, <2>1, <2>2, <2>3, <2>4 DEF Aside
<1>10. ASSUME NEW s \in Sessions, NEW own, Create(s, own) \/ StartWrite(s) \/ Retire(s)
       PROVE  Commits(consumer'[c])
  <2>1. UNCHANGED pool
    BY <1>10 DEF Create, StartWrite, Retire
  <2> QED BY <1>4, <2>1
<1>11. ASSUME NEW d \in Consumers, Reserve(d) \/ Resume(d)
       PROVE  Commits(consumer'[c])
  BY <1>11 DEF Reserve, Resume, Types
<1>12. ASSUME NEW d \in Consumers, AbortCommit(d), d # c
       PROVE  Commits(consumer'[c])
  BY <1>1, <1>12 DEF AbortCommit, Types
<1>13. ASSUME NEW d \in Consumers, NEW s \in Sessions, NEW own, Publish(d, s, own)
       PROVE  Commits(consumer'[c])
  <2>1. d # c
    BY <1>13 DEF Publish
  <2> QED BY <1>1, <1>13, <2>1 DEF Publish
<1> HIDE DEF Inv, TypeOK, Commits
<1>14. Settles => Commits(consumer'[c]) \/ (CommitDone /\ Subject = c)
  BY <1>5, <1>6, <1>7, <1>8 DEF Settles
<1> QED BY <1>9, <1>10, <1>11, <1>12, <1>13, <1>14

\* What is queued is a session's whose life has begun, or the one commit of a
\* consumer that is committing.
LEMMA OpsStep ==
  ASSUME Inv, [Next]_vars
  PROVE  OpsInv'
<1> USE DEF Inv, TypeOK
<1>1. CASE Restart
  <2>1. CASE DOMAIN chain' = {}
    BY <2>1 DEF OpsInv
  <2>2. CASE Reload /\ store # None /\ DOMAIN chain' = {1}
             /\ chain'[1] = [do |-> "init", for |-> store, upto |-> Len(log[store])]
    <3>1. store \in Sessions /\ life[store] # "new"
      BY <2>2 DEF Types, LifeInv
    <3>2. life'[store] # "new"
      BY <1>1, <3>1, RestartLives
    <3> QED BY <2>2, <3>1, <3>2 DEF OpsInv
  <2> QED BY <1>1, <2>1, <2>2, RestartChain
<1> SUFFICES ASSUME ~Restart
             PROVE  OpsInv'
  BY <1>1
<1>2. /\ chain \in Seq(Op)
      /\ \A s \in Sessions : life[s] # "new" => life'[s] # "new"
      /\ \A s \in Sessions : life[s] # "new" /\ init[s] = "ok" => init'[s] = "ok"
  BY LifeMoves, InitMoves DEF Types
<1>3. ASSUME NEW r, NEW up, NEW down, Thinned(r, up, down),
             \A i \in DOMAIN chain \ {r} : chain[i].do = "commit" =>
               Commits(consumer'[chain[i].for])
      PROVE  OpsInv'
  <2>1. \A i \in DOMAIN chain' : up[i] \in DOMAIN chain \ {r} /\ chain'[i] = chain[up[i]]
    BY <1>3 DEF Thinned
  <2>2. ASSUME NEW i \in DOMAIN chain', NEW j \in DOMAIN chain',
               chain'[i].do = "commit", chain'[j].do = "commit", chain'[i].for = chain'[j].for
        PROVE  i = j
    <3>1. up[i] = up[j]
      BY <2>1, <2>2 DEF OpsInv
    <3> QED BY <1>3, <3>1 DEF Thinned
  <2>3. \A i \in DOMAIN chain' :
          /\ chain'[i].do \in {"init", "suffix", "batch", "release"} =>
               chain'[i].for \in Sessions /\ life'[chain'[i].for] # "new"
          /\ chain'[i].do = "commit" =>
               chain'[i].for \in Consumers /\ Commits(consumer'[chain'[i].for])
          /\ chain'[i].do = "batch" => init'[chain'[i].for] = "ok"
    BY <1>2, <1>3, <2>1 DEF OpsInv
  <2> QED BY <2>2, <2>3 DEF OpsInv, Commits
<1>4. ASSUME NEW do \in {"init", "suffix", "batch", "release"}, NEW s \in Sessions, NEW n,
             Grown(do, s, n), life'[s] # "new", do = "batch" => init'[s] = "ok",
             \A i \in DOMAIN chain : chain[i].do = "commit" =>
               Commits(consumer'[chain[i].for])
      PROVE  OpsInv'
  BY <1>2, <1>4 DEF OpsInv, Grown, Commits
<1>5. \A i \in DOMAIN chain : chain[i].do = "commit" =>
        chain[i].for \in Consumers /\ Commits(consumer[chain[i].for])
  BY DEF OpsInv, Commits
<1>6. CASE Settles
  <2>1. chain # <<>> /\ chain' = Tail(chain) /\ Running(Head(chain).do)
    BY <1>6, ThinningStep DEF Running
  <2>2. PICK up, down : Thinned(1, up, down)
    BY <1>2, <2>1, ThinnedTail
  <2>3. CASE CommitDone
    <3>1. 1 \in DOMAIN chain /\ chain[1].do = "commit" /\ chain[1].for = Subject
      BY <1>2, <2>3, AtHead DEF CommitDone
    <3>2. \A i \in DOMAIN chain \ {1} : chain[i].do = "commit" => chain[i].for # Subject
      BY <3>1 DEF OpsInv
    <3>3. \A c \in Consumers \ {Subject} : Commits(consumer[c]) => Commits(consumer'[c])
      BY <1>6, ConsumerMoves
    <3> QED BY <1>3, <1>5, <2>2, <3>2, <3>3
  <2>4. CASE ~CommitDone
    <3>1. \A c \in Consumers : Commits(consumer[c]) => Commits(consumer'[c])
      BY <1>6, <2>4, ConsumerMoves
    <3> QED BY <1>3, <1>5, <2>2, <3>1
  <2> QED BY <2>3, <2>4
<1>7. CASE Aside
  <2>1. PICK up, down : Thinned(0, up, down)
    BY <1>2, <1>7, AsideChain, ThinnedSame
  <2>2. \A c \in Consumers : Commits(consumer[c]) => Commits(consumer'[c])
    BY <1>7, ConsumerMoves
  <2> QED BY <1>3, <1>5, <2>1, <2>2
<1>8. ASSUME NEW s \in Sessions, NEW own \in {<<>>, <<By(s, FALSE)>>},
             Create(s, own) \/ StartWrite(s) \/ Retire(s)
      PROVE  OpsInv'
  <2>1. \A c \in Consumers : Commits(consumer[c]) => Commits(consumer'[c])
    BY <1>8, ConsumerMoves
  <2>2. CASE Create(s, own)
    <3>1. life'[s] # "new"
      BY <2>2 DEF Create, Types
    <3> QED BY <1>4, <1>5, <2>1, <2>2, <3>1, QueueBySession
  <2>3. CASE StartWrite(s)
    <3>1. life'[s] # "new" /\ init'[s] = "ok"
      BY <2>3 DEF StartWrite, sessions
    <3> QED BY <1>4, <1>5, <2>1, <2>3, <3>1, QueueBySession
  <2>4. CASE Retire(s)
    <3>1. life'[s] # "new"
      BY <2>4 DEF Retire, sessions
    <3> QED BY <1>4, <1>5, <2>1, <2>4, <3>1, QueueBySession
  <2> QED BY <1>8, <2>2, <2>3, <2>4
<1>9. ASSUME NEW c \in Consumers, Reserve(c)
      PROVE  OpsInv'
  <2>1. \A d \in Consumers : Commits(consumer[d]) => Commits(consumer'[d])
    BY <1>9, ConsumerMoves
  <2>2. CASE UNCHANGED chain
    <3>1. PICK up, down : Thinned(0, up, down)
      BY <1>2, <2>2, ThinnedSame
    <3> QED BY <1>3, <1>5, <2>1, <3>1
  <2>3. CASE Grown("load", None, 0)
    BY <1>2, <1>5, <2>1, <2>3 DEF OpsInv, Grown, Commits
  <2> QED BY <1>9, <2>2, <2>3, QueueByConsumer
<1>10. ASSUME NEW c \in Consumers, Resume(c)
       PROVE  OpsInv'
  <2>1. \A d \in Consumers : Commits(consumer[d]) => Commits(consumer'[d])
    BY <1>10, ConsumerMoves
  <2>2. ~Commits(consumer[c]) /\ Commits(consumer'[c])
    BY <1>10 DEF Resume, Types, Commits
  <2>3. \A i \in DOMAIN chain : chain[i].do = "commit" => chain[i].for # c
    BY <1>5, <2>2
  <2>4. Grown("commit", c, 0)
    BY <1>10, QueueByConsumer
  <2> QED BY <1>2, <1>5, <2>1, <2>2, <2>3, <2>4 DEF OpsInv, Grown, Commits
<1>11. ASSUME NEW c \in Consumers, AbortCommit(c)
       PROVE  OpsInv'
  <2>1. PICK r \in DOMAIN chain :
          chain[r].do = "commit" /\ chain[r].for = c /\ chain' = RemoveAt(chain, r)
    BY <1>11, ThinningStep
  <2>2. PICK up, down : Thinned(r, up, down)
    BY <1>2, <2>1, ThinnedRemove
  <2>3. \A i \in DOMAIN chain \ {r} : chain[i].do = "commit" => chain[i].for # c
    BY <2>1 DEF OpsInv
  <2>4. \A d \in Consumers \ {c} : Commits(consumer[d]) => Commits(consumer'[d])
    BY <1>11, ConsumerMoves
  <2> QED BY <1>3, <1>5, <2>2, <2>3, <2>4
<1>12. ASSUME NEW c \in Consumers, NEW s \in Sessions, NEW own \in {<<>>, <<By(s, FALSE)>>},
              Publish(c, s, own)
       PROVE  OpsInv'
  <2>1. \A d \in Consumers : Commits(consumer[d]) => Commits(consumer'[d])
    BY <1>12, ConsumerMoves
  <2>2. life'[s] # "new"
    BY <1>12 DEF Publish, Types
  <2>3. CASE UNCHANGED chain
    <3>1. PICK up, down : Thinned(0, up, down)
      BY <1>2, <2>3, ThinnedSame
    <3> QED BY <1>3, <1>5, <2>1, <3>1
  <2>4. CASE Grown("suffix", s, Len(entry.view \o own))
    BY <1>4, <1>5, <2>1, <2>2, <2>4
  <2> QED BY <1>12, <2>3, <2>4, QueueByPublish
<1> HIDE DEF Inv, TypeOK
<1>13. CASE Binds
  <2>1. /\ UNCHANGED <<sessions, pool>> /\ DOMAIN chain' = DOMAIN chain
        /\ \A i \in DOMAIN chain : i # 1 => chain'[i] = chain[i]
        /\ chain'[1].do = "suffix" /\ chain'[1].for = chain[1].for /\ chain[1].do = "init"
    BY <1>13, BindsEffect
  <2> QED BY <2>1 DEF Inv, OpsInv, sessions, pool
<1> QED BY <1>6, <1>7, <1>8, <1>9, <1>10, <1>11, <1>12, <1>13, StepKinds

\* A session is opened by one operation, and the live one last.
LEMMA OpenStep ==
  ASSUME Inv, [Next]_vars
  PROVE  OpenInv'
<1> USE DEF Inv, TypeOK
<1>1. CASE Restart
  <2>1. ASSUME DOMAIN chain' = {}, Reload => store = None
        PROVE  OpenInv'
    <3>1. \A s \in Sessions : init'[s] # "pending"
      BY <1>1, <2>1, PersistenceAssumption DEF Restart, Crash, Reload, PersistenceAssumption
    <3> QED BY <2>1, <3>1 DEF OpenInv
  <2>2. ASSUME Reload, store # None, DOMAIN chain' = {1},
               chain'[1] = [do |-> "init", for |-> store, upto |-> Len(log[store])]
        PROVE  OpenInv'
    <3>1. /\ store' = store /\ store \in Sessions
          /\ init' = [s \in Sessions |-> IF s = store THEN "pending" ELSE "none"]
          /\ base'[store] = Len(log[store])
      BY <2>2 DEF Reload, Types
    <3> QED BY <2>2, <3>1 DEF OpenInv, Opens
  <2> QED BY <1>1, <2>1, <2>2, RestartChain
<1> SUFFICES ASSUME ~Restart
             PROVE  OpenInv'
  BY <1>1
<1>2. /\ chain \in Seq(Op)
      /\ \A i \in DOMAIN chain : Opens(i) =>
           /\ chain[i].for \in Sessions /\ life[chain[i].for] # "new"
           /\ init[chain[i].for] = "pending" /\ chain[i].upto = base[chain[i].for]
  BY DEF Types, OpsInv, OpenInv, Opens
\* An operation leaves the chain; if it opened a session it was the first.
<1>3. ASSUME NEW r, NEW up, NEW down, Thinned(r, up, down), store' \in {store, None},
             r \in DOMAIN chain /\ Opens(r) => r = 1 /\ init'[chain[r].for] # "pending",
             \A s \in Sessions :
               /\ init'[s] = "pending" => init[s] = "pending"
               /\ init[s] = "pending" /\ ~(r \in DOMAIN chain /\ Opens(r) /\ chain[r].for = s)
                    => init'[s] = "pending" /\ base'[s] = base[s]
      PROVE  OpenInv'
  <2>1. \A i \in DOMAIN chain' :
          /\ up[i] \in DOMAIN chain \ {r} /\ chain'[i] = chain[up[i]]
          /\ Opens(i)' <=> Opens(up[i])
    BY <1>3 DEF Thinned, Opens
  <2>2. ASSUME NEW i \in DOMAIN chain', Opens(i)'
        PROVE  /\ init'[chain'[i].for] = "pending" /\ chain'[i].upto = base'[chain'[i].for]
               /\ store' # None => init'[store'] = "pending"
               /\ \A j \in DOMAIN chain' : Opens(j)' =>
                    /\ chain'[j].for = chain'[i].for => j = i
                    /\ chain'[i].for = store' => j <= i
    <3>1. Opens(up[i]) /\ chain'[i] = chain[up[i]] /\ up[i] \in DOMAIN chain \ {r}
      BY <2>1, <2>2
    <3>2. ~(r \in DOMAIN chain /\ Opens(r) /\ chain[r].for = chain[up[i]].for)
      BY <3>1 DEF OpenInv
    <3>3. init'[chain'[i].for] = "pending" /\ chain'[i].upto = base'[chain'[i].for]
      BY <1>2, <1>3, <3>1, <3>2
    <3>4. ASSUME store' # None
          PROVE  init'[store'] = "pending"
      <4>1. store' = store /\ store \in Sessions /\ init[store] = "pending"
        BY <1>3, <3>1, <3>4 DEF OpenInv, Types
      <4>2. ~(r \in DOMAIN chain /\ Opens(r) /\ chain[r].for = store)
        <5> SUFFICES ASSUME r \in DOMAIN chain, Opens(r), chain[r].for = store
                     PROVE  FALSE
          OBVIOUS
        <5>1. r = 1 /\ up[i] <= r
          BY <1>3, <3>1 DEF OpenInv
        <5>2. up[i] >= 1
          BY <1>2, <3>1, LenProperties
        <5> QED BY <1>2, <3>1, <5>1, <5>2, LenProperties
      <4> QED BY <1>3, <4>1, <4>2
    <3>5. ASSUME NEW j \in DOMAIN chain', Opens(j)'
          PROVE  /\ chain'[j].for = chain'[i].for => j = i
                 /\ chain'[i].for = store' => j <= i
      <4>1. Opens(up[j]) /\ chain'[j] = chain[up[j]] /\ up[j] \in DOMAIN chain
        BY <2>1, <3>5
      <4>2. chain'[j].for = chain'[i].for => j = i
        <5>1. chain'[j].for = chain'[i].for => up[j] = up[i]
          BY <3>1, <4>1 DEF OpenInv
        <5> QED BY <1>3, <5>1 DEF Thinned
      <4>3. ASSUME chain'[i].for = store'
            PROVE  j <= i
        <5>1. chain[up[i]].for = store
          BY <1>2, <1>3, <3>1, <4>3, PersistenceAssumption DEF PersistenceAssumption
        <5>2. up[j] <= up[i]
          BY <3>1, <4>1, <5>1 DEF OpenInv
        <5>3. up[i] \in Nat /\ up[j] \in Nat /\ i \in Nat /\ j \in Nat
          BY <1>3, <3>1, <4>1 DEF Thinned
        <5>4. ~(up[i] < up[j])
          BY <5>2, <5>3
        <5>5. ~(i < j)
          BY <1>3, <5>4 DEF Thinned
        <5> QED BY <5>3, <5>5
      <4> QED BY <4>2, <4>3
    <3> QED BY <3>3, <3>4, <3>5
  <2>3. ASSUME NEW s \in Sessions, init'[s] = "pending"
        PROVE  \E i \in DOMAIN chain' : Opens(i)' /\ chain'[i].for = s
    <3>1. PICK k \in DOMAIN chain : Opens(k) /\ chain[k].for = s
      BY <1>3, <2>3 DEF OpenInv
    <3>2. k # r
      BY <1>3, <2>3, <3>1
    <3>3. down[k] \in DOMAIN chain' /\ chain'[down[k]] = chain[k]
      BY <1>3, <3>2 DEF Thinned
    <3> QED BY <3>1, <3>3 DEF Opens
  <2> QED BY <2>2, <2>3 DEF OpenInv
\* Something else is queued.
<1>4. ASSUME NEW do \in {"batch", "release", "load", "commit"}, NEW for, NEW n,
             Grown(do, for, n), UNCHANGED <<store, init, base>>
      PROVE  OpenInv'
  <2>0. PICK z : z = Len(chain) + 1
    OBVIOUS
  <2>1. /\ \A i \in DOMAIN chain : chain'[i] = chain[i] /\ (Opens(i)' <=> Opens(i))
        /\ ~Opens(z)' /\ DOMAIN chain' = DOMAIN chain \cup {z}
    BY <1>4, <2>0 DEF Grown, Opens
  <2> QED BY <1>4, <2>1 DEF OpenInv
\* A session is published: it opens after those that left the store before.
<1>5. ASSUME NEW do \in {"init", "suffix"}, NEW s \in Sessions, NEW n, Grown(do, s, n),
             store' = s, life[s] = "new",
             init' = [init EXCEPT ![s] = "pending"], base' = [base EXCEPT ![s] = n]
      PROVE  OpenInv'
  <2>0. PICK z : z = Len(chain) + 1
    OBVIOUS
  <2>1. /\ \A i \in DOMAIN chain : i < z /\ chain'[i] = chain[i] /\ (Opens(i)' <=> Opens(i))
        /\ chain'[z] = [do |-> do, for |-> s, upto |-> n] /\ Opens(z)'
        /\ DOMAIN chain' = DOMAIN chain \cup {z} /\ z \in Nat
    BY <1>5, <2>0 DEF Grown, Opens
  <2>2. \A i \in DOMAIN chain : Opens(i) => chain[i].for \in Sessions \ {s}
    BY <1>2, <1>5
  <2>3. init'[s] = "pending" /\ base'[s] = n
        /\ \A t \in Sessions \ {s} : init'[t] = init[t] /\ base'[t] = base[t]
    BY <1>5 DEF Types
  <2>4. \A i \in DOMAIN chain' : Opens(i)' =>
          init'[chain'[i].for] = "pending" /\ chain'[i].upto = base'[chain'[i].for]
    BY <1>2, <2>1, <2>2, <2>3
  <2>5. \A i, j \in DOMAIN chain' : Opens(i)' /\ Opens(j)' =>
          /\ chain'[j].for = chain'[i].for => j = i
          /\ chain'[i].for = s => j <= i
    <3>1. DOMAIN chain \subseteq Nat
      BY <1>5 DEF Grown
    <3> QED BY <2>1, <2>2, <3>1 DEF OpenInv
  <2>6. \A t \in Sessions : init'[t] = "pending" =>
          \E i \in DOMAIN chain' : Opens(i)' /\ chain'[i].for = t
    BY <2>1, <2>3 DEF OpenInv
  <2> QED BY <1>5, <2>3, <2>4, <2>5, <2>6 DEF OpenInv
<1>6. CASE Settles
  <2>1. chain # <<>> /\ chain' = Tail(chain) /\ 1 \in DOMAIN chain
        /\ chain[1].do = Head(chain).do /\ chain[1].for = Subject
    BY <1>2, <1>6, ThinningStep, Drops DEF Subject
  <2>2. PICK up, down : Thinned(1, up, down)
    BY <1>2, <2>1, ThinnedTail
  <2>3. UNCHANGED store /\ (BatchDone \/ UNCHANGED base)
    BY <1>6, ChainFrame
  <2>4. CASE InitEnds \/ SuffixDone
    <3>1. Opens(1) /\ Subject \in Sessions
      BY <1>2, <2>1, <2>4 DEF InitEnds, SuffixDone, Running, Opens
    <3>2. UNCHANGED base /\ init' \in [Sessions -> {"none", "pending", "ok", "failed"}]
          /\ init'[Subject] # "pending" /\ \A s \in Sessions \ {Subject} : init'[s] = init[s]
      BY <2>4, <3>1 DEF InitEnds, InitOk, InitRejects, SuffixDone, Types
    <3> QED BY <1>3, <2>1, <2>2, <2>3, <3>1, <3>2
  <2>5. CASE BatchDone
    <3>1. ~Opens(1) /\ init[Subject] = "ok" /\ UNCHANGED init
      BY <2>1, <2>5 DEF BatchDone, Running, Opens, OpsInv
    <3>2. \A s \in Sessions \ {Subject} : base'[s] = base[s]
      BY <2>5 DEF BatchDone, Types
    <3> QED BY <1>3, <2>2, <2>3, <3>1, <3>2
  <2>6. CASE ReleaseDone \/ LoadDone \/ CommitDone
    <3>1. ~Opens(1) /\ UNCHANGED <<init, base>>
      BY <2>1, <2>6 DEF ReleaseDone, LoadDone, CommitDone, sessions, Running, Opens
    <3> QED BY <1>3, <2>2, <2>3, <3>1
  <2> QED BY <1>6, <2>4, <2>5, <2>6 DEF Settles
<1>7. CASE Aside
  <2>1. PICK up, down : Thinned(0, up, down)
    BY <1>2, <1>7, AsideChain, ThinnedSame
  <2>2. UNCHANGED <<init, base>> /\ store' \in {store, None}
    <3>1. CASE UNCHANGED sessions
      BY <3>1 DEF sessions
    <3>2. ASSUME NEW s \in Sessions, NEW open, AppendEvent(s, open) \/ Detach(s) \/ RetireFail(s)
          PROVE  UNCHANGED <<init, base>> /\ store' \in {store, None}
      BY <3>2 DEF AppendEvent, Detach, RetireFail
    <3> QED BY <1>7, <3>1, <3>2, AsideSessions
  <2>3. 0 \notin DOMAIN chain
    BY <1>2, LenProperties
  <2> QED BY <1>3, <2>1, <2>2, <2>3
<1>8. ASSUME NEW s \in Sessions, NEW own \in {<<>>, <<By(s, FALSE)>>}, Create(s, own)
      PROVE  OpenInv'
  BY <1>5, <1>8, QueueBySession DEF Create, Fresh
<1>9. ASSUME NEW s \in Sessions, StartWrite(s) \/ Retire(s)
      PROVE  OpenInv'
  BY <1>4, <1>9, QueueBySession DEF StartWrite, Retire, sessions
<1>10. ASSUME NEW c \in Consumers, Reserve(c) \/ Resume(c)
       PROVE  OpenInv'
  <2>1. UNCHANGED <<store, init, base>>
    BY <1>10 DEF Reserve, Resume, sessions
  <2>2. CASE UNCHANGED chain
    BY <2>1, <2>2 DEF OpenInv, Opens
  <2> QED BY <1>4, <1>10, <2>1, <2>2, QueueByConsumer
<1>11. ASSUME NEW c \in Consumers, AbortCommit(c)
       PROVE  OpenInv'
  <2>1. PICK r \in DOMAIN chain : chain[r].do = "commit" /\ chain' = RemoveAt(chain, r)
    BY <1>11, ThinningStep
  <2>2. PICK up, down : Thinned(r, up, down)
    BY <1>2, <2>1, ThinnedRemove
  <2>3. ~Opens(r) /\ UNCHANGED <<store, init, base>>
    BY <1>11, <2>1 DEF Opens, AbortCommit, sessions
  <2> QED BY <1>3, <2>2, <2>3
<1>12. ASSUME NEW c \in Consumers, NEW s \in Sessions, NEW own \in {<<>>, <<By(s, FALSE)>>},
              Publish(c, s, own)
       PROVE  OpenInv'
  <2>1. life[s] = "new" /\ store' = s /\ base' = [base EXCEPT ![s] = Len(entry.view \o own)]
    BY <1>12 DEF Publish, Fresh
  <2>2. CASE own # <<>>
    <3>1. init' = [init EXCEPT ![s] = "pending"] /\ Grown("suffix", s, Len(entry.view \o own))
      BY <1>12, <2>2, QueueByPublish DEF Publish
    <3> QED BY <1>5, <2>1, <3>1
  <2>3. CASE own = <<>>
    <3>1. init' = [init EXCEPT ![s] = "ok"] /\ UNCHANGED chain
      BY <1>12, <2>3 DEF Publish
    <3>2. \A i \in DOMAIN chain : ~Opens(i)
      BY <1>12 DEF Publish, HolderInv, LoadInv
    <3> QED BY <3>1, <3>2 DEF OpenInv, Opens, Types
  <2> QED BY <2>2, <2>3
<1> HIDE DEF Inv, TypeOK
<1>13. CASE Binds
  <2>1. /\ UNCHANGED sessions /\ DOMAIN chain' = DOMAIN chain /\ 1 \in DOMAIN chain
        /\ \A i \in DOMAIN chain : i # 1 => chain'[i] = chain[i]
        /\ chain[1].do = "init" /\ chain'[1].do = "suffix"
        /\ chain'[1].for = chain[1].for /\ chain'[1].upto = chain[1].upto
    BY <1>13, BindsEffect
  <2>2. \A i \in DOMAIN chain :
          /\ Opens(i)' <=> Opens(i)
          /\ chain'[i].for = chain[i].for /\ chain'[i].upto = chain[i].upto
    BY <2>1 DEF Opens
  <2> QED BY <2>1, <2>2 DEF Inv, OpenInv, sessions
<1> QED BY <1>6, <1>7, <1>8, <1>9, <1>10, <1>11, <1>12, <1>13, StepKinds

-----------------------------------------------------------------------------
(* The preparation, one step at a time *)

\* A write leaves the preparations alone, or ends one that is not reserved.
LEMMA WritePool ==
  ASSUME Inv, InitEnds \/ SuffixDone \/ BatchDone
  PROVE  \/ UNCHANGED pool
         \/ RemoveEntry(None, "done") /\ entry.phase # "reserved"
<1>1. UNCHANGED pool \/ (Invalidate /\ writing)
  BY DEF InitEnds, InitOk, Claims, InitRejects, SuffixDone, BatchDone, Appends, AppendFails
<1> QED BY <1>1 DEF Invalidate, Inv, WritingInv

\* Steps of the chain's but LoadDone and CommitDone do no more to it.
LEMMA ChainPool ==
  ASSUME Inv, Settles, ~LoadDone, ~CommitDone
  PROVE  \/ UNCHANGED pool
         \/ RemoveEntry(None, "done") /\ entry.phase # "reserved"
<1>1. CASE ReleaseDone
  BY <1>1 DEF ReleaseDone
<1> QED BY <1>1, WritePool DEF Settles

\* Nobody holds what was removed.
LEMMA RemovedHolders ==
  ASSUME Inv, NEW c, NEW then \in {"done", "start"}, RemoveEntry(c, then),
         c \in Holders \/ entry.phase # "reserved"
  PROVE  /\ HolderInv' /\ EntryInv' /\ LoadInv' /\ ReservedInv'
<1> USE DEF Inv, TypeOK
<1>1. entry'.phase = "none"
  BY RemoveEffect, NoEntryType
<1>2. \A d \in Consumers : consumer'[d] \notin {"committing", "holding"}
  <2> SUFFICES ASSUME NEW d \in Consumers, consumer'[d] \in {"committing", "holding"}
               PROVE  FALSE
    OBVIOUS
  <2>1. c \in Consumers => consumer'[c] = then
    BY RemoveEffect
  <2>2. d # c
    BY <2>1
  <2>3. consumer'[d] = consumer[d] /\ consumer[d] = "holding"
    BY <2>2, RemoveEffect
  <2>4. d \in Holders /\ entry.phase = "reserved"
    BY <2>3 DEF Holders, HolderInv
  <2> QED BY <2>2, <2>4 DEF HolderInv
<1>3. HolderInv'
  BY <1>1, <1>2 DEF HolderInv, Holders
<1> QED BY <1>1, <1>3 DEF EntryInv, LoadInv, ReservedInv

\* A consumer that holds nothing before or after leaves the holders alone.
LEMMA BystanderHolders ==
  ASSUME Types, HolderInv, NEW c \in Consumers, NEW there \in Place,
         consumer' = [consumer EXCEPT ![c] = there],
         {consumer[c], there} \cap {"committing", "holding"} = {},
         entry'.phase = entry.phase \/ {entry.phase, entry'.phase} \cap {"committing", "reserved"} = {}
  PROVE  HolderInv'
<1>1. \A d \in Consumers : consumer'[d] = IF d = c THEN there ELSE consumer[d]
  BY DEF Types
<1>2. Holders' = Holders
  BY <1>1 DEF Holders
<1> QED BY <1>1, <1>2 DEF HolderInv

\* A commit is the holder's, or that of a consumer whose entry is gone.
LEMMA CommitSubject ==
  ASSUME Inv, Running("commit")
  PROVE  Subject \in Consumers /\ consumer[Subject] \in {"committing", "ousted"}
<1>1. 1 \in DOMAIN chain /\ chain[1].do = "commit" /\ chain[1].for = Subject
  BY AtHead DEF Inv, TypeOK, Types
<1> QED BY <1>1 DEF Inv, OpsInv

LEMMA CommitHolder ==
  ASSUME Inv, Running("commit"), consumer[Subject] = "committing"
  PROVE  Subject \in Consumers /\ Subject \in Holders /\ entry.phase = "committing"
BY CommitSubject DEF Inv, HolderInv, Holders

LEMMA HolderStep ==
  ASSUME Inv, [Next]_vars
  PROVE  HolderInv'
<1> USE DEF Inv, TypeOK
<1>1. CASE UNCHANGED <<entry, consumer>>
  BY <1>1 DEF HolderInv, Holders
<1>2. CASE UNCHANGED pool
  BY <1>1, <1>2 DEF pool
<1>3. CASE Settles /\ ~LoadDone /\ ~CommitDone
  BY <1>2, <1>3, ChainPool, RemovedHolders
<1>4. CASE LoadDone
  <2>1. CASE Loads /\ UNCHANGED <<consumer, awaits>> /\ entry'.phase = "ready"
    BY <2>1 DEF HolderInv, Holders, Loads
  <2>2. CASE Loads /\ entry' = NoEntry /\ consumer' = [c \in Consumers |->
               IF consumer[c] = "waiting" THEN "done" ELSE consumer[c]]
    <3>1. \A c \in Consumers : consumer'[c] \in {"committing", "holding"} => consumer'[c] = consumer[c]
      BY <2>2
    <3>2. \A c \in Consumers : consumer'[c] \notin {"committing", "holding"}
      BY <2>2, <3>1 DEF HolderInv, Loads
    <3> QED BY <2>2, <3>2, NoEntryType DEF HolderInv, Holders
  <2> QED BY <1>2, <1>4, <2>1, <2>2 DEF LoadDone
<1>5. CASE CommitDone /\ consumer[Subject] = "committing"
  <2>1. Subject \in Holders /\ Subject \in Consumers /\ consumer[Subject] = "committing"
    BY <1>5, CommitHolder DEF CommitDone
  <2>2. CASE \E then \in {"done", "start"} : RemoveEntry(Subject, then)
    BY <2>1, <2>2, RemovedHolders
  <2>3. CASE CommitReserved(Subject)
    <3>1. \A d \in Consumers \ {Subject} : consumer'[d] = consumer[d]
                                          /\ consumer[d] \notin {"committing", "holding"}
      BY <2>1, <2>3 DEF CommitReserved, Types, HolderInv, Holders
    <3>2. \/ entry'.phase = "reserved" /\ consumer'[Subject] = "holding"
          \/ entry'.phase = "ready" /\ consumer'[Subject] = "done"
      BY <2>1, <2>3 DEF CommitReserved, Types, Entry
    <3> QED BY <2>1, <3>1, <3>2 DEF HolderInv, Holders
  <2> QED BY <1>5, <2>2, <2>3 DEF CommitDone, CommitRefused, CommitStale, CommitRepair,
                                  CommitOusted
<1>13. CASE CommitDone /\ CommitOusted(Subject)
  <2>1. Subject \in Consumers /\ consumer[Subject] = "ousted" /\ UNCHANGED entry
    BY <1>13, CommitSubject DEF CommitDone, CommitOusted
  <2>2. \E there \in {"done", "start"} : consumer' = [consumer EXCEPT ![Subject] = there]
    BY <1>13 DEF CommitOusted
  <2> QED BY <2>1, <2>2, BystanderHolders DEF Place
<1>6. CASE Aside
  <2>1. ASSUME NEW s \in Sessions, (\E open \in BOOLEAN : AppendEvent(s, open)) \/ Detach(s) \/ RetireFail(s)
        PROVE  UNCHANGED pool
    BY <2>1 DEF AppendEvent, Detach, RetireFail
  <2>2. ASSUME NEW c \in Consumers, Prepare(c) \/ RefuseLive(c) \/ AbortWait(c)
        PROVE  HolderInv'
    BY <2>2, BystanderHolders DEF Prepare, RefuseLive, AbortWait, Place
  <2>3. ASSUME NEW c \in Consumers, NEW grown \in BOOLEAN, Release(c, grown)
        PROVE  HolderInv'
    <3>1. c \in Holders /\ consumer[c] = "holding"
      BY <2>3 DEF Release, Holders
    <3>2. CASE RemoveEntry(c, "done")
      BY <3>1, <3>2, RemovedHolders
    <3>3. CASE entry' = [entry EXCEPT !.phase = "ready"] /\ consumer' = [consumer EXCEPT ![c] = "done"]
      <4>1. \A d \in Consumers : consumer'[d] \notin {"committing", "holding"}
        BY <3>1, <3>3 DEF Types, HolderInv, Holders
      <4> QED BY <3>3, <4>1 DEF HolderInv, Holders, Types, Entry
    <3> QED BY <2>3, <3>2, <3>3 DEF Release
  <2>4. CASE Evict
    BY <2>4, RemovedHolders DEF Evict
  <2>5. CASE AppendStarts \/ UNCHANGED vars \/ \E open \in BOOLEAN : External(open)
    BY <1>2, <2>5 DEF AppendStarts, vars, External
  <2> QED BY <1>2, <1>6, <2>1, <2>2, <2>3, <2>4, <2>5 DEF Aside
<1>7. CASE Restart
  <2>1. entry'.phase = "none" /\ \A c \in Consumers : consumer'[c] \in {"idle", "done"}
    <3>1. entry' = NoEntry
      BY <1>7 DEF Restart, Crash, Reload
    <3>2. consumer' = [c \in Consumers |-> IF consumer[c] = "idle" THEN "idle" ELSE "done"]
      BY <1>7 DEF Restart, Crash, Reload
    <3> QED BY <3>1, <3>2, NoEntryType
  <2> QED BY <2>1 DEF HolderInv, Holders
<1>8. ASSUME NEW s \in Sessions, NEW own, Create(s, own) \/ StartWrite(s) \/ Retire(s)
      PROVE  UNCHANGED pool
  BY <1>8 DEF Create, StartWrite, Retire
<1>9. ASSUME NEW c \in Consumers, Reserve(c)
      PROVE  HolderInv'
  <2>1. entry'.phase = entry.phase \/ (entry.phase = "none" /\ entry'.phase = "loading")
    BY <1>9, NoEntryType DEF Reserve, Entry
  <2> QED BY <1>9, <2>1, BystanderHolders DEF Reserve, Place
<1>10. ASSUME NEW c \in Consumers, Resume(c)
       PROVE  HolderInv'
  <2>1. \A d \in Consumers : consumer[d] \notin {"committing", "holding"}
    BY <1>10 DEF Resume, HolderInv
  <2>2. entry'.phase = "committing" /\ consumer'[c] = "committing"
        /\ \A d \in Consumers \ {c} : consumer'[d] = consumer[d]
    BY <1>10 DEF Resume, Types, Entry
  <2> QED BY <2>1, <2>2 DEF HolderInv, Holders
<1>11. ASSUME NEW c \in Consumers, AbortCommit(c)
       PROVE  HolderInv'
  <2>1. CASE consumer[c] = "committing" /\ RemoveEntry(c, "done")
    BY <2>1, RemovedHolders DEF Holders
  <2>2. CASE consumer[c] = "ousted" /\ UNCHANGED entry
             /\ consumer' = [consumer EXCEPT ![c] = "done"]
    BY <2>2, BystanderHolders DEF Place
  <2> QED BY <1>11, <2>1, <2>2 DEF AbortCommit
<1>12. ASSUME NEW c \in Consumers, NEW s \in Sessions, NEW own, Publish(c, s, own)
       PROVE  HolderInv'
  BY <1>12, RemovedHolders DEF Publish, Holders
<1> HIDE DEF Inv, TypeOK
<1>14. CASE Binds
  BY <1>2, <1>14, BindsEffect
<1>15. CommitDone => consumer[Subject] = "committing" \/ CommitOusted(Subject)
  BY DEF CommitDone
<1> QED BY <1>2, <1>3, <1>4, <1>5, <1>6, <1>7, <1>8, <1>9, <1>10, <1>11, <1>12, <1>13,
           <1>14, <1>15, StepKinds

LEMMA AsideEntry ==
  ASSUME Inv, Aside
  PROVE  \/ UNCHANGED entry \/ entry'.phase = "none"
         \/ entry.phase = "reserved" /\ entry' = [entry EXCEPT !.phase = "ready"]
<1> USE DEF Inv, TypeOK
<1>1. ASSUME NEW c, NEW then, RemoveEntry(c, then)
      PROVE  entry'.phase = "none"
  BY <1>1, NoEntryType DEF RemoveEntry
<1>2. CASE UNCHANGED pool
  BY <1>2 DEF pool
<1>3. ASSUME NEW s \in Sessions, (\E open \in BOOLEAN : AppendEvent(s, open)) \/ Detach(s) \/ RetireFail(s)
      PROVE  UNCHANGED pool
  BY <1>3 DEF AppendEvent, Detach, RetireFail
<1>4. ASSUME NEW c \in Consumers, Prepare(c) \/ RefuseLive(c) \/ AbortWait(c)
      PROVE  UNCHANGED entry
  BY <1>4 DEF Prepare, RefuseLive, AbortWait
<1>5. ASSUME NEW c \in Consumers, NEW grown \in BOOLEAN, Release(c, grown)
      PROVE  \/ entry'.phase = "none"
             \/ entry.phase = "reserved" /\ entry' = [entry EXCEPT !.phase = "ready"]
  BY <1>1, <1>5 DEF Release, HolderInv
<1>6. CASE Evict
  BY <1>1, <1>6 DEF Evict
<1>7. CASE AppendStarts \/ UNCHANGED vars \/ \E open \in BOOLEAN : External(open)
  BY <1>2, <1>7 DEF AppendStarts, vars, External
<1> QED BY <1>2, <1>3, <1>4, <1>5, <1>6, <1>7 DEF Aside

\* What a step does to the entry.
LEMMA EntryMoves ==
  ASSUME Inv, [Next]_vars
  PROVE  \/ UNCHANGED entry \/ entry'.phase = "none"
         \/ /\ entry.phase = "none" /\ entry'.phase = "loading"
            /\ \E c \in Consumers : Reserve(c)
         \/ /\ LoadDone /\ Loads /\ disk # <<>>
            /\ entry' = [phase |-> "ready", view |-> disk \o Closers(disk),
                         of |-> disk, tail |-> torn]
         \/ /\ entry.phase \in {"ready", "committing", "reserved"}
            /\ \/ entry' = [entry EXCEPT !.phase = "ready"]
               \/ entry' = [entry EXCEPT !.phase = "committing"]
               \/ /\ entry' = [entry EXCEPT !.phase = "reserved"]
                  /\ CommitDone /\ CommitReserved(Subject)
<1> USE DEF Inv, TypeOK
<1>1. ASSUME NEW c, NEW then, RemoveEntry(c, then)
      PROVE  entry'.phase = "none"
  BY <1>1, NoEntryType DEF RemoveEntry
<1>2. CASE UNCHANGED pool
  BY <1>2 DEF pool
<1>3. CASE Settles /\ ~LoadDone /\ ~CommitDone
  BY <1>1, <1>2, <1>3, ChainPool
<1>4. CASE LoadDone
  BY <1>2, <1>4, NoEntryType DEF LoadDone
<1>5. CASE CommitDone /\ consumer[Subject] = "committing"
  <2>1. entry.phase = "committing"
    BY <1>5, CommitHolder DEF CommitDone
  <2>2. CASE \E then \in {"done", "start"} : RemoveEntry(Subject, then)
    BY <1>1, <2>2
  <2>3. CASE CommitReserved(Subject)
    BY <1>5, <2>1, <2>3 DEF CommitReserved
  <2> QED BY <1>5, <2>2, <2>3 DEF CommitDone, CommitRefused, CommitStale, CommitRepair,
                                  CommitOusted
<1>6. CASE Aside
  BY <1>6, AsideEntry
<1>7. CASE Restart
  BY <1>7, NoEntryType DEF Restart, Crash, Reload
<1>8. ASSUME NEW s \in Sessions, NEW own, Create(s, own) \/ StartWrite(s) \/ Retire(s)
      PROVE  UNCHANGED pool
  BY <1>8 DEF Create, StartWrite, Retire
<1>9. ASSUME NEW c \in Consumers, Reserve(c)
      PROVE  UNCHANGED entry \/ (entry.phase = "none" /\ entry'.phase = "loading")
  <2>1. [NoEntry EXCEPT !.phase = "loading"].phase = "loading"
    BY NoEntryType DEF Entry
  <2> QED BY <1>9, <2>1 DEF Reserve
<1>10. ASSUME NEW c \in Consumers, Resume(c)
       PROVE  entry.phase = "ready" /\ entry' = [entry EXCEPT !.phase = "committing"]
  BY <1>10 DEF Resume
<1>11. ASSUME NEW c \in Consumers, AbortCommit(c)
       PROVE  entry'.phase = "none" \/ UNCHANGED entry
  BY <1>1, <1>11 DEF AbortCommit
<1>12. ASSUME NEW c \in Consumers, NEW s \in Sessions, NEW own, Publish(c, s, own)
       PROVE  entry'.phase = "none"
  BY <1>1, <1>12 DEF Publish
<1> HIDE DEF Inv, TypeOK
<1>13. CASE Binds
  BY <1>2, <1>13, BindsEffect
<1>14. CommitDone => consumer[Subject] = "committing" \/ UNCHANGED entry
  BY DEF CommitDone, CommitOusted
<1> QED BY <1>2, <1>3, <1>4, <1>5, <1>6, <1>7, <1>8, <1>9, <1>10, <1>11, <1>12, <1>13,
           <1>14, StepKinds

LEMMA EntryStep ==
  ASSUME Inv, [Next]_vars
  PROVE  EntryInv'
<1>1. entry \in Entry /\ entry' \in Entry /\ disk \in Seq(Event)
  BY TypesStep DEF Inv, TypeOK, Types
<1>2. CASE UNCHANGED entry
  BY <1>2 DEF Inv, EntryInv, Closers
<1>3. CASE entry'.phase \in {"none", "loading"}
  BY <1>3 DEF EntryInv
<1>4. CASE disk # <<>> /\ entry' = [phase |-> "ready", view |-> disk \o Closers(disk),
                                    of |-> disk, tail |-> torn]
  <2>1. entry'.of = disk /\ entry'.view = disk \o Closers(disk)
    BY <1>4
  <2> QED BY <1>4, <2>1 DEF EntryInv, Closers
<1>5. CASE entry.phase \in {"ready", "committing", "reserved"}
           /\ \E p \in {"ready", "committing", "reserved"} : entry' = [entry EXCEPT !.phase = p]
  <2>1. entry'.of = entry.of /\ entry'.view = entry.view
    BY <1>1, <1>5 DEF Entry
  <2>2. entry.of # <<>> /\ entry.view = entry.of \o Closers(entry.of)
    BY <1>5 DEF Inv, EntryInv
  <2> QED BY <2>1, <2>2 DEF EntryInv, Closers
<1> QED BY <1>2, <1>3, <1>4, <1>5, EntryMoves

\* Every step leaves what is stored in place.
LEMMA DiskGrows ==
  ASSUME Inv, [Next]_vars
  PROVE  disk' \in Seq(Event) /\ IsPrefix(disk, disk')
<1>0. disk \in Seq(Event) /\ IsPrefix(disk, disk)
  BY EmptySeq, PrefixConcat DEF Inv, TypeOK, Types
<1>1. CASE UNCHANGED disk
  BY <1>0, <1>1
<1>2. CASE InitEnds
  BY <1>1, <1>2, ClaimsEffect DEF InitEnds, InitOk, InitRejects, stored
<1>3. CASE SuffixDone
  BY <1>1, <1>3, AppendsEffect DEF SuffixDone, AppendFails, stored
<1>4. CASE BatchDone
  BY <1>1, <1>4, AppendsEffect DEF BatchDone, AppendFails, stored
<1>5. CASE CommitDone
  <2>1. CASE consumer[Subject] = "committing" /\ CommitRepair(Subject) /\ disk' = entry.view
    <3>1. entry.phase = "committing" /\ entry.of = disk
      BY <1>5, <2>1, CommitHolder DEF CommitDone, CommitRepair, Current
    <3>2. disk' = disk \o Closers(disk)
      BY <2>1, <3>1 DEF Inv, EntryInv
    <3> QED BY <1>0, <3>2, ClosersType, PrefixConcat
  <2> QED BY <1>1, <1>5, <2>1 DEF CommitDone, CommitRefused, CommitStale, CommitRepair,
                                  CommitReserved, CommitOusted, stored
<1>6. CASE ReleaseDone \/ LoadDone
  BY <1>1, <1>6 DEF ReleaseDone, LoadDone, stored
<1>7. CASE Aside
  <2>1. ASSUME NEW open \in BOOLEAN, External(open)
        PROVE  disk' \in Seq(Event) /\ IsPrefix(disk, disk')
    <3>1. By("other", open) \in Event
      BY DEF By, Event
    <3> QED BY <1>0, <2>1, <3>1, PrefixAppend DEF External
  <2>2. ~(\E open \in BOOLEAN : External(open)) => UNCHANGED disk
    BY <1>7 DEF Aside, AppendEvent, Detach, RetireFail, Prepare, RefuseLive, AbortWait, Release,
                Evict, AppendStarts, vars, stored
  <2> QED BY <1>1, <2>1, <2>2
<1>8. CASE Restart
  BY <1>8, CrashEffect, RestEffect DEF Restart
<1>9. ASSUME NEW s \in Sessions, NEW own, Create(s, own) \/ StartWrite(s) \/ Retire(s)
      PROVE  UNCHANGED disk
  BY <1>9 DEF Create, StartWrite, Retire, stored
<1>10. ASSUME NEW c \in Consumers, Reserve(c) \/ Resume(c) \/ AbortCommit(c)
       PROVE  UNCHANGED disk
  BY <1>10 DEF Reserve, Resume, AbortCommit, stored
<1>11. ASSUME NEW c \in Consumers, NEW s \in Sessions, NEW own, Publish(c, s, own)
       PROVE  UNCHANGED disk
  BY <1>11 DEF Publish, stored
<1>12. CASE Binds
  BY <1>1, <1>12, BindsEffect
<1> QED BY <1>1, <1>2, <1>3, <1>4, <1>5, <1>6, <1>7, <1>8, <1>9, <1>10, <1>11, <1>12,
           StepKinds
        DEF Settles

\* A load that is waited for is still to come, behind every session that opens.
LEMMA LoadStep ==
  ASSUME Inv, [Next]_vars
  PROVE  LoadInv'
<1> USE DEF Inv, TypeOK
<1>1. CASE entry'.phase = "none"
  BY <1>1 DEF LoadInv
<1> SUFFICES ASSUME entry'.phase # "none"
             PROVE  LoadInv'
  BY <1>1
<1>2. chain \in Seq(Op) /\ DOMAIN chain = 1 .. Len(chain) /\ Len(chain) \in Nat
  BY LenProperties DEF Types
\* The chain loses an operation, or none, and no load that is still needed.
<1>3. ASSUME NEW r, NEW up, NEW down, Thinned(r, up, down), entry'.phase = entry.phase,
             entry.phase = "loading" /\ r \in DOMAIN chain /\ chain[r].do = "load" =>
               r = 1 /\ \E j \in 2 .. Len(chain) : chain[j].do = "load"
      PROVE  LoadInv'
  <2>1. \A i \in DOMAIN chain' :
          /\ up[i] \in DOMAIN chain \ {r} /\ chain'[i] = chain[up[i]]
          /\ Opens(i)' <=> Opens(up[i])
    BY <1>3 DEF Thinned, Opens
  <2>2. ASSUME NEW j \in DOMAIN chain \ {r}, chain[j].do = "load"
        PROVE  down[j] \in DOMAIN chain' /\ chain'[down[j]].do = "load" /\ up[down[j]] = j
    BY <1>3, <2>2 DEF Thinned
  <2>3. ASSUME entry.phase = "loading"
        PROVE  /\ \E i \in DOMAIN chain' : chain'[i].do = "load"
               /\ \A i \in DOMAIN chain' : Opens(i)' =>
                    \E j \in DOMAIN chain' : i < j /\ chain'[j].do = "load"
    <3>1. PICK j \in DOMAIN chain \ {r} : chain[j].do = "load"
      BY <1>2, <1>3, <2>3 DEF LoadInv
    <3>2. ASSUME NEW i \in DOMAIN chain', Opens(i)'
          PROVE  \E k \in DOMAIN chain' : i < k /\ chain'[k].do = "load"
      <4>1. Opens(up[i]) /\ up[i] \in DOMAIN chain \ {r}
        BY <2>1, <3>2
      <4>2. PICK k \in DOMAIN chain : up[i] < k /\ chain[k].do = "load"
        BY <2>3, <4>1 DEF LoadInv
      <4>3. k # r
        BY <1>2, <1>3, <2>3, <4>1, <4>2
      <4>4. down[k] \in DOMAIN chain' /\ chain'[down[k]].do = "load" /\ up[down[k]] = k
        BY <2>2, <4>2, <4>3
      <4>5. i < down[k]
        BY <1>3, <4>2, <4>4 DEF Thinned
      <4> QED BY <4>4, <4>5
    <3> QED BY <2>2, <3>1, <3>2
  <2>4. ASSUME entry.phase \in {"ready", "committing", "reserved"}, NEW i \in DOMAIN chain'
        PROVE  ~Opens(i)'
    BY <2>1, <2>4 DEF LoadInv
  <2> QED BY <1>3, <2>3, <2>4 DEF LoadInv
\* Something is queued behind that opens no session.
<1>4. ASSUME NEW do \in {"batch", "release", "load", "commit"}, NEW for, NEW n,
             Grown(do, for, n),
             \/ entry'.phase = entry.phase
             \/ do = "load" /\ entry'.phase = "loading"
             \/ {entry.phase, entry'.phase} \subseteq {"ready", "committing", "reserved"}
      PROVE  LoadInv'
  <2>0. PICK z : z = Len(chain) + 1
    OBVIOUS
  <2>1. /\ \A i \in DOMAIN chain : i < z /\ chain'[i] = chain[i] /\ (Opens(i)' <=> Opens(i))
        /\ ~Opens(z)' /\ chain'[z].do = do /\ DOMAIN chain' = DOMAIN chain \cup {z}
    BY <1>4, <2>0 DEF Grown, Opens
  <2> QED BY <1>4, <2>1 DEF LoadInv
<1>5. CASE Settles /\ ~LoadDone
  <2>1. chain # <<>> /\ chain' = Tail(chain) /\ 1 \in DOMAIN chain /\ chain[1] = Head(chain)
    BY <1>2, <1>5, ThinningStep, Drops
  <2>2. PICK up, down : Thinned(1, up, down)
    BY <1>2, <2>1, ThinnedTail
  <2>3. chain[1].do # "load"
    BY <1>5, <2>1 DEF Settles, InitEnds, SuffixDone, BatchDone, ReleaseDone, CommitDone, Running
  <2>4. CASE UNCHANGED entry
    BY <1>3, <2>2, <2>3, <2>4
  <2>5. CASE {entry.phase, entry'.phase} \subseteq {"ready", "committing", "reserved"}
    <3>1. \A i \in DOMAIN chain' : \E k \in DOMAIN chain : chain'[i] = chain[k]
      BY <2>2 DEF Thinned
    <3> QED BY <2>5, <3>1 DEF LoadInv, Opens
  <2>6. CASE CommitDone
    <3>1. CASE consumer[Subject] = "committing"
      <4>1. entry.phase = "committing" /\ entry \in Entry
        BY <2>6, <3>1, CommitHolder DEF CommitDone, Types
      <4> QED BY <1>5, <2>4, <2>5, <4>1, EntryMoves DEF Entry
    <3> QED BY <2>4, <2>6, <3>1 DEF CommitDone, CommitOusted
  <2>7. CASE ~CommitDone
    <3>1. UNCHANGED pool \/ RemoveEntry(None, "done")
      BY <1>5, <2>7, ChainPool
    <3>2. UNCHANGED entry
      BY <3>1, NoEntryType DEF RemoveEntry, pool
    <3> QED BY <2>4, <3>2
  <2> QED BY <2>6, <2>7
<1>6. CASE LoadDone
  <2>1. chain # <<>> /\ chain' = Tail(chain) /\ 1 \in DOMAIN chain /\ chain[1].do = "load"
    BY <1>2, <1>6, ThinningStep, AtHead DEF LoadDone, Settles
  <2>2. PICK up, down : Thinned(1, up, down)
    BY <1>2, <2>1, ThinnedTail
  <2>3. CASE UNCHANGED entry /\ ~Loads
    BY <1>3, <2>2, <2>3 DEF Loads
  <2>4. CASE Loads /\ entry'.phase = "ready"
    <3>1. \A i \in DOMAIN chain \ {1} : ~Opens(i)
      <4> SUFFICES ASSUME NEW i \in DOMAIN chain \ {1}, Opens(i)
                   PROVE  FALSE
        OBVIOUS
      <4>1. PICK j \in DOMAIN chain : i < j /\ chain[j].do = "load"
        BY <2>4 DEF Loads, LoadInv
      <4> QED BY <1>2, <2>4, <4>1 DEF Loads
    <3>2. \A i \in DOMAIN chain' : ~Opens(i)'
      BY <2>2, <3>1 DEF Thinned, Opens
    <3> QED BY <2>4, <3>2 DEF LoadInv
  <2> QED BY <1>6, <2>3, <2>4, NoEntryType DEF LoadDone, pool
<1>7. CASE Aside
  <2>1. UNCHANGED chain
    BY <1>7, AsideChain
  <2>2. PICK up, down : Thinned(0, up, down)
    BY <1>2, <2>1, ThinnedSame
  <2>3. CASE UNCHANGED entry
    BY <1>2, <1>3, <2>2, <2>3
  <2>4. CASE entry.phase = "reserved" /\ entry'.phase = "ready"
    BY <2>1, <2>4 DEF LoadInv, Opens
  <2> QED BY <1>7, <2>3, <2>4, AsideEntry DEF Types, Entry
<1>8. CASE Restart
  BY <1>8, NoEntryType DEF Restart, Crash, Reload
<1>9. ASSUME NEW s \in Sessions, NEW own, Create(s, own)
      PROVE  FALSE
  BY <1>9 DEF Create, pool
<1>10. ASSUME NEW s \in Sessions, StartWrite(s) \/ Retire(s)
       PROVE  LoadInv'
  <2>1. UNCHANGED entry
    BY <1>10 DEF StartWrite, Retire, pool
  <2> QED BY <1>4, <1>10, <2>1, QueueBySession
<1>11. ASSUME NEW c \in Consumers, Reserve(c)
       PROVE  LoadInv'
  <2>1. CASE UNCHANGED <<entry, chain>>
    BY <2>1 DEF LoadInv, Opens
  <2>2. CASE entry.phase = "none"
    <3>1. entry'.phase = "loading" /\ chain' = Queued("load", None, 0)
      BY <1>11, <2>2, NoEntryType DEF Reserve, Entry
    <3>2. Grown("load", None, 0)
      <4>1. [do |-> "load", for |-> None, upto |-> 0] \in Op
        BY DEF Op
      <4> QED BY <3>1, <4>1, Grows
    <3>3. PICK z : z = Len(chain) + 1
      OBVIOUS
    <3>4. /\ \A i \in DOMAIN chain : i < z
          /\ chain'[z].do = "load" /\ DOMAIN chain' = DOMAIN chain \cup {z}
      BY <3>2, <3>3 DEF Grown
    <3> QED BY <3>1, <3>4 DEF LoadInv, Opens
  <2> QED BY <1>11, <2>1, <2>2 DEF Reserve
<1>12. ASSUME NEW c \in Consumers, Resume(c)
       PROVE  LoadInv'
  <2>1. entry.phase = "ready" /\ entry'.phase = "committing"
    BY <1>12 DEF Resume, Types, Entry
  <2> QED BY <1>4, <1>12, <2>1, QueueByConsumer
<1>13. ASSUME NEW c \in Consumers, AbortCommit(c)
       PROVE  LoadInv'
  <2>1. UNCHANGED entry
    BY <1>13, NoEntryType DEF AbortCommit, RemoveEntry
  <2>2. PICK r \in DOMAIN chain : chain[r].do = "commit" /\ chain' = RemoveAt(chain, r)
    BY <1>13, ThinningStep
  <2>3. PICK up, down : Thinned(r, up, down)
    BY <1>2, <2>2, ThinnedRemove
  <2> QED BY <1>3, <2>1, <2>2, <2>3
<1>14. ASSUME NEW c \in Consumers, NEW s \in Sessions, NEW own, Publish(c, s, own)
       PROVE  FALSE
  BY <1>14, NoEntryType DEF Publish, RemoveEntry
<1> HIDE DEF Inv, TypeOK
<1>15. CASE Binds
  <2>1. /\ UNCHANGED entry /\ DOMAIN chain' = DOMAIN chain /\ 1 \in DOMAIN chain
        /\ \A i \in DOMAIN chain : i # 1 => chain'[i] = chain[i]
        /\ chain[1].do = "init" /\ chain'[1].do = "suffix"
    BY <1>15, BindsEffect DEF pool
  <2>2. \A i \in DOMAIN chain :
          (Opens(i)' <=> Opens(i)) /\ (chain'[i].do = "load" <=> chain[i].do = "load")
    BY <2>1 DEF Opens
  <2> QED BY <2>1, <2>2 DEF Inv, LoadInv
<1> QED BY <1>5, <1>6, <1>7, <1>8, <1>9, <1>10, <1>11, <1>12, <1>13, <1>14, <1>15, StepKinds

\* A reservation stands on the log as it was read; nobody writes meanwhile.
LEMMA ReservedStep ==
  ASSUME Inv, [Next]_vars
  PROVE  ReservedInv'
<1> USE DEF Inv, TypeOK
<1> SUFFICES ASSUME entry'.phase = "reserved"
             PROVE  ReservedInv'
  BY DEF ReservedInv
<1>1. entry \in Entry /\ disk \in Seq(Event)
  BY DEF Types
<1>2. CASE CommitReserved(Subject) /\ entry.phase \in {"ready", "committing", "reserved"}
           /\ entry' = [entry EXCEPT !.phase = "reserved"]
  <2>1. entry'.view = entry.view /\ UNCHANGED <<disk, torn>>
    BY <1>1, <1>2 DEF CommitReserved, stored, Entry
  <2>2. entry.of # <<>> /\ entry.of = disk /\ entry.view = disk /\ ~torn
    BY <1>2 DEF CommitReserved, Current, Repairs, EntryInv
  <2>3. state' = [known |-> TRUE, cursor |-> Len(entry.view), materialized |-> TRUE,
                  owner |-> None]
    BY <1>2 DEF CommitReserved
  <2> QED BY <2>1, <2>2, <2>3 DEF ReservedInv
<1>3. CASE UNCHANGED entry /\ UNCHANGED <<stored, state>>
  BY <1>3 DEF ReservedInv, stored
<1>4. CASE UNCHANGED entry
  <2>1. ReservedInv /\ entry.phase = "reserved" /\ state.owner = None
    BY <1>4 DEF ReservedInv
  <2>2. \A i \in DOMAIN chain : chain[i].do \notin {"init", "suffix", "batch"}
    <3>1. \A i \in DOMAIN chain : chain[i].do \in {"suffix", "batch"} => chain[i].for # None
      BY PersistenceAssumption DEF OpsInv, PersistenceAssumption
    <3> QED BY <2>1, <3>1 DEF LoadInv, Opens, OwnerInv, WriterInv
  <2>3. CommitDone => UNCHANGED <<stored, state>>
    BY <2>1, CommitHolder DEF CommitDone, CommitOusted
  <2>4. \A do \in {"init", "suffix", "batch"} : ~Running(do)
    BY <2>2, AtHead DEF Types
  <2>5. CASE ReleaseDone
    <3>1. Subject # None
      <4>1. 1 \in DOMAIN chain /\ chain[1].do = "release" /\ chain[1].for = Subject
        BY <2>5, AtHead DEF ReleaseDone, Types
      <4> QED BY <4>1, PersistenceAssumption DEF OpsInv, PersistenceAssumption
    <3> QED BY <1>3, <1>4, <2>1, <2>5, <3>1 DEF ReleaseDone
  <2>6. CASE LoadDone
    BY <1>3, <1>4, <2>6 DEF LoadDone
  <2>7. CASE Aside
    <3>1. ~(\E open \in BOOLEAN : External(open))
      BY <2>1 DEF External
    <3>2. UNCHANGED <<stored, state>>
      BY <2>7, <3>1 DEF Aside, AppendEvent, Detach, RetireFail, Prepare, RefuseLive, AbortWait,
                        Release, Evict, AppendStarts, vars
    <3> QED BY <1>3, <1>4, <3>2
  <2>8. CASE Restart
    BY <2>1, <1>4, <2>8, NoEntryType DEF Restart, Crash, Reload
  <2>9. ASSUME NEW s \in Sessions, NEW own, Create(s, own) \/ StartWrite(s) \/ Retire(s)
        PROVE  UNCHANGED <<stored, state>>
    BY <2>9 DEF Create, StartWrite, Retire
  <2>10. ASSUME NEW c \in Consumers, Reserve(c) \/ Resume(c) \/ AbortCommit(c)
         PROVE  UNCHANGED <<stored, state>>
    BY <2>10 DEF Reserve, Resume, AbortCommit
  <2>11. ASSUME NEW c \in Consumers, NEW s \in Sessions, NEW own, Publish(c, s, own)
         PROVE  FALSE
    BY <1>4, <2>1, <2>11, NoEntryType DEF Publish, RemoveEntry
  <2>12. Settles => ReleaseDone \/ LoadDone \/ CommitDone
    BY <2>4 DEF Settles, InitEnds, SuffixDone, BatchDone
  <2>13. ~Binds
    BY <2>4 DEF Binds
  <2> HIDE DEF Inv, TypeOK
  <2> QED BY <1>3, <1>4, <2>3, <2>5, <2>6, <2>7, <2>8, <2>9, <2>10, <2>11, <2>12,
             <2>13, StepKinds
<1>5. \A p \in {"ready", "committing"} : entry' # [entry EXCEPT !.phase = p]
  BY <1>1 DEF Entry
<1>6. ASSUME NEW v, NEW o, NEW t
      PROVE  entry' # [phase |-> "ready", view |-> v, of |-> o, tail |-> t]
  OBVIOUS
<1> HIDE DEF Inv, TypeOK
<1> QED BY <1>2, <1>4, <1>5, <1>6, EntryMoves

-----------------------------------------------------------------------------
(* The owner, one step at a time *)

\* Nobody writes for a session that lost, or gave up, the id.
LEMMA NoWriter ==
  ASSUME Inv, \/ state.owner = None
              \/ Running("init") /\ ~state.materialized /\ ~HasWork(state.owner)
              \/ init[state.owner] = "ok" /\ ~HasWork(state.owner)
  PROVE  \A i \in DOMAIN chain : chain[i].do \notin {"batch", "suffix"}
<1> USE DEF Inv, TypeOK
<1> SUFFICES ASSUME NEW i \in DOMAIN chain, chain[i].do \in {"batch", "suffix"}
             PROVE  FALSE
  OBVIOUS
<1>1. chain[i].for \in Sessions /\ state.owner = chain[i].for
  BY DEF OpsInv, OwnerInv, WriterInv
<1>2. state.owner # None
  BY <1>1, PersistenceAssumption DEF PersistenceAssumption
<1>3. CASE chain[i].do = "batch"
  <2>1. chain[i].upto \in base[state.owner] + 1 .. Len(log[state.owner])
        /\ base[state.owner] \in Nat /\ Len(log[state.owner]) \in Nat
    BY <1>1, <1>3, LenProperties DEF OneWrite, Types
  <2>2. HasWork(state.owner)
    BY <2>1 DEF HasWork
  <2> QED BY <1>2, <2>2
<1>4. CASE chain[i].do = "suffix"
  <2>1. (i = 1 \/ state.materialized) /\ init[state.owner] = "pending"
    BY <1>1, <1>4 DEF OwnerInv, WriterInv, OpenInv, Opens
  <2>2. ~(i = 1 /\ Running("init"))
    BY <1>4, AtHead DEF Types
  <2> QED BY <1>2, <2>1, <2>2
<1> QED BY <1>3, <1>4

LEMMA WriterStep ==
  ASSUME Inv, [Next]_vars
  PROVE  WriterInv'
<1> USE DEF Inv, TypeOK
<1>0. chain \in Seq(Op)
  BY DEF Types
<1>1. CASE Restart
  BY <1>1, RestartChain DEF WriterInv, Types
\* The chain loses an operation, or none.
<1>2. ASSUME NEW r, NEW up, NEW down, Thinned(r, up, down), UNCHANGED state
      PROVE  WriterInv'
  <2>1. \A i \in DOMAIN chain' : up[i] \in DOMAIN chain /\ chain'[i] = chain[up[i]]
    BY <1>2 DEF Thinned
  <2>2. \A i \in DOMAIN chain' : up[i] = 1 => i = 1
    <3> SUFFICES ASSUME NEW i \in DOMAIN chain', up[i] = 1, i # 1
                 PROVE  FALSE
      OBVIOUS
    <3>1. /\ chain' \in Seq(Op) /\ DOMAIN chain' = 1 .. Len(chain') /\ Len(chain') \in Nat
          /\ DOMAIN chain = 1 .. Len(chain) /\ Len(chain) \in Nat
      BY <1>0, <1>2, LenProperties DEF Thinned
    <3>2. 1 \in DOMAIN chain' /\ 1 < i
      BY <3>1
    <3>3. up[1] < up[i] /\ up[1] \in 1 .. Len(chain)
      BY <1>2, <2>1, <3>1, <3>2 DEF Thinned
    <3> QED BY <3>1, <3>3
  <2> QED BY <1>2, <2>1, <2>2 DEF OwnerInv, WriterInv
\* Something is queued that does not write, or by the owner.
<1>3. ASSUME NEW do, NEW for, NEW n, Grown(do, for, n), UNCHANGED state,
             do # "suffix", do = "batch" => for = state.owner
      PROVE  WriterInv'
  BY <1>3 DEF Grown, OwnerInv, WriterInv
\* Nobody writes.
<1>4. ASSUME NEW r, NEW up, NEW down, Thinned(r, up, down),
             \A i \in DOMAIN chain \ {r} : chain[i].do \notin {"batch", "suffix"}
      PROVE  WriterInv'
  <2>1. \A i \in DOMAIN chain' : up[i] \in DOMAIN chain \ {r} /\ chain'[i] = chain[up[i]]
    BY <1>4 DEF Thinned
  <2> QED BY <1>4, <2>1 DEF WriterInv
<1>5. CASE Settles
  <2>1. chain # <<>> /\ chain' = Tail(chain)
    BY <1>5, ThinningStep
  <2>2. PICK up, down : Thinned(1, up, down)
    BY <1>0, <2>1, ThinnedTail
  <2>3. CASE UNCHANGED state
    BY <1>2, <2>2, <2>3
  <2>4. CASE InitEnds
    <3>1. CASE Claimable
      BY <1>4, <2>2, <2>4, <3>1, NoWriter DEF Claimable, Abandoned, InitEnds
    <3>2. CASE ~Claimable
      BY <2>3, <2>4, <3>2 DEF InitEnds, InitOk, Claims, InitRejects, Accepts, Claimable
    <3> QED BY <3>1, <3>2
  <2>5. ASSUME NEW do \in {"batch", "suffix"}, Running(do), Appends(Subject, Head(chain).upto)
        PROVE  WriterInv'
    <3>1. /\ 1 \in DOMAIN chain /\ chain[1].do = do /\ chain[1].for = Subject
          /\ state.owner = Subject /\ state'.owner = Subject
      BY <1>0, <2>5, AtHead, AppendsEffect
    <3>2. ASSUME NEW i \in DOMAIN chain \ {1}
          PROVE  /\ chain[i].do # "suffix"
                 /\ chain[i].do = "batch" => chain[i].for = Subject
      <4>1. chain[i].do \in {"batch", "suffix"} => chain[i].for = Subject
        BY <3>1 DEF OwnerInv, WriterInv
      <4>2. CASE do = "batch"
        BY <3>1, <4>1, <4>2 DEF OpsInv, OpenInv, Opens
      <4>3. CASE do = "suffix"
        BY <3>1, <4>1, <4>3 DEF OpenInv, Opens
      <4> QED BY <4>1, <4>2, <4>3
    <3>3. \A i \in DOMAIN chain' : \E k \in DOMAIN chain \ {1} : chain'[i] = chain[k]
      BY <2>2 DEF Thinned
    <3> QED BY <3>1, <3>2, <3>3 DEF WriterInv
  <2>6. CASE SuffixDone
    BY <2>3, <2>5, <2>6 DEF SuffixDone, AppendFails
  <2>7. CASE BatchDone
    BY <2>3, <2>5, <2>7 DEF BatchDone, AppendFails
  <2>8. CASE ReleaseDone
    <3>1. /\ 1 \in DOMAIN chain /\ chain[1].do = "release" /\ chain[1].for = Subject
      BY <1>0, <2>8, AtHead DEF ReleaseDone
    <3>2. CASE state.owner = Subject
      <4>1. init[state.owner] = "ok" /\ ~HasWork(state.owner)
        BY <3>1, <3>2 DEF ReleaseInv
      <4> QED BY <1>4, <2>2, <4>1, NoWriter
    <3> QED BY <2>3, <2>8, <3>2 DEF ReleaseDone
  <2>9. CASE LoadDone
    BY <2>3, <2>9 DEF LoadDone
  <2>10. CASE CommitDone
    <3>1. CASE HasOwner
      BY <2>3, <2>10, <3>1 DEF CommitDone, CommitRefused, CommitStale, CommitRepair, CommitReserved,
                               CommitOusted
    <3>2. CASE ~HasOwner
      BY <1>4, <2>2, <3>2, NoWriter DEF HasOwner
    <3> QED BY <3>1, <3>2
  <2> QED BY <1>5, <2>4, <2>6, <2>7, <2>8, <2>9, <2>10 DEF Settles
<1>6. CASE Aside
  <2>1. PICK up, down : Thinned(0, up, down)
    BY <1>0, <1>6, AsideChain, ThinnedSame
  <2>2. UNCHANGED state
    BY <1>6 DEF Aside, AppendEvent, Detach, RetireFail, Prepare, RefuseLive, AbortWait,
                Release, Evict, External, AppendStarts, vars
  <2> QED BY <1>2, <2>1, <2>2
<1>7. ASSUME NEW s \in Sessions, NEW own \in {<<>>, <<By(s, FALSE)>>}, Create(s, own) \/ Retire(s)
      PROVE  WriterInv'
  BY <1>3, <1>7, QueueBySession DEF Create, Retire
<1>8. ASSUME NEW s \in Sessions, StartWrite(s)
      PROVE  WriterInv'
  <2>1. log[s] # <<>>
    <3>1. base[s] < Len(log[s]) /\ base[s] \in Nat
      BY <1>8 DEF StartWrite, HasWork, Types
    <3> QED BY <3>1, EmptySeq
  <2>2. s = state.owner
    BY <1>8, <2>1 DEF StartWrite, IdleInv, Held
  <2> QED BY <1>3, <1>8, <2>2, QueueBySession DEF StartWrite
<1>9. ASSUME NEW c \in Consumers, Reserve(c) \/ Resume(c)
      PROVE  WriterInv'
  <2>1. UNCHANGED state
    BY <1>9 DEF Reserve, Resume
  <2>2. CASE UNCHANGED chain
    BY <2>1, <2>2 DEF OwnerInv, WriterInv
  <2> QED BY <1>3, <1>9, <2>1, <2>2, QueueByConsumer
<1>10. ASSUME NEW c \in Consumers, AbortCommit(c)
       PROVE  WriterInv'
  <2>1. PICK r \in DOMAIN chain : chain' = RemoveAt(chain, r)
    BY <1>10, ThinningStep
  <2>2. PICK up, down : Thinned(r, up, down)
    BY <1>0, <2>1, ThinnedRemove
  <2> QED BY <1>2, <1>10, <2>2 DEF AbortCommit
<1>11. ASSUME NEW c \in Consumers, NEW s \in Sessions, NEW own \in {<<>>, <<By(s, FALSE)>>},
              Publish(c, s, own)
       PROVE  WriterInv'
  <2>1. entry.phase = "reserved"
    BY <1>11 DEF Publish, HolderInv
  <2>2. /\ state.owner = None /\ state.materialized /\ state.cursor = Len(entry.view)
        /\ state' = [state EXCEPT !.owner = s] /\ state \in State /\ entry.view \in Seq(Event)
    BY <1>11, <2>1 DEF Publish, ReservedInv, Types, Entry
  <2>3. state'.owner = s /\ state'.materialized /\ state'.cursor = Len(entry.view)
    BY <2>2 DEF State
  <2>4. Len(entry.view) <= Len(entry.view \o own)
    <3>1. own \in Seq(Event)
      BY OwnEvent
    <3>2. Len(entry.view \o own) = Len(entry.view) + Len(own)
          /\ Len(own) \in Nat /\ Len(entry.view) \in Nat
      BY <2>2, <3>1, ConcatProperties, LenProperties
    <3> QED BY <3>2
  <2>5. \A i \in DOMAIN chain : chain[i].do \notin {"batch", "suffix"}
    BY <2>2, NoWriter
  <2>6. CASE UNCHANGED chain
    BY <2>5, <2>6 DEF WriterInv
  <2>7. CASE Grown("suffix", s, Len(entry.view \o own))
    BY <2>3, <2>4, <2>5, <2>7 DEF WriterInv, Grown
  <2> QED BY <1>11, <2>6, <2>7, QueueByPublish
<1> HIDE DEF Inv, TypeOK
<1>12. CASE Binds
  <2>1. /\ DOMAIN chain' = DOMAIN chain /\ \A i \in DOMAIN chain : i # 1 => chain'[i] = chain[i]
        /\ chain'[1].do = "suffix" /\ chain'[1].for = Subject /\ chain'[1].upto = base[Subject]
        /\ Len(disk) < base[Subject] /\ state' = Owned(Subject, Len(disk)) /\ Claimable
        /\ Subject \in Sessions
    BY <1>12, BindsEffect
  <2>2. \A i \in DOMAIN chain : chain[i].do \notin {"batch", "suffix"}
    BY <1>12, <2>1, NoWriter DEF Claimable, Abandoned, Binds
  <2>3. state'.owner = Subject /\ state'.cursor = Len(disk)
    BY <2>1 DEF Owned
  <2>4. Len(disk) <= base[Subject]
    BY <2>1, LenProperties DEF Inv, TypeOK, Types
  <2> QED BY <2>1, <2>2, <2>3, <2>4 DEF WriterInv
<1> QED BY <1>1, <1>5, <1>6, <1>7, <1>8, <1>9, <1>10, <1>11, <1>12, StepKinds

\* The owner's log extends the stored one, whoever owns it.
LEMMA TrackStep ==
  ASSUME Inv, [Next]_vars
  PROVE  TrackInv'
<1> USE DEF Inv, TypeOK
<1>0. /\ disk \in Seq(Event) /\ log \in [Sessions -> Seq(Event)] /\ Len(disk) \in Nat
      /\ state.owner \in Sessions \cup {None} /\ None \notin Sessions
      /\ log' \in [Sessions -> Seq(Event)]
  BY TypesStep, LenProperties, PersistenceAssumption DEF Types, State, PersistenceAssumption
<1>1. CASE state' = NoState
  BY <1>1 DEF TrackInv, NoState
\* Nothing is stored; the logs of those whose life has begun stand or grow.
<1>2. ASSUME UNCHANGED <<stored, state>>,
             \A s \in Sessions : life[s] # "new" =>
               /\ IsPrefix(log[s], log'[s]) /\ base'[s] = base[s]
               /\ init'[s] = "ok" => init[s] = "ok"
      PROVE  TrackInv'
  <2>1. UNCHANGED <<disk, torn, state>>
    BY <1>2 DEF stored
  <2>2. CASE state.owner = None
    BY <2>1, <2>2 DEF OwnerInv, TrackInv
  <2>3. CASE state.owner # None
    <3>1. state.owner \in Sessions /\ life[state.owner] # "new"
      BY <1>0, <2>3 DEF OwnerInv, TrackInv
    <3>2. IsPrefix(disk, log'[state.owner])
      BY <1>0, <1>2, <2>3, <3>1, PrefixTrans DEF OwnerInv, TrackInv
    <3>3. life'[state.owner] # "new"
      BY <3>1, LifeMoves
    <3> QED BY <1>2, <2>1, <2>3, <3>1, <3>2, <3>3 DEF OwnerInv, TrackInv
  <2> QED BY <2>2, <2>3
<1>3. ASSUME UNCHANGED <<stored, state, log, base>>,
             \A s \in Sessions : init'[s] = "ok" => init[s] = "ok"
      PROVE  TrackInv'
  BY <1>0, <1>2, <1>3, PrefixConcat
\* Nobody owns the log, which stands or grows.
<1>4. ASSUME state.owner = None, UNCHANGED state
      PROVE  TrackInv'
  <2>1. disk' \in Seq(Event) /\ IsPrefix(disk, disk')
    BY DiskGrows
  <2>2. Len(disk) <= Len(disk') /\ Len(disk') \in Nat
    BY <1>0, <2>1, PrefixDef, LenProperties
  <2> QED BY <1>0, <1>4, <2>2 DEF OwnerInv, TrackInv
\* Somebody owns it as far as it is stored.
<1>5. ASSUME NEW s \in Sessions, state'.known, state'.cursor = Len(disk'), state'.owner = s,
             state'.materialized \/ Len(disk') = 0,
             IsPrefix(disk', log'[s]), ~torn',
             init'[s] = "ok" => base'[s] = Len(disk'), life'[s] # "new"
      PROVE  TrackInv'
  BY <1>0, <1>5 DEF TrackInv
<1>6. CASE InitEnds
  <2>1. PICK s : s = Subject
    OBVIOUS
  <2>2. PICK n : n = Head(chain).upto
    OBVIOUS
  <2>3. /\ 1 \in DOMAIN chain /\ chain[1].do = "init" /\ chain[1].for = s
        /\ UNCHANGED <<log, base, life>>
    BY <1>6, <2>1, AtHead DEF InitEnds, Types
  <2>4. Running("init")
    BY <1>6 DEF InitEnds
  <2>5. s \in Sessions /\ life[s] # "new"
    BY <2>3 DEF OpsInv
  <2>6. CASE InitOk(s, n)
    <3> HIDE DEF Inv, TypeOK
    <3>1. /\ n = base[s] /\ n \in Nat /\ disk' = disk /\ disk \in Seq(Event) /\ Prefix = disk
          /\ IsPrefix(disk, log[s]) /\ torn' = FALSE /\ state' = Owned(s, Len(disk))
      BY <2>4, <2>6, <2>1, <2>2, ClaimsEffect DEF InitOk
    <3>2. IsPrefix(disk', log[s])
      BY <3>1
    <3>3. Len(disk) = n /\ torn' = FALSE /\ state' = Owned(s, n)
      BY <2>6, <3>1 DEF InitOk
    <3>4. disk' \in Seq(Event) /\ Len(disk') = n
      BY <3>1, <3>3
    <3>5. /\ state'.known /\ state'.cursor = n /\ state'.owner = s
          /\ n > 0 => state'.materialized
      BY <3>3 DEF Owned
    <3> QED BY <1>5, <2>3, <2>5, <3>1, <3>2, <3>3, <3>5, <3>4
  <2>7. CASE InitRejects(s)
    <3>1. \A t \in Sessions : init'[t] = "ok" => init[t] = "ok"
      BY <2>7 DEF InitRejects, Types
    <3> QED BY <1>1, <1>3, <2>3, <2>7, <3>1 DEF InitRejects
  <2> QED BY <1>6, <2>6, <2>7, <2>1, <2>2 DEF InitEnds
<1>7. CASE SuffixDone
  <2>1. /\ 1 \in DOMAIN chain /\ chain[1].do = "suffix" /\ chain[1].for = Subject
        /\ chain[1].upto = Head(chain).upto /\ Running("suffix") /\ UNCHANGED <<log, base, life>>
    BY <1>7, AtHead DEF SuffixDone, Types
  <2>2. CASE Appends(Subject, Head(chain).upto)
    <3>1. /\ Subject \in Sessions /\ Head(chain).upto \in Nat /\ Len(disk') = Head(chain).upto
          /\ IsPrefix(disk', log[Subject]) /\ torn' = FALSE
          /\ state' = [known |-> TRUE, cursor |-> Head(chain).upto, materialized |-> TRUE,
                       owner |-> Subject]
      BY <2>1, <2>2, AppendsEffect DEF Types
    <3>2. base[Subject] = Head(chain).upto /\ life[Subject] # "new"
      BY <2>1 DEF OpenInv, Opens, OpsInv
    <3> QED BY <1>5, <2>1, <3>1, <3>2
  <2>3. CASE AppendFails /\ init' = [init EXCEPT ![Subject] = "failed"]
    <3>1. \A t \in Sessions : init'[t] = "ok" => init[t] = "ok"
      BY <2>3 DEF Types
    <3> QED BY <1>3, <2>1, <2>3, <3>1 DEF AppendFails
  <2> QED BY <1>7, <2>2, <2>3 DEF SuffixDone
<1>8. CASE BatchDone
  <2>1. /\ 1 \in DOMAIN chain /\ chain[1].do = "batch" /\ chain[1].for = Subject
        /\ Running("batch") /\ UNCHANGED <<log, init>>
    BY <1>8, AtHead DEF BatchDone, Types
  <2>2. CASE Appends(Subject, Head(chain).upto) /\ base' = [base EXCEPT ![Subject] = Head(chain).upto]
    <3>1. /\ Subject \in Sessions /\ Head(chain).upto \in Nat /\ Len(disk') = Head(chain).upto
          /\ IsPrefix(disk', log[Subject]) /\ torn' = FALSE
          /\ state' = [known |-> TRUE, cursor |-> Head(chain).upto, materialized |-> TRUE,
                       owner |-> Subject]
      BY <2>1, <2>2, AppendsEffect DEF Types
    <3>2. base'[Subject] = Head(chain).upto
      BY <2>2, <3>1 DEF Types
    <3>3. life[Subject] # "new"
      BY <2>1 DEF OpsInv
    <3>4. life'[Subject] # "new"
      BY <3>1, <3>3, LifeMoves
    <3> QED BY <1>5, <2>1, <3>1, <3>2, <3>4
  <2>3. CASE AppendFails /\ UNCHANGED base
    BY <1>3, <2>1, <2>3 DEF AppendFails
  <2> QED BY <1>8, <2>2, <2>3 DEF BatchDone
<1>9. CASE ReleaseDone
  BY <1>1, <1>3, <1>9 DEF ReleaseDone
<1>10. CASE LoadDone
  BY <1>3, <1>10 DEF LoadDone, sessions
<1>11. CASE CommitDone
  <2>1. UNCHANGED sessions
    BY <1>11 DEF CommitDone
  <2>2. CASE CommitRefused(Subject) \/ CommitStale(Subject)
    BY <1>3, <2>1, <2>2 DEF CommitRefused, CommitStale, sessions
  <2>3. CASE CommitRepair(Subject)
    BY <1>4, <2>3 DEF CommitRepair, HasOwner
  <2>4. CASE consumer[Subject] = "committing" /\ CommitReserved(Subject)
    <3>1. entry.phase = "committing" /\ disk # <<>> /\ entry.view = disk /\ UNCHANGED disk
      BY <1>11, <2>4, CommitHolder DEF CommitDone, CommitReserved, Current, Repairs, EntryInv, stored
    <3>2. state'.known /\ state'.owner = None /\ state'.cursor = Len(disk)
      BY <2>4, <3>1 DEF CommitReserved
    <3>3. Len(disk) \in 1 .. Len(disk)
      BY <1>0, <3>1, EmptySeq
    <3> QED BY <3>1, <3>2, <3>3 DEF TrackInv
  <2>5. CASE CommitOusted(Subject)
    BY <1>3, <2>1, <2>5 DEF CommitOusted, sessions
  <2> QED BY <1>11, <2>2, <2>3, <2>4, <2>5 DEF CommitDone
<1>12. CASE Aside
  <2>1. ASSUME NEW open \in BOOLEAN, External(open)
        PROVE  TrackInv'
    BY <1>4, <2>1 DEF External
  <2>2. ASSUME NEW s \in Sessions, NEW open \in BOOLEAN, AppendEvent(s, open)
        PROVE  TrackInv'
    <3>1. By(s, open) \in Event
      BY DEF By, Event
    <3>2. IsPrefix(log[s], Append(log[s], By(s, open)))
      BY <1>0, <3>1, PrefixAppend
    <3>3. \A t \in Sessions : IsPrefix(log[t], log'[t])
      BY <1>0, <2>2, <3>2, PrefixConcat DEF AppendEvent
    <3> QED BY <1>2, <2>2, <3>3 DEF AppendEvent
  <2>3. ASSUME NEW s \in Sessions, Detach(s) \/ RetireFail(s)
        PROVE  TrackInv'
    BY <1>3, <2>3 DEF Detach, RetireFail
  <2>4. CASE AppendStarts \/ UNCHANGED vars
    BY <1>3, <2>4 DEF AppendStarts, vars, sessions
  <2>5. ASSUME NEW c \in Consumers,
               Prepare(c) \/ RefuseLive(c) \/ AbortWait(c) \/ \E grown \in BOOLEAN : Release(c, grown)
        PROVE  TrackInv'
    BY <1>3, <2>5 DEF Prepare, RefuseLive, AbortWait, Release, sessions
  <2>6. CASE Evict
    BY <1>3, <2>6 DEF Evict, sessions
  <2> HIDE DEF Inv, TypeOK
  <2> QED BY <1>12, <2>1, <2>2, <2>3, <2>4, <2>5, <2>6 DEF Aside
<1>13. CASE Restart
  BY <1>1, <1>13 DEF Restart, Crash, Reload
<1>14. ASSUME NEW s \in Sessions, NEW own, Create(s, own)
       PROVE  TrackInv'
  <2>1. \A t \in Sessions \ {s} : log'[t] = log[t] /\ base'[t] = base[t] /\ init'[t] = init[t]
    BY <1>14 DEF Create, Types
  <2>2. life[s] = "new"
    BY <1>14 DEF Create, Fresh
  <2>3. \A t \in Sessions : life[t] # "new" =>
          /\ IsPrefix(log[t], log'[t]) /\ base'[t] = base[t]
          /\ init'[t] = "ok" => init[t] = "ok"
    BY <1>0, <2>1, <2>2, PrefixConcat
  <2> QED BY <1>2, <1>14, <2>3 DEF Create
<1>15. ASSUME NEW s \in Sessions, StartWrite(s) \/ Retire(s)
       PROVE  TrackInv'
  BY <1>3, <1>15 DEF StartWrite, Retire, sessions
<1>16. ASSUME NEW c \in Consumers, Reserve(c) \/ Resume(c) \/ AbortCommit(c)
       PROVE  TrackInv'
  BY <1>3, <1>16 DEF Reserve, Resume, AbortCommit, sessions
<1>17. ASSUME NEW c \in Consumers, NEW s \in Sessions, NEW own \in {<<>>, <<By(s, FALSE)>>},
              Publish(c, s, own)
       PROVE  TrackInv'
  <2>1. entry.phase = "reserved"
    BY <1>17 DEF Publish, HolderInv
  <2>2. /\ state.known /\ state.materialized /\ state.cursor = Len(disk) /\ state \in State
        /\ entry.view = disk /\ ~torn /\ UNCHANGED <<disk, torn>>
    BY <1>17, <2>1 DEF Publish, ReservedInv, Types, stored
  <2>3. state' = [known |-> TRUE, cursor |-> Len(disk), materialized |-> TRUE, owner |-> s]
    BY <1>17, <2>2 DEF Publish, State
  <2>4. log'[s] = disk \o own /\ IsPrefix(disk, disk \o own)
    BY <1>0, <1>17, <2>2, OwnEvent, PrefixConcat DEF Publish
  <2>5. life'[s] # "new" /\ (init'[s] = "ok" => base'[s] = Len(disk))
    <3>1. CASE own = <<>>
      <4>1. disk \o own = disk
        BY <1>0, <3>1, ConcatEmptySeq
      <4> QED BY <1>17, <2>2, <3>1, <4>1 DEF Publish, Types
    <3>2. CASE own # <<>>
      BY <1>17, <3>2 DEF Publish, Types
    <3> QED BY <3>1, <3>2
  <2>6. /\ state'.known /\ state'.cursor = Len(disk') /\ state'.owner = s
        /\ state'.materialized
    BY <2>2, <2>3
  <2> QED BY <1>5, <2>2, <2>4, <2>5, <2>6
<1> HIDE DEF Inv, TypeOK
<1>18. CASE Binds
  <2>1. /\ UNCHANGED sessions /\ Subject \in Sessions
        /\ disk' = disk /\ Len(disk) \in Nat /\ IsPrefix(disk, log[Subject])
        /\ torn' = FALSE /\ state' = Owned(Subject, Len(disk))
        /\ 1 \in DOMAIN chain /\ chain[1].do = "init" /\ chain[1].for = Subject
    BY <1>18, BindsEffect
  <2>2. init[Subject] = "pending" /\ life[Subject] # "new"
    BY <2>1 DEF Inv, OpenInv, Opens, OpsInv
  <2>3. /\ state'.known /\ state'.cursor = Len(disk) /\ state'.owner = Subject
        /\ Len(disk) > 0 => state'.materialized
    BY <2>1 DEF Owned
  <2>4. state'.materialized \/ Len(disk) = 0
    BY <2>1, <2>3
  <2> QED BY <1>5, <2>1, <2>2, <2>3, <2>4 DEF sessions
<1> QED BY <1>6, <1>7, <1>8, <1>9, <1>10, <1>11, <1>12, <1>13, <1>14, <1>15, <1>16, <1>17,
           <1>18, StepKinds
        DEF Settles

-----------------------------------------------------------------------------
(* The sessions, one step at a time *)

\* A session with nothing left to write waits for its release, undisturbed.
LEMMA ReleasingStays ==
  ASSUME Inv, [Next]_vars, ~Restart, NEW s \in Sessions,
         life[s] = "retiring", init[s] = "ok", ~HasWork(s), ~(ReleaseDone /\ Subject = s)
  PROVE  life'[s] = "retiring" /\ init'[s] = "ok" /\ ~HasWork(s)'
<1> USE DEF Inv, TypeOK
<1>1. init'[s] = "ok"
  BY InitMoves
<1>2. ASSUME life'[s] = life[s], base'[s] = base[s], log'[s] = log[s]
      PROVE  life'[s] = "retiring" /\ ~HasWork(s)'
  BY <1>2 DEF HasWork
<1>3. CASE UNCHANGED sessions
  BY <1>2, <1>3 DEF sessions
<1>4. store # s
  BY PersistenceAssumption DEF LifeInv, PersistenceAssumption
<1>5. CASE Settles
  <2>1. CASE BatchDone
    <3>1. 1 \in DOMAIN chain /\ chain[1].do = "batch" /\ chain[1].for = Subject
      BY <2>1, AtHead DEF BatchDone, Types
    <3>2. Subject # s
      <4> SUFFICES ASSUME Subject = s
                   PROVE  FALSE
        OBVIOUS
      <4>1. chain[1].upto \in base[s] + 1 .. Len(log[s]) /\ base[s] \in Nat /\ Len(log[s]) \in Nat
        BY <3>1, LenProperties DEF OneWrite, Types
      <4> QED BY <4>1 DEF HasWork
    <3>3. life'[s] = life[s] /\ base'[s] = base[s] /\ log'[s] = log[s]
      BY <2>1, <3>2 DEF BatchDone, Types
    <3> QED BY <1>1, <1>2, <3>3
  <2>2. CASE InitEnds \/ SuffixDone
    BY <1>1, <1>2, <2>2 DEF InitEnds, SuffixDone
  <2>3. CASE ReleaseDone
    <3>1. life'[s] = life[s] /\ base'[s] = base[s] /\ log'[s] = log[s]
      BY <2>3 DEF ReleaseDone, Types
    <3> QED BY <1>1, <1>2, <3>1
  <2>4. CASE LoadDone \/ CommitDone
    BY <1>1, <1>3, <2>4 DEF LoadDone, CommitDone
  <2> QED BY <1>5, <2>1, <2>2, <2>3, <2>4 DEF Settles
<1>6. CASE Aside
  <2>1. ASSUME NEW t \in Sessions, NEW open, AppendEvent(t, open) \/ Detach(t)
        PROVE  life'[s] = "retiring" /\ ~HasWork(s)'
    <3>1. t # s
      BY <1>4, <2>1 DEF AppendEvent, Detach
    <3> QED BY <1>2, <2>1, <3>1 DEF AppendEvent, Detach, Types
  <2>2. ASSUME NEW t \in Sessions, RetireFail(t)
        PROVE  life'[s] = "retiring" /\ ~HasWork(s)'
    <3>1. t # s
      BY <2>2 DEF RetireFail
    <3> QED BY <1>2, <2>2, <3>1 DEF RetireFail, Types
  <2> QED BY <1>1, <1>3, <1>6, <2>1, <2>2, AsideSessions
<1>7. ASSUME NEW t \in Sessions, NEW own, Create(t, own)
      PROVE  life'[s] = "retiring" /\ ~HasWork(s)'
  <2>1. t # s
    BY <1>7 DEF Create, Fresh
  <2> QED BY <1>2, <1>7, <2>1 DEF Create, Types
<1>8. ASSUME NEW t \in Sessions, StartWrite(t) \/ Retire(t)
      PROVE  UNCHANGED sessions
  BY <1>8 DEF StartWrite, Retire
<1>9. ASSUME NEW c \in Consumers, Reserve(c) \/ Resume(c) \/ AbortCommit(c)
      PROVE  UNCHANGED sessions
  BY <1>9 DEF Reserve, Resume, AbortCommit
<1>10. ASSUME NEW c \in Consumers, NEW t \in Sessions, NEW own, Publish(c, t, own)
       PROVE  life'[s] = "retiring" /\ ~HasWork(s)'
  <2>1. t # s
    BY <1>10 DEF Publish, Fresh
  <2> QED BY <1>2, <1>10, <2>1 DEF Publish, Types
<1> HIDE DEF Inv, TypeOK
<1>11. Binds => UNCHANGED sessions
  BY BindsEffect
<1> QED BY <1>1, <1>3, <1>5, <1>6, <1>7, <1>8, <1>9, <1>10, <1>11, StepKinds

LEMMA ReleaseStep ==
  ASSUME Inv, [Next]_vars
  PROVE  ReleaseInv'
<1> USE DEF Inv, TypeOK
<1>1. CASE Restart
  BY <1>1, RestartChain DEF ReleaseInv, Types
<1> SUFFICES ASSUME ~Restart
             PROVE  ReleaseInv'
  BY <1>1
<1>0. chain \in Seq(Op)
      /\ \A i \in DOMAIN chain : chain[i].do = "release" => chain[i].for \in Sessions
  BY DEF Types, OpsInv
<1>2. ASSUME NEW i \in DOMAIN chain, chain[i].do = "release", ~(ReleaseDone /\ Subject = chain[i].for)
      PROVE  /\ life'[chain[i].for] = "retiring" /\ init'[chain[i].for] = "ok"
             /\ ~(base'[chain[i].for] < Len(log'[chain[i].for]))
  <2>1. /\ life[chain[i].for] = "retiring" /\ init[chain[i].for] = "ok"
        /\ ~HasWork(chain[i].for) /\ chain[i].for \in Sessions
    BY <1>0, <1>2 DEF ReleaseInv
  <2> HIDE DEF Inv, TypeOK
  <2> QED BY <1>2, <2>1, ReleasingStays DEF HasWork
\* The chain loses an operation, or none.
<1>3. ASSUME NEW r, NEW up, NEW down, Thinned(r, up, down),
             ReleaseDone => r \in DOMAIN chain /\ chain[r].do = "release" /\ chain[r].for = Subject
      PROVE  ReleaseInv'
  <2>1. \A i \in DOMAIN chain' : up[i] \in DOMAIN chain \ {r} /\ chain'[i] = chain[up[i]]
    BY <1>3 DEF Thinned
  <2> SUFFICES ASSUME NEW i \in DOMAIN chain', chain'[i].do = "release"
               PROVE  /\ life'[chain'[i].for] = "retiring" /\ init'[chain'[i].for] = "ok"
                      /\ ~(base'[chain'[i].for] < Len(log'[chain'[i].for]))
                      /\ \A j \in DOMAIN chain' :
                           chain'[j].do = "release" /\ chain'[j].for = chain'[i].for => j = i
    BY DEF ReleaseInv, HasWork
  <2>2. up[i] \in DOMAIN chain \ {r} /\ chain'[i] = chain[up[i]]
    BY <2>1
  <2>3. ~(ReleaseDone /\ Subject = chain[up[i]].for)
    BY <1>3, <2>2 DEF ReleaseInv
  <2>4. /\ life'[chain[up[i]].for] = "retiring" /\ init'[chain[up[i]].for] = "ok"
        /\ ~(base'[chain[up[i]].for] < Len(log'[chain[up[i]].for]))
    BY <1>2, <2>2, <2>3 DEF HasWork
  <2>5. ASSUME NEW j \in DOMAIN chain', chain'[j].do = "release", chain'[j].for = chain'[i].for
        PROVE  j = i
    <3>1. up[j] = up[i]
      BY <2>1, <2>5 DEF ReleaseInv
    <3> QED BY <1>3, <3>1 DEF Thinned
  <2> QED BY <2>2, <2>4, <2>5 DEF HasWork
<1>4. ASSUME NEW do \in {"init", "suffix", "batch", "load", "commit"}, NEW for, NEW n,
             Grown(do, for, n), ~ReleaseDone
      PROVE  ReleaseInv'
  <2>0. PICK z : z = Len(chain) + 1
    OBVIOUS
  <2>1. /\ \A i \in DOMAIN chain : chain'[i] = chain[i]
        /\ chain'[z].do # "release" /\ DOMAIN chain' = DOMAIN chain \cup {z}
    BY <1>4, <2>0 DEF Grown
  <2>2. \A i \in DOMAIN chain' : chain'[i].do = "release" => i \in DOMAIN chain
    BY <2>1
  <2>3. \A i \in DOMAIN chain : chain[i].do = "release" =>
          \A j \in DOMAIN chain : chain[j].do = "release" /\ chain[j].for = chain[i].for => j = i
    BY DEF ReleaseInv
  <2> QED BY <1>2, <1>4, <2>1, <2>2, <2>3 DEF ReleaseInv, HasWork
<1>5. CASE Settles
  <2>1. chain # <<>> /\ chain' = Tail(chain)
    BY <1>5, ThinningStep
  <2>2. PICK up, down : Thinned(1, up, down)
    BY <1>0, <2>1, ThinnedTail
  <2>3. ReleaseDone => 1 \in DOMAIN chain /\ chain[1].do = "release" /\ chain[1].for = Subject
    BY <1>0, AtHead DEF ReleaseDone
  <2> QED BY <1>3, <2>2, <2>3
<1>6. CASE ~ReleaseDone /\ UNCHANGED chain
  <2>1. PICK up, down : Thinned(0, up, down)
    BY <1>0, <1>6, ThinnedSame
  <2> QED BY <1>3, <1>6, <2>1
<1>7. ASSUME NEW do, NEW for, NEW n, Grown(do, for, n)
      PROVE  ~ReleaseDone
  <2>1. ASSUME chain # <<>>, chain' = Tail(chain)
        PROVE  FALSE
    <3>1. DOMAIN chain' = 1 .. Len(chain) - 1 /\ Len(chain) \in Nat
      BY <1>0, <2>1, Drops
    <3>2. Len(chain) + 1 \in DOMAIN chain'
      BY <1>7 DEF Grown
    <3> QED BY <3>1, <3>2
  <2> QED BY <2>1 DEF ReleaseDone, Running
<1>8. ASSUME UNCHANGED chain
      PROVE  ~ReleaseDone
  <2>1. ASSUME chain # <<>>, chain' = Tail(chain)
        PROVE  FALSE
    <3>1. DOMAIN chain' = 1 .. Len(chain) - 1 /\ Len(chain) \in Nat \ {0}
          /\ DOMAIN chain = 1 .. Len(chain)
      BY <1>0, <2>1, Drops
    <3> QED BY <1>8, <3>1
  <2> QED BY <2>1 DEF ReleaseDone, Running
<1>9. CASE Aside
  BY <1>6, <1>8, <1>9, AsideChain
<1>10. ASSUME NEW s \in Sessions, NEW own \in {<<>>, <<By(s, FALSE)>>}, Create(s, own) \/ StartWrite(s)
       PROVE  ReleaseInv'
  BY <1>4, <1>7, <1>10, QueueBySession
<1>11. ASSUME NEW s \in Sessions, Retire(s)
       PROVE  ReleaseInv'
  <2>0. PICK z : z = Len(chain) + 1
    OBVIOUS
  <2>1. Grown("release", s, 0) /\ ~ReleaseDone
    BY <1>7, <1>11, QueueBySession
  <2>2. /\ \A i \in DOMAIN chain : chain'[i] = chain[i]
        /\ chain'[z] = [do |-> "release", for |-> s, upto |-> 0]
        /\ DOMAIN chain' = DOMAIN chain \cup {z}
    BY <2>0, <2>1 DEF Grown
  <2>3. /\ life'[s] = "retiring" /\ init'[s] = "ok" /\ ~HasWork(s)'
        /\ \A i \in DOMAIN chain : ~(chain[i].do = "release" /\ chain[i].for = s)
    BY <1>11 DEF Retire, Flushed, Pending, sessions, HasWork
  <2>4. \A i \in DOMAIN chain : chain[i].do = "release" =>
          \A j \in DOMAIN chain : chain[j].do = "release" /\ chain[j].for = chain[i].for => j = i
    BY DEF ReleaseInv
  <2> QED BY <1>2, <2>1, <2>2, <2>3, <2>4 DEF ReleaseInv, HasWork
<1>12. ASSUME NEW c \in Consumers, Reserve(c) \/ Resume(c)
       PROVE  ReleaseInv'
  BY <1>4, <1>6, <1>7, <1>8, <1>12, QueueByConsumer
<1>13. ASSUME NEW c \in Consumers, AbortCommit(c)
       PROVE  ReleaseInv'
  <2>1. PICK r \in DOMAIN chain : chain[r].do = "commit" /\ chain' = RemoveAt(chain, r)
    BY <1>13, ThinningStep
  <2>2. PICK up, down : Thinned(r, up, down)
    BY <1>0, <2>1, ThinnedRemove
  <2>3. ~ReleaseDone
    <3>1. consumer[c] # "done" /\ consumer'[c] = "done"
      BY <1>13, RemoveEffect DEF AbortCommit, Types
    <3> QED BY <3>1 DEF ReleaseDone, pool
  <2> QED BY <1>3, <2>2, <2>3
<1>14. ASSUME NEW c \in Consumers, NEW s \in Sessions, NEW own \in {<<>>, <<By(s, FALSE)>>},
              Publish(c, s, own)
       PROVE  ReleaseInv'
  BY <1>4, <1>6, <1>7, <1>8, <1>14, QueueByPublish
<1> HIDE DEF Inv, TypeOK
<1>15. CASE Binds
  <2>1. /\ UNCHANGED sessions /\ DOMAIN chain' = DOMAIN chain
        /\ \A i \in DOMAIN chain : chain'[i].do = "release" => chain'[i] = chain[i]
    BY <1>15, BindsEffect
  <2> QED BY <2>1 DEF Inv, ReleaseInv, HasWork, sessions
<1> QED BY <1>5, <1>9, <1>10, <1>11, <1>12, <1>13, <1>14, <1>15, StepKinds

\* A write that is queued stays queued until it settles.
LEMMA BatchStays ==
  ASSUME Inv, [Next]_vars, ~Restart, NEW s \in Sessions, Pending("batch", s),
         ~(BatchDone /\ Subject = s)
  PROVE  Pending("batch", s)'
<1> USE DEF Inv, TypeOK
<1>0. chain \in Seq(Op)
  BY DEF Types
<1>1. PICK k \in DOMAIN chain : chain[k].do = "batch" /\ chain[k].for = s
  BY DEF Pending
<1>2. ASSUME NEW r, NEW up, NEW down, Thinned(r, up, down), k # r
      PROVE  Pending("batch", s)'
  <2>1. down[k] \in DOMAIN chain' /\ chain'[down[k]] = chain[k]
    BY <1>2 DEF Thinned
  <2> QED BY <1>1, <2>1 DEF Pending
<1>3. ASSUME NEW do, NEW for, NEW n, Grown(do, for, n)
      PROVE  Pending("batch", s)'
  BY <1>1, <1>3 DEF Grown, Pending
<1>4. CASE UNCHANGED chain
  BY <1>4 DEF Pending
<1>5. CASE Settles
  <2>1. chain # <<>> /\ chain' = Tail(chain) /\ 1 \in DOMAIN chain /\ chain[1] = Head(chain)
    BY <1>0, <1>5, ThinningStep, Drops
  <2>2. PICK up, down : Thinned(1, up, down)
    BY <1>0, <2>1, ThinnedTail
  <2>3. k # 1
    BY <1>1, <1>5, <2>1 DEF Settles, InitEnds, SuffixDone, BatchDone, ReleaseDone, LoadDone,
                            CommitDone, Running, Subject
  <2> QED BY <1>2, <2>2, <2>3
<1>6. ASSUME NEW c \in Consumers, AbortCommit(c)
      PROVE  Pending("batch", s)'
  <2>1. PICK r \in DOMAIN chain : chain[r].do = "commit" /\ chain' = RemoveAt(chain, r)
    BY <1>6, ThinningStep
  <2>2. PICK up, down : Thinned(r, up, down)
    BY <1>0, <2>1, ThinnedRemove
  <2> QED BY <1>1, <1>2, <2>1, <2>2
<1> HIDE DEF Inv, TypeOK
<1>7. Types
  BY DEF Inv, TypeOK
<1>8. CASE Binds
  <2>1. chain[1].do = "init" /\ DOMAIN chain' = DOMAIN chain
        /\ \A i \in DOMAIN chain : i # 1 => chain'[i] = chain[i]
    BY <1>8, BindsEffect
  <2> QED BY <1>1, <2>1 DEF Pending
<1> QED BY <1>3, <1>4, <1>5, <1>6, <1>7, <1>8, StepKinds, AsideChain, QueueBySession, QueueByConsumer,
           QueueByPublish

\* What a step does to a session's life: nothing, it goes on after the store,
\* it leaves the store, another (or it) enters the store.
LifeKept(s) ==
  life'[s] = life[s] /\ store' \in {store, None} /\ (store = s => store' = s)
LifeAfter(s) ==
  /\ life[s] \notin {"new", "live"} /\ store # s /\ store' = store
  /\ life'[s] \in {"retiring", "failed", "gone"}
  /\ life'[s] # "gone" => life[s] \in {"retiring", "overlap"}
LifeLeaves(s) ==
  /\ store = s /\ store' = None
  /\ \/ life'[s] = "overlap" /\ Pending("batch", s)
     \/ life'[s] = "retiring"
LifeBegins(s) ==
  /\ store = None /\ store' \in Sessions /\ life[store'] = "new" /\ init'[store'] # "none"
  /\ s = store' => life'[s] = "live"
  /\ s # store' => life'[s] = life[s]

LEMMA LifeKinds ==
  ASSUME Inv, [Next]_vars, ~Restart, NEW s \in Sessions
  PROVE  LifeKept(s) \/ LifeAfter(s) \/ LifeLeaves(s) \/ LifeBegins(s)
<1> USE DEF Inv, TypeOK, Types
<1>0. None \notin Sessions /\ (store # None => life[store] = "live" /\ store \in Sessions)
  BY PersistenceAssumption DEF PersistenceAssumption, LifeInv
<1>1. ASSUME UNCHANGED <<life, store>>
      PROVE  LifeKept(s)
  BY <1>1 DEF LifeKept
<1>2. ASSUME UNCHANGED sessions
      PROVE  LifeKept(s)
  BY <1>1, <1>2 DEF sessions
<1>3. CASE BatchDone
  <2>1. /\ UNCHANGED store
        /\ \/ life' = [life EXCEPT ![Subject] = IF @ = "overlap" THEN "retiring" ELSE @]
           \/ life' = [life EXCEPT ![Subject] =
                CASE @ = "overlap" -> "retiring" [] @ = "retiring" -> "failed" [] OTHER -> @]
    BY <1>3 DEF BatchDone
  <2>2. CASE s = Subject /\ life[s] \in {"overlap", "retiring"}
    BY <1>0, <2>1, <2>2 DEF LifeKept, LifeAfter
  <2>3. CASE ~(s = Subject /\ life[s] \in {"overlap", "retiring"})
    BY <2>1, <2>3 DEF LifeKept
  <2> QED BY <2>2, <2>3
<1>4. CASE ReleaseDone
  <2>1. 1 \in DOMAIN chain /\ chain[1].do = "release" /\ chain[1].for = Subject
    BY <1>4, AtHead DEF ReleaseDone
  <2>2. life[Subject] = "retiring"
    BY <2>1 DEF ReleaseInv
  <2>3. UNCHANGED store /\ life' = [life EXCEPT ![Subject] = "gone"]
    BY <1>4 DEF ReleaseDone
  <2> QED BY <1>0, <2>2, <2>3 DEF LifeKept, LifeAfter
<1>5. CASE InitEnds \/ SuffixDone \/ LoadDone \/ CommitDone
  BY <1>1, <1>2, <1>5 DEF InitEnds, SuffixDone, LoadDone, CommitDone
<1>6. CASE Aside
  <2>1. ASSUME NEW t \in Sessions, NEW open, AppendEvent(t, open)
        PROVE  UNCHANGED <<life, store>>
    BY <2>1 DEF AppendEvent
  <2>2. ASSUME NEW t \in Sessions, Detach(t)
        PROVE  LifeLeaves(s) \/ LifeKept(s)
    BY <2>2 DEF Detach, LifeLeaves, LifeKept
  <2>3. ASSUME NEW t \in Sessions, RetireFail(t)
        PROVE  LifeAfter(s) \/ LifeKept(s)
    BY <1>0, <2>3 DEF RetireFail, LifeAfter, LifeKept
  <2> QED BY <1>1, <1>2, <1>6, <2>1, <2>2, <2>3, AsideSessions
<1>7. ASSUME NEW t \in Sessions, NEW own, Create(t, own)
      PROVE  store = None /\ store' = t /\ life[t] = "new" /\ init'[t] # "none"
             /\ life' = [life EXCEPT ![t] = "live"]
  BY <1>7 DEF Create, Fresh
<1>8. ASSUME NEW t \in Sessions, StartWrite(t) \/ Retire(t)
      PROVE  UNCHANGED sessions
  BY <1>8 DEF StartWrite, Retire
<1>9. ASSUME NEW c \in Consumers, Reserve(c) \/ Resume(c) \/ AbortCommit(c)
      PROVE  UNCHANGED sessions
  BY <1>9 DEF Reserve, Resume, AbortCommit
<1>10. ASSUME NEW c \in Consumers, NEW t \in Sessions, NEW own, Publish(c, t, own)
       PROVE  store = None /\ store' = t /\ life[t] = "new" /\ init'[t] # "none"
             /\ life' = [life EXCEPT ![t] = "live"]
  BY <1>10 DEF Publish, Fresh
<1>11. ASSUME NEW t \in Sessions, store = None, store' = t, life[t] = "new",
              life' = [life EXCEPT ![t] = "live"], init'[t] # "none"
       PROVE  LifeBegins(s)
  BY <1>11 DEF LifeBegins
<1> HIDE DEF Inv, TypeOK, Types
<1>12. Binds => UNCHANGED sessions
  BY BindsEffect
<1> QED BY <1>2, <1>3, <1>4, <1>5, <1>6, <1>7, <1>8, <1>9, <1>10, <1>11, <1>12, StepKinds
        DEF Settles

LEMMA LifeStep ==
  ASSUME Inv, [Next]_vars
  PROVE  LifeInv'
<1> USE DEF Inv, TypeOK
<1>0. None \notin Sessions /\ store \in Sessions \cup {None}
      /\ (store # None => life[store] = "live")
  BY PersistenceAssumption DEF PersistenceAssumption, LifeInv, Types
<1>1. CASE Restart
  <2>1. Crash => store' = None /\ \A s \in Sessions : life'[s] \notin Held
    BY <1>1, RestartLives DEF Crash
  <2>2. Reload => /\ store' = store /\ chain = <<>>
                  /\ init' = [s \in Sessions |-> IF s = store THEN "pending" ELSE "none"]
                  /\ life' = [s \in Sessions |->
                       IF life[s] \in {"retiring", "failed"} THEN "lost" ELSE life[s]]
    BY DEF Reload
  <2>3. chain = <<>> => \A s \in Sessions : ~Pending("batch", s)
    BY DEF Pending
  <2>4. ASSUME Reload, NEW s \in Sessions, life'[s] \in Held
        PROVE  life[s] = "live" /\ life'[s] = "live" /\ store = s
    <3>1. life'[s] = life[s] /\ life[s] \in {"live", "overlap"}
      BY <1>1, <2>4, RestartLives
    <3> QED BY <2>2, <2>3, <2>4, <3>1 DEF LifeInv
  <2>5. CASE Crash
    BY <2>1, <2>5 DEF LifeInv, Held
  <2>6. CASE Reload
    <3>1. store' # None => life'[store'] = "live"
      BY <1>0, <2>2, <2>6
    <3>2. \A s \in Sessions : life'[s] \in Held => life'[s] = "live" /\ store' = s /\ init'[s] = "pending"
      BY <2>2, <2>4, <2>6
    <3>3. \A s \in Sessions : life'[s] # "overlap"
      BY <3>2 DEF Held
    <3> QED BY <3>1, <3>2, <3>3 DEF LifeInv, Held
  <2> QED BY <1>1, <2>5, <2>6 DEF Restart
<1> SUFFICES ASSUME ~Restart
             PROVE  LifeInv'
  BY <1>1
<1>2. store' # None => store' \in Sessions /\ life'[store'] = "live"
  <2> SUFFICES ASSUME store' # None
               PROVE  store' \in Sessions /\ life'[store'] = "live"
    OBVIOUS
  <2>1. store' \in Sessions
    BY TypesStep DEF Types
  <2> PICK s \in Sessions : s = store'
    BY <2>1
  <2> HIDE DEF Inv, TypeOK
  <2> QED BY <1>0, LifeKinds DEF LifeKept, LifeAfter, LifeLeaves, LifeBegins
<1>3. ASSUME NEW s \in Sessions
      PROVE  /\ life'[s] = "live" => store' = s
             /\ life'[s] = "overlap" => Pending("batch", s)'
             /\ life'[s] \in Held => init'[s] # "none"
  <2>1. /\ life[s] = "live" => store = s
        /\ life[s] = "overlap" => Pending("batch", s)
        /\ life[s] \in Held => init[s] # "none"
    BY DEF LifeInv
  <2> HIDE DEF Inv, TypeOK
  <2>2. life'[s] = "live" => store' = s
    BY <1>0, <2>1, LifeKinds DEF LifeKept, LifeAfter, LifeLeaves, LifeBegins
  <2>3. ASSUME life'[s] = "overlap"
        PROVE  Pending("batch", s)'
    <3>1. Pending("batch", s)
      BY <2>1, <2>3, LifeKinds DEF LifeKept, LifeAfter, LifeLeaves, LifeBegins
    <3>2. CASE BatchDone /\ Subject = s
      BY <2>3, <3>2 DEF BatchDone, Inv, TypeOK, Types
    <3> QED BY <3>1, <3>2, BatchStays
  <2>4. ASSUME life'[s] \in Held
        PROVE  init'[s] # "none"
    <3>1. life[s] \in Held \/ init'[s] # "none"
      BY <1>0, <2>4, LifeKinds DEF LifeKept, LifeAfter, LifeLeaves, LifeBegins, Held
    <3>2. CASE life[s] \in Held
      BY <2>1, <3>2, InitMoves
    <3> QED BY <3>1, <3>2
  <2> QED BY <2>2, <2>3, <2>4
<1> QED BY <1>2, <1>3 DEF LifeInv

\* Whoever is open and lost the id had nothing to store.
LEMMA IdleStep ==
  ASSUME Inv, [Next]_vars
  PROVE  IdleInv'
<1> USE DEF Inv, TypeOK
<1>0. /\ None \notin Sessions /\ state \in State
      /\ init \in [Sessions -> {"none", "pending", "ok", "failed"}]
      /\ log \in [Sessions -> Seq(Event)]
  BY PersistenceAssumption DEF PersistenceAssumption, Types
<1>1. CASE Restart
  BY <1>1 DEF Restart, Crash, Reload, IdleInv
<1> SUFFICES ASSUME ~Restart, NEW s \in Sessions, init'[s] = "ok", life'[s] \in Held
             PROVE  state'.owner = s \/ (log'[s] = <<>> /\ store' # s)
  BY <1>1 DEF IdleInv
<1>2. ASSUME init[s] = "ok", life[s] \in Held, log'[s] = log[s], store # s => store' # s,
             state.owner = s => state'.owner = s
      PROVE  state'.owner = s \/ (log'[s] = <<>> /\ store' # s)
  BY <1>2 DEF IdleInv
<1>3. CASE UNCHANGED <<sessions, state>>
  BY <1>2, <1>3 DEF sessions
<1>4. CASE InitEnds
  <2>1. UNCHANGED <<store, log, life>> /\ Running("init")
    BY <1>4 DEF InitEnds
  <2>2. Subject \in Sessions
    <3>1. 1 \in DOMAIN chain /\ chain[1].do = "init" /\ chain[1].for = Subject
      BY <2>1, AtHead DEF Types
    <3> QED BY <3>1 DEF OpsInv
  <2>3. CASE s = Subject
    BY <1>0, <1>4, <2>2, <2>3 DEF InitEnds, InitOk, Claims, InitRejects, Owned
  <2>4. CASE s # Subject
    <3>1. init[s] = "ok"
      BY <1>0, <1>4, <2>2, <2>4 DEF InitEnds, InitOk, InitRejects
    <3>2. CASE state.owner = s /\ Abandoned
      BY <1>0, <2>1, <3>1, <3>2, AbandonedEffect
    <3>3. CASE state.owner = s /\ ~Abandoned
      <4>1. UNCHANGED state
        BY <1>0, <1>4, <3>3 DEF InitEnds, InitOk, Claims, InitRejects, Accepts, Claimable
      <4> QED BY <3>3, <4>1
    <3>4. CASE state.owner # s
      BY <1>2, <2>1, <3>1, <3>4
    <3> QED BY <3>2, <3>3, <3>4
  <2> QED BY <2>3, <2>4
<1>5. CASE SuffixDone
  <2>1. UNCHANGED <<store, log, life>> /\ Running("suffix")
    BY <1>5 DEF SuffixDone
  <2>2. Subject \in Sessions /\ state.owner = Subject
    BY <2>1, WriterOwns
  <2>3. CASE s = Subject
    <3>1. state'.owner = state.owner \/ init' = [init EXCEPT ![Subject] = "failed"]
      BY <1>0, <1>5 DEF SuffixDone, Appends, State
    <3> QED BY <1>0, <2>2, <2>3, <3>1
  <2>4. CASE s # Subject
    <3>1. init[s] = "ok"
      BY <1>0, <1>5, <2>2, <2>4 DEF SuffixDone
    <3> QED BY <1>2, <2>1, <2>2, <2>4, <3>1
  <2> QED BY <2>3, <2>4
<1>6. CASE BatchDone
  <2>1. UNCHANGED <<store, log, init>> /\ state'.owner = state.owner
    BY <1>0, <1>6 DEF BatchDone, Appends, AppendFails, State
  <2>2. life[s] \in Held
    BY <1>6 DEF BatchDone, Held, Types
  <2> QED BY <1>2, <2>1, <2>2
<1>7. CASE ReleaseDone
  <2>1. UNCHANGED <<store, log, init>> /\ life' = [life EXCEPT ![Subject] = "gone"]
        /\ state' = IF state.owner = Subject THEN NoState ELSE state
    BY <1>7 DEF ReleaseDone
  <2>2. s # Subject /\ life'[s] = life[s]
    BY <2>1 DEF Held, Types
  <2> QED BY <1>2, <2>1, <2>2
<1>8. CASE LoadDone
  BY <1>3, <1>8 DEF LoadDone
<1>9. CASE CommitDone
  <2>1. UNCHANGED sessions /\ (UNCHANGED state \/ state.owner = None)
    BY <1>9 DEF CommitDone, CommitRefused, CommitStale, CommitRepair, CommitReserved, CommitOusted,
                HasOwner
  <2> QED BY <1>0, <1>2, <2>1 DEF sessions
<1>10. CASE Aside
  <2>1. UNCHANGED state
    BY <1>10 DEF Aside, AppendEvent, Detach, RetireFail, Prepare, RefuseLive, AbortWait,
                 Release, Evict, External, AppendStarts, vars
  <2>2. ASSUME NEW t \in Sessions, NEW open, AppendEvent(t, open)
        PROVE  state'.owner = s \/ (log'[s] = <<>> /\ store' # s)
    <3>1. UNCHANGED <<store, life, init>> /\ store = t
          /\ log' = [log EXCEPT ![t] = Append(@, By(t, open))]
      BY <2>2 DEF AppendEvent
    <3>2. CASE s = t
      BY <2>1, <3>1, <3>2 DEF IdleInv
    <3>3. CASE s # t
      BY <1>0, <1>2, <2>1, <3>1, <3>3
    <3> QED BY <3>2, <3>3
  <2>3. ASSUME NEW t \in Sessions, Detach(t) \/ RetireFail(t)
        PROVE  state'.owner = s \/ (log'[s] = <<>> /\ store' # s)
    <3>1. UNCHANGED <<init, log>> /\ store' \in {store, None}
      BY <2>3 DEF Detach, RetireFail
    <3>2. life[s] \in Held
      <4>1. CASE s = t
        BY <1>0, <2>3, <4>1 DEF Detach, RetireFail, Held, LifeInv
      <4>2. CASE s # t
        BY <2>3, <4>2 DEF Detach, RetireFail, Types
      <4> QED BY <4>1, <4>2
    <3> QED BY <1>0, <1>2, <2>1, <3>1, <3>2
  <2> QED BY <1>3, <1>10, <2>1, <2>2, <2>3, AsideSessions
<1>11. ASSUME NEW t \in Sessions, NEW own, Create(t, own)
       PROVE  state'.owner = s \/ (log'[s] = <<>> /\ store' # s)
  <2>1. s # t
    BY <1>0, <1>11 DEF Create
  <2>2. init'[s] = init[s] /\ life'[s] = life[s] /\ log'[s] = log[s] /\ store' # s /\ UNCHANGED state
    BY <1>11, <2>1 DEF Create, Types
  <2> QED BY <1>2, <2>2
<1>12. ASSUME NEW t \in Sessions, StartWrite(t) \/ Retire(t)
       PROVE  UNCHANGED <<sessions, state>>
  BY <1>12 DEF StartWrite, Retire
<1>13. ASSUME NEW c \in Consumers, Reserve(c) \/ Resume(c) \/ AbortCommit(c)
       PROVE  UNCHANGED <<sessions, state>>
  BY <1>13 DEF Reserve, Resume, AbortCommit
<1>14. ASSUME NEW c \in Consumers, NEW t \in Sessions, NEW own, Publish(c, t, own)
       PROVE  state'.owner = s \/ (log'[s] = <<>> /\ store' # s)
  <2>1. state.owner = None
    BY <1>14 DEF Publish, HolderInv, ReservedInv
  <2>2. CASE s = t
    BY <1>0, <1>14, <2>2 DEF Publish, State
  <2>3. CASE s # t
    <3>1. init'[s] = init[s]
      BY <1>0, <1>14, <2>3 DEF Publish
    <3>2. life'[s] = life[s] /\ log'[s] = log[s] /\ store' # s
      BY <1>14, <2>3 DEF Publish, Types
    <3> QED BY <1>0, <1>2, <2>1, <3>1, <3>2
  <2> QED BY <2>2, <2>3
<1> HIDE DEF Inv, TypeOK
<1>15. CASE Binds
  <2>1. /\ UNCHANGED sessions /\ Running("init") /\ Claimable
        /\ 1 \in DOMAIN chain /\ chain[1].do = "init" /\ chain[1].for = Subject
    BY <1>15, BindsEffect DEF Binds
  <2>2. init[s] = "ok" /\ life[s] \in Held
    BY <2>1 DEF sessions
  <2>3. CASE state.owner = s
    BY <1>0, <2>1, <2>2, <2>3, AbandonedEffect DEF Claimable, sessions
  <2>4. CASE state.owner # s
    BY <1>2, <2>1, <2>2, <2>4 DEF sessions
  <2> QED BY <2>3, <2>4
<1> QED BY <1>3, <1>4, <1>5, <1>6, <1>7, <1>8, <1>9, <1>10, <1>11, <1>12, <1>13, <1>14, <1>15,
           StepKinds
        DEF Settles

\* What a step does to a session's log.
LogGrows(s)  == \E open \in BOOLEAN : AppendEvent(s, open)
LogBegins(s) ==
  /\ life'[s] = "live"
  /\ \E own \in {<<>>, <<By(s, FALSE)>>} : Create(s, own) \/ \E c \in Consumers : Publish(c, s, own)
LogEnds(s)   == log'[s] = <<>> /\ life'[s] = "lost"

LEMMA LogKinds ==
  ASSUME Inv, [Next]_vars, NEW s \in Sessions
  PROVE  log'[s] = log[s] \/ LogGrows(s) \/ LogBegins(s) \/ LogEnds(s)
<1> USE DEF Inv, TypeOK
<1>1. CASE UNCHANGED log
  BY <1>1
<1>2. CASE Settles
  BY <1>1, <1>2, ChainFrame
<1>3. CASE Restart
  BY <1>3, RestartLives DEF LogEnds
<1>4. CASE Aside
  <2>1. ASSUME NEW t \in Sessions, NEW open \in BOOLEAN, AppendEvent(t, open)
        PROVE  log'[s] = log[s] \/ LogGrows(s)
    BY <2>1 DEF AppendEvent, LogGrows, Types
  <2>2. ASSUME ~(\E t \in Sessions : \E open \in BOOLEAN : AppendEvent(t, open))
        PROVE  UNCHANGED log
    BY <1>4, <2>2, AsideSessions DEF Detach, RetireFail, sessions
  <2> QED BY <1>1, <2>1, <2>2
<1>5. ASSUME NEW t \in Sessions, NEW own \in {<<>>, <<By(t, FALSE)>>}, Create(t, own)
      PROVE  log'[s] = log[s] \/ LogBegins(s)
  <2>1. life' = [life EXCEPT ![t] = "live"] /\ log' = [log EXCEPT ![t] = own]
    BY <1>5 DEF Create
  <2> QED BY <1>5, <2>1 DEF LogBegins, Types
<1>6. ASSUME NEW t \in Sessions, StartWrite(t) \/ Retire(t)
      PROVE  UNCHANGED log
  BY <1>6 DEF StartWrite, Retire, sessions
<1>7. ASSUME NEW c \in Consumers, Reserve(c) \/ Resume(c) \/ AbortCommit(c)
      PROVE  UNCHANGED log
  BY <1>7 DEF Reserve, Resume, AbortCommit, sessions
<1>8. ASSUME NEW c \in Consumers, NEW t \in Sessions, NEW own \in {<<>>, <<By(t, FALSE)>>},
             Publish(c, t, own)
      PROVE  log'[s] = log[s] \/ LogBegins(s)
  <2>1. life' = [life EXCEPT ![t] = "live"] /\ log' = [log EXCEPT ![t] = entry.view \o own]
    BY <1>8 DEF Publish
  <2> QED BY <1>8, <2>1 DEF LogBegins, Types
<1> HIDE DEF Inv, TypeOK
<1>9. Binds => UNCHANGED log
  BY BindsEffect DEF sessions
<1> QED BY <1>1, <1>2, <1>3, <1>4, <1>5, <1>6, <1>7, <1>8, <1>9, StepKinds

LEMMA PrefixFirst ==
  ASSUME NEW S, NEW s \in Seq(S), NEW t \in Seq(S), IsPrefix(s, t), s # <<>>
  PROVE  t # <<>> /\ t[1] = s[1] /\ 1 \in 1 .. Len(s)
<1>1. Len(s) \in Nat \ {0}
  BY EmptySeq, LenProperties
<1>2. Len(s) <= Len(t) /\ \A i \in 1 .. Len(s) : s[i] = t[i]
  BY PrefixDef
<1>3. t # <<>>
  BY <1>1, <1>2, EmptySeq
<1> QED BY <1>1, <1>2, <1>3

\* A log begins with another process's event, or as some session's log does.
LEMMA FirstStored ==
  ASSUME Inv, [Next]_vars, disk = <<>>, disk' # <<>>
  PROVE  \/ disk'[1].by = "other"
         \/ \E t \in Sessions : log[t] # <<>> /\ disk'[1] = log[t][1]
<1> USE DEF Inv, TypeOK
<1>0. log \in [Sessions -> Seq(Event)] /\ disk' \in Seq(Event)
  BY DiskGrows DEF Types
<1>1. ~UNCHANGED disk
  OBVIOUS
<1>2. ASSUME NEW t \in Sessions, IsPrefix(disk', log[t])
      PROVE  log[t] # <<>> /\ disk'[1] = log[t][1]
  BY <1>0, <1>2, PrefixFirst
<1>3. CASE InitEnds
  BY <1>1, <1>3 DEF InitEnds, InitOk, Claims, InitRejects, stored
<1>4. CASE SuffixDone
  BY <1>1, <1>2, <1>4, AppendsEffect DEF SuffixDone, AppendFails, stored
<1>5. CASE BatchDone
  BY <1>1, <1>2, <1>5, AppendsEffect DEF BatchDone, AppendFails, stored
<1>6. CASE CommitDone
  <2>1. consumer[Subject] = "committing"
    BY <1>1, <1>6 DEF CommitDone, CommitOusted, stored
  <2>2. entry.phase = "committing"
    BY <1>6, <2>1, CommitHolder DEF CommitDone
  <2>3. ~Current
    BY <2>2 DEF Current, EntryInv
  <2> QED BY <1>1, <1>6, <2>3 DEF CommitDone, CommitRefused, CommitStale, CommitRepair,
                                  CommitReserved, CommitOusted, stored
<1>7. CASE ReleaseDone \/ LoadDone
  BY <1>1, <1>7 DEF ReleaseDone, LoadDone, stored
<1>8. CASE Aside
  <2>1. \E open \in BOOLEAN : External(open)
    BY <1>1, <1>8 DEF Aside, AppendEvent, Detach, RetireFail, Prepare, RefuseLive, AbortWait,
                      Release, Evict, AppendStarts, vars, stored
  <2>2. PICK open \in BOOLEAN : disk' = Append(disk, By("other", open))
    BY <2>1 DEF External
  <2>3. By("other", open) \in Event /\ By("other", open).by = "other"
    BY DEF By, Event
  <2>4. disk'[1] = By("other", open)
    BY <2>2, <2>3, Singleton
  <2> QED BY <2>3, <2>4
<1>9. CASE Restart
  BY <1>9, CrashEffect, RestEffect DEF Restart
<1>10. ASSUME NEW s \in Sessions, NEW own, Create(s, own) \/ StartWrite(s) \/ Retire(s)
      PROVE  UNCHANGED disk
  BY <1>10 DEF Create, StartWrite, Retire, stored
<1>11. ASSUME NEW c \in Consumers, Reserve(c) \/ Resume(c) \/ AbortCommit(c)
       PROVE  UNCHANGED disk
  BY <1>11 DEF Reserve, Resume, AbortCommit, stored
<1>12. ASSUME NEW c \in Consumers, NEW s \in Sessions, NEW own, Publish(c, s, own)
       PROVE  UNCHANGED disk
  BY <1>12 DEF Publish, stored
<1> HIDE DEF Inv, TypeOK
<1>13. ~Binds
  BY <1>1, BindsEffect
<1> QED BY <1>1, <1>3, <1>4, <1>5, <1>6, <1>7, <1>8, <1>9, <1>10, <1>11, <1>12, <1>13, StepKinds
        DEF Settles

\* A log that goes on begins as before; its first event is its session's own.
LEMMA FirstLogged ==
  ASSUME Inv, [Next]_vars, NEW t \in Sessions, log'[t] # <<>>
  PROVE  \/ log[t] # <<>> /\ log'[t][1] = log[t][1]
         \/ log'[t][1].by = t
         \/ life[t] = "new" /\ disk # <<>> /\ log'[t][1] = disk[1]
<1> USE DEF Inv, TypeOK
<1>0. log \in [Sessions -> Seq(Event)] /\ disk \in Seq(Event)
  BY DEF Types
<1>1. CASE log'[t] = log[t]
  BY <1>1
<1>2. CASE LogGrows(t)
  <2>1. PICK open \in BOOLEAN : log' = [log EXCEPT ![t] = Append(@, By(t, open))]
    BY <1>2 DEF LogGrows, AppendEvent
  <2>2. By(t, open) \in Event /\ By(t, open).by = t
    BY DEF By, Event
  <2>3. log'[t] = Append(log[t], By(t, open)) /\ IsPrefix(log[t], log'[t])
        /\ log'[t] \in Seq(Event)
    BY <1>0, <2>1, <2>2, PrefixAppend
  <2>4. CASE log[t] = <<>>
    <3>1. log'[t][1] = By(t, open)
      BY <2>2, <2>3, <2>4, Singleton
    <3> QED BY <2>2, <3>1
  <2>5. CASE log[t] # <<>>
    BY <1>0, <2>3, <2>5, PrefixFirst
  <2> QED BY <2>4, <2>5
<1>3. ASSUME NEW own \in {<<>>, <<By(t, FALSE)>>}, Create(t, own)
      PROVE  log'[t][1].by = t
  <2>1. log'[t] = own
    BY <1>0, <1>3 DEF Create
  <2> QED BY <2>1, OwnEvent
<1>4. ASSUME NEW own \in {<<>>, <<By(t, FALSE)>>}, NEW c \in Consumers, Publish(c, t, own)
      PROVE  life[t] = "new" /\ disk # <<>> /\ log'[t][1] = disk[1]
  <2>1. disk # <<>> /\ entry.view = disk /\ life[t] = "new"
    BY <1>4 DEF Publish, Fresh, HolderInv, ReservedInv
  <2>2. log'[t] = disk \o own /\ IsPrefix(disk, disk \o own) /\ disk \o own \in Seq(Event)
    BY <1>0, <1>4, <2>1, OwnEvent, PrefixConcat DEF Publish
  <2> QED BY <1>0, <2>1, <2>2, PrefixFirst
<1>5. CASE LogBegins(t)
  BY <1>3, <1>4, <1>5 DEF LogBegins
<1> HIDE DEF Inv, TypeOK
<1> QED BY <1>1, <1>2, <1>5, LogKinds DEF LogEnds

LEMMA FreshStep ==
  ASSUME Inv, [Next]_vars
  PROVE  FreshInv'
<1> SUFFICES ASSUME NEW s \in Sessions, life'[s] = "new"
             PROVE  /\ disk' # <<>> => disk'[1].by # s
                    /\ \A t \in Sessions : log'[t] # <<>> => log'[t][1].by # s
  BY DEF FreshInv
<1>1. life[s] = "new" /\ Types
  BY LifeMoves DEF Inv, TypeOK
<1>2. /\ disk # <<>> => disk[1].by # s
      /\ \A t \in Sessions : log[t] # <<>> => log[t][1].by # s
  BY <1>1 DEF Inv, FreshInv
<1>3. ASSUME disk' # <<>>
      PROVE  disk'[1].by # s
  <2>1. CASE disk = <<>>
    BY <1>2, <1>3, <2>1, FirstStored, PersistenceAssumption DEF PersistenceAssumption
  <2>2. CASE disk # <<>>
    <3>1. disk'[1] = disk[1]
      BY <1>1, <2>2, DiskGrows, PrefixFirst DEF Types
    <3> QED BY <1>2, <2>2, <3>1
  <2> QED BY <2>1, <2>2
<1>4. ASSUME NEW t \in Sessions, log'[t] # <<>>
      PROVE  log'[t][1].by # s
  <2>1. CASE log'[t][1].by = t
    <3>1. CASE log'[t] = log[t]
      BY <1>2, <1>4, <3>1
    <3>2. CASE LogGrows(t)
      <4>1. store = t /\ UNCHANGED life
        BY <3>2 DEF LogGrows, AppendEvent
      <4>2. life[t] = "live"
        BY <4>1, PersistenceAssumption DEF Inv, LifeInv, PersistenceAssumption
      <4> QED BY <1>1, <2>1, <4>2
    <3>3. CASE LogBegins(t) \/ LogEnds(t)
      BY <2>1, <3>3 DEF LogBegins, LogEnds
    <3> QED BY <3>1, <3>2, <3>3, LogKinds
  <2> QED BY <1>2, <1>4, <2>1, FirstLogged
<1> QED BY <1>3, <1>4

\* What makes the coordinator track a log that nobody owns.
LEMMA TrackMoves ==
  ASSUME Inv, [Next]_vars, state'.known, state'.owner = None
  PROVE  \/ state' = state
         \/ CommitDone /\ CommitReserved(Subject) /\ consumer[Subject] = "committing"
<1> USE DEF Inv, TypeOK
<1>0. None \notin Sessions /\ ~NoState.known /\ state \in State
  BY PersistenceAssumption DEF PersistenceAssumption, NoState, Types
<1>1. CASE UNCHANGED state
  BY <1>1
<1>2. CASE InitEnds
  <2>1. Subject \in Sessions
    <3>1. 1 \in DOMAIN chain /\ chain[1].do = "init" /\ chain[1].for = Subject
      BY <1>2, AtHead DEF InitEnds, Types
    <3> QED BY <3>1 DEF OpsInv
  <2> QED BY <1>0, <1>2, <2>1 DEF InitEnds, InitOk, Claims, InitRejects, Owned
<1>3. CASE SuffixDone \/ BatchDone
  <2>1. Subject \in Sessions /\ state.owner = Subject
    BY <1>3, WriterOwns DEF SuffixDone, BatchDone
  <2>2. state' = state \/ state'.owner = state.owner
    BY <1>0, <1>3 DEF SuffixDone, BatchDone, Appends, AppendFails, State
  <2> QED BY <1>0, <2>1, <2>2
<1>4. CASE ReleaseDone \/ LoadDone
  BY <1>0, <1>4 DEF ReleaseDone, LoadDone
<1>5. CASE CommitDone
  BY <1>5 DEF CommitDone, CommitRefused, CommitStale, CommitRepair, CommitOusted
<1>6. CASE Aside
  BY <1>6 DEF Aside, AppendEvent, Detach, RetireFail, Prepare, RefuseLive, AbortWait, Release,
              Evict, External, AppendStarts, vars
<1>7. CASE Restart
  BY <1>0, <1>7 DEF Restart, Crash, Reload
<1>8. ASSUME NEW s \in Sessions, NEW own, Create(s, own) \/ StartWrite(s) \/ Retire(s)
      PROVE  UNCHANGED state
  BY <1>8 DEF Create, StartWrite, Retire
<1>9. ASSUME NEW c \in Consumers, Reserve(c) \/ Resume(c) \/ AbortCommit(c)
      PROVE  UNCHANGED state
  BY <1>9 DEF Reserve, Resume, AbortCommit
<1>10. ASSUME NEW c \in Consumers, NEW s \in Sessions, NEW own, Publish(c, s, own)
       PROVE  FALSE
  BY <1>0, <1>10 DEF Publish, State
<1> HIDE DEF Inv, TypeOK
<1>11. CASE Binds
  <2>1. state'.owner = Subject /\ Subject \in Sessions
    BY <1>11, BindsEffect DEF Owned
  <2> QED BY <1>0, <2>1
<1> QED BY <1>1, <1>2, <1>3, <1>4, <1>5, <1>6, <1>7, <1>8, <1>9, <1>10, <1>11, StepKinds
        DEF Settles

\* Who is still to open was waiting before, or has just been created.
LEMMA InitQueued ==
  ASSUME Inv, [Next]_vars, ~Restart, NEW i \in DOMAIN chain', chain'[i].do = "init"
  PROVE  \/ \E k \in DOMAIN chain : chain'[i] = chain[k]
         \/ \E s \in Sessions : \E own \in {<<>>, <<By(s, FALSE)>>} :
              Create(s, own) /\ chain'[i].for = s
<1>0. Types /\ chain \in Seq(Op)
  BY DEF Inv, TypeOK, Types
<1>1. ASSUME NEW r, NEW up, NEW down, Thinned(r, up, down)
      PROVE  \E k \in DOMAIN chain : chain'[i] = chain[k]
  BY <1>1 DEF Thinned
<1>2. ASSUME NEW do, NEW for, NEW n, Grown(do, for, n)
      PROVE  do = "init" \/ \E k \in DOMAIN chain : chain'[i] = chain[k]
  BY <1>2 DEF Grown
<1>3. CASE UNCHANGED chain
  BY <1>3
<1>4. CASE Settles
  <2>1. chain # <<>> /\ chain' = Tail(chain)
    BY <1>0, <1>4, ThinningStep
  <2> QED BY <1>0, <1>1, <2>1, ThinnedTail
<1>5. ASSUME NEW c \in Consumers, AbortCommit(c)
      PROVE  \E k \in DOMAIN chain : chain'[i] = chain[k]
  <2>1. PICK r \in DOMAIN chain : chain' = RemoveAt(chain, r)
    BY <1>0, <1>5, ThinningStep
  <2> QED BY <1>0, <1>1, <2>1, ThinnedRemove
<1>6. ASSUME NEW s \in Sessions, NEW own \in {<<>>, <<By(s, FALSE)>>}, Create(s, own)
      PROVE  \/ \E k \in DOMAIN chain : chain'[i] = chain[k]
             \/ Create(s, own) /\ chain'[i].for = s
  <2>1. Grown("init", s, Len(own))
    BY <1>0, <1>6, QueueBySession
  <2> QED BY <1>6, <2>1 DEF Grown
<1>7. ASSUME NEW s \in Sessions, StartWrite(s) \/ Retire(s)
      PROVE  \E k \in DOMAIN chain : chain'[i] = chain[k]
  <2>1. Grown("batch", s, Len(log[s])) \/ Grown("release", s, 0)
    BY <1>0, <1>7, QueueBySession
  <2> QED BY <1>2, <2>1
<1>8. ASSUME NEW c \in Consumers, Reserve(c) \/ Resume(c)
      PROVE  \E k \in DOMAIN chain : chain'[i] = chain[k]
  <2>1. UNCHANGED chain \/ Grown("load", None, 0) \/ Grown("commit", c, 0)
    BY <1>0, <1>8, QueueByConsumer
  <2> QED BY <1>2, <1>3, <2>1
<1>9. ASSUME NEW c \in Consumers, NEW s \in Sessions, NEW own \in {<<>>, <<By(s, FALSE)>>},
             Publish(c, s, own)
      PROVE  \E k \in DOMAIN chain : chain'[i] = chain[k]
  <2>1. UNCHANGED chain \/ Grown("suffix", s, Len(entry.view \o own))
    BY <1>0, <1>9, QueueByPublish
  <2> QED BY <1>2, <1>3, <2>1
<1>10. CASE Binds
  <2>1. DOMAIN chain' = DOMAIN chain /\ i # 1 /\ \A k \in DOMAIN chain : k # 1 => chain'[k] = chain[k]
    BY <1>10, BindsEffect
  <2> QED BY <2>1
<1> QED BY <1>3, <1>4, <1>5, <1>6, <1>7, <1>8, <1>9, <1>10, AsideChain, StepKinds

LEMMA ForeignStep ==
  ASSUME Inv, [Next]_vars
  PROVE  ForeignInv'
<1> USE DEF Inv, TypeOK
<1> SUFFICES ASSUME NEW i \in DOMAIN chain', chain'[i].do = "init",
                    state'.known, state'.owner = None
             PROVE  /\ disk' # <<>> /\ disk'[1].by # chain'[i].for
                    /\ log'[chain'[i].for] # <<>> => log'[chain'[i].for][1].by = chain'[i].for
  BY DEF ForeignInv
<1>0. disk \in Seq(Event) /\ log \in [Sessions -> Seq(Event)] /\ chain \in Seq(Op)
  BY DEF Types
<1>1. CASE CommitDone /\ CommitReserved(Subject) /\ consumer[Subject] = "committing"
  <2>1. \A k \in DOMAIN chain : chain[k].do # "init"
    <3>1. entry.phase = "committing"
      BY <1>1, CommitHolder DEF CommitDone
    <3> QED BY <3>1 DEF LoadInv, Opens
  <2>2. chain # <<>> /\ chain' = Tail(chain)
    BY <1>1, ThinningStep DEF Settles
  <2>3. PICK up, down : Thinned(1, up, down)
    BY <1>0, <2>2, ThinnedTail
  <2> QED BY <2>1, <2>3 DEF Thinned
<1>2. CASE state' = state
  <2>0. ~Restart
    <3>1. Restart => state' = NoState
      BY DEF Restart, Crash, Reload
    <3>2. ~NoState.known
      BY DEF NoState
    <3> QED BY <3>1, <3>2
  <2>1. disk # <<>>
    BY <1>0, <1>2, EmptySeq DEF OwnerInv, TrackInv
  <2>2. disk' # <<>> /\ disk'[1] = disk[1]
    BY <1>0, <2>1, DiskGrows, PrefixFirst
  <2>3. ASSUME NEW k \in DOMAIN chain, chain'[i] = chain[k]
        PROVE  /\ disk[1].by # chain'[i].for
               /\ log'[chain'[i].for] # <<>> => log'[chain'[i].for][1].by = chain'[i].for
    <3>1. PICK t \in Sessions : t = chain'[i].for /\ life[t] # "new"
      BY <2>3 DEF OpsInv
    <3>2. disk[1].by # t /\ (log[t] # <<>> => log[t][1].by = t)
      BY <1>2, <2>3, <3>1 DEF ForeignInv
    <3> HIDE DEF Inv, TypeOK
    <3>3. log'[t] # <<>> => log'[t][1].by = t
      BY <3>1, <3>2, FirstLogged
    <3> QED BY <3>1, <3>2, <3>3
  <2>4. ASSUME NEW s \in Sessions, NEW own \in {<<>>, <<By(s, FALSE)>>}, Create(s, own),
               chain'[i].for = s
        PROVE  /\ disk[1].by # chain'[i].for
               /\ log'[chain'[i].for] # <<>> => log'[chain'[i].for][1].by = chain'[i].for
    <3>1. life[s] = "new" /\ log'[s] = own
      BY <1>0, <2>4 DEF Create, Fresh
    <3>2. disk[1].by # s
      BY <2>1, <3>1 DEF FreshInv
    <3>3. own # <<>> => own[1].by = s
      BY OwnEvent
    <3> QED BY <2>4, <3>1, <3>2, <3>3
  <2> HIDE DEF Inv, TypeOK
  <2> QED BY <2>0, <2>2, <2>3, <2>4, InitQueued
<1> HIDE DEF Inv, TypeOK
<1> QED BY <1>1, <1>2, TrackMoves

\* A session is gone when its release has settled.
LEMMA GoneMoves ==
  ASSUME Inv, [Next]_vars, ~Restart, NEW s \in Sessions, life'[s] = "gone", life[s] # "gone"
  PROVE  ReleaseDone /\ Subject = s
<1> USE DEF Inv, TypeOK
<1>1. CASE UNCHANGED life
  BY <1>1
<1>2. CASE BatchDone
  BY <1>2 DEF BatchDone, Types
<1>3. CASE ReleaseDone
  BY <1>3 DEF ReleaseDone, Types
<1>4. CASE InitEnds \/ SuffixDone \/ LoadDone \/ CommitDone
  BY <1>1, <1>4 DEF InitEnds, SuffixDone, LoadDone, CommitDone, sessions
<1>5. CASE Aside
  <2>1. ASSUME NEW t \in Sessions, NEW open, AppendEvent(t, open) \/ Detach(t) \/ RetireFail(t)
        PROVE  FALSE
    BY <2>1 DEF AppendEvent, Detach, RetireFail, Types
  <2> QED BY <1>1, <1>5, <2>1, AsideSessions DEF sessions
<1>6. ASSUME NEW t \in Sessions, NEW own, Create(t, own)
      PROVE  FALSE
  BY <1>6 DEF Create, Types
<1>7. ASSUME NEW t \in Sessions, StartWrite(t) \/ Retire(t)
      PROVE  UNCHANGED life
  BY <1>7 DEF StartWrite, Retire, sessions
<1>8. ASSUME NEW c \in Consumers, Reserve(c) \/ Resume(c) \/ AbortCommit(c)
      PROVE  UNCHANGED life
  BY <1>8 DEF Reserve, Resume, AbortCommit, sessions
<1>9. ASSUME NEW c \in Consumers, NEW t \in Sessions, NEW own, Publish(c, t, own)
      PROVE  FALSE
  BY <1>9 DEF Publish, Types
<1> HIDE DEF Inv, TypeOK
<1>10. Binds => UNCHANGED life
  BY DEF Binds
<1> QED BY <1>1, <1>2, <1>3, <1>4, <1>5, <1>6, <1>7, <1>8, <1>9, <1>10, StepKinds DEF Settles

\* Who is released has everything stored, and what is stored stays.
LEMMA RetiredStep ==
  ASSUME Inv, [Next]_vars
  PROVE  RetiredIsDurable'
<1> USE DEF Inv, TypeOK
<1> SUFFICES ASSUME NEW s \in Sessions, life'[s] = "gone"
             PROVE  IsPrefix(log'[s], disk')
  BY DEF RetiredIsDurable
<1>0. /\ disk \in Seq(Event) /\ log \in [Sessions -> Seq(Event)]
      /\ disk' \in Seq(Event) /\ IsPrefix(disk, disk')
      /\ None \notin Sessions
  BY DiskGrows, PersistenceAssumption DEF Types, PersistenceAssumption
<1>1. log'[s] = log[s]
  <2>1. ~LogGrows(s)
    BY <1>0 DEF LogGrows, AppendEvent, LifeInv
  <2> HIDE DEF Inv, TypeOK
  <2> QED BY <2>1, LogKinds DEF LogBegins, LogEnds
<1>2. IsPrefix(log[s], disk)
  <2>1. CASE life[s] = "gone"
    BY <2>1 DEF RetiredIsDurable
  <2>2. CASE ReleaseDone /\ Subject = s
    <3>1. 1 \in DOMAIN chain /\ chain[1].do = "release" /\ chain[1].for = s
      BY <2>2, AtHead DEF ReleaseDone, Types
    <3>2. life[s] = "retiring" /\ init[s] = "ok" /\ ~HasWork(s)
      BY <3>1 DEF ReleaseInv
    <3>3. CASE state.owner = s
      <4>1. IsPrefix(disk, log[s]) /\ base[s] = Len(disk)
        BY <1>0, <3>2, <3>3 DEF OwnerInv, TrackInv
      <4>2. Len(log[s]) <= Len(disk)
        BY <1>0, <3>2, <4>1, LenProperties DEF HasWork
      <4>3. Len(disk) <= Len(log[s]) /\ \A i \in 1 .. Len(disk) : disk[i] = log[s][i]
        BY <1>0, <4>1, PrefixDef
      <4>4. Len(log[s]) \in Nat /\ Len(disk) \in Nat
        BY <1>0, LenProperties
      <4>5. \A i \in 1 .. Len(log[s]) : log[s][i] = disk[i]
        BY <4>2, <4>3, <4>4
      <4> QED BY <1>0, <4>2, <4>5, PrefixDef
    <3>4. CASE state.owner # s
      <4>1. log[s] = <<>>
        BY <3>2, <3>4 DEF IdleInv, Held
      <4>2. Len(log[s]) = 0
        BY <4>1
      <4> QED BY <1>0, <4>2, PrefixDef
    <3> QED BY <3>3, <3>4
  <2>3. CASE Restart
    BY <2>1, <2>3, RestartLives
  <2>4. CASE ~Restart /\ life[s] # "gone"
    <3>1. life'[s] = "gone" /\ life[s] # "gone" => ReleaseDone /\ Subject = s
      <4> HIDE DEF Inv, TypeOK
      <4> QED BY <2>4, GoneMoves
    <3> QED BY <2>2, <2>4, <3>1
  <2> QED BY <2>1, <2>3, <2>4
<1>3. IsPrefix(log[s], disk')
  BY <1>0, <1>2, PrefixTrans
<1> QED BY <1>1, <1>3

\* Nothing settles and no log is reserved while an append is under way.
LEMMA WritingStep ==
  ASSUME Inv, [Next]_vars
  PROVE  WritingInv'
<1> USE DEF Inv, TypeOK
<1> SUFFICES ASSUME writing'
             PROVE  (Running("suffix")' \/ Running("batch")') /\ entry'.phase # "reserved"
  BY DEF WritingInv
<1>0. chain \in Seq(Op) /\ chain' \in Seq(Op)
  BY TypesStep DEF Types
<1>1. CASE AppendStarts
  BY <1>1 DEF AppendStarts, Writable, Running, pool
<1> SUFFICES ASSUME ~AppendStarts
             PROVE  (Running("suffix")' \/ Running("batch")') /\ entry'.phase # "reserved"
  BY <1>1
<1>2. writing
  <2>1. Settles \/ Binds \/ Restart => writing' = writing \/ ~writing'
    BY DEF Settles, InitEnds, Binds, SuffixDone, BatchDone, ReleaseDone, LoadDone, CommitDone,
           Restart, Crash, Reload
  <2>2. Aside => UNCHANGED writing
    BY DEF Aside, AppendEvent, Detach, RetireFail, Prepare, RefuseLive, AbortWait, Release,
           Evict, External, vars
  <2>3. ASSUME NEW s \in Sessions, NEW own, Create(s, own) \/ StartWrite(s) \/ Retire(s)
        PROVE  UNCHANGED writing
    BY <2>3 DEF Create, StartWrite, Retire
  <2>4. ASSUME NEW c \in Consumers, Reserve(c) \/ Resume(c) \/ AbortCommit(c)
        PROVE  UNCHANGED writing
    BY <2>4 DEF Reserve, Resume, AbortCommit
  <2>5. ASSUME NEW c \in Consumers, NEW s \in Sessions, NEW own, Publish(c, s, own)
        PROVE  UNCHANGED writing
    BY <2>5 DEF Publish
  <2> HIDE DEF Inv, TypeOK
  <2> QED BY <2>1, <2>2, <2>3, <2>4, <2>5, StepKinds
<1>3. /\ 1 \in DOMAIN chain /\ chain[1] = Head(chain) /\ chain[1].do \in {"suffix", "batch"}
      /\ chain # <<>> /\ entry.phase # "reserved"
  BY <1>0, <1>2, AtHead DEF WritingInv
<1>4. ~Settles /\ ~Binds /\ ~Restart /\ ~CommitDone /\ ~LoadDone
  BY <1>3 DEF Settles, InitEnds, Binds, SuffixDone, BatchDone, ReleaseDone, LoadDone, CommitDone,
              Running, Restart, Crash, Reload
<1>5. ASSUME 1 \in DOMAIN chain', chain'[1] = chain[1]
      PROVE  Running("suffix")' \/ Running("batch")'
  <2>1. chain' # <<>> /\ Head(chain') = chain'[1]
    BY <1>0, <1>5, HeadTailProperties, EmptySeq
  <2> QED BY <1>3, <1>5, <2>1 DEF Running
<1>6. ASSUME NEW do, NEW for, NEW n, Grown(do, for, n)
      PROVE  1 \in DOMAIN chain' /\ chain'[1] = chain[1]
  BY <1>3, <1>6 DEF Grown
<1>7. ASSUME UNCHANGED chain
      PROVE  1 \in DOMAIN chain' /\ chain'[1] = chain[1]
  BY <1>3, <1>7
<1>8. ASSUME NEW c \in Consumers, AbortCommit(c)
      PROVE  1 \in DOMAIN chain' /\ chain'[1] = chain[1]
  <2>1. PICK r \in DOMAIN chain : chain[r].do = "commit" /\ chain' = RemoveAt(chain, r)
    BY <1>8, ThinningStep
  <2>2. /\ DOMAIN chain = 1 .. Len(chain) /\ Len(chain) \in Nat
        /\ DOMAIN chain' = 1 .. Len(chain) - 1
        /\ \A i \in DOMAIN chain' : chain'[i] = chain[IF i < r THEN i ELSE i + 1]
    BY <1>0, <2>1, Removes
  <2>3. 1 < r /\ 1 \in DOMAIN chain'
    BY <1>3, <2>1, <2>2
  <2> QED BY <2>2, <2>3
<1>9. Types
  BY DEF Inv, TypeOK
<1> HIDE DEF Inv, TypeOK
<1>10. 1 \in DOMAIN chain' /\ chain'[1] = chain[1]
  BY <1>4, <1>6, <1>7, <1>8, <1>9, StepKinds, AsideChain, QueueBySession, QueueByConsumer,
     QueueByPublish
<1>11. entry'.phase # "reserved"
  <2>1. entry \in Entry
    BY <1>9 DEF Types
  <2>2. /\ [entry EXCEPT !.phase = "ready"].phase = "ready"
        /\ [entry EXCEPT !.phase = "committing"].phase = "committing"
    BY <2>1 DEF Entry
  <2>3. \/ entry' = entry \/ entry'.phase = "none" \/ entry'.phase = "loading"
        \/ entry' = [entry EXCEPT !.phase = "ready"]
        \/ entry' = [entry EXCEPT !.phase = "committing"]
    BY <1>4, EntryMoves
  <2> QED BY <1>3, <2>2, <2>3
<1> QED BY <1>5, <1>10, <1>11

-----------------------------------------------------------------------------
(* The theorems *)

LEMMA InitOK == Init => Inv
<1> SUFFICES ASSUME Init PROVE Inv
  OBVIOUS
<1> USE DEF Init
<1>1. /\ <<>> \in Seq(Event) /\ <<>> \in Seq(Op) /\ DOMAIN chain = {} /\ Len(<<>>) = 0
      /\ \A s \in Sessions : log[s] = <<>> /\ life[s] = "new"
  BY EmptySeq
<1>2. NoState \in State /\ NoState.owner = None /\ ~NoState.known
  BY DEF NoState, State
<1>3. Types
  <2>0. crashes \in 0 .. MaxCrashes
    BY PersistenceAssumption DEF PersistenceAssumption
  <2>1. /\ disk \in Seq(Event) /\ torn \in BOOLEAN
        /\ store \in Sessions \cup {None} /\ retiring \in Sessions \cup {None}
        /\ chain \in Seq(Op)
    BY <1>1
  <2>2. log \in [Sessions -> Seq(Event)] /\ base \in [Sessions -> Nat]
        /\ \A s \in Sessions : base[s] <= Len(log[s])
    BY <1>1
  <2>3. /\ life \in [Sessions ->
             {"new", "live", "overlap", "retiring", "failed", "gone", "lost"}]
        /\ init \in [Sessions -> {"none", "pending", "ok", "failed"}]
        /\ consumer \in [Consumers -> Place]
        /\ awaits \in [Consumers -> Sessions \cup {None}]
    BY DEF Place
  <2> QED BY <1>2, <2>0, <2>1, <2>2, <2>3, NoEntryType DEF Types
<1>4. EntryInv /\ HolderInv /\ ReservedInv /\ LoadInv
  <2>1. Holders = {}
    BY DEF Holders
  <2>2. entry.phase = "none"
    BY NoEntryType
  <2> QED BY <2>1, <2>2 DEF EntryInv, HolderInv, ReservedInv, LoadInv
<1>5. OneWrite /\ OpsInv /\ ReleaseInv /\ ForeignInv
  BY <1>1 DEF OneWrite, OpsInv, ReleaseInv, ForeignInv
<1>6. OpenInv
  BY <1>1 DEF OpenInv
<1>7. OwnerInv
  BY <1>1, <1>2 DEF OwnerInv, TrackInv, WriterInv
<1>8. LifeInv /\ IdleInv
  BY <1>1, PersistenceAssumption DEF LifeInv, IdleInv, Held, PersistenceAssumption
<1>9. FreshInv /\ RetiredIsDurable /\ WritingInv
  BY <1>1 DEF FreshInv, RetiredIsDurable, WritingInv
<1> QED BY <1>3, <1>4, <1>5, <1>6, <1>7, <1>8, <1>9 DEF Inv, TypeOK

LEMMA InvStep ==
  ASSUME Inv, [Next]_vars
  PROVE  Inv'
<1>1. TypeOK' /\ EntryInv' /\ HolderInv' /\ ReservedInv'
  BY TypesStep, OneWriteStep, EntryStep, HolderStep, ReservedStep DEF TypeOK
<1>2. OpsInv' /\ OpenInv' /\ LoadInv' /\ OwnerInv'
  BY OpsStep, OpenStep, LoadStep, TrackStep, WriterStep DEF OwnerInv
<1>3. ReleaseInv' /\ LifeInv' /\ IdleInv' /\ FreshInv' /\ ForeignInv' /\ RetiredIsDurable'
  BY ReleaseStep, LifeStep, IdleStep, FreshStep, ForeignStep, RetiredStep
<1>4. WritingInv'
  BY WritingStep
<1> QED BY <1>1, <1>2, <1>3, <1>4 DEF Inv

\* The inductive invariant holds in every behaviour.
THEOREM Invariant == SafetySpec => []Inv
<1>1. Inv /\ [Next]_vars => Inv'
  BY InvStep
<1> QED BY InitOK, <1>1, PTL DEF SafetySpec

\* Types, and a session has at most one write queued, of events it buffers
\* (startWrite waits for the active write).
THEOREM TypeCorrect == SafetySpec => []TypeOK
<1>1. Inv => TypeOK
  BY DEF Inv
<1> QED BY <1>1, Invariant, PTL

\* A preparation has at most one holder, also when an append that was let through
\* before removes it under a commit (appendCore, SessionPreparations.reserve); and
\* what is reserved is nobody's, has no append under way and is the stored log:
\* attachPrepared's checks never fail.
THEOREM Exclusive == SafetySpec => []ExclusiveReservation
<1>1. Inv => ExclusiveReservation
  <2> SUFFICES ASSUME Inv PROVE ExclusiveReservation
    OBVIOUS
  <2>1. CASE entry.phase \in {"committing", "reserved"}
    <3>1. PICK c : c \in Holders
      BY <2>1 DEF Inv, HolderInv
    <3>2. Holders = {c}
      BY <3>1 DEF Inv, HolderInv
    <3>3. Cardinality(Holders) = 1
      BY <3>2, FS_Singleton
    <3>4. writing => entry.phase # "reserved"
      BY DEF Inv, WritingInv
    <3> QED BY <2>1, <3>3, <3>4 DEF Inv, ReservedInv, ExclusiveReservation, Holders
  <2>2. CASE entry.phase \notin {"committing", "reserved"}
    <3>1. Holders = {}
      BY <2>2 DEF Inv, HolderInv, Holders
    <3>2. Cardinality(Holders) = 0
      BY <3>1, FS_EmptySet
    <3> QED BY <2>2, <3>2 DEF ExclusiveReservation, Holders
  <2> QED BY <2>1, <2>2
<1> QED BY <1>1, Invariant, PTL

\* The stored log of an owner is a clean prefix of its own, up to the cursor and
\* without a gap before its buffer (appendCore, publishPrepared, onCreated).
THEOREM OwnerHasPrefix == SafetySpec => []OwnedPrefix
<1>1. Inv => OwnedPrefix
  <2> SUFFICES ASSUME Inv PROVE OwnedPrefix
    OBVIOUS
  <2>1. ASSUME state.owner # None, init[state.owner] = "ok"
        PROVE  base[state.owner] <= state.cursor
    <3>1. base[state.owner] = state.cursor
      BY <2>1 DEF Inv, OwnerInv, TrackInv
    <3>2. state.cursor \in Nat
      BY DEF Inv, TypeOK, Types, State
    <3> QED BY <3>1, <3>2
  <2> QED BY <2>1 DEF Inv, OwnerInv, TrackInv, WriterInv, OwnedPrefix
<1> QED BY <1>1, Invariant, PTL

\* A session whose id was released is stored to its last event for good
\* (retireCore flushes before releaseCore; the log only grows).
THEOREM Durable == SafetySpec => []RetiredIsDurable
<1>1. Inv => RetiredIsDurable
  BY DEF Inv
<1> QED BY <1>1, Invariant, PTL

Repaired ==
  disk' # disk /\ Last(disk').by = "repair" /\ Len(disk') = Len(disk) + 1 /\ Running("commit")
Abandon ==
  \A s \in Sessions : life[s] \in Held => init[s] = "failed" \/ log[s] = <<>>

\* What repairs the stored log is the commit of a holder that finds no owner.
LEMMA RepairUnowned ==
  ASSUME Inv, Next, Repaired
  PROVE  state.owner = None /\ consumer[Subject] = "committing"
<1>0. disk \in Seq(Event)
  BY DEF Inv, TypeOK, Types
<1>1. CASE CommitDone
  BY <1>1 DEF CommitDone, CommitRefused, CommitStale, CommitRepair, CommitReserved, CommitOusted,
              HasOwner, Repaired, stored
<1>2. CASE Settles /\ ~CommitDone
  BY <1>2 DEF Settles, ReleaseDone, InitEnds, SuffixDone, BatchDone, LoadDone, Running, Repaired
<1>3. ASSUME NEW open \in BOOLEAN, External(open)
      PROVE  FALSE
  <2>1. By("other", open) \in Event /\ By("other", open).by = "other"
    BY DEF By, Event
  <2>2. disk' = Append(disk, By("other", open))
    BY <1>3 DEF External
  <2>3. Last(disk') = By("other", open)
    BY <1>0, <2>1, <2>2 DEF Last
  <2> QED BY <2>1, <2>3 DEF Repaired
<1>4. CASE Aside /\ ~(\E open \in BOOLEAN : External(open))
  BY <1>4 DEF Aside, AppendEvent, Detach, RetireFail, Prepare, RefuseLive, AbortWait, Release,
              Evict, AppendStarts, vars, stored, Repaired
<1>5. CASE Crash
  <2>1. PICK k \in 0 .. Len(Writes) : disk' = disk \o SubSeq(Writes, 1, k)
    BY <1>5 DEF Crash
  <2>2. Writes # <<>>
    <3>1. ASSUME Writes = <<>> PROVE FALSE
      <4>1. Len(Writes) = 0 /\ SubSeq(Writes, 1, k) = <<>>
        BY <2>1, <3>1, EmptySeq
      <4>2. disk' = disk
        BY <1>0, <2>1, <4>1, ConcatEmptySeq
      <4> QED BY <4>2 DEF Repaired
    <3> QED BY <3>1
  <2>3. ~writing
    BY DEF Inv, WritingInv, Repaired, Running
  <2> QED BY <2>2, <2>3 DEF Writes, HasOwner
<1>6. CASE Reload
  BY <1>6 DEF Reload, Repaired, Running
<1>7. ASSUME NEW s \in Sessions, NEW own, Create(s, own) \/ StartWrite(s) \/ Retire(s)
      PROVE  FALSE
  BY <1>7 DEF Create, StartWrite, Retire, stored, Repaired
<1>8. ASSUME NEW c \in Consumers, Reserve(c) \/ Resume(c) \/ AbortCommit(c)
      PROVE  FALSE
  BY <1>8 DEF Reserve, Resume, AbortCommit, stored, Repaired
<1>9. ASSUME NEW c \in Consumers, NEW s \in Sessions, NEW own, Publish(c, s, own)
      PROVE  FALSE
  BY <1>9 DEF Publish, stored, Repaired
<1>10. CASE Binds
  BY <1>10 DEF Binds, Running, Repaired
<1> QED BY <1>1, <1>2, <1>3, <1>4, <1>5, <1>6, <1>7, <1>8, <1>9, <1>10, StepKinds DEF Restart

LEMMA RepairStep ==
  ASSUME Inv, [Next]_vars
  PROVE  [Repaired => Abandon]_vars
<1> SUFFICES ASSUME Next, Repaired, NEW s \in Sessions, life[s] \in Held, init[s] # "failed"
             PROVE  log[s] = <<>>
  BY DEF Abandon
<1>1. state.owner = None
  BY RepairUnowned
<1>2. \A i \in DOMAIN chain : ~Opens(i)
  <2>1. entry.phase = "committing"
    BY RepairUnowned, CommitHolder DEF Repaired
  <2> QED BY <2>1 DEF Inv, LoadInv
<1>3. init[s] = "ok"
  <2>1. init[s] # "none"
    BY DEF Inv, LifeInv
  <2>2. init[s] # "pending"
    BY <1>2 DEF Inv, OpenInv
  <2>3. init[s] \in {"none", "pending", "ok", "failed"}
    BY DEF Inv, TypeOK, Types
  <2> QED BY <2>1, <2>2, <2>3
<1>4. s # None
  BY PersistenceAssumption DEF PersistenceAssumption
<1> QED BY <1>1, <1>3, <1>4 DEF Inv, IdleInv

\* Recovery closes a turn only in a log whose session is over, was refused the
\* id or never had an event (commitPrepared behind owns).
THEOREM RepairsAbandoned == SafetySpec => RepairOnlyAbandoned
<1>1. Inv /\ [Next]_vars => [Repaired => Abandon]_vars
  BY RepairStep
<1> QED BY <1>1, Invariant, PTL DEF SafetySpec, RepairOnlyAbandoned, Repaired, Abandon, Held

=============================================================================
