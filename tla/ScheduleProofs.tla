--------------------------- MODULE ScheduleProofs ---------------------------
(***************************************************************************)
(* What the reminders' log and the runtime over it keep for any tools,     *)
(* delays, interval, times, ids, turns and lives.                          *)
(*                                                                         *)
(* Valid says of a log that each event was legal when it was appended; it  *)
(* is what the actions keep, since a claim, a tool and a crash each append *)
(* legal events or take a prefix.  Good says what the fold makes of such a *)
(* log.  Induction over the log's length is by the least prefix that is    *)
(* not good: numbers are well-founded, and a least counterexample needs no *)
(* operator as a parameter.  The state invariant adds who watches the      *)
(* records (WakeGuaranteed), what a call's flush is behind     *)
(* (CallInv) and how often an occurrence was presented (OnceInv).          *)
(***************************************************************************)
EXTENDS Schedule, Integers, WellFoundedInduction, FiniteSetTheorems, SequenceTheorems, TLAPS

USE ScheduleAssumption

-----------------------------------------------------------------------------
(* Numbers *)

\* A set of numbers has a least one: what induction over a log rests on.
LEMMA Least ==
  ASSUME NEW T \in SUBSET Nat, T # {}
  PROVE  \E n \in T : \A k \in T : n <= k
<1>1. PICK n \in T : \A k \in T : <<k, n>> \notin OpToRel(<, Nat)
  BY WFMin, NatLessThanWellFounded, Zenon
<1>2. \A k \in T : ~(k < n)
  BY <1>1, Zenon DEF OpToRel
<1> QED BY <1>2

\* Whole intervals lead from a to b.
Reaches(a, b) == \E m \in Nat : b = a + m * Interval

\* The occurrence due and the one after it stay on the grid of the target.
LEMMA Grid ==
  ASSUME NEW at \in Nat, NEW t \in Nat, at <= t
  PROVE  /\ Occurrence(at, t) \in Nat /\ NextAt(at, t) \in Nat
         /\ at <= Occurrence(at, t) /\ Occurrence(at, t) < NextAt(at, t)
         /\ Reaches(at, Occurrence(at, t)) /\ Reaches(at, NextAt(at, t))
<1> DEFINE m == (t - at) \div Interval
<1>1. Interval \in Nat \ {0} /\ t - at \in Nat
  OBVIOUS
<1>2. m \in Nat
  BY <1>1
<1>3. Occurrence(at, t) = at + m * Interval
  BY DEF Occurrence
<1>4. NextAt(at, t) = (at + m * Interval) + Interval
  BY <1>3 DEF NextAt
<1> HIDE DEF m
<1>5. m * Interval \in Nat /\ m * Interval + Interval = (m + 1) * Interval
  BY <1>1, <1>2
<1>6. NextAt(at, t) = at + (m + 1) * Interval
  <2> DEFINE p == m * Interval
             q == (m + 1) * Interval
  <2>1. p \in Nat /\ q = p + Interval /\ NextAt(at, t) = (at + p) + Interval
    BY <1>4, <1>5
  <2> HIDE DEF p, q
  <2>2. NextAt(at, t) = at + q
    BY <1>1, <2>1
  <2> QED BY <2>2 DEF q
<1>7. m + 1 \in Nat
  BY <1>2
<1>8. /\ Occurrence(at, t) \in Nat /\ NextAt(at, t) \in Nat
      /\ at <= Occurrence(at, t) /\ Occurrence(at, t) < NextAt(at, t)
  <2> DEFINE p == m * Interval
  <2>1. p \in Nat /\ Occurrence(at, t) = at + p /\ NextAt(at, t) = (at + p) + Interval
    BY <1>3, <1>4, <1>5
  <2> HIDE DEF p
  <2> QED BY <1>1, <2>1
<1>9. Reaches(at, Occurrence(at, t)) /\ Reaches(at, NextAt(at, t))
  BY <1>2, <1>3, <1>6, <1>7, Zenon DEF Reaches
<1> QED BY <1>8, <1>9

\* Two steps on the grid are one.
LEMMA GridSum ==
  ASSUME NEW a \in Nat, NEW b \in Nat, NEW c \in Nat, Reaches(a, b), Reaches(b, c)
  PROVE  Reaches(a, c)
<1>1. PICK m \in Nat : b = a + m * Interval
  BY Zenon DEF Reaches
<1>2. PICK n \in Nat : c = b + n * Interval
  BY Zenon DEF Reaches
<1> DEFINE p == m * Interval
           q == n * Interval
<1>3. Interval \in Nat
  OBVIOUS
<1>4. p \in Nat /\ q \in Nat /\ p + q = (m + n) * Interval /\ m + n \in Nat
  BY <1>3
<1>5. b = a + p /\ c = b + q
  BY <1>1, <1>2
<1> HIDE DEF p, q
<1>6. c = a + (p + q)
  BY <1>4, <1>5
<1>7. c = a + (m + n) * Interval
  BY <1>4, <1>6, Zenon
<1> QED BY <1>4, <1>7, Zenon DEF Reaches

\* No interval at all.
LEMMA GridHere == ASSUME NEW a \in Nat PROVE Reaches(a, a)
<1>1. Interval \in Nat
  OBVIOUS
<1>2. a = a + 0 * Interval /\ 0 \in Nat
  BY <1>1
<1> QED BY <1>2, Zenon DEF Reaches

\* A target on the grid is no earlier, and a whole number of intervals away.
LEMMA OnGrid ==
  ASSUME NEW a \in Nat, NEW b \in Nat, Reaches(a, b)
  PROVE  b >= a /\ (b - a) % Interval = 0
<1>1. PICK m \in Nat : b = a + m * Interval
  BY Zenon DEF Reaches
<1> DEFINE p == m * Interval
<1>2. Interval \in Nat \ {0}
  OBVIOUS
<1>3. p \in Nat /\ p % Interval = 0
  BY <1>2
<1>4. b = a + p
  BY <1>1
<1> HIDE DEF p
<1>5. b >= a /\ b - a = p
  BY <1>3, <1>4
<1> QED BY <1>3, <1>5

-----------------------------------------------------------------------------
(* The fold *)

\* The values of the fold along a log.
Folds(g, events) ==
  g = [n \in 0 .. Len(events) |-> IF n = 0 THEN {} ELSE Fold(g[n - 1], events[n])]

\* The fold of a log exists: event by event, each from what the ones before made.
LEMMA FoldExists ==
  ASSUME NEW events, Len(events) \in Nat
  PROVE  \E g : Folds(g, events)
<1> DEFINE Upto(g, m) ==
             g = [n \in 0 .. m |-> IF n = 0 THEN {} ELSE Fold(g[n - 1], events[n])]
           T == {m \in Nat : ~\E g : Upto(g, m)}
<1>1. SUFFICES T = {}
  BY DEF Folds
<1>2. SUFFICES ASSUME T # {} PROVE FALSE
  OBVIOUS
<1>3. PICK m \in T : \A k \in T : m <= k
  <2>1. T \in SUBSET Nat
    OBVIOUS
  <2> HIDE DEF T
  <2> QED BY <1>2, <2>1, Least
<1>4. m # 0
  <2>1. Upto([n \in 0 .. 0 |-> {}], 0)
    OBVIOUS
  <2> QED BY <2>1
<1>5. m \in Nat /\ m - 1 \in Nat /\ m - 1 \notin T
  <2>1. m \in Nat
    OBVIOUS
  <2> HIDE DEF T
  <2>2. m - 1 \in Nat /\ ~(m <= m - 1)
    BY <1>4, <2>1
  <2> QED BY <1>3, <2>1, <2>2
<1>6. PICK h : Upto(h, m - 1)
  BY <1>5
<1> DEFINE g == [n \in 0 .. m |-> IF n = m THEN Fold(h[m - 1], events[m]) ELSE h[n]]
<1>7. ASSUME NEW n \in 0 .. m
      PROVE  g[n] = IF n = 0 THEN {} ELSE Fold(g[n - 1], events[n])
  <2>1. CASE n = 0
    BY <1>4, <1>5, <1>6, <2>1
  <2>2. CASE n # 0 /\ n # m
    <3>1. n \in 0 .. (m - 1) /\ n - 1 \in 0 .. (m - 1) /\ n - 1 \in 0 .. m /\ n - 1 # m
      BY <1>5, <2>2
    <3>2. g[n] = h[n] /\ g[n - 1] = h[n - 1]
      BY <2>2, <3>1
    <3>3. h[n] = Fold(h[n - 1], events[n])
      BY <1>6, <2>2, <3>1
    <3> QED BY <2>2, <3>2, <3>3
  <2>3. CASE n = m
    <3>1. m - 1 \in 0 .. m /\ m - 1 # m
      BY <1>5
    <3>2. g[m - 1] = h[m - 1]
      BY <3>1
    <3> QED BY <1>4, <2>3, <3>2
  <2> QED BY <2>1, <2>2, <2>3
<1>8. Upto(g, m)
  <2>1. g = [n \in 0 .. m |-> g[n]]
    OBVIOUS
  <2> HIDE DEF g
  <2> QED BY <1>7, <2>1
<1> QED BY <1>3, <1>8

\* ActiveIn is the last value of a fold.
LEMMA FoldValue ==
  ASSUME NEW events, Len(events) \in Nat
  PROVE  \E g : Folds(g, events) /\ ActiveIn(events) = g[Len(events)]
<1>1. ActiveIn(events) = (CHOOSE g : Folds(g, events))[Len(events)]
  BY DEF ActiveIn, Folds
<1>2. Folds(CHOOSE g : Folds(g, events), events)
  BY FoldExists, Zenon
<1> QED BY <1>1, <1>2

\* Folds of a log and of an extension agree as far as the log goes.
LEMMA FoldsAgree ==
  ASSUME NEW s, NEW t, Len(s) \in Nat, Len(t) \in Nat, Len(s) <= Len(t),
         \A i \in 1 .. Len(s) : t[i] = s[i],
         NEW g, Folds(g, s), NEW h, Folds(h, t)
  PROVE  \A n \in 0 .. Len(s) : h[n] = g[n]
<1> DEFINE T == {n \in 0 .. Len(s) : h[n] # g[n]}
<1> SUFFICES ASSUME T # {} PROVE FALSE
  OBVIOUS
<1>1. PICK n \in T : \A k \in T : n <= k
  <2>1. T \in SUBSET Nat
    OBVIOUS
  <2> HIDE DEF T
  <2> QED BY <2>1, Least
<1>2. n \in 0 .. Len(s) /\ n \in 0 .. Len(t) /\ h[n] # g[n]
  BY <1>1
<1>3. /\ g[n] = IF n = 0 THEN {} ELSE Fold(g[n - 1], s[n])
      /\ h[n] = IF n = 0 THEN {} ELSE Fold(h[n - 1], t[n])
  BY <1>2 DEF Folds
<1>4. n # 0
  BY <1>2, <1>3
<1>5. n - 1 \in 0 .. Len(s) /\ ~(n <= n - 1) /\ n \in 1 .. Len(s)
  BY <1>2, <1>4
<1>6. h[n - 1] = g[n - 1]
  BY <1>1, <1>5
<1> QED BY <1>2, <1>3, <1>4, <1>5, <1>6

\* No event, no record.
LEMMA ActiveEmpty == ActiveIn(<<>>) = {}
<1> DEFINE none == <<>>
<1>1. Len(none) = 0
  OBVIOUS
<1> HIDE DEF none
<1>2. PICK g : Folds(g, none) /\ ActiveIn(none) = g[Len(none)]
  BY <1>1, FoldValue
<1>3. g[0] = {}
  BY <1>1, <1>2 DEF Folds
<1> QED BY <1>1, <1>2, <1>3 DEF none

\* One more event: the fold takes it to what the log made before.
LEMMA ActiveAppend ==
  ASSUME NEW E, NEW s \in Seq(E), NEW e \in E
  PROVE  ActiveIn(Append(s, e)) = Fold(ActiveIn(s), e)
<1> DEFINE t == Append(s, e)
<1>1. /\ Len(s) \in Nat /\ Len(t) = Len(s) + 1 /\ t[Len(s) + 1] = e
      /\ \A i \in 1 .. Len(s) : t[i] = s[i]
  BY AppendProperties, LenProperties
<1> HIDE DEF t
<1>2. PICK g : Folds(g, s) /\ ActiveIn(s) = g[Len(s)]
  BY <1>1, FoldValue
<1>3. Len(t) \in Nat /\ Len(s) <= Len(t) /\ Len(t) # 0 /\ Len(t) - 1 = Len(s)
        /\ Len(t) \in 0 .. Len(t)
  BY <1>1
<1>4. PICK h : Folds(h, t) /\ ActiveIn(t) = h[Len(t)]
  BY <1>3, FoldValue
<1>5. h[Len(s)] = g[Len(s)]
  <2>1. \A n \in 0 .. Len(s) : h[n] = g[n]
    BY <1>1, <1>2, <1>3, <1>4, FoldsAgree
  <2> QED BY <1>1, <2>1
<1>6. h[Len(t)] = Fold(h[Len(s)], t[Len(t)])
  BY <1>3, <1>4 DEF Folds
<1> QED BY <1>1, <1>2, <1>4, <1>5, <1>6 DEF t

-----------------------------------------------------------------------------
(* Logs the fold accepts *)

\* What a log and its records consist of.
Ids == Nat
Events == [op : {"create", "delete", "dispatch", "remind"}, id : Ids,
           kind : {"once", "every", "none"}, at : Nat, shown : SUBSET (Ids \X Nat)]
Record == [id : Ids, kind : {"once", "every"}, at : Nat]

\* The creations of a log.
Creates(s) == {i \in DOMAIN s : s[i].op = "create"}

\* An event that creates a record.
Made(s, i, r) == s[i].op = "create" /\ s[i].id = r.id

\* The records of a log: each of an id of its own, on the grid of its creation and
\* not deleted; the ids created so far are the first ones.
Good(s) ==
  /\ ActiveIn(s) \subseteq Record /\ IsFiniteSet(ActiveIn(s))
  /\ \A r, q \in ActiveIn(s) : r.id = q.id => r = q
  /\ \A r \in ActiveIn(s) :
       /\ \E i \in DOMAIN s : Made(s, i, r) /\ Reaches(s[i].at, r.at)
       /\ \A i \in DOMAIN s : ~(s[i].op = "delete" /\ s[i].id = r.id)
  /\ \A i \in Creates(s) : s[i].id \in 1 .. Cardinality(Creates(s))
  /\ \A i \in DOMAIN s : s[i].op = "delete" =>
       \E j \in DOMAIN s : s[j].op = "create" /\ s[j].id = s[i].id

\* What an event may be behind a log.
Legal(s, e) ==
  /\ e.op = "create" =>
       e.kind \in {"once", "every"} /\ e.id = Cardinality(Creates(s)) + 1
  /\ e.op = "delete" => \E r \in ActiveIn(s) : r.id = e.id
  /\ e.op = "dispatch" =>
       \E r \in ActiveIn(s) :
         r.id = e.id /\ r.kind = e.kind /\ (r.kind = "every" => r.at <= e.at)
  /\ e.op = "remind" =>
       \A shown \in e.shown : \E r \in ActiveIn(s) :
         r.id = shown[1] /\ Reaches(r.at, shown[2])

\* Each event of the log was legal when it was appended.
Valid(s) ==
  /\ s \in Seq(Events)
  /\ \A i \in DOMAIN s : Legal(SubSeq(s, 1, i - 1), s[i])

\* What the log's members are.
LEMMA Entries ==
  ASSUME NEW s \in Seq(Events)
  PROVE  /\ Len(s) \in Nat /\ DOMAIN s = 1 .. Len(s)
         /\ \A i \in 1 .. Len(s) : s[i] \in Events
         /\ Creates(s) \subseteq 1 .. Len(s) /\ IsFiniteSet(Creates(s))
         /\ Cardinality(Creates(s)) \in Nat
<1>1. Len(s) \in Nat /\ DOMAIN s = 1 .. Len(s) /\ \A i \in 1 .. Len(s) : s[i] \in Events
  BY LenProperties
<1>2. Creates(s) \subseteq 1 .. Len(s) /\ IsFiniteSet(1 .. Len(s))
  BY <1>1, FS_Interval DEF Creates
<1>3. IsFiniteSet(Creates(s)) /\ Cardinality(Creates(s)) \in Nat
  BY <1>2, FS_Subset, FS_CardinalityType
<1> QED BY <1>1, <1>2, <1>3

\* A log with one more event.
LEMMA Extended ==
  ASSUME NEW s \in Seq(Events), NEW e \in Events
  PROVE  /\ Append(s, e) \in Seq(Events) /\ Len(Append(s, e)) = Len(s) + 1
         /\ DOMAIN Append(s, e) = 1 .. (Len(s) + 1)
         /\ Append(s, e)[Len(s) + 1] = e
         /\ \A i \in 1 .. Len(s) : Append(s, e)[i] = s[i]
         /\ Creates(Append(s, e)) =
              Creates(s) \cup (IF e.op = "create" THEN {Len(s) + 1} ELSE {})
         /\ Cardinality(Creates(Append(s, e))) =
              Cardinality(Creates(s)) + (IF e.op = "create" THEN 1 ELSE 0)
<1> DEFINE t == Append(s, e)
<1>1. /\ t \in Seq(Events) /\ Len(t) = Len(s) + 1 /\ t[Len(s) + 1] = e
      /\ \A i \in 1 .. Len(s) : t[i] = s[i]
  BY AppendProperties
<1> HIDE DEF t
<1>2. /\ Len(s) \in Nat /\ DOMAIN s = 1 .. Len(s) /\ DOMAIN t = 1 .. (Len(s) + 1)
      /\ Creates(s) \subseteq 1 .. Len(s) /\ IsFiniteSet(Creates(s))
      /\ Cardinality(Creates(s)) \in Nat
  BY <1>1, Entries
<1>3. Creates(t) = Creates(s) \cup (IF e.op = "create" THEN {Len(s) + 1} ELSE {})
  <2>1. \A i \in 1 .. (Len(s) + 1) : i \in 1 .. Len(s) \/ i = Len(s) + 1
    BY <1>2
  <2>2. Len(s) + 1 \in 1 .. (Len(s) + 1) /\ \A i \in 1 .. Len(s) : i \in 1 .. (Len(s) + 1)
    BY <1>2
  <2> QED BY <1>1, <1>2, <2>1, <2>2 DEF Creates
<1>4. Cardinality(Creates(t)) =
        Cardinality(Creates(s)) + (IF e.op = "create" THEN 1 ELSE 0)
  <2>1. CASE e.op = "create"
    <3>1. Len(s) + 1 \notin Creates(s)
      BY <1>2
    <3>2. Cardinality(Creates(s) \cup {Len(s) + 1}) = Cardinality(Creates(s)) + 1
      BY <1>2, <3>1, FS_AddElement
    <3> QED BY <1>3, <2>1, <3>2
  <2>2. CASE e.op # "create"
    BY <1>2, <1>3, <2>2
  <2> QED BY <2>1, <2>2
<1> QED BY <1>1, <1>2, <1>3, <1>4 DEF t

\* What the fold makes of an event.
LEMMA Folded ==
  ASSUME NEW active \in SUBSET Record, NEW e \in Events
  PROVE  /\ e.op = "create" =>
              Fold(active, e) = active \cup {[id |-> e.id, kind |-> e.kind, at |-> e.at]}
         /\ e.op = "delete" \/ (e.op = "dispatch" /\ e.kind = "once") =>
              Fold(active, e) = {r \in active : r.id # e.id}
         /\ e.op = "dispatch" /\ e.kind = "every" =>
              Fold(active, e) = {r \in active : r.id # e.id}
                \cup {[r EXCEPT !.at = NextAt(r.at, e.at)] :
                        r \in {q \in active : q.id = e.id}}
         /\ e.op = "remind" => Fold(active, e) = active
<1>1. {r \in active : r.id = e.id} = active \ {r \in active : r.id # e.id}
  OBVIOUS
<1>2. CASE e.op = "create"
  BY <1>2 DEF Fold
<1>3. CASE e.op = "delete" \/ (e.op = "dispatch" /\ e.kind = "once")
  BY <1>3 DEF Fold
<1>4. CASE e.op = "dispatch" /\ e.kind = "every"
  <2>1. Fold(active, e) = {r \in active : r.id # e.id}
          \cup {[r EXCEPT !.at = NextAt(r.at, e.at)] :
                  r \in active \ {r \in active : r.id # e.id}}
    BY <1>4 DEF Fold
  <2> QED BY <1>1, <1>4, <2>1
<1>5. CASE e.op = "remind"
  BY <1>5 DEF Fold
<1> QED BY <1>2, <1>3, <1>4, <1>5

\* A record behind an event is one of before, one created, or one advanced.
LEMMA Survives ==
  ASSUME NEW s \in Seq(Events), NEW e \in Events, Legal(s, e), Good(s),
         NEW r \in ActiveIn(Append(s, e))
  PROVE  \/ r \in ActiveIn(s) /\ (e.op \in {"delete", "dispatch"} => r.id # e.id)
         \/ e.op = "create" /\ r = [id |-> e.id, kind |-> e.kind, at |-> e.at]
         \/ /\ e.op = "dispatch" /\ e.kind = "every"
            /\ \E q \in ActiveIn(s) :
                 /\ q.id = e.id /\ q.kind = "every" /\ q.at <= e.at
                 /\ r = [q EXCEPT !.at = NextAt(q.at, e.at)]
<1>1. ActiveIn(s) \in SUBSET Record
  BY DEF Good
<1>2. r \in Fold(ActiveIn(s), e)
  BY ActiveAppend
<1>3. CASE e.op = "create"
  BY <1>1, <1>2, <1>3, Folded
<1>4. CASE e.op = "delete" \/ (e.op = "dispatch" /\ e.kind = "once")
  BY <1>1, <1>2, <1>4, Folded
<1>5. CASE e.op = "dispatch" /\ e.kind = "every"
  <2>1. \/ r \in ActiveIn(s) /\ r.id # e.id
        \/ \E q \in ActiveIn(s) : q.id = e.id /\ r = [q EXCEPT !.at = NextAt(q.at, e.at)]
    BY <1>1, <1>2, <1>5, Folded, SMTT(30)
  <2>2. ASSUME NEW q \in ActiveIn(s), q.id = e.id
        PROVE  q.kind = "every" /\ q.at <= e.at
    <3>1. PICK p \in ActiveIn(s) :
            p.id = e.id /\ p.kind = e.kind /\ (p.kind = "every" => p.at <= e.at)
      BY <1>5 DEF Legal
    <3>2. p = q
      BY <2>2, <3>1 DEF Good
    <3> QED BY <1>5, <3>1, <3>2
  <2> QED BY <1>5, <2>1, <2>2
<1>6. CASE e.op = "remind"
  BY <1>1, <1>2, <1>6, Folded
<1>7. CASE e.op = "dispatch" /\ e.kind = "none"
  <2>1. PICK p \in ActiveIn(s) : p.kind = e.kind
    BY <1>7 DEF Legal
  <2> QED BY <1>1, <1>7, <2>1 DEF Record
<1> QED BY <1>3, <1>4, <1>5, <1>6, <1>7 DEF Events

\* The ids created stay the first ones, and only a created id is deleted.
LEMMA GoodIds ==
  ASSUME NEW s \in Seq(Events), NEW e \in Events, Legal(s, e), Good(s)
  PROVE  LET t == Append(s, e)
         IN /\ \A i \in Creates(t) : t[i].id \in 1 .. Cardinality(Creates(t))
            /\ \A i \in DOMAIN t : t[i].op = "delete" =>
                 \E j \in DOMAIN t : t[j].op = "create" /\ t[j].id = t[i].id
<1> DEFINE t == Append(s, e)
           c == Cardinality(Creates(s))
           d == Cardinality(Creates(t))
<1>1. /\ Len(s) \in Nat /\ DOMAIN s = 1 .. Len(s) /\ DOMAIN t = 1 .. (Len(s) + 1)
      /\ t[Len(s) + 1] = e /\ \A i \in 1 .. Len(s) : t[i] = s[i]
      /\ Creates(t) = Creates(s) \cup (IF e.op = "create" THEN {Len(s) + 1} ELSE {})
      /\ d = c + (IF e.op = "create" THEN 1 ELSE 0)
      /\ Creates(s) \subseteq 1 .. Len(s) /\ c \in Nat
  BY Entries, Extended
<1>2. e.op = "create" => e.id = c + 1
  BY DEF Legal
<1>3. \A i \in Creates(s) : s[i].id \in 1 .. c
  BY DEF Good
<1> HIDE DEF t, c, d
<1>4. ASSUME NEW i \in Creates(t)
      PROVE  t[i].id \in 1 .. d
  <2>1. CASE i \in Creates(s)
    <3>1. t[i].id \in 1 .. c /\ d >= c /\ d \in Nat
      BY <1>1, <1>3, <2>1
    <3> QED BY <1>1, <3>1
  <2>2. CASE i \notin Creates(s)
    <3>1. e.op = "create" /\ i = Len(s) + 1
      BY <1>1, <2>2
    <3>2. t[i].id = c + 1 /\ d = c + 1
      BY <1>1, <1>2, <3>1
    <3> QED BY <1>1, <3>2
  <2> QED BY <2>1, <2>2
<1>5. ASSUME NEW i \in DOMAIN t, t[i].op = "delete"
      PROVE  \E j \in DOMAIN t : t[j].op = "create" /\ t[j].id = t[i].id
  <2>1. \E j \in DOMAIN s : s[j].op = "create" /\ s[j].id = t[i].id
    <3>1. CASE i \in 1 .. Len(s)
      <4>1. t[i] = s[i] /\ i \in DOMAIN s
        BY <1>1, <3>1
      <4> QED BY <1>5, <4>1 DEF Good
    <3>2. CASE i = Len(s) + 1
      <4>1. t[i] = e
        BY <1>1, <3>2
      <4>2. PICK r \in ActiveIn(s) : r.id = e.id
        BY <1>5, <4>1 DEF Legal
      <4>3. \E j \in DOMAIN s : Made(s, j, r)
        BY <4>2 DEF Good
      <4> QED BY <4>1, <4>2, <4>3 DEF Made
    <3> QED BY <1>1, <3>1, <3>2
  <2>2. \A j \in DOMAIN s : j \in DOMAIN t /\ t[j] = s[j]
    BY <1>1
  <2> QED BY <2>1, <2>2
<1> QED BY <1>4, <1>5 DEF t, d

\* An id not created yet is that of no record and of no deletion.
LEMMA FreshId ==
  ASSUME NEW s \in Seq(Events), Good(s), NEW n, n = Cardinality(Creates(s)) + 1
  PROVE  /\ \A r \in ActiveIn(s) : r.id # n
         /\ \A i \in DOMAIN s : s[i].op = "create" => s[i].id # n
         /\ \A i \in DOMAIN s : ~(s[i].op = "delete" /\ s[i].id = n)
<1>1. \A i \in DOMAIN s : s[i].op = "create" => s[i].id # n
  <2>1. \A i \in DOMAIN s : s[i].op = "create" => s[i].id \in 1 .. Cardinality(Creates(s))
    BY DEF Good, Creates
  <2>2. Cardinality(Creates(s)) \in Nat
    BY Entries
  <2> QED BY <2>1, <2>2
<1>2. \A r \in ActiveIn(s) : \E i \in DOMAIN s : s[i].op = "create" /\ s[i].id = r.id
  BY DEF Good, Made
<1>3. \A i \in DOMAIN s : s[i].op = "delete" =>
        \E j \in DOMAIN s : s[j].op = "create" /\ s[j].id = s[i].id
  BY DEF Good
<1> QED BY <1>1, <1>2, <1>3

\* The records behind an event are records, finitely many.
LEMMA GoodRecords ==
  ASSUME NEW s \in Seq(Events), NEW e \in Events, Legal(s, e), Good(s)
  PROVE  /\ ActiveIn(Append(s, e)) \subseteq Record
         /\ IsFiniteSet(ActiveIn(Append(s, e)))
<1> DEFINE t == Append(s, e)
<1>1. ActiveIn(s) \subseteq Record /\ IsFiniteSet(ActiveIn(s))
  BY DEF Good
<1>2. ActiveIn(t) = Fold(ActiveIn(s), e)
  BY ActiveAppend
<1>3. ASSUME NEW r \in ActiveIn(t)
      PROVE  r \in Record
  <2>1. CASE r \in ActiveIn(s)
    BY <1>1, <2>1
  <2>2. CASE e.op = "create" /\ r = [id |-> e.id, kind |-> e.kind, at |-> e.at]
    <3>1. e.kind \in {"once", "every"} /\ e.id \in Ids /\ e.at \in Nat
      BY <2>2 DEF Legal, Events
    <3> QED BY <2>2, <3>1 DEF Record
  <2>3. ASSUME NEW q \in ActiveIn(s), q.at <= e.at, r = [q EXCEPT !.at = NextAt(q.at, e.at)]
        PROVE  r \in Record
    <3>1. q \in Record /\ q.at \in Nat /\ e.at \in Nat
      BY <1>1 DEF Record, Events
    <3>2. NextAt(q.at, e.at) \in Nat
      BY <2>3, <3>1, Grid
    <3> QED BY <2>3, <3>1, <3>2 DEF Record
  <2> QED BY <2>1, <2>2, <2>3, Survives
<1>4. IsFiniteSet(ActiveIn(t))
  <2> DEFINE others == {r \in ActiveIn(s) : r.id # e.id}
             mine == {q \in ActiveIn(s) : q.id = e.id}
             new(r) == [r EXCEPT !.at = NextAt(r.at, e.at)]
  <2>1. IsFiniteSet(others) /\ IsFiniteSet(mine)
    BY <1>1, FS_Subset
  <2>2. CASE e.op = "create"
    <3>1. ActiveIn(t) = ActiveIn(s) \cup {[id |-> e.id, kind |-> e.kind, at |-> e.at]}
      BY <1>1, <1>2, <2>2, Folded
    <3> QED BY <1>1, <3>1, FS_AddElement, ZenonT(60)
  <2>3. CASE e.op = "delete" \/ (e.op = "dispatch" /\ e.kind = "once")
    <3>1. ActiveIn(t) = others
      BY <1>1, <1>2, <2>3, Folded
    <3> QED BY <2>1, <3>1
  <2>4. CASE e.op = "dispatch" /\ e.kind = "every"
    <3>1. ActiveIn(t) = others \cup {new(r) : r \in mine}
      BY <1>1, <1>2, <2>4, Folded
    <3>2. IsFiniteSet({new(r) : r \in mine})
      <4> DEFINE f == [r \in mine |-> new(r)]
                 im == {new(r) : r \in mine}
      <4>1. f \in Surjection(mine, im)
        BY DEF Surjection
      <4> HIDE DEF f, im, mine
      <4> QED BY <2>1, <4>1, FS_Surjection DEF im
    <3> DEFINE im == {new(r) : r \in mine}
    <3>3. ActiveIn(t) = others \cup im /\ IsFiniteSet(im)
      BY <3>1, <3>2
    <3> HIDE DEF t, others, im
    <3> QED BY <2>1, <3>3, FS_Union
  <2>5. CASE e.op = "remind"
    BY <1>1, <1>2, <2>5, Folded
  <2>6. CASE e.op = "dispatch" /\ e.kind = "none"
    <3>1. PICK p \in ActiveIn(s) : p.kind = e.kind
      BY <2>6 DEF Legal
    <3> QED BY <1>1, <2>6, <3>1 DEF Record
  <2> QED BY <2>2, <2>3, <2>4, <2>5, <2>6 DEF Events
<1> QED BY <1>3, <1>4

\* A record behind an event stands on the grid of its creation, undeleted.
LEMMA GoodOrigin ==
  ASSUME NEW s \in Seq(Events), NEW e \in Events, Legal(s, e), Good(s),
         NEW r \in ActiveIn(Append(s, e))
  PROVE  LET t == Append(s, e)
         IN /\ \E i \in DOMAIN t : Made(t, i, r) /\ Reaches(t[i].at, r.at)
            /\ \A i \in DOMAIN t : ~(t[i].op = "delete" /\ t[i].id = r.id)
<1> DEFINE t == Append(s, e)
<1>1. /\ Len(s) \in Nat /\ DOMAIN s = 1 .. Len(s) /\ DOMAIN t = 1 .. (Len(s) + 1)
      /\ t[Len(s) + 1] = e /\ \A i \in 1 .. Len(s) : t[i] = s[i]
  BY Entries, Extended
<1> HIDE DEF t
<1>2. \A i \in DOMAIN s : i \in DOMAIN t /\ t[i] = s[i]
  BY <1>1
<1>3. \A i \in DOMAIN t : i \in DOMAIN s \/ (i = Len(s) + 1 /\ t[i] = e)
  BY <1>1
<1> DEFINE Placed(q, b) ==
             \E i \in DOMAIN t : Made(t, i, q) /\ Reaches(t[i].at, b)
           Silent(q) == \A i \in DOMAIN t : ~(t[i].op = "delete" /\ t[i].id = q.id)
<1>4. ASSUME NEW q \in ActiveIn(s)
      PROVE  Placed(q, q.at) /\ (~(e.op = "delete" /\ e.id = q.id) => Silent(q))
  <2>1. PICK i \in DOMAIN s : Made(s, i, q) /\ Reaches(s[i].at, q.at)
    BY DEF Good
  <2>2. Placed(q, q.at)
    BY <1>2, <2>1 DEF Made
  <2>3. \A j \in DOMAIN s : ~(s[j].op = "delete" /\ s[j].id = q.id)
    BY DEF Good
  <2>4. ~(e.op = "delete" /\ e.id = q.id) => Silent(q)
    BY <1>2, <1>3, <2>3
  <2> QED BY <2>2, <2>4
<1>5. CASE r \in ActiveIn(s) /\ (e.op \in {"delete", "dispatch"} => r.id # e.id)
  BY <1>4, <1>5 DEF t
<1>6. CASE e.op = "create" /\ r = [id |-> e.id, kind |-> e.kind, at |-> e.at]
  <2>1. r.id = e.id /\ r.at = e.at /\ e.at \in Nat /\ e.id = Cardinality(Creates(s)) + 1
    BY <1>6 DEF Legal, Events
  <2>2. \A i \in DOMAIN s : ~(s[i].op = "delete" /\ s[i].id = r.id)
    BY <2>1, FreshId
  <2>3. Silent(r)
    BY <1>2, <1>3, <1>6, <2>2
  <2>4. Len(s) + 1 \in DOMAIN t /\ Made(t, Len(s) + 1, r)
    BY <1>1, <1>6, <2>1 DEF Made
  <2>5. Reaches(t[Len(s) + 1].at, r.at)
    BY <1>1, <2>1, GridHere
  <2> QED BY <2>3, <2>4, <2>5 DEF t
<1>7. CASE /\ e.op = "dispatch" /\ e.kind = "every"
           /\ \E q \in ActiveIn(s) :
                /\ q.id = e.id /\ q.kind = "every" /\ q.at <= e.at
                /\ r = [q EXCEPT !.at = NextAt(q.at, e.at)]
  <2>1. PICK q \in ActiveIn(s) : q.at <= e.at /\ r = [q EXCEPT !.at = NextAt(q.at, e.at)]
    BY <1>7
  <2>2. q \in Record /\ q.at \in Nat /\ e.at \in Nat
    BY DEF Good, Record, Events
  <2>3. r.id = q.id /\ r.at = NextAt(q.at, e.at)
    BY <2>1, <2>2 DEF Record
  <2>4. Placed(q, q.at) /\ Silent(q)
    BY <1>4, <1>7
  <2>5. PICK i \in DOMAIN t : Made(t, i, q) /\ Reaches(t[i].at, q.at)
    BY <2>4
  <2>7. Reaches(q.at, NextAt(q.at, e.at))
    BY <2>1, <2>2, Grid
  <2>8. t[i].at \in Nat
    <3>1. t[i] \in Events
      BY <1>2, <1>3, Entries
    <3> QED BY <3>1 DEF Events
  <2>9. NextAt(q.at, e.at) \in Nat
    BY <2>1, <2>2, Grid
  <2>10. Reaches(t[i].at, NextAt(q.at, e.at))
    BY <2>2, <2>5, <2>7, <2>8, <2>9, GridSum
  <2>11. Made(t, i, r)
    BY <2>3, <2>5 DEF Made
  <2>12. Silent(r)
    BY <2>3, <2>4
  <2> QED BY <2>3, <2>10, <2>11, <2>12 DEF t
<1>8. \/ r \in ActiveIn(s) /\ (e.op \in {"delete", "dispatch"} => r.id # e.id)
      \/ e.op = "create" /\ r = [id |-> e.id, kind |-> e.kind, at |-> e.at]
      \/ /\ e.op = "dispatch" /\ e.kind = "every"
         /\ \E q \in ActiveIn(s) :
              /\ q.id = e.id /\ q.kind = "every" /\ q.at <= e.at
              /\ r = [q EXCEPT !.at = NextAt(q.at, e.at)]
  BY Survives
<1> QED BY <1>5, <1>6, <1>7, <1>8

\* Each record behind an event still has its id alone.
LEMMA GoodUnique ==
  ASSUME NEW s \in Seq(Events), NEW e \in Events, Legal(s, e), Good(s),
         NEW r \in ActiveIn(Append(s, e)), NEW q \in ActiveIn(Append(s, e)), r.id = q.id
  PROVE  r = q
<1> DEFINE Old(x) == x \in ActiveIn(s) /\ (e.op \in {"delete", "dispatch"} => x.id # e.id)
           New(x) == e.op = "create" /\ x = [id |-> e.id, kind |-> e.kind, at |-> e.at]
           Moved(x) == /\ e.op = "dispatch" /\ e.kind = "every"
                       /\ \E p \in ActiveIn(s) :
                            /\ p.id = e.id /\ p.kind = "every" /\ p.at <= e.at
                            /\ x = [p EXCEPT !.at = NextAt(p.at, e.at)]
<1>1. (Old(r) \/ New(r) \/ Moved(r)) /\ (Old(q) \/ New(q) \/ Moved(q))
  BY Survives
<1>2. \A x, y \in ActiveIn(s) : x.id = y.id => x = y
  BY DEF Good
<1>3. \A x \in ActiveIn(s) : e.op = "create" => x.id # e.id
  <2>1. e.op = "create" => e.id = Cardinality(Creates(s)) + 1
    BY DEF Legal
  <2> QED BY <2>1, FreshId
<1>4. \A x : New(x) => x.id = e.id
  OBVIOUS
<1>5. \A x : Moved(x) => x.id = e.id
  BY DEF Good, Record
<1>6. ASSUME Moved(r), Moved(q) PROVE r = q
  <2>1. PICK p \in ActiveIn(s) : p.id = e.id /\ r = [p EXCEPT !.at = NextAt(p.at, e.at)]
    BY <1>6
  <2>2. PICK o \in ActiveIn(s) : o.id = e.id /\ q = [o EXCEPT !.at = NextAt(o.at, e.at)]
    BY <1>6
  <2> QED BY <1>2, <2>1, <2>2
<1>7. CASE Old(r) /\ Old(q)
  BY <1>2, <1>7
<1>8. CASE New(r) /\ New(q)
  BY <1>8
<1>9. CASE (Old(r) /\ ~Old(q)) \/ (Old(q) /\ ~Old(r))
  <2>1. e.op \in {"create", "dispatch"} /\ (r.id = e.id \/ q.id = e.id)
    BY <1>1, <1>4, <1>5, <1>9
  <2> QED BY <1>3, <1>9, <2>1
<1>10. ~(New(r) /\ Moved(q)) /\ ~(New(q) /\ Moved(r))
  OBVIOUS
<1> QED BY <1>1, <1>6, <1>7, <1>8, <1>9, <1>10

\* A legal event keeps the log good.
LEMMA GoodStep ==
  ASSUME NEW s \in Seq(Events), NEW e \in Events, Legal(s, e), Good(s)
  PROVE  Good(Append(s, e))
<1> DEFINE t == Append(s, e)
<1>1. ActiveIn(t) \subseteq Record /\ IsFiniteSet(ActiveIn(t))
  BY GoodRecords
<1>2. \A r, q \in ActiveIn(t) : r.id = q.id => r = q
  BY GoodUnique
<1>3. ASSUME NEW r \in ActiveIn(t)
      PROVE  /\ \E i \in DOMAIN t : Made(t, i, r) /\ Reaches(t[i].at, r.at)
             /\ \A i \in DOMAIN t : ~(t[i].op = "delete" /\ t[i].id = r.id)
  BY GoodOrigin
<1>4. /\ \A i \in Creates(t) : t[i].id \in 1 .. Cardinality(Creates(t))
      /\ \A i \in DOMAIN t : t[i].op = "delete" =>
           \E j \in DOMAIN t : t[j].op = "create" /\ t[j].id = t[i].id
  BY GoodIds
<1> HIDE DEF t
<1>5. Good(t)
  BY <1>1, <1>2, <1>3, <1>4 DEF Good
<1> QED BY <1>5 DEF t

\* Nothing is recorded in an empty log.
LEMMA GoodEmpty == Good(<<>>)
<1>1. DOMAIN <<>> = {} /\ Creates(<<>>) = {}
  BY DEF Creates
<1> QED BY <1>1, ActiveEmpty, FS_EmptySet DEF Good

\* A log up to its k-th event.
LEMMA Prefix ==
  ASSUME NEW s \in Seq(Events), NEW k \in 0 .. Len(s)
  PROVE  /\ SubSeq(s, 1, k) \in Seq(Events) /\ Len(SubSeq(s, 1, k)) = k
         /\ DOMAIN SubSeq(s, 1, k) = 1 .. k
         /\ \A i \in 1 .. k : SubSeq(s, 1, k)[i] = s[i]
<1> DEFINE t == SubSeq(s, 1, k)
<1>1. Len(s) \in Nat /\ k \in Nat /\ k \in Int /\ 1 \in Int /\ \A i \in 1 .. k : s[i] \in Events
  BY Entries
<1>2. /\ t \in Seq(Events) /\ Len(t) = IF 1 <= k THEN k - 1 + 1 ELSE 0
      /\ \A i \in 1 .. k - 1 + 1 : t[i] = s[1 + i - 1]
  BY <1>1, SubSeqProperties
<1> HIDE DEF t
<1>3. Len(t) = k /\ \A i \in 1 .. k : i \in 1 .. k - 1 + 1 /\ 1 + i - 1 = i
  BY <1>1, <1>2
<1>4. \A i \in 1 .. k : t[i] = s[i]
  BY <1>2, <1>3
<1>5. DOMAIN t = 1 .. k
  BY <1>2, <1>3, LenProperties
<1> QED BY <1>2, <1>3, <1>4, <1>5 DEF t

\* Two logs that agree on an event's predecessors have them in common.
LEMMA SamePrefix ==
  ASSUME NEW s \in Seq(Events), NEW t \in Seq(Events), NEW k \in 0 .. Len(s), k \in 0 .. Len(t),
         \A i \in 1 .. k : s[i] = t[i]
  PROVE  SubSeq(s, 1, k) = SubSeq(t, 1, k)
<1> DEFINE u == SubSeq(s, 1, k)
           v == SubSeq(t, 1, k)
<1>1. /\ u \in Seq(Events) /\ Len(u) = k /\ \A i \in 1 .. k : u[i] = s[i]
      /\ v \in Seq(Events) /\ Len(v) = k /\ \A i \in 1 .. k : v[i] = t[i]
  BY Prefix
<1> HIDE DEF u, v
<1>2. u = v
  BY <1>1, SeqEqual
<1> QED BY <1>2 DEF u, v

\* A log is what came before its last event, and that event.
LEMMA PrefixStep ==
  ASSUME NEW s \in Seq(Events), NEW k \in 1 .. Len(s)
  PROVE  SubSeq(s, 1, k) = Append(SubSeq(s, 1, k - 1), s[k])
<1> DEFINE u == SubSeq(s, 1, k)
           v == SubSeq(s, 1, k - 1)
<1>1. Len(s) \in Nat /\ k \in 0 .. Len(s) /\ k - 1 \in 0 .. Len(s) /\ s[k] \in Events
  BY Entries
<1>2. /\ u \in Seq(Events) /\ Len(u) = k /\ \A i \in 1 .. k : u[i] = s[i]
      /\ v \in Seq(Events) /\ Len(v) = k - 1 /\ \A i \in 1 .. (k - 1) : v[i] = s[i]
  BY <1>1, Prefix
<1> HIDE DEF u, v
<1> DEFINE w == Append(v, s[k])
<1>3. /\ w \in Seq(Events) /\ Len(w) = (k - 1) + 1 /\ w[(k - 1) + 1] = s[k]
      /\ \A i \in 1 .. (k - 1) : w[i] = v[i]
  BY <1>1, <1>2, AppendProperties
<1> HIDE DEF w
<1>4. (k - 1) + 1 = k /\ k \in 1 .. k /\ \A i \in 1 .. k : i = k \/ i \in 1 .. (k - 1)
  BY <1>1
<1>5. Len(w) = k /\ w[k] = s[k] /\ \A i \in 1 .. (k - 1) : w[i] = s[i]
  BY <1>2, <1>3, <1>4, Zenon
<1>6. Len(w) = Len(u) /\ \A i \in 1 .. Len(u) : u[i] = w[i]
  BY <1>2, <1>4, <1>5
<1>7. u = w
  BY <1>2, <1>3, <1>6, SeqEqual
<1> QED BY <1>7 DEF u, v, w

\* A legal event makes a valid log valid.
LEMMA ValidAppend ==
  ASSUME NEW s, Valid(s), NEW e \in Events, Legal(s, e)
  PROVE  Valid(Append(s, e))
<1> DEFINE t == Append(s, e)
<1>1. s \in Seq(Events)
  BY DEF Valid
<1>2. /\ t \in Seq(Events) /\ DOMAIN t = 1 .. (Len(s) + 1) /\ t[Len(s) + 1] = e
      /\ \A i \in 1 .. Len(s) : t[i] = s[i]
      /\ Len(t) = Len(s) + 1 /\ Len(s) \in Nat /\ DOMAIN s = 1 .. Len(s)
  BY <1>1, Extended, Entries
<1> HIDE DEF t
<1>3. ASSUME NEW i \in DOMAIN t
      PROVE  Legal(SubSeq(t, 1, i - 1), t[i])
  <2>1. i - 1 \in 0 .. Len(s) /\ i - 1 \in 0 .. Len(t) /\ \A j \in 1 .. (i - 1) : j \in 1 .. Len(s)
    BY <1>2
  <2>2. SubSeq(s, 1, i - 1) = SubSeq(t, 1, i - 1)
    BY <1>1, <1>2, <2>1, SamePrefix, SMTT(30)
  <2>3. CASE i \in 1 .. Len(s)
    BY <1>2, <2>2, <2>3 DEF Valid
  <2>4. CASE i = Len(s) + 1
    <3>1. i - 1 = Len(s) /\ SubSeq(s, 1, Len(s)) = s
      BY <1>1, <1>2, <2>4, SubSeqFull
    <3> QED BY <1>2, <2>2, <2>4, <3>1
  <2> QED BY <1>2, <2>3, <2>4
<1> QED BY <1>2, <1>3 DEF Valid, t

\* What a crash leaves of a valid log is valid.
LEMMA ValidPrefix ==
  ASSUME NEW s, Valid(s), NEW k \in 0 .. Len(s)
  PROVE  Valid(SubSeq(s, 1, k))
<1> DEFINE t == SubSeq(s, 1, k)
<1>1. s \in Seq(Events)
  BY DEF Valid
<1>2. /\ t \in Seq(Events) /\ Len(t) = k /\ DOMAIN t = 1 .. k
      /\ \A i \in 1 .. k : t[i] = s[i]
      /\ Len(s) \in Nat /\ DOMAIN s = 1 .. Len(s)
  BY <1>1, Prefix, Entries
<1> HIDE DEF t
<1>3. ASSUME NEW i \in DOMAIN t
      PROVE  Legal(SubSeq(t, 1, i - 1), t[i])
  <2>1. /\ i - 1 \in 0 .. Len(s) /\ i - 1 \in 0 .. Len(t)
        /\ \A j \in 1 .. (i - 1) : j \in 1 .. k
        /\ i \in 1 .. Len(s) /\ i \in 1 .. k
    BY <1>2
  <2>2. SubSeq(s, 1, i - 1) = SubSeq(t, 1, i - 1)
    BY <1>1, <1>2, <2>1, SamePrefix
  <2> QED BY <1>2, <2>1, <2>2 DEF Valid
<1> QED BY <1>2, <1>3 DEF Valid, t

\* Every valid log is good: no shortest prefix is not.
LEMMA ValidGood == ASSUME NEW s, Valid(s) PROVE Good(s)
<1>1. s \in Seq(Events) /\ Len(s) \in Nat /\ DOMAIN s = 1 .. Len(s)
      /\ \A i \in 1 .. Len(s) : s[i] \in Events
  BY Entries DEF Valid
<1> DEFINE T == {n \in 0 .. Len(s) : ~Good(SubSeq(s, 1, n))}
<1>2. T = {}
  <2> SUFFICES ASSUME T # {} PROVE FALSE
    OBVIOUS
  <2>1. PICK n \in T : \A k \in T : n <= k
    <3>1. T \in SUBSET Nat
      BY <1>1
    <3> HIDE DEF T
    <3> QED BY <3>1, Least
  <2>2. n \in 0 .. Len(s) /\ ~Good(SubSeq(s, 1, n))
    BY <2>1
  <2>3. n # 0
    <3>1. SubSeq(s, 1, 0) = <<>>
      BY SubSeqEmpty
    <3> QED BY <2>2, <3>1, GoodEmpty
  <2>4. n - 1 \in 0 .. Len(s) /\ ~(n <= n - 1) /\ n \in 1 .. Len(s)
    BY <1>1, <2>2, <2>3
  <2>5. Good(SubSeq(s, 1, n - 1))
    BY <2>1, <2>4
  <2>6. SubSeq(s, 1, n - 1) \in Seq(Events) /\ s[n] \in Events
        /\ Legal(SubSeq(s, 1, n - 1), s[n])
    BY <1>1, <2>4, Prefix DEF Valid
  <2>7. Good(Append(SubSeq(s, 1, n - 1), s[n]))
    BY <2>5, <2>6, GoodStep
  <2> QED BY <1>1, <2>2, <2>4, <2>7, PrefixStep
<1>3. Len(s) \in 0 .. Len(s) /\ SubSeq(s, 1, Len(s)) = s
  BY <1>1, SubSeqFull
<1> QED BY <1>2, <1>3

\* A valid log replays.
LEMMA ValidReplays == ASSUME Valid(log) PROVE Replays
<1>1. log \in Seq(Events) /\ Len(log) \in Nat /\ DOMAIN log = 1 .. Len(log)
  BY Entries DEF Valid
<1>2. SUFFICES ASSUME NEW i \in DOMAIN log
      PROVE  LET mine == {r \in ActiveIn(SubSeq(log, 1, i - 1)) : r.id = log[i].id}
             IN CASE log[i].op = "create" ->
                       \A j \in 1 .. i - 1 : log[j].op # "create" \/ log[j].id # log[i].id
                  [] log[i].op = "delete" -> mine # {}
                  [] log[i].op = "dispatch" ->
                       \E r \in mine :
                         r.kind = log[i].kind /\ (r.kind = "every" => r.at <= log[i].at)
                  [] OTHER -> TRUE
  BY DEF Replays
<1> DEFINE b == SubSeq(log, 1, i - 1)
           e == log[i]
<1>3. i - 1 \in 0 .. Len(log)
  BY <1>1
<1>4. /\ b \in Seq(Events) /\ DOMAIN b = 1 .. (i - 1)
      /\ \A j \in 1 .. (i - 1) : b[j] = log[j]
      /\ Good(b) /\ Legal(b, e)
  BY <1>1, <1>3, Prefix, ValidPrefix, ValidGood DEF Valid
<1> HIDE DEF b, e
<1>5. ASSUME e.op = "create"
      PROVE  \A j \in 1 .. i - 1 : log[j].op # "create" \/ log[j].id # e.id
  <2>1. e.id = Cardinality(Creates(b)) + 1
    BY <1>4, <1>5 DEF Legal
  <2>2. \A j \in DOMAIN b : b[j].op = "create" => b[j].id # e.id
    BY <1>4, <2>1, FreshId
  <2> QED BY <1>4, <2>2
<1>6. ASSUME e.op = "delete" PROVE {r \in ActiveIn(b) : r.id = e.id} # {}
  BY <1>4, <1>6 DEF Legal
<1>7. ASSUME e.op = "dispatch"
      PROVE  \E r \in {r \in ActiveIn(b) : r.id = e.id} :
               r.kind = e.kind /\ (r.kind = "every" => r.at <= e.at)
  BY <1>4, <1>7 DEF Legal
<1> QED BY <1>5, <1>6, <1>7 DEF b, e

\* An occurrence presented is one of a reminder created before, on the grid of its
\* creation, and not deleted before.
LEMMA ValidReminds ==
  ASSUME Valid(log), NEW i \in DOMAIN log, log[i].op = "remind", NEW shown \in log[i].shown
  PROVE  /\ \A j \in 1 .. i : ~(log[j].op = "delete" /\ log[j].id = shown[1])
         /\ \E j \in 1 .. i :
              /\ log[j].op = "create" /\ log[j].id = shown[1]
              /\ shown[2] >= log[j].at /\ (shown[2] - log[j].at) % Interval = 0
<1> DEFINE b == SubSeq(log, 1, i - 1)
<1>1. log \in Seq(Events) /\ Len(log) \in Nat /\ DOMAIN log = 1 .. Len(log)
      /\ \A j \in 1 .. Len(log) : log[j] \in Events
  BY Entries DEF Valid
<1>2. /\ i - 1 \in 0 .. Len(log) /\ \A j \in 1 .. i : j = i \/ j \in 1 .. (i - 1)
      /\ \A j \in 1 .. (i - 1) : j \in 1 .. i /\ j \in 1 .. Len(log)
  BY <1>1
<1>3. /\ b \in Seq(Events) /\ DOMAIN b = 1 .. (i - 1)
      /\ \A j \in 1 .. (i - 1) : b[j] = log[j]
      /\ Good(b) /\ Legal(b, log[i])
  BY <1>1, <1>2, Prefix, ValidPrefix, ValidGood DEF Valid
<1> HIDE DEF b
<1>4. PICK r \in ActiveIn(b) : r.id = shown[1] /\ Reaches(r.at, shown[2])
  BY <1>3 DEF Legal
<1>5. PICK j \in DOMAIN b : Made(b, j, r) /\ Reaches(b[j].at, r.at)
  BY <1>3 DEF Good
<1>6. \A k \in DOMAIN b : ~(b[k].op = "delete" /\ b[k].id = r.id)
  BY <1>3 DEF Good
<1>7. j \in 1 .. i /\ log[j].op = "create" /\ log[j].id = shown[1] /\ b[j] = log[j]
  BY <1>2, <1>3, <1>4, <1>5 DEF Made
<1>8. log[j].at \in Nat /\ r.at \in Nat /\ shown[2] \in Nat
  <2>1. log[j] \in Events /\ log[i] \in Events /\ r \in Record
    BY <1>1, <1>2, <1>3, <1>5 DEF Good
  <2>2. shown \in Ids \X Nat
    BY <2>1 DEF Events
  <2> QED BY <2>1, <2>2 DEF Events, Record
<1>9. Reaches(log[j].at, shown[2])
  BY <1>4, <1>5, <1>7, <1>8, GridSum
<1>10. shown[2] >= log[j].at /\ (shown[2] - log[j].at) % Interval = 0
  BY <1>8, <1>9, OnGrid
<1>11. \A k \in 1 .. i : ~(log[k].op = "delete" /\ log[k].id = shown[1])
  BY <1>2, <1>3, <1>4, <1>6
<1> QED BY <1>7, <1>10, <1>11

\* Every record was created, by an event that a turn's end looks for.
LEMMA ActiveCreated ==
  ASSUME NEW s, Valid(s), NEW r \in ActiveIn(s)
  PROVE  /\ r \in Record
         /\ \E i \in DOMAIN s : s[i].op = "create" /\ s[i].id = r.id
BY ValidGood DEF Good, Made

-----------------------------------------------------------------------------
(* Occurrences *)

\* The follow-ups of a log that present an occurrence.
Shows(s, shown) == {i \in DOMAIN s : s[i].op = "remind" /\ shown \in s[i].shown}

\* They are finitely many.
LEMMA ShowsFinite ==
  ASSUME NEW s \in Seq(Events), NEW shown
  PROVE  /\ Shows(s, shown) \subseteq 1 .. Len(s) /\ IsFiniteSet(Shows(s, shown))
         /\ Cardinality(Shows(s, shown)) \in Nat
<1>1. Len(s) \in Nat /\ DOMAIN s = 1 .. Len(s)
  BY Entries
<1>2. IsFiniteSet(1 .. Len(s))
  BY <1>1, FS_Interval
<1>3. Shows(s, shown) \subseteq 1 .. Len(s)
  BY <1>1 DEF Shows
<1> QED BY <1>2, <1>3, FS_Subset, FS_CardinalityType

\* Only a follow-up that presents the occurrence adds one.
LEMMA ShowsAppend ==
  ASSUME NEW s \in Seq(Events), NEW e \in Events, NEW shown
  PROVE  Cardinality(Shows(Append(s, e), shown)) =
           Cardinality(Shows(s, shown)) + (IF e.op = "remind" /\ shown \in e.shown THEN 1 ELSE 0)
<1> DEFINE t == Append(s, e)
<1>1. /\ Len(s) \in Nat /\ DOMAIN s = 1 .. Len(s) /\ DOMAIN t = 1 .. (Len(s) + 1)
      /\ t[Len(s) + 1] = e /\ \A i \in 1 .. Len(s) : t[i] = s[i]
  BY Entries, Extended
<1>2. Shows(s, shown) \subseteq 1 .. Len(s) /\ IsFiniteSet(Shows(s, shown))
      /\ Cardinality(Shows(s, shown)) \in Nat
  BY ShowsFinite
<1> HIDE DEF t
<1>3. \A i \in 1 .. (Len(s) + 1) : i \in 1 .. Len(s) \/ i = Len(s) + 1
  BY <1>1
<1>4. Len(s) + 1 \in 1 .. (Len(s) + 1) /\ \A i \in 1 .. Len(s) : i \in 1 .. (Len(s) + 1)
  BY <1>1
<1>5. CASE e.op = "remind" /\ shown \in e.shown
  <2>1. Shows(t, shown) = Shows(s, shown) \cup {Len(s) + 1}
    BY <1>1, <1>3, <1>4, <1>5 DEF Shows
  <2>2. Len(s) + 1 \notin Shows(s, shown)
    BY <1>1, <1>2
  <2>3. Cardinality(Shows(s, shown) \cup {Len(s) + 1}) = Cardinality(Shows(s, shown)) + 1
    BY <1>2, <2>2, FS_AddElement
  <2> QED BY <1>5, <2>1, <2>3 DEF t
<1>6. CASE ~(e.op = "remind" /\ shown \in e.shown)
  <2>1. Shows(t, shown) = Shows(s, shown)
    BY <1>1, <1>3, <1>4, <1>6 DEF Shows
  <2> QED BY <1>2, <1>6, <2>1 DEF t
<1> QED BY <1>5, <1>6

\* A crash takes some away.
LEMMA ShowsPrefix ==
  ASSUME NEW s \in Seq(Events), NEW k \in 0 .. Len(s), NEW shown
  PROVE  Cardinality(Shows(SubSeq(s, 1, k), shown)) <= Cardinality(Shows(s, shown))
<1>1. Shows(SubSeq(s, 1, k), shown) \subseteq Shows(s, shown)
  <2>1. /\ DOMAIN SubSeq(s, 1, k) = 1 .. k /\ \A i \in 1 .. k : SubSeq(s, 1, k)[i] = s[i]
        /\ \A i \in 1 .. k : i \in DOMAIN s
    BY Prefix, Entries
  <2> QED BY <2>1 DEF Shows
<1> QED BY <1>1, ShowsFinite, FS_Subset

\* An occurrence presented is that of a reminder created.
LEMMA ShownCreated ==
  ASSUME NEW s, Valid(s), NEW shown, NEW i \in Shows(s, shown)
  PROVE  \E j \in DOMAIN s : s[j].op = "create" /\ s[j].id = shown[1]
<1> DEFINE b == SubSeq(s, 1, i - 1)
<1>1. s \in Seq(Events) /\ Len(s) \in Nat /\ DOMAIN s = 1 .. Len(s) /\ i \in 1 .. Len(s)
      /\ s[i].op = "remind" /\ shown \in s[i].shown
  BY Entries DEF Valid, Shows
<1>2. i - 1 \in 0 .. Len(s) /\ \A j \in 1 .. (i - 1) : j \in 1 .. Len(s)
  BY <1>1
<1>3. /\ DOMAIN b = 1 .. (i - 1) /\ \A j \in 1 .. (i - 1) : b[j] = s[j]
      /\ Valid(b) /\ Legal(b, s[i])
  BY <1>1, <1>2, Prefix, ValidPrefix DEF Valid
<1> HIDE DEF b
<1>4. PICK r \in ActiveIn(b) : r.id = shown[1]
  BY <1>1, <1>3 DEF Legal
<1>5. \E j \in DOMAIN b : b[j].op = "create" /\ b[j].id = r.id
  BY <1>3, ActiveCreated
<1> QED BY <1>1, <1>2, <1>3, <1>4, <1>5

-----------------------------------------------------------------------------
(* A claim *)

\* The batch is of active records whose target has come.
LEMMA BatchDue ==
  ASSUME Valid(log)
  PROVE  /\ Batch \subseteq Active /\ Active \subseteq Record
         /\ \A r \in Batch : r \in Record /\ r.at <= now
         /\ IsFiniteSet(Batch)
         /\ \A r, q \in Active : r.id = q.id => r = q
<1>1. Batch \subseteq Active /\ \A r \in Batch : r.at <= now
  BY DEF Batch, Once, Due
<1>2. Active \subseteq Record /\ IsFiniteSet(Active) /\ \A r, q \in Active : r.id = q.id => r = q
  BY ValidGood DEF Good, Active
<1> QED BY <1>1, <1>2, FS_Subset

\* What a follow-up presents, one occurrence for each record of the batch.
LEMMA ShownDue ==
  ASSUME Valid(log), now \in Nat, NEW shown \in Shown
  PROVE  \E r \in Batch :
           /\ shown = <<r.id, IF r.kind = "once" THEN r.at ELSE Occurrence(r.at, now)>>
           /\ r.id = shown[1] /\ shown \in Ids \X Nat
           /\ r.at <= shown[2] /\ Reaches(r.at, shown[2])
           /\ shown[2] < NextAt(r.at, now) \/ r.kind = "once"
<1>1. PICK r \in Batch :
        shown = <<r.id, IF r.kind = "once" THEN r.at ELSE Occurrence(r.at, now)>>
  BY DEF Shown
<1>2. r \in Record /\ r.id \in Ids /\ r.at \in Nat /\ r.at <= now
  BY BatchDue DEF Record
<1>3. CASE r.kind = "once"
  <2>1. shown[1] = r.id /\ shown[2] = r.at /\ shown \in Ids \X Nat /\ r.at <= r.at
    BY <1>1, <1>2, <1>3
  <2>2. Reaches(r.at, r.at)
    BY <1>2, GridHere
  <2> QED BY <1>1, <1>3, <2>1, <2>2
<1>4. CASE r.kind # "once"
  <2> DEFINE o == Occurrence(r.at, now)
  <2>1. o \in Nat /\ r.at <= o /\ o < NextAt(r.at, now) /\ Reaches(r.at, o)
    BY <1>2, Grid
  <2>2. shown = <<r.id, o>>
    BY <1>1, <1>4
  <2> HIDE DEF o
  <2>3. shown[1] = r.id /\ shown[2] = o /\ shown \in Ids \X Nat
    BY <1>2, <2>1, <2>2
  <2> QED BY <1>1, <2>1, <2>3
<1> QED BY <1>3, <1>4

\* The follow-up is legal.
LEMMA ReminderLegal ==
  ASSUME Valid(log), now \in Nat
  PROVE  Reminded(Shown) \in Events /\ Legal(log, Reminded(Shown))
<1>1. \A shown \in Shown : shown \in Ids \X Nat
        /\ \E r \in Active : r.id = shown[1] /\ Reaches(r.at, shown[2])
  BY ShownDue, BatchDue
<1>2. /\ Reminded(Shown).op = "remind" /\ Reminded(Shown).shown = Shown
      /\ Reminded(Shown) \in Events
  BY <1>1 DEF Reminded, Event, Events, Ids
<1> QED BY <1>1, <1>2 DEF Legal, Active

\* An enumeration of a finite set names each member once.
LEMMA Ordered ==
  ASSUME NEW S, IsFiniteSet(S), NEW q \in SetToSeqs(S)
  PROVE  /\ q \in Seq(S) /\ Len(q) \in Nat
         /\ \A i \in 1 .. Len(q) : q[i] \in S
         /\ \A i, j \in 1 .. Len(q) : i # j => q[i] # q[j]
         /\ \A x \in S : \E i \in 1 .. Len(q) : q[i] = x
<1> DEFINE n == Cardinality(S)
<1>1. n \in Nat
  BY FS_CardinalityType
<1>2. q \in [1 .. n -> S] /\ \A i, j \in 1 .. n : i # j => q[i] # q[j]
  BY DEF SetToSeqs
<1>3. IsFiniteSet(1 .. n) /\ Cardinality(1 .. n) = n
  BY <1>1, FS_Interval, SMTT(30)
<1>4. q \in Seq(S) /\ Len(q) = n
  BY <1>1, <1>2, SeqDef
<1>5. q \in Injection(1 .. n, S)
  BY <1>2 DEF Injection, IsInjective
<1>6. q \in Surjection(1 .. n, S)
  BY <1>3, <1>5, FS_Injection
<1>7. \A x \in S : \E i \in 1 .. n : q[i] = x
  BY <1>6 DEF Surjection
<1> QED BY <1>1, <1>2, <1>4, <1>7

\* The log of a claim after k of its dispatches.
Claimed(order, k) ==
  Append(log, Reminded(Shown)) \o [i \in 1 .. k |-> Dispatch(order[i])]

\* The records of a claim after k of its dispatches: those of before, but that the
\* dispatched one-shots are gone and the dispatched fixed-rate ones stand behind now.
Advanced(order, k) ==
  /\ \A r \in ActiveIn(Claimed(order, k)) :
       \/ r \in Active /\ \A i \in 1 .. k : order[i].id # r.id
       \/ \E i \in 1 .. k : /\ order[i].kind = "every"
                            /\ r = [order[i] EXCEPT !.at = NextAt(order[i].at, now)]
  /\ \A j \in 1 .. Len(order) : j > k => order[j] \in ActiveIn(Claimed(order, k))

\* What a dispatch is.
LEMMA DispatchEvent ==
  ASSUME NEW r \in Record, now \in Nat
  PROVE  /\ Dispatch(r) \in Events /\ Dispatch(r).op = "dispatch"
         /\ Dispatch(r).id = r.id /\ Dispatch(r).kind = r.kind
         /\ r.kind = "every" => Dispatch(r).at = now
<1>1. r.id \in Ids /\ r.kind \in {"once", "every"}
  BY DEF Record
<1>2. Dispatch(r) = [op |-> "dispatch", id |-> r.id, kind |-> r.kind,
                     at |-> IF r.kind = "once" THEN 0 ELSE now, shown |-> {}]
  BY DEF Dispatch, Dispatched, Event
<1> QED BY <1>1, <1>2 DEF Events

\* One more dispatch.
LEMMA ClaimedStep ==
  ASSUME Valid(log), now \in Nat, NEW order \in SetToSeqs(Batch), NEW k \in 1 .. Len(order),
         Claimed(order, k - 1) \in Seq(Events)
  PROVE  Claimed(order, k) = Append(Claimed(order, k - 1), Dispatch(order[k]))
<1> DEFINE a == Append(log, Reminded(Shown))
           d(n) == [i \in 1 .. n |-> Dispatch(order[i])]
           s == Claimed(order, k - 1)
           e == Dispatch(order[k])
<1>1. /\ Len(order) \in Nat /\ k \in Nat /\ k - 1 \in Nat /\ (k - 1) + 1 = k
      /\ \A i \in 1 .. Len(order) : order[i] \in Record
  <2>1. \A i \in 1 .. Len(order) : order[i] \in Batch
    BY BatchDue, Ordered
  <2>2. Len(order) \in Nat
    BY BatchDue, Ordered
  <2> QED BY <2>1, <2>2, BatchDue
<1>2. \A i \in 1 .. Len(order) : Dispatch(order[i]) \in Events
  BY <1>1, DispatchEvent
<1>3. a \in Seq(Events) /\ Len(a) \in Nat
  <2>1. log \in Seq(Events) /\ Reminded(Shown) \in Events
    BY ReminderLegal DEF Valid
  <2> QED BY <2>1, Extended, Entries
<1>4. ASSUME NEW n \in {k - 1, k}
      PROVE  /\ d(n) \in Seq(Events) /\ Len(d(n)) = n
             /\ \A i \in 1 .. n : d(n)[i] = Dispatch(order[i])
  <2>1. n \in Nat /\ \A i \in 1 .. n : i \in 1 .. Len(order)
    BY <1>1
  <2>2. d(n) \in [1 .. n -> Events]
    BY <1>2, <2>1
  <2>3. d(n) \in Seq(Events) /\ Len(d(n)) = n
    BY <2>1, <2>2, SeqDef
  <2> QED BY <2>3
<1>5. d(k) = Append(d(k - 1), e)
  <2> DEFINE u == d(k)
             v == d(k - 1)
  <2>1. /\ u \in Seq(Events) /\ Len(u) = k /\ \A i \in 1 .. k : u[i] = Dispatch(order[i])
        /\ v \in Seq(Events) /\ Len(v) = k - 1
        /\ \A i \in 1 .. (k - 1) : v[i] = Dispatch(order[i])
    BY <1>4
  <2>2. e \in Events
    BY <1>2
  <2> HIDE DEF u, v, e
  <2> DEFINE w == Append(v, e)
  <2>3. /\ w \in Seq(Events) /\ Len(w) = (k - 1) + 1 /\ w[(k - 1) + 1] = e
        /\ \A i \in 1 .. (k - 1) : w[i] = v[i]
    BY <2>1, <2>2, AppendProperties, SMTT(30)
  <2> HIDE DEF w
  <2>4. k \in 1 .. k /\ \A i \in 1 .. k : i = k \/ i \in 1 .. (k - 1)
    BY <1>1
  <2>5. Len(w) = k /\ w[k] = e /\ \A i \in 1 .. (k - 1) : w[i] = Dispatch(order[i])
    BY <1>1, <2>1, <2>3, Zenon
  <2>6. \A i \in 1 .. k : u[i] = w[i]
    BY <2>1, <2>4, <2>5, Zenon DEF e
  <2>7. u = w
    BY <2>1, <2>3, <2>5, <2>6, SeqEqual
  <2> QED BY <2>7 DEF u, v, w
<1>6. Claimed(order, k) = a \o d(k) /\ s = a \o d(k - 1)
  BY DEF Claimed
<1>7. d(k - 1) \in Seq(Events) /\ e \in Events
  BY <1>2, <1>4
<1> HIDE DEF a, d, e, s
<1> DEFINE v == d(k - 1)
           one == <<e>>
<1>8. Append(v, e) = v \o one /\ Append(a \o v, e) = (a \o v) \o one
  <2>1. a \o v \in Seq(Events)
    BY <1>3, <1>7, ConcatProperties
  <2> QED BY <1>7, <2>1, AppendIsConcat
<1>9. (a \o v) \o one = a \o (v \o one)
  <2>1. one \in Seq(Events) /\ v \in Seq(Events)
    BY <1>7
  <2> HIDE DEF v, one
  <2> HIDE ScheduleAssumption
  <2> QED BY <1>3, <2>1, ConcatAssociative, SMTT(30)
<1> QED BY <1>5, <1>6, <1>8, <1>9 DEF s, e

\* A claim's first entry is the follow-up alone.
LEMMA ClaimedNone ==
  ASSUME Valid(log), now \in Nat, NEW order
  PROVE  Claimed(order, 0) = Append(log, Reminded(Shown))
<1> DEFINE a == Append(log, Reminded(Shown))
           none == [i \in 1 .. 0 |-> Dispatch(order[i])]
<1>1. a \in Seq(Events)
  <2>1. log \in Seq(Events) /\ Reminded(Shown) \in Events
    BY ReminderLegal DEF Valid
  <2> QED BY <2>1, Extended
<1>2. none = <<>>
  OBVIOUS
<1>3. Claimed(order, 0) = a \o none
  BY DEF Claimed
<1> HIDE DEF a, none
<1>4. Claimed(order, 0) = a
  BY <1>1, <1>2, <1>3, ConcatEmptySeq
<1> QED BY <1>4 DEF a

\* The follow-up leaves the records as they were.
LEMMA ClaimStart ==
  ASSUME Valid(log), now \in Nat, NEW order \in SetToSeqs(Batch)
  PROVE  /\ Valid(Claimed(order, 0)) /\ Advanced(order, 0)
         /\ \A shown : Cardinality(Shows(Claimed(order, 0), shown)) =
              Cardinality(Shows(log, shown)) + (IF shown \in Shown THEN 1 ELSE 0)
<1> DEFINE e == Reminded(Shown)
           s == Claimed(order, 0)
<1>1. e \in Events /\ Legal(log, e) /\ log \in Seq(Events)
  BY ReminderLegal DEF Valid
<1>2. s = Append(log, e)
  BY ClaimedNone
<1>3. e.op = "remind" /\ e.shown = Shown
  BY DEF Reminded, Event
<1>4. ActiveIn(log) \subseteq Record
  BY ValidGood DEF Good
<1> HIDE DEF e, s
<1>5. Valid(s)
  BY <1>1, <1>2, ValidAppend
<1>6. ActiveIn(s) = Active
  <2>1. ActiveIn(s) = Fold(ActiveIn(log), e)
    BY <1>1, <1>2, ActiveAppend
  <2>2. Fold(ActiveIn(log), e) = ActiveIn(log)
    BY <1>1, <1>3, <1>4, Folded
  <2> QED BY <2>1, <2>2 DEF Active
<1>7. Advanced(order, 0)
  <2>1. \A j \in 1 .. Len(order) : order[j] \in Active
    BY BatchDue, Ordered
  <2> QED BY <1>6, <2>1 DEF Advanced, s
<1>8. \A shown : Cardinality(Shows(s, shown)) =
        Cardinality(Shows(log, shown)) + (IF shown \in Shown THEN 1 ELSE 0)
  BY <1>1, <1>2, <1>3, ShowsAppend
<1> QED BY <1>5, <1>7, <1>8 DEF s

\* A dispatch takes its record away or advances it.
LEMMA ClaimDispatch ==
  ASSUME Valid(log), now \in Nat, NEW order \in SetToSeqs(Batch), NEW k \in 1 .. Len(order),
         Valid(Claimed(order, k - 1)), Advanced(order, k - 1)
  PROVE  /\ Valid(Claimed(order, k)) /\ Advanced(order, k)
         /\ \A shown : Cardinality(Shows(Claimed(order, k), shown)) =
              Cardinality(Shows(Claimed(order, k - 1), shown))
<1> DEFINE s == Claimed(order, k - 1)
           t == Claimed(order, k)
           r == order[k]
           e == Dispatch(r)
<1>1. /\ Len(order) \in Nat /\ \A i \in 1 .. Len(order) : order[i] \in Batch
      /\ \A i, j \in 1 .. Len(order) : i # j => order[i] # order[j]
  BY BatchDue, Ordered
<1>2. r \in Record /\ r.at <= now
  BY <1>1, BatchDue
<1>3. /\ e \in Events /\ e.op = "dispatch" /\ e.id = r.id /\ e.kind = r.kind
      /\ r.kind = "every" => e.at = now
  BY <1>2, DispatchEvent
<1>4. s \in Seq(Events) /\ Good(s) /\ t = Append(s, e)
  BY ClaimedStep, ValidGood DEF Valid
<1>5. k \in Nat /\ k > k - 1 /\ k \in 1 .. Len(order)
  BY <1>1
<1>6. r \in ActiveIn(s)
  BY <1>5 DEF Advanced
<1>7. \A x \in ActiveIn(s) :
        \/ x \in Active /\ \A i \in 1 .. (k - 1) : order[i].id # x.id
        \/ \E i \in 1 .. (k - 1) :
             order[i].kind = "every" /\ x = [order[i] EXCEPT !.at = NextAt(order[i].at, now)]
  BY DEF Advanced
<1>8. \A j \in 1 .. Len(order) : j > k - 1 => order[j] \in ActiveIn(s)
  BY DEF Advanced
<1>9. /\ \A i \in 1 .. (k - 1) : i \in 1 .. k
      /\ \A i \in 1 .. k : i = k \/ i \in 1 .. (k - 1)
      /\ \A j \in 1 .. Len(order) : j > k => j > k - 1 /\ j # k
  BY <1>1, <1>5
<1> HIDE DEF s, t, e
<1>10. Legal(s, e)
  <2>1. r.id = e.id /\ r.kind = e.kind /\ (r.kind = "every" => r.at <= e.at)
    BY <1>2, <1>3
  <2> QED BY <1>3, <1>6, <2>1 DEF Legal
<1>11. Valid(t)
  BY <1>3, <1>4, <1>10, ValidAppend DEF s
<1>12. ASSUME NEW x \in ActiveIn(t)
       PROVE  \/ x \in Active /\ \A i \in 1 .. k : order[i].id # x.id
              \/ \E i \in 1 .. k :
                   order[i].kind = "every" /\ x = [order[i] EXCEPT !.at = NextAt(order[i].at, now)]
  <2>1. \/ x \in ActiveIn(s) /\ x.id # e.id
        \/ /\ e.kind = "every"
           /\ \E q \in ActiveIn(s) : q.id = e.id /\ x = [q EXCEPT !.at = NextAt(q.at, e.at)]
    BY <1>3, <1>4, <1>10, Survives
  <2>2. CASE x \in ActiveIn(s) /\ x.id # e.id
    BY <1>3, <1>7, <1>9, <2>2
  <2>3. CASE /\ e.kind = "every"
             /\ \E q \in ActiveIn(s) : q.id = e.id /\ x = [q EXCEPT !.at = NextAt(q.at, e.at)]
    <3>1. PICK q \in ActiveIn(s) : q.id = e.id /\ x = [q EXCEPT !.at = NextAt(q.at, e.at)]
      BY <2>3
    <3>2. q = r
      BY <1>3, <1>4, <1>6, <3>1, SMTT(30) DEF Good
    <3>3. r.kind = "every" /\ x = [r EXCEPT !.at = NextAt(r.at, now)]
      BY <1>3, <2>3, <3>1, <3>2
    <3>4. k \in 1 .. k
      BY <1>5
    <3> QED BY <3>3, <3>4
  <2> QED BY <2>1, <2>2, <2>3
<1>13. ASSUME NEW j \in 1 .. Len(order), j > k
       PROVE  order[j] \in ActiveIn(t)
  <2>1. order[j] \in ActiveIn(s) /\ order[j] # r
    BY <1>1, <1>5, <1>8, <1>9, <1>13
  <2>2. order[j].id # e.id
    BY <1>3, <1>4, <1>6, <2>1, SMTT(30) DEF Good
  <2> DEFINE before == ActiveIn(s)
  <2>3. ActiveIn(t) = Fold(before, e) /\ before \in SUBSET Record
    BY <1>3, <1>4, ActiveAppend DEF Good
  <2>4. e.kind \in {"once", "every"}
    BY <1>2, <1>3 DEF Record
  <2>5. CASE e.kind = "once"
    <3> HIDE DEF before
    <3>1. ActiveIn(t) = {x \in before : x.id # e.id}
      BY <1>3, <2>3, <2>5, Folded
    <3> QED BY <2>1, <2>2, <3>1 DEF before
  <2>6. CASE e.kind = "every"
    <3> HIDE DEF before
    <3>0. Fold(before, e) = {x \in before : x.id # e.id}
            \cup {[x EXCEPT !.at = NextAt(x.at, e.at)] : x \in {q \in before : q.id = e.id}}
      BY <1>3, <2>3, <2>6, Folded
    <3>1. {x \in before : x.id # e.id} \subseteq ActiveIn(t)
      BY <2>3, <3>0
    <3> QED BY <2>1, <2>2, <3>1 DEF before
  <2> QED BY <2>4, <2>5, <2>6
<1>14. Advanced(order, k)
  BY <1>12, <1>13 DEF Advanced, t
<1>15. \A shown : Cardinality(Shows(t, shown)) = Cardinality(Shows(s, shown))
  <2>1. \A shown : Cardinality(Shows(t, shown)) = Cardinality(Shows(s, shown)) + 0
    BY <1>3, <1>4, ShowsAppend
  <2>2. \A shown : Cardinality(Shows(s, shown)) \in Nat
    BY <1>4, ShowsFinite
  <2> QED BY <2>1, <2>2
<1> QED BY <1>11, <1>14, <1>15 DEF s, t

\* A claim leaves a valid log however many of its dispatches were appended: no first
\* dispatch does otherwise.
LEMMA ClaimLog ==
  ASSUME Valid(log), now \in Nat, NEW order \in SetToSeqs(Batch), NEW k \in 0 .. Len(order)
  PROVE  /\ Valid(Claimed(order, k)) /\ Advanced(order, k)
         /\ \A shown : Cardinality(Shows(Claimed(order, k), shown)) =
              Cardinality(Shows(log, shown)) + (IF shown \in Shown THEN 1 ELSE 0)
<1> DEFINE Fine(n) ==
             /\ Valid(Claimed(order, n)) /\ Advanced(order, n)
             /\ \A shown : Cardinality(Shows(Claimed(order, n), shown)) =
                  Cardinality(Shows(log, shown)) + (IF shown \in Shown THEN 1 ELSE 0)
           T == {n \in 0 .. Len(order) : ~Fine(n)}
<1>1. Len(order) \in Nat
  BY BatchDue, Ordered
<1>2. T = {}
  <2> SUFFICES ASSUME T # {} PROVE FALSE
    OBVIOUS
  <2>1. PICK n \in T : \A m \in T : n <= m
    <3>1. T \in SUBSET Nat
      BY <1>1
    <3> HIDE DEF T
    <3> QED BY <3>1, Least
  <2>2. n \in 0 .. Len(order) /\ ~Fine(n)
    BY <2>1
  <2>3. Fine(0)
    BY ClaimStart
  <2>4. n # 0
    BY <2>2, <2>3
  <2>5. n - 1 \in 0 .. Len(order) /\ ~(n <= n - 1) /\ n \in 1 .. Len(order)
    BY <1>1, <2>2, <2>4
  <2>6. Fine(n - 1)
    BY <2>1, <2>5
  <2>7. /\ Valid(Claimed(order, n)) /\ Advanced(order, n)
        /\ \A shown : Cardinality(Shows(Claimed(order, n), shown)) =
             Cardinality(Shows(Claimed(order, n - 1), shown))
    BY <2>5, <2>6, ClaimDispatch
  <2>8. Fine(n)
    BY <2>6, <2>7
  <2> QED BY <2>2, <2>8
<1> QED BY <1>2

-----------------------------------------------------------------------------
(* The invariant *)

\* The tool calls.
CallTypes ==
  call \in [Calls -> [pc : {"idle", "queued", "barrier", "done"},
                      op : {"none", "create", "delete", "list", "uncertain"},
                      id : Nat, shown : SUBSET Nat]]

\* The log, and how much of it is durable.
LogInv == Valid(log) /\ saved \in 0 .. Len(log)

\* The rest of the state.
StateTypes ==
  /\ now \in 0 .. MaxTime /\ back \in 0 .. MaxBack
  /\ agent \in {"idle", "running", "maintenance"}
  /\ run \in {"none", "queued", "maintenance", "barrier", "ending"}
  /\ timer \in Nat \cup {None}
  /\ requested \in BOOLEAN /\ idleWait \in BOOLEAN /\ failed \in BOOLEAN
  /\ faulted \in BOOLEAN /\ stopping \in BOOLEAN
  /\ lives \in Nat \ {0}

\* A fault ends the run that met it, and none begins.
FaultInv == faulted => run \in {"maintenance", "ending", "none"}

\* The flush of a call is behind a change that the log holds.
CallInv ==
  \A t \in Calls : call[t].pc = "barrier" =>
    /\ call[t].op \in {"create", "delete"}
    /\ \E i \in DOMAIN log : log[i].op = call[t].op /\ log[i].id = call[t].id

\* Is the occurrence still to come for its record?
Open(shown) == \E r \in Active : r.id = shown[1] /\ r.at <= shown[2]

\* Each life of the runtime presents an occurrence once, and one still to come was
\* presented in none but earlier lives.
OnceInv ==
  \A shown \in Ids \X Nat :
    /\ Cardinality(Shows(log, shown)) <= lives
    /\ ~faulted /\ Open(shown) => Cardinality(Shows(log, shown)) < lives

\* The inductive invariant.
Inv ==
  /\ LogInv /\ StateTypes /\ CallTypes
  /\ FaultInv /\ CallInv /\ ConfirmedHolds
  /\ WakeGuaranteed /\ OnceInv

\* What the invariant says of the properties.
LEMMA InvTypes == ASSUME Inv PROVE TypeOK
<1>1. Replays /\ saved \in 0 .. Len(log)
  BY ValidReplays DEF Inv, LogInv
<1>2. \A t \in Calls : call[t].pc \in {"idle", "queued", "barrier", "done"}
  BY DEF Inv, CallTypes
<1> QED BY <1>1, <1>2 DEF Inv, StateTypes, TypeOK

\* How often is from OnceInv, the rest from what a valid log presents.
LEMMA InvReminds == ASSUME Inv PROVE RemindedOnce
<1>1. Valid(log) /\ OnceInv /\ log \in Seq(Events)
  BY DEF Inv, LogInv, Valid
<1>2. ASSUME NEW i \in DOMAIN log, log[i].op = "remind", NEW shown \in log[i].shown
      PROVE  Cardinality({j \in {k \in DOMAIN log : log[k].op = "remind"} :
                            shown \in log[j].shown}) <= lives
  <2>1. {j \in {k \in DOMAIN log : log[k].op = "remind"} : shown \in log[j].shown}
          = Shows(log, shown)
    BY DEF Shows
  <2>2. log[i] \in Events
    BY <1>1, Entries
  <2>3. shown \in Ids \X Nat
    BY <1>2, <2>2 DEF Events
  <2> QED BY <1>1, <2>1, <2>3 DEF OnceInv
<1> QED BY <1>1, <1>2, ValidReminds DEF RemindedOnce

\* What a call confirmed or listed is in the durable part of the log.
Kept(op, id) == \E i \in 1 .. saved : log[i].op = op /\ log[i].id = id

\* What the calls confirmed, by what is kept.
LEMMA Confirmed ==
  ASSUME log \in Seq(Events), saved \in 0 .. Len(log)
  PROVE  ConfirmedHolds <=>
           \A t \in Calls : call[t].pc = "done" =>
             /\ call[t].op \in {"create", "delete"} => Kept(call[t].op, call[t].id)
             /\ \A id \in call[t].shown : Kept("create", id)
<1> DEFINE kept == SubSeq(log, 1, saved)
           Holds(op, id) == \E i \in DOMAIN kept : kept[i].op = op /\ kept[i].id = id
<1>1. DOMAIN kept = 1 .. saved /\ \A i \in 1 .. saved : kept[i] = log[i]
  BY Prefix
<1>2. \A op, id : Holds(op, id) <=> Kept(op, id)
  BY <1>1 DEF Kept
<1>3. ConfirmedHolds <=>
        \A t \in Calls : call[t].pc = "done" =>
          /\ call[t].op \in {"create", "delete"} => Holds(call[t].op, call[t].id)
          /\ \A id \in call[t].shown : Holds("create", id)
  BY DEF ConfirmedHolds
<1> HIDE DEF Holds, kept
<1> QED BY <1>2, <1>3, Zenon

-----------------------------------------------------------------------------
(* The log of a step *)

\* What a tool writes.
LEMMA CreateLegal ==
  ASSUME Inv, NEW t \in Calls, NEW kind \in {"once", "every"}, ToolCreates(t, kind)
  PROVE  \E e \in Events :
           /\ e.op = "create" /\ e.id = Cardinality(Creates(log)) + 1
           /\ Legal(log, e) /\ Writes(t, e) /\ call[t].op = "create"
<1>1. log \in Seq(Events) /\ now \in Nat /\ Cardinality(Creates(log)) \in Nat
  BY Entries DEF Inv, LogInv, Valid, StateTypes
<1>2. Seen = Creates(log)
  BY DEF Seen, Creates
<1>3. PICK at \in Begins(kind) : Writes(t, Created(Cardinality(Seen) + 1, kind, at))
  BY DEF ToolCreates
<1> DEFINE e == Created(Cardinality(Seen) + 1, kind, at)
<1>4. Writes(t, e) /\ call[t].op = "create" /\ at \in Nat
  BY <1>1, <1>3 DEF ToolCreates, Begins
<1>5. /\ e \in Events /\ e.op = "create" /\ e.kind = kind
      /\ e.id = Cardinality(Creates(log)) + 1
  BY <1>1, <1>2, <1>4 DEF Created, Event, Events, Ids
<1> HIDE DEF e
<1>6. Legal(log, e)
  BY <1>5 DEF Legal
<1> QED BY <1>4, <1>5, <1>6

\* The deletion of an active record is legal.
LEMMA DeleteLegal ==
  ASSUME Inv, NEW t \in Calls, ToolDeletes(t)
  PROVE  \E e \in Events :
           /\ e.op = "delete" /\ Legal(log, e) /\ Writes(t, e) /\ call[t].op = "delete"
<1> DEFINE e == Deleted(call[t].id)
<1>1. call[t].id \in Nat
  BY DEF Inv, CallTypes
<1>2. Writes(t, e) /\ call[t].op = "delete" /\ \E r \in Active : r.id = call[t].id
  BY DEF ToolDeletes, Deletable
<1>3. e \in Events /\ e.op = "delete" /\ e.id = call[t].id
  BY <1>1 DEF Deleted, Event, Events, Ids
<1> HIDE DEF e
<1>4. Legal(log, e)
  BY <1>2, <1>3 DEF Legal, Active
<1> QED BY <1>2, <1>3, <1>4

\* A claim in any order of the batch.
Claims == \E order \in SetToSeqs(Batch) : \E k \in 0 .. Len(order) : Claim(order, k)

\* A claim, two tools and a crash write the log, and nothing else does.
LEMMA Writers ==
  ASSUME Inv, [Next]_vars
  PROVE  \/ log' = log /\ saved' \in {saved, Len(log)}
         \/ Claims
         \/ \E t \in Calls : \E kind \in {"once", "every"} : ToolCreates(t, kind)
         \/ \E t \in Calls : ToolDeletes(t)
         \/ Restart
<1> USE DEF clock, stored, runtime, owner
<1>1. CASE Drive
  <2>1. DriveClaims => Claims
    BY DEF DriveClaims, Orders, Claims
  <2>2. DriveStopped \/ DriveUnsaved \/ DriveWaits \/ DriveBusy \/ ClaimFails =>
          log' = log /\ saved' \in {saved, Len(log)}
    BY DEF DriveStopped, DriveUnsaved, DriveWaits, DriveBusy, ClaimFails
  <2> QED BY <1>1, <2>1, <2>2 DEF Drive
<1>2. CASE Released \/ Barrier \/ Retire \/ TimerFires \/ IdleWaitEnds
  BY <1>2 DEF Released, Barrier, Retire, TimerFires, IdleWaitEnds
<1>3. ASSUME NEW t \in Calls, ToolRefused(t) \/ ToolReads(t) \/ ToolAborts(t) \/ ToolBarrier(t)
      PROVE  log' = log /\ saved' \in {saved, Len(log)}
  BY <1>3 DEF ToolRefused, ToolReads, ToolAborts, ToolBarrier
<1>4. ASSUME NEW t \in Calls, ToolStep(t)
      PROVE  \/ log' = log /\ saved' \in {saved, Len(log)}
             \/ \E kind \in {"once", "every"} : ToolCreates(t, kind)
             \/ ToolDeletes(t)
  BY <1>3, <1>4 DEF ToolStep
<1>5. ASSUME NEW t, NEW op, NEW id, CallTool(t, op, id)
      PROVE  log' = log /\ saved' = saved
  BY <1>5 DEF CallTool
<1>6. CASE UserTurn \/ OtherMaintenance \/ OtherReleases \/ TurnEnds \/ Tick \/ TurnBack
           \/ Dispose \/ UNCHANGED vars
  BY <1>6 DEF UserTurn, OtherMaintenance, OtherReleases, TurnEnds, Tick, TurnBack, Dispose, vars
<1> QED BY <1>1, <1>2, <1>4, <1>5, <1>6 DEF Next

\* The log stays valid; but for a crash it only grows, and so does its durable part.
LEMMA LogStep ==
  ASSUME Inv, [Next]_vars
  PROVE  /\ LogInv'
         /\ \/ Restart
            \/ /\ Len(log) <= Len(log') /\ \A i \in 1 .. Len(log) : log'[i] = log[i]
               /\ saved' >= saved
<1>1. Valid(log) /\ log \in Seq(Events) /\ saved \in 0 .. Len(log) /\ Len(log) \in Nat
      /\ now \in Nat
  BY Entries DEF Inv, LogInv, StateTypes, Valid
<1>2. CASE log' = log /\ saved' \in {saved, Len(log)}
  BY <1>1, <1>2 DEF LogInv
<1>3. CASE Claims
  <2>1. PICK order \in SetToSeqs(Batch) : \E k \in 0 .. Len(order) : Claim(order, k)
    BY <1>3 DEF Claims
  <2>2. PICK k \in 0 .. Len(order) : Claim(order, k)
    BY <2>1
  <2>3. log' = Claimed(order, k) /\ saved' = Len(log)
    BY <2>2 DEF Claim, Claimed
  <2>4. Valid(log')
    BY <1>1, <2>3, ClaimLog
  <2> DEFINE a == Append(log, Reminded(Shown))
             d == [i \in 1 .. k |-> Dispatch(order[i])]
  <2>5. a \in Seq(Events) /\ Len(a) = Len(log) + 1 /\ \A i \in 1 .. Len(log) : a[i] = log[i]
    BY <1>1, ReminderLegal, Extended
  <2>6. d \in Seq(Events)
    <3>1. Len(order) \in Nat /\ \A i \in 1 .. Len(order) : order[i] \in Record
      BY <1>1, BatchDue, Ordered
    <3>2. k \in Nat /\ \A i \in 1 .. k : i \in 1 .. Len(order)
      BY <3>1
    <3>3. d \in [1 .. k -> Events]
      BY <1>1, <3>1, <3>2, DispatchEvent
    <3> QED BY <3>2, <3>3, SeqDef
  <2>7. log' = a \o d
    BY <2>3 DEF Claimed
  <2> HIDE DEF a, d
  <2>8. Len(d) \in Nat
    BY <2>6, Entries
  <2>9. /\ Len(log') = Len(a) + Len(d)
        /\ \A i \in 1 .. Len(a) + Len(d) : log'[i] = IF i <= Len(a) THEN a[i] ELSE d[i - Len(a)]
    BY <2>5, <2>6, <2>7, ConcatProperties, ZenonT(60)
  <2>10. Len(log) <= Len(log') /\ Len(log) \in 0 .. Len(log')
         /\ \A i \in 1 .. Len(log) : i \in 1 .. Len(a) + Len(d) /\ i <= Len(a)
    BY <1>1, <2>5, <2>8, <2>9, SMTT(30)
  <2>11. \A i \in 1 .. Len(log) : log'[i] = log[i]
    BY <2>5, <2>9, <2>10
  <2> QED BY <1>1, <2>3, <2>4, <2>10, <2>11 DEF LogInv
<1>4. ASSUME NEW t \in Calls, NEW e \in Events, Legal(log, e), Writes(t, e)
      PROVE  /\ LogInv' /\ Len(log) <= Len(log') /\ saved' >= saved
             /\ \A i \in 1 .. Len(log) : log'[i] = log[i]
  <2>1. log' = Append(log, e) /\ saved' = Len(log)
    BY <1>4 DEF Writes
  <2>2. Valid(log')
    BY <1>1, <1>4, <2>1, ValidAppend
  <2>3. Len(log') = Len(log) + 1 /\ \A i \in 1 .. Len(log) : log'[i] = log[i]
    BY <1>1, <2>1, Extended
  <2> QED BY <1>1, <2>1, <2>2, <2>3 DEF LogInv
<1>5. ASSUME NEW t \in Calls, NEW kind \in {"once", "every"}, ToolCreates(t, kind)
      PROVE  /\ LogInv' /\ Len(log) <= Len(log') /\ saved' >= saved
             /\ \A i \in 1 .. Len(log) : log'[i] = log[i]
  BY <1>4, <1>5, CreateLegal
<1>6. ASSUME NEW t \in Calls, ToolDeletes(t)
      PROVE  /\ LogInv' /\ Len(log) <= Len(log') /\ saved' >= saved
             /\ \A i \in 1 .. Len(log) : log'[i] = log[i]
  BY <1>4, <1>6, DeleteLegal
<1>7. CASE Restart
  <2>1. PICK k \in saved .. Len(log) : log' = SubSeq(log, 1, k) /\ saved' = k
    BY <1>7 DEF Restart
  <2>2. k \in 0 .. Len(log) /\ k \in Nat
    BY <1>1
  <2>3. Valid(log') /\ Len(log') = k
    BY <1>1, <2>1, <2>2, ValidPrefix, Prefix
  <2> QED BY <1>7, <2>1, <2>2, <2>3 DEF LogInv
<1> QED BY <1>2, <1>3, <1>5, <1>6, <1>7, Writers

-----------------------------------------------------------------------------
(* The run *)

\* A request starts a run, or is noted for the one under way.
LEMMA Requests ==
  ASSUME NEW q, RequestDrive(q)
  PROVE  \/ ~Runs /\ run' = run /\ requested' = requested /\ timer' = timer /\ failed' = failed
         \/ /\ Runs /\ timer' = None /\ failed' = FALSE
            /\ run = "none" /\ run' = "queued" /\ requested' = FALSE
         \/ /\ Runs /\ timer' = None /\ failed' = FALSE
            /\ run # "none" /\ run' = run /\ requested' = TRUE
BY DEF RequestDrive

\* The end of a drive.
LEMMA Ends ==
  ASSUME NEW asked \in BOOLEAN, NEW bad \in BOOLEAN, EndDrive(asked, bad)
  PROVE  \/ /\ (requested \/ asked) /\ ~stopping /\ ~faulted'
            /\ requested' = FALSE /\ failed' = FALSE /\ run' = "queued"
         \/ /\ ~((requested \/ asked) /\ ~stopping /\ ~faulted')
            /\ run' = "ending" /\ failed' = bad /\ requested' = requested
BY DEF EndDrive

\* The earliest target.
LEMMA EarliestLeast ==
  ASSUME Valid(log)
  PROVE  /\ Earliest \in Nat \cup {None} /\ Targets \subseteq Nat
         /\ Active # {} => Earliest \in Nat /\ \A target \in Targets : Earliest <= target
<1>1. Active \subseteq Record
  BY ValidGood DEF Good, Active
<1>2. Targets \subseteq Nat
  BY <1>1 DEF Targets, Record
<1>3. CASE Active = {}
  BY <1>2, <1>3 DEF Earliest
<1>4. CASE Active # {}
  <2>1. Targets # {}
    BY <1>4 DEF Targets
  <2>2. \E t \in Targets : \A u \in Targets : t <= u
    BY <1>2, <2>1, Least
  <2>3. Earliest = CHOOSE t \in Targets : \A u \in Targets : t <= u
    BY <1>4 DEF Earliest
  <2>4. Earliest \in Targets /\ \A u \in Targets : Earliest <= u
    BY <2>2, <2>3, Zenon
  <2> QED BY <1>2, <2>4
<1> QED BY <1>3, <1>4


\* The types of a step.
LEMMA TypesStep == ASSUME Inv, [Next]_vars PROVE StateTypes'
<1> USE DEF clock, stored, runtime, owner
<1>1. StateTypes /\ Valid(log)
  BY DEF Inv, LogInv
<1>2. Earliest \in Nat \cup {None}
  BY <1>1, EarliestLeast
<1> DEFINE Control == /\ run' \in {"none", "queued", "maintenance", "barrier", "ending"}
                      /\ timer' \in Nat \cup {None}
                      /\ requested' \in BOOLEAN /\ failed' \in BOOLEAN
           Rest == /\ now' = now /\ back' = back /\ lives' = lives
                   /\ agent' \in {"idle", "running", "maintenance"}
                   /\ idleWait' \in BOOLEAN /\ faulted' \in BOOLEAN /\ stopping' \in BOOLEAN
<1>3. Control /\ Rest => StateTypes'
  BY <1>1 DEF StateTypes
<1>4. ASSUME NEW q, RequestDrive(q) PROVE Control
  BY <1>1, <1>4, Requests DEF StateTypes
<1>5. ASSUME NEW asked \in BOOLEAN, NEW bad \in BOOLEAN, EndDrive(asked, bad)
      PROVE  run' \in {"queued", "ending"} /\ requested' \in BOOLEAN /\ failed' \in BOOLEAN
  BY <1>1, <1>5, Ends DEF StateTypes
<1>6. UNCHANGED runtime => Control
  BY <1>1 DEF StateTypes
<1>7. UNCHANGED <<clock, agent, idleWait, owner>> => Rest
  BY <1>1 DEF StateTypes
<1> HIDE DEF Control
<1>8. CASE DriveStopped
  <2>1. EndDrive(FALSE, FALSE) /\ timer' = None
    BY <1>8 DEF DriveStopped
  <2>2. Control
    BY <1>5, <2>1 DEF Control
  <2> QED BY <1>3, <1>7, <1>8, <2>2 DEF DriveStopped
<1>9. CASE DriveUnsaved
  <2>1. EndDrive(FALSE, TRUE) /\ timer' = None
    BY <1>9 DEF DriveUnsaved
  <2>2. Control
    BY <1>5, <2>1 DEF Control
  <2> QED BY <1>3, <1>7, <1>9, <2>2 DEF DriveUnsaved
<1>10. CASE DriveWaits
  <2>1. EndDrive(FALSE, FALSE) /\ timer' = Earliest
    BY <1>10 DEF DriveWaits
  <2>2. Control
    BY <1>2, <1>5, <2>1 DEF Control
  <2> QED BY <1>3, <1>7, <1>10, <2>2 DEF DriveWaits
<1>11. CASE DriveBusy
  <2>1. EndDrive(FALSE, FALSE) /\ timer' = None
    BY <1>11 DEF DriveBusy
  <2>2. Control
    BY <1>5, <2>1 DEF Control
  <2>3. Rest
    BY <1>1, <1>11 DEF DriveBusy, Waits, StateTypes
  <2> QED BY <1>3, <2>2, <2>3
<1>12. CASE DriveClaims
  <2>1. PICK order \in Orders : \E k \in 0 .. Len(order) : Claim(order, k)
    BY <1>12 DEF DriveClaims
  <2>2. PICK k \in 0 .. Len(order) : Claim(order, k)
    BY <2>1
  <2>3. Control
    BY <1>1, <2>2 DEF Claim, StateTypes, Control
  <2>4. Rest
    BY <1>1, <2>2 DEF Claim, StateTypes
  <2> QED BY <1>3, <2>3, <2>4
<1>13. CASE ClaimFails
  <2>1. EndDrive(FALSE, TRUE) /\ timer' = None
    BY <1>13 DEF ClaimFails
  <2>2. Control
    BY <1>5, <2>1 DEF Control
  <2> QED BY <1>3, <1>7, <1>13, <2>2 DEF ClaimFails
<1>14. CASE Released
  <2>1. Control
    <3>1. timer' = timer
      BY <1>14 DEF Released
    <3>2. CASE faulted
      <4>1. EndDrive(FALSE, FALSE)
        BY <1>14, <3>2 DEF Released
      <4> QED BY <1>1, <1>5, <3>1, <4>1 DEF Control, StateTypes
    <3>3. CASE ~faulted
      BY <1>1, <1>14, <3>1, <3>3 DEF Released, Control, StateTypes
    <3> QED BY <3>2, <3>3
  <2>2. Rest
    BY <1>1, <1>14 DEF Released, StateTypes
  <2> QED BY <1>3, <2>1, <2>2
<1>15. CASE Barrier
  <2>1. EndDrive(TRUE, FALSE) \/ EndDrive(FALSE, agent # "running")
    BY <1>15 DEF Barrier
  <2>2. timer' = timer
    BY <1>15 DEF Barrier
  <2>3. Control
    BY <1>1, <1>5, <2>1, <2>2 DEF Control, StateTypes
  <2>4. UNCHANGED <<clock, agent, idleWait, owner>>
    BY <1>15 DEF Barrier
  <2> QED BY <1>3, <1>7, <2>3, <2>4
<1>16. CASE Retire
  <2>1. Control
    BY <1>1, <1>16 DEF Retire, Control, StateTypes
  <2> QED BY <1>3, <1>7, <1>16, <2>1 DEF Retire
<1>17. CASE TimerFires
  BY <1>3, <1>4, <1>7, <1>17 DEF TimerFires
<1>18. CASE IdleWaitEnds
  <2>1. Control
    BY <1>4, <1>18 DEF IdleWaitEnds
  <2>2. Rest
    BY <1>1, <1>18 DEF IdleWaitEnds, StateTypes
  <2> QED BY <1>3, <2>1, <2>2
<1>19. ASSUME NEW t \in Calls, ToolStep(t) PROVE StateTypes'
  <2>1. Rest
    BY <1>7, <1>19 DEF ToolStep, ToolRefused, ToolReads, ToolAborts, ToolCreates, ToolDeletes,
                       ToolBarrier, Writes
  <2>2. (\E q : RequestDrive(q)) \/ UNCHANGED runtime
    <3>1. (\E kind : ToolCreates(t, kind)) \/ ToolDeletes(t) => \E e : Writes(t, e)
      BY DEF ToolCreates, ToolDeletes
    <3>2. ASSUME NEW e, Writes(t, e) PROVE \E q : RequestDrive(q)
      BY <3>2 DEF Writes
    <3>3. ToolRefused(t) => UNCHANGED runtime
      BY DEF ToolRefused
    <3>4. ToolReads(t) \/ ToolAborts(t) => \E q : RequestDrive(q)
      BY DEF ToolReads, ToolAborts
    <3>5. ToolBarrier(t) => (\E q : RequestDrive(q)) \/ UNCHANGED runtime
      BY DEF ToolBarrier
    <3> QED BY <1>19, <3>1, <3>2, <3>3, <3>4, <3>5 DEF ToolStep
  <2>3. Control
    BY <1>4, <1>6, <2>2
  <2> QED BY <1>3, <2>1, <2>3
<1>20. ASSUME NEW t, NEW op, NEW id, CallTool(t, op, id) PROVE StateTypes'
  BY <1>3, <1>6, <1>7, <1>20 DEF CallTool
<1>21. CASE UserTurn \/ OtherMaintenance \/ OtherReleases
  <2>1. Control
    BY <1>6, <1>21 DEF UserTurn, OtherMaintenance, OtherReleases
  <2>2. Rest
    BY <1>1, <1>21 DEF UserTurn, OtherMaintenance, OtherReleases, StateTypes
  <2> QED BY <1>3, <2>1, <2>2
<1>22. CASE TurnEnds
  <2>1. (\E q : RequestDrive(q)) \/ UNCHANGED <<run, requested, timer, failed>>
    BY <1>22 DEF TurnEnds
  <2>2. Control
    BY <1>1, <1>4, <2>1 DEF Control, StateTypes
  <2>3. Rest
    BY <1>1, <1>22 DEF TurnEnds, StateTypes
  <2> QED BY <1>3, <2>2, <2>3
<1>23. CASE Tick \/ TurnBack
  BY <1>1, <1>23 DEF Tick, TurnBack, StateTypes
<1>24. CASE Dispose
  BY <1>1, <1>24 DEF Dispose, StateTypes
<1>25. CASE Restart
  <2>1. /\ now' = now /\ back' = back /\ lives' = lives + 1 /\ agent' = "idle"
        /\ run' = "queued" /\ requested' = FALSE /\ timer' = None /\ idleWait' = FALSE
        /\ failed' = FALSE /\ faulted' = FALSE /\ stopping' = FALSE
    BY <1>25 DEF Restart
  <2>2. lives' \in Nat \ {0}
    BY <1>1, <2>1 DEF StateTypes
  <2>3. Control /\ idleWait' \in BOOLEAN /\ faulted' \in BOOLEAN /\ stopping' \in BOOLEAN
    BY <2>1 DEF Control
  <2> QED BY <1>1, <2>1, <2>2, <2>3 DEF StateTypes, Control
<1>26. CASE UNCHANGED vars
  BY <1>1, <1>26 DEF vars, StateTypes
<1> QED BY <1>8, <1>9, <1>10, <1>11, <1>12, <1>13, <1>14, <1>15, <1>16, <1>17, <1>18, <1>19,
           <1>20, <1>21, <1>22, <1>23, <1>24, <1>25, <1>26 DEF Next, Drive

-----------------------------------------------------------------------------
(* The calls *)

\* A call that an action changes is of the types its change has.
LEMMA CallsStep == ASSUME Inv, [Next]_vars PROVE CallTypes'
<1> DEFINE Call == [pc : {"idle", "queued", "barrier", "done"},
                    op : {"none", "create", "delete", "list", "uncertain"},
                    id : Nat, shown : SUBSET Nat]
<1>1. call \in [Calls -> Call]
  BY DEF Inv, CallTypes
<1>2. call' = call => CallTypes'
  BY <1>1 DEF CallTypes
<1>3. ASSUME NEW t \in Calls, NEW c \in Call, call' = [call EXCEPT ![t] = c]
      PROVE  CallTypes'
  BY <1>1, <1>3 DEF CallTypes
<1>4. ASSUME NEW t \in Calls, NEW op \in {"none", "create", "delete", "list", "uncertain"},
             NEW id \in Nat, NEW shown \in SUBSET Nat, Answer(t, op, id, shown)
      PROVE  CallTypes'
  <2> DEFINE c == [pc |-> "done", op |-> op, id |-> id, shown |-> shown]
  <2>1. c \in Call /\ call' = [call EXCEPT ![t] = c]
    BY <1>4 DEF Answer
  <2> HIDE DEF c, Call
  <2> QED BY <1>3, <2>1
<1>5. CASE Drive
  BY <1>2, <1>5 DEF Drive, DriveStopped, DriveUnsaved, DriveWaits, DriveBusy, DriveClaims,
                    Claim, ClaimFails
<1>6. CASE Released \/ Barrier \/ Retire \/ TimerFires \/ IdleWaitEnds
  BY <1>2, <1>6 DEF Released, Barrier, Retire, TimerFires, IdleWaitEnds
<1>7. ASSUME NEW t \in Calls, ToolRefused(t) \/ ToolAborts(t) PROVE CallTypes'
  <2>1. Answer(t, "uncertain", 0, {})
    BY <1>7 DEF ToolRefused, ToolAborts
  <2> QED BY <1>4, <2>1
<1>8. ASSUME NEW t \in Calls, ToolReads(t) PROVE CallTypes'
  <2>1. Answer(t, "list", 0, {r.id : r \in Active})
    BY <1>8 DEF ToolReads
  <2>2. Active \subseteq Record
    BY ValidGood DEF Inv, LogInv, Good, Active
  <2>3. {r.id : r \in Active} \subseteq Nat
    BY <2>2 DEF Record, Ids
  <2> QED BY <1>4, <2>1, <2>3
<1>9. ASSUME NEW t \in Calls, NEW e \in Events, Writes(t, e) PROVE CallTypes'
  <2> DEFINE c == [[call[t] EXCEPT !.pc = "barrier"] EXCEPT !.id = e.id]
  <2>1. call' = [call EXCEPT ![t] = c]
    BY <1>1, <1>9 DEF Writes
  <2>2. call[t] \in Call /\ e.id \in Nat
    BY <1>1 DEF Events, Ids
  <2>3. c \in Call
    BY <2>2
  <2> HIDE DEF c, Call
  <2> QED BY <1>3, <2>1, <2>3
<1>10. ASSUME NEW t \in Calls, NEW kind \in {"once", "every"}, ToolCreates(t, kind)
       PROVE  CallTypes'
  BY <1>9, <1>10, CreateLegal
<1>11. ASSUME NEW t \in Calls, ToolDeletes(t) PROVE CallTypes'
  BY <1>9, <1>11, DeleteLegal
<1>12. ASSUME NEW t \in Calls, ToolBarrier(t) PROVE CallTypes'
  <2>1. call[t].op \in {"none", "create", "delete", "list", "uncertain"} /\ call[t].id \in Nat
    BY <1>1
  <2>2. Answer(t, call[t].op, call[t].id, {}) \/ Answer(t, "uncertain", call[t].id, {})
    BY <1>12 DEF ToolBarrier, Unconfirmed
  <2> QED BY <1>4, <2>1, <2>2
<1>13. ASSUME NEW t \in Calls, NEW op \in {"create", "delete", "list"}, NEW id \in Nat,
              CallTool(t, op, id)
       PROVE  CallTypes'
  <2> DEFINE c == [pc |-> "queued", op |-> op, id |-> id, shown |-> {}]
  <2>1. c \in Call /\ call' = [call EXCEPT ![t] = c]
    BY <1>13 DEF CallTool
  <2> HIDE DEF c, Call
  <2> QED BY <1>3, <2>1
<1>14. CASE UserTurn \/ OtherMaintenance \/ OtherReleases \/ TurnEnds \/ Tick \/ TurnBack
            \/ Dispose \/ UNCHANGED vars
  BY <1>2, <1>14 DEF UserTurn, OtherMaintenance, OtherReleases, TurnEnds, Tick, TurnBack,
                     Dispose, vars
<1>15. CASE Restart
  <2>1. call' = [t \in Calls |-> IF Settled(t) THEN call[t] ELSE [NoCall EXCEPT !.pc = "done"]]
    BY <1>15 DEF Restart
  <2>2. [NoCall EXCEPT !.pc = "done"] \in Call
    BY DEF NoCall
  <2> HIDE DEF Call
  <2>3. call' \in [Calls -> Call]
    BY <1>1, <2>1, <2>2
  <2> QED BY <2>3 DEF CallTypes, Call
<1>16. \A t \in Calls : ToolStep(t) => CallTypes'
  BY <1>7, <1>8, <1>10, <1>11, <1>12 DEF ToolStep
<1>17. (\E t \in Calls, id \in 1 .. MaxIds : CallTool(t, "delete", id)) => CallTypes'
  <2>1. 1 .. MaxIds \subseteq Nat
    OBVIOUS
  <2> QED BY <1>13, <2>1
<1>18. (\E t \in Calls, op \in {"create", "list"} : CallTool(t, op, 0)) => CallTypes'
  BY <1>13
<1> QED BY <1>5, <1>6, <1>14, <1>15, <1>16, <1>17, <1>18 DEF Next

\* What a step does to a call.
LEMMA Answers ==
  ASSUME Inv, [Next]_vars, NEW t \in Calls
  PROVE  \/ call'[t] = call[t] /\ (call[t].pc = "barrier" => ~Restart)
         \/ call'[t].pc = "queued"
         \/ call'[t].pc = "done" /\ call'[t].op \notin {"create", "delete"} /\ call'[t].shown = {}
         \/ /\ call'[t].pc = "done" /\ call'[t].op = "list"
            /\ call'[t].shown = {r.id : r \in Active} /\ saved' = Len(log) /\ log' = log
         \/ /\ call[t].pc = "barrier" /\ call'[t].op = call[t].op /\ call'[t].id = call[t].id
            /\ call'[t].pc = "done" /\ call'[t].shown = {} /\ saved' = Len(log) /\ log' = log
         \/ \E e \in Events :
              /\ call'[t].pc = "barrier" /\ call'[t].op = e.op /\ call'[t].id = e.id
              /\ e.op \in {"create", "delete"} /\ log' = Append(log, e)
<1> DEFINE Effect ==
         \/ call'[t] = call[t] /\ (call[t].pc = "barrier" => ~Restart)
         \/ call'[t].pc = "queued"
         \/ call'[t].pc = "done" /\ call'[t].op \notin {"create", "delete"} /\ call'[t].shown = {}
         \/ /\ call'[t].pc = "done" /\ call'[t].op = "list"
            /\ call'[t].shown = {r.id : r \in Active} /\ saved' = Len(log) /\ log' = log
         \/ /\ call[t].pc = "barrier" /\ call'[t].op = call[t].op /\ call'[t].id = call[t].id
            /\ call'[t].pc = "done" /\ call'[t].shown = {} /\ saved' = Len(log) /\ log' = log
         \/ \E e \in Events :
              /\ call'[t].pc = "barrier" /\ call'[t].op = e.op /\ call'[t].id = e.id
              /\ e.op \in {"create", "delete"} /\ log' = Append(log, e)
<1> SUFFICES Effect
  OBVIOUS
<1>1. DOMAIN call = Calls /\ lives \in Nat
      /\ call[t] \in [pc : {"idle", "queued", "barrier", "done"},
                      op : {"none", "create", "delete", "list", "uncertain"},
                      id : Nat, shown : SUBSET Nat]
  BY DEF Inv, CallTypes, StateTypes
<1>2. lives' = lives /\ call'[t] = call[t] => Effect
  <2>1. Restart => lives' = lives + 1
    BY DEF Restart
  <2> QED BY <1>1, <2>1
<1>3. lives' = lives /\ call' = call => Effect
  BY <1>2
<1>4. ASSUME NEW u \in Calls, u # t, NEW c, lives' = lives, call' = [call EXCEPT ![u] = c]
      PROVE  Effect
  BY <1>1, <1>2, <1>4
<1>5. ASSUME NEW u \in Calls, u # t, ToolStep(u) PROVE Effect
  <2>1. lives' = lives
    BY <1>5 DEF ToolStep, ToolRefused, ToolReads, ToolAborts, ToolCreates, ToolDeletes, Writes,
                ToolBarrier, owner
  <2>2. \E c : call' = [call EXCEPT ![u] = c]
    BY <1>5 DEF ToolStep, ToolRefused, ToolReads, ToolAborts, ToolCreates, ToolDeletes, Writes,
                ToolBarrier, Answer
  <2> QED BY <1>4, <1>5, <2>1, <2>2
<1>6. ASSUME NEW op, NEW id, NEW shown, Answer(t, op, id, shown)
      PROVE  /\ call'[t].pc = "done" /\ call'[t].op = op
             /\ call'[t].id = id /\ call'[t].shown = shown
  BY <1>1, <1>6 DEF Answer
<1>7. ToolRefused(t) \/ ToolAborts(t) => Effect
  <2>1. ToolRefused(t) \/ ToolAborts(t) => Answer(t, "uncertain", 0, {})
    BY DEF ToolRefused, ToolAborts
  <2> QED BY <1>6, <2>1
<1>8. ToolReads(t) => Effect
  <2>1. ToolReads(t) =>
          Answer(t, "list", 0, {r.id : r \in Active}) /\ saved' = Len(log) /\ log' = log
    BY DEF ToolReads
  <2> QED BY <1>6, <2>1
<1>9. ToolBarrier(t) => Effect
  <2>1. ASSUME ToolBarrier(t)
        PROVE  /\ call[t].pc = "barrier" /\ log' = log
               /\ \/ saved' = Len(log) /\ Answer(t, call[t].op, call[t].id, {})
                  \/ Answer(t, "uncertain", call[t].id, {})
    BY <2>1 DEF ToolBarrier, Serving, Unconfirmed
  <2> QED BY <1>6, <2>1
<1>10. ASSUME NEW e \in Events, Writes(t, e), e.op \in {"create", "delete"}, call[t].op = e.op
       PROVE  Effect
  <2> DEFINE c == [[call[t] EXCEPT !.pc = "barrier"] EXCEPT !.id = e.id]
  <2>1. call' = [call EXCEPT ![t] = c] /\ log' = Append(log, e)
    BY <1>1, <1>10 DEF Writes
  <2>2. c.pc = "barrier" /\ c.id = e.id /\ c.op = call[t].op
    BY <1>1
  <2> HIDE DEF c
  <2>3. call'[t] = c
    BY <1>1, <2>1
  <2> QED BY <1>10, <2>1, <2>2, <2>3
<1>11. (\E kind \in {"once", "every"} : ToolCreates(t, kind)) => Effect
  BY <1>10, CreateLegal
<1>12. ToolDeletes(t) => Effect
  BY <1>10, DeleteLegal
<1>13. ToolStep(t) => Effect
  BY <1>7, <1>8, <1>9, <1>11, <1>12 DEF ToolStep
<1>14. ASSUME NEW u \in Calls, NEW op, NEW id, CallTool(u, op, id) PROVE Effect
  <2> DEFINE c == [pc |-> "queued", op |-> op, id |-> id, shown |-> {}]
  <2>1. call' = [call EXCEPT ![u] = c] /\ lives' = lives /\ c.pc = "queued"
    BY <1>14 DEF CallTool, owner
  <2> HIDE DEF c
  <2>2. CASE u = t
    <3>1. call'[t] = c
      BY <1>1, <2>1, <2>2
    <3> QED BY <2>1, <3>1
  <2>3. CASE u # t
    BY <1>4, <2>1, <2>3
  <2> QED BY <2>2, <2>3
<1>15. CASE Restart
  <2>1. call'[t] = IF Settled(t) THEN call[t] ELSE [NoCall EXCEPT !.pc = "done"]
    BY <1>15 DEF Restart
  <2>2. CASE Settled(t)
    BY <2>1, <2>2 DEF Settled
  <2>3. CASE ~Settled(t)
    BY <2>1, <2>3 DEF NoCall
  <2> QED BY <2>2, <2>3
<1>16. CASE Drive
  BY <1>3, <1>16 DEF Drive, DriveStopped, DriveUnsaved, DriveWaits, DriveBusy, DriveClaims,
                     Claim, ClaimFails
<1>17. CASE Released \/ Barrier \/ Retire \/ TimerFires \/ IdleWaitEnds
  BY <1>3, <1>17 DEF Released, Barrier, Retire, TimerFires, IdleWaitEnds, owner
<1>18. CASE UserTurn \/ OtherMaintenance \/ OtherReleases \/ TurnEnds \/ Tick \/ TurnBack
            \/ Dispose \/ UNCHANGED vars
  BY <1>3, <1>18 DEF UserTurn, OtherMaintenance, OtherReleases, TurnEnds, Tick, TurnBack,
                     Dispose, vars, owner
<1> HIDE DEF Effect
<1>19. (\E u \in Calls : ToolStep(u)) => Effect
  BY <1>5, <1>13
<1>20. (\E u \in Calls, id \in 1 .. MaxIds : CallTool(u, "delete", id)) => Effect
  BY <1>14
<1>21. (\E u \in Calls, op \in {"create", "list"} : CallTool(u, op, 0)) => Effect
  BY <1>14
<1> QED BY <1>15, <1>16, <1>17, <1>18, <1>19, <1>20, <1>21 DEF Next

\* The change behind a call's flush stays in the log.
LEMMA CallInvStep == ASSUME Inv, [Next]_vars PROVE CallInv'
<1>1. SUFFICES ASSUME NEW t \in Calls, call'[t].pc = "barrier"
      PROVE  /\ call'[t].op \in {"create", "delete"}
             /\ \E i \in DOMAIN log' : log'[i].op = call'[t].op /\ log'[i].id = call'[t].id
  BY DEF CallInv
<1>2. log \in Seq(Events) /\ Len(log) \in Nat /\ DOMAIN log = 1 .. Len(log)
      /\ log' \in Seq(Events) /\ Len(log') \in Nat /\ DOMAIN log' = 1 .. Len(log')
  BY LogStep, Entries DEF Inv, LogInv, Valid
<1>3. \/ call'[t] = call[t] /\ ~Restart
      \/ \E e \in Events :
           /\ call'[t].op = e.op /\ call'[t].id = e.id
           /\ e.op \in {"create", "delete"} /\ log' = Append(log, e)
  BY <1>1, Answers
<1>4. CASE call'[t] = call[t] /\ ~Restart
  <2>1. PICK i \in DOMAIN log : log[i].op = call[t].op /\ log[i].id = call[t].id
    BY <1>1, <1>4 DEF Inv, CallInv
  <2>2. call[t].op \in {"create", "delete"}
    BY <1>1, <1>4 DEF Inv, CallInv
  <2>3. i \in DOMAIN log' /\ log'[i] = log[i]
    BY <1>2, <1>4, LogStep
  <2> QED BY <1>4, <2>1, <2>2, <2>3
<1>5. CASE \E e \in Events :
             /\ call'[t].op = e.op /\ call'[t].id = e.id
             /\ e.op \in {"create", "delete"} /\ log' = Append(log, e)
  <2>1. PICK e \in Events :
          /\ call'[t].op = e.op /\ call'[t].id = e.id
          /\ e.op \in {"create", "delete"} /\ log' = Append(log, e)
    BY <1>5
  <2>2. Len(log) + 1 \in DOMAIN log' /\ log'[Len(log) + 1] = e
    BY <1>2, <2>1, Extended
  <2> QED BY <2>1, <2>2
<1> QED BY <1>3, <1>4, <1>5

\* What is kept stays, over a crash too.
LEMMA KeptStays ==
  ASSUME Inv, [Next]_vars, NEW op, NEW id, Kept(op, id)
  PROVE  Kept(op, id)'
<1>1. PICK i \in 1 .. saved : log[i].op = op /\ log[i].id = id
  BY DEF Kept
<1>2. log \in Seq(Events) /\ Len(log) \in Nat /\ saved \in 0 .. Len(log) /\ saved' \in Nat
  BY LogStep, Entries DEF Inv, LogInv, Valid
<1>3. i \in 1 .. saved' /\ log'[i] = log[i]
  <2>1. CASE Restart
    <3>1. PICK k \in saved .. Len(log) : log' = SubSeq(log, 1, k) /\ saved' = k
      BY <2>1 DEF Restart
    <3>2. k \in 0 .. Len(log) /\ i \in 1 .. k
      BY <1>2
    <3> QED BY <1>2, <3>1, <3>2, Prefix
  <2>2. CASE ~Restart
    <3>1. saved' >= saved /\ \A j \in 1 .. Len(log) : log'[j] = log[j]
      BY <2>2, LogStep
    <3> QED BY <1>2, <3>1
  <2> QED BY <2>1, <2>2
<1> QED BY <1>1, <1>3 DEF Kept

\* A call is confirmed only once the log up to its change is durable.
LEMMA ConfirmedStep == ASSUME Inv, [Next]_vars PROVE ConfirmedHolds'
<1>1. /\ log \in Seq(Events) /\ saved \in 0 .. Len(log) /\ Len(log) \in Nat
      /\ DOMAIN log = 1 .. Len(log) /\ Valid(log)
      /\ log' \in Seq(Events) /\ saved' \in 0 .. Len(log')
  BY LogStep, Entries DEF Inv, LogInv, Valid
<1>2. ConfirmedHolds' <=>
        \A t \in Calls : call'[t].pc = "done" =>
          /\ call'[t].op \in {"create", "delete"} => Kept(call[t].op, call[t].id)'
          /\ \A id \in call'[t].shown : Kept("create", id)'
  <2> DEFINE kept == SubSeq(log', 1, saved')
             Holds(op, id) == \E i \in DOMAIN kept : kept[i].op = op /\ kept[i].id = id
  <2>1. DOMAIN kept = 1 .. saved' /\ \A i \in 1 .. saved' : kept[i] = log'[i]
    BY <1>1, Prefix
  <2>2. \A op, id : Holds(op, id) <=> \E i \in 1 .. saved' : log'[i].op = op /\ log'[i].id = id
    BY <2>1
  <2>3. ConfirmedHolds' <=>
          \A t \in Calls : call'[t].pc = "done" =>
            /\ call'[t].op \in {"create", "delete"} => Holds(call'[t].op, call'[t].id)
            /\ \A id \in call'[t].shown : Holds("create", id)
    BY DEF ConfirmedHolds
  <2> HIDE DEF Holds, kept
  <2> QED BY <2>2, <2>3, Zenon DEF Kept
<1>3. SUFFICES ASSUME NEW t \in Calls, call'[t].pc = "done"
      PROVE  /\ call'[t].op \in {"create", "delete"} => Kept(call[t].op, call[t].id)'
             /\ \A id \in call'[t].shown : Kept("create", id)'
  BY <1>2
<1>4. CASE call'[t] = call[t]
  <2>1. call[t].pc = "done"
    BY <1>3, <1>4
  <2>2. /\ call[t].op \in {"create", "delete"} => Kept(call[t].op, call[t].id)
        /\ \A id \in call[t].shown : Kept("create", id)
    BY <1>1, <2>1, Confirmed DEF Inv
  <2>3. ASSUME call[t].op \in {"create", "delete"} PROVE Kept(call[t].op, call[t].id)'
    <3> DEFINE op == call[t].op
               id == call[t].id
    <3>1. Kept(op, id)
      BY <2>2, <2>3
    <3>2. PICK i \in 1 .. saved' : log'[i].op = call[t].op /\ log'[i].id = call[t].id
      <4> HIDE DEF op, id
      <4>1. \E i \in 1 .. saved' : log'[i].op = op /\ log'[i].id = id
        <5>1. \A o, n : Kept(o, n) => \E i \in 1 .. saved' : log'[i].op = o /\ log'[i].id = n
          BY KeptStays DEF Kept
        <5> QED BY <3>1, <5>1
      <4> QED BY <4>1 DEF op, id
    <3> QED BY <1>4, <3>2 DEF Kept
  <2> QED BY <1>4, <2>2, <2>3, KeptStays
<1>5. CASE call'[t].op \notin {"create", "delete"} /\ call'[t].shown = {}
  BY <1>5
<1>6. CASE call'[t].op = "list" /\ call'[t].shown = {r.id : r \in Active}
           /\ saved' = Len(log) /\ log' = log
  <2>1. \A r \in Active : \E i \in 1 .. Len(log) : log[i].op = "create" /\ log[i].id = r.id
    BY <1>1, ActiveCreated DEF Active
  <2> QED BY <1>1, <1>6, <2>1 DEF Kept
<1>7. CASE /\ call[t].pc = "barrier" /\ call'[t].op = call[t].op /\ call'[t].id = call[t].id
           /\ call'[t].shown = {} /\ saved' = Len(log) /\ log' = log
  <2>1. \E i \in DOMAIN log : log[i].op = call[t].op /\ log[i].id = call[t].id
    BY <1>7 DEF Inv, CallInv
  <2> QED BY <1>1, <1>7, <2>1 DEF Kept
<1> QED BY <1>3, <1>4, <1>5, <1>6, <1>7, Answers

-----------------------------------------------------------------------------
(* Waking *)

\* What the run owes: no fault left running, no record unwatched.
Watched == FaultInv /\ WakeGuaranteed

\* The records are those of the log.
LEMMA SameRecords == log' = log => Active' = Active /\ Targets' = Targets
BY DEF Active, Targets

\* After the end of a drive the record is watched if a reason remains.
LEMMA EndWatched ==
  ASSUME NEW asked \in BOOLEAN, NEW bad \in BOOLEAN, EndDrive(asked, bad), stopping' = stopping,
         (Runs' /\ Active' # {} /\ ~bad /\ ~requested /\ ~asked) =>
            \/ idleWait' \/ agent' = "running"
            \/ timer' # None /\ \A target \in Targets' : timer' <= target
  PROVE  Watched'
<1>1. CASE /\ (requested \/ asked) /\ ~stopping /\ ~faulted'
           /\ requested' = FALSE /\ failed' = FALSE /\ run' = "queued"
  BY <1>1 DEF Watched, FaultInv, WakeGuaranteed
<1>2. CASE /\ ~((requested \/ asked) /\ ~stopping /\ ~faulted')
           /\ run' = "ending" /\ failed' = bad /\ requested' = requested
  <2>1. FaultInv'
    BY <1>2 DEF FaultInv
  <2>2. WakeGuaranteed'
    <3>1. SUFFICES ASSUME Runs', Active' # {}, ~failed'
          PROVE  \/ idleWait' \/ agent' = "running"
                 \/ timer' # None /\ \A target \in Targets' : timer' <= target
      BY DEF WakeGuaranteed
    <3>2. ~bad /\ ~requested /\ ~asked
      BY <1>2, <3>1 DEF Runs
    <3> QED BY <3>1, <3>2
  <2> QED BY <2>1, <2>2 DEF Watched
<1> QED BY <1>1, <1>2, Ends

\* A request watches every record.
LEMMA RequestWatched ==
  ASSUME Watched, StateTypes, NEW q, RequestDrive(q), stopping' = stopping, faulted' = faulted
  PROVE  Watched'
<1>1. CASE ~Runs /\ run' = run
  BY <1>1 DEF Watched, FaultInv, WakeGuaranteed, Runs
<1>2. CASE Runs /\ run' = "queued"
  BY <1>2 DEF Watched, FaultInv, WakeGuaranteed, Runs
<1>3. CASE Runs /\ run # "none" /\ run' = run /\ requested' = TRUE
  <2>1. ~faulted' /\ run' \in {"queued", "maintenance", "barrier", "ending"}
    BY <1>3 DEF StateTypes, Runs
  <2> QED BY <1>3, <2>1 DEF Watched, FaultInv, WakeGuaranteed
<1> QED BY <1>1, <1>2, <1>3, Requests

\* A step that leaves the run and the log alone, and no record to a turn that ended.
LEMMA QuietWatched ==
  ASSUME Watched, UNCHANGED <<runtime, faulted, stopping, log>>,
         agent = "running" => agent' = "running"
  PROVE  Watched'
<1>1. Active' = Active /\ Targets' = Targets
  BY SameRecords
<1>2. /\ run' = run /\ requested' = requested /\ timer' = timer /\ idleWait' = idleWait
      /\ failed' = failed /\ faulted' = faulted /\ stopping' = stopping
  BY DEF runtime
<1>3. Runs' <=> Runs
  BY <1>2 DEF Runs
<1>4. FaultInv'
  BY <1>2 DEF Watched, FaultInv
<1>5. WakeGuaranteed'
  BY <1>1, <1>2, <1>3 DEF Watched, WakeGuaranteed
<1> QED BY <1>4, <1>5 DEF Watched

\* Every action watches the records, each by one of the lemmas above.
LEMMA WatchedStep == ASSUME Inv, [Next]_vars PROVE Watched'
<1> USE DEF clock, stored, owner
<1>1. StateTypes /\ Valid(log) /\ Watched
  BY DEF Inv, LogInv, Watched
<1>2. CASE DriveStopped
  <2>1. EndDrive(FALSE, FALSE) /\ stopping' = stopping /\ ~Runs'
    BY <1>2 DEF DriveStopped, Runs
  <2> QED BY <2>1, EndWatched
<1>3. CASE DriveUnsaved \/ ClaimFails
  <2>1. EndDrive(FALSE, TRUE) /\ stopping' = stopping
    BY <1>3 DEF DriveUnsaved, ClaimFails
  <2> QED BY <2>1, EndWatched
<1>4. CASE DriveWaits
  <2>1. EndDrive(FALSE, FALSE) /\ stopping' = stopping /\ timer' = Earliest /\ log' = log
    BY <1>4 DEF DriveWaits
  <2>2. Active' = Active /\ Targets' = Targets
    BY <2>1, SameRecords
  <2>3. Active' # {} => timer' # None /\ \A target \in Targets' : timer' <= target
    BY <1>1, <2>1, <2>2, EarliestLeast
  <2> QED BY <2>1, <2>3, EndWatched
<1>5. CASE DriveBusy
  <2>1. EndDrive(FALSE, FALSE) /\ stopping' = stopping /\ idleWait'
    BY <1>1, <1>5 DEF DriveBusy, Waits, StateTypes
  <2> QED BY <2>1, EndWatched
<1>6. CASE DriveClaims
  <2>1. run' = "maintenance"
    BY <1>6 DEF DriveClaims, Claim
  <2> QED BY <2>1 DEF Watched, FaultInv, WakeGuaranteed
<1>7. CASE Released
  <2>1. stopping' = stopping /\ faulted' = faulted
    BY <1>7 DEF Released
  <2>2. CASE faulted
    <3>1. EndDrive(FALSE, FALSE)
      BY <1>7, <2>2 DEF Released
    <3>2. ~Runs'
      BY <2>1, <2>2 DEF Runs
    <3> QED BY <2>1, <3>1, <3>2, EndWatched
  <2>3. CASE ~faulted
    <3>1. run' = "barrier"
      BY <1>7, <2>3 DEF Released
    <3> QED BY <2>1, <2>3, <3>1 DEF Watched, FaultInv, WakeGuaranteed
  <2> QED BY <2>2, <2>3
<1>8. CASE Barrier
  <2>1. /\ run = "barrier" /\ stopping' = stopping /\ faulted' = faulted /\ log' = log
        /\ agent' = agent
    BY <1>8 DEF Barrier
  <2>2. CASE EndDrive(TRUE, FALSE)
    BY <2>1, <2>2, EndWatched
  <2>3. CASE EndDrive(FALSE, agent # "running")
    <3>1. (agent # "running") \in BOOLEAN
      OBVIOUS
    <3> QED BY <2>1, <2>3, <3>1, EndWatched
  <2> QED BY <1>8, <2>2, <2>3 DEF Barrier
<1>9. CASE Retire
  <2>1. /\ run = "ending" /\ stopping' = stopping /\ faulted' = faulted /\ log' = log
        /\ agent' = agent /\ idleWait' = idleWait
    BY <1>9 DEF Retire
  <2>2. CASE requested /\ Runs
    <3>1. run' = "queued" /\ ~faulted'
      BY <1>9, <2>1, <2>2 DEF Retire, Again, Runs
    <3> QED BY <3>1 DEF Watched, FaultInv, WakeGuaranteed
  <2>3. CASE ~(requested /\ Runs)
    <3>1. run' = "none" /\ requested' = requested /\ failed' = failed /\ timer' = timer
      BY <1>9, <2>3 DEF Retire, Again
    <3>2. Active' = Active /\ Targets' = Targets /\ (Runs' <=> Runs)
      BY <2>1, SameRecords DEF Runs
    <3>3. FaultInv'
      BY <3>1 DEF FaultInv
    <3>4. WakeGuaranteed'
      BY <1>1, <2>1, <2>3, <3>1, <3>2 DEF Watched, WakeGuaranteed
    <3> QED BY <3>3, <3>4 DEF Watched
  <2> QED BY <2>2, <2>3
<1>10. CASE TimerFires \/ IdleWaitEnds
  <2>1. RequestDrive(queue) /\ stopping' = stopping /\ faulted' = faulted
    BY <1>10 DEF TimerFires, IdleWaitEnds
  <2> QED BY <1>1, <2>1, RequestWatched
<1>11. ASSUME NEW t \in Calls, ToolStep(t) PROVE Watched'
  <2>1. stopping' = stopping /\ faulted' = faulted
    BY <1>11 DEF ToolStep, ToolRefused, ToolReads, ToolAborts, ToolCreates, ToolDeletes,
                 ToolBarrier, Writes
  <2>2. ToolCreates(t, "once") \/ ToolCreates(t, "every") \/ ToolDeletes(t) => RequestDrive(queue)
    BY DEF ToolCreates, ToolDeletes, Writes
  <2>3. ToolReads(t) \/ ToolAborts(t) => RequestDrive(Tail(queue))
    BY DEF ToolReads, ToolAborts
  <2>4. ToolRefused(t) => UNCHANGED <<runtime, faulted, stopping, log>> /\ agent' = agent
    BY DEF ToolRefused
  <2>5. ToolBarrier(t) => \/ RequestDrive(Tail(queue))
                          \/ UNCHANGED <<runtime, faulted, stopping, log>> /\ agent' = agent
    BY DEF ToolBarrier, runtime
  <2>6. \/ RequestDrive(queue) \/ RequestDrive(Tail(queue))
        \/ UNCHANGED <<runtime, faulted, stopping, log>> /\ agent' = agent
    BY <1>11, <2>2, <2>3, <2>4, <2>5 DEF ToolStep
  <2>7. CASE RequestDrive(queue) \/ RequestDrive(Tail(queue))
    BY <1>1, <2>1, <2>7, RequestWatched
  <2>8. CASE UNCHANGED <<runtime, faulted, stopping, log>> /\ agent' = agent
    BY <1>1, <2>8, QuietWatched
  <2> QED BY <2>6, <2>7, <2>8
<1>12. ASSUME NEW t, NEW op, NEW id, CallTool(t, op, id) PROVE Watched'
  BY <1>1, <1>12, QuietWatched DEF CallTool
<1>13. CASE UserTurn \/ OtherMaintenance \/ OtherReleases \/ Tick \/ TurnBack
  <2>1. UNCHANGED <<runtime, faulted, stopping, log>> /\ (agent = "running" => agent' = "running")
    BY <1>13 DEF UserTurn, OtherMaintenance, OtherReleases, Tick, TurnBack
  <2> QED BY <1>1, <2>1, QuietWatched
<1>14. CASE TurnEnds
  <2>1. stopping' = stopping /\ faulted' = faulted /\ log' = log
    BY <1>14 DEF TurnEnds
  <2>2. CASE \E i \in DOMAIN log : log[i].op # "remind"
    <3>1. RequestDrive(queue)
      BY <1>14, <2>2 DEF TurnEnds
    <3> QED BY <1>1, <2>1, <3>1, RequestWatched
  <2>3. CASE ~\E i \in DOMAIN log : log[i].op # "remind"
    <3>1. run' = run
      BY <1>14, <2>3 DEF TurnEnds
    <3>2. Active = {}
      BY <1>1, <2>3, ActiveCreated DEF Active
    <3>3. Active' = {}
      BY <2>1, <3>2, SameRecords
    <3> QED BY <1>1, <2>1, <3>1, <3>3 DEF Watched, FaultInv, WakeGuaranteed
  <2> QED BY <2>2, <2>3
<1>15. CASE Dispose
  <2>1. ~Runs' /\ run' = run /\ faulted' = faulted
    BY <1>15 DEF Dispose, Runs
  <2> QED BY <1>1, <2>1 DEF Watched, FaultInv, WakeGuaranteed
<1>16. CASE Restart
  <2>1. run' = "queued" /\ faulted' = FALSE
    BY <1>16 DEF Restart
  <2> QED BY <2>1 DEF Watched, FaultInv, WakeGuaranteed
<1>17. CASE UNCHANGED vars
  BY <1>1, <1>17, QuietWatched DEF vars
<1>18. (\E t \in Calls, id \in 1 .. MaxIds : CallTool(t, "delete", id)) => Watched'
  BY <1>12
<1>19. (\E t \in Calls, op \in {"create", "list"} : CallTool(t, op, 0)) => Watched'
  BY <1>12
<1>20. (\E t \in Calls : ToolStep(t)) => Watched'
  BY <1>11
<1> QED BY <1>2, <1>3, <1>4, <1>5, <1>6, <1>7, <1>8, <1>9, <1>10, <1>13, <1>14, <1>15, <1>16,
           <1>17, <1>18, <1>19, <1>20 DEF Next, Drive

-----------------------------------------------------------------------------
(* Reminding once *)

\* Only a new life clears a fault.
LEMMA Steady ==
  ASSUME Inv, [Next]_vars
  PROVE  Restart \/ (lives' = lives /\ (faulted => faulted'))
<1> USE DEF owner
<1>1. CASE Drive
  <2>1. ASSUME NEW order, NEW k, Claim(order, k) PROVE lives' = lives /\ ~faulted
    BY <2>1 DEF Claim, Driving, Inv, FaultInv
  <2>2. DriveClaims => lives' = lives /\ ~faulted
    BY <2>1 DEF DriveClaims
  <2>3. DriveStopped \/ DriveUnsaved \/ DriveWaits \/ DriveBusy \/ ClaimFails =>
          lives' = lives /\ faulted' = faulted
    BY DEF DriveStopped, DriveUnsaved, DriveWaits, DriveBusy, ClaimFails
  <2> QED BY <1>1, <2>2, <2>3 DEF Drive
<1>2. CASE Released \/ Barrier \/ Retire \/ TimerFires \/ IdleWaitEnds
  BY <1>2 DEF Released, Barrier, Retire, TimerFires, IdleWaitEnds
<1>3. ASSUME NEW t \in Calls, ToolStep(t) PROVE lives' = lives /\ faulted' = faulted
  BY <1>3 DEF ToolStep, ToolRefused, ToolReads, ToolAborts, ToolCreates, ToolDeletes,
              ToolBarrier, Writes
<1>4. ASSUME NEW t, NEW op, NEW id, CallTool(t, op, id) PROVE lives' = lives /\ faulted' = faulted
  BY <1>4 DEF CallTool
<1>5. CASE UserTurn \/ OtherMaintenance \/ OtherReleases \/ TurnEnds \/ Tick \/ TurnBack
           \/ Dispose \/ UNCHANGED vars
  BY <1>5 DEF UserTurn, OtherMaintenance, OtherReleases, TurnEnds, Tick, TurnBack, Dispose, vars
<1> QED BY <1>1, <1>2, <1>3, <1>4, <1>5 DEF Next

\* With the records and follow-ups of before, or fewer.
LEMMA OnceFewer ==
  ASSUME OnceInv, lives' = lives, faulted => faulted', Active' \subseteq Active,
         \A shown \in Ids \X Nat :
           Cardinality(Shows(log', shown)) = Cardinality(Shows(log, shown))
  PROVE  OnceInv'
<1>1. SUFFICES ASSUME NEW shown \in Ids \X Nat
      PROVE  /\ Cardinality(Shows(log', shown)) <= lives'
             /\ ~faulted' /\ Open(shown)' => Cardinality(Shows(log', shown)) < lives'
  BY DEF OnceInv
<1>2. Open(shown)' => Open(shown)
  BY DEF Open
<1> QED BY <1>2 DEF OnceInv

\* A change of a tool presents nothing.
LEMMA OnceWritten ==
  ASSUME Inv, NEW t \in Calls, NEW e \in Events, Legal(log, e), Writes(t, e),
         e.op \in {"create", "delete"}
  PROVE  OnceInv'
<1>1. log \in Seq(Events) /\ Valid(log) /\ Good(log) /\ OnceInv /\ lives \in Nat \ {0}
  BY ValidGood DEF Inv, LogInv, Valid, StateTypes
<1>2. log' = Append(log, e) /\ lives' = lives /\ faulted' = faulted
  BY DEF Writes, owner
<1>3. \A shown : Cardinality(Shows(log', shown)) = Cardinality(Shows(log, shown))
  <2>1. \A shown : Cardinality(Shows(log', shown)) = Cardinality(Shows(log, shown)) + 0
    BY <1>1, <1>2, ShowsAppend
  <2>2. \A shown : Cardinality(Shows(log, shown)) \in Nat
    BY <1>1, ShowsFinite
  <2> QED BY <2>1, <2>2
<1>4. \A r \in Active' : r \in Active \/ (e.op = "create" /\ r.id = e.id)
  <2>1. Active' = ActiveIn(Append(log, e)) /\ Active = ActiveIn(log)
    BY <1>2 DEF Active
  <2>2. ASSUME NEW r \in ActiveIn(Append(log, e))
        PROVE  r \in ActiveIn(log) \/ (e.op = "create" /\ r.id = e.id)
    BY <1>1, Survives
  <2> QED BY <2>1, <2>2
<1>5. SUFFICES ASSUME NEW shown \in Ids \X Nat
      PROVE  /\ Cardinality(Shows(log', shown)) <= lives'
             /\ ~faulted' /\ Open(shown)' => Cardinality(Shows(log', shown)) < lives'
  BY DEF OnceInv
<1>6. CASE e.op = "create" /\ shown[1] = e.id
  <2>1. e.id = Cardinality(Creates(log)) + 1
    BY <1>6 DEF Legal
  <2>2. \A i \in DOMAIN log : log[i].op = "create" => log[i].id # e.id
    BY <1>1, <2>1, FreshId
  <2>3. Shows(log, shown) = {}
    BY <1>1, <1>6, <2>2, ShownCreated
  <2>4. Cardinality(Shows(log', shown)) = 0
    BY <1>3, <2>3, FS_EmptySet
  <2> QED BY <1>1, <1>2, <2>4
<1>7. CASE ~(e.op = "create" /\ shown[1] = e.id)
  <2>1. Open(shown)' => Open(shown)
    BY <1>4, <1>7 DEF Open
  <2> QED BY <1>1, <1>2, <1>3, <2>1 DEF OnceInv
<1> QED BY <1>6, <1>7

\* A claim presents what is still to come, and takes it on unless it faults.
LEMMA OnceClaimed ==
  ASSUME Inv, NEW order \in SetToSeqs(Batch), NEW k \in 0 .. Len(order), Claim(order, k)
  PROVE  OnceInv'
<1>1. Valid(log) /\ log \in Seq(Events) /\ OnceInv /\ lives \in Nat /\ now \in Nat
  BY DEF Inv, LogInv, Valid, StateTypes
<1>2. /\ log' = Claimed(order, k) /\ lives' = lives /\ faulted' = (k < Len(order))
      /\ ~faulted
  BY DEF Claim, Claimed, Driving, Inv, FaultInv
<1>3. /\ Advanced(order, k)
      /\ \A shown : Cardinality(Shows(log', shown)) =
           Cardinality(Shows(log, shown)) + (IF shown \in Shown THEN 1 ELSE 0)
  BY <1>1, <1>2, ClaimLog
<1>4. \A shown : Cardinality(Shows(log, shown)) \in Nat
  BY <1>1, ShowsFinite
<1>5. /\ Len(order) \in Nat /\ \A i \in 1 .. Len(order) : order[i] \in Batch
      /\ \A r \in Batch : \E i \in 1 .. Len(order) : order[i] = r
  BY <1>1, BatchDue, Ordered
<1>6. /\ Batch \subseteq Active /\ \A r \in Batch : r \in Record /\ r.at <= now
      /\ \A r, q \in Active : r.id = q.id => r = q
  BY <1>1, BatchDue
<1>7. \A i \in 1 .. k : i \in 1 .. Len(order)
  BY <1>5
<1>8. \A r \in Active' :
        \/ r \in Active /\ \A i \in 1 .. k : order[i].id # r.id
        \/ \E i \in 1 .. k : /\ order[i].kind = "every"
                             /\ r = [order[i] EXCEPT !.at = NextAt(order[i].at, now)]
  BY <1>2, <1>3 DEF Advanced, Active
<1>9. \A i \in 1 .. k :
        LET q == order[i]
            r == [q EXCEPT !.at = NextAt(q.at, now)]
        IN  r.id = q.id /\ r.at = NextAt(q.at, now) /\ q.at <= r.at /\ q \in Active
              /\ q.at \in Nat /\ r.at \in Nat
  <2>1. ASSUME NEW q \in Record, q.at <= now
        PROVE  LET r == [q EXCEPT !.at = NextAt(q.at, now)]
               IN  r.id = q.id /\ r.at = NextAt(q.at, now) /\ q.at <= r.at
                     /\ q.at \in Nat /\ r.at \in Nat
    <3>1. q.at \in Nat
      BY DEF Record
    <3>2. NextAt(q.at, now) \in Nat /\ q.at <= NextAt(q.at, now)
      <4> DEFINE b == q.at
      <4>1. b \in Nat /\ b <= now
        BY <2>1, <3>1
      <4> HIDE DEF b
      <4>2. NextAt(b, now) \in Nat /\ b <= Occurrence(b, now)
              /\ Occurrence(b, now) < NextAt(b, now) /\ Occurrence(b, now) \in Nat
        BY <1>1, <4>1, Grid
      <4>3. NextAt(b, now) \in Nat /\ b <= NextAt(b, now)
        BY <4>1, <4>2
      <4> QED BY <4>3 DEF b
    <3> QED BY <3>1, <3>2 DEF Record
  <2> QED BY <1>5, <1>6, <1>7, <2>1
<1>10. SUFFICES ASSUME NEW shown \in Ids \X Nat
       PROVE  /\ Cardinality(Shows(log', shown)) <= lives'
              /\ ~faulted' /\ Open(shown)' => Cardinality(Shows(log', shown)) < lives'
  BY DEF OnceInv
<1>11. CASE shown \in Shown
  <2>1. PICK q \in Batch : /\ q.id = shown[1] /\ q.at <= shown[2]
                           /\ shown[2] < NextAt(q.at, now) \/ q.kind = "once"
    BY <1>1, <1>11, ShownDue
  <2>2. Open(shown)
    BY <1>6, <2>1 DEF Open
  <2>3. Cardinality(Shows(log, shown)) < lives
    BY <1>1, <1>2, <2>2 DEF OnceInv
  <2>4. Cardinality(Shows(log', shown)) <= lives'
    <3>1. Cardinality(Shows(log', shown)) = Cardinality(Shows(log, shown)) + 1
      BY <1>3, <1>11
    <3> QED BY <1>1, <1>2, <1>4, <2>3, <3>1
  <2>5. ASSUME ~faulted' PROVE ~Open(shown)'
    <3>1. k = Len(order)
      <4>1. ~(k < Len(order))
        BY <1>2, <2>5, Zenon
      <4> QED BY <1>5, <4>1
    <3>2. PICK i \in 1 .. k : order[i] = q
      BY <1>5, <3>1
    <3>3. ASSUME NEW r \in Active', r.id = shown[1] PROVE ~(r.at <= shown[2])
      <4>1. PICK j \in 1 .. k : /\ order[j].kind = "every"
                                /\ r = [order[j] EXCEPT !.at = NextAt(order[j].at, now)]
        BY <1>8, <2>1, <3>2, <3>3
      <4>2. order[j].id = shown[1] /\ r.at = NextAt(order[j].at, now) /\ order[j] \in Active
            /\ r.at \in Nat
        BY <1>9, <3>3, <4>1
      <4>3. order[j] = q
        BY <1>6, <2>1, <4>2
      <4>4. shown[2] < NextAt(q.at, now)
        BY <2>1, <4>1, <4>3
      <4>5. shown[2] \in Nat
        OBVIOUS
      <4> QED BY <4>2, <4>3, <4>4, <4>5
    <3> QED BY <3>3 DEF Open
  <2> QED BY <2>4, <2>5
<1>12. CASE shown \notin Shown
  <2>1. Cardinality(Shows(log', shown)) = Cardinality(Shows(log, shown))
    BY <1>3, <1>4, <1>12
  <2>2. Open(shown)' => Open(shown)
    <3>1. SUFFICES ASSUME NEW r \in Active', r.id = shown[1], r.at <= shown[2]
          PROVE  \E q \in Active : q.id = shown[1] /\ q.at <= shown[2]
      BY DEF Open
    <3>2. CASE r \in Active
      BY <3>1, <3>2
    <3>3. CASE \E i \in 1 .. k : /\ order[i].kind = "every"
                                 /\ r = [order[i] EXCEPT !.at = NextAt(order[i].at, now)]
      <4>1. PICK i \in 1 .. k : r = [order[i] EXCEPT !.at = NextAt(order[i].at, now)]
        BY <3>3
      <4>2. order[i].id = shown[1] /\ order[i].at <= r.at /\ order[i] \in Active
            /\ order[i].at \in Nat /\ r.at \in Nat
        BY <1>9, <3>1, <4>1
      <4>3. shown[2] \in Nat
        OBVIOUS
      <4>4. order[i].at <= shown[2]
        BY <3>1, <4>2, <4>3
      <4> QED BY <4>2, <4>4
    <3> QED BY <1>8, <3>2, <3>3
  <2> QED BY <1>1, <1>2, <2>1, <2>2 DEF OnceInv
<1> QED BY <1>11, <1>12

\* Every step, by what it writes.
LEMMA OnceStep == ASSUME Inv, [Next]_vars PROVE OnceInv'
<1>1. Valid(log) /\ log \in Seq(Events) /\ OnceInv /\ lives \in Nat /\ saved \in 0 .. Len(log)
      /\ Len(log) \in Nat
  BY Entries DEF Inv, LogInv, Valid, StateTypes
<1>2. CASE Restart
  <2>1. PICK k \in saved .. Len(log) : log' = SubSeq(log, 1, k)
    BY <1>2 DEF Restart
  <2>2. k \in 0 .. Len(log) /\ lives' = lives + 1
    BY <1>1, <1>2 DEF Restart
  <2>3. ASSUME NEW shown \in Ids \X Nat PROVE Cardinality(Shows(log', shown)) < lives'
    <3>1. Cardinality(Shows(log', shown)) <= Cardinality(Shows(log, shown))
      BY <1>1, <2>1, <2>2, ShowsPrefix
    <3>2. log' \in Seq(Events)
      BY <1>1, <2>1, <2>2, Prefix
    <3>3. Cardinality(Shows(log', shown)) \in Nat /\ Cardinality(Shows(log, shown)) \in Nat
      BY <1>1, <3>2, ShowsFinite
    <3>4. Cardinality(Shows(log, shown)) <= lives
      BY <1>1 DEF OnceInv
    <3> QED BY <1>1, <2>2, <3>1, <3>3, <3>4
  <2>4. ASSUME NEW shown \in Ids \X Nat
        PROVE  Cardinality(Shows(log', shown)) <= lives' /\ Cardinality(Shows(log', shown)) < lives'
    <3>1. log' \in Seq(Events)
      BY <1>1, <2>1, <2>2, Prefix
    <3>2. Cardinality(Shows(log', shown)) \in Nat
      BY <3>1, ShowsFinite
    <3> QED BY <1>1, <2>2, <2>3, <3>2
  <2> QED BY <2>4 DEF OnceInv
<1>3. CASE ~Restart /\ log' = log
  <2>1. lives' = lives /\ (faulted => faulted')
    BY <1>3, Steady
  <2>2. Active' = Active
    BY <1>3, SameRecords
  <2>3. \A shown \in Ids \X Nat : Cardinality(Shows(log', shown)) = Cardinality(Shows(log, shown))
    BY <1>3
  <2> QED BY <1>1, <2>1, <2>2, <2>3, OnceFewer
<1>4. CASE Claims
  BY <1>4, OnceClaimed DEF Claims
<1>5. CASE \E t \in Calls : \E kind \in {"once", "every"} : ToolCreates(t, kind)
  BY <1>5, CreateLegal, OnceWritten
<1>6. CASE \E t \in Calls : ToolDeletes(t)
  BY <1>6, DeleteLegal, OnceWritten
<1> QED BY <1>2, <1>3, <1>4, <1>5, <1>6, Writers

-----------------------------------------------------------------------------
(* The theorems *)

\* Nothing was created, called or presented at first.
LEMMA InitInv == Init => Inv
<1> SUFFICES ASSUME Init PROVE Inv
  OBVIOUS
<1>1. log = <<>> /\ saved = 0 /\ run = "queued" /\ faulted = FALSE /\ lives = 1
  BY DEF Init
<1>2. log \in Seq(Events) /\ DOMAIN log = {} /\ Len(log) = 0 /\ Active = {}
  BY <1>1, ActiveEmpty DEF Active
<1>3. LogInv
  BY <1>1, <1>2 DEF LogInv, Valid
<1>4. StateTypes
  <2>1. /\ now = 0 /\ back = 0 /\ agent = "idle" /\ requested = FALSE /\ timer = None
        /\ idleWait = FALSE /\ failed = FALSE /\ stopping = FALSE /\ faulted = FALSE
        /\ run = "queued" /\ lives = 1
    BY DEF Init
  <2>2. 0 \in 0 .. MaxTime /\ 0 \in 0 .. MaxBack
    OBVIOUS
  <2>3. now \in 0 .. MaxTime /\ back \in 0 .. MaxBack
    BY <2>1, <2>2
  <2>4. /\ requested \in BOOLEAN /\ idleWait \in BOOLEAN /\ failed \in BOOLEAN
        /\ faulted \in BOOLEAN /\ stopping \in BOOLEAN
    BY <2>1, Zenon
  <2>5. lives \in Nat \ {0} /\ timer \in Nat \cup {None}
    BY <2>1
  <2>6. /\ agent \in {"idle", "running", "maintenance"}
        /\ run \in {"none", "queued", "maintenance", "barrier", "ending"}
    BY <2>1
  <2> QED BY <2>3, <2>4, <2>5, <2>6, Zenon DEF StateTypes
<1>5. call = [t \in Calls |-> NoCall]
  BY DEF Init
<1>6. CallTypes
  BY <1>5 DEF CallTypes, NoCall
<1>7. \A t \in Calls : call[t].pc = "idle"
  BY <1>5 DEF NoCall
<1>8. CallInv /\ ConfirmedHolds
  BY <1>7 DEF CallInv, ConfirmedHolds
<1>9. FaultInv /\ WakeGuaranteed
  BY <1>1 DEF FaultInv, WakeGuaranteed
<1>10. OnceInv
  <2>1. \A shown : Shows(log, shown) = {}
    BY <1>2 DEF Shows
  <2>2. \A shown : Cardinality(Shows(log, shown)) = 0
    BY <2>1, FS_EmptySet
  <2> QED BY <1>1, <2>2 DEF OnceInv
<1> QED BY <1>3, <1>4, <1>6, <1>8, <1>9, <1>10 DEF Inv

\* Each part of the invariant is kept.
LEMMA NextInv == Inv /\ [Next]_vars => Inv'
<1> SUFFICES ASSUME Inv, [Next]_vars PROVE Inv'
  OBVIOUS
<1>1. LogInv'
  BY LogStep
<1>2. StateTypes' /\ CallTypes'
  BY TypesStep, CallsStep
<1>3. CallInv' /\ ConfirmedHolds'
  BY CallInvStep, ConfirmedStep
<1>4. FaultInv' /\ WakeGuaranteed'
  BY WatchedStep DEF Watched
<1>5. OnceInv'
  BY OnceStep
<1> QED BY <1>1, <1>2, <1>3, <1>4, <1>5 DEF Inv

\* The invariant holds in every reachable state.
THEOREM Invariance == SafetySpec => []Inv
BY InitInv, NextInv, PTL DEF SafetySpec

\* Two tools, or a tool and the runtime, never write a log that the fold rejects: an
\* id is created once and only an active record is deleted or dispatched.
THEOREM TypeCorrect == SafetySpec => []TypeOK
BY Invariance, InvTypes, PTL

\* What a tool confirmed or listed is durable, over crashes and failed flushes.
THEOREM ConfirmationHolds == SafetySpec => []ConfirmedHolds
<1>1. Inv => ConfirmedHolds
  BY DEF Inv
<1> QED BY <1>1, Invariance, PTL

\* An active reminder is never left without something that will look at it again,
\* but for a drive that gave up on a failure.
THEOREM WakeIsGuaranteed == SafetySpec => []WakeGuaranteed
<1>1. Inv => WakeGuaranteed
  BY DEF Inv
<1> QED BY <1>1, Invariance, PTL

\* One life of the runtime presents an occurrence at most once, on the grid of the
\* reminder's creation, and none of a deleted reminder.
THEOREM RemindsOnce == SafetySpec => []RemindedOnce
BY Invariance, InvReminds, PTL
=============================================================================
