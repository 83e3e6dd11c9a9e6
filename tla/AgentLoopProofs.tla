--------------------------- MODULE AgentLoopProofs ---------------------------
(***************************************************************************)
(* What the driver and its inbox keep for any set of messages, steps of a  *)
(* turn and turns.  PlaceInv says where each message is by its fate, and   *)
(* TurnInv what the log has open by where the driver is.  A step is first  *)
(* classified by what it does to the messages (it leaves them, settles     *)
(* what the driver holds, claims, clears, puts back, or is one message's)  *)
(* and PlaceInv is proved per kind; TurnInv is proved per handler.  The    *)
(* queues are changed by splicing, so lemmas on sequences come first.      *)
(***************************************************************************)
EXTENDS AgentLoop, FiniteSetTheorems, SequenceTheorems, TLAPS

USE AgentLoopAssumption

\* Where a turn of the log is open.
InTurn == {"opened", "assemble", "pre-step", "restored", "rejected", "entered",
           "opening", "step", "next", "stopping", "error"}

\* Where the driver may hold messages it claimed.
Holding == {"assemble", "pre-step", "restored", "rejected", "entered", "opening",
            "error"}

\* Every message is in the place its fate tells, and there once; a driver that
\* holds messages has claimed them in the open turn.
PlaceInv ==
  /\ IsInjective(nextStep) /\ IsInjective(nextTurn) /\ IsInjective(batch)
  /\ \A m \in Messages : ~(m \in ToSet(nextStep) /\ m \in ToSet(nextTurn))
  /\ \A m \in Messages : fate[m] \in Waiting <=> m \in Pending
  /\ \A m \in Messages : fate[m] = "claimed" <=> m \in ToSet(batch)
  /\ pc \notin Holding => batch = <<>>
  /\ batch # <<>> => log.claimed

\* The log's turn is the driver's, and its step as well while one is open; what
\* the turn did so far is told by where the driver is.
TurnInv ==
  /\ phase = "running" <=> pc # "off"
  /\ pc \in InTurn <=> log.open # 0
  /\ pc \in InTurn => log.open = turn /\ (log.stepped <=> step > 0)
  /\ log.open = 0 => ~log.stepped /\ ~log.claimed
  /\ pc \in {"start", "between", "opened"} => step = 0
  /\ log.openStep = IF pc \in {"opening", "step"} THEN step ELSE 0
  /\ pc = "opened" => ~log.claimed /\ target = "next-turn"
  /\ pc = "next" => target = "next-step"
  /\ pc = "stopping" => turnEnds # "none"

\* The first part of TypeOK: the queues, with what the log and the fates say of
\* them.
QueueTypes ==
  /\ nextStep \in Seq(Messages) /\ nextTurn \in Seq(Messages)
  /\ batch \in Seq(Messages)
  /\ log \in Ledger
  /\ fate \in [Messages -> Fate]

\* The rest of TypeOK.
StateTypes ==
  /\ phase \in {"idle", "maintenance", "running"}
  /\ abort \in {"none", "user", "disposed"}
  /\ wake \in BOOLEAN /\ context \in BOOLEAN /\ disposed \in BOOLEAN
  /\ turn \in Nat /\ step \in Nat
  /\ pc \in PC
  /\ target \in {"next-turn", "next-step"}
  /\ turnEnds \in Ending \cup {"none"}
  /\ phase = "idle" => abort = "none" /\ ~wake
  /\ retire \in {"no", "plain", "replay"}
  /\ sending \in {"no", "plain", "afterAbort"}

\* The inductive invariant.
Inv == TypeOK /\ TurnInv /\ PlaceInv

-----------------------------------------------------------------------------
(* Queues *)

\* A queue's members are its entries.
LEMMA Members ==
  ASSUME NEW M, NEW s \in Seq(M)
  PROVE  /\ Len(s) \in Nat /\ DOMAIN s = 1..Len(s)
         /\ ToSet(s) \subseteq M
         /\ \A x : x \in ToSet(s) <=> \E i \in 1..Len(s) : s[i] = x
         /\ s = <<>> <=> ToSet(s) = {}
         /\ s = <<>> <=> Len(s) = 0
         /\ IsInjective(s) <=> \A i, j \in 1..Len(s) : s[i] = s[j] => i = j
<1>1. Len(s) \in Nat /\ DOMAIN s = 1..Len(s) /\ \A i \in 1..Len(s) : s[i] \in M
  BY LenProperties
<1>2. s = <<>> <=> Len(s) = 0
  BY EmptySeq
<1>3. \A x : x \in ToSet(s) <=> \E i \in 1..Len(s) : s[i] = x
  BY <1>1 DEF ToSet
<1>4. s = <<>> <=> ToSet(s) = {}
  <2>1. ASSUME s # <<>> PROVE ToSet(s) # {}
    <3>1. 1 \in 1..Len(s)
      BY <1>1, <1>2, <2>1
    <3> QED BY <1>3, <3>1
  <2>2. ASSUME s = <<>> PROVE ToSet(s) = {}
    <3>1. ~\E i \in 1..Len(s) : TRUE
      BY <1>2, <2>2
    <3> QED BY <1>3, <3>1
  <2> QED BY <2>1, <2>2
<1> QED BY <1>1, <1>2, <1>3, <1>4 DEF IsInjective

\* Nothing is in the empty queue.
LEMMA NoMembers == ToSet(<<>>) = {} /\ IsInjective(<<>>) /\ \A M : <<>> \in Seq(M)
<1>1. <<>> \in Seq({})
  BY EmptySeq
<1>2. ToSet(<<>>) = {}
  BY <1>1, Members
<1>3. IsInjective(<<>>)
  <2>1. Len(<<>>) = 0
    BY EmptySeq
  <2>2. \A i, j \in 1..Len(<<>>) : <<>>[i] = <<>>[j] => i = j
    BY <2>1
  <2> DEFINE none == <<>>
  <2>3. none \in Seq({}) /\ \A i, j \in 1..Len(none) : none[i] = none[j] => i = j
    BY <1>1, <2>2
  <2> HIDE DEF none
  <2>4. IsInjective(none)
    BY <2>3, Members
  <2> QED BY <2>4 DEF none
<1> QED BY <1>2, <1>3, EmptySeq

\* Two queues with no message in common, one behind the other.
LEMMA Joined ==
  ASSUME NEW M, NEW s \in Seq(M), NEW t \in Seq(M)
  PROVE  /\ s \o t \in Seq(M)
         /\ ToSet(s \o t) = ToSet(s) \cup ToSet(t)
         /\ Len(s \o t) = Len(s) + Len(t)
         /\ IsInjective(s) /\ IsInjective(t) /\ ToSet(s) \cap ToSet(t) = {}
              => IsInjective(s \o t)
<1> DEFINE u == s \o t
<1>1. /\ u \in Seq(M) /\ Len(u) = Len(s) + Len(t)
      /\ \A i \in 1..(Len(s) + Len(t)) : u[i] = IF i <= Len(s) THEN s[i] ELSE t[i - Len(s)]
  BY ConcatProperties
<1> HIDE DEF u
<1>2. /\ Len(s) \in Nat /\ Len(t) \in Nat
      /\ \A x : x \in ToSet(s) <=> \E i \in 1..Len(s) : s[i] = x
      /\ \A x : x \in ToSet(t) <=> \E i \in 1..Len(t) : t[i] = x
      /\ \A x : x \in ToSet(u) <=> \E i \in 1..Len(u) : u[i] = x
  BY <1>1, Members
<1>3. /\ \A i \in 1..Len(s) : i \in 1..Len(u) /\ u[i] = s[i]
      /\ \A i \in 1..Len(t) : Len(s) + i \in 1..Len(u) /\ u[Len(s) + i] = t[i]
      /\ \A i \in 1..Len(u) : \/ i \in 1..Len(s) /\ u[i] = s[i]
                              \/ i - Len(s) \in 1..Len(t) /\ u[i] = t[i - Len(s)]
  <2>1. ASSUME NEW i \in 1..Len(s) PROVE i \in 1..Len(u) /\ u[i] = s[i]
    BY <1>1, <1>2
  <2>2. ASSUME NEW i \in 1..Len(t)
        PROVE  Len(s) + i \in 1..Len(u) /\ u[Len(s) + i] = t[i]
    <3>1. /\ Len(s) + i \in 1..Len(u) /\ ~(Len(s) + i <= Len(s))
          /\ Len(s) + i - Len(s) = i
      BY <1>1, <1>2
    <3> QED BY <1>1, <3>1
  <2>3. ASSUME NEW i \in 1..Len(u)
        PROVE  \/ i \in 1..Len(s) /\ u[i] = s[i]
               \/ i - Len(s) \in 1..Len(t) /\ u[i] = t[i - Len(s)]
    BY <1>1, <1>2
  <2> QED BY <2>1, <2>2, <2>3
<1>4. ToSet(u) = ToSet(s) \cup ToSet(t)
  <2>1. ASSUME NEW x \in ToSet(u) PROVE x \in ToSet(s) \cup ToSet(t)
    BY <1>2, <1>3
  <2>2. ASSUME NEW x \in ToSet(s) PROVE x \in ToSet(u)
    BY <1>2, <1>3
  <2>3. ASSUME NEW x \in ToSet(t) PROVE x \in ToSet(u)
    BY <1>2, <1>3
  <2> QED BY <2>1, <2>2, <2>3
<1>5. ASSUME IsInjective(s), IsInjective(t), ToSet(s) \cap ToSet(t) = {}
      PROVE  IsInjective(u)
  <2>1. /\ \A i, j \in 1..Len(s) : s[i] = s[j] => i = j
        /\ \A i, j \in 1..Len(t) : t[i] = t[j] => i = j
    BY <1>5, Members
  <2>2. ASSUME NEW i \in 1..Len(u), NEW j \in 1..Len(u), u[i] = u[j]
        PROVE  i = j
    <3>1. CASE i \in 1..Len(s) /\ u[i] = s[i] /\ j \in 1..Len(s) /\ u[j] = s[j]
      BY <2>1, <2>2, <3>1
    <3>2. CASE /\ i - Len(s) \in 1..Len(t) /\ u[i] = t[i - Len(s)]
               /\ j - Len(s) \in 1..Len(t) /\ u[j] = t[j - Len(s)]
      <4>1. i - Len(s) = j - Len(s)
        BY <2>1, <2>2, <3>2
      <4> QED BY <1>2, <4>1
    <3>3. ASSUME NEW k \in 1..Len(s), NEW l \in 1..Len(t) PROVE s[k] # t[l]
      <4>1. s[k] \in ToSet(s) /\ t[l] \in ToSet(t)
        BY <1>2
      <4> QED BY <1>5, <4>1
    <3> QED BY <1>3, <2>2, <3>1, <3>2, <3>3
  <2> QED BY <1>1, <2>2, Members
<1> QED BY <1>1, <1>4, <1>5 DEF u

\* The queue of one message.
LEMMA Single ==
  ASSUME NEW M, NEW m \in M
  PROVE  <<m>> \in Seq(M) /\ ToSet(<<m>>) = {m} /\ IsInjective(<<m>>) /\ Len(<<m>>) = 1
<1> DEFINE one == <<m>>
<1>1. one \in Seq(M) /\ Len(one) = 1 /\ one[1] = m
  OBVIOUS
<1> HIDE DEF one
<1>2. ToSet(one) = {m} /\ IsInjective(one)
  BY <1>1, Members
<1> QED BY <1>1, <1>2 DEF one

\* A message put behind a queue.
LEMMA Appended ==
  ASSUME NEW M, NEW s \in Seq(M), NEW m \in M
  PROVE  /\ Append(s, m) \in Seq(M)
         /\ ToSet(Append(s, m)) = ToSet(s) \cup {m}
         /\ Len(Append(s, m)) = Len(s) + 1
         /\ IsInjective(s) /\ m \notin ToSet(s) => IsInjective(Append(s, m))
<1> DEFINE one == <<m>>
<1>1. one \in Seq(M) /\ ToSet(one) = {m} /\ IsInjective(one) /\ Len(one) = 1
  BY Single
<1>2. Append(s, m) = s \o one
  BY AppendIsConcat
<1> HIDE DEF one
<1>3. /\ s \o one \in Seq(M)
      /\ ToSet(s \o one) = ToSet(s) \cup ToSet(one)
      /\ Len(s \o one) = Len(s) + Len(one)
      /\ IsInjective(s) /\ IsInjective(one) /\ ToSet(s) \cap ToSet(one) = {}
           => IsInjective(s \o one)
  BY <1>1, Joined
<1> QED BY <1>1, <1>2, <1>3

\* A message put in front of a queue.
LEMMA Prepended ==
  ASSUME NEW M, NEW s \in Seq(M), NEW m \in M
  PROVE  /\ <<m>> \o s \in Seq(M)
         /\ ToSet(<<m>> \o s) = ToSet(s) \cup {m}
         /\ IsInjective(s) /\ m \notin ToSet(s) => IsInjective(<<m>> \o s)
<1> DEFINE one == <<m>>
<1>1. one \in Seq(M) /\ ToSet(one) = {m} /\ IsInjective(one) /\ Len(one) = 1
  BY Single
<1> HIDE DEF one
<1>2. /\ one \o s \in Seq(M)
      /\ ToSet(one \o s) = ToSet(one) \cup ToSet(s)
      /\ IsInjective(one) /\ IsInjective(s) /\ ToSet(one) \cap ToSet(s) = {}
           => IsInjective(one \o s)
  BY <1>1, Joined
<1>3. /\ one \o s \in Seq(M)
      /\ ToSet(one \o s) = ToSet(s) \cup {m}
      /\ IsInjective(s) /\ m \notin ToSet(s) => IsInjective(one \o s)
  BY <1>1, <1>2
<1> QED BY <1>3 DEF one

\* A part of a queue.
LEMMA Part ==
  ASSUME NEW M, NEW s \in Seq(M), NEW a \in Nat \ {0}, NEW b \in 0..Len(s)
  PROVE  /\ SubSeq(s, a, b) \in Seq(M)
         /\ Len(SubSeq(s, a, b)) = IF a <= b THEN b - a + 1 ELSE 0
         /\ \A x : x \in ToSet(SubSeq(s, a, b)) <=> \E i \in a..b : s[i] = x
         /\ IsInjective(s) => IsInjective(SubSeq(s, a, b))
<1> DEFINE u == SubSeq(s, a, b)
<1>1. Len(s) \in Nat /\ \A i \in a..b : i \in 1..Len(s) /\ s[i] \in M
  BY LenProperties
<1>2. /\ u \in Seq(M) /\ Len(u) = IF a <= b THEN b - a + 1 ELSE 0
      /\ \A i \in 1..(b - a + 1) : u[i] = s[a + i - 1]
  BY <1>1, SubSeqProperties
<1> HIDE DEF u
<1>3. /\ \A i \in 1..Len(u) : a + i - 1 \in a..b /\ u[i] = s[a + i - 1]
      /\ \A i \in a..b : i - a + 1 \in 1..Len(u) /\ u[i - a + 1] = s[i]
  BY <1>1, <1>2
<1>4. \A x : x \in ToSet(u) <=> \E i \in 1..Len(u) : u[i] = x
  BY <1>2, Members
<1>5. \A x : x \in ToSet(u) <=> \E i \in a..b : s[i] = x
  BY <1>3, <1>4
<1>6. ASSUME IsInjective(s) PROVE IsInjective(u)
  <2>1. ASSUME NEW i \in 1..Len(u), NEW j \in 1..Len(u), u[i] = u[j] PROVE i = j
    <3>1. a + i - 1 = a + j - 1
      BY <1>1, <1>3, <1>6, <2>1, Members
    <3> QED BY <1>2, <3>1
  <2> QED BY <1>2, <2>1, Members
<1> QED BY <1>2, <1>5, <1>6 DEF u

\* A queue without a message: the others stay, in the order they had.
LEMMA Removed ==
  ASSUME NEW M, NEW s \in Seq(M), IsInjective(s), NEW m
  PROVE  /\ Without(s, m) \in Seq(M)
         /\ ToSet(Without(s, m)) = ToSet(s) \ {m}
         /\ IsInjective(Without(s, m))
         /\ Len(Without(s, m)) = Len(s) - (IF m \in ToSet(s) THEN 1 ELSE 0)
<1>0. /\ Len(s) \in Nat /\ DOMAIN s = 1..Len(s)
      /\ \A x : x \in ToSet(s) <=> \E i \in 1..Len(s) : s[i] = x
      /\ \A i, j \in 1..Len(s) : s[i] = s[j] => i = j
  BY Members
<1>1. CASE m \notin ToSet(s)
  BY <1>0, <1>1 DEF Without
<1>2. CASE m \in ToSet(s)
  <2> DEFINE p == Position(s, m)
             a == SubSeq(s, 1, p - 1)
             b == SubSeq(s, p + 1, Len(s))
  <2>1. p \in 1..Len(s) /\ s[p] = m
    BY <1>0, <1>2 DEF Position
  <2>2. Without(s, m) = a \o b
    BY <1>2 DEF Without, RemoveAt
  <2> HIDE DEF p
  <2>3. /\ a \in Seq(M) /\ IsInjective(a)
        /\ Len(a) = p - 1
        /\ \A x : x \in ToSet(a) <=> \E i \in 1..(p - 1) : s[i] = x
    <3>1. p - 1 \in 0..Len(s) /\ 1 \in Nat \ {0}
      BY <1>0, <2>1
    <3>2. /\ a \in Seq(M) /\ IsInjective(a)
          /\ Len(a) = IF 1 <= p - 1 THEN p - 1 - 1 + 1 ELSE 0
          /\ \A x : x \in ToSet(a) <=> \E i \in 1..(p - 1) : s[i] = x
      BY <3>1, Part
    <3> QED BY <1>0, <2>1, <3>2
  <2>4. /\ b \in Seq(M) /\ IsInjective(b)
        /\ Len(b) = Len(s) - p
        /\ \A x : x \in ToSet(b) <=> \E i \in (p + 1)..Len(s) : s[i] = x
    <3>1. p + 1 \in Nat \ {0} /\ Len(s) \in 0..Len(s)
      BY <1>0, <2>1
    <3>2. /\ b \in Seq(M) /\ IsInjective(b)
          /\ Len(b) = IF p + 1 <= Len(s) THEN Len(s) - (p + 1) + 1 ELSE 0
          /\ \A x : x \in ToSet(b) <=> \E i \in (p + 1)..Len(s) : s[i] = x
      BY <3>1, Part
    <3>3. Len(b) = Len(s) - p
      <4>1. Len(b) = IF p + 1 <= Len(s) THEN Len(s) - (p + 1) + 1 ELSE 0
        BY <3>2
      <4> HIDE DEF b
      <4>2. p \in Int /\ Len(s) \in Int /\ p <= Len(s)
        BY <1>0, <2>1
      <4> QED BY <4>1, <4>2
    <3> QED BY <3>2, <3>3
  <2> HIDE DEF a, b
  <2>5. \A x : x \in ToSet(a) \cup ToSet(b) <=> x \in ToSet(s) \ {m}
    <3>1. \A i \in 1..Len(s) : i \in 1..(p - 1) \/ i = p \/ i \in (p + 1)..Len(s)
      BY <1>0, <2>1
    <3>2. \A i \in 1..(p - 1) : i \in 1..Len(s) /\ i # p
      BY <1>0, <2>1
    <3>3. \A i \in (p + 1)..Len(s) : i \in 1..Len(s) /\ i # p
      BY <1>0, <2>1
    <3>4. ASSUME NEW x \in ToSet(a) \cup ToSet(b) PROVE x \in ToSet(s) \ {m}
      BY <1>0, <2>1, <2>3, <2>4, <3>2, <3>3
    <3>5. ASSUME NEW x \in ToSet(s) \ {m} PROVE x \in ToSet(a) \cup ToSet(b)
      BY <1>0, <2>1, <2>3, <2>4, <3>1
    <3> QED BY <3>4, <3>5
  <2>6. ToSet(a) \cap ToSet(b) = {}
    <3> SUFFICES ASSUME NEW x, x \in ToSet(a), x \in ToSet(b) PROVE FALSE
      OBVIOUS
    <3>1. PICK i \in 1..(p - 1) : s[i] = x
      BY <2>3
    <3>2. PICK j \in (p + 1)..Len(s) : s[j] = x
      BY <2>4
    <3> QED BY <1>0, <2>1, <3>1, <3>2
  <2>7. /\ a \o b \in Seq(M) /\ ToSet(a \o b) = ToSet(a) \cup ToSet(b)
        /\ Len(a \o b) = Len(a) + Len(b) /\ IsInjective(a \o b)
    <3>1. /\ a \o b \in Seq(M) /\ ToSet(a \o b) = ToSet(a) \cup ToSet(b)
          /\ Len(a \o b) = Len(a) + Len(b)
          /\ IsInjective(a) /\ IsInjective(b) /\ ToSet(a) \cap ToSet(b) = {}
               => IsInjective(a \o b)
      BY <2>3, <2>4, Joined, SMTT(30)
    <3> QED BY <2>3, <2>4, <2>6, <3>1
  <2>8. Len(a) + Len(b) = Len(s) - 1
    BY <1>0, <2>1, <2>3, <2>4
  <2> QED BY <1>2, <2>2, <2>5, <2>7, <2>8
<1> QED BY <1>1, <1>2

\* A queue with a message in the place of another.
LEMMA Replaced ==
  ASSUME NEW M, NEW s \in Seq(M), IsInjective(s), NEW m \in M, NEW n \in M,
         n \notin ToSet(s)
  PROVE  /\ ReplaceAll(s, m, n) \in Seq(M)
         /\ ToSet(ReplaceAll(s, m, n))
              = (ToSet(s) \ {m}) \cup (IF m \in ToSet(s) THEN {n} ELSE {})
         /\ IsInjective(ReplaceAll(s, m, n))
         /\ Len(ReplaceAll(s, m, n)) = Len(s)
<1> DEFINE u == ReplaceAll(s, m, n)
<1>0. /\ Len(s) \in Nat /\ s \in [1..Len(s) -> M]
      /\ \A x : x \in ToSet(s) <=> \E i \in 1..Len(s) : s[i] = x
      /\ \A i, j \in 1..Len(s) : s[i] = s[j] => i = j
  BY Members, LenProperties
<1>1. u \in [1..Len(s) -> M]
  BY <1>0 DEF ReplaceAll
<1>2. u \in Seq(M) /\ Len(u) = Len(s)
  BY <1>0, <1>1, SeqDef
<1>3. \A i \in 1..Len(s) : u[i] = IF s[i] = m THEN n ELSE s[i]
  BY DEF ReplaceAll
<1> HIDE DEF u
<1>4. \A x : x \in ToSet(u) <=> \E i \in 1..Len(s) : u[i] = x
  BY <1>2, Members
<1>5. \A i \in 1..Len(s) : s[i] # n
  BY <1>0
<1>6. ASSUME NEW i \in 1..Len(u), NEW j \in 1..Len(u), u[i] = u[j] PROVE i = j
  BY <1>0, <1>2, <1>3, <1>5, <1>6
<1>7. \A x : x \in ToSet(u) <=> x \in (ToSet(s) \ {m}) \cup (IF m \in ToSet(s) THEN {n} ELSE {})
  <2>1. ASSUME NEW x \in ToSet(u)
        PROVE  x \in (ToSet(s) \ {m}) \cup (IF m \in ToSet(s) THEN {n} ELSE {})
    BY <1>0, <1>3, <1>4
  <2>2. ASSUME NEW x \in ToSet(s) \ {m} PROVE x \in ToSet(u)
    BY <1>0, <1>3, <1>4
  <2>3. ASSUME m \in ToSet(s) PROVE n \in ToSet(u)
    BY <1>0, <1>3, <1>4, <2>3
  <2> QED BY <2>1, <2>2, <2>3
<1>8. IsInjective(u)
  BY <1>2, <1>6, Members
<1> QED BY <1>2, <1>7, <1>8 DEF u

\* A queue's members are finitely many.
LEMMA FinitelyMany ==
  ASSUME NEW M, NEW s \in Seq(M)
  PROVE  IsFiniteSet(ToSet(s))
<1>1. Len(s) \in Nat /\ DOMAIN s = 1..Len(s) /\ s \in [1..Len(s) -> M]
  BY LenProperties
<1>2. IsFiniteSet(1..Len(s))
  BY <1>1, FS_Interval
<1>3. s \in Surjection(1..Len(s), ToSet(s))
  BY <1>1 DEF Surjection, ToSet
<1> QED BY <1>2, <1>3, FS_Surjection

\* An order of a finite set holds each of its members once.
LEMMA Ordered ==
  ASSUME NEW S, IsFiniteSet(S), NEW q \in SetToSeqs(S)
  PROVE  q \in Seq(S) /\ ToSet(q) = S /\ IsInjective(q)
<1>1. Cardinality(S) \in Nat
  BY FS_CardinalityType
<1>2. /\ q \in [1..Cardinality(S) -> S]
      /\ \A i, j \in 1..Cardinality(S) : i # j => q[i] # q[j]
  BY DEF SetToSeqs
<1>3. q \in Seq(S) /\ Len(q) = Cardinality(S)
  BY <1>1, <1>2, SeqDef
<1>4. q \in Injection(1..Cardinality(S), S)
  BY <1>2 DEF Injection, IsInjective
<1>5. IsFiniteSet(1..Cardinality(S)) /\ Cardinality(1..Cardinality(S)) = Cardinality(S)
  BY <1>1, FS_Interval
<1>6. q \in Surjection(1..Cardinality(S), S)
  BY <1>4, <1>5, FS_Injection
<1>7. \A x \in S : \E i \in 1..Cardinality(S) : q[i] = x
  BY <1>6 DEF Surjection
<1>8. ToSet(q) = S
  <2>1. \A x : x \in ToSet(q) <=> \E i \in 1..Len(q) : q[i] = x
    BY <1>3, Members
  <2>2. \A i \in 1..Len(q) : q[i] \in S
    BY <1>2, <1>3
  <2> QED BY <1>3, <1>7, <2>1, <2>2
<1> QED BY <1>2, <1>3, <1>8, Members

-----------------------------------------------------------------------------
(* Types *)

\* The two parts are TypeOK.
LEMMA TypeParts == TypeOK <=> QueueTypes /\ StateTypes
  BY DEF TypeOK, QueueTypes, StateTypes

\* Every step keeps the types of the driver's own variables.
LEMMA StateTypeStep ==
  ASSUME StateTypes, TurnInv, [Next]_vars
  PROVE  StateTypes'
<1> USE DEF StateTypes, PC
<1>1. ASSUME NEW m \in Messages, NEW where, NEW wakeup, NEW prompts,
             Insert(m, where, wakeup, prompts)
      PROVE  StateTypes'
  BY <1>1 DEF Insert, driver
<1>2. ASSUME NEW m \in Messages, Followup(m) \/ Steer(m) \/ Inject(m) \/ SteerQueued(m)
      PROVE  StateTypes'
  BY <1>1, <1>2 DEF Followup, Steer, Inject, Send, SteerQueued
<1>3. ASSUME NEW m \in Messages, Prepend(m) \/ Withdraw(m) PROVE StateTypes'
  BY <1>3 DEF Prepend, Withdraw, driver
<1>4. ASSUME NEW m \in Messages, NEW n \in Messages, Edit(m, n) PROVE StateTypes'
  BY <1>4 DEF Edit, driver
<1>5. ASSUME NEW cause \in {"user", "disposed"}, NEW keep \in BOOLEAN,
             DoCancel(cause, keep)
      PROVE  /\ abort' \in {"none", "user", "disposed"} /\ wake' \in BOOLEAN
             /\ phase = "idle" => abort' = "none" /\ ~wake'
  BY <1>5 DEF DoCancel, Aborted
<1>6. ASSUME NEW keep \in BOOLEAN, Cancel(keep) \/ ObserverCancel(keep)
      PROVE  StateTypes'
  BY <1>5, <1>6 DEF Cancel, ObserverCancel, driver
<1>7. CASE Dispose
  BY <1>5, <1>7, ZenonT(60) DEF Dispose, driver
<1>8. CASE RunMaintenance
  BY <1>8, ZenonT(60) DEF RunMaintenance, driver
<1>0. ASSUME NEW afterAbort \in BOOLEAN, WakeDriver(afterAbort)
      PROVE  /\ phase' \in {"running", "maintenance"}
             /\ abort' \in {"none", "user", "disposed"} /\ wake' \in BOOLEAN
             /\ step' \in Nat /\ pc' \in PC
  <2>1. CASE Starts
    <3>1. StartDriver
      BY <1>0, <2>1 DEF WakeDriver
    <3> QED BY <3>1 DEF StartDriver
  <2>2. CASE ~Starts
    <3>1. phase # "idle"
      BY <2>2 DEF Starts
    <3>2. /\ wake' = (wake \/ Latches(afterAbort))
          /\ UNCHANGED <<phase, abort, step, pc>>
      BY <1>0, <2>2 DEF WakeDriver
    <3>3. wake' \in BOOLEAN
      BY <3>2, Zenon
    <3> QED BY <3>1, <3>2, <3>3
  <2> QED BY <2>1, <2>2
<1>9. CASE SendWake
  <2>1. /\ WakeDriver(sending = "afterAbort") /\ sending' = "no"
        /\ UNCHANGED <<turn, context, target, turnEnds, retire, disposed>>
    BY <1>9 DEF SendWake
  <2>2. (sending = "afterAbort") \in BOOLEAN
    OBVIOUS
  <2> QED BY <1>0, <2>1, <2>2
<1>10. CASE EndMaintenance
  <2>1. UNCHANGED <<turn, context, target, turnEnds, retire, disposed, sending>>
    BY <1>10 DEF EndMaintenance
  <2>2. \/ StartDriver
        \/ phase' = "idle" /\ abort' = "none" /\ wake' = FALSE /\ UNCHANGED <<step, pc>>
    BY <1>10 DEF EndMaintenance
  <2>3. CASE StartDriver
    BY <2>1, <2>3 DEF StartDriver
  <2>4. CASE phase' = "idle" /\ abort' = "none" /\ wake' = FALSE /\ UNCHANGED <<step, pc>>
    BY <2>1, <2>4
  <2> QED BY <2>2, <2>3, <2>4
<1>11. CASE Retire
  <2>1. UNCHANGED <<turn, context, target, turnEnds, sending, disposed>> /\ retire' = "no"
    BY <1>11 DEF Retire
  <2>2. WakeDriver(FALSE) \/ UNCHANGED <<phase, abort, wake, step, pc>>
    BY <1>11 DEF Retire
  <2>3. CASE WakeDriver(FALSE)
    BY <1>0, <2>1, <2>3
  <2>4. CASE UNCHANGED <<phase, abort, wake, step, pc>>
    BY <2>1, <2>4
  <2> QED BY <2>2, <2>3, <2>4
<1>12. CASE OpenTurn
  BY <1>12 DEF OpenTurn, inbox
<1>13. CASE Claim
  BY <1>13 DEF Claim, EndAborted, EndTurn, Ending, TurnInv
<1>14. CASE Assembled \/ PreStep
  BY <1>14 DEF Assembled, PreStep, EndAborted, EndTurn, Throw, Ending, inbox, TurnInv
<1>15. ASSUME NEW S \in SUBSET ToSet(batch), Accept(S) \/ Restore(S)
       PROVE  StateTypes'
  BY <1>15 DEF Accept, Restore, inbox
<1>16. CASE Restored \/ Rejected
  BY <1>16 DEF Restored, Rejected, EndAborted, EndTurn, Ending, inbox
<1>17. CASE Entered
  <2>1. UNCHANGED <<phase, abort, wake, turn, target, retire, sending, disposed>>
          /\ context' = FALSE
    BY <1>17 DEF Entered
  <2>2. \/ turnEnds' \in Ending \cup {"none"} /\ pc' \in {"ended", "leaving"} /\ step' = step
        \/ step' = step + 1 /\ pc' = "opening" /\ turnEnds' = turnEnds
    BY <1>17 DEF Entered, EndAborted, EndTurn, EmptyEnding, Ending
  <2>3. CASE turnEnds' \in Ending \cup {"none"} /\ pc' \in {"ended", "leaving"} /\ step' = step
    BY <2>1, <2>3
  <2>4. CASE step' = step + 1 /\ pc' = "opening" /\ turnEnds' = turnEnds
    <3>1. step' \in Nat
      BY <2>4
    <3>2. pc' \in PC /\ turnEnds' = turnEnds
      BY <2>4
    <3> QED BY <2>1, <3>1, <3>2
  <2> QED BY <2>2, <2>3, <2>4
<1>18. CASE EnterBatch
  BY <1>18 DEF EnterBatch, inbox
<1>19. ASSUME NEW outcome \in StepOutcome, StepEnd(outcome) PROVE StateTypes'
  BY <1>19 DEF StepEnd, StepOutcome, Sticky, Throw, Ending, inbox
<1>20. CASE Stopping \/ ErrorEnd
  BY <1>20 DEF Stopping, ErrorEnd, EndAborted, EndTurn, Throw, Ending, inbox
<1>21. CASE Ended \/ Leave
  <2>1. phase # "idle"
    BY <1>21 DEF Ended, Leave, TurnInv
  <2>2. UNCHANGED <<turn, context, target, turnEnds, sending, disposed>>
    BY <1>21 DEF Ended, Leave
  <2>3. CASE Leave
    BY <2>2, <2>3 DEF Leave
  <2>4. CASE Ended /\ HasPending
    <3>1. abort' = "none" /\ wake' = FALSE /\ phase' = phase /\ retire' = retire
      BY <2>4 DEF Ended
    <3>2. step' \in Nat
      BY <2>4 DEF Ended, FirstPosition
    <3>3. pc' \in PC
      BY <2>4 DEF Ended
    <3> QED BY <2>1, <2>2, <3>1, <3>2, <3>3
  <2>5. CASE Ended /\ ~HasPending
    BY <2>1, <2>2, <2>5 DEF Ended
  <2> QED BY <1>21, <2>3, <2>4, <2>5
<1>22. CASE UNCHANGED vars
  BY <1>22 DEF vars, driver
<1> HIDE DEF StateTypes
<1> QED BY <1>2, <1>3, <1>4, <1>6, <1>7, <1>8, <1>9, <1>10, <1>11, <1>12, <1>13,
           <1>14, <1>15, <1>16, <1>17, <1>18, <1>19, <1>20, <1>21, <1>22
        DEF Next, Callers, Driver

-----------------------------------------------------------------------------
(* Fates and the account *)

\* What becomes of every message when those of S become something.
LEMMA FatesAt ==
  ASSUME fate \in [Messages -> Fate], NEW S, NEW what \in Fate
  PROVE  /\ Becomes(S, what) \in [Messages -> Fate]
         /\ Parking(S, what) \in [Messages -> Fate]
         /\ \A m \in Messages :
              Becomes(S, what)[m] = IF m \in S THEN what ELSE fate[m]
         /\ \A m \in Messages :
              IF m \in S THEN Parking(S, what)[m] = what
              ELSE \/ Parking(S, what)[m] = fate[m]
                   \/ fate[m] \in Waiting /\ Parking(S, what)[m] \in Waiting
<1>1. ASSUME NEW m \in Messages
      PROVE  /\ Becomes(S, what)[m] = IF m \in S THEN what ELSE fate[m]
             /\ Becomes(S, what)[m] \in Fate
  BY DEF Becomes
<1>2. ASSUME NEW m \in Messages
      PROVE  /\ IF m \in S THEN Parking(S, what)[m] = what
                ELSE \/ Parking(S, what)[m] = fate[m]
                     \/ fate[m] \in Waiting /\ Parking(S, what)[m] \in Waiting
             /\ Parking(S, what)[m] \in Fate
  <2>1. CASE m \in S
    BY <2>1 DEF Parking
  <2>2. CASE m \notin S /\ fate[m] \in Waiting
    BY <2>2 DEF Parking, Waiting, Fate
  <2>3. CASE m \notin S /\ fate[m] \notin Waiting
    BY <2>3 DEF Parking
  <2> QED BY <2>1, <2>2, <2>3
<1>3. /\ Becomes(S, what) = [m \in Messages |-> Becomes(S, what)[m]]
      /\ Parking(S, what) = [m \in Messages |-> Parking(S, what)[m]]
  BY DEF Becomes, Parking
<1> QED BY <1>1, <1>2, <1>3

\* What the account says of a turn that ended.
LEMMA TurnEndLog ==
  ASSUME log \in Ledger, turn \in Nat, NEW reason \in Ending
  PROVE  /\ LogTurnEnd(reason) \in Ledger
         /\ LogTurnEnd(reason).open = 0 /\ LogTurnEnd(reason).openStep = 0
         /\ LogTurnEnd(reason).stepped = FALSE /\ LogTurnEnd(reason).claimed = FALSE
         /\ log.stepped \/ (log.claimed /\ reason # "completed")
              => LogTurnEnd(reason).end = <<turn, reason>>
<1> DEFINE accounts == log.stepped \/ (log.claimed /\ AccountsForClaim(reason))
           end == IF accounts THEN <<turn, reason>> ELSE log.end
           dropped == log.droppedUnrun /\ ~accounts
<1>1. LogTurnEnd(reason) =
        [open |-> 0, openStep |-> 0, stepped |-> FALSE, claimed |-> FALSE,
         end |-> end, droppedUnrun |-> dropped]
  <2>1. LogTurnEnd(reason) =
          [log EXCEPT !.open = 0, !.openStep = 0, !.stepped = FALSE, !.claimed = FALSE,
                      !.end = end, !.droppedUnrun = dropped]
    BY Zenon DEF LogTurnEnd
  <2> HIDE DEF accounts, end, dropped
  <2> QED BY <2>1 DEF Ledger
<1>2. accounts <=> log.stepped \/ (log.claimed /\ reason # "completed")
  BY DEF AccountsForClaim
<1>3. end \in {<<0, "none">>} \cup (Nat \X Ending) /\ dropped \in BOOLEAN
  <2>1. <<turn, reason>> \in Nat \X Ending
    OBVIOUS
  <2>2. log.end \in {<<0, "none">>} \cup (Nat \X Ending) /\ log.droppedUnrun \in BOOLEAN
    BY DEF Ledger
  <2> QED BY <2>1, <2>2
<1>4. accounts => end = <<turn, reason>>
  OBVIOUS
<1> HIDE DEF accounts, end, dropped
<1>5. LogTurnEnd(reason) \in Ledger
  BY <1>1, <1>3 DEF Ledger
<1> QED BY <1>1, <1>2, <1>4, <1>5

\* A turn ends: what the driver claimed and did not show the model is gone, and
\* accounted for unless the ending is a success.
LEMMA TurnEnds ==
  ASSUME QueueTypes, turn \in Nat, PlaceInv, NEW reason \in Ending, NEW then,
         EndTurn(reason, then)
  PROVE  /\ turnEnds' = reason /\ pc' = then /\ batch' = <<>>
         /\ log' \in Ledger /\ fate' \in [Messages -> Fate]
         /\ log'.open = 0 /\ log'.openStep = 0 /\ ~log'.stepped /\ ~log'.claimed
         /\ batch # <<>> /\ reason # "completed" => log'.end = <<turn, reason>>
         /\ \A m \in Messages :
              IF m \in ToSet(batch) THEN fate'[m] = "discarded"
              ELSE fate'[m] = fate[m] \/ (fate[m] \in Waiting /\ fate'[m] \in Waiting)
<1> DEFINE gone == {m \in ToSet(batch) : fate[m] = "claimed"}
<1>1. /\ turnEnds' = reason /\ pc' = then /\ batch' = <<>>
      /\ log' = LogTurnEnd(reason)
      /\ \/ fate' = Parking(gone, "discarded")
         \/ fate' = Becomes(gone, "discarded")
  BY DEF EndTurn
<1>2. \A m \in Messages : m \in gone <=> m \in ToSet(batch)
  BY DEF PlaceInv
<1> HIDE DEF gone
<1>3. /\ log' \in Ledger
      /\ log'.open = 0 /\ log'.openStep = 0 /\ ~log'.stepped /\ ~log'.claimed
      /\ log.stepped \/ (log.claimed /\ reason # "completed")
           => log'.end = <<turn, reason>>
  BY <1>1, TurnEndLog DEF QueueTypes
<1>4. /\ "discarded" \in Fate
      /\ fate \in [Messages -> Fate]
  BY DEF Fate, QueueTypes
<1>5. /\ fate' \in [Messages -> Fate]
      /\ \A m \in Messages :
           IF m \in gone THEN fate'[m] = "discarded"
           ELSE fate'[m] = fate[m] \/ (fate[m] \in Waiting /\ fate'[m] \in Waiting)
  <2>1. CASE fate' = Parking(gone, "discarded")
    BY <1>4, <2>1, FatesAt
  <2>2. CASE fate' = Becomes(gone, "discarded")
    BY <1>4, <2>2, FatesAt
  <2> QED BY <1>1, <2>1, <2>2
<1>6. batch # <<>> => log.claimed
  BY DEF PlaceInv
<1> QED BY <1>1, <1>2, <1>3, <1>5, <1>6

-----------------------------------------------------------------------------
(* Steps by what they do to the messages *)

\* A message keeps its fate, but that it may be parked where it waits.
Same(m) == fate'[m] = fate[m] \/ (fate[m] \in Waiting /\ fate'[m] \in Waiting)

\* Nothing moves: what waits may be parked.
Quiet ==
  /\ UNCHANGED <<nextStep, nextTurn, batch>>
  /\ log' \in Ledger /\ (log'.claimed = log.claimed \/ batch = <<>>)
  /\ pc' \in Holding \/ batch = <<>>
  /\ fate' \in [Messages -> Fate] /\ \A m \in Messages : Same(m)

\* The driver lets go of the messages it holds.
Settling ==
  /\ UNCHANGED <<nextStep, nextTurn>> /\ batch' = <<>>
  /\ log' \in Ledger
  /\ fate' \in [Messages -> Fate]
  /\ \A m \in Messages :
       IF m \in ToSet(batch)
       THEN \/ fate'[m] = "entered" /\ pc = "opening"
            \/ fate'[m] = "discarded" /\ log'.end[1] = turn /\ log'.end[2] # "completed"
       ELSE Same(m)

\* The driver claims the next-step list and a prompt.
Claiming ==
  /\ pc \in {"opened", "next"} /\ pc' = "assemble"
  /\ batch' = nextStep \o Prompt
  /\ nextStep' = <<>>
  /\ nextTurn' = Unclaimed(Prompt)
  /\ fate' = Becomes(ToSet(batch'), "claimed")
  /\ log' = [log EXCEPT !.claimed = @ \/ batch' # <<>>]

\* The inbox is cleared.
Clearing ==
  /\ nextStep' = <<>> /\ nextTurn' = <<>>
  /\ fate' = Becomes(Pending, "canceled")
  /\ log' = [log EXCEPT !.droppedUnrun = @ \/ HasPending]
  /\ UNCHANGED <<pc, batch>>

\* A cancellation parks what waits or clears the inbox.
LEMMA CancelMoves ==
  ASSUME QueueTypes, PlaceInv, NEW cause, NEW keep \in BOOLEAN,
         DoCancel(cause, keep), UNCHANGED <<pc, batch>>
  PROVE  Quiet \/ Clearing
<1> USE DEF QueueTypes
<1>1. CASE keep
  <2>1. /\ UNCHANGED <<nextStep, nextTurn, log>>
        /\ fate' = Parking({}, "pending") \/ fate' = fate
    BY <1>1 DEF DoCancel, inbox
  <2>2. "pending" \in Fate
    BY DEF Fate, Waiting
  <2>3. fate' \in [Messages -> Fate] /\ \A m \in Messages : Same(m)
    <3>1. CASE fate' = Parking({}, "pending")
      BY <2>2, <3>1, FatesAt DEF Same
    <3>2. CASE fate' = fate
      BY <3>2 DEF Same
    <3> QED BY <2>1, <3>1, <3>2
  <2> QED BY <2>1, <2>3 DEF Quiet, PlaceInv
<1>2. CASE ~keep
  BY <1>2 DEF DoCancel, ClearedSteps, Clearing
<1> QED BY <1>1, <1>2

\* Where nothing moves, every message stays in its place.
LEMMA QuietKeeps ==
  ASSUME QueueTypes, PlaceInv, Quiet
  PROVE  QueueTypes' /\ PlaceInv'
<1>1. QueueTypes'
  BY DEF Quiet, QueueTypes
<1>2. ASSUME NEW m \in Messages
      PROVE  /\ fate'[m] \in Waiting <=> fate[m] \in Waiting
             /\ fate'[m] = "claimed" <=> fate[m] = "claimed"
  BY DEF Quiet, Same, Waiting
<1>3. UNCHANGED <<nextStep, nextTurn, batch>> /\ Pending' = Pending
  BY DEF Quiet, Pending
<1>4. (pc' \notin Holding => batch' = <<>>) /\ (batch' # <<>> => log'.claimed)
  BY DEF Quiet, PlaceInv
<1> QED BY <1>1, <1>2, <1>3, <1>4 DEF PlaceInv

\* A driver that lets go of its messages settles them all.
LEMMA SettlingKeeps ==
  ASSUME QueueTypes, PlaceInv, Settling
  PROVE  QueueTypes' /\ PlaceInv'
<1>1. QueueTypes'
  BY NoMembers DEF Settling, QueueTypes
<1>2. UNCHANGED <<nextStep, nextTurn>> /\ Pending' = Pending /\ batch' = <<>>
  BY DEF Settling, Pending
<1>3. ASSUME NEW m \in Messages
      PROVE  /\ fate'[m] \in Waiting <=> fate[m] \in Waiting
             /\ fate'[m] # "claimed"
  <2>1. CASE m \in ToSet(batch)
    <3>1. fate[m] = "claimed" /\ fate'[m] \in {"omitted", "entered", "discarded"}
      BY <2>1 DEF Settling, PlaceInv
    <3> QED BY <3>1 DEF Waiting
  <2>2. CASE m \notin ToSet(batch)
    <3>1. fate[m] # "claimed" /\ Same(m)
      BY <2>2 DEF Settling, PlaceInv
    <3> QED BY <3>1 DEF Waiting, Same
  <2> QED BY <2>1, <2>2
<1>4. IsInjective(batch') /\ ToSet(batch') = {}
  BY <1>2, NoMembers
<1> QED BY <1>1, <1>2, <1>3, <1>4 DEF PlaceInv

\* A cleared inbox holds nothing that waits.
LEMMA ClearingKeeps ==
  ASSUME QueueTypes, PlaceInv, Clearing
  PROVE  QueueTypes' /\ PlaceInv'
<1>1. /\ nextStep' = <<>> /\ nextTurn' = <<>> /\ UNCHANGED <<pc, batch>>
      /\ fate' = Becomes(Pending, "canceled")
      /\ log' = [log EXCEPT !.droppedUnrun = @ \/ HasPending]
  BY DEF Clearing
<1>2. /\ fate' \in [Messages -> Fate]
      /\ \A m \in Messages : fate'[m] = IF m \in Pending THEN "canceled" ELSE fate[m]
  <2>1. "canceled" \in Fate /\ fate \in [Messages -> Fate]
    BY DEF Fate, QueueTypes
  <2> QED BY <1>1, <2>1, FatesAt
<1>3. log' \in Ledger /\ log'.claimed = log.claimed
  <2> DEFINE dropped == log.droppedUnrun \/ HasPending
  <2>1. log' = [log EXCEPT !.droppedUnrun = dropped]
    BY <1>1, Zenon
  <2>2. dropped \in BOOLEAN
    OBVIOUS
  <2> HIDE DEF dropped
  <2> QED BY <2>1, <2>2 DEF QueueTypes, Ledger
<1>4. QueueTypes'
  BY <1>1, <1>2, <1>3, NoMembers DEF QueueTypes
<1>5. /\ IsInjective(nextStep') /\ IsInjective(nextTurn')
      /\ ToSet(nextStep') = {} /\ ToSet(nextTurn') = {} /\ Pending' = {}
  BY <1>1, NoMembers DEF Pending
<1>6. ASSUME NEW m \in Messages
      PROVE  /\ fate'[m] \notin Waiting
             /\ fate'[m] = "claimed" <=> fate[m] = "claimed"
  <2>1. fate[m] \in Waiting <=> m \in Pending
    BY DEF PlaceInv
  <2> QED BY <1>2, <2>1 DEF Waiting
<1> QED BY <1>1, <1>3, <1>4, <1>5, <1>6 DEF PlaceInv

\* The prompt a claim takes and what it leaves.
LEMMA PromptTaken ==
  ASSUME QueueTypes, IsInjective(nextTurn)
  PROVE  /\ Prompt \in Seq(Messages) /\ IsInjective(Prompt)
         /\ Unclaimed(Prompt) \in Seq(Messages) /\ IsInjective(Unclaimed(Prompt))
         /\ ToSet(Prompt) \cup ToSet(Unclaimed(Prompt)) = ToSet(nextTurn)
         /\ ToSet(Prompt) \cap ToSet(Unclaimed(Prompt)) = {}
         /\ \/ Unclaimed(Prompt) = nextTurn
            \/ /\ target = "next-turn" /\ nextTurn # <<>>
               /\ Unclaimed(Prompt) = Tail(nextTurn)
<1>0. nextTurn \in Seq(Messages)
  BY DEF QueueTypes
<1>1. CASE target = "next-turn" /\ nextTurn # <<>>
  <2> DEFINE h == Head(nextTurn)
             one == <<h>>
  <2>1. /\ h \in Messages /\ h = nextTurn[1]
        /\ Tail(nextTurn) = SubSeq(nextTurn, 2, Len(nextTurn))
        /\ Tail(nextTurn) \in Seq(Messages)
    BY <1>0, <1>1, HeadTailProperties, TailIsSubSeq
  <2>2. Prompt = one
    BY <1>1 DEF Prompt
  <2>3. one \in Seq(Messages) /\ Len(one) = 1 /\ one[1] = h
    BY <2>1
  <2> HIDE DEF h, one
  <2>4. ToSet(one) = {h} /\ IsInjective(one)
    BY <2>3, Members
  <2>5. Unclaimed(Prompt) = Tail(nextTurn)
    BY <2>1, <2>2, <2>3 DEF Unclaimed
  <2>6. /\ Len(nextTurn) \in Nat /\ Len(nextTurn) # 0
        /\ \A x : x \in ToSet(nextTurn) <=> \E i \in 1..Len(nextTurn) : nextTurn[i] = x
        /\ \A i, j \in 1..Len(nextTurn) : nextTurn[i] = nextTurn[j] => i = j
    BY <1>0, <1>1, Members
  <2>7. /\ IsInjective(Tail(nextTurn))
        /\ \A x : x \in ToSet(Tail(nextTurn)) <=> \E i \in 2..Len(nextTurn) : nextTurn[i] = x
    <3> DEFINE rest == SubSeq(nextTurn, 2, Len(nextTurn))
    <3>1. 2 \in Nat \ {0} /\ Len(nextTurn) \in 0..Len(nextTurn)
      BY <2>6
    <3>2. /\ \A x : x \in ToSet(rest) <=> \E i \in 2..Len(nextTurn) : nextTurn[i] = x
          /\ IsInjective(nextTurn) => IsInjective(rest)
      BY <1>0, <3>1, Part
    <3>3. rest = Tail(nextTurn)
      BY <2>1
    <3> HIDE DEF rest
    <3> QED BY <3>2, <3>3
  <2>8. /\ 1 \in 1..Len(nextTurn)
        /\ \A i \in 1..Len(nextTurn) : i = 1 \/ i \in 2..Len(nextTurn)
        /\ \A i \in 2..Len(nextTurn) : i \in 1..Len(nextTurn) /\ i # 1
    BY <2>6
  <2>9. /\ \A x : x \in ToSet(nextTurn) <=> x = h \/ x \in ToSet(Tail(nextTurn))
        /\ h \notin ToSet(Tail(nextTurn))
    BY <2>1, <2>6, <2>7, <2>8
  <2> QED BY <1>1, <2>1, <2>2, <2>3, <2>4, <2>5, <2>7, <2>9
<1>2. CASE ~(target = "next-turn" /\ nextTurn # <<>>)
  <2>1. Prompt = <<>>
    BY <1>2 DEF Prompt
  <2>2. Unclaimed(Prompt) = nextTurn
    <3>1. Len(<<>>) + 1 = 1
      BY EmptySeq
    <3> QED BY <1>0, <2>1, <3>1, SubSeqFull DEF Unclaimed
  <2> QED BY <1>0, <2>1, <2>2, NoMembers
<1> QED BY <1>1, <1>2

\* Claimed messages move from the queues to the batch, where none was.
LEMMA ClaimingKeeps ==
  ASSUME QueueTypes, PlaceInv, Claiming
  PROVE  /\ QueueTypes' /\ PlaceInv'
         /\ ToSet(batch') \subseteq Pending
<1> USE DEF QueueTypes
<1>1. /\ Prompt \in Seq(Messages) /\ IsInjective(Prompt)
      /\ Unclaimed(Prompt) \in Seq(Messages) /\ IsInjective(Unclaimed(Prompt))
      /\ ToSet(Prompt) \cup ToSet(Unclaimed(Prompt)) = ToSet(nextTurn)
      /\ ToSet(Prompt) \cap ToSet(Unclaimed(Prompt)) = {}
  BY PromptTaken DEF PlaceInv
<1>2. /\ batch' = nextStep \o Prompt /\ nextStep' = <<>>
      /\ nextTurn' = Unclaimed(Prompt)
      /\ fate' = Becomes(ToSet(batch'), "claimed")
      /\ pc' \in Holding /\ batch = <<>>
  BY DEF Claiming, PlaceInv, Holding
<1>3. /\ batch' \in Seq(Messages) /\ IsInjective(batch')
      /\ ToSet(batch') = ToSet(nextStep) \cup ToSet(Prompt)
  <2>1. /\ nextStep \in Seq(Messages) /\ IsInjective(nextStep)
        /\ ToSet(nextStep) \cap ToSet(Prompt) = {}
    <3>1. ToSet(nextStep) \subseteq Messages
      BY Members
    <3> QED BY <1>1, <3>1 DEF PlaceInv
  <2> QED BY <1>1, <1>2, <2>1, Joined
<1>4. /\ fate' \in [Messages -> Fate]
      /\ \A m \in Messages : fate'[m] = IF m \in ToSet(batch') THEN "claimed" ELSE fate[m]
  <2>1. "claimed" \in Fate
    BY DEF Fate
  <2> QED BY <1>2, <2>1, FatesAt
<1>5. log' \in Ledger /\ (batch' # <<>> => log'.claimed)
  <2> DEFINE some == log.claimed \/ batch' # <<>>
  <2>1. log' = [log EXCEPT !.claimed = some]
    BY Zenon DEF Claiming
  <2>2. some \in BOOLEAN /\ (batch' # <<>> => some)
    OBVIOUS
  <2> HIDE DEF some
  <2> QED BY <2>1, <2>2 DEF Ledger
<1>6. QueueTypes'
  BY <1>1, <1>2, <1>3, <1>4, <1>5, NoMembers
<1>7. /\ IsInjective(nextStep') /\ ToSet(nextStep') = {}
      /\ Pending' = ToSet(nextTurn')
  BY <1>2, NoMembers DEF Pending
<1>8. ASSUME NEW m \in Messages
      PROVE  /\ fate'[m] \in Waiting <=> m \in Pending'
             /\ fate'[m] = "claimed" <=> m \in ToSet(batch')
  <2>1. /\ fate[m] \in Waiting <=> m \in ToSet(nextStep) \cup ToSet(nextTurn)
        /\ fate[m] # "claimed"
        /\ ~(m \in ToSet(nextStep) /\ m \in ToSet(nextTurn))
    BY <1>2, NoMembers DEF PlaceInv, Pending
  <2> QED BY <1>1, <1>2, <1>3, <1>4, <1>7, <2>1 DEF Waiting
<1>9. PlaceInv'
  BY <1>1, <1>2, <1>3, <1>5, <1>7, <1>8 DEF PlaceInv
<1> QED BY <1>1, <1>3, <1>6, <1>9 DEF Pending

-----------------------------------------------------------------------------
(* Callers and the inbox *)

\* A message that is not claimed and not in the next-step list is put in one of
\* the lists, behind prompts that are the queue without it.
LEMMA InsertKeeps ==
  ASSUME QueueTypes, PlaceInv, NEW m \in Messages, NEW where, NEW wakeup,
         NEW prompts \in Seq(Messages), Insert(m, where, wakeup, prompts),
         IsInjective(prompts), ToSet(prompts) = ToSet(nextTurn) \ {m},
         m \notin ToSet(nextStep), fate[m] # "claimed",
         log' \in Ledger, log'.claimed = log.claimed
  PROVE  /\ QueueTypes' /\ PlaceInv'
         /\ fate'[m] \in Waiting
         /\ \A n \in Messages : n # m => fate'[n] = fate[n]
         /\ m \in ToSet(nextStep') \/ Len(nextTurn') = Len(prompts) + 1
<1> USE DEF QueueTypes
<1>1. /\ Append(prompts, m) \in Seq(Messages) /\ Append(nextStep, m) \in Seq(Messages)
      /\ ToSet(Append(prompts, m)) = ToSet(nextTurn) \cup {m}
      /\ ToSet(Append(nextStep, m)) = ToSet(nextStep) \cup {m}
      /\ Len(Append(prompts, m)) = Len(prompts) + 1
      /\ IsInjective(Append(prompts, m)) /\ IsInjective(Append(nextStep, m))
  <2>1. /\ Append(prompts, m) \in Seq(Messages)
        /\ ToSet(Append(prompts, m)) = ToSet(prompts) \cup {m}
        /\ Len(Append(prompts, m)) = Len(prompts) + 1
        /\ IsInjective(Append(prompts, m))
    <3>1. m \notin ToSet(prompts)
      OBVIOUS
    <3>2. /\ Append(prompts, m) \in Seq(Messages)
          /\ ToSet(Append(prompts, m)) = ToSet(prompts) \cup {m}
          /\ Len(Append(prompts, m)) = Len(prompts) + 1
          /\ IsInjective(prompts) /\ m \notin ToSet(prompts) => IsInjective(Append(prompts, m))
      BY Appended
    <3> QED BY <3>1, <3>2
  <2>2. /\ Append(nextStep, m) \in Seq(Messages)
        /\ ToSet(Append(nextStep, m)) = ToSet(nextStep) \cup {m}
        /\ IsInjective(Append(nextStep, m))
    <3>1. IsInjective(nextStep)
      BY DEF PlaceInv
    <3>2. /\ Append(nextStep, m) \in Seq(Messages)
          /\ ToSet(Append(nextStep, m)) = ToSet(nextStep) \cup {m}
          /\ Len(Append(nextStep, m)) = Len(nextStep) + 1
          /\ IsInjective(nextStep) /\ m \notin ToSet(nextStep) => IsInjective(Append(nextStep, m))
      BY Appended
    <3> QED BY <3>1, <3>2
  <2>3. ToSet(prompts) \cup {m} = ToSet(nextTurn) \cup {m}
    OBVIOUS
  <2> QED BY <2>1, <2>2, <2>3
<1>2. /\ \/ nextTurn' = Append(prompts, m) /\ nextStep' = nextStep
         \/ nextStep' = Append(nextStep, m) /\ nextTurn' = prompts
      /\ UNCHANGED <<batch, pc>>
  BY DEF Insert, driver
<1>3. /\ nextStep' \in Seq(Messages) /\ nextTurn' \in Seq(Messages)
      /\ IsInjective(nextStep') /\ IsInjective(nextTurn')
      /\ Pending' = Pending \cup {m}
      /\ \A n \in Messages : ~(n \in ToSet(nextStep') /\ n \in ToSet(nextTurn'))
      /\ m \in ToSet(nextStep') \/ Len(nextTurn') = Len(prompts) + 1
  <2>1. CASE nextTurn' = Append(prompts, m) /\ nextStep' = nextStep
    BY <1>1, <2>1 DEF PlaceInv, Pending
  <2>2. CASE nextStep' = Append(nextStep, m) /\ nextTurn' = prompts
    BY <1>1, <2>2 DEF PlaceInv, Pending
  <2> QED BY <1>2, <2>1, <2>2
<1>4. /\ fate' \in [Messages -> Fate] /\ fate'[m] \in Waiting
      /\ \A n \in Messages : n # m => fate'[n] = fate[n]
  <2>1. PICK what \in Waiting : fate' = [fate EXCEPT ![m] = what]
    BY DEF Insert, Waiting
  <2>2. what \in Fate
    BY DEF Fate
  <2> QED BY <2>1, <2>2
<1>5. QueueTypes'
  BY <1>2, <1>3, <1>4
<1>6. ASSUME NEW n \in Messages
      PROVE  /\ fate'[n] \in Waiting <=> n \in Pending'
             /\ fate'[n] = "claimed" <=> n \in ToSet(batch')
  <2>1. CASE n = m
    <3>1. "claimed" \notin Waiting
      BY DEF Waiting
    <3> QED BY <1>2, <1>3, <1>4, <2>1, <3>1 DEF PlaceInv
  <2>2. CASE n # m
    BY <1>2, <1>3, <1>4, <2>2 DEF PlaceInv
  <2> QED BY <2>1, <2>2
<1>7. IsInjective(batch') /\ (pc' \notin Holding => batch' = <<>>)
        /\ (batch' # <<>> => log'.claimed)
  BY <1>2 DEF PlaceInv
<1>8. PlaceInv'
  BY <1>3, <1>6, <1>7 DEF PlaceInv
<1> QED BY <1>3, <1>4, <1>5, <1>8

\* A message is sent.
LEMMA SendKeeps ==
  ASSUME QueueTypes, PlaceInv, NEW m \in Messages,
         Followup(m) \/ Steer(m) \/ Inject(m)
  PROVE  /\ QueueTypes' /\ PlaceInv'
         /\ fate[m] = "unsent" /\ fate'[m] \in Waiting
         /\ \A n \in Messages : n # m => fate'[n] = fate[n]
         /\ m \in ToSet(nextStep') \/ Len(nextTurn') = Len(nextTurn) + 1
<1>1. PICK where, wakeup : Send(m, where, wakeup)
  BY DEF Followup, Steer, Inject
<1>2. Insert(m, where, wakeup, nextTurn) /\ fate[m] = "unsent" /\ log' = log
  BY <1>1 DEF Send
<1>3. m \notin ToSet(nextStep) /\ m \notin ToSet(nextTurn)
  <2>1. fate[m] \notin Waiting
    BY <1>2 DEF Waiting
  <2> QED BY <2>1 DEF PlaceInv, Pending
<1>4. /\ nextTurn \in Seq(Messages) /\ IsInjective(nextTurn)
      /\ ToSet(nextTurn) = ToSet(nextTurn) \ {m}
      /\ fate[m] # "claimed" /\ log' \in Ledger /\ log'.claimed = log.claimed
  BY <1>2, <1>3 DEF QueueTypes, PlaceInv
<1> QED BY <1>2, <1>3, <1>4, InsertKeeps

\* A queued prompt is steered: it moves, and the account has it as dropped.
LEMMA SteerKeeps ==
  ASSUME QueueTypes, PlaceInv, NEW m \in Messages, SteerQueued(m)
  PROVE  /\ QueueTypes' /\ PlaceInv'
         /\ fate[m] \in Waiting /\ fate'[m] \in Waiting
         /\ \A n \in Messages : n # m => fate'[n] = fate[n]
         /\ m \in ToSet(nextStep') \/ Len(nextTurn') = Len(nextTurn)
<1> DEFINE prompts == Without(nextTurn, m)
<1>1. /\ Insert(m, "next-step", TRUE, prompts) /\ m \in ToSet(nextTurn)
      /\ log' = [log EXCEPT !.droppedUnrun = TRUE]
  BY DEF SteerQueued
<1>2. /\ prompts \in Seq(Messages) /\ IsInjective(prompts)
      /\ ToSet(prompts) = ToSet(nextTurn) \ {m}
      /\ Len(prompts) = Len(nextTurn) - (IF m \in ToSet(nextTurn) THEN 1 ELSE 0)
  <2>1. nextTurn \in Seq(Messages) /\ IsInjective(nextTurn)
    BY DEF QueueTypes, PlaceInv
  <2> QED BY <2>1, Removed
<1> HIDE DEF prompts
<1>3. Len(nextTurn) \in Nat /\ Len(prompts) + 1 = Len(nextTurn)
  <2>1. Len(nextTurn) \in Nat
    BY Members DEF QueueTypes
  <2> QED BY <1>1, <1>2, <2>1
<1>4. m \notin ToSet(nextStep) /\ fate[m] \in Waiting /\ fate[m] # "claimed"
  BY <1>1 DEF PlaceInv, Pending, Waiting
<1>5. log' \in Ledger /\ log'.claimed = log.claimed
  BY <1>1 DEF QueueTypes, Ledger
<1>6. /\ QueueTypes' /\ PlaceInv'
      /\ fate'[m] \in Waiting
      /\ \A n \in Messages : n # m => fate'[n] = fate[n]
      /\ m \in ToSet(nextStep') \/ Len(nextTurn') = Len(prompts) + 1
  BY <1>1, <1>2, <1>4, <1>5, InsertKeeps
<1> QED BY <1>3, <1>4, <1>6

\* A context plugin's message is put in front.
LEMMA PrependKeeps ==
  ASSUME QueueTypes, PlaceInv, NEW m \in Messages, Prepend(m)
  PROVE  /\ QueueTypes' /\ PlaceInv'
         /\ fate[m] = "unsent" /\ fate'[m] = "pending" /\ UNCHANGED nextTurn
         /\ \A n \in Messages : n # m => fate'[n] = fate[n]
<1> USE DEF QueueTypes
<1>1. /\ nextStep' = <<m>> \o nextStep /\ fate[m] = "unsent"
      /\ fate' = [fate EXCEPT ![m] = "pending"]
      /\ UNCHANGED <<nextTurn, batch, log, pc>>
  BY DEF Prepend, driver
<1>2. fate[m] \notin Waiting /\ "pending" \in Waiting /\ "claimed" \notin Waiting
        /\ "pending" \in Fate
  BY <1>1 DEF Waiting, Fate
<1>3. m \notin ToSet(nextStep) /\ m \notin ToSet(nextTurn)
  BY <1>2 DEF PlaceInv, Pending
<1>4. /\ nextStep' \in Seq(Messages) /\ IsInjective(nextStep')
      /\ ToSet(nextStep') = ToSet(nextStep) \cup {m}
  <2> DEFINE longer == <<m>> \o nextStep
  <2>1. /\ longer \in Seq(Messages)
        /\ ToSet(longer) = ToSet(nextStep) \cup {m}
        /\ IsInjective(nextStep) /\ m \notin ToSet(nextStep) => IsInjective(longer)
    BY Prepended
  <2>2. nextStep' = longer
    BY <1>1
  <2> HIDE DEF longer
  <2> QED BY <1>3, <2>1, <2>2 DEF PlaceInv
<1>5. /\ fate' \in [Messages -> Fate] /\ fate'[m] = "pending"
      /\ \A n \in Messages : n # m => fate'[n] = fate[n]
  BY <1>1, <1>2
<1>6. QueueTypes'
  BY <1>1, <1>4, <1>5
<1>7. ASSUME NEW n \in Messages
      PROVE  /\ fate'[n] \in Waiting <=> n \in Pending'
             /\ fate'[n] = "claimed" <=> n \in ToSet(batch')
             /\ ~(n \in ToSet(nextStep') /\ n \in ToSet(nextTurn'))
  <2>1. Pending' = Pending \cup {m}
    BY <1>1, <1>4 DEF Pending
  <2>2. CASE n = m
    BY <1>1, <1>2, <1>3, <1>5, <2>1, <2>2 DEF PlaceInv
  <2>3. CASE n # m
    BY <1>1, <1>4, <1>5, <2>1, <2>3 DEF PlaceInv
  <2> QED BY <2>2, <2>3
<1>8. PlaceInv'
  BY <1>1, <1>4, <1>7 DEF PlaceInv
<1> QED BY <1>1, <1>5, <1>6, <1>8

\* A pending message is withdrawn.
LEMMA WithdrawKeeps ==
  ASSUME QueueTypes, PlaceInv, NEW m \in Messages, Withdraw(m)
  PROVE  /\ QueueTypes' /\ PlaceInv'
         /\ fate[m] \in Waiting /\ fate'[m] = "canceled" /\ log'.droppedUnrun
         /\ \A n \in Messages : n # m => fate'[n] = fate[n]
         /\ ToSet(nextTurn') = ToSet(nextTurn) \ {m}
<1> USE DEF QueueTypes
<1>1. /\ nextStep' = Without(nextStep, m) /\ nextTurn' = Without(nextTurn, m)
      /\ fate[m] \in Waiting
      /\ fate' = [fate EXCEPT ![m] = "canceled"]
      /\ log' = [log EXCEPT !.droppedUnrun = TRUE]
      /\ UNCHANGED <<batch, pc>>
  BY DEF Withdraw, driver
<1>2. "canceled" \notin Waiting /\ "claimed" \notin Waiting /\ "canceled" \in Fate
  BY DEF Waiting, Fate
<1>3. /\ nextStep' \in Seq(Messages) /\ IsInjective(nextStep')
      /\ ToSet(nextStep') = ToSet(nextStep) \ {m}
  BY <1>1, Removed DEF PlaceInv
<1>4. /\ nextTurn' \in Seq(Messages) /\ IsInjective(nextTurn')
      /\ ToSet(nextTurn') = ToSet(nextTurn) \ {m}
  BY <1>1, Removed DEF PlaceInv
<1>5. /\ fate' \in [Messages -> Fate] /\ fate'[m] = "canceled"
      /\ \A n \in Messages : n # m => fate'[n] = fate[n]
  BY <1>1, <1>2
<1>6. log' \in Ledger /\ log'.claimed = log.claimed /\ log'.droppedUnrun
  BY <1>1 DEF Ledger
<1>7. QueueTypes'
  BY <1>1, <1>3, <1>4, <1>5, <1>6
<1>8. ASSUME NEW n \in Messages
      PROVE  /\ fate'[n] \in Waiting <=> n \in Pending'
             /\ fate'[n] = "claimed" <=> n \in ToSet(batch')
             /\ ~(n \in ToSet(nextStep') /\ n \in ToSet(nextTurn'))
  <2>1. Pending' = Pending \ {m}
    BY <1>3, <1>4 DEF Pending
  <2>2. CASE n = m
    BY <1>1, <1>2, <1>3, <1>5, <2>1, <2>2 DEF PlaceInv
  <2>3. CASE n # m
    BY <1>1, <1>3, <1>4, <1>5, <2>1, <2>3 DEF PlaceInv
  <2> QED BY <2>2, <2>3
<1>9. PlaceInv'
  BY <1>1, <1>3, <1>4, <1>6, <1>8 DEF PlaceInv
<1> QED BY <1>1, <1>4, <1>5, <1>6, <1>7, <1>9

\* A message takes the place of a waiting one, wherever that is.
LEMMA EditKeeps ==
  ASSUME QueueTypes, PlaceInv, NEW m \in Messages, NEW n \in Messages, Edit(m, n)
  PROVE  /\ QueueTypes' /\ PlaceInv'
         /\ fate[m] \in Waiting /\ fate'[m] = "canceled"
         /\ fate[n] = "unsent" /\ fate'[n] \in Waiting
         /\ \A k \in Messages : k # m /\ k # n => fate'[k] = fate[k]
         /\ Len(nextTurn') = Len(nextTurn)
<1> USE DEF QueueTypes
<1>1. /\ nextStep' = ReplaceAll(nextStep, m, n) /\ nextTurn' = ReplaceAll(nextTurn, m, n)
      /\ fate[m] \in Waiting /\ fate[n] = "unsent"
      /\ fate' = [fate EXCEPT ![m] = "canceled", ![n] = fate[m]]
      /\ UNCHANGED <<batch, pc, log>>
  BY DEF Edit, driver
<1>2. /\ "canceled" \notin Waiting /\ "claimed" \notin Waiting /\ "unsent" \notin Waiting
      /\ "canceled" \in Fate /\ Waiting \subseteq Fate
  BY DEF Waiting, Fate
<1>3. m # n /\ n \notin ToSet(nextStep) /\ n \notin ToSet(nextTurn)
  BY <1>1, <1>2 DEF PlaceInv, Pending
<1>4. /\ nextStep' \in Seq(Messages) /\ IsInjective(nextStep')
      /\ ToSet(nextStep')
           = (ToSet(nextStep) \ {m}) \cup (IF m \in ToSet(nextStep) THEN {n} ELSE {})
  BY <1>1, <1>3, Replaced DEF PlaceInv
<1>5. /\ nextTurn' \in Seq(Messages) /\ IsInjective(nextTurn')
      /\ ToSet(nextTurn')
           = (ToSet(nextTurn) \ {m}) \cup (IF m \in ToSet(nextTurn) THEN {n} ELSE {})
      /\ Len(nextTurn') = Len(nextTurn)
  BY <1>1, <1>3, Replaced DEF PlaceInv
<1>6. /\ fate' \in [Messages -> Fate] /\ fate'[m] = "canceled" /\ fate'[n] \in Waiting
      /\ \A k \in Messages : k # m /\ k # n => fate'[k] = fate[k]
  BY <1>1, <1>2, <1>3
<1>7. QueueTypes'
  BY <1>1, <1>4, <1>5, <1>6
<1>8. ASSUME NEW k \in Messages
      PROVE  /\ fate'[k] \in Waiting <=> k \in Pending'
             /\ fate'[k] = "claimed" <=> k \in ToSet(batch')
             /\ ~(k \in ToSet(nextStep') /\ k \in ToSet(nextTurn'))
  <2>1. Pending' = (Pending \ {m}) \cup {n}
    <3>1. m \in Pending
      BY <1>1 DEF PlaceInv
    <3> QED BY <1>4, <1>5, <3>1 DEF Pending
  <2>2. CASE k = m
    BY <1>1, <1>2, <1>3, <1>4, <1>6, <2>1, <2>2 DEF PlaceInv
  <2>3. CASE k = n
    <3>1. ~(m \in ToSet(nextStep) /\ m \in ToSet(nextTurn))
      BY DEF PlaceInv
    <3> QED BY <1>1, <1>2, <1>3, <1>4, <1>5, <1>6, <2>1, <2>3, <3>1 DEF PlaceInv
  <2>4. CASE k # m /\ k # n
    BY <1>1, <1>4, <1>5, <1>6, <2>1, <2>4 DEF PlaceInv
  <2> QED BY <2>2, <2>3, <2>4
<1>9. PlaceInv'
  BY <1>1, <1>4, <1>5, <1>8 DEF PlaceInv
<1> QED BY <1>1, <1>5, <1>6, <1>7, <1>9

\* A pre-step listener puts claimed messages back.
LEMMA RestoreKeeps ==
  ASSUME QueueTypes, PlaceInv, NEW S \in SUBSET ToSet(batch), Restore(S)
  PROVE  /\ QueueTypes' /\ PlaceInv'
         /\ UNCHANGED nextTurn
         /\ \A m \in Messages : IF m \in S THEN fate[m] = "claimed" /\ fate'[m] = "pending"
                                ELSE fate'[m] = fate[m]
<1> USE DEF QueueTypes
<1>1. PICK retained \in InOrder(S) : nextStep' = retained \o nextStep
  BY DEF Restore
<1>2. /\ batch' \in InOrder(ToSet(batch) \ S)
      /\ fate' = Becomes(S, "pending")
      /\ pc' \in Holding /\ batch # <<>>
      /\ UNCHANGED <<nextTurn, log>>
  <2>1. S # {} /\ S \subseteq ToSet(batch)
    BY DEF Restore
  <2>2. batch # <<>>
    BY <2>1, NoMembers
  <2> QED BY <2>2 DEF Restore, Holding
<1>3. IsFiniteSet(S) /\ IsFiniteSet(ToSet(batch) \ S) /\ ToSet(batch) \subseteq Messages
  <2>1. IsFiniteSet(ToSet(batch)) /\ ToSet(batch) \subseteq Messages
    BY FinitelyMany, Members
  <2> QED BY <2>1, FS_Subset
<1>4. retained \in Seq(S) /\ ToSet(retained) = S /\ IsInjective(retained)
  <2>1. retained \in SetToSeqs(S)
    BY DEF InOrder
  <2> QED BY <1>3, <2>1, Ordered
<1>5. /\ batch' \in Seq(ToSet(batch) \ S) /\ ToSet(batch') = ToSet(batch) \ S
      /\ IsInjective(batch')
  <2>1. batch' \in SetToSeqs(ToSet(batch) \ S)
    BY <1>2 DEF InOrder
  <2> QED BY <1>3, <2>1, Ordered
<1>6. retained \in Seq(Messages) /\ batch' \in Seq(Messages)
  <2>1. S \subseteq Messages /\ ToSet(batch) \ S \subseteq Messages
    BY <1>3
  <2> QED BY <1>4, <1>5, <2>1, SeqMonotonic
<1>7. ASSUME NEW m \in S PROVE fate[m] = "claimed" /\ m \notin ToSet(nextStep)
                                /\ m \notin ToSet(nextTurn)
  <2>1. m \in Messages /\ m \in ToSet(batch)
    BY <1>3
  <2>2. "claimed" \notin Waiting
    BY DEF Waiting
  <2> QED BY <2>1, <2>2 DEF PlaceInv, Pending
<1>8. /\ nextStep' \in Seq(Messages) /\ IsInjective(nextStep')
      /\ ToSet(nextStep') = S \cup ToSet(nextStep)
  <2>1. /\ retained \o nextStep \in Seq(Messages)
        /\ ToSet(retained \o nextStep) = ToSet(retained) \cup ToSet(nextStep)
        /\ IsInjective(retained) /\ IsInjective(nextStep)
             /\ ToSet(retained) \cap ToSet(nextStep) = {}
             => IsInjective(retained \o nextStep)
    BY <1>6, Joined
  <2>2. ToSet(retained) \cap ToSet(nextStep) = {}
    BY <1>4, <1>7
  <2> QED BY <1>1, <1>4, <2>1, <2>2 DEF PlaceInv
<1>9. /\ fate' \in [Messages -> Fate]
      /\ \A m \in Messages : fate'[m] = IF m \in S THEN "pending" ELSE fate[m]
  <2>1. "pending" \in Fate
    BY DEF Fate, Waiting
  <2> QED BY <1>2, <2>1, FatesAt
<1>10. QueueTypes'
  BY <1>2, <1>6, <1>8, <1>9
<1>11. ASSUME NEW m \in Messages
       PROVE  /\ fate'[m] \in Waiting <=> m \in Pending'
              /\ fate'[m] = "claimed" <=> m \in ToSet(batch')
              /\ ~(m \in ToSet(nextStep') /\ m \in ToSet(nextTurn'))
  <2>1. Pending' = Pending \cup S
    BY <1>2, <1>8 DEF Pending
  <2>2. CASE m \in S
    <3>1. fate'[m] = "pending" /\ "pending" \in Waiting
      BY <1>9, <2>2 DEF Waiting
    <3> QED BY <1>2, <1>5, <1>7, <2>1, <2>2, <3>1
  <2>3. CASE m \notin S
    BY <1>2, <1>5, <1>8, <1>9, <2>1, <2>3 DEF PlaceInv
  <2> QED BY <2>2, <2>3
<1>12. PlaceInv'
  BY <1>2, <1>5, <1>8, <1>11 DEF PlaceInv
<1> QED BY <1>2, <1>7, <1>9, <1>10, <1>12

\* The pre-step listeners leave claimed messages out.
LEMMA AcceptKeeps ==
  ASSUME QueueTypes, PlaceInv, NEW S \in SUBSET ToSet(batch), Accept(S)
  PROVE  /\ QueueTypes' /\ PlaceInv'
         /\ UNCHANGED nextTurn
         /\ \A m \in Messages : IF m \in S THEN fate[m] = "claimed" /\ fate'[m] = "omitted"
                                ELSE fate'[m] = fate[m]
<1> USE DEF QueueTypes
<1>1. /\ batch' \in InOrder(ToSet(batch) \ S)
      /\ fate' = Becomes(S, "omitted")
      /\ pc' \in Holding
      /\ UNCHANGED <<nextStep, nextTurn, log>>
  BY DEF Accept, Holding, inbox
<1>2. ToSet(batch) \subseteq Messages /\ IsFiniteSet(ToSet(batch) \ S)
  <2>1. IsFiniteSet(ToSet(batch)) /\ ToSet(batch) \subseteq Messages
    BY FinitelyMany, Members
  <2> QED BY <2>1, FS_Subset
<1>3. /\ batch' \in Seq(Messages) /\ ToSet(batch') = ToSet(batch) \ S
      /\ IsInjective(batch')
  <2>1. batch' \in SetToSeqs(ToSet(batch) \ S)
    BY <1>1 DEF InOrder
  <2>2. /\ batch' \in Seq(ToSet(batch) \ S) /\ ToSet(batch') = ToSet(batch) \ S
        /\ IsInjective(batch')
    BY <1>2, <2>1, Ordered
  <2>3. ToSet(batch) \ S \subseteq Messages
    BY <1>2
  <2> QED BY <2>2, <2>3, SeqMonotonic
<1>4. /\ fate' \in [Messages -> Fate]
      /\ \A m \in Messages : fate'[m] = IF m \in S THEN "omitted" ELSE fate[m]
  <2>1. "omitted" \in Fate
    BY DEF Fate
  <2> QED BY <1>1, <2>1, FatesAt
<1>5. \A m \in S : m \in Messages /\ fate[m] = "claimed"
  BY <1>2 DEF PlaceInv
<1>6. ASSUME NEW m \in Messages
      PROVE  /\ fate'[m] \in Waiting <=> m \in Pending'
             /\ fate'[m] = "claimed" <=> m \in ToSet(batch')
             /\ ~(m \in ToSet(nextStep') /\ m \in ToSet(nextTurn'))
  <2>1. Pending' = Pending
    BY <1>1 DEF Pending
  <2>2. "omitted" \notin Waiting /\ "claimed" \notin Waiting
    BY DEF Waiting
  <2> QED BY <1>1, <1>3, <1>4, <1>5, <2>1, <2>2 DEF PlaceInv
<1>7. QueueTypes'
  BY <1>1, <1>3, <1>4
<1>8. PlaceInv'
  <2>1. batch' # <<>> => batch # <<>>
    BY <1>3, Members
  <2> QED BY <1>1, <1>3, <1>6, <2>1 DEF PlaceInv
<1>9. ASSUME NEW m \in Messages
      PROVE  IF m \in S THEN fate[m] = "claimed" /\ fate'[m] = "omitted"
             ELSE fate'[m] = fate[m]
  BY <1>4, <1>5
<1> QED BY <1>1, <1>7, <1>8, <1>9

-----------------------------------------------------------------------------
(* What a step does to the messages *)

\* A turn that ends lets go of what the driver holds.
LEMMA EndSettles ==
  ASSUME QueueTypes, turn \in Nat, PlaceInv, NEW reason \in Ending, NEW then,
         EndTurn(reason, then), reason # "completed" \/ batch = <<>>,
         UNCHANGED <<nextStep, nextTurn>>
  PROVE  Settling
<1>1. /\ batch' = <<>> /\ log' \in Ledger /\ fate' \in [Messages -> Fate]
      /\ batch # <<>> /\ reason # "completed" => log'.end = <<turn, reason>>
      /\ \A m \in Messages :
           IF m \in ToSet(batch) THEN fate'[m] = "discarded"
           ELSE fate'[m] = fate[m] \/ (fate[m] \in Waiting /\ fate'[m] \in Waiting)
  BY TurnEnds
<1>2. ASSUME NEW m \in ToSet(batch)
      PROVE  log'.end[1] = turn /\ log'.end[2] # "completed"
  <2>1. batch # <<>>
    BY NoMembers
  <2> QED BY <1>1, <2>1
<1> QED BY <1>1, <1>2 DEF Settling, Same

\* A wake starts a driver where there is none, or does not move one.
LEMMA WakeStarts ==
  ASSUME StateTypes, TurnInv, NEW afterAbort, WakeDriver(afterAbort)
  PROVE  \/ pc = "off" /\ pc' = "start" /\ step' = 0 /\ phase' = "running"
         \/ UNCHANGED <<pc, step, phase>>
<1>1. CASE Starts
  BY <1>1 DEF Starts, WakeDriver, StartDriver, TurnInv
<1>2. CASE ~Starts
  BY <1>2 DEF WakeDriver
<1> QED BY <1>1, <1>2

\* A step of a driver that holds nothing, or still may, and leaves log and queues.
LEMMA StaysQuiet ==
  ASSUME QueueTypes, UNCHANGED <<nextStep, nextTurn, batch, log, fate>>,
         pc' \in Holding \/ batch = <<>>
  PROVE  Quiet
BY DEF QueueTypes, Quiet, Same

\* The driver's steps, but for Accept and Restore.
LEMMA DriverMoves ==
  ASSUME Inv,
         \/ OpenTurn \/ Claim \/ Assembled \/ PreStep \/ Rejected \/ Entered
         \/ Restored \/ EnterBatch
         \/ (\E outcome \in StepOutcome : StepEnd(outcome))
         \/ Stopping \/ ErrorEnd \/ Ended \/ Leave
  PROVE  Quiet \/ Settling \/ (Claiming /\ ~Aborted)
<1>0. QueueTypes /\ StateTypes /\ TurnInv /\ PlaceInv /\ turn \in Nat
  BY TypeParts DEF Inv, StateTypes
<1> USE <1>0
<1>1. ASSUME EndAborted, UNCHANGED <<nextStep, nextTurn>> PROVE Settling
  BY <1>1, EndSettles DEF EndAborted, Ending
<1>2. pc \notin Holding => batch = <<>>
  BY DEF PlaceInv
<1>3. CASE OpenTurn
  <2>1. batch = <<>> /\ UNCHANGED <<nextStep, nextTurn, batch, fate>>
    BY <1>2, <1>3 DEF OpenTurn, Holding, inbox
  <2>2. log' \in Ledger
    <3>1. log' = log \/ log' = [log EXCEPT !.open = turn + 1]
      BY <1>3 DEF OpenTurn
    <3>2. turn + 1 \in Nat
      OBVIOUS
    <3> QED BY <3>1, <3>2 DEF QueueTypes, Ledger
  <2> QED BY <2>1, <2>2 DEF Quiet, QueueTypes, Same
<1>4. CASE Claim
  <2>1. CASE Aborted
    BY <1>1, <1>4, <2>1 DEF Claim, inbox
  <2>2. CASE ~Aborted
    <3> DEFINE taken == nextStep \o Prompt
    <3>1. /\ pc \in {"opened", "next"} /\ pc' = "assemble"
          /\ batch' = taken /\ nextStep' = <<>> /\ nextTurn' = Unclaimed(Prompt)
          /\ fate' = Becomes(ToSet(taken), "claimed")
          /\ log' = [log EXCEPT !.claimed = @ \/ taken # <<>>]
      BY <1>4, <2>2, Zenon DEF Claim
    <3> HIDE DEF taken
    <3>2. /\ fate' = Becomes(ToSet(batch'), "claimed")
          /\ log' = [log EXCEPT !.claimed = @ \/ batch' # <<>>]
      BY <3>1, Zenon
    <3>3. batch' = nextStep \o Prompt
      BY <3>1 DEF taken
    <3>4. Claiming
      BY <3>1, <3>2, <3>3, Zenon DEF Claiming
    <3> QED BY <2>2, <3>4
  <2> QED BY <2>1, <2>2
<1>5. CASE Assembled
  <2>1. CASE Aborted
    BY <1>1, <1>5, <2>1 DEF Assembled, inbox
  <2>2. CASE ~Aborted
    BY <1>5, <2>2, StaysQuiet DEF Assembled, inbox, Holding, Throw
  <2> QED BY <2>1, <2>2
<1>6. CASE PreStep
  <2>1. UNCHANGED <<nextStep, nextTurn>>
    BY <1>6 DEF PreStep, inbox
  <2>2. CASE Aborted
    BY <1>1, <1>6, <2>1, <2>2 DEF PreStep
  <2>3. CASE ~Aborted
    BY <1>6, <2>1, <2>3, StaysQuiet DEF PreStep, Holding, Throw
  <2> QED BY <2>2, <2>3
<1>7. CASE Rejected
  BY <1>7, EndSettles DEF Rejected, inbox, Ending
<1>8. CASE Entered
  <2>1. UNCHANGED <<nextStep, nextTurn>>
    BY <1>8 DEF Entered, inbox
  <2>2. \/ batch = <<>> /\ EndTurn(turnEnds, "ended") /\ turnEnds # "none"
        \/ batch = <<>> /\ EndTurn("completed", "leaving")
        \/ EndAborted
        \/ /\ log' = [log EXCEPT !.openStep = step + 1, !.stepped = TRUE]
           /\ pc' = "opening" /\ UNCHANGED <<batch, fate>>
    BY <1>8 DEF Entered, EmptyEnding
  <2>3. CASE batch = <<>> /\ EndTurn(turnEnds, "ended") /\ turnEnds # "none"
    <3>1. turnEnds \in Ending
      BY <2>3 DEF StateTypes
    <3> QED BY <2>1, <2>3, <3>1, EndSettles
  <2>4. CASE batch = <<>> /\ EndTurn("completed", "leaving")
    <3>1. "completed" \in Ending
      BY DEF Ending
    <3> QED BY <2>1, <2>4, <3>1, EndSettles
  <2>5. CASE EndAborted
    BY <1>1, <2>1, <2>5
  <2>6. CASE /\ log' = [log EXCEPT !.openStep = step + 1, !.stepped = TRUE]
             /\ pc' = "opening" /\ UNCHANGED <<batch, fate>>
    <3>1. step + 1 \in Nat
      BY DEF StateTypes
    <3>2. log' \in Ledger /\ log'.claimed = log.claimed
      BY <2>6, <3>1 DEF QueueTypes, Ledger
    <3> QED BY <2>1, <2>6, <3>2 DEF Quiet, QueueTypes, Same, Holding
  <2> QED BY <2>2, <2>3, <2>4, <2>5, <2>6
<1>9. CASE Restored
  <2>1. CASE Aborted
    BY <1>1, <1>9, <2>1 DEF Restored, inbox
  <2>2. CASE ~Aborted
    BY <1>9, <2>2, StaysQuiet DEF Restored, inbox, Holding
  <2> QED BY <2>1, <2>2
<1>10. CASE EnterBatch
  <2>1. /\ pc = "opening" /\ UNCHANGED <<nextStep, nextTurn, log>>
        /\ batch' = <<>> /\ fate' = Becomes(ToSet(batch), "entered")
    BY <1>10 DEF EnterBatch, inbox
  <2>2. "entered" \in Fate
    BY DEF Fate
  <2> QED BY <2>1, <2>2, FatesAt DEF Settling, QueueTypes, Same
<1>11. ASSUME NEW outcome \in StepOutcome, StepEnd(outcome) PROVE Quiet
  <2>1. batch = <<>> /\ UNCHANGED <<nextStep, nextTurn, batch, fate>>
    BY <1>2, <1>11 DEF StepEnd, Holding, inbox
  <2>2. log' \in Ledger
    <3>1. log' = LogTurnEnd("aborted") \/ log' = [log EXCEPT !.openStep = 0]
      BY <1>11 DEF StepEnd
    <3>2. LogTurnEnd("aborted") \in Ledger
      BY TurnEndLog DEF QueueTypes, Ending
    <3>3. CASE log' = [log EXCEPT !.openStep = 0]
      BY <3>3 DEF QueueTypes, Ledger
    <3> QED BY <3>1, <3>2, <3>3
  <2> QED BY <2>1, <2>2 DEF Quiet, QueueTypes, Same
<1>12. CASE Stopping
  <2>1. batch = <<>> /\ UNCHANGED <<nextStep, nextTurn>> /\ turnEnds \in Ending
    BY <1>2, <1>12 DEF Stopping, Holding, inbox, TurnInv, StateTypes
  <2>2. EndAborted \/ EndTurn(turnEnds, "ended") \/ UNCHANGED <<log, fate, batch>>
    BY <1>12 DEF Stopping
  <2>3. CASE EndAborted
    BY <1>1, <2>1, <2>3
  <2>4. CASE EndTurn(turnEnds, "ended")
    BY <2>1, <2>4, EndSettles
  <2>5. CASE UNCHANGED <<log, fate, batch>>
    BY <2>1, <2>5, StaysQuiet
  <2> QED BY <2>2, <2>3, <2>4, <2>5
<1>13. CASE ErrorEnd
  BY <1>13, EndSettles DEF ErrorEnd, inbox, Ending
<1>14. CASE Ended \/ Leave
  <2>1. batch = <<>>
    BY <1>2, <1>14 DEF Ended, Leave, Holding
  <2>2. UNCHANGED <<nextStep, nextTurn, batch, log, fate>>
    BY <1>14 DEF Ended, Leave, inbox
  <2> QED BY <2>1, <2>2, StaysQuiet
<1> QED BY <1>3, <1>4, <1>5, <1>6, <1>7, <1>8, <1>9, <1>10, <1>11, <1>12, <1>13, <1>14

\* The steps of the jobs around a driver, and a step that changes nothing.
LEMMA OtherMoves ==
  ASSUME Inv, SendWake \/ EndMaintenance \/ Retire \/ RunMaintenance \/ UNCHANGED vars
  PROVE  Quiet
<1>0. QueueTypes /\ StateTypes /\ TurnInv /\ PlaceInv
  BY TypeParts DEF Inv
<1>1. pc' = pc \/ pc = "off"
  <2>1. CASE SendWake
    BY <1>0, <2>1, WakeStarts DEF SendWake
  <2>2. CASE EndMaintenance
    BY <1>0, <2>2 DEF EndMaintenance, TurnInv
  <2>3. CASE Retire
    BY <1>0, <2>3, WakeStarts DEF Retire
  <2>4. CASE RunMaintenance
    BY <2>4 DEF RunMaintenance, driver
  <2>5. CASE UNCHANGED vars
    BY <2>5 DEF vars, driver
  <2> QED BY <2>1, <2>2, <2>3, <2>4, <2>5
<1>2. UNCHANGED <<nextStep, nextTurn, batch, log, fate>>
  BY DEF SendWake, EndMaintenance, Retire, RunMaintenance, vars, inbox, driver
<1>3. pc' \in Holding \/ batch = <<>>
  BY <1>0, <1>1 DEF PlaceInv, Holding
<1> QED BY <1>0, <1>2, <1>3, StaysQuiet

\* A cancellation, whoever makes it.
LEMMA CancelsMove ==
  ASSUME Inv, Dispose \/ \E keep \in BOOLEAN : Cancel(keep) \/ ObserverCancel(keep)
  PROVE  Quiet \/ Clearing
<1>0. QueueTypes /\ PlaceInv
  BY TypeParts DEF Inv
<1>1. PICK cause \in {"user", "disposed"}, keep \in BOOLEAN : DoCancel(cause, keep)
  <2>1. CASE Dispose
    BY <2>1 DEF Dispose
  <2>2. ASSUME NEW keep \in BOOLEAN, Cancel(keep) \/ ObserverCancel(keep)
        PROVE  \E k \in BOOLEAN : DoCancel("user", k)
    BY <2>2 DEF Cancel, ObserverCancel
  <2> QED BY <2>1, <2>2
<1>2. UNCHANGED <<pc, batch>>
  BY DEF Dispose, Cancel, ObserverCancel, driver
<1> QED BY <1>0, <1>1, <1>2, CancelMoves

\* What every step does to the messages.
LEMMA Moves ==
  ASSUME Inv, [Next]_vars
  PROVE  \/ Quiet \/ Settling \/ (Claiming /\ ~Aborted) \/ Clearing
         \/ \E S \in SUBSET ToSet(batch) : Accept(S) \/ Restore(S)
         \/ \E m \in Messages :
              \/ Followup(m) \/ Steer(m) \/ Inject(m) \/ Prepend(m)
              \/ Withdraw(m) \/ SteerQueued(m) \/ \E n \in Messages : Edit(m, n)
<1>1. CASE Callers
  BY <1>1, CancelsMove, OtherMoves DEF Callers
<1>2. CASE Driver
  BY <1>2, DriverMoves DEF Driver
<1>3. CASE SendWake \/ EndMaintenance \/ Retire \/ UNCHANGED vars
  BY <1>3, OtherMoves
<1> QED BY <1>1, <1>2, <1>3 DEF Next

-----------------------------------------------------------------------------
(* What a step does to the turn *)

\* What a step may do to the open turn and the open step.
TurnMoves ==
  /\ log'.open # log.open =>
       \/ log.open = 0 /\ log'.open = turn + 1
       \/ log'.open = 0 /\ log'.openStep = 0
  /\ log'.openStep # log.openStep =>
       \/ log'.openStep = 0
       \/ /\ log.openStep = 0 /\ log.open = turn
          /\ log'.openStep = (IF log.stepped THEN step ELSE 0) + 1
  /\ Aborted => log'.openStep \in {0, log.openStep}

\* The turn, as the log has it, does not move.
SameTurn ==
  /\ UNCHANGED <<turn, step, pc, target, turnEnds>>
  /\ phase' = "running" <=> phase = "running"
  /\ log'.open = log.open /\ log'.openStep = log.openStep
  /\ log'.stepped = log.stepped /\ log'.claimed = log.claimed

\* A turn that does not move keeps what TurnInv says.
LEMMA SameTurnKeeps ==
  ASSUME TurnInv, SameTurn
  PROVE  TurnInv' /\ TurnMoves
BY DEF TurnInv, SameTurn, TurnMoves

\* A turn ends.
LEMMA EndsTurn ==
  ASSUME QueueTypes, turn \in Nat, PlaceInv, TurnInv, NEW reason \in Ending,
         NEW then \in {"ended", "leaving"}, EndTurn(reason, then), pc # "off",
         phase' = phase
  PROVE  TurnInv' /\ TurnMoves
<1>1. /\ pc' = then
      /\ log'.open = 0 /\ log'.openStep = 0 /\ ~log'.stepped /\ ~log'.claimed
  BY TurnEnds
<1>2. phase' = "running"
  BY DEF TurnInv
<1> QED BY <1>1, <1>2 DEF TurnInv, TurnMoves, InTurn

\* A caller's step leaves the turn as it is.
LEMMA CallersTurn ==
  ASSUME Inv, Callers
  PROVE  SameTurn
<1>0. log \in Ledger /\ (phase = "running" <=> pc # "off")
  BY TypeParts DEF Inv, QueueTypes, TurnInv
<1>1. \/ log' = log
      \/ log' = [log EXCEPT !.droppedUnrun = TRUE]
      \/ log' = [log EXCEPT !.droppedUnrun = @ \/ HasPending]
  BY DEF Callers, Followup, Steer, Inject, Send, Prepend, Withdraw, SteerQueued, Edit,
         Cancel, ObserverCancel, Dispose, DoCancel, RunMaintenance
<1>2. /\ log'.open = log.open /\ log'.openStep = log.openStep
      /\ log'.stepped = log.stepped /\ log'.claimed = log.claimed
  <2>1. CASE log' = log
    BY <2>1
  <2>2. CASE log' = [log EXCEPT !.droppedUnrun = TRUE]
    BY <1>0, <2>2 DEF Ledger
  <2>3. CASE log' = [log EXCEPT !.droppedUnrun = @ \/ HasPending]
    BY <1>0, <2>3 DEF Ledger
  <2> QED BY <1>1, <2>1, <2>2, <2>3
<1>3. UNCHANGED <<turn, step, pc, target, turnEnds>>
  BY DEF Callers, Followup, Steer, Inject, Send, Insert, Prepend, Withdraw, SteerQueued,
         Edit, Cancel, ObserverCancel, Dispose, RunMaintenance, driver
<1>4. phase' = phase \/ (phase = "idle" /\ phase' = "maintenance")
  BY DEF Callers, Followup, Steer, Inject, Send, Insert, Prepend, Withdraw, SteerQueued,
         Edit, Cancel, ObserverCancel, Dispose, RunMaintenance
<1> QED BY <1>2, <1>3, <1>4 DEF SameTurn

\* A driver starts.
LEMMA StartsTurn ==
  ASSUME QueueTypes, TurnInv, pc = "off", pc' = "start", step' = 0, phase' = "running",
         UNCHANGED <<turn, target, turnEnds, log>>
  PROVE  TurnInv' /\ TurnMoves
BY DEF TurnInv, TurnMoves, InTurn

\* The turn at every step.
LEMMA TurnStep ==
  ASSUME Inv, [Next]_vars
  PROVE  TurnInv' /\ TurnMoves
<1>0. /\ QueueTypes /\ StateTypes /\ TurnInv /\ PlaceInv
      /\ turn \in Nat /\ step \in Nat /\ log \in Ledger
  BY TypeParts DEF Inv, StateTypes, QueueTypes
<1>1. ASSUME NEW reason \in Ending, NEW then \in {"ended", "leaving"},
             EndTurn(reason, then), pc # "off", phase' = phase
      PROVE  TurnInv' /\ TurnMoves
  BY <1>0, <1>1, EndsTurn
<1>2. ASSUME EndAborted, pc # "off", phase' = phase PROVE TurnInv' /\ TurnMoves
  BY <1>1, <1>2 DEF EndAborted, Ending
<1>3. CASE Callers
  BY <1>0, <1>3, CallersTurn, SameTurnKeeps
<1>4. CASE UNCHANGED vars
  BY <1>0, <1>4, SameTurnKeeps DEF vars, driver, SameTurn
<1>5. CASE SendWake
  BY <1>0, <1>5, WakeStarts, StartsTurn, SameTurnKeeps DEF SendWake, SameTurn
<1>6. CASE EndMaintenance
  <2>1. UNCHANGED <<turn, target, turnEnds, log>> /\ phase = "maintenance" /\ pc = "off"
    BY <1>0, <1>6 DEF EndMaintenance, TurnInv
  <2>2. \/ pc' = "start" /\ step' = 0 /\ phase' = "running"
        \/ phase' = "idle" /\ UNCHANGED <<step, pc>>
    BY <1>6 DEF EndMaintenance, StartDriver
  <2> QED BY <1>0, <2>1, <2>2, StartsTurn, SameTurnKeeps DEF SameTurn
<1>7. CASE Retire
  <2>1. UNCHANGED <<turn, target, turnEnds, log>>
    BY <1>7 DEF Retire
  <2>2. WakeDriver(FALSE) \/ UNCHANGED <<phase, step, pc>>
    BY <1>7 DEF Retire
  <2> QED BY <1>0, <2>1, <2>2, WakeStarts, StartsTurn, SameTurnKeeps DEF SameTurn
<1>8. CASE OpenTurn
  <2>1. CASE Aborted
    BY <1>0, <1>8, <2>1 DEF OpenTurn, TurnInv, TurnMoves, InTurn
  <2>2. CASE ~Aborted
    <3>1. /\ pc \in {"start", "between"} /\ pc' = "opened"
          /\ turn' = turn + 1 /\ target' = "next-turn"
          /\ log' = [log EXCEPT !.open = turn + 1]
          /\ UNCHANGED <<phase, step>>
      BY <1>8, <2>2 DEF OpenTurn
    <3>2. /\ log'.open = turn + 1 /\ log'.openStep = log.openStep
          /\ log'.stepped = log.stepped /\ log'.claimed = log.claimed
      BY <1>0, <3>1 DEF Ledger
    <3>3. /\ log.open = 0 /\ ~log.stepped /\ ~log.claimed /\ step = 0
          /\ log.openStep = 0 /\ phase = "running"
      BY <1>0, <3>1 DEF TurnInv, InTurn
    <3>4. turn + 1 # 0 /\ ~(0 > 0)
      BY <1>0
    <3>5. TurnInv'
      BY <3>1, <3>2, <3>3, <3>4 DEF TurnInv, InTurn
    <3> QED BY <3>2, <3>3, <3>5 DEF TurnMoves
  <2> QED BY <2>1, <2>2
<1>9. CASE Claim
  <2>1. CASE Aborted
    BY <1>2, <1>9, <2>1 DEF Claim
  <2>2. CASE ~Aborted
    <3> DEFINE taken == nextStep \o Prompt
               some == log.claimed \/ taken # <<>>
    <3>1. /\ pc \in {"opened", "next"} /\ pc' = "assemble"
          /\ UNCHANGED <<phase, turn, step, target, turnEnds>>
      BY <1>9, <2>2 DEF Claim
    <3>2. log' = [log EXCEPT !.claimed = some]
      BY <1>9, <2>2, Zenon DEF Claim
    <3> HIDE DEF some
    <3>3. /\ log'.open = log.open /\ log'.openStep = log.openStep
          /\ log'.stepped = log.stepped
      BY <1>0, <3>2 DEF Ledger
    <3> QED BY <1>0, <3>1, <3>3 DEF TurnInv, TurnMoves, InTurn
  <2> QED BY <2>1, <2>2
<1>10. ASSUME pc \in InTurn \ {"opening", "step"},
              pc' \in InTurn \ {"opening", "step", "opened", "next", "stopping"},
              UNCHANGED <<phase, turn, step, log>>
       PROVE  TurnInv' /\ TurnMoves
  BY <1>0, <1>10 DEF TurnInv, TurnMoves, InTurn
<1>11. CASE Assembled
  <2>1. CASE Aborted
    BY <1>2, <1>11, <2>1 DEF Assembled
  <2>2. CASE ~Aborted
    BY <1>10, <1>11, <2>2 DEF Assembled, Throw, InTurn
  <2> QED BY <2>1, <2>2
<1>12. CASE PreStep
  <2>1. CASE Aborted
    BY <1>2, <1>12, <2>1 DEF PreStep
  <2>2. CASE ~Aborted
    BY <1>10, <1>12, <2>2 DEF PreStep, Throw, InTurn
  <2> QED BY <2>1, <2>2
<1>13. ASSUME NEW S \in SUBSET ToSet(batch), Accept(S) \/ Restore(S)
       PROVE  TurnInv' /\ TurnMoves
  BY <1>10, <1>13 DEF Accept, Restore, InTurn
<1>14. CASE Restored
  <2>1. CASE Aborted
    BY <1>2, <1>14, <2>1 DEF Restored
  <2>2. CASE ~Aborted
    BY <1>10, <1>14, <2>2 DEF Restored, InTurn
  <2> QED BY <2>1, <2>2
<1>15. CASE Rejected
  BY <1>1, <1>15 DEF Rejected, Ending
<1>16. CASE Entered
  <2>1. pc = "entered" /\ UNCHANGED <<phase, turn, target>>
    BY <1>16 DEF Entered
  <2>2. \/ EndTurn(turnEnds, "ended") /\ turnEnds # "none"
        \/ EndTurn("completed", "leaving")
        \/ EndAborted
        \/ /\ ~Aborted /\ step' = step + 1 /\ pc' = "opening"
           /\ log' = [log EXCEPT !.openStep = step + 1, !.stepped = TRUE]
    BY <1>16 DEF Entered, EmptyEnding, StopsEntry
  <2>3. CASE EndTurn(turnEnds, "ended") /\ turnEnds # "none"
    <3>1. turnEnds \in Ending
      BY <1>0, <2>3 DEF StateTypes
    <3> QED BY <1>1, <2>1, <2>3, <3>1
  <2>4. CASE EndTurn("completed", "leaving")
    BY <1>1, <2>1, <2>4 DEF Ending
  <2>5. CASE EndAborted
    BY <1>2, <2>1, <2>5
  <2>6. CASE /\ ~Aborted /\ step' = step + 1 /\ pc' = "opening"
             /\ log' = [log EXCEPT !.openStep = step + 1, !.stepped = TRUE]
    <3>1. /\ log'.open = log.open /\ log'.openStep = step + 1
          /\ log'.stepped = TRUE /\ log'.claimed = log.claimed
      BY <1>0, <2>6 DEF Ledger
    <3>2. /\ log.open = turn /\ log.open # 0 /\ log.openStep = 0
          /\ (log.stepped <=> step > 0) /\ phase = "running"
      BY <1>0, <2>1 DEF TurnInv, InTurn
    <3>3. TurnInv'
      <4>1. step + 1 > 0
        BY <1>0
      <4> QED BY <2>1, <2>6, <3>1, <3>2, <4>1 DEF TurnInv, InTurn
    <3>4. step = IF log.stepped THEN step ELSE 0
      BY <1>0, <3>2
    <3> QED BY <2>6, <3>1, <3>2, <3>3, <3>4 DEF TurnMoves
  <2> QED BY <2>2, <2>3, <2>4, <2>5, <2>6
<1>17. CASE EnterBatch
  BY <1>0, <1>17 DEF EnterBatch, TurnInv, TurnMoves, InTurn
<1>18. ASSUME NEW outcome \in StepOutcome, StepEnd(outcome) PROVE TurnInv' /\ TurnMoves
  <2>1. /\ pc = "step" /\ UNCHANGED <<phase, turn, step>>
        /\ log.open = turn /\ log.open # 0 /\ (log.stepped <=> step > 0)
        /\ phase = "running"
    BY <1>0, <1>18 DEF StepEnd, TurnInv, InTurn
  <2>2. CASE Aborted
    <3>1. pc' = "leaving" /\ log' = LogTurnEnd("aborted")
      BY <1>18, <2>2 DEF StepEnd
    <3>2. log'.open = 0 /\ log'.openStep = 0 /\ ~log'.stepped /\ ~log'.claimed
      BY <1>0, <3>1, TurnEndLog DEF Ending
    <3> QED BY <2>1, <3>1, <3>2 DEF TurnInv, TurnMoves, InTurn
  <2>3. CASE ~Aborted
    <3>1. /\ log' = [log EXCEPT !.openStep = 0]
          /\ \/ pc' = "error"
             \/ pc' = "stopping" /\ turnEnds' # "none"
             \/ pc' = "next" /\ target' = "next-step"
      BY <1>18, <2>3 DEF StepEnd, Throw
    <3>2. /\ log'.open = log.open /\ log'.openStep = 0
          /\ log'.stepped = log.stepped /\ log'.claimed = log.claimed
      BY <1>0, <3>1 DEF Ledger
    <3> QED BY <2>1, <2>3, <3>1, <3>2 DEF TurnInv, TurnMoves, InTurn
  <2> QED BY <2>2, <2>3
<1>19. CASE Stopping
  <2>1. pc = "stopping" /\ UNCHANGED <<phase, turn, step>> /\ turnEnds \in Ending
    BY <1>0, <1>19 DEF Stopping, TurnInv, StateTypes
  <2>2. \/ EndAborted \/ EndTurn(turnEnds, "ended")
        \/ log' = log /\ (pc' = "error" \/ (pc' = "next" /\ target' = "next-step"))
    BY <1>19 DEF Stopping, Throw
  <2>3. CASE EndAborted
    BY <1>2, <2>1, <2>3
  <2>4. CASE EndTurn(turnEnds, "ended")
    BY <1>1, <2>1, <2>4
  <2>5. CASE log' = log /\ (pc' = "error" \/ (pc' = "next" /\ target' = "next-step"))
    BY <1>0, <2>1, <2>5 DEF TurnInv, TurnMoves, InTurn
  <2> QED BY <2>2, <2>3, <2>4, <2>5
<1>20. CASE ErrorEnd
  BY <1>1, <1>20 DEF ErrorEnd, Ending
<1>21. CASE Ended
  <2>1. /\ pc = "ended" /\ UNCHANGED <<phase, turn, log>>
        /\ (pc' = "between" /\ step' = 0) \/ pc' = "leaving"
    BY <1>21 DEF Ended, FirstPosition
  <2> QED BY <1>0, <2>1 DEF TurnInv, TurnMoves, InTurn
<1>22. CASE Leave
  BY <1>0, <1>22 DEF Leave, TurnInv, TurnMoves, InTurn
<1> QED BY <1>3, <1>4, <1>5, <1>6, <1>7, <1>8, <1>9, <1>11, <1>12, <1>13, <1>14, <1>15,
           <1>16, <1>17, <1>18, <1>19, <1>20, <1>21, <1>22
        DEF Next, Driver

-----------------------------------------------------------------------------
(* The invariant *)

\* A replayed inbox is in order.
LEMMA InitInv == Init => Inv
<1> SUFFICES ASSUME Init PROVE Inv
  OBVIOUS
<1>0. PICK steps \in SUBSET Messages : \E prompts \in SUBSET (Messages \ steps) :
        /\ IsFiniteSet(steps) /\ IsFiniteSet(prompts)
        /\ nextStep \in SetToSeqs(steps) /\ nextTurn \in SetToSeqs(prompts)
        /\ fate = [m \in Messages |->
                     IF m \in steps \cup prompts THEN "pending" ELSE "unsent"]
  BY DEF Init
<1>1. PICK prompts \in SUBSET (Messages \ steps) :
        /\ IsFiniteSet(steps) /\ IsFiniteSet(prompts)
        /\ nextStep \in SetToSeqs(steps) /\ nextTurn \in SetToSeqs(prompts)
        /\ fate = [m \in Messages |->
                     IF m \in steps \cup prompts THEN "pending" ELSE "unsent"]
  BY <1>0
<1>2. /\ nextStep \in Seq(Messages) /\ IsInjective(nextStep) /\ ToSet(nextStep) = steps
      /\ nextTurn \in Seq(Messages) /\ IsInjective(nextTurn) /\ ToSet(nextTurn) = prompts
  <2>1. nextStep \in Seq(steps) /\ IsInjective(nextStep) /\ ToSet(nextStep) = steps
    BY <1>1, Ordered
  <2>2. nextTurn \in Seq(prompts) /\ IsInjective(nextTurn) /\ ToSet(nextTurn) = prompts
    BY <1>1, Ordered
  <2>3. steps \subseteq Messages /\ prompts \subseteq Messages
    BY <1>1
  <2> QED BY <2>1, <2>2, <2>3, SeqMonotonic
<1>3. /\ phase = "idle" /\ abort = "none" /\ wake = FALSE
      /\ turn = 0 /\ step = 0
      /\ pc = "off" /\ batch = <<>> /\ context = FALSE
      /\ target = "next-turn" /\ turnEnds = "none"
      /\ retire = "no" /\ sending = "no" /\ disposed = FALSE
      /\ log = [open |-> 0, openStep |-> 0, stepped |-> FALSE, claimed |-> FALSE,
                end |-> <<0, "none">>, droppedUnrun |-> FALSE]
  BY DEF Init
<1>4. StateTypes
  BY <1>3 DEF StateTypes, PC
<1>5. QueueTypes
  <2>1. log \in Ledger
    BY <1>3 DEF Ledger
  <2>2. fate \in [Messages -> Fate]
    BY <1>1 DEF Fate, Waiting
  <2>3. batch \in Seq(Messages)
    BY <1>3, NoMembers
  <2> QED BY <1>2, <2>1, <2>2, <2>3 DEF QueueTypes
<1>6. TurnInv
  BY <1>3 DEF TurnInv, InTurn
<1>7. PlaceInv
  <2>1. IsInjective(batch) /\ ToSet(batch) = {} /\ batch = <<>>
    BY <1>3, NoMembers
  <2>2. ASSUME NEW m \in Messages
        PROVE  /\ fate[m] \in Waiting <=> m \in steps \cup prompts
               /\ fate[m] # "claimed"
    BY <1>1 DEF Waiting
  <2>3. \A m \in Messages : ~(m \in steps /\ m \in prompts)
    BY <1>1
  <2> QED BY <1>2, <2>1, <2>2, <2>3 DEF PlaceInv, Pending
<1> QED BY <1>4, <1>5, <1>6, <1>7, TypeParts DEF Inv

\* Every step keeps each message in its place.
LEMMA PlaceStep ==
  ASSUME Inv, [Next]_vars
  PROVE  QueueTypes' /\ PlaceInv'
<1>0. QueueTypes /\ PlaceInv
  BY TypeParts DEF Inv
<1>1. CASE Quiet
  BY <1>0, <1>1, QuietKeeps
<1>2. CASE Settling
  BY <1>0, <1>2, SettlingKeeps
<1>3. CASE Claiming
  BY <1>0, <1>3, ClaimingKeeps
<1>4. CASE Clearing
  BY <1>0, <1>4, ClearingKeeps
<1>5. ASSUME NEW S \in SUBSET ToSet(batch), Accept(S) \/ Restore(S)
      PROVE  QueueTypes' /\ PlaceInv'
  BY <1>0, <1>5, AcceptKeeps, RestoreKeeps
<1>6. ASSUME NEW m \in Messages, Followup(m) \/ Steer(m) \/ Inject(m)
      PROVE  QueueTypes' /\ PlaceInv'
  BY <1>0, <1>6, SendKeeps
<1>7. ASSUME NEW m \in Messages, Prepend(m) PROVE QueueTypes' /\ PlaceInv'
  BY <1>0, <1>7, PrependKeeps
<1>8. ASSUME NEW m \in Messages, Withdraw(m) PROVE QueueTypes' /\ PlaceInv'
  BY <1>0, <1>8, WithdrawKeeps
<1>9. ASSUME NEW m \in Messages, SteerQueued(m) PROVE QueueTypes' /\ PlaceInv'
  BY <1>0, <1>9, SteerKeeps
<1>10. ASSUME NEW m \in Messages, NEW n \in Messages, Edit(m, n)
       PROVE  QueueTypes' /\ PlaceInv'
  BY <1>0, <1>10, EditKeeps
<1> QED BY <1>1, <1>2, <1>3, <1>4, <1>5, <1>6, <1>7, <1>8, <1>9, <1>10, Moves

\* TypeOK, TurnInv and PlaceInv hold together (every handler of ReactLoopAgent and
\* of its Inbox).
THEOREM Invariance == Spec => []Inv
<1>1. Inv /\ [Next]_vars => Inv'
  <2> SUFFICES ASSUME Inv, [Next]_vars PROVE Inv'
    OBVIOUS
  <2>1. StateTypes /\ TurnInv
    BY TypeParts DEF Inv
  <2>2. StateTypes'
    BY <2>1, StateTypeStep
  <2>3. QueueTypes' /\ PlaceInv' /\ TurnInv'
    BY PlaceStep, TurnStep
  <2>4. TypeOK'
    BY <2>2, <2>3 DEF TypeOK, QueueTypes, StateTypes
  <2> QED BY <2>3, <2>4 DEF Inv
<1> QED BY <1>1, InitInv, PTL DEF Spec

\* The variables keep the types their comments promise; an idle agent has neither
\* an aborted controller nor a latched wake (setPhase).
THEOREM TypeCorrect == Spec => []TypeOK
<1>1. Inv => TypeOK
  BY DEF Inv
<1> QED BY <1>1, Invariance, PTL

\* How often a queue without duplicates holds a message.
LEMMA Once ==
  ASSUME NEW M, NEW s \in Seq(M), IsInjective(s), NEW m
  PROVE  Occurrences(s, m) = IF m \in ToSet(s) THEN 1 ELSE 0
<1> DEFINE places == {i \in DOMAIN s : s[i] = m}
<1>1. /\ DOMAIN s = 1..Len(s)
      /\ m \in ToSet(s) <=> \E i \in 1..Len(s) : s[i] = m
      /\ \A i, j \in 1..Len(s) : s[i] = s[j] => i = j
  BY Members
<1>2. CASE m \in ToSet(s)
  <2>1. PICK k \in 1..Len(s) : s[k] = m
    BY <1>1, <1>2
  <2>2. places = {k}
    BY <1>1, <2>1
  <2>3. Cardinality(places) = 1
    BY <2>2, FS_Singleton
  <2> QED BY <1>2, <2>3 DEF Occurrences
<1>3. CASE m \notin ToSet(s)
  <2>1. places = {}
    BY <1>1, <1>3
  <2>2. Cardinality(places) = 0
    BY <2>1, FS_EmptySet
  <2> QED BY <1>3, <2>2 DEF Occurrences
<1> QED BY <1>2, <1>3

\* A message is pending once in one list, in the claimed batch, or settled
\* (Inbox.mutate keeps a message in one list; claim, restore and the endings of a
\* turn move it).
THEOREM MessagesHaveOnePlace == Spec => []OnePlace
<1>1. Inv => OnePlace
  <2> SUFFICES ASSUME Inv, NEW m \in Messages
               PROVE  /\ Occurrences(nextStep \o nextTurn, m)
                           = (IF fate[m] \in Waiting THEN 1 ELSE 0)
                      /\ Occurrences(batch, m) = (IF fate[m] = "claimed" THEN 1 ELSE 0)
    BY DEF OnePlace
  <2>1. QueueTypes /\ PlaceInv
    BY TypeParts DEF Inv
  <2>2. /\ nextStep \in Seq(Messages) /\ nextTurn \in Seq(Messages)
        /\ batch \in Seq(Messages)
        /\ IsInjective(nextStep) /\ IsInjective(nextTurn) /\ IsInjective(batch)
        /\ fate[m] \in Waiting <=> m \in ToSet(nextStep) \cup ToSet(nextTurn)
        /\ fate[m] = "claimed" <=> m \in ToSet(batch)
    BY <2>1 DEF QueueTypes, PlaceInv, Pending
  <2>3. ToSet(nextStep) \cap ToSet(nextTurn) = {}
    <3>1. ToSet(nextStep) \subseteq Messages
      BY <2>2, Members
    <3> QED BY <2>1, <3>1 DEF PlaceInv
  <2> DEFINE both == nextStep \o nextTurn
  <2>4. /\ both \in Seq(Messages) /\ ToSet(both) = ToSet(nextStep) \cup ToSet(nextTurn)
        /\ IsInjective(both)
    BY <2>2, <2>3, Joined
  <2> HIDE DEF both
  <2>5. Occurrences(both, m) = IF m \in ToSet(both) THEN 1 ELSE 0
    BY <2>4, Once
  <2>6. Occurrences(batch, m) = IF m \in ToSet(batch) THEN 1 ELSE 0
    BY <2>2, Once
  <2> QED BY <2>2, <2>4, <2>5, <2>6 DEF both
<1> QED BY <1>1, Invariance, PTL

\* A driver runs exactly in the running phase, and turns and steps of the log are
\* open only inside one (kick, turn and step of ReactLoopAgent).
THEOREM PhaseOwnsDriver == Spec => []DriverOwnsPhase
<1>1. Inv => DriverOwnsPhase
  BY DEF Inv, TurnInv, DriverOwnsPhase, InTurn
<1> QED BY <1>1, Invariance, PTL

-----------------------------------------------------------------------------
(* What a step may never do *)

\* The step of Balanced.
BalancedStep ==
  /\ log'.open # log.open =>
       \/ log.open = 0 /\ log'.open = turn + 1
       \/ log'.open = 0 /\ log'.openStep = 0
  /\ log'.openStep # log.openStep =>
       \/ log'.openStep = 0
       \/ /\ log.openStep = 0 /\ log.open = turn
          /\ log'.openStep = (IF log.stepped THEN step ELSE 0) + 1

\* Turns and steps never overlap and are numbered without gaps (turn/start and
\* step/start are written by turn() and step() alone).
THEOREM TurnsAreBalanced == Spec => Balanced
<1>1. Inv /\ [Next]_vars => [BalancedStep]_vars
  BY TurnStep DEF TurnMoves, BalancedStep
<1> QED BY <1>1, Invariance, PTL DEF Spec, Balanced, BalancedStep

\* The step of NothingEntersAborted.
AbortedStep ==
  Aborted =>
    /\ log'.openStep \in {0, log.openStep}
    /\ \A m \in Messages : fate'[m] = "entered" /\ fate[m] # "entered" =>
         pc = "opening" /\ log.openStep = step

\* What a step makes of a message.
LEMMA FateMoves ==
  ASSUME Inv, [Next]_vars, NEW m \in Messages
  PROVE  \/ fate'[m] = fate[m]
         \/ fate[m] = "unsent" /\ fate'[m] \in Waiting
         \/ fate[m] \in Waiting /\ fate'[m] \in Waiting \cup {"claimed"}
         \/ /\ fate[m] \in Waiting /\ fate'[m] = "canceled"
            /\ log'.droppedUnrun \/ \E n \in Messages : Edit(m, n)
         \/ fate[m] = "claimed" /\ fate'[m] \in {"pending", "omitted"}
         \/ fate[m] = "claimed" /\ fate'[m] = "entered" /\ pc = "opening"
         \/ /\ fate[m] = "claimed" /\ fate'[m] = "discarded"
            /\ log'.end[1] = turn /\ log'.end[2] # "completed"
<1>0. /\ QueueTypes /\ PlaceInv /\ fate \in [Messages -> Fate]
      /\ fate[m] \in Waiting <=> m \in Pending
      /\ fate[m] = "claimed" <=> m \in ToSet(batch)
  BY TypeParts DEF Inv, QueueTypes, PlaceInv
<1>1. CASE Quiet
  BY <1>1 DEF Quiet, Same
<1>2. CASE Settling
  BY <1>0, <1>2 DEF Settling, Same
<1>3. CASE Claiming
  <2>1. "claimed" \in Fate /\ fate' = Becomes(ToSet(batch'), "claimed")
    BY <1>3 DEF Fate, Claiming
  <2>2. fate'[m] = IF m \in ToSet(batch') THEN "claimed" ELSE fate[m]
    BY <1>0, <2>1, FatesAt
  <2>3. m \in ToSet(batch') => m \in Pending
    BY <1>0, <1>3, ClaimingKeeps
  <2> QED BY <1>0, <2>2, <2>3
<1>4. CASE Clearing
  <2>1. "canceled" \in Fate /\ fate' = Becomes(Pending, "canceled")
    BY <1>4 DEF Fate, Clearing
  <2>2. fate'[m] = IF m \in Pending THEN "canceled" ELSE fate[m]
    BY <1>0, <2>1, FatesAt
  <2>3. ASSUME m \in Pending PROVE log'.droppedUnrun
    <3>1. HasPending
      BY <2>3, NoMembers DEF Pending, HasPending
    <3>2. log' = [log EXCEPT !.droppedUnrun = @ \/ HasPending] /\ log \in Ledger
      BY <1>0, <1>4 DEF Clearing, QueueTypes
    <3> QED BY <3>1, <3>2 DEF Ledger
  <2> QED BY <1>0, <2>2, <2>3
<1>5. ASSUME NEW S \in SUBSET ToSet(batch), Accept(S) \/ Restore(S)
      PROVE  \/ fate'[m] = fate[m]
             \/ fate[m] = "claimed" /\ fate'[m] \in {"pending", "omitted"}
  BY <1>0, <1>5, AcceptKeeps, RestoreKeeps
<1>6. ASSUME NEW n \in Messages, Followup(n) \/ Steer(n) \/ Inject(n) \/ Prepend(n)
      PROVE  fate'[m] = fate[m] \/ (fate[m] = "unsent" /\ fate'[m] \in Waiting)
  <2>1. "pending" \in Waiting
    BY DEF Waiting
  <2> QED BY <1>0, <1>6, <2>1, SendKeeps, PrependKeeps
<1>7. ASSUME NEW n \in Messages, Withdraw(n)
      PROVE  \/ fate'[m] = fate[m]
             \/ fate[m] \in Waiting /\ fate'[m] = "canceled" /\ log'.droppedUnrun
  BY <1>0, <1>7, WithdrawKeeps
<1>8. ASSUME NEW n \in Messages, SteerQueued(n)
      PROVE  fate'[m] = fate[m] \/ (fate[m] \in Waiting /\ fate'[m] \in Waiting)
  BY <1>0, <1>8, SteerKeeps
<1>9. ASSUME NEW n \in Messages, NEW k \in Messages, Edit(n, k)
      PROVE  \/ fate'[m] = fate[m]
             \/ fate[m] = "unsent" /\ fate'[m] \in Waiting
             \/ fate[m] \in Waiting /\ fate'[m] = "canceled" /\ Edit(m, k)
  BY <1>0, <1>9, EditKeeps
<1> QED BY <1>1, <1>2, <1>3, <1>4, <1>5, <1>6, <1>7, <1>8, <1>9, Moves

\* Once the signal is aborted no step opens, and a message enters none but the one
\* that was opening (the looks at the signal in turn(), step() and preStep()).
THEOREM AbortedEntersNothing == Spec => NothingEntersAborted
<1>1. Inv /\ [Next]_vars => [AbortedStep]_vars
  <2> SUFFICES ASSUME Inv, [Next]_vars, Aborted PROVE AbortedStep
    BY DEF AbortedStep
  <2>1. log'.openStep \in {0, log.openStep}
    BY TurnStep DEF TurnMoves
  <2>2. ASSUME NEW m \in Messages, fate'[m] = "entered", fate[m] # "entered"
        PROVE  pc = "opening" /\ log.openStep = step
    <3>1. "entered" \notin Waiting
      BY DEF Waiting
    <3>2. pc = "opening"
      BY <2>2, <3>1, FateMoves
    <3> QED BY <3>2 DEF Inv, TurnInv
  <2> QED BY <2>1, <2>2 DEF AbortedStep
<1> QED BY <1>1, Invariance, PTL DEF Spec, NothingEntersAborted, AbortedStep

\* The step of SettledForGood.
SettledStep ==
  \A m \in Messages :
    fate[m] \in {"entered", "omitted", "canceled", "discarded"} => fate'[m] = fate[m]

\* Canceled, discarded and omitted messages never run and entered ones run once
\* (no handler puts a settled message back into the inbox).
THEOREM FatesAreSettled == Spec => SettledForGood
<1>1. Inv /\ [Next]_vars => [SettledStep]_vars
  BY FateMoves DEF SettledStep, Waiting
<1> QED BY <1>1, Invariance, PTL DEF Spec, SettledForGood, SettledStep

\* The step of WorkAccounted.
AccountedStep ==
  \A m \in Messages :
    /\ fate[m] = "claimed" /\ fate'[m] = "discarded" =>
         log'.end[1] = turn /\ log'.end[2] # "completed"
    /\ fate[m] \in Waiting /\ fate'[m] = "canceled" =>
         log'.droppedUnrun \/ \E n \in Messages : Edit(m, n)

\* Input a turn took and never showed to the model is in that turn's accounting
\* ending; input a cancellation drops is reported (foldConsumedWork).
THEOREM WorkIsAccounted == Spec => WorkAccounted
<1>1. Inv /\ [Next]_vars => [AccountedStep]_vars
  <2> SUFFICES ASSUME Inv, [Next]_vars, NEW m \in Messages
               PROVE  /\ fate[m] = "claimed" /\ fate'[m] = "discarded" =>
                           log'.end[1] = turn /\ log'.end[2] # "completed"
                      /\ fate[m] \in Waiting /\ fate'[m] = "canceled" =>
                           log'.droppedUnrun \/ \E n \in Messages : Edit(m, n)
    BY DEF AccountedStep
  <2>1. \A x \in Waiting : x # "discarded" /\ x # "canceled" /\ x # "claimed"
    BY DEF Waiting
  <2> QED BY <2>1, FateMoves
<1> QED BY <1>1, Invariance, PTL DEF Spec, WorkAccounted, AccountedStep

\* The step of OnePromptPerTurn.
PromptStep ==
  Len(nextTurn') < Len(nextTurn) =>
    \/ \A m \in ToSet(nextTurn) \ ToSet(nextTurn') :
         fate'[m] = "canceled" \/ m \in ToSet(nextStep')
    \/ nextTurn' = Tail(nextTurn) /\ step = 0 /\ log.claimed = FALSE
         /\ log.open = turn

\* A turn carries at most one queued prompt (preStep claims next-turn input only
\* where the turn has not stepped yet).
THEOREM TurnsCarryOnePrompt == Spec => OnePromptPerTurn
<1>1. Inv /\ [Next]_vars => [PromptStep]_vars
  <2> SUFFICES ASSUME Inv, [Next]_vars, Len(nextTurn') < Len(nextTurn)
               PROVE  PromptStep
    BY DEF PromptStep
  <2>0. /\ QueueTypes /\ PlaceInv /\ TurnInv /\ fate \in [Messages -> Fate]
        /\ Len(nextTurn) \in Nat /\ ToSet(nextTurn) \subseteq Messages
        /\ nextTurn' # nextTurn /\ Len(nextTurn') # Len(nextTurn)
    <3>1. QueueTypes /\ PlaceInv /\ TurnInv
      BY TypeParts DEF Inv
    <3>2. Len(nextTurn) \in Nat /\ ToSet(nextTurn) \subseteq Messages
      BY <3>1, Members DEF QueueTypes
    <3>3. Len(nextTurn') # Len(nextTurn)
      BY <3>2
    <3> QED BY <3>1, <3>2, <3>3 DEF QueueTypes
  <2>1. ~Quiet /\ ~Settling /\ ~\E S \in SUBSET ToSet(batch) : Accept(S) \/ Restore(S)
    BY <2>0 DEF Quiet, Settling, Accept, Restore, inbox
  <2>2. CASE Claiming
    <3>1. nextTurn' = Tail(nextTurn) /\ target = "next-turn"
      BY <2>0, <2>2, PromptTaken DEF Claiming, PlaceInv
    <3>2. pc = "opened"
      BY <2>0, <2>2, <3>1 DEF Claiming, TurnInv
    <3>3. step = 0 /\ log.claimed = FALSE /\ log.open = turn
      BY <2>0, <3>2 DEF TurnInv, InTurn, QueueTypes, Ledger
    <3> QED BY <3>1, <3>3 DEF PromptStep
  <2>3. CASE Clearing
    <3>1. "canceled" \in Fate /\ fate' = Becomes(Pending, "canceled")
      BY <2>3 DEF Fate, Clearing
    <3>2. \A m \in ToSet(nextTurn) : fate'[m] = "canceled"
      BY <2>0, <3>1, FatesAt DEF Pending
    <3> QED BY <3>2 DEF PromptStep
  <2>4. ASSUME NEW m \in Messages, Followup(m) \/ Steer(m) \/ Inject(m) \/ Prepend(m)
        PROVE  PromptStep
    <3>1. CASE Prepend(m)
      BY <2>0, <3>1 DEF Prepend
    <3>2. CASE ~Prepend(m)
      <4>1. PICK where, wakeup : Insert(m, where, wakeup, nextTurn)
        BY <2>4, <3>2 DEF Followup, Steer, Inject, Send
      <4>2. nextTurn' = Append(nextTurn, m)
        BY <2>0, <4>1 DEF Insert
      <4>3. Len(nextTurn') = Len(nextTurn) + 1
        BY <2>0, <4>2, Appended DEF QueueTypes
      <4> QED BY <2>0, <4>3
    <3> QED BY <3>1, <3>2
  <2>5. ASSUME NEW m \in Messages, Withdraw(m) PROVE PromptStep
    <3>1. fate'[m] = "canceled" /\ ToSet(nextTurn') = ToSet(nextTurn) \ {m}
      BY <2>0, <2>5, WithdrawKeeps
    <3> QED BY <3>1 DEF PromptStep
  <2>6. ASSUME NEW m \in Messages, SteerQueued(m) PROVE PromptStep
    <3>1. m \in ToSet(nextStep')
      BY <2>0, <2>6, SteerKeeps
    <3>2. \/ nextTurn' = Append(Without(nextTurn, m), m)
          \/ nextTurn' = Without(nextTurn, m)
      BY <2>6 DEF SteerQueued, Insert
    <3>3. /\ Without(nextTurn, m) \in Seq(Messages)
          /\ ToSet(Without(nextTurn, m)) = ToSet(nextTurn) \ {m}
      <4>1. nextTurn \in Seq(Messages) /\ IsInjective(nextTurn)
        BY <2>0 DEF QueueTypes, PlaceInv
      <4> QED BY <4>1, Removed
    <3>4. ToSet(nextTurn) \ ToSet(nextTurn') \subseteq {m}
      <4> DEFINE prompts == Without(nextTurn, m)
      <4>1. ToSet(Append(prompts, m)) = ToSet(prompts) \cup {m}
        BY <3>3, Appended
      <4>2. ToSet(nextTurn') = ToSet(prompts) \/ ToSet(nextTurn') = ToSet(prompts) \cup {m}
        BY <3>2, <4>1
      <4> QED BY <3>3, <4>2
    <3> QED BY <3>1, <3>4 DEF PromptStep
  <2>7. ASSUME NEW m \in Messages, NEW n \in Messages, Edit(m, n) PROVE PromptStep
    BY <2>0, <2>7, EditKeeps
  <2> QED BY <2>1, <2>2, <2>3, <2>4, <2>5, <2>6, <2>7, Moves
<1> QED BY <1>1, Invariance, PTL DEF Spec, OnePromptPerTurn, PromptStep
=============================================================================
