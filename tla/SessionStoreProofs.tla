--------------------------- MODULE SessionStoreProofs ---------------------------
(***************************************************************************)
(* Proofs about SessionStore, for any number of callers, calls, failing    *)
(* writes, crashes, evictions and dropped calls: what a caller was told is *)
(* stored can be read back, the file implements the abstract log, and it   *)
(* is one log with the view in memory as long as no handle is evicted and  *)
(* no call is dropped.  And about SessionIndex: what the index says of the *)
(* files is true, for any number of files, writes, repairs and faults.     *)
(*                                                                         *)
(* The argument is about sets of entries.  Every entry the recorder holds  *)
(* has an id of its own, so filtering a batch against the ids on file      *)
(* leaves out exactly the entries that are there; and every parent is on   *)
(* file or earlier in the same recorder, so no prefix of a batch can put a *)
(* child before its parent.  Where the order of the log matters as well,   *)
(* positions take the place of sets: the readable file lies between the    *)
(* view and the view followed by what the recorder holds, and what a write *)
(* adds to it is what of the recorder's batch lies past its end.           *)
(***************************************************************************)
EXTENDS SessionStore, SessionIndex, TLAPS, WellFoundedInduction, SequenceTheorems, FiniteSetTheorems

-----------------------------------------------------------------------------
(* Induction up to a bound, from the well-foundedness of < on Nat *)

LessThan == {ss \in Nat \X Nat : ss[1] < ss[2]}

LEMMA LessThanIsWellFounded == IsWellFoundedOn(LessThan, Nat)
BY NatLessThanWellFounded DEF LessThan, OpToRel

LEMMA InductionUpTo ==
  ASSUME NEW m \in Nat, NEW T,
         0 \in T,
         \A n \in 0..m : n < m /\ n \in T => n + 1 \in T
  PROVE  \A n \in 0..m : n \in T
<1> DEFINE missing == {n \in 0..m : n \notin T}
<1> SUFFICES ASSUME missing # {} PROVE FALSE
  OBVIOUS
<1>1. missing \subseteq Nat
  OBVIOUS
<1>2. PICK x \in missing : \A y \in missing : ~(<<y, x>> \in LessThan)
  BY <1>1, LessThanIsWellFounded, WFMin
<1>3. x \in 1..m
  BY <1>2
<1>4. x - 1 \in 0..m /\ x - 1 < m /\ (x - 1) + 1 = x
  BY <1>3
<1>5. x - 1 \notin T
  BY <1>2, <1>4
<1>6. x - 1 \in missing /\ <<x - 1, x>> \in LessThan
  BY <1>3, <1>4, <1>5 DEF LessThan
<1> QED BY <1>2, <1>6

Filters(f, w, known, m) ==
  /\ f[0] = <<>>
  /\ \A n \in 1..m : f[n] = IF w[n].id \in IdsOf(known) THEN f[n - 1]
                            ELSE Append(f[n - 1], w[n])

LEMMA FilterExists ==
  ASSUME NEW w \in Seq(Entry), NEW known
  PROVE  \E f \in [0..Len(w) -> Seq(Entry)] : Filters(f, w, known, Len(w))
<1> DEFINE T == {m \in 0..Len(w) : \E f \in [0..m -> Seq(Entry)] : Filters(f, w, known, m)}
<1>1. 0 \in T
  <2>1. [n \in 0..0 |-> <<>>] \in [0..0 -> Seq(Entry)]
    OBVIOUS
  <2>2. Filters([n \in 0..0 |-> <<>>], w, known, 0)
    BY DEF Filters
  <2> QED BY <2>1, <2>2
<1>2. ASSUME NEW m \in 0..Len(w), m < Len(w), m \in T PROVE m + 1 \in T
  <2>1. PICK f \in [0..m -> Seq(Entry)] : Filters(f, w, known, m)
    BY <1>2
  <2> DEFINE more == IF w[m + 1].id \in IdsOf(known) THEN f[m] ELSE Append(f[m], w[m + 1])
             g == [n \in 0..(m + 1) |-> IF n = m + 1 THEN more ELSE f[n]]
  <2>2. f[m] \in Seq(Entry) /\ w[m + 1] \in Entry
    BY <2>1, <1>2
  <2>3. more \in Seq(Entry)
    BY <2>2
  <2>4. g \in [0..(m + 1) -> Seq(Entry)]
    BY <2>1, <2>3
  <2>5. Filters(g, w, known, m + 1)
    <3>1. g[0] = <<>>
      BY <2>1, <1>2 DEF Filters
    <3>2. ASSUME NEW n \in 1..(m + 1)
          PROVE g[n] = IF w[n].id \in IdsOf(known) THEN g[n - 1] ELSE Append(g[n - 1], w[n])
      <4>1. CASE n = m + 1
        <5>1. g[n] = more /\ g[n - 1] = f[m]
          BY <4>1, <1>2
        <5> QED BY <5>1, <4>1
      <4>2. CASE n # m + 1
        <5>1. n \in 1..m /\ g[n] = f[n] /\ g[n - 1] = f[n - 1]
          BY <4>2, <1>2
        <5> QED BY <5>1, <2>1 DEF Filters
      <4> QED BY <4>1, <4>2
    <3> HIDE DEF g
    <3> QED BY <3>1, <3>2 DEF Filters
  <2>6. m + 1 \in 0..Len(w)
    BY <1>2
  <2> QED BY <2>4, <2>5, <2>6
<1>3. Len(w) \in Nat /\ Len(w) \in 0..Len(w)
  OBVIOUS
<1> HIDE DEF T
<1>4. Len(w) \in T
  BY <1>1, <1>2, <1>3, InductionUpTo
<1> QED BY <1>4 DEF T

LEMMA NewIsFilter ==
  ASSUME NEW w \in Seq(Entry), NEW known
  PROVE  \E f \in [0..Len(w) -> Seq(Entry)] :
           Filters(f, w, known, Len(w)) /\ New(w, known) = f[Len(w)]
<1> DEFINE Step(f, n) == IF n = 0 THEN <<>>
                         ELSE IF w[n].id \in IdsOf(known) THEN f[n - 1]
                         ELSE Append(f[n - 1], w[n])
           IsKept(f) == f = [n \in 0..Len(w) |-> Step(f, n)]
           kept == CHOOSE f : IsKept(f)
<1>0. Len(w) \in Nat
  OBVIOUS
<1>1. \E f : IsKept(f)
  <2>1. PICK f \in [0..Len(w) -> Seq(Entry)] : Filters(f, w, known, Len(w))
    BY FilterExists
  <2>2. \A n \in 0..Len(w) : f[n] = Step(f, n)
    <3>1. f[0] = Step(f, 0)
      BY <2>1 DEF Filters
    <3>2. \A n \in 1..Len(w) : f[n] = Step(f, n)
      BY <2>1 DEF Filters
    <3> HIDE DEF Step
    <3> QED BY <1>0, <3>1, <3>2
  <2>3. IsKept(f)
    BY <2>1, <2>2
  <2> QED BY <2>3
<1>2. IsKept(kept)
  BY <1>1
<1>3. New(w, known) = kept[Len(w)]
  BY DEF New
<1> HIDE DEF kept
<1>a. \A n \in 0..Len(w) : kept[n] = Step(kept, n)
  BY <1>2
<1>b. kept[0] = <<>>
  BY <1>0, <1>a
<1>c. \A n \in 1..Len(w) : kept[n] = IF w[n].id \in IdsOf(known) THEN kept[n - 1]
                                        ELSE Append(kept[n - 1], w[n])
  BY <1>0, <1>a
<1>4. Filters(kept, w, known, Len(w))
  BY <1>b, <1>c DEF Filters
<1>5. \A n \in 0..Len(w) : kept[n] \in Seq(Entry)
  <2> DEFINE T == {n \in 0..Len(w) : kept[n] \in Seq(Entry)}
  <2>1. 0 \in T
    <3>1. 0 \in 0..Len(w)
      BY <1>0
    <3>2. kept[0] \in Seq(Entry)
      BY <1>b
    <3> QED BY <3>1, <3>2
  <2>2. ASSUME NEW n \in 0..Len(w), n < Len(w), n \in T PROVE n + 1 \in T
    <3>1. n + 1 \in 1..Len(w) /\ (n + 1) - 1 = n /\ kept[n] \in Seq(Entry) /\ w[n + 1] \in Entry
      BY <1>0, <2>2
    <3>3. n + 1 \in 0..Len(w)
      BY <1>0, <2>2
    <3>2. kept[n + 1] = IF w[n + 1].id \in IdsOf(known) THEN kept[n] ELSE Append(kept[n], w[n + 1])
      BY <3>1, <1>4 DEF Filters
    <3>4. kept[n + 1] \in Seq(Entry)
      BY <3>1, <3>2
    <3> QED BY <3>3, <3>4
  <2> HIDE DEF T
  <2>3. \A n \in 0..Len(w) : n \in T
    BY <1>0, <2>1, <2>2, InductionUpTo
  <2> QED BY <2>3 DEF T
<1>6. kept \in [0..Len(w) -> Seq(Entry)]
  BY <1>2, <1>5
<1> QED BY <1>3, <1>4, <1>6

\* What the filter keeps, and in which order
InOrder(f, w, known, n) ==
  /\ \A j \in 1..Len(f) : \E i \in 1..n :
       /\ f[j] = w[i]
       /\ \A a \in 1..(i - 1) : w[a].id \in IdsOf(known) \/ \E b \in 1..(j - 1) : f[b] = w[a]
  /\ \A i \in 1..n : w[i].id \in IdsOf(known) \/ \E j \in 1..Len(f) : f[j] = w[i]

LEMMA NewKeepsOrder ==
  ASSUME NEW w \in Seq(Entry), NEW known
  PROVE  New(w, known) \in Seq(Entry) /\ InOrder(New(w, known), w, known, Len(w))
<1>0. Len(w) \in Nat
  OBVIOUS
<1>1. PICK f \in [0..Len(w) -> Seq(Entry)] :
           Filters(f, w, known, Len(w)) /\ New(w, known) = f[Len(w)]
  BY NewIsFilter
<1> DEFINE T == {n \in 0..Len(w) : InOrder(f[n], w, known, n)}
<1>2. 0 \in T
  <2>1. f[0] = <<>> /\ 0 \in 0..Len(w)
    BY <1>0, <1>1 DEF Filters
  <2>2. InOrder(<<>>, w, known, 0)
    BY DEF InOrder
  <2> QED BY <2>1, <2>2
<1>3. ASSUME NEW n \in 0..Len(w), n < Len(w), n \in T PROVE n + 1 \in T
  <2>1. /\ n + 1 \in 1..Len(w) /\ n + 1 \in 0..Len(w) /\ (n + 1) - 1 = n
        /\ f[n] \in Seq(Entry) /\ w[n + 1] \in Entry /\ n \in Nat
    BY <1>0, <1>1, <1>3
  <2>2. f[n + 1] = IF w[n + 1].id \in IdsOf(known) THEN f[n] ELSE Append(f[n], w[n + 1])
    BY <1>1, <2>1 DEF Filters
  <2>3. InOrder(f[n], w, known, n)
    BY <1>3
  <2> DEFINE s == f[n]
  <2>4. s \in Seq(Entry) /\ Len(s) \in Nat
    BY <2>1
  <2>5. InOrder(f[n + 1], w, known, n + 1)
    <3> HIDE DEF s
    <3>1. CASE w[n + 1].id \in IdsOf(known)
      <4>1. f[n + 1] = s
        BY <2>2, <3>1 DEF s
      <4>2. InOrder(s, w, known, n)
        BY <2>3 DEF s
      <4>3. InOrder(s, w, known, n + 1)
        BY <2>1, <3>1, <4>2 DEF InOrder
      <4> QED BY <4>1, <4>3
    <3>2. CASE w[n + 1].id \notin IdsOf(known)
      <4> DEFINE t == Append(s, w[n + 1])
      <4>1. f[n + 1] = t
        BY <2>2, <3>2 DEF s
      <4>2. InOrder(s, w, known, n)
        BY <2>3 DEF s
      <4>3. /\ Len(t) = Len(s) + 1 /\ t[Len(s) + 1] = w[n + 1]
            /\ \A j \in 1..Len(s) : t[j] = s[j]
        BY <2>1, <2>4
      <4> HIDE DEF t
      <4>4. ASSUME NEW j \in 1..Len(t)
            PROVE  \E i \in 1..(n + 1) :
                     /\ t[j] = w[i]
                     /\ \A a \in 1..(i - 1) :
                          w[a].id \in IdsOf(known) \/ \E b \in 1..(j - 1) : t[b] = w[a]
        <5>1. CASE j = Len(s) + 1
          <6>1. n + 1 \in 1..(n + 1) /\ t[j] = w[n + 1]
            BY <2>1, <4>3, <5>1
          <6>2. \A a \in 1..n : w[a].id \in IdsOf(known) \/ \E b \in 1..Len(s) : t[b] = w[a]
            BY <4>2, <4>3 DEF InOrder
          <6>3. (n + 1) - 1 = n /\ j - 1 = Len(s)
            BY <2>1, <2>4, <5>1
          <6> QED BY <6>1, <6>2, <6>3
        <5>2. CASE j # Len(s) + 1
          <6>1. j \in 1..Len(s)
            BY <2>4, <4>3, <5>2
          <6>2. PICK i \in 1..n :
                  /\ s[j] = w[i]
                  /\ \A a \in 1..(i - 1) :
                       w[a].id \in IdsOf(known) \/ \E b \in 1..(j - 1) : s[b] = w[a]
            BY <4>2, <6>1 DEF InOrder
          <6>3. \A b \in 1..(j - 1) : t[b] = s[b]
            BY <2>4, <4>3, <6>1
          <6>4. i \in 1..(n + 1) /\ t[j] = w[i]
            BY <2>1, <4>3, <6>1, <6>2
          <6> QED BY <6>2, <6>3, <6>4
        <5> QED BY <5>1, <5>2
      <4>5. ASSUME NEW i \in 1..(n + 1)
            PROVE  w[i].id \in IdsOf(known) \/ \E j \in 1..Len(t) : t[j] = w[i]
        <5>1. CASE i = n + 1
          BY <2>4, <4>3, <5>1
        <5>2. CASE i # n + 1
          <6>1. i \in 1..n
            BY <2>1, <5>2
          <6>2. w[i].id \in IdsOf(known) \/ \E j \in 1..Len(s) : s[j] = w[i]
            BY <4>2, <6>1 DEF InOrder
          <6> QED BY <2>4, <4>3, <6>2
        <5> QED BY <5>1, <5>2
      <4>6. InOrder(t, w, known, n + 1)
        BY <4>4, <4>5 DEF InOrder
      <4> QED BY <4>1, <4>6
    <3> QED BY <3>1, <3>2
  <2> QED BY <2>1, <2>5
<1> HIDE DEF T
<1>4. \A n \in 0..Len(w) : n \in T
  BY <1>0, <1>2, <1>3, InductionUpTo
<1>5. Len(w) \in 0..Len(w)
  BY <1>0
<1>6. InOrder(f[Len(w)], w, known, Len(w))
  BY <1>4, <1>5 DEF T
<1> QED BY <1>1, <1>5, <1>6

-----------------------------------------------------------------------------
(* The inductive invariant *)

Opened == 1..consumed.handles
Busy == {"register", "lock", "recover", "write", "flush", "index"}

StartsWell(entries) == entries # <<>> => entries[1] = Header

(* What is true of the file in every state, glued or not. *)
FileOK(l, t, g) ==
  /\ l \in Seq(Entry) /\ t \in {Clean, Torn} \cup Entry /\ g \in BOOLEAN
  /\ StartsWell(l) /\ (l = <<>> => t = Clean)

FileInv == FileOK(lines, tail, glued) /\ (consumed.handles > 0 => lines # <<>>)

HandleTypes ==
  /\ view \in [Handles -> Seq(Entry)]
  /\ pendingState \in [Handles -> Seq(Entry)] /\ buffered \in [Handles -> Seq(Entry)]

TypeInv ==
  /\ indexed \in Nat
  /\ holder \in [Handles -> Callers \cup {Nobody}]
  /\ pc \in [Callers -> {"idle", "register", "load", "insert", "lock", "recover",
                         "write", "flush", "index"}]
  /\ op \in [Callers -> Kinds]
  /\ held \in [Callers -> Handles \cup {Nobody}]
  /\ loaded \in [Callers -> Seq(Entry)] /\ mine \in [Callers -> SUBSET Entry]
  /\ \A c \in Callers : IsFiniteSet(mine[c])
  /\ acked \in SUBSET Entry

Counters == [entries : Nat, calls : Nat, handles : Nat, failures : Nat,
             crashes : Nat, evictions : Nat, drops : Nat]

CountersInv ==
  /\ consumed \in Counters
  /\ consumed.crashes <= MaxCrashes /\ consumed.evictions <= MaxEvictions
  /\ consumed.handles > 0 => consumed.entries > 0
  /\ indexed > 0 => consumed.handles > 0
  /\ consumed.entries = 0 =>
       /\ ~glued /\ lines = <<>> /\ \A c \in Callers : pc[c] = "idle"
       /\ \A h \in Handles : pendingState[h] = <<>> /\ buffered[h] = <<>>

(* A handle that was opened starts with the header; handles after the first *)
(* are only opened when an eviction or a crash made room.                   *)
HandlesInv ==
  /\ mapped \in Opened \cup {Nobody} /\ closing \subseteq Opened
  /\ \A h \in Opened : view[h] # <<>>
  /\ \A h \in Handles : StartsWell(view[h])
  /\ consumed.handles <= 1 + consumed.crashes + consumed.evictions
  /\ mapped = Nobody /\ consumed.handles > 0 /\ (\A c \in Callers : pc[c] # "register")
       => consumed.handles <= consumed.crashes + consumed.evictions

(* Where a call stands and what it has in hand.                             *)
CallerInv ==
  \A c \in Callers :
    /\ held[c] \in Opened \cup {Nobody}
    /\ pc[c] \in Busy => held[c] # Nobody
    /\ pc[c] \in {"recover", "write"} => op[c] \in {"append", "append two", "leaf"}
    /\ StartsWell(loaded[c]) /\ (pc[c] = "insert" => loaded[c] # <<>>)
    /\ pc[c] \in {"load", "insert"} => consumed.handles > 0
    /\ pc[c] = "register" =>
         /\ mapped = Nobody /\ indexed = 0 /\ closing = {} /\ consumed.handles = 1
         /\ \A d \in Callers \ {c} : pc[d] = "idle"

Grounded(s) ==
  \A i \in DOMAIN s : s[i].parent = 0 \/ \E j \in 1..(i - 1) : s[j].id = s[i].parent
GroundedOn(file, w) ==
  \A i \in DOMAIN w : \/ w[i].parent \in IdsOf(file) \cup {0}
                      \/ \E j \in 1..(i - 1) : w[j].id = w[i].parent
TargetsIn(file, w) == \A i \in DOMAIN w : w[i].target \in IdsOf(file) \cup {0}

HandleData(file, v, p, b) ==
  /\ ToSet(v) \subseteq ToSet(file)
  /\ ToSet(p) \subseteq ToSet(file) \cup ToSet(b)
  /\ GroundedOn(file, b) /\ TargetsIn(file, b)

Known == ToSet(OnFile) \cup UNION {ToSet(buffered[h]) : h \in Handles}

DataOK ==
  /\ Grounded(OnFile) /\ TargetsIn(OnFile, OnFile)
  /\ \A h \in Handles : HandleData(OnFile, view[h], pendingState[h], buffered[h])
  /\ \A c \in Callers : ToSet(loaded[c]) \cup mine[c] \subseteq ToSet(OnFile)
  /\ acked \subseteq ToSet(OnFile)
  /\ \A x, y \in Known : x.id = y.id => x = y
  /\ \A x \in Known : x.id <= consumed.entries

Control == FileInv /\ HandleTypes /\ TypeInv /\ CountersInv /\ HandlesInv /\ CallerInv

IInv == Control /\ (~glued => DataOK)

-----------------------------------------------------------------------------
(* What a write does to the file *)

LEMMA EntryShape ==
  /\ Clean \notin Entry /\ Torn \notin Entry /\ Clean # Torn /\ Header \in Entry
  /\ \A e \in Entry : e.id \in Nat \ {0} /\ e.parent \in Nat /\ e.target \in Nat
BY DEF Clean, Torn, NoLine, Header, Entry, Ids

LEMMA NewOfNothing ==
  ASSUME NEW known
  PROVE  New(<<>>, known) = <<>>
<1>1. <<>> \in Seq(Entry) /\ Len(<<>>) = 0
  OBVIOUS
<1>2. New(<<>>, known) \in Seq(Entry) /\ InOrder(New(<<>>, known), <<>>, known, 0)
  BY <1>1, NewKeepsOrder
<1> DEFINE s == New(<<>>, known)
<1>3. Len(s) \in Nat /\ (Len(s) # 0 => 1 \in 1..Len(s))
  BY <1>2
<1>4. \A j \in 1..Len(s) : \E i \in 1..0 : TRUE
  BY <1>2 DEF InOrder
<1>5. Len(s) = 0
  BY <1>3, <1>4
<1> QED BY <1>2, <1>5

(* r is l, followed by what of w is new to it.                               *)
Appends(r, l, w) ==
  /\ r \in Seq(Entry)
  /\ Len(l) <= Len(r) /\ \A i \in 1..Len(l) : r[i] = l[i]
  /\ ToSet(l) \subseteq ToSet(r) /\ ToSet(r) \subseteq ToSet(l) \cup ToSet(w)
  /\ IdsOf(r) = IdsOf(l) \cup IdsOf(w)
  /\ Grounded(l) /\ GroundedOn(l, w) => Grounded(r)

LEMMA AppendedFile ==
  ASSUME NEW l \in Seq(Entry), NEW w \in Seq(Entry),
         NEW r, r = l \o New(w, l)
  PROVE  Appends(r, l, w)
<1> DEFINE N == New(w, l)
<1>1. N \in Seq(Entry) /\ InOrder(N, w, l, Len(w))
  BY NewKeepsOrder
<1>2. r = l \o N
  OBVIOUS
<1> HIDE DEF N
<1>3. /\ r \in Seq(Entry) /\ Len(r) = Len(l) + Len(N)
      /\ Len(l) \in Nat /\ Len(N) \in Nat /\ Len(w) \in Nat
      /\ \A i \in 1..Len(l) : r[i] = l[i]
      /\ \A j \in 1..Len(N) : r[Len(l) + j] = N[j]
  BY <1>1, <1>2
<1>4. DOMAIN r = 1..Len(r) /\ DOMAIN l = 1..Len(l) /\ DOMAIN w = 1..Len(w)
  BY <1>3
<1>5. \A j \in 1..Len(N) : \E i \in 1..Len(w) : N[j] = w[i]
  BY <1>1 DEF InOrder
<1>6. \A i \in 1..Len(w) : w[i].id \in IdsOf(l) \/ \E j \in 1..Len(N) : N[j] = w[i]
  BY <1>1 DEF InOrder
<1>7. \A k \in 1..Len(r) : k \in 1..Len(l) \/ \E j \in 1..Len(N) : k = Len(l) + j
  <2> TAKE k \in 1..Len(r)
  <2>1. k \in 1..Len(l) \/ (k - Len(l) \in 1..Len(N) /\ k = Len(l) + (k - Len(l)))
    BY <1>3
  <2> QED BY <2>1
<1>8. \A j \in 1..Len(N) : Len(l) + j \in 1..Len(r)
  BY <1>3
<1>9. 1..Len(l) \subseteq 1..Len(r)
  BY <1>3
<1>10. \A k \in 1..Len(r) : (\E i \in 1..Len(l) : r[k] = l[i])
                              \/ (\E i \in 1..Len(w) : r[k] = w[i])
  <2> TAKE k \in 1..Len(r)
  <2>1. CASE k \in 1..Len(l)
    BY <1>3, <2>1
  <2>2. ASSUME NEW j \in 1..Len(N), k = Len(l) + j PROVE \E i \in 1..Len(w) : r[k] = w[i]
    BY <1>3, <1>5, <2>2
  <2> QED BY <1>7, <2>1, <2>2
<1>13. ToSet(l) \subseteq ToSet(r) /\ ToSet(r) \subseteq ToSet(l) \cup ToSet(w)
  <2>1. ToSet(l) \subseteq ToSet(r)
    BY <1>3, <1>4, <1>9 DEF ToSet
  <2>2. ToSet(r) \subseteq ToSet(l) \cup ToSet(w)
    BY <1>4, <1>10 DEF ToSet
  <2> QED BY <2>1, <2>2
<1>11. IdsOf(r) = IdsOf(l) \cup IdsOf(w)
  <2>1. IdsOf(r) \subseteq IdsOf(l) \cup IdsOf(w)
    BY <1>4, <1>10 DEF IdsOf
  <2>2. IdsOf(l) \subseteq IdsOf(r)
    BY <1>3, <1>4, <1>9 DEF IdsOf
  <2>3. ASSUME NEW i \in 1..Len(w) PROVE w[i].id \in IdsOf(r)
    <3>1. CASE w[i].id \in IdsOf(l)
      BY <3>1, <2>2
    <3>2. CASE \E j \in 1..Len(N) : N[j] = w[i]
      <4>1. PICK j \in 1..Len(N) : N[j] = w[i]
        BY <3>2
      <4> QED BY <4>1, <1>3, <1>4, <1>8, ZenonT(40) DEF IdsOf
    <3> QED BY <1>6, <3>1, <3>2
  <2>4. IdsOf(w) \subseteq IdsOf(r)
    BY <2>3, <1>4 DEF IdsOf
  <2> QED BY <2>1, <2>2, <2>4
<1>12. ASSUME Grounded(l), GroundedOn(l, w) PROVE Grounded(r)
  <2> SUFFICES ASSUME NEW k \in 1..Len(r), r[k].parent # 0
               PROVE  \E m \in 1..(k - 1) : r[m].id = r[k].parent
    BY <1>4 DEF Grounded
  <2>1. CASE k \in 1..Len(l)
    <3>1. PICK m \in 1..(k - 1) : l[m].id = l[k].parent
      BY <1>3, <1>4, <1>12, <2>1 DEF Grounded
    <3>2. m \in 1..Len(l)
      BY <1>3, <2>1
    <3> QED BY <1>3, <2>1, <3>1, <3>2
  <2>2. ASSUME NEW j \in 1..Len(N), k = Len(l) + j
        PROVE  \E m \in 1..(k - 1) : r[m].id = r[k].parent
    <3>1. PICK i \in 1..Len(w) :
            /\ N[j] = w[i]
            /\ \A a \in 1..(i - 1) : w[a].id \in IdsOf(l) \/ \E b \in 1..(j - 1) : N[b] = w[a]
      BY <1>1 DEF InOrder
    <3>2. r[k] = w[i]
      BY <1>3, <2>2, <3>1
    <3>3. ASSUME w[i].parent \in IdsOf(l)
          PROVE \E m \in 1..(k - 1) : r[m].id = r[k].parent
      <4>1. PICK m \in 1..Len(l) : l[m].id = w[i].parent
        BY <3>3, <1>4 DEF IdsOf
      <4>2. m \in 1..(k - 1) /\ r[m] = l[m]
        BY <1>3, <2>2, <4>1
      <4> QED BY <3>2, <4>1, <4>2
    <3>4. CASE \E a \in 1..(i - 1) : w[a].id = w[i].parent
      <4>1. PICK a \in 1..(i - 1) : w[a].id = w[i].parent
        BY <3>4
      <4>2. CASE w[a].id \in IdsOf(l)
        BY <3>3, <4>1, <4>2
      <4>3. CASE \E b \in 1..(j - 1) : N[b] = w[a]
        <5>1. PICK b \in 1..(j - 1) : N[b] = w[a]
          BY <4>3
        <5>2. b \in 1..Len(N) /\ Len(l) + b \in 1..(k - 1)
          BY <1>3, <2>2
        <5>3. r[Len(l) + b].id = r[k].parent
          BY <1>3, <3>2, <4>1, <5>1, <5>2
        <5> QED BY <5>2, <5>3
      <4> QED BY <3>1, <4>2, <4>3
    <3>5. w[i].parent \in IdsOf(l) \cup {0} \/ \E a \in 1..(i - 1) : w[a].id = w[i].parent
      BY <1>4, <1>12 DEF GroundedOn
    <3> QED BY <2>2, <3>2, <3>3, <3>4, <3>5
  <2> QED BY <1>7, <2>1, <2>2
<1> QED BY <1>3, <1>11, <1>12, <1>13 DEF Appends

(* A write keeps the type of the file and what it starts with, and a line   *)
(* that once joined another one is never forgotten.                         *)
LEMMA WrittenTypes ==
  ASSUME FileOK(lines, tail, glued), NEW batch \in Seq(Entry),
         StartsWell(IF lines = <<>> THEN batch ELSE <<>>),
         NEW n \in 0..Len(batch), NEW cut \in {Clean, Torn} \cup Entry,
         lines = <<>> => cut = Clean,
         Written(batch, n, cut)
  PROVE  /\ FileOK(lines', tail', glued')
         /\ glued => glued'
         /\ lines # <<>> => lines' # <<>>
         /\ lines = <<>> /\ n > 0 => lines' # <<>>
<1> DEFINE joins == tail # Clean /\ (n > 0 \/ cut # Clean)
           from == IF joins THEN 2 ELSE 1
           whole == SubSeq(batch, from, n)
<1>1. from \in {1, 2} /\ Len(batch) \in Nat /\ n \in Nat
  OBVIOUS
<1>2. whole \in Seq(Entry)
  <2>1. \A i \in from..n : batch[i] \in Entry
    BY <1>1
  <2>2. from \in 1..(Len(batch) + 1) \/ from > n
    BY <1>1
  <2> QED BY <1>1, <2>1, <2>2
<1>3. lines' = lines \o New(whole, lines)
  BY DEF Written
<1>4. tail' \in {tail, Torn, cut} /\ glued' = (glued \/ joins)
  BY DEF Written
<1> HIDE DEF whole, from
<1>5. /\ lines' \in Seq(Entry)
      /\ Len(lines) <= Len(lines') /\ \A i \in 1..Len(lines) : lines'[i] = lines[i]
  <2>1. lines \in Seq(Entry)
    BY DEF FileOK
  <2>2. Appends(lines', lines, whole)
    BY <1>2, <1>3, <2>1, AppendedFile
  <2> QED BY <2>2 DEF Appends
<1>6. CASE lines # <<>>
  <2>1. lines' # <<>> /\ lines'[1] = lines[1]
    BY <1>5, <1>6 DEF FileOK
  <2> QED BY <1>4, <1>5, <1>6, <2>1 DEF FileOK, StartsWell
<1>7. CASE lines = <<>>
  <2>1. tail = Clean /\ cut = Clean /\ ~joins
    BY <1>7 DEF FileOK
  <2>2. whole = SubSeq(batch, 1, n)
    BY <2>1 DEF whole, from
  <2>3. tail' = Clean
    BY <2>1 DEF Written
  <2>4. New(whole, lines) \in Seq(Entry) /\ InOrder(New(whole, lines), whole, lines, Len(whole))
    BY <1>2, NewKeepsOrder
  <2>5. lines' = New(whole, lines)
    BY <1>3, <1>7, <2>4
  <2>6. IdsOf(lines) = {}
    BY <1>7 DEF IdsOf
  <2>7. Len(whole) = n /\ \A i \in 1..n : whole[i] = batch[i]
    BY <1>1, <2>2
  <2>8. CASE n = 0
    <3>1. lines' = <<>>
      <4>1. whole = <<>>
        BY <2>2, <2>8
      <4> QED BY <2>5, <4>1, NewOfNothing
    <3> QED BY <1>4, <1>5, <1>7, <2>3, <2>8, <3>1 DEF FileOK, StartsWell
  <2>9. CASE n > 0
    <3>1. \E j \in 1..Len(lines') : lines'[j] = whole[1]
      <4>1. 1 \in 1..Len(whole)
        BY <1>1, <2>7, <2>9
      <4>2. whole[1].id \in {} \/ \E j \in 1..Len(lines') : lines'[j] = whole[1]
        BY <2>4, <2>5, <2>6, <4>1 DEF InOrder
      <4> QED BY <4>2
    <3>2. lines' # <<>> /\ 1 \in 1..Len(lines')
      BY <1>5, <3>1
    <3>3. PICK i \in 1..n : /\ lines'[1] = whole[i]
                            /\ \A a \in 1..(i - 1) : \E b \in 1..0 : TRUE
      BY <2>4, <2>5, <2>6, <2>7, <3>2 DEF InOrder
    <3>4. i = 1
      <4>1. i > 1 => 1 \in 1..(i - 1)
        BY <1>1
      <4> QED BY <1>1, <3>3, <4>1
    <3>5. lines'[1] = Header
      BY <1>7, <2>7, <2>9, <3>3, <3>4 DEF StartsWell
    <3> QED BY <1>4, <1>5, <1>7, <2>3, <3>2, <3>5 DEF FileOK, StartsWell
  <2> QED BY <1>1, <2>8, <2>9
<1> QED BY <1>6, <1>7

LEMMA CutsShape ==
  ASSUME NEW batch \in Seq(Entry), NEW n \in 0..Len(batch), NEW cut \in Cuts(batch, n)
  PROVE  /\ cut \in {Clean, Torn} \cup Entry
         /\ cut \notin {Clean, Torn} => n + 1 \in 1..Len(batch) /\ cut = batch[n + 1]
         /\ ~TornWrites => cut = Clean
BY DEF Cuts

(* As long as no line joined another one, a write appends entries of its    *)
(* batch, in order and each once, so that a grounded file stays grounded,   *)
(* and one that succeeds leaves every entry of the batch there.             *)
LEMMA FileGrows ==
  ASSUME FileOK(lines, tail, glued), NEW batch \in Seq(Entry),
         NEW n \in 0..Len(batch), NEW cut \in Cuts(batch, n),
         Written(batch, n, cut), ~glued',
         Grounded(OnFile), GroundedOn(OnFile, batch)
  PROVE  /\ OnFile \in Seq(Entry) /\ OnFile' \in Seq(Entry)
         /\ Len(OnFile) <= Len(OnFile') /\ \A i \in 1..Len(OnFile) : OnFile'[i] = OnFile[i]
         /\ ToSet(OnFile) \subseteq ToSet(OnFile')
         /\ ToSet(OnFile') \subseteq ToSet(OnFile) \cup ToSet(batch)
         /\ IdsOf(OnFile) \subseteq IdsOf(OnFile')
         /\ n = Len(batch) /\ cut = Clean => IdsOf(batch) \subseteq IdsOf(OnFile')
         /\ Grounded(OnFile')
<1> DEFINE joins == tail # Clean /\ (n > 0 \/ cut # Clean)
           whole == SubSeq(batch, 1, n)
<1>1. ~joins /\ n \in Nat /\ Len(batch) \in Nat /\ lines \in Seq(Entry)
  <2>1. glued' = (glued \/ joins)
    BY DEF Written
  <2>2. ~joins
    BY <2>1
  <2> QED BY <2>2 DEF FileOK
<1>2. whole \in Seq(Entry) /\ Len(whole) = n /\ \A i \in 1..n : whole[i] = batch[i] /\ i \in 1..Len(batch)
  BY <1>1
<1>3. lines' = lines \o New(whole, lines)
  BY <1>1 DEF Written
<1>4. DOMAIN batch = 1..Len(batch) /\ DOMAIN whole = 1..n
  BY <1>2
<1> HIDE DEF whole
<1>5. ToSet(whole) \subseteq ToSet(batch) /\ IdsOf(whole) \subseteq IdsOf(batch)
  BY <1>2, <1>4 DEF ToSet, IdsOf
<1>6. CASE tail # Clean
  <2>1. n = 0 /\ cut = Clean
    BY <1>1, <1>6
  <2>2. whole = <<>>
    BY <1>2, <2>1
  <2>3. lines' = lines
    BY <1>1, <1>3, <2>2, NewOfNothing
  <2>4. tail' = tail
    BY <2>1 DEF Written
  <2>5. OnFile' = OnFile
    BY <2>3, <2>4 DEF OnFile
  <2>6. n = Len(batch) => IdsOf(batch) = {}
    BY <1>4, <2>1 DEF IdsOf
  <2>7. OnFile \in Seq(Entry)
    <3>1. CASE tail = Torn
      BY <1>1, <3>1 DEF OnFile, Readable
    <3>2. CASE tail \in Entry
      <4>1. <<tail>> \in Seq(Entry) /\ tail # Clean /\ tail # Torn
        BY <3>2, EntryShape
      <4>2. OnFile = lines \o New(<<tail>>, lines)
        BY <4>1 DEF OnFile, Readable
      <4>3. Appends(OnFile, lines, <<tail>>)
        BY <1>1, <4>1, <4>2, AppendedFile
      <4> QED BY <4>3 DEF Appends
    <3> QED BY <1>6, <3>1, <3>2 DEF FileOK
  <2> QED BY <2>5, <2>6, <2>7
<1>7. CASE tail = Clean
  <2>1. OnFile = lines /\ tail' = cut
    BY <1>7 DEF OnFile, Readable, Written
  <2>2. GroundedOn(lines, whole)
    BY <1>2, <1>4, <2>1 DEF GroundedOn
  <2>3. /\ lines' \in Seq(Entry)
        /\ Len(lines) <= Len(lines') /\ \A i \in 1..Len(lines) : lines'[i] = lines[i]
        /\ ToSet(lines) \subseteq ToSet(lines') /\ ToSet(lines') \subseteq ToSet(lines) \cup ToSet(whole)
        /\ IdsOf(lines') = IdsOf(lines) \cup IdsOf(whole)
        /\ Grounded(lines')
    <3>1. Appends(lines', lines, whole)
      BY <1>1, <1>2, <1>3, AppendedFile
    <3>2. Grounded(lines)
      BY <1>1, <2>1
    <3> QED BY <3>1, <3>2, <2>2 DEF Appends
  <2>4. CASE cut \in {Clean, Torn}
    <3>1. OnFile' = lines'
      BY <2>1, <2>4 DEF OnFile, Readable
    <3>2. n = Len(batch) => IdsOf(batch) = IdsOf(whole)
      BY <1>2, <1>4 DEF IdsOf
    <3> QED BY <1>1, <1>5, <2>1, <2>3, <3>1, <3>2
  <2>5. CASE cut \notin {Clean, Torn}
    <3>1. cut \in Entry /\ n + 1 \in 1..Len(batch) /\ cut = batch[n + 1]
      BY <2>5, CutsShape
    <3> DEFINE one == <<cut>>
    <3>2. one \in Seq(Entry) /\ DOMAIN one = 1..1 /\ one[1] = cut
      BY <3>1
    <3>3. OnFile' = lines' \o New(one, lines')
      BY <2>1, <2>5 DEF OnFile, Readable
    <3> HIDE DEF one
    <3>4. GroundedOn(lines', one)
      <4>1. \/ cut.parent \in IdsOf(lines) \cup {0}
            \/ \E j \in 1..((n + 1) - 1) : batch[j].id = cut.parent
        BY <1>4, <2>1, <3>1 DEF GroundedOn
      <4>2. ASSUME NEW j \in 1..n, batch[j].id = cut.parent PROVE cut.parent \in IdsOf(whole)
        BY <1>2, <1>4, <4>2 DEF IdsOf
      <4>3. cut.parent \in IdsOf(lines') \cup {0}
        BY <1>1, <2>3, <4>1, <4>2
      <4> QED BY <3>2, <4>3 DEF GroundedOn
    <3>5. /\ OnFile' \in Seq(Entry)
          /\ Len(lines') <= Len(OnFile') /\ \A i \in 1..Len(lines') : OnFile'[i] = lines'[i]
          /\ ToSet(lines') \subseteq ToSet(OnFile') /\ ToSet(OnFile') \subseteq ToSet(lines') \cup ToSet(one)
          /\ IdsOf(OnFile') = IdsOf(lines') \cup IdsOf(one)
          /\ Grounded(OnFile')
      <4>1. lines' \in Seq(Entry) /\ Grounded(lines')
        BY <2>3
      <4> DEFINE old == lines'
                 new == OnFile'
      <4>2. old \in Seq(Entry) /\ Grounded(old) /\ GroundedOn(old, one) /\ new = old \o New(one, old)
        BY <4>1, <3>3, <3>4
      <4> HIDE DEF old, new
      <4>3. /\ new \in Seq(Entry)
            /\ Len(old) <= Len(new) /\ \A i \in 1..Len(old) : new[i] = old[i]
            /\ ToSet(old) \subseteq ToSet(new) /\ ToSet(new) \subseteq ToSet(old) \cup ToSet(one)
            /\ IdsOf(new) = IdsOf(old) \cup IdsOf(one)
            /\ Grounded(new)
        <5>1. Appends(new, old, one)
          BY <3>2, <4>2, AppendedFile
        <5> QED BY <5>1, <4>2 DEF Appends
      <4> QED BY <4>3 DEF old, new
    <3>6. ToSet(one) \subseteq ToSet(batch)
      BY <1>4, <3>1, <3>2 DEF ToSet
    <3>7. cut # Clean
      BY <2>5
    <3>8. Len(lines) \in Nat /\ Len(lines') \in Nat /\ Len(OnFile') \in Nat
      BY <1>1, <2>3, <3>5
    <3>9. Len(lines) <= Len(OnFile') /\ \A i \in 1..Len(lines) : OnFile'[i] = lines[i]
      BY <2>3, <3>5, <3>8
    <3> QED BY <1>1, <1>5, <2>1, <2>3, <3>5, <3>6, <3>7, <3>9
  <2> QED BY <2>4, <2>5
<1> QED BY <1>6, <1>7

-----------------------------------------------------------------------------
(* What the handles hold, against the file *)

(* What is true of a handle stays true while the file only gains entries.   *)
LEMMA HandleMonotone ==
  ASSUME NEW f, NEW f2, ToSet(f) \subseteq ToSet(f2), IdsOf(f) \subseteq IdsOf(f2),
         NEW v, NEW p, NEW b, HandleData(f, v, p, b)
  PROVE  HandleData(f2, v, p, b)
BY DEF HandleData, GroundedOn, TargetsIn

LEMMA ConcatParts ==
  ASSUME NEW s \in Seq(Entry), NEW t \in Seq(Entry)
  PROVE  /\ s \o t \in Seq(Entry) /\ Len(s \o t) = Len(s) + Len(t)
         /\ Len(s) \in Nat /\ Len(t) \in Nat
         /\ \A i \in 1..Len(s) : (s \o t)[i] = s[i]
         /\ \A i \in 1..Len(t) : (s \o t)[Len(s) + i] = t[i]
         /\ \A k \in 1..(Len(s) + Len(t)) :
              k \in 1..Len(s) \/ (k - Len(s) \in 1..Len(t) /\ (s \o t)[k] = t[k - Len(s)])
         /\ DOMAIN s = 1..Len(s) /\ DOMAIN t = 1..Len(t) /\ DOMAIN (s \o t) = 1..(Len(s) + Len(t))
OBVIOUS

LEMMA ConcatSets ==
  ASSUME NEW s \in Seq(Entry), NEW t \in Seq(Entry)
  PROVE  ToSet(s \o t) = ToSet(s) \cup ToSet(t) /\ IdsOf(s \o t) = IdsOf(s) \cup IdsOf(t)
<1> DEFINE u == s \o t
<1>1. /\ Len(s) \in Nat /\ Len(t) \in Nat
      /\ \A i \in 1..Len(s) : u[i] = s[i]
      /\ \A i \in 1..Len(t) : u[Len(s) + i] = t[i]
      /\ \A k \in 1..(Len(s) + Len(t)) :
           k \in 1..Len(s) \/ (k - Len(s) \in 1..Len(t) /\ u[k] = t[k - Len(s)])
      /\ DOMAIN s = 1..Len(s) /\ DOMAIN t = 1..Len(t) /\ DOMAIN u = 1..(Len(s) + Len(t))
  BY ConcatParts
<1> HIDE DEF u
<1>2. \A i \in 1..Len(s) : i \in 1..(Len(s) + Len(t))
  BY <1>1
<1>3. \A i \in 1..Len(t) : Len(s) + i \in 1..(Len(s) + Len(t))
  BY <1>1
<1>4. ToSet(u) = ToSet(s) \cup ToSet(t)
  <2>1. ToSet(s) \subseteq ToSet(u)
    BY <1>1, <1>2 DEF ToSet
  <2>2. ToSet(t) \subseteq ToSet(u)
    BY <1>1, <1>3 DEF ToSet
  <2>3. ToSet(u) \subseteq ToSet(s) \cup ToSet(t)
    BY <1>1 DEF ToSet
  <2> QED BY <2>1, <2>2, <2>3
<1>5. IdsOf(u) = IdsOf(s) \cup IdsOf(t)
  <2>1. IdsOf(s) \subseteq IdsOf(u)
    BY <1>1, <1>2 DEF IdsOf
  <2>2. IdsOf(t) \subseteq IdsOf(u)
    BY <1>1, <1>3 DEF IdsOf
  <2>3. ASSUME NEW k \in DOMAIN u PROVE u[k].id \in IdsOf(s) \cup IdsOf(t)
    <3>1. CASE k \in 1..Len(s)
      BY <1>1, <3>1 DEF IdsOf
    <3>2. CASE k \notin 1..Len(s)
      BY <1>1, <3>2 DEF IdsOf
    <3> QED BY <3>1, <3>2
  <2>4. IdsOf(u) \subseteq IdsOf(s) \cup IdsOf(t)
    BY <2>3 DEF IdsOf
  <2> QED BY <2>1, <2>2, <2>4
<1> QED BY <1>4, <1>5 DEF u

LEMMA IdsAndSets ==
  ASSUME NEW s
  PROVE  IdsOf(s) = {e.id : e \in ToSet(s)}
BY DEF IdsOf, ToSet

(* The entries that follow those a handle still holds.                      *)
LEMMA ConcatGrounds ==
  ASSUME NEW f, NEW b \in Seq(Entry), NEW new \in Seq(Entry),
         GroundedOn(f, b), TargetsIn(f, b), GroundedOn(f, new), TargetsIn(f, new)
  PROVE  GroundedOn(f, b \o new) /\ TargetsIn(f, b \o new)
<1> DEFINE u == b \o new
<1>1. /\ Len(b) \in Nat /\ Len(new) \in Nat
      /\ \A i \in 1..Len(b) : u[i] = b[i]
      /\ \A i \in 1..Len(new) : u[Len(b) + i] = new[i]
      /\ \A k \in 1..(Len(b) + Len(new)) :
           k \in 1..Len(b) \/ (k - Len(b) \in 1..Len(new) /\ u[k] = new[k - Len(b)])
      /\ DOMAIN b = 1..Len(b) /\ DOMAIN new = 1..Len(new) /\ DOMAIN u = 1..(Len(b) + Len(new))
  BY ConcatParts
<1> HIDE DEF u
<1>2. TargetsIn(f, u)
  <2> SUFFICES ASSUME NEW k \in 1..(Len(b) + Len(new)) PROVE u[k].target \in IdsOf(f) \cup {0}
    BY <1>1 DEF TargetsIn
  <2>1. CASE k \in 1..Len(b)
    BY <1>1, <2>1 DEF TargetsIn
  <2>2. CASE k - Len(b) \in 1..Len(new) /\ u[k] = new[k - Len(b)]
    BY <1>1, <2>2 DEF TargetsIn
  <2> QED BY <1>1, <2>1, <2>2
<1>3. GroundedOn(f, u)
  <2> SUFFICES ASSUME NEW k \in 1..(Len(b) + Len(new)), u[k].parent \notin IdsOf(f) \cup {0}
               PROVE  \E m \in 1..(k - 1) : u[m].id = u[k].parent
    BY <1>1 DEF GroundedOn
  <2>1. CASE k \in 1..Len(b)
    <3>1. PICK m \in 1..(k - 1) : b[m].id = b[k].parent
      BY <1>1, <2>1 DEF GroundedOn
    <3>2. m \in 1..Len(b)
      BY <1>1, <2>1
    <3> QED BY <1>1, <2>1, <3>1, <3>2
  <2>2. CASE k - Len(b) \in 1..Len(new) /\ u[k] = new[k - Len(b)]
    <3> DEFINE i == k - Len(b)
    <3>1. i \in 1..Len(new) /\ u[k] = new[i] /\ k = Len(b) + i
      BY <1>1, <2>2
    <3> HIDE DEF i
    <3>2. PICK a \in 1..(i - 1) : new[a].id = new[i].parent
      BY <1>1, <3>1 DEF GroundedOn
    <3>3. a \in 1..Len(new) /\ Len(b) + a \in 1..(k - 1)
      BY <1>1, <3>1
    <3>4. u[Len(b) + a].id = u[k].parent
      BY <1>1, <3>1, <3>2, <3>3
    <3> QED BY <3>3, <3>4
  <2> QED BY <1>1, <2>1, <2>2
<1> QED BY <1>2, <1>3 DEF u

(* Entries made for a call: numbered on from those made so far, with        *)
(* parents and targets that are on file.                                    *)
FreshOn(f, spent, new) ==
  /\ new \in Seq(Entry)
  /\ \A i \in 1..Len(new) : new[i].id = spent + i
  /\ GroundedOn(f, new) /\ TargetsIn(f, new)

(* A write of what a handle holds and of fresh entries after it.            *)
LEMMA DataAfterWrite ==
  ASSUME FileOK(lines, tail, glued), DataOK, consumed.entries \in Nat,
         \A g \in Handles : buffered[g] \in Seq(Entry),
         NEW h \in Handles, NEW new, FreshOn(OnFile, consumed.entries, new),
         NEW n \in 0..Len(buffered[h] \o new), NEW cut \in Cuts(buffered[h] \o new, n),
         Written(buffered[h] \o new, n, cut), ~glued',
         consumed'.entries = consumed.entries + Len(new)
  PROVE  /\ OnFile \in Seq(Entry) /\ OnFile' \in Seq(Entry)
         /\ Len(OnFile) <= Len(OnFile') /\ \A i \in 1..Len(OnFile) : OnFile'[i] = OnFile[i]
         /\ ToSet(OnFile) \subseteq ToSet(OnFile') /\ IdsOf(OnFile) \subseteq IdsOf(OnFile')
         /\ ToSet(OnFile') \subseteq Known \cup ToSet(new)
         /\ n = Len(buffered[h] \o new) /\ cut = Clean
              => ToSet(buffered[h]) \cup ToSet(new) \subseteq ToSet(OnFile')
         /\ Grounded(OnFile') /\ TargetsIn(OnFile', OnFile')
         /\ \A x, y \in Known \cup ToSet(new) : x.id = y.id => x = y
         /\ \A x \in Known \cup ToSet(new) : x.id <= consumed'.entries
         /\ GroundedOn(OnFile, buffered[h] \o new) /\ TargetsIn(OnFile, buffered[h] \o new)
<1> DEFINE batch == buffered[h] \o new
<1>1. buffered[h] \in Seq(Entry) /\ new \in Seq(Entry) /\ batch \in Seq(Entry) /\ Len(new) \in Nat
  BY DEF FreshOn
<1>2. GroundedOn(OnFile, batch) /\ TargetsIn(OnFile, batch)
  BY <1>1, ConcatGrounds DEF FreshOn, DataOK, HandleData
<1>3. ToSet(batch) = ToSet(buffered[h]) \cup ToSet(new) /\ IdsOf(batch) = IdsOf(buffered[h]) \cup IdsOf(new)
  BY <1>1, ConcatSets
<1> HIDE DEF batch
<1>4. /\ n \in 0..Len(batch) /\ cut \in Cuts(batch, n) /\ Written(batch, n, cut)
  BY DEF batch
<1>5. /\ OnFile \in Seq(Entry) /\ OnFile' \in Seq(Entry)
      /\ Len(OnFile) <= Len(OnFile') /\ \A i \in 1..Len(OnFile) : OnFile'[i] = OnFile[i]
      /\ ToSet(OnFile) \subseteq ToSet(OnFile')
      /\ ToSet(OnFile') \subseteq ToSet(OnFile) \cup ToSet(batch)
      /\ IdsOf(OnFile) \subseteq IdsOf(OnFile')
      /\ n = Len(batch) /\ cut = Clean => IdsOf(batch) \subseteq IdsOf(OnFile')
      /\ Grounded(OnFile')
  BY <1>1, <1>2, <1>4, FileGrows DEF DataOK
<1>6. ToSet(OnFile) \subseteq Known /\ ToSet(buffered[h]) \subseteq Known
  BY DEF Known
<1>7. ToSet(OnFile') \subseteq Known \cup ToSet(new)
  BY <1>3, <1>5, <1>6
<1>8. \A x \in ToSet(new) : \E i \in 1..Len(new) : x = new[i] /\ x.id = consumed.entries + i
  BY <1>1 DEF FreshOn, ToSet
<1>9. \A x \in Known : x.id <= consumed.entries /\ x \in Entry
  <2>1. \A x \in Known : x.id <= consumed.entries
    BY DEF DataOK
  <2>2. \A s \in Seq(Entry) : ToSet(s) \subseteq Entry
    BY DEF ToSet
  <2>3. Known \subseteq Entry
    BY <1>5, <2>2 DEF Known
  <2> QED BY <2>1, <2>3
<1>10. \A x \in Known \cup ToSet(new) : x.id <= consumed'.entries
  <2>1. \A x \in Known : x.id \in Nat
    BY <1>9, EntryShape
  <2> QED BY <1>1, <1>8, <1>9, <2>1
<1>11. ASSUME NEW x \in Known \cup ToSet(new), NEW y \in Known \cup ToSet(new), x.id = y.id
       PROVE  x = y
  <2>1. CASE x \in Known /\ y \in Known
    BY <1>11, <2>1 DEF DataOK
  <2>2. CASE x \in ToSet(new) /\ y \in ToSet(new)
    <3>1. PICK i \in 1..Len(new) : x = new[i] /\ x.id = consumed.entries + i
      BY <1>8, <2>2
    <3>2. PICK j \in 1..Len(new) : y = new[j] /\ y.id = consumed.entries + j
      BY <1>8, <2>2
    <3>3. i = j
      BY <1>1, <1>11, <3>1, <3>2
    <3> QED BY <3>1, <3>2, <3>3
  <2>3. \A a \in Known, b \in ToSet(new) : a.id # b.id
    <3> TAKE a \in Known, b \in ToSet(new)
    <3>1. PICK i \in 1..Len(new) : b.id = consumed.entries + i
      BY <1>8
    <3>2. a.id \in Nat /\ a.id <= consumed.entries
      BY <1>9, EntryShape
    <3> QED BY <1>1, <3>1, <3>2
  <2> QED BY <1>11, <2>1, <2>2, <2>3
<1>12. ASSUME n = Len(batch), cut = Clean PROVE ToSet(batch) \subseteq ToSet(OnFile')
  <2> SUFFICES ASSUME NEW e \in ToSet(batch) PROVE e \in ToSet(OnFile')
    OBVIOUS
  <2>2. e.id \in IdsOf(OnFile')
    BY <1>5, <1>12, IdsAndSets
  <2>3. PICK x \in ToSet(OnFile') : x.id = e.id
    BY <2>2, IdsAndSets
  <2>4. x \in Known \cup ToSet(new) /\ e \in Known \cup ToSet(new)
    BY <1>3, <1>6, <1>7
  <2> QED BY <1>11, <2>3, <2>4
<1>13. TargetsIn(OnFile', OnFile')
  <2> SUFFICES ASSUME NEW k \in DOMAIN OnFile' PROVE OnFile'[k].target \in IdsOf(OnFile') \cup {0}
    BY DEF TargetsIn
  <2>1. OnFile'[k] \in ToSet(OnFile) \cup ToSet(batch)
    BY <1>5 DEF ToSet
  <2>2. CASE OnFile'[k] \in ToSet(OnFile)
    BY <1>5, <2>2 DEF DataOK, TargetsIn, ToSet
  <2>3. CASE OnFile'[k] \in ToSet(batch)
    BY <1>2, <1>5, <2>3 DEF TargetsIn, ToSet
  <2> QED BY <2>1, <2>2, <2>3
<1> QED BY <1>2, <1>3, <1>5, <1>7, <1>10, <1>11, <1>12, <1>13 DEF batch

-----------------------------------------------------------------------------
(* The entries a call makes *)

LEMMA LargestExists ==
  ASSUME NEW n \in Nat, NEW S, S \subseteq 1..n, S # {}
  PROVE  \E m \in S : \A j \in S : j <= m
<1> DEFINE Best(k) == \E m \in S : m <= k /\ \A j \in S : j <= k => j <= m
           T == {k \in 0..n : (\E j \in S : j <= k) => Best(k)}
<1>1. 0 \in T
  OBVIOUS
<1>2. ASSUME NEW k \in 0..n, k < n, k \in T PROVE k + 1 \in T
  <2>1. CASE k + 1 \in S
    BY <1>2, <2>1
  <2>2. CASE k + 1 \notin S
    <3>1. \A j \in S : j <= k + 1 => j <= k
      BY <2>2
    <3> QED BY <1>2, <3>1
  <2> QED BY <2>1, <2>2
<1> HIDE DEF T
<1>3. \A k \in 0..n : k \in T
  BY <1>1, <1>2, InductionUpTo
<1>4. n \in T
  BY <1>3
<1>5. Best(n) /\ \A j \in S : j <= n
  <2>1. \E j \in S : j <= n
    <3>1. PICK j \in S : TRUE
      OBVIOUS
    <3>2. j \in 1..n
      OBVIOUS
    <3> QED BY <3>2
  <2> QED BY <1>4, <2>1 DEF T
<1> QED BY <1>5

LEMMA EntryFields ==
  /\ \A e \in Entry : e.id \in Ids /\ e.parent \in Ids \cup {0} /\ e.target \in Ids \cup {0}
  /\ \A i \in Ids, p \in Ids \cup {0}, t \in Ids \cup {0} :
       /\ MessageItem(i, p) \in Entry /\ MessageItem(i, p).id = i
       /\ MessageItem(i, p).parent = p /\ MessageItem(i, p).target = 0
       /\ Leaf(i, p, t) \in Entry /\ Leaf(i, p, t).id = i
       /\ Leaf(i, p, t).parent = p /\ Leaf(i, p, t).target = t
BY DEF Entry, MessageItem, Leaf

LEMMA IdsAreIds ==
  ASSUME NEW v \in Seq(Entry)
  PROVE  IdsOf(v) \subseteq Ids
<1>1. \A i \in DOMAIN v : v[i] \in Entry
  OBVIOUS
<1> QED BY <1>1, EntryFields DEF IdsOf

LEMMA LatestNonLeafShape ==
  ASSUME NEW v \in Seq(Entry), v # <<>>, StartsWell(v)
  PROVE  LatestNonLeaf(v) \in IdsOf(v)
<1> DEFINE others == {i \in DOMAIN v : v[i].kind # "Leaf"}
           m == CHOOSE i \in others : \A j \in others : j <= i
<1>1. Len(v) \in Nat /\ 1 \in DOMAIN v /\ DOMAIN v = 1..Len(v)
  OBVIOUS
<1>2. 1 \in others
  BY <1>1 DEF StartsWell, Header
<1>3. \E i \in others : \A j \in others : j <= i
  BY <1>1, <1>2, LargestExists
<1>4. m \in others
  BY <1>3
<1> QED BY <1>4 DEF LatestNonLeaf, IdsOf

LEMMA AppendParentShape ==
  ASSUME NEW v \in Seq(Entry), v # <<>>, StartsWell(v)
  PROVE  /\ AppendParent(v) \in Ids
         /\ AppendParent(v) \in IdsOf(v) \/ \E i \in DOMAIN v : AppendParent(v) = v[i].target
<1>1. Len(v) \in DOMAIN v /\ Last(v) = v[Len(v)] /\ Last(v) \in Entry
  BY DEF Last
<1>2. LatestNonLeaf(v) \in IdsOf(v)
  BY LatestNonLeafShape
<1>3. \A x \in IdsOf(v) : x \in Ids
  BY IdsAreIds
<1>4. Last(v).id \in IdsOf(v)
  BY <1>1 DEF IdsOf
<1>5. Last(v).target \in Ids \cup {0}
  BY <1>1, EntryFields
<1> QED BY <1>1, <1>2, <1>3, <1>4, <1>5 DEF AppendParent

LEMMA FreshEntries ==
  ASSUME NEW v \in Seq(Entry), v # <<>>, StartsWell(v), NEW spent \in Nat
  PROVE  \A batch :
           (\/ \E size \in {1, 2} :
                 batch = [i \in 1..size |->
                           MessageItem(spent + i, IF i = 1 THEN AppendParent(v) ELSE spent + i - 1)]
            \/ \E t \in IdsOf(v) \cup {0} : batch = <<Leaf(spent + 1, LatestNonLeaf(v), t)>>)
           => /\ batch \in Seq(Entry) /\ Len(batch) \in {1, 2}
              /\ \A f : ToSet(v) \subseteq ToSet(f) /\ TargetsIn(f, v)
                          => FreshOn(f, spent, batch)
<1>1. AppendParent(v) \in Ids
  BY AppendParentShape
<1>2. LatestNonLeaf(v) \in IdsOf(v)
  BY LatestNonLeafShape
<1>3. \A x \in IdsOf(v) : x \in Ids
  BY IdsAreIds
<1>4. ASSUME NEW f, ToSet(v) \subseteq ToSet(f), TargetsIn(f, v)
      PROVE  AppendParent(v) \in IdsOf(f) \cup {0} /\ IdsOf(v) \subseteq IdsOf(f)
  <2>1. IdsOf(v) \subseteq IdsOf(f)
    BY <1>4, IdsAndSets
  <2> QED BY <1>4, <2>1, AppendParentShape DEF TargetsIn
<1>5. ASSUME NEW size \in {1, 2}, NEW batch,
             batch = [i \in 1..size |->
                       MessageItem(spent + i, IF i = 1 THEN AppendParent(v) ELSE spent + i - 1)]
      PROVE  /\ batch \in Seq(Entry) /\ Len(batch) = size
             /\ \A f : ToSet(v) \subseteq ToSet(f) /\ TargetsIn(f, v)
                         => FreshOn(f, spent, batch)
  <2> DEFINE E(i) == MessageItem(spent + i, IF i = 1 THEN AppendParent(v) ELSE spent + i - 1)
  <2>1. batch = [i \in 1..size |-> E(i)]
    BY <1>5
  <2>2. \A i \in 1..size : /\ E(i) \in Entry /\ E(i).id = spent + i /\ E(i).target = 0
                           /\ E(i).parent = IF i = 1 THEN AppendParent(v) ELSE spent + i - 1
    <3> TAKE i \in 1..size
    <3>1. spent + i \in Ids
      BY DEF Ids
    <3>2. i = 1 \/ spent + i - 1 \in Ids
      BY DEF Ids
    <3>3. (IF i = 1 THEN AppendParent(v) ELSE spent + i - 1) \in Ids \cup {0}
      BY <1>1, <3>2
    <3> QED BY <3>1, <3>3, EntryFields
  <2> HIDE DEF E
  <2>3. /\ batch \in Seq(Entry) /\ Len(batch) = size /\ DOMAIN batch = 1..size
        /\ \A i \in 1..size : batch[i] = E(i)
    <3>1. size \in Nat
      OBVIOUS
    <3> QED BY <2>1, <2>2, <3>1
  <2>4. ASSUME NEW f, ToSet(v) \subseteq ToSet(f), TargetsIn(f, v)
        PROVE  FreshOn(f, spent, batch)
    <3>1. TargetsIn(f, batch)
      BY <2>2, <2>3 DEF TargetsIn
    <3>2. GroundedOn(f, batch)
      <4> SUFFICES ASSUME NEW i \in 1..size
                   PROVE  \/ batch[i].parent \in IdsOf(f) \cup {0}
                          \/ \E j \in 1..(i - 1) : batch[j].id = batch[i].parent
        BY <2>3 DEF GroundedOn
      <4>1. CASE i = 1
        BY <1>4, <2>2, <2>3, <2>4, <4>1
      <4>2. CASE i = 2
        <5>1. 1 \in 1..(i - 1) /\ 1 \in 1..size
          BY <4>2
        <5>2. batch[1].id = spent + 1 /\ batch[i].parent = spent + 1
          BY <2>2, <2>3, <4>2, <5>1
        <5> QED BY <5>1, <5>2
      <4> QED BY <4>1, <4>2
    <3> QED BY <2>2, <2>3, <3>1, <3>2 DEF FreshOn
  <2> QED BY <2>3, <2>4
<1>6. ASSUME NEW t \in IdsOf(v) \cup {0}, NEW batch, batch = <<Leaf(spent + 1, LatestNonLeaf(v), t)>>
      PROVE  /\ batch \in Seq(Entry) /\ Len(batch) = 1
             /\ \A f : ToSet(v) \subseteq ToSet(f) /\ TargetsIn(f, v)
                         => FreshOn(f, spent, batch)
  <2> DEFINE e == Leaf(spent + 1, LatestNonLeaf(v), t)
  <2>1. e \in Entry /\ e.id = spent + 1 /\ e.parent = LatestNonLeaf(v) /\ e.target = t
    <3>1. spent + 1 \in Ids
      BY DEF Ids
    <3> QED BY <1>2, <1>3, <3>1, EntryFields
  <2>2. batch = <<e>>
    BY <1>6
  <2> HIDE DEF e
  <2>3. batch \in Seq(Entry) /\ Len(batch) = 1 /\ DOMAIN batch = 1..1 /\ batch[1] = e
    BY <2>1, <2>2
  <2>4. ASSUME NEW f, ToSet(v) \subseteq ToSet(f), TargetsIn(f, v)
        PROVE  FreshOn(f, spent, batch)
    <3>1. e.parent \in IdsOf(f) /\ e.target \in IdsOf(f) \cup {0}
      BY <1>2, <1>4, <2>1, <2>4
    <3> QED BY <2>1, <2>3, <3>1 DEF FreshOn, GroundedOn, TargetsIn
  <2> QED BY <2>3, <2>4
<1> QED
  <2> TAKE batch
  <2>1. ASSUME NEW size \in {1, 2},
               batch = [i \in 1..size |->
                         MessageItem(spent + i, IF i = 1 THEN AppendParent(v) ELSE spent + i - 1)]
        PROVE  /\ batch \in Seq(Entry) /\ Len(batch) \in {1, 2}
               /\ \A f : ToSet(v) \subseteq ToSet(f) /\ TargetsIn(f, v) => FreshOn(f, spent, batch)
    BY <1>5, <2>1
  <2>2. ASSUME NEW t \in IdsOf(v) \cup {0}, batch = <<Leaf(spent + 1, LatestNonLeaf(v), t)>>
        PROVE  /\ batch \in Seq(Entry) /\ Len(batch) \in {1, 2}
               /\ \A f : ToSet(v) \subseteq ToSet(f) /\ TargetsIn(f, v) => FreshOn(f, spent, batch)
    BY <1>6, <2>2
  <2> QED BY <2>1, <2>2

LEMMA NewEntriesShape ==
  ASSUME NEW c \in Callers, view[held[c]] \in Seq(Entry),
         view[held[c]] # <<>>, StartsWell(view[held[c]]),
         op[c] \in {"append", "append two", "leaf"}, consumed.entries \in Nat,
         NEW batch, batch \in NewEntries(c)
  PROVE  /\ batch \in Seq(Entry) /\ Len(batch) \in {1, 2}
         /\ \A f : ToSet(view[held[c]]) \subseteq ToSet(f) /\ TargetsIn(f, view[held[c]])
                     => FreshOn(f, consumed.entries, batch)
<1> DEFINE spent == consumed.entries
           v == view[held[c]]
<1>1. spent \in Nat /\ v \in Seq(Entry) /\ v # <<>> /\ StartsWell(v)
  OBVIOUS
<1>2. \/ \E size \in {1, 2} :
           batch = [i \in 1..size |->
                     MessageItem(spent + i, IF i = 1 THEN AppendParent(v) ELSE spent + i - 1)]
      \/ \E t \in IdsOf(v) \cup {0} : batch = <<Leaf(spent + 1, LatestNonLeaf(v), t)>>
  BY DEF NewEntries, Batch
<1> HIDE DEF spent, v
<1>3. /\ batch \in Seq(Entry) /\ Len(batch) \in {1, 2}
      /\ \A f : ToSet(v) \subseteq ToSet(f) /\ TargetsIn(f, v) => FreshOn(f, spent, batch)
  BY <1>1, <1>2, FreshEntries
<1> QED BY <1>3 DEF spent, v

-----------------------------------------------------------------------------
(* Every step keeps the control state *)

LEMMA CountersFields ==
  ASSUME NEW r \in Counters
  PROVE  /\ r.entries \in Nat /\ r.calls \in Nat /\ r.handles \in Nat /\ r.failures \in Nat
         /\ r.crashes \in Nat /\ r.evictions \in Nat /\ r.drops \in Nat
BY DEF Counters

LEMMA CountersSame ==
  ASSUME NEW r \in Counters, NEW n \in Nat
  PROVE  /\ \A q \in {[r EXCEPT !.calls = n], [r EXCEPT !.failures = n], [r EXCEPT !.drops = n]} :
              /\ q \in Counters /\ q.entries = r.entries /\ q.handles = r.handles
              /\ q.crashes = r.crashes /\ q.evictions = r.evictions
         /\ LET q == [r EXCEPT !.evictions = n]
            IN  /\ q \in Counters /\ q.entries = r.entries /\ q.handles = r.handles
                /\ q.crashes = r.crashes /\ q.evictions = n
         /\ LET q == [r EXCEPT !.crashes = n]
            IN  /\ q \in Counters /\ q.entries = r.entries /\ q.handles = r.handles
                /\ q.crashes = n /\ q.evictions = r.evictions
         /\ LET q == [r EXCEPT !.entries = n]
            IN  /\ q \in Counters /\ q.entries = n /\ q.handles = r.handles
                /\ q.crashes = r.crashes /\ q.evictions = r.evictions
         /\ LET q == [r EXCEPT !.handles = n]
            IN  /\ q \in Counters /\ q.entries = r.entries /\ q.handles = n
                /\ q.crashes = r.crashes /\ q.evictions = r.evictions
BY DEF Counters

(* Once a handle was opened, the counters only have to stay in bounds.      *)
LEMMA CountersHold ==
  ASSUME consumed' \in Counters, consumed'.entries > 0, consumed'.handles > 0,
         consumed'.crashes <= MaxCrashes, consumed'.evictions <= MaxEvictions
  PROVE  CountersInv'
<1>1. consumed'.entries # 0
  OBVIOUS
<1> QED BY <1>1 DEF CountersInv

LEMMA OnFileType ==
  ASSUME FileOK(lines, tail, glued)
  PROVE  OnFile \in Seq(Entry) /\ StartsWell(OnFile)
<1>1. CASE tail \in {Clean, Torn}
  BY <1>1 DEF FileOK, OnFile, Readable
<1>2. CASE tail \in Entry
  <2>1. <<tail>> \in Seq(Entry) /\ tail # Clean /\ tail # Torn
    BY <1>2, EntryShape
  <2>2. OnFile = lines \o New(<<tail>>, lines)
    BY <2>1 DEF OnFile, Readable
  <2>3. lines \in Seq(Entry) /\ lines # <<>> /\ lines[1] = Header
    BY <2>1 DEF FileOK, StartsWell
  <2>4. OnFile \in Seq(Entry) /\ \A i \in 1..Len(lines) : OnFile[i] = lines[i]
    <3>1. Appends(OnFile, lines, <<tail>>)
      BY <2>1, <2>2, <2>3, AppendedFile
    <3> QED BY <3>1 DEF Appends
  <2>5. 1 \in 1..Len(lines)
    BY <2>3
  <2> QED BY <2>3, <2>4, <2>5 DEF StartsWell
<1> QED BY <1>1, <1>2 DEF FileOK

LEMMA WriteKeepsFile ==
  ASSUME FileInv, consumed.handles > 0, NEW batch \in Seq(Entry),
         WriteSucceeds(batch) \/ WriteFails(batch)
  PROVE  FileOK(lines', tail', glued') /\ lines' # <<>> /\ (glued => glued')
<1>1. \E n \in 0..Len(batch) : \E cut \in {Clean, Torn} \cup Entry : Written(batch, n, cut)
  <2>1. Len(batch) \in 0..Len(batch)
    OBVIOUS
  <2> QED BY <2>1, CutsShape DEF WriteSucceeds, WriteFails
<1>2. FileOK(lines, tail, glued) /\ lines # <<>> /\ StartsWell(<<>>)
  BY DEF FileInv, StartsWell
<1> QED BY <1>1, <1>2, WrittenTypes

LEMMA HandleIsOpen ==
  ASSUME CountersInv, HandlesInv, NEW h \in Opened
  PROVE  h \in Handles /\ consumed.handles > 0 /\ view[h] # <<>> /\ StartsWell(view[h])
<1>1. /\ consumed.handles \in Nat /\ consumed.crashes \in Nat /\ consumed.evictions \in Nat
      /\ consumed.crashes <= MaxCrashes /\ consumed.evictions <= MaxEvictions
      /\ consumed.handles <= 1 + consumed.crashes + consumed.evictions
  BY CountersFields DEF CountersInv, HandlesInv
<1>2. h \in Handles /\ consumed.handles > 0
  BY <1>1, StoreConstantsOK DEF Opened, Handles
<1> QED BY <1>2 DEF HandlesInv

LEMMA AcquireControl ==
  ASSUME Control, NEW c \in Callers, Acquire(c)
  PROVE  Control'
<1>1. held[c] \in Opened /\ held[c] \in Handles
  BY HandleIsOpen DEF Control, CallerInv, Acquire, Busy
<1>2. UNCHANGED <<lines, tail, glued, consumed, indexed, mapped, closing, view, pendingState, buffered>>
  BY DEF Acquire, fileVars, handleVars
<1>3. UNCHANGED <<held, loaded, mine, op, acked>>
  BY DEF Acquire, callVars
<1>4. TypeInv'
  BY <1>1, <1>2, <1>3 DEF Control, TypeInv, Acquire, Goto
<1>5. CallerInv'
  BY <1>1, <1>2, <1>3 DEF Control, TypeInv, CallerInv, Acquire, Goto, Opened, Busy, Kinds
<1>6. CountersInv'
  BY <1>1, <1>2, <1>3 DEF Control, TypeInv, CountersInv, Acquire, Goto
<1>7. HandlesInv'
  BY <1>1, <1>2, <1>3 DEF Control, TypeInv, HandlesInv, Acquire, Goto, Opened
<1>8. FileInv' /\ HandleTypes'
  BY <1>2 DEF Control, FileInv, FileOK, StartsWell, HandleTypes
<1> QED BY <1>4, <1>5, <1>6, <1>7, <1>8 DEF Control

LEMMA ConcatStarts ==
  ASSUME NEW s \in Seq(Entry), NEW t \in Seq(Entry), s # <<>>, StartsWell(s)
  PROVE  s \o t \in Seq(Entry) /\ s \o t # <<>> /\ StartsWell(s \o t)
BY DEF StartsWell

LEMMA ToSetFinite ==
  ASSUME NEW s \in Seq(Entry)
  PROVE  ToSet(s) \subseteq Entry /\ IsFiniteSet(ToSet(s))
<1>1. ToSet(s) \subseteq Entry
  BY DEF ToSet
<1>2. IsFiniteSet(1..Len(s)) /\ DOMAIN s = 1..Len(s)
  BY FS_Interval
<1>3. s \in Surjection(1..Len(s), ToSet(s))
  BY <1>2 DEF Surjection, ToSet
<1> QED BY <1>1, <1>2, <1>3, FS_Surjection

(* A flush, done or failed, keeps the file and the handles well formed.     *)
LEMMA FlushKeepsHandles ==
  ASSUME Control, NEW h \in Opened, FlushSucceeds(h)
  PROVE  /\ FileOK(lines', tail', glued') /\ lines' # <<>>
         /\ HandleTypes'
         /\ \A g \in Opened : view'[g] # <<>>
         /\ \A g \in Handles : StartsWell(view'[g])
<1>1. h \in Handles /\ consumed.handles > 0 /\ view[h] # <<>> /\ StartsWell(view[h])
  BY HandleIsOpen DEF Control
<1>2. view[h] \in Seq(Entry) /\ pendingState[h] \in Seq(Entry) /\ buffered[h] \in Seq(Entry)
  BY <1>1 DEF Control, HandleTypes
<1>3. FileOK(lines', tail', glued') /\ lines' # <<>>
  BY <1>1, <1>2, WriteKeepsFile DEF Control, FlushSucceeds
<1> DEFINE more == view[h] \o pendingState[h]
<1>4. more \in Seq(Entry) /\ more # <<>> /\ StartsWell(more)
  BY <1>1, <1>2, ConcatStarts
<1>5. view' = [view EXCEPT ![h] = more] /\ <<>> \in Seq(Entry)
  BY DEF FlushSucceeds
<1> HIDE DEF more
<1>6. HandleTypes'
  BY <1>1, <1>4, <1>5 DEF Control, HandleTypes, FlushSucceeds
<1>7. \A g \in Opened : view'[g] # <<>>
  BY <1>1, <1>4, <1>5, HandleIsOpen DEF Control, HandleTypes, HandlesInv
<1>8. \A g \in Handles : StartsWell(view'[g])
  BY <1>1, <1>4, <1>5 DEF Control, HandleTypes, HandlesInv
<1> QED BY <1>3, <1>6, <1>7, <1>8

LEMMA FailedFlushKeepsHandles ==
  ASSUME Control, NEW h \in Opened, FlushFails(h)
  PROVE  FileOK(lines', tail', glued') /\ lines' # <<>> /\ UNCHANGED handleVars
<1>1. h \in Handles /\ consumed.handles > 0
  BY HandleIsOpen DEF Control
<1>2. buffered[h] \in Seq(Entry)
  BY <1>1 DEF Control, HandleTypes
<1> QED BY <1>1, <1>2, WriteKeepsFile DEF Control, FlushFails

LEMMA LookupControl ==
  ASSUME Control, NEW c \in Callers, NEW kind \in Kinds, Lookup(c, kind)
  PROVE  Control'
<1>1. /\ UNCHANGED <<lines, tail, glued, indexed, mapped, closing, view, pendingState, buffered>>
      /\ UNCHANGED <<holder, loaded, mine, acked>>
  BY DEF Lookup, fileVars, handleVars
<1>2. /\ consumed' \in Counters /\ consumed'.handles = consumed.handles
      /\ consumed'.entries = consumed.entries /\ consumed'.crashes = consumed.crashes
      /\ consumed'.evictions = consumed.evictions
  <2>1. consumed' = [consumed EXCEPT !.calls = consumed.calls + 1]
    BY DEF Lookup, Use
  <2>2. consumed \in Counters /\ consumed.calls + 1 \in Nat
    BY CountersFields DEF Control, CountersInv
  <2> QED BY <2>1, <2>2, CountersSame
<1>3. mapped \in Handles \cup {Nobody} /\ consumed.handles > 0 /\ consumed.entries > 0
  BY HandleIsOpen DEF Control, HandlesInv, CountersInv, Lookup
<1>4. TypeInv'
  BY <1>1, <1>3 DEF Control, TypeInv, Lookup, Goto
<1>5. CallerInv'
  <2>1. /\ pc' = [pc EXCEPT ![c] = IF mapped # Nobody THEN "lock" ELSE "load"]
        /\ held' = [held EXCEPT ![c] = mapped] /\ op' = [op EXCEPT ![c] = kind]
    BY DEF Lookup, Goto
  <2>2. \A d \in Callers : pc[d] # "register"
    <3>1. indexed > 0
      BY DEF Lookup
    <3>2. indexed # 0
      BY <3>1
    <3> QED BY <3>2 DEF Control, CallerInv
  <2>3. Opened' = Opened /\ mapped \in Opened \cup {Nobody}
    BY <1>2 DEF Opened, Control, HandlesInv
  <2>4. DOMAIN pc = Callers /\ DOMAIN held = Callers /\ DOMAIN op = Callers
    BY DEF Control, TypeInv
  <2> QED BY <1>1, <1>2, <1>3, <2>1, <2>2, <2>3, <2>4 DEF Control, CallerInv, Busy
<1>6. CountersInv'
  BY <1>1, <1>2, <1>3 DEF Control, CountersInv
<1>7. HandlesInv'
  BY <1>1, <1>2 DEF Control, TypeInv, HandlesInv, Lookup, Goto, Opened
<1>8. FileInv' /\ HandleTypes'
  BY <1>1, <1>2 DEF Control, FileInv, FileOK, StartsWell, HandleTypes
<1> QED BY <1>4, <1>5, <1>6, <1>7, <1>8 DEF Control

LEMMA LoadFileControl ==
  ASSUME Control, NEW c \in Callers, LoadFile(c)
  PROVE  Control'
<1>1. /\ UNCHANGED <<lines, tail, glued, indexed, mapped, closing, view, pendingState, buffered>>
      /\ UNCHANGED <<holder, op, held, mine, acked, consumed>>
  BY DEF LoadFile, fileVars, handleVars
<1>2. OnFile \in Seq(Entry) /\ StartsWell(OnFile) /\ StartsWell(<<>>)
  BY OnFileType DEF Control, FileInv, StartsWell
<1>3. TypeInv'
  BY <1>1, <1>2 DEF Control, TypeInv, LoadFile, Goto
<1>4. CallerInv'
  <2>1. CASE Loadable /\ loaded' = [loaded EXCEPT ![c] = OnFile] /\ Goto(c, "insert")
    <3>1. OnFile # <<>>
      BY <2>1 DEF Loadable
    <3> HIDE DEF OnFile
    <3> QED BY <1>1, <1>2, <2>1, <3>1 DEF Control, TypeInv, CallerInv, LoadFile, Goto, Opened, Busy
  <2>2. CASE Goto(c, "idle") /\ UNCHANGED loaded
    BY <1>1, <2>2 DEF Control, TypeInv, CallerInv, LoadFile, Goto, Opened, Busy
  <2> QED BY <2>1, <2>2 DEF LoadFile
<1>5. CountersInv'
  BY <1>1 DEF Control, TypeInv, CountersInv, LoadFile, Goto
<1>6. HandlesInv'
  BY <1>1 DEF Control, TypeInv, HandlesInv, LoadFile, Goto, Opened
<1>7. FileInv' /\ HandleTypes'
  BY <1>1 DEF Control, FileInv, FileOK, StartsWell, HandleTypes
<1> QED BY <1>3, <1>4, <1>5, <1>6, <1>7 DEF Control

LEMMA CreateRegisterControl ==
  ASSUME Control, NEW c \in Callers, CreateRegister(c)
  PROVE  Control'
<1>1. /\ UNCHANGED <<lines, tail, glued, indexed, closing, view, pendingState, buffered>>
      /\ UNCHANGED <<holder, op, held, loaded, mine, acked, consumed>>
  BY DEF CreateRegister, fileVars, handleVars, callVars
<1>2. held[c] \in Opened /\ held[c] # Nobody
  BY DEF Control, CallerInv, CreateRegister, Busy
<1>3. TypeInv'
  BY <1>1 DEF Control, TypeInv, CreateRegister, Goto
<1>4. CallerInv'
  BY <1>1, <1>2 DEF Control, TypeInv, CallerInv, CreateRegister, Goto, Opened, Busy
<1>5. CountersInv'
  BY <1>1, <1>2 DEF Control, TypeInv, CountersInv, CallerInv, CreateRegister, Goto
<1>6. HandlesInv'
  BY <1>1, <1>2 DEF Control, TypeInv, HandlesInv, CreateRegister, Goto, Opened
<1>7. FileInv' /\ HandleTypes'
  BY <1>1 DEF Control, FileInv, FileOK, StartsWell, HandleTypes
<1> QED BY <1>3, <1>4, <1>5, <1>6, <1>7 DEF Control

(* While some call is on its way, no session is being created.              *)
LEMMA NobodyCreates ==
  ASSUME Control, NEW c \in Callers, pc[c] # "idle", pc[c] # "register"
  PROVE  \A d \in Callers : pc[d] # "register"
<1> SUFFICES ASSUME NEW d \in Callers, pc[d] = "register" PROVE FALSE
  OBVIOUS
<1>1. c \in Callers \ {d}
  OBVIOUS
<1> QED BY <1>1 DEF Control, CallerInv

LEMMA NobodyCreatesOpen ==
  ASSUME Control, mapped # Nobody \/ closing # {}
  PROVE  \A d \in Callers : pc[d] # "register"
BY DEF Control, CallerInv

LEMMA LeaveCallers ==
  ASSUME Control, NEW c \in Callers, Leave(c), Opened' = Opened,
         consumed'.handles = consumed.handles, \A d \in Callers : pc[d] # "register"
  PROVE  /\ CallerInv'
         /\ pc' \in [Callers -> {"idle", "register", "load", "insert", "lock", "recover",
                                 "write", "flush", "index"}]
         /\ op' \in [Callers -> Kinds] /\ held' \in [Callers -> Handles \cup {Nobody}]
         /\ loaded' \in [Callers -> Seq(Entry)] /\ mine' \in [Callers -> SUBSET Entry]
         /\ \A d \in Callers : IsFiniteSet(mine'[d])
         /\ \A d \in Callers : pc'[d] # "register"
         /\ \A d \in Callers : pc[d] = "idle" => pc'[d] = "idle"
<1>1. /\ pc' = [pc EXCEPT ![c] = "idle"] /\ held' = [held EXCEPT ![c] = Nobody]
      /\ mine' = [mine EXCEPT ![c] = {}] /\ loaded' = [loaded EXCEPT ![c] = <<>>]
      /\ op' = op
  BY DEF Leave, Goto
<1>2. IsFiniteSet({}) /\ <<>> \in Seq(Entry) /\ StartsWell(<<>>)
  BY FS_EmptySet DEF StartsWell
<1>3. CallerInv'
  BY <1>1, <1>2 DEF Control, TypeInv, CallerInv, Busy
<1> QED BY <1>1, <1>2, <1>3 DEF Control, TypeInv

LEMMA UnlockType ==
  ASSUME Control, NEW c \in Callers, Unlock(c)
  PROVE  holder' \in [Handles -> Callers \cup {Nobody}]
BY DEF Unlock, Control, TypeInv

(* The handle a caller opens after the first one: there is room for it.     *)
LEMMA HandleAdded ==
  ASSUME Control, NEW c \in Callers, pc[c] = "insert", mapped = Nobody,
         NEW h, h = consumed.handles + 1,
         OpenHandle(h, loaded[c]), mapped' = h,
         UNCHANGED <<lines, tail, glued, indexed, closing>>,
         consumed' \in Counters, consumed'.handles = h, consumed'.entries = consumed.entries,
         consumed'.crashes = consumed.crashes, consumed'.evictions = consumed.evictions
  PROVE  /\ h \in Handles /\ h # Nobody /\ h > 0 /\ Opened' = Opened \cup {h}
         /\ FileInv' /\ HandleTypes' /\ CountersInv' /\ HandlesInv'
<1>1. \A d \in Callers : pc[d] # "register"
  BY NobodyCreates
<1>2. /\ consumed.handles > 0 /\ loaded[c] # <<>> /\ StartsWell(loaded[c])
      /\ loaded[c] \in Seq(Entry) /\ <<>> \in Seq(Entry)
  <2>1. consumed.handles > 0 /\ loaded[c] # <<>> /\ StartsWell(loaded[c])
    BY DEF Control, CallerInv
  <2>2. loaded[c] \in Seq(Entry) /\ <<>> \in Seq(Entry)
    BY DEF Control, TypeInv
  <2> QED BY <2>1, <2>2
<1>3. /\ consumed.handles \in Nat /\ consumed.crashes \in Nat /\ consumed.evictions \in Nat
      /\ consumed.crashes <= MaxCrashes /\ consumed.evictions <= MaxEvictions
      /\ consumed.handles <= consumed.crashes + consumed.evictions
  BY <1>1, <1>2, CountersFields DEF Control, CountersInv, HandlesInv
<1>4. h \in Handles /\ h \in Nat /\ h > 0 /\ h <= 1 + consumed.crashes + consumed.evictions
  BY <1>3, StoreConstantsOK DEF Handles
<1>5. h # Nobody /\ Opened' = Opened \cup {h}
  BY <1>3, <1>4, StoreConstantsOK DEF Opened
<1>6. /\ view' = [view EXCEPT ![h] = loaded[c]]
      /\ pendingState' = [pendingState EXCEPT ![h] = <<>>]
      /\ buffered' = [buffered EXCEPT ![h] = <<>>]
  BY DEF OpenHandle
<1>7. CountersInv'
  <2>1. consumed.entries > 0
    BY <1>2 DEF Control, CountersInv
  <2>2. /\ consumed'.entries > 0 /\ consumed'.handles > 0
        /\ consumed'.crashes <= MaxCrashes /\ consumed'.evictions <= MaxEvictions
    BY <1>3, <1>4, <2>1
  <2> QED BY <2>2, CountersHold
<1>8. HandlesInv'
  <2>1. \A g \in Opened' : view'[g] # <<>>
    BY <1>2, <1>4, <1>5, <1>6, HandleIsOpen DEF Control, HandleTypes, HandlesInv
  <2>2. \A g \in Handles : StartsWell(view'[g])
    BY <1>2, <1>4, <1>6 DEF Control, HandleTypes, HandlesInv
  <2>3. mapped' \in Opened' \cup {Nobody} /\ closing' \subseteq Opened'
    BY <1>5 DEF Control, HandlesInv
  <2>4. mapped' # Nobody /\ consumed'.handles <= 1 + consumed'.crashes + consumed'.evictions
    BY <1>4, <1>5
  <2> QED BY <2>1, <2>2, <2>3, <2>4 DEF HandlesInv
<1>9. FileInv' /\ HandleTypes'
  BY <1>2, <1>6 DEF Control, FileInv, FileOK, StartsWell, HandleTypes
<1> QED BY <1>4, <1>5, <1>7, <1>8, <1>9

LEMMA InsertHandleControl ==
  ASSUME Control, NEW c \in Callers, InsertHandle(c)
  PROVE  Control'
<1>1. /\ UNCHANGED <<lines, tail, glued, indexed, closing, holder, op, mine, acked>>
      /\ pc[c] = "insert" /\ pc' = [pc EXCEPT ![c] = "lock"]
      /\ loaded' = [loaded EXCEPT ![c] = <<>>]
  BY DEF InsertHandle, fileVars, Goto
<1>2. \A d \in Callers : pc[d] # "register"
  BY <1>1, NobodyCreates
<1>3. consumed.handles > 0 /\ loaded[c] # <<>> /\ StartsWell(loaded[c]) /\ loaded[c] \in Seq(Entry)
  BY <1>1 DEF Control, CallerInv, TypeInv
<1>4. <<>> \in Seq(Entry) /\ StartsWell(<<>>)
  BY DEF StartsWell
<1>5. consumed \in Counters
  BY DEF Control, CountersInv
<1>6. CASE /\ mapped # Nobody
           /\ held' = [held EXCEPT ![c] = mapped]
           /\ UNCHANGED <<mapped, handleVars, consumed>>
  <2>1. UNCHANGED <<mapped, view, pendingState, buffered, consumed>> /\ mapped \in Opened
    BY <1>6 DEF handleVars, Control, HandlesInv
  <2>2. mapped \in Handles
    BY <2>1, HandleIsOpen DEF Control
  <2>3. TypeInv'
    BY <1>1, <1>4, <1>6, <2>2 DEF Control, TypeInv
  <2>4. CallerInv'
    BY <1>1, <1>2, <1>4, <1>6, <2>1 DEF Control, TypeInv, CallerInv, Opened, Busy
  <2>5. CountersInv'
    BY <1>1, <1>2, <2>1 DEF Control, TypeInv, CountersInv
  <2>6. HandlesInv'
    BY <1>1, <1>2, <2>1 DEF Control, TypeInv, HandlesInv, Opened
  <2>7. FileInv' /\ HandleTypes'
    BY <1>1, <2>1 DEF Control, FileInv, FileOK, StartsWell, HandleTypes
  <2> QED BY <2>3, <2>4, <2>5, <2>6, <2>7 DEF Control
<1>7. CASE /\ mapped = Nobody
           /\ OpenHandle(consumed.handles + 1, loaded[c])
           /\ mapped' = consumed.handles + 1
           /\ held'   = [held EXCEPT ![c] = consumed.handles + 1]
           /\ Use("handles", 1)
  <2> DEFINE h == consumed.handles + 1
  <2>1. /\ consumed' \in Counters /\ consumed'.handles = h /\ consumed'.entries = consumed.entries
        /\ consumed'.crashes = consumed.crashes /\ consumed'.evictions = consumed.evictions
    <3>1. consumed' = [consumed EXCEPT !.handles = h]
      BY <1>7 DEF Use
    <3>2. h \in Nat
      BY <1>5, CountersFields
    <3> QED BY <1>5, <3>1, <3>2, CountersSame
  <2>2. held' = [held EXCEPT ![c] = h] /\ mapped' = h /\ OpenHandle(h, loaded[c])
    BY <1>7
  <2>3. /\ h \in Handles /\ h # Nobody /\ h > 0 /\ Opened' = Opened \cup {h}
        /\ FileInv' /\ HandleTypes' /\ CountersInv' /\ HandlesInv'
    BY <1>1, <1>7, <2>1, <2>2, HandleAdded
  <2> HIDE DEF h
  <2>4. TypeInv'
    BY <1>1, <1>4, <2>2, <2>3 DEF Control, TypeInv
  <2>5. CallerInv'
    BY <1>1, <1>2, <1>4, <2>1, <2>2, <2>3 DEF Control, TypeInv, CallerInv, Busy
  <2> QED BY <2>3, <2>4, <2>5 DEF Control
<1> QED BY <1>6, <1>7 DEF InsertHandle

(* A step that opens no handle, once one was opened.                        *)
LEMMA ControlAfterCall ==
  ASSUME Control, consumed.handles > 0, \A d \in Callers : pc[d] # "register",
         FileOK(lines', tail', glued'), lines' # <<>>, HandleTypes',
         \A g \in Opened : view'[g] # <<>>, \A g \in Handles : StartsWell(view'[g]),
         consumed' \in Counters, consumed'.handles = consumed.handles,
         consumed'.entries >= consumed.entries,
         consumed'.crashes = consumed.crashes, consumed'.evictions = consumed.evictions,
         mapped' = mapped, closing' \subseteq closing,
         TypeInv', CallerInv'
  PROVE  Control'
<1>1. consumed \in Counters /\ consumed.entries > 0
  BY DEF Control, CountersInv
<1>2. consumed'.entries > 0 /\ consumed'.handles > 0
  BY <1>1, CountersFields
<1>3. CountersInv'
  BY <1>2, CountersHold DEF Control, CountersInv
<1>4. Opened' = Opened
  BY DEF Opened
<1>5. HandlesInv'
  BY <1>2, <1>4 DEF Control, HandlesInv
<1>6. FileInv'
  BY <1>2 DEF FileInv
<1> QED BY <1>3, <1>5, <1>6 DEF Control

(* A call on its way has its handle open, and nobody is creating.           *)
LEMMA CallerHasHandle ==
  ASSUME Control, NEW c \in Callers, pc[c] \in {"lock", "recover", "write", "flush", "index"}
  PROVE  /\ held[c] \in Opened /\ held[c] \in Handles /\ consumed.handles > 0
         /\ view[held[c]] # <<>> /\ StartsWell(view[held[c]])
         /\ view[held[c]] \in Seq(Entry) /\ pendingState[held[c]] \in Seq(Entry)
         /\ buffered[held[c]] \in Seq(Entry)
         /\ consumed \in Counters
         /\ \A d \in Callers : pc[d] # "register"
<1>1. held[c] \in Opened
  BY DEF Control, CallerInv, Busy
<1>2. \A d \in Callers : pc[d] # "register"
  BY NobodyCreates
<1> QED BY <1>1, <1>2, HandleIsOpen DEF Control, HandleTypes, CountersInv

LEMMA FileStands ==
  ASSUME Control, consumed.handles > 0
  PROVE  /\ FileOK(lines, tail, glued) /\ lines # <<>>
         /\ \A g \in Opened : view[g] # <<>>
         /\ \A g \in Handles : StartsWell(view[g])
         /\ consumed \in Counters /\ consumed.entries >= consumed.entries
<1>1. consumed.entries \in Nat /\ consumed \in Counters
  BY CountersFields DEF Control, CountersInv
<1> QED BY <1>1 DEF Control, FileInv, HandlesInv

LEMMA RecoverControl ==
  ASSUME Control, NEW c \in Callers, Recover(c)
  PROVE  Control'
<1>1. /\ UNCHANGED <<indexed, mapped, closing, holder, op, held, loaded, mine, acked, consumed>>
      /\ pc[c] = "recover" /\ pc' = [pc EXCEPT ![c] = "write"]
  BY DEF Recover, callVars, Goto
<1>2. /\ held[c] \in Opened /\ consumed.handles > 0
      /\ \A d \in Callers : pc[d] # "register"
  BY <1>1, CallerHasHandle
<1>3. /\ FileOK(lines', tail', glued') /\ lines' # <<>> /\ HandleTypes'
      /\ \A g \in Opened : view'[g] # <<>>
      /\ \A g \in Handles : StartsWell(view'[g])
  <2>1. CASE FlushSucceeds(held[c])
    BY <1>2, <2>1, FlushKeepsHandles
  <2>2. CASE UNCHANGED <<fileVars, handleVars>>
    <3>1. UNCHANGED <<lines, tail, glued, view, pendingState, buffered>>
      BY <2>2 DEF fileVars, handleVars
    <3>2. HandleTypes'
      BY <3>1 DEF Control, HandleTypes
    <3> QED BY <1>2, <3>1, <3>2, FileStands
  <2> QED BY <2>1, <2>2 DEF Recover
<1>4. TypeInv'
  BY <1>1 DEF Control, TypeInv
<1>5. CallerInv'
  BY <1>1 DEF Control, TypeInv, CallerInv, Opened, Busy
<1>6. consumed' \in Counters /\ consumed'.entries >= consumed.entries
  BY <1>1, <1>2, FileStands
<1> QED BY <1>1, <1>2, <1>3, <1>4, <1>5, <1>6, ControlAfterCall

(* A failed flush ends the call, also the one that recovers.                *)
LEMMA FailedCallControl ==
  ASSUME Control, NEW c \in Callers, pc[c] \in {"recover", "flush"},
         FlushFails(held[c]), Use("failures", 1), Unlock(c), Leave(c),
         UNCHANGED <<indexed, mapped, closing, acked>>
  PROVE  Control'
<1>1. /\ held[c] \in Opened /\ consumed.handles > 0 /\ consumed \in Counters
      /\ \A d \in Callers : pc[d] # "register"
  BY CallerHasHandle
<1>2. FileOK(lines', tail', glued') /\ lines' # <<>> /\ UNCHANGED <<view, pendingState, buffered>>
  BY <1>1, FailedFlushKeepsHandles DEF handleVars
<1>3. /\ consumed' \in Counters /\ consumed'.handles = consumed.handles
      /\ consumed'.entries = consumed.entries
      /\ consumed'.crashes = consumed.crashes /\ consumed'.evictions = consumed.evictions
  <2>1. consumed' = [consumed EXCEPT !.failures = consumed.failures + 1]
    BY DEF Use
  <2>2. consumed.failures + 1 \in Nat
    BY <1>1, CountersFields
  <2> QED BY <1>1, <2>1, <2>2, CountersSame
<1>4. Opened' = Opened
  BY <1>3 DEF Opened
<1>5. /\ CallerInv'
      /\ pc' \in [Callers -> {"idle", "register", "load", "insert", "lock", "recover",
                              "write", "flush", "index"}]
      /\ op' \in [Callers -> Kinds] /\ held' \in [Callers -> Handles \cup {Nobody}]
      /\ loaded' \in [Callers -> Seq(Entry)] /\ mine' \in [Callers -> SUBSET Entry]
      /\ \A d \in Callers : IsFiniteSet(mine'[d])
  BY <1>1, <1>3, <1>4, LeaveCallers
<1>6. TypeInv'
  BY <1>5, UnlockType DEF Control, TypeInv
<1>7. /\ HandleTypes' /\ \A g \in Opened : view'[g] # <<>>
      /\ \A g \in Handles : StartsWell(view'[g])
  BY <1>2 DEF Control, HandleTypes, HandlesInv
<1>8. consumed'.entries >= consumed.entries
  BY <1>1, <1>3, FileStands
<1> QED BY <1>1, <1>2, <1>3, <1>5, <1>6, <1>7, <1>8, ControlAfterCall

LEMMA RecoverFailsControl ==
  ASSUME Control, NEW c \in Callers, RecoverFails(c)
  PROVE  Control'
BY FailedCallControl DEF RecoverFails

LEMMA FlushCallFailsControl ==
  ASSUME Control, NEW c \in Callers, FlushCallFails(c)
  PROVE  Control'
BY FailedCallControl DEF FlushCallFails

LEMMA FlushControl ==
  ASSUME Control, NEW c \in Callers, Flush(c)
  PROVE  Control'
<1>1. /\ UNCHANGED <<indexed, mapped, closing, op, held, loaded, acked, consumed>>
      /\ pc[c] = "flush" /\ pc' = [pc EXCEPT ![c] = "index"]
      /\ mine' = [mine EXCEPT ![c] = ToSet(view'[held[c]])]
      /\ FlushSucceeds(held[c])
  BY DEF Flush, Goto
<1>2. /\ held[c] \in Opened /\ held[c] \in Handles /\ consumed.handles > 0
      /\ \A d \in Callers : pc[d] # "register"
  BY <1>1, CallerHasHandle
<1>3. /\ FileOK(lines', tail', glued') /\ lines' # <<>> /\ HandleTypes'
      /\ \A g \in Opened : view'[g] # <<>>
      /\ \A g \in Handles : StartsWell(view'[g])
  BY <1>1, <1>2, FlushKeepsHandles
<1>4. holder' \in [Handles -> Callers \cup {Nobody}]
  BY UnlockType DEF Flush, Control, TypeInv
<1>5. TypeInv'
  <2> DEFINE all == ToSet(view'[held[c]])
  <2>1. all \subseteq Entry /\ IsFiniteSet(all)
    BY <1>2, <1>3, ToSetFinite DEF HandleTypes
  <2>2. mine' = [mine EXCEPT ![c] = all]
    BY <1>1
  <2> HIDE DEF all
  <2> QED BY <1>1, <1>4, <2>1, <2>2 DEF Control, TypeInv
<1>6. CallerInv'
  BY <1>1 DEF Control, TypeInv, CallerInv, Opened, Busy
<1>7. consumed' \in Counters /\ consumed'.entries >= consumed.entries
  BY <1>1, <1>2, FileStands
<1> QED BY <1>1, <1>2, <1>3, <1>5, <1>6, <1>7, ControlAfterCall

LEMMA BatchShape ==
  ASSUME Control, NEW c \in Callers, pc[c] = "write", NEW batch, batch \in NewEntries(c)
  PROVE  /\ batch \in Seq(Entry) /\ Len(batch) \in {1, 2}
         /\ ToSet(batch) \subseteq Entry /\ IsFiniteSet(ToSet(batch))
         /\ buffered[held[c]] \o batch \in Seq(Entry)
<1>1. /\ view[held[c]] \in Seq(Entry) /\ view[held[c]] # <<>> /\ StartsWell(view[held[c]])
      /\ buffered[held[c]] \in Seq(Entry) /\ consumed \in Counters
  BY CallerHasHandle
<1>2. op[c] \in {"append", "append two", "leaf"} /\ consumed.entries \in Nat
  BY <1>1, CountersFields DEF Control, CallerInv
<1>3. batch \in Seq(Entry) /\ Len(batch) \in {1, 2}
  BY <1>1, <1>2, NewEntriesShape
<1> QED BY <1>1, <1>3, ToSetFinite

(* The counters q are r after a batch of n entries.                          *)
UsesEntries(q, r, n) ==
  /\ q \in Counters /\ q.handles = r.handles /\ q.entries >= r.entries
  /\ q.entries = r.entries + n
  /\ q.crashes = r.crashes /\ q.evictions = r.evictions

LEMMA EntriesUsed ==
  ASSUME NEW r \in Counters, NEW n \in Nat, NEW m \in Nat, NEW q,
         \/ q = [r EXCEPT !.entries = @ + n]
         \/ q = [r EXCEPT !.entries = @ + n, !.failures = m]
         \/ q = [r EXCEPT !.entries = @ + n, !.drops = m]
  PROVE  UsesEntries(q, r, n)
<1> DEFINE k == r.entries + n
<1>1. k \in Nat /\ k >= r.entries /\ k = r.entries + n
  BY CountersFields
<1> HIDE DEF k
<1>2. \A p \in {[r EXCEPT !.entries = k], [r EXCEPT !.entries = k, !.failures = m],
                [r EXCEPT !.entries = k, !.drops = m]} :
        /\ p \in Counters /\ p.handles = r.handles /\ p.entries = k
        /\ p.crashes = r.crashes /\ p.evictions = r.evictions
  BY <1>1 DEF Counters
<1>3. /\ [r EXCEPT !.entries = @ + n] = [r EXCEPT !.entries = k]
      /\ [r EXCEPT !.entries = @ + n, !.failures = m] = [r EXCEPT !.entries = k, !.failures = m]
      /\ [r EXCEPT !.entries = @ + n, !.drops = m] = [r EXCEPT !.entries = k, !.drops = m]
  BY <1>1
<1>4. q \in {[r EXCEPT !.entries = k], [r EXCEPT !.entries = k, !.failures = m],
            [r EXCEPT !.entries = k, !.drops = m]}
  BY <1>3
<1> QED BY <1>1, <1>2, <1>4 DEF UsesEntries

LEMMA WriteEntriesControl ==
  ASSUME Control, NEW c \in Callers, WriteEntries(c)
  PROVE  Control'
<1>1. /\ UNCHANGED <<indexed, mapped, closing, pendingState, holder, op, held, loaded, acked>>
      /\ pc[c] = "write" /\ pc' = [pc EXCEPT ![c] = "index"]
  BY DEF WriteEntries, Goto
<1>2. PICK batch : /\ batch \in NewEntries(c)
                   /\ WriteSucceeds(buffered[held[c]] \o batch)
                   /\ buffered' = [buffered EXCEPT ![held[c]] = <<>>]
                   /\ view' = [view EXCEPT ![held[c]] = @ \o batch]
                   /\ mine' = [mine EXCEPT ![c] = ToSet(batch)]
                   /\ Use("entries", Len(batch))
  BY DEF WriteEntries
<1>3. /\ batch \in Seq(Entry) /\ Len(batch) \in {1, 2}
      /\ ToSet(batch) \subseteq Entry /\ IsFiniteSet(ToSet(batch))
      /\ buffered[held[c]] \o batch \in Seq(Entry)
  BY <1>1, <1>2, BatchShape
<1>4. /\ held[c] \in Opened /\ held[c] \in Handles /\ consumed.handles > 0
      /\ view[held[c]] # <<>> /\ StartsWell(view[held[c]]) /\ view[held[c]] \in Seq(Entry)
      /\ \A d \in Callers : pc[d] # "register"
      /\ consumed \in Counters
  BY <1>1, CallerHasHandle
<1>5. FileOK(lines', tail', glued') /\ lines' # <<>>
  BY <1>2, <1>3, <1>4, WriteKeepsFile DEF Control
<1> DEFINE more == view[held[c]] \o batch
<1>6. more \in Seq(Entry) /\ more # <<>> /\ StartsWell(more)
  BY <1>3, <1>4, ConcatStarts
<1>7. view' = [view EXCEPT ![held[c]] = more] /\ <<>> \in Seq(Entry)
  BY <1>2
<1> HIDE DEF more
<1>8. HandleTypes'
  BY <1>1, <1>2, <1>4, <1>6, <1>7 DEF Control, HandleTypes
<1>9. (\A g \in Opened : view'[g] # <<>>) /\ (\A g \in Handles : StartsWell(view'[g]))
  <2>1. \A g \in Opened : view'[g] # <<>>
    BY <1>4, <1>6, <1>7, HandleIsOpen DEF Control, HandleTypes, HandlesInv
  <2>2. \A g \in Handles : StartsWell(view'[g])
    BY <1>4, <1>6, <1>7 DEF Control, HandleTypes, HandlesInv
  <2> QED BY <2>1, <2>2
<1>10. TypeInv'
  BY <1>1, <1>2, <1>3 DEF Control, TypeInv
<1>11. /\ consumed' \in Counters /\ consumed'.handles = consumed.handles
       /\ consumed'.entries >= consumed.entries
       /\ consumed'.crashes = consumed.crashes /\ consumed'.evictions = consumed.evictions
  <2>1. consumed' = [consumed EXCEPT !.entries = @ + Len(batch)]
    BY <1>2 DEF Use
  <2>2. Len(batch) \in Nat
    BY <1>3
  <2>3. UsesEntries(consumed', consumed, Len(batch))
    BY <1>4, <2>1, <2>2, EntriesUsed
  <2> QED BY <2>3 DEF UsesEntries
<1>12. CallerInv'
  BY <1>1, <1>11 DEF Control, TypeInv, CallerInv, Opened, Busy
<1> QED BY <1>1, <1>4, <1>5, <1>8, <1>9, <1>10, <1>11, <1>12, ControlAfterCall

LEMMA WriteEntriesFailsControl ==
  ASSUME Control, NEW c \in Callers, WriteEntriesFails(c)
  PROVE  Control'
<1>1. /\ UNCHANGED <<indexed, mapped, closing, view, acked>>
      /\ pc[c] = "write" /\ Unlock(c) /\ Leave(c)
  BY DEF WriteEntriesFails
<1>2. PICK batch :
        /\ batch \in NewEntries(c)
        /\ WriteFails(buffered[held[c]] \o batch)
        /\ buffered' = [buffered EXCEPT ![held[c]] = @ \o batch]
        /\ pendingState' = [pendingState EXCEPT ![held[c]] = @ \o batch]
        /\ consumed' = [consumed EXCEPT !.entries = @ + Len(batch), !.failures = @ + 1]
  BY DEF WriteEntriesFails
<1>3. /\ batch \in Seq(Entry) /\ Len(batch) \in {1, 2}
      /\ buffered[held[c]] \o batch \in Seq(Entry)
  BY <1>1, <1>2, BatchShape
<1>4. /\ held[c] \in Opened /\ held[c] \in Handles /\ consumed.handles > 0
      /\ pendingState[held[c]] \in Seq(Entry)
      /\ \A d \in Callers : pc[d] # "register"
      /\ consumed \in Counters
  BY <1>1, CallerHasHandle
<1>5. FileOK(lines', tail', glued') /\ lines' # <<>>
  BY <1>2, <1>3, <1>4, WriteKeepsFile DEF Control
<1>6. HandleTypes'
  <2>1. pendingState[held[c]] \o batch \in Seq(Entry)
    BY <1>3, <1>4
  <2> QED BY <1>1, <1>2, <1>3, <1>4, <2>1 DEF Control, HandleTypes
<1>7. (\A g \in Opened : view'[g] # <<>>) /\ (\A g \in Handles : StartsWell(view'[g]))
  BY <1>1 DEF Control, HandlesInv
<1>8. /\ consumed' \in Counters /\ consumed'.handles = consumed.handles
      /\ consumed'.entries >= consumed.entries
      /\ consumed'.crashes = consumed.crashes /\ consumed'.evictions = consumed.evictions
  <2> DEFINE m == consumed.failures + 1
  <2>1. consumed' = [consumed EXCEPT !.entries = @ + Len(batch), !.failures = m]
    BY <1>2
  <2>2. Len(batch) \in Nat /\ m \in Nat
    BY <1>3, <1>4, CountersFields
  <2> HIDE DEF m
  <2>3. UsesEntries(consumed', consumed, Len(batch))
    BY <1>4, <2>1, <2>2, EntriesUsed
  <2> QED BY <2>3 DEF UsesEntries
<1>9. Opened' = Opened
  BY <1>8 DEF Opened
<1>10. /\ CallerInv'
       /\ pc' \in [Callers -> {"idle", "register", "load", "insert", "lock", "recover",
                               "write", "flush", "index"}]
       /\ op' \in [Callers -> Kinds] /\ held' \in [Callers -> Handles \cup {Nobody}]
       /\ loaded' \in [Callers -> Seq(Entry)] /\ mine' \in [Callers -> SUBSET Entry]
       /\ \A d \in Callers : IsFiniteSet(mine'[d])
  BY <1>1, <1>4, <1>8, <1>9, LeaveCallers
<1>11. TypeInv'
  BY <1>1, <1>10, UnlockType DEF Control, TypeInv
<1> QED BY <1>1, <1>4, <1>5, <1>6, <1>7, <1>8, <1>10, <1>11, ControlAfterCall

(* A step that ends a call and leaves the file and the handles alone.       *)
LEMMA EndedCallControl ==
  ASSUME Control, NEW c \in Callers, pc[c] \notin {"idle", "register"}, Leave(c),
         consumed.handles > 0,
         UNCHANGED <<fileVars, mapped, closing, handleVars>>,
         holder' \in [Handles -> Callers \cup {Nobody}], indexed' \in Nat,
         acked' \subseteq Entry,
         consumed' \in Counters, consumed'.handles = consumed.handles,
         consumed'.entries = consumed.entries,
         consumed'.crashes = consumed.crashes, consumed'.evictions = consumed.evictions
  PROVE  Control'
<1>1. \A d \in Callers : pc[d] # "register"
  BY NobodyCreates
<1>2. UNCHANGED <<lines, tail, glued, view, pendingState, buffered>>
  BY DEF fileVars, handleVars
<1>3. Opened' = Opened
  BY DEF Opened
<1>4. /\ CallerInv'
      /\ pc' \in [Callers -> {"idle", "register", "load", "insert", "lock", "recover",
                              "write", "flush", "index"}]
      /\ op' \in [Callers -> Kinds] /\ held' \in [Callers -> Handles \cup {Nobody}]
      /\ loaded' \in [Callers -> Seq(Entry)] /\ mine' \in [Callers -> SUBSET Entry]
      /\ \A d \in Callers : IsFiniteSet(mine'[d])
  BY <1>1, <1>3, LeaveCallers
<1>5. TypeInv'
  BY <1>4 DEF Control, TypeInv
<1>6. HandleTypes'
  BY <1>2 DEF Control, HandleTypes
<1>7. /\ FileOK(lines', tail', glued') /\ lines' # <<>>
      /\ (\A g \in Opened : view'[g] # <<>>) /\ (\A g \in Handles : StartsWell(view'[g]))
  BY <1>2, FileStands
<1>8. consumed'.entries >= consumed.entries
  BY FileStands
<1> QED BY <1>1, <1>4, <1>5, <1>6, <1>7, <1>8, ControlAfterCall

LEMMA UpsertIndexControl ==
  ASSUME Control, NEW c \in Callers, UpsertIndex(c)
  PROVE  Control'
<1>1. /\ pc[c] = "index" /\ Unlock(c) /\ Leave(c) /\ acked' = acked \cup mine[c]
      /\ UNCHANGED <<fileVars, mapped, closing, handleVars, consumed>>
      /\ indexed' = IF op[c] = "flush all" THEN Cardinality(mine[c]) ELSE Len(view[held[c]])
  BY DEF UpsertIndex
<1>2. /\ consumed.handles > 0 /\ consumed \in Counters /\ view[held[c]] \in Seq(Entry)
  BY <1>1, CallerHasHandle
<1>3. indexed' \in Nat /\ acked' \subseteq Entry
  <2>1. IsFiniteSet(mine[c]) /\ mine[c] \subseteq Entry /\ acked \subseteq Entry
    BY DEF Control, TypeInv
  <2>2. Cardinality(mine[c]) \in Nat /\ Len(view[held[c]]) \in Nat
    BY <1>2, <2>1, FS_CardinalityType
  <2> QED BY <1>1, <2>1, <2>2
<1>4. holder' \in [Handles -> Callers \cup {Nobody}]
  BY <1>1, UnlockType
<1> QED BY <1>1, <1>2, <1>3, <1>4, EndedCallControl

LEMMA UpsertIndexFailsControl ==
  ASSUME Control, NEW c \in Callers, UpsertIndexFails(c)
  PROVE  Control'
<1>1. /\ pc[c] = "index" /\ Unlock(c) /\ Leave(c) /\ Use("failures", 1)
      /\ UNCHANGED <<fileVars, indexed, mapped, closing, handleVars, acked>>
  BY DEF UpsertIndexFails
<1>2. consumed.handles > 0 /\ consumed \in Counters
  BY <1>1, CallerHasHandle
<1>3. /\ consumed' \in Counters /\ consumed'.handles = consumed.handles
      /\ consumed'.entries = consumed.entries
      /\ consumed'.crashes = consumed.crashes /\ consumed'.evictions = consumed.evictions
  <2>1. consumed' = [consumed EXCEPT !.failures = consumed.failures + 1]
    BY <1>1 DEF Use
  <2>2. consumed.failures + 1 \in Nat
    BY <1>2, CountersFields
  <2> QED BY <1>2, <2>1, <2>2, CountersSame
<1>4. holder' \in [Handles -> Callers \cup {Nobody}] /\ indexed' \in Nat /\ acked' \subseteq Entry
  BY <1>1, UnlockType DEF Control, TypeInv
<1> QED BY <1>1, <1>2, <1>3, <1>4, EndedCallControl

LEMMA InsertHandleFailsControl ==
  ASSUME Control, NEW c \in Callers, InsertHandleFails(c)
  PROVE  Control'
<1> DEFINE h == consumed.handles + 1
<1>1. /\ UNCHANGED <<lines, tail, glued, indexed, closing, holder, acked>>
      /\ pc[c] = "insert" /\ mapped = Nobody /\ mapped' = h
      /\ OpenHandle(h, loaded[c]) /\ Leave(c)
      /\ consumed' = [consumed EXCEPT !.handles = @ + 1, !.failures = @ + 1]
  BY DEF InsertHandleFails, fileVars
<1>2. \A d \in Callers : pc[d] # "register"
  BY <1>1, NobodyCreates
<1>3. /\ consumed' \in Counters /\ consumed'.handles = h /\ consumed'.entries = consumed.entries
      /\ consumed'.crashes = consumed.crashes /\ consumed'.evictions = consumed.evictions
  <2> DEFINE m == consumed.failures + 1
             r == [consumed EXCEPT !.handles = h]
  <2>1. consumed \in Counters /\ h \in Nat /\ m \in Nat
    BY CountersFields DEF Control, CountersInv
  <2>2. consumed' = [r EXCEPT !.failures = m]
    BY <1>1
  <2> HIDE DEF h, m
  <2>3. /\ r \in Counters /\ r.handles = h /\ r.entries = consumed.entries
        /\ r.crashes = consumed.crashes /\ r.evictions = consumed.evictions
    BY <2>1, CountersSame
  <2> HIDE DEF r
  <2> QED BY <2>1, <2>2, <2>3, CountersSame
<1>4. /\ h \in Handles /\ Opened' = Opened \cup {h}
      /\ FileInv' /\ HandleTypes' /\ CountersInv' /\ HandlesInv'
  BY <1>1, <1>3, HandleAdded
<1> HIDE DEF h
<1>5. /\ pc' = [pc EXCEPT ![c] = "idle"] /\ held' = [held EXCEPT ![c] = Nobody]
      /\ mine' = [mine EXCEPT ![c] = {}] /\ loaded' = [loaded EXCEPT ![c] = <<>>] /\ op' = op
  BY <1>1 DEF Leave, Goto
<1>6. IsFiniteSet({}) /\ <<>> \in Seq(Entry) /\ StartsWell(<<>>)
  BY FS_EmptySet DEF StartsWell
<1>7. TypeInv'
  BY <1>1, <1>5, <1>6 DEF Control, TypeInv
<1>8. consumed.handles > 0 => consumed'.handles > 0
  <2>1. consumed.handles \in Nat
    BY CountersFields DEF Control, CountersInv
  <2> QED BY <1>3, <2>1 DEF h
<1>9. CallerInv'
  BY <1>2, <1>4, <1>5, <1>6, <1>8 DEF Control, TypeInv, CallerInv, Busy
<1> QED BY <1>4, <1>7, <1>9 DEF Control

LEMMA CallDroppedControl ==
  ASSUME Control, NEW c \in Callers, CallDropped(c)
  PROVE  Control'
<1>1. /\ UNCHANGED <<indexed, mapped, closing, view, pendingState, acked>>
      /\ pc[c] \notin {"idle", "register"} /\ Leave(c)
      /\ holder' = IF held[c] = Nobody THEN holder
                   ELSE [holder EXCEPT ![held[c]] = IF @ = c THEN Nobody ELSE @]
  BY DEF CallDropped
<1>2. /\ consumed.handles > 0 /\ consumed \in Counters
      /\ \A d \in Callers : pc[d] # "register"
  <2>1. \A d \in Callers : pc[d] # "register"
    BY <1>1, NobodyCreates
  <2>2. CASE pc[c] \in {"load", "insert"}
    BY <2>1, <2>2 DEF Control, CallerInv, CountersInv
  <2>3. CASE pc[c] \in {"lock", "recover", "write", "flush", "index"}
    BY <2>3, CallerHasHandle
  <2>4. pc[c] \in {"idle", "register", "load", "insert", "lock", "recover", "write", "flush", "index"}
    BY DEF Control, TypeInv
  <2> QED BY <1>1, <2>2, <2>3, <2>4
<1>3. consumed.drops + 1 \in Nat
  BY <1>2, CountersFields
<1>4. /\ FileOK(lines', tail', glued') /\ lines' # <<>>
      /\ buffered' \in [Handles -> Seq(Entry)]
      /\ consumed' \in Counters /\ consumed'.handles = consumed.handles
      /\ consumed'.entries >= consumed.entries
      /\ consumed'.crashes = consumed.crashes /\ consumed'.evictions = consumed.evictions
  <2>1. ASSUME Use("drops", 1)
        PROVE  /\ consumed' \in Counters /\ consumed'.handles = consumed.handles
               /\ consumed'.entries >= consumed.entries
               /\ consumed'.crashes = consumed.crashes /\ consumed'.evictions = consumed.evictions
    <3>1. consumed' = [consumed EXCEPT !.drops = consumed.drops + 1]
      BY <2>1 DEF Use
    <3>2. /\ consumed' \in Counters /\ consumed'.handles = consumed.handles
          /\ consumed'.entries = consumed.entries
          /\ consumed'.crashes = consumed.crashes /\ consumed'.evictions = consumed.evictions
      BY <1>2, <1>3, <3>1, CountersSame
    <3>3. consumed'.entries >= consumed.entries
      BY <1>2, <3>2, FileStands
    <3> QED BY <3>2, <3>3
  <2>2. CASE UNCHANGED <<fileVars, buffered>> /\ Use("drops", 1)
    BY <1>2, <2>1, <2>2, FileStands DEF fileVars, Control, HandleTypes
  <2>3. CASE /\ pc[c] \in {"recover", "flush"}
             /\ WriteSucceeds(buffered[held[c]])
             /\ buffered' = [buffered EXCEPT ![held[c]] = <<>>]
             /\ Use("drops", 1)
    <3>1. buffered[held[c]] \in Seq(Entry) /\ <<>> \in Seq(Entry)
      BY <2>3, CallerHasHandle
    <3>2. FileOK(lines', tail', glued') /\ lines' # <<>>
      BY <1>2, <2>3, <3>1, WriteKeepsFile DEF Control
    <3> QED BY <2>1, <2>3, <3>1, <3>2 DEF Control, HandleTypes
  <2>4. CASE /\ pc[c] = "write"
             /\ \E batch \in NewEntries(c) :
                  /\ WriteSucceeds(buffered[held[c]] \o batch)
                  /\ buffered' = [buffered EXCEPT ![held[c]] = <<>>]
                  /\ consumed' = [consumed EXCEPT !.entries = @ + Len(batch), !.drops = @ + 1]
    <3>1. PICK batch :
            /\ batch \in NewEntries(c)
            /\ WriteSucceeds(buffered[held[c]] \o batch)
            /\ buffered' = [buffered EXCEPT ![held[c]] = <<>>]
            /\ consumed' = [consumed EXCEPT !.entries = @ + Len(batch), !.drops = @ + 1]
      BY <2>4
    <3>2. batch \in Seq(Entry) /\ buffered[held[c]] \o batch \in Seq(Entry) /\ Len(batch) \in Nat
      BY <2>4, <3>1, BatchShape
    <3>3. FileOK(lines', tail', glued') /\ lines' # <<>>
      BY <1>2, <3>1, <3>2, WriteKeepsFile DEF Control
    <3>4. buffered' \in [Handles -> Seq(Entry)]
      <4>1. buffered \in [Handles -> Seq(Entry)] /\ <<>> \in Seq(Entry)
        BY DEF Control, HandleTypes
      <4>2. buffered' = [buffered EXCEPT ![held[c]] = <<>>]
        BY <3>1
      <4> QED BY <4>1, <4>2
    <3> DEFINE m == consumed.drops + 1
    <3>5. consumed' = [consumed EXCEPT !.entries = @ + Len(batch), !.drops = m] /\ m \in Nat
      BY <1>3, <3>1
    <3> HIDE DEF m
    <3>6. /\ consumed' \in Counters /\ consumed'.handles = consumed.handles
          /\ consumed'.entries >= consumed.entries
          /\ consumed'.crashes = consumed.crashes /\ consumed'.evictions = consumed.evictions
      <4>1. UsesEntries(consumed', consumed, Len(batch))
        BY <1>2, <3>2, <3>5, EntriesUsed
      <4> QED BY <4>1 DEF UsesEntries
    <3> QED BY <3>3, <3>4, <3>6
  <2> QED BY <2>2, <2>3, <2>4 DEF CallDropped
<1>5. HandleTypes'
  BY <1>1, <1>4 DEF Control, HandleTypes
<1>6. (\A g \in Opened : view'[g] # <<>>) /\ (\A g \in Handles : StartsWell(view'[g]))
  BY <1>1 DEF Control, HandlesInv
<1>7. Opened' = Opened
  BY <1>4 DEF Opened
<1>8. /\ CallerInv'
      /\ pc' \in [Callers -> {"idle", "register", "load", "insert", "lock", "recover",
                              "write", "flush", "index"}]
      /\ op' \in [Callers -> Kinds] /\ held' \in [Callers -> Handles \cup {Nobody}]
      /\ loaded' \in [Callers -> Seq(Entry)] /\ mine' \in [Callers -> SUBSET Entry]
      /\ \A d \in Callers : IsFiniteSet(mine'[d])
  BY <1>1, <1>2, <1>4, <1>7, LeaveCallers
<1>9. TypeInv'
  BY <1>1, <1>8 DEF Control, TypeInv
<1> QED BY <1>1, <1>2, <1>4, <1>5, <1>6, <1>8, <1>9, ControlAfterCall

LEMMA EvictControl ==
  ASSUME Control, Evict
  PROVE  Control'
<1>1. /\ mapped # Nobody /\ closing' = closing \cup {mapped} /\ mapped' = Nobody
      /\ consumed.evictions < MaxEvictions /\ Use("evictions", 1)
      /\ UNCHANGED <<lines, tail, glued, indexed, view, pendingState, buffered, holder>>
      /\ UNCHANGED <<pc, op, held, loaded, mine, acked>>
  BY DEF Evict, fileVars, handleVars, callVars
<1>2. /\ mapped \in Opened /\ closing \subseteq Opened
      /\ consumed.handles <= 1 + consumed.crashes + consumed.evictions
  BY <1>1 DEF Control, HandlesInv
<1>3. \A d \in Callers : pc[d] # "register"
  BY <1>1, NobodyCreatesOpen
<1>4. /\ consumed.handles > 0 /\ consumed.entries > 0 /\ consumed \in Counters
      /\ consumed.crashes <= MaxCrashes
  BY <1>2, HandleIsOpen DEF Control, CountersInv
<1>5. /\ consumed' \in Counters /\ consumed'.entries = consumed.entries
      /\ consumed'.handles = consumed.handles /\ consumed'.crashes = consumed.crashes
      /\ consumed'.evictions = consumed.evictions + 1
  <2>1. consumed' = [consumed EXCEPT !.evictions = consumed.evictions + 1]
    BY <1>1 DEF Use
  <2>2. consumed.evictions + 1 \in Nat
    BY <1>4, CountersFields
  <2> QED BY <1>4, <2>1, <2>2, CountersSame
<1>6. Opened' = Opened
  BY <1>5 DEF Opened
<1>7. CountersInv'
  <2>1. consumed'.evictions <= MaxEvictions
    BY <1>1, <1>4, <1>5, CountersFields, StoreConstantsOK
  <2> QED BY <1>4, <1>5, <2>1, CountersHold
<1>8. HandlesInv'
  <2>1. consumed'.handles <= consumed'.crashes + consumed'.evictions
    BY <1>2, <1>4, <1>5, CountersFields
  <2>2. consumed'.handles <= 1 + consumed'.crashes + consumed'.evictions
    BY <1>5, <2>1, CountersFields
  <2> QED BY <1>1, <1>2, <1>6, <2>1, <2>2 DEF Control, HandlesInv
<1>9. CallerInv'
  BY <1>1, <1>3, <1>5, <1>6 DEF Control, CallerInv
<1>10. TypeInv'
  BY <1>1 DEF Control, TypeInv
<1>11. FileInv' /\ HandleTypes'
  BY <1>1, <1>5 DEF Control, FileInv, FileOK, StartsWell, HandleTypes
<1> QED BY <1>7, <1>8, <1>9, <1>10, <1>11 DEF Control

(* A step of an evicted handle's shutdown.                                  *)
LEMMA ClosingControl ==
  ASSUME Control, NEW h \in closing, FlushSucceeds(h) \/ FlushFails(h),
         closing' = closing \ {h}, indexed' \in Nat,
         UNCHANGED consumed \/ Use("failures", 1),
         UNCHANGED <<mapped, holder, pc, callVars, acked>>
  PROVE  Control'
<1>1. h \in Opened /\ closing # {}
  BY DEF Control, HandlesInv
<1>2. \A d \in Callers : pc[d] # "register"
  BY <1>1, NobodyCreatesOpen
<1>3. consumed.handles > 0 /\ consumed \in Counters
  BY <1>1, HandleIsOpen DEF Control, CountersInv
<1>4. /\ FileOK(lines', tail', glued') /\ lines' # <<>> /\ HandleTypes'
      /\ \A g \in Opened : view'[g] # <<>>
      /\ \A g \in Handles : StartsWell(view'[g])
  <2>1. CASE FlushSucceeds(h)
    BY <1>1, <2>1, FlushKeepsHandles
  <2>2. CASE FlushFails(h)
    <3>1. /\ FileOK(lines', tail', glued') /\ lines' # <<>>
          /\ UNCHANGED <<view, pendingState, buffered>>
      BY <1>1, <2>2, FailedFlushKeepsHandles DEF handleVars
    <3> QED BY <3>1 DEF Control, HandleTypes, HandlesInv
  <2> QED BY <2>1, <2>2
<1>5. /\ consumed' \in Counters /\ consumed'.handles = consumed.handles
      /\ consumed'.entries = consumed.entries
      /\ consumed'.crashes = consumed.crashes /\ consumed'.evictions = consumed.evictions
  <2>1. CASE Use("failures", 1)
    <3>1. consumed' = [consumed EXCEPT !.failures = consumed.failures + 1]
      BY <2>1 DEF Use
    <3>2. consumed.failures + 1 \in Nat
      BY <1>3, CountersFields
    <3> QED BY <1>3, <3>1, <3>2, CountersSame
  <2> QED BY <1>3, <2>1
<1>6. consumed'.entries >= consumed.entries
  BY <1>3, <1>5, FileStands
<1>7. UNCHANGED <<op, held, loaded, mine>>
  BY DEF callVars
<1>8. TypeInv'
  BY <1>7 DEF Control, TypeInv
<1>9. CallerInv'
  BY <1>2, <1>5, <1>7 DEF Control, CallerInv, Opened
<1>10. closing' \subseteq closing
  OBVIOUS
<1> QED BY <1>2, <1>3, <1>4, <1>5, <1>6, <1>8, <1>9, <1>10, ControlAfterCall

LEMMA CloseEvictedControl ==
  ASSUME Control, NEW h \in Handles, CloseEvicted(h)
  PROVE  Control'
<1>1. /\ h \in closing /\ FlushSucceeds(h) /\ closing' = closing \ {h}
      /\ UNCHANGED consumed \/ Use("failures", 1)
      /\ UNCHANGED <<mapped, holder, pc, callVars, acked>>
      /\ indexed' = Len(view'[h]) \/ UNCHANGED indexed
  BY DEF CloseEvicted
<1>2. h \in Opened
  BY <1>1 DEF Control, HandlesInv
<1>3. HandleTypes'
  BY <1>1, <1>2, FlushKeepsHandles
<1>4. Len(view'[h]) \in Nat
  BY <1>3 DEF HandleTypes
<1>5. indexed' \in Nat
  BY <1>1, <1>4 DEF Control, TypeInv
<1> QED BY <1>1, <1>5, ClosingControl

LEMMA CloseEvictedFailsControl ==
  ASSUME Control, NEW h \in Handles, CloseEvictedFails(h)
  PROVE  Control'
<1>1. indexed' \in Nat
  BY DEF CloseEvictedFails, Control, TypeInv
<1> QED BY <1>1, ClosingControl DEF CloseEvictedFails

LEMMA ProcessEndsControl ==
  ASSUME Control, ProcessEnds, HandleTypes',
         FileOK(lines', tail', glued'), consumed.handles > 0 => lines' # <<>>,
         \A g \in Opened : view'[g] # <<>>, \A g \in Handles : StartsWell(view'[g]),
         indexed' \in Nat, indexed' > 0 => consumed.handles > 0,
         consumed.entries = 0 =>
           /\ ~glued' /\ lines' = <<>>
           /\ \A h \in Handles : pendingState'[h] = <<>> /\ buffered'[h] = <<>>
  PROVE  Control'
<1>1. /\ consumed.crashes < MaxCrashes /\ mapped' = Nobody /\ closing' = {}
      /\ holder' = [h \in Handles |-> Nobody] /\ pc' = [c \in Callers |-> "idle"]
      /\ held' = [c \in Callers |-> Nobody] /\ loaded' = [c \in Callers |-> <<>>]
      /\ mine' = [c \in Callers |-> {}] /\ op' = op /\ acked' = acked
  BY DEF ProcessEnds
<1>2. consumed \in Counters
  BY DEF Control, CountersInv
<1>3. /\ consumed' \in Counters /\ consumed'.entries = consumed.entries
      /\ consumed'.handles = consumed.handles /\ consumed'.evictions = consumed.evictions
      /\ consumed'.crashes = consumed.crashes + 1
  <2>1. consumed' = [consumed EXCEPT !.crashes = consumed.crashes + 1]
    BY DEF ProcessEnds, Use
  <2>2. consumed.crashes + 1 \in Nat
    BY <1>2, CountersFields
  <2> QED BY <1>2, <2>1, <2>2, CountersSame
<1>4. Opened' = Opened
  BY <1>3 DEF Opened
<1>5. CountersInv'
  <2>1. consumed'.crashes <= MaxCrashes /\ consumed'.evictions <= MaxEvictions
    <3>1. consumed.crashes \in Nat /\ consumed.evictions <= MaxEvictions
      BY <1>2, CountersFields DEF Control, CountersInv
    <3> QED BY <1>1, <1>3, <3>1, StoreConstantsOK
  <2>2. consumed'.handles > 0 => consumed'.entries > 0
    BY <1>3 DEF Control, CountersInv
  <2>3. indexed' > 0 => consumed'.handles > 0
    BY <1>3
  <2>4. consumed'.entries = 0 =>
          /\ ~glued' /\ lines' = <<>> /\ \A c \in Callers : pc'[c] = "idle"
          /\ \A h \in Handles : pendingState'[h] = <<>> /\ buffered'[h] = <<>>
    BY <1>1, <1>3
  <2> QED BY <1>3, <2>1, <2>2, <2>3, <2>4 DEF CountersInv
<1>6. HandlesInv'
  <2>1. consumed.handles <= 1 + consumed.crashes + consumed.evictions
    BY DEF Control, HandlesInv
  <2>2. /\ consumed'.handles <= consumed'.crashes + consumed'.evictions
        /\ consumed'.handles <= 1 + consumed'.crashes + consumed'.evictions
    BY <1>2, <1>3, <2>1, CountersFields
  <2> QED BY <1>1, <1>4, <2>2 DEF HandlesInv
<1>7. CallerInv'
  <2>1. StartsWell(<<>>)
    BY DEF StartsWell
  <2> QED BY <1>1, <2>1 DEF CallerInv, Busy
<1>8. TypeInv'
  <2>1. IsFiniteSet({}) /\ <<>> \in Seq(Entry)
    BY FS_EmptySet
  <2> QED BY <1>1, <2>1 DEF Control, TypeInv
<1>9. FileInv'
  BY <1>3 DEF FileInv
<1> QED BY <1>5, <1>6, <1>7, <1>8, <1>9 DEF Control

LEMMA KillProcessControl ==
  ASSUME Control, KillProcess
  PROVE  Control'
<1>1. ProcessEnds /\ UNCHANGED <<lines, tail, glued, indexed, view, pendingState, buffered>>
  BY DEF KillProcess, fileVars, handleVars
<1>2. HandleTypes'
  BY <1>1 DEF Control, HandleTypes
<1>3. FileOK(lines', tail', glued') /\ (consumed.handles > 0 => lines' # <<>>)
  BY <1>1 DEF Control, FileInv
<1>4. /\ \A g \in Opened : view'[g] # <<>>
      /\ \A g \in Handles : StartsWell(view'[g])
  BY <1>1 DEF Control, HandlesInv
<1>5. indexed' \in Nat
  BY <1>1 DEF Control, TypeInv
<1>6. /\ indexed' > 0 => consumed.handles > 0
      /\ consumed.entries = 0 =>
           /\ ~glued' /\ lines' = <<>>
           /\ \A h \in Handles : pendingState'[h] = <<>> /\ buffered'[h] = <<>>
  BY <1>1 DEF Control, CountersInv
<1> QED BY <1>1, <1>2, <1>3, <1>4, <1>5, <1>6, ProcessEndsControl

LEMMA ShutdownStoreControl ==
  ASSUME Control, ShutdownStore
  PROVE  Control'
<1>1. mapped # Nobody /\ FlushSucceeds(mapped) /\ indexed' = Len(view'[mapped]) /\ ProcessEnds
  BY DEF ShutdownStore
<1>2. mapped \in Opened
  BY <1>1 DEF Control, HandlesInv
<1>3. mapped \in Handles /\ consumed.handles > 0
  BY <1>2, HandleIsOpen DEF Control
<1>4. /\ FileOK(lines', tail', glued') /\ lines' # <<>> /\ HandleTypes'
      /\ \A g \in Opened : view'[g] # <<>>
      /\ \A g \in Handles : StartsWell(view'[g])
  BY <1>1, <1>2, FlushKeepsHandles
<1>5. indexed' \in Nat
  BY <1>1, <1>3, <1>4 DEF HandleTypes
<1>6. consumed.entries # 0
  <2>1. consumed.entries > 0 /\ consumed.entries \in Nat
    BY <1>3, CountersFields DEF Control, CountersInv
  <2> QED BY <2>1
<1> QED BY <1>1, <1>3, <1>4, <1>5, <1>6, ProcessEndsControl

(* Before the session is created there is nothing.                          *)
LEMMA NothingYet ==
  ASSUME Control, consumed.entries = 0
  PROVE  /\ consumed.handles = 0 /\ indexed = 0 /\ lines = <<>> /\ tail = Clean /\ ~glued
         /\ mapped = Nobody /\ closing = {} /\ Opened = {}
         /\ \A c \in Callers : pc[c] = "idle" /\ held[c] = Nobody
         /\ \A h \in Handles : pendingState[h] = <<>> /\ buffered[h] = <<>>
         /\ consumed \in Counters
<1>1. /\ consumed \in Counters /\ ~glued /\ lines = <<>>
      /\ \A c \in Callers : pc[c] = "idle"
      /\ \A h \in Handles : pendingState[h] = <<>> /\ buffered[h] = <<>>
  BY DEF Control, CountersInv
<1>2. consumed.handles = 0
  <2>1. consumed.handles \in Nat /\ ~(consumed.entries > 0)
    BY <1>1, CountersFields
  <2>2. ~(consumed.handles > 0)
    BY <2>1 DEF Control, CountersInv
  <2> QED BY <2>1, <2>2
<1>3. indexed = 0
  <2>1. indexed \in Nat /\ ~(consumed.handles > 0)
    BY <1>2 DEF Control, TypeInv
  <2>2. ~(indexed > 0)
    BY <2>1 DEF Control, CountersInv
  <2> QED BY <2>1, <2>2
<1>4. Opened = {}
  BY <1>2 DEF Opened
<1>5. mapped = Nobody /\ closing = {}
  BY <1>4 DEF Control, HandlesInv
<1>6. \A c \in Callers : held[c] = Nobody
  BY <1>4 DEF Control, CallerInv
<1>7. tail = Clean
  BY <1>1 DEF Control, FileInv, FileOK
<1> QED BY <1>1, <1>2, <1>3, <1>4, <1>5, <1>6, <1>7

LEMMA HeaderBatch ==
  /\ <<Header>> \in Seq(Entry) /\ Len(<<Header>>) = 1 /\ <<Header>> # <<>>
  /\ StartsWell(<<Header>>) /\ ToSet(<<Header>>) = {Header}
  /\ {Header} \subseteq Entry /\ IsFiniteSet({Header})
<1>1. Header \in Entry
  BY EntryShape
<1>2. IsFiniteSet({Header})
  BY FS_Singleton
<1> QED BY <1>1, <1>2 DEF StartsWell, ToSet

LEMMA CreatePersistControl ==
  ASSUME Control, NEW c \in Callers, CreatePersist(c)
  PROVE  Control'
<1>1. /\ consumed.entries = 0 /\ WriteSucceeds(<<Header>>) /\ OpenHandle(1, <<Header>>)
      /\ held' = [held EXCEPT ![c] = 1] /\ mine' = [mine EXCEPT ![c] = {Header}]
      /\ consumed' = [consumed EXCEPT !.entries = 1, !.handles = 1]
      /\ pc' = [pc EXCEPT ![c] = "register"]
      /\ UNCHANGED <<indexed, mapped, closing, holder, op, loaded, acked>>
  BY DEF CreatePersist, Goto
<1>2. /\ consumed.handles = 0 /\ indexed = 0 /\ lines = <<>> /\ tail = Clean /\ ~glued
      /\ mapped = Nobody /\ closing = {} /\ Opened = {}
      /\ \A d \in Callers : pc[d] = "idle" /\ held[d] = Nobody
      /\ consumed \in Counters
  BY <1>1, NothingYet
<1>3. FileOK(lines', tail', glued') /\ lines' # <<>>
  <2>1. Written(<<Header>>, 1, Clean)
    BY <1>1, HeaderBatch DEF WriteSucceeds
  <2>2. 1 \in 0..Len(<<Header>>) /\ FileOK(lines, tail, glued)
    BY HeaderBatch DEF Control, FileInv
  <2>3. StartsWell(IF lines = <<>> THEN <<Header>> ELSE <<>>)
    BY <1>2, HeaderBatch
  <2>4. /\ FileOK(lines', tail', glued')
        /\ lines = <<>> /\ 1 > 0 => lines' # <<>>
    BY <2>1, <2>2, <2>3, HeaderBatch, WrittenTypes
  <2> QED BY <1>2, <2>4
<1>4. /\ consumed' \in Counters /\ consumed'.entries = 1 /\ consumed'.handles = 1
      /\ consumed'.crashes = consumed.crashes /\ consumed'.evictions = consumed.evictions
  <2> DEFINE r == [consumed EXCEPT !.entries = 1]
  <2>1. /\ r \in Counters /\ r.entries = 1
        /\ r.crashes = consumed.crashes /\ r.evictions = consumed.evictions
    <3>1. consumed \in Counters /\ 1 \in Nat
      BY <1>2
    <3> QED BY <3>1, CountersSame
  <2>2. consumed' = [r EXCEPT !.handles = 1]
    BY <1>1
  <2> HIDE DEF r
  <2> QED BY <2>1, <2>2, CountersSame
<1>5. 1 \in Handles /\ Opened' = {1}
  <2>1. 1 \in Handles
    BY StoreConstantsOK DEF Handles
  <2> QED BY <1>4, <2>1 DEF Opened
<1>6. /\ view' = [view EXCEPT ![1] = <<Header>>]
      /\ pendingState' = [pendingState EXCEPT ![1] = <<>>]
      /\ buffered' = [buffered EXCEPT ![1] = <<>>]
  BY <1>1 DEF OpenHandle
<1>7. HandleTypes'
  <2>1. <<>> \in Seq(Entry)
    OBVIOUS
  <2> QED BY <1>5, <1>6, <2>1, HeaderBatch DEF Control, HandleTypes
<1>8. TypeInv'
  BY <1>1, <1>5, HeaderBatch DEF Control, TypeInv
<1>9. CountersInv'
  <2>1. consumed'.crashes <= MaxCrashes /\ consumed'.evictions <= MaxEvictions
    BY <1>4 DEF Control, CountersInv
  <2>2. consumed'.entries > 0 /\ consumed'.handles > 0
    BY <1>4
  <2> QED BY <1>4, <2>1, <2>2, CountersHold
<1>10. HandlesInv'
  <2>1. (\A g \in Opened' : view'[g] # <<>>) /\ \A g \in Handles : StartsWell(view'[g])
    BY <1>5, <1>6, HeaderBatch DEF Control, HandleTypes, HandlesInv
  <2>2. consumed'.handles <= 1 + consumed'.crashes + consumed'.evictions
    BY <1>2, <1>4, CountersFields
  <2>3. pc'[c] = "register"
    BY <1>1 DEF Control, TypeInv
  <2> QED BY <1>1, <1>2, <2>1, <2>2, <2>3 DEF HandlesInv
<1>11. CallerInv'
  <2> SUFFICES ASSUME NEW d \in Callers
               PROVE  /\ held'[d] \in Opened' \cup {Nobody}
                      /\ pc'[d] \in Busy => held'[d] # Nobody
                      /\ pc'[d] \notin {"recover", "write", "load", "insert"}
                      /\ StartsWell(loaded'[d])
                      /\ pc'[d] = "register" =>
                           /\ mapped' = Nobody /\ indexed' = 0 /\ closing' = {}
                           /\ consumed'.handles = 1
                           /\ \A e \in Callers \ {d} : pc'[e] = "idle"
    BY DEF CallerInv
  <2>1. StartsWell(loaded'[d])
    BY <1>1 DEF Control, CallerInv
  <2>2. /\ pc'[c] = "register" /\ held'[c] = 1
        /\ \A e \in Callers \ {c} : pc'[e] = "idle" /\ held'[e] = Nobody
    BY <1>1, <1>2 DEF Control, TypeInv
  <2>3. 1 # Nobody
    BY StoreConstantsOK
  <2>4. d = c \/ d \in Callers \ {c}
    OBVIOUS
  <2> QED BY <1>1, <1>2, <1>4, <1>5, <2>1, <2>2, <2>3, <2>4 DEF Busy
<1>12. FileInv'
  BY <1>3 DEF FileInv
<1> QED BY <1>7, <1>8, <1>9, <1>10, <1>11, <1>12 DEF Control

LEMMA CreateFailsControl ==
  ASSUME Control, NEW c \in Callers, CreateFails(c)
  PROVE  Control'
<1>1. /\ consumed.entries = 0
      /\ consumed' = [consumed EXCEPT !.entries = 1, !.failures = @ + 1]
      /\ UNCHANGED <<indexed, mapped, closing, view, pendingState, buffered, holder>>
      /\ UNCHANGED <<pc, op, held, loaded, mine, acked>>
  BY DEF CreateFails, handleVars, callVars
<1>2. /\ consumed.handles = 0 /\ indexed = 0 /\ lines = <<>> /\ mapped = Nobody /\ Opened = {}
      /\ \A d \in Callers : pc[d] = "idle" /\ held[d] = Nobody
      /\ consumed \in Counters
  BY <1>1, NothingYet
<1>3. FileOK(lines', tail', glued')
  <2>1. PICK n \in {0, 1} : Written(<<Header>>, n, Clean)
    BY DEF CreateFails
  <2>2. n \in 0..Len(<<Header>>) /\ FileOK(lines, tail, glued)
    BY HeaderBatch DEF Control, FileInv
  <2>3. StartsWell(IF lines = <<>> THEN <<Header>> ELSE <<>>)
    BY <1>2, HeaderBatch
  <2> QED BY <1>2, <2>1, <2>2, <2>3, HeaderBatch, WrittenTypes
<1>4. /\ consumed' \in Counters /\ consumed'.entries = 1 /\ consumed'.handles = 0
      /\ consumed'.crashes = consumed.crashes /\ consumed'.evictions = consumed.evictions
  <2> DEFINE r == [consumed EXCEPT !.entries = 1]
             m == consumed.failures + 1
  <2>1. /\ r \in Counters /\ r.entries = 1 /\ r.handles = 0
        /\ r.crashes = consumed.crashes /\ r.evictions = consumed.evictions
    <3>1. consumed \in Counters /\ 1 \in Nat
      BY <1>2
    <3>2. /\ r \in Counters /\ r.entries = 1 /\ r.handles = consumed.handles
          /\ r.crashes = consumed.crashes /\ r.evictions = consumed.evictions
      BY <3>1, CountersSame
    <3> QED BY <1>2, <3>2
  <2>2. consumed' = [r EXCEPT !.failures = m] /\ m \in Nat
    BY <1>1, <1>2, CountersFields
  <2> HIDE DEF r, m
  <2> QED BY <2>1, <2>2, CountersSame
<1>5. Opened' = {}
  BY <1>4 DEF Opened
<1>6. CountersInv'
  <2>1. consumed'.crashes <= MaxCrashes /\ consumed'.evictions <= MaxEvictions
    BY <1>4 DEF Control, CountersInv
  <2>2. consumed'.entries # 0 /\ ~(consumed'.handles > 0)
    BY <1>4
  <2>3. ~(indexed' > 0)
    BY <1>1, <1>2
  <2> QED BY <1>4, <2>1, <2>2, <2>3 DEF CountersInv
<1>7. HandlesInv'
  <2>1. /\ consumed'.handles <= 1 + consumed'.crashes + consumed'.evictions
        /\ consumed'.handles <= consumed'.crashes + consumed'.evictions
    BY <1>2, <1>4, CountersFields
  <2>2. \A h \in Handles : StartsWell(view'[h])
    BY <1>1 DEF Control, HandlesInv
  <2>3. mapped' = Nobody /\ closing' = {}
    BY <1>1, <1>2, NothingYet
  <2> QED BY <1>5, <2>1, <2>2, <2>3 DEF HandlesInv
<1>8. CallerInv'
  BY <1>1, <1>2 DEF Control, CallerInv, Busy
<1>9. TypeInv' /\ HandleTypes'
  BY <1>1 DEF Control, TypeInv, HandleTypes
<1>10. FileInv'
  BY <1>3, <1>4 DEF FileInv
<1> QED BY <1>6, <1>7, <1>8, <1>9, <1>10 DEF Control

LEMMA StutterControl ==
  ASSUME Control, UNCHANGED storeVars
  PROVE  Control'
<1>1. /\ UNCHANGED <<lines, tail, glued, indexed, mapped, closing, view, pendingState, buffered>>
      /\ UNCHANGED <<holder, pc, op, held, loaded, mine, acked, consumed>>
  BY DEF storeVars
<1>2. FileInv' /\ HandleTypes'
  BY <1>1 DEF Control, FileInv, FileOK, StartsWell, HandleTypes
<1>3. TypeInv'
  BY <1>1 DEF Control, TypeInv
<1>4. CountersInv'
  BY <1>1 DEF Control, CountersInv
<1>5. HandlesInv'
  BY <1>1 DEF Control, HandlesInv, Opened, StartsWell
<1>6. CallerInv'
  BY <1>1 DEF Control, CallerInv, Opened
<1> QED BY <1>2, <1>3, <1>4, <1>5, <1>6 DEF Control

LEMMA NextControl ==
  ASSUME Control, [StoreNext]_storeVars
  PROVE  Control'
<1>1. ASSUME NEW c \in Callers, CreatePersist(c) \/ CreateFails(c) PROVE Control'
  BY <1>1, CreatePersistControl, CreateFailsControl
<1>2. ASSUME NEW c \in Callers, NEW kind \in Kinds, Lookup(c, kind) PROVE Control'
  BY <1>2, LookupControl
<1>3. ASSUME NEW c \in Callers, Acquire(c) PROVE Control'
  BY <1>3, AcquireControl
<1>4. ASSUME NEW c \in Callers, Continue(c) PROVE Control'
  BY <1>4, CreateRegisterControl, LoadFileControl, InsertHandleControl,
     InsertHandleFailsControl, RecoverControl, RecoverFailsControl, WriteEntriesControl,
     WriteEntriesFailsControl, FlushControl, FlushCallFailsControl, UpsertIndexControl,
     UpsertIndexFailsControl DEF Continue
<1>5. ASSUME NEW c \in Callers, CallDropped(c) PROVE Control'
  BY <1>5, CallDroppedControl
<1>6. ASSUME NEW h \in Handles, CloseEvicted(h) \/ CloseEvictedFails(h) PROVE Control'
  BY <1>6, CloseEvictedControl, CloseEvictedFailsControl
<1> QED BY <1>1, <1>2, <1>3, <1>4, <1>5, <1>6, EvictControl, KillProcessControl,
           ShutdownStoreControl, StutterControl DEF StoreNext

(* Every step keeps the data, as long as no line joined another one *)

LEMMA DataHolds ==
  ASSUME NEW K, \A x, y \in K : x.id = y.id => x = y,
         \A x \in K : x.id <= consumed'.entries,
         ToSet(OnFile') \subseteq K, \A h \in Handles : ToSet(buffered'[h]) \subseteq K,
         Grounded(OnFile'), TargetsIn(OnFile', OnFile'),
         \A h \in Handles : HandleData(OnFile', view'[h], pendingState'[h], buffered'[h]),
         \A c \in Callers : ToSet(loaded'[c]) \cup mine'[c] \subseteq ToSet(OnFile'),
         acked' \subseteq ToSet(OnFile')
  PROVE  DataOK'
<1>1. Known' \subseteq K
  BY DEF Known
<1>2. /\ \A x, y \in Known' : x.id = y.id => x = y
      /\ \A x \in Known' : x.id <= consumed'.entries
  BY <1>1
<1> QED BY <1>2 DEF DataOK

(* A step that does not write.                                              *)
LEMMA DataWithoutWrite ==
  ASSUME DataOK, UNCHANGED <<lines, tail>>, consumed'.entries = consumed.entries,
         \A h \in Handles : ToSet(buffered'[h]) \subseteq ToSet(buffered[h]),
         \A h \in Handles : HandleData(OnFile, view'[h], pendingState'[h], buffered'[h]),
         \A c \in Callers : ToSet(loaded'[c]) \cup mine'[c] \subseteq ToSet(OnFile),
         acked' \subseteq ToSet(OnFile)
  PROVE  DataOK'
<1>1. OnFile' = OnFile
  BY DEF OnFile
<1>2. ToSet(OnFile) \subseteq Known /\ \A h \in Handles : ToSet(buffered'[h]) \subseteq Known
  BY DEF Known
<1>3. /\ Grounded(OnFile) /\ TargetsIn(OnFile, OnFile)
      /\ \A x, y \in Known : x.id = y.id => x = y
      /\ \A x \in Known : x.id <= consumed'.entries
  BY DEF DataOK
<1> HIDE DEF OnFile, DataOK, Known
<1> QED BY <1>1, <1>2, <1>3, DataHolds

LEMMA DataUntouched ==
  ASSUME DataOK, UNCHANGED <<lines, tail, view, pendingState, buffered>>,
         consumed'.entries = consumed.entries,
         \A c \in Callers : ToSet(loaded'[c]) \cup mine'[c] \subseteq ToSet(OnFile),
         acked' \subseteq ToSet(OnFile)
  PROVE  DataOK'
<1>1. \A h \in Handles : HandleData(OnFile, view'[h], pendingState'[h], buffered'[h])
  BY DEF DataOK
<1> QED BY <1>1, DataWithoutWrite

LEMMA ToSetOfNothing == ToSet(<<>>) = {}
BY DEF ToSet

(* A caller's data after it left, or stood still.                           *)
LEMMA DataOfCallers ==
  ASSUME DataOK,
         \A c \in Callers : loaded'[c] \in {loaded[c], <<>>} /\ mine'[c] \in {mine[c], {}}
  PROVE  \A c \in Callers : ToSet(loaded'[c]) \cup mine'[c] \subseteq ToSet(OnFile)
BY ToSetOfNothing DEF DataOK

LEMMA LeaveData ==
  ASSUME Control, NEW c \in Callers, Leave(c)
  PROVE  \A d \in Callers : loaded'[d] \in {loaded[d], <<>>} /\ mine'[d] \in {mine[d], {}}
BY DEF Control, TypeInv, Leave

(* What a write of fresh entries does, whether it succeeds or fails.        *)
LEMMA BatchWritten ==
  ASSUME Control, DataOK, ~glued', NEW h \in Handles,
         NEW new, FreshOn(OnFile, consumed.entries, new),
         WriteSucceeds(buffered[h] \o new) \/ WriteFails(buffered[h] \o new),
         consumed'.entries = consumed.entries + Len(new)
  PROVE  /\ OnFile \in Seq(Entry) /\ OnFile' \in Seq(Entry)
         /\ Len(OnFile) <= Len(OnFile') /\ \A i \in 1..Len(OnFile) : OnFile'[i] = OnFile[i]
         /\ ToSet(OnFile) \subseteq ToSet(OnFile') /\ IdsOf(OnFile) \subseteq IdsOf(OnFile')
         /\ ToSet(OnFile') \subseteq Known \cup ToSet(new)
         /\ WriteSucceeds(buffered[h] \o new)
              => ToSet(buffered[h]) \cup ToSet(new) \subseteq ToSet(OnFile')
         /\ Grounded(OnFile') /\ TargetsIn(OnFile', OnFile')
         /\ \A x, y \in Known \cup ToSet(new) : x.id = y.id => x = y
         /\ \A x \in Known \cup ToSet(new) : x.id <= consumed'.entries
         /\ GroundedOn(OnFile, buffered[h] \o new) /\ TargetsIn(OnFile, buffered[h] \o new)
<1> DEFINE batch == buffered[h] \o new
           Same(file) == /\ Len(OnFile) <= Len(file) /\ \A i \in 1..Len(OnFile) : file[i] = OnFile[i]
<1>1. /\ FileOK(lines, tail, glued) /\ consumed.entries \in Nat
      /\ \A g \in Handles : buffered[g] \in Seq(Entry)
  BY CountersFields DEF Control, FileInv, CountersInv, HandleTypes
<1>2. batch \in Seq(Entry) /\ Len(batch) \in Nat
  BY <1>1 DEF FreshOn
<1>3. ASSUME NEW n \in 0..Len(batch), NEW cut \in Cuts(batch, n), Written(batch, n, cut)
      PROVE  /\ OnFile \in Seq(Entry) /\ OnFile' \in Seq(Entry) /\ Same(OnFile')
             /\ ToSet(OnFile) \subseteq ToSet(OnFile') /\ IdsOf(OnFile) \subseteq IdsOf(OnFile')
             /\ ToSet(OnFile') \subseteq Known \cup ToSet(new)
             /\ n = Len(batch) /\ cut = Clean
                  => ToSet(buffered[h]) \cup ToSet(new) \subseteq ToSet(OnFile')
             /\ Grounded(OnFile') /\ TargetsIn(OnFile', OnFile')
             /\ \A x, y \in Known \cup ToSet(new) : x.id = y.id => x = y
             /\ \A x \in Known \cup ToSet(new) : x.id <= consumed'.entries
             /\ GroundedOn(OnFile, batch) /\ TargetsIn(OnFile, batch)
  BY <1>1, <1>3, DataAfterWrite
<1>4. Len(batch) \in 0..Len(batch) /\ Clean \in Cuts(batch, Len(batch))
  BY <1>2 DEF Cuts
<1> HIDE DEF batch, Same
<1>5. CASE WriteSucceeds(batch)
  <2>1. Written(batch, Len(batch), Clean)
    BY <1>5 DEF WriteSucceeds
  <2> QED BY <1>3, <1>4, <2>1 DEF batch, Same
<1>6. CASE WriteFails(batch) /\ ~WriteSucceeds(batch)
  <2>1. PICK n \in 0..Len(batch) : \E cut \in Cuts(batch, n) : Written(batch, n, cut)
    BY <1>6 DEF WriteFails
  <2>2. PICK cut \in Cuts(batch, n) : Written(batch, n, cut)
    BY <2>1
  <2> QED BY <1>3, <1>6, <2>2 DEF batch, Same
<1> QED BY <1>5, <1>6 DEF batch

(* A step that writes what handle h holds and then fresh entries.           *)
LEMMA DataAfterBatch ==
  ASSUME Control, DataOK, ~glued', NEW h \in Handles,
         NEW new, FreshOn(OnFile, consumed.entries, new),
         WriteSucceeds(buffered[h] \o new) \/ WriteFails(buffered[h] \o new),
         consumed'.entries = consumed.entries + Len(new),
         \A g \in Handles \ {h} : /\ view'[g] = view[g] /\ pendingState'[g] = pendingState[g]
                                  /\ buffered'[g] = buffered[g],
         HandleData(OnFile', view'[h], pendingState'[h], buffered'[h]),
         ToSet(buffered'[h]) \subseteq ToSet(buffered[h]) \cup ToSet(new),
         \A c \in Callers : ToSet(loaded'[c]) \cup mine'[c] \subseteq ToSet(OnFile'),
         acked' = acked
  PROVE  DataOK'
<1> DEFINE K == Known \cup ToSet(new)
<1>1. /\ ToSet(OnFile) \subseteq ToSet(OnFile') /\ IdsOf(OnFile) \subseteq IdsOf(OnFile')
      /\ ToSet(OnFile') \subseteq K
      /\ Grounded(OnFile') /\ TargetsIn(OnFile', OnFile')
      /\ \A x, y \in K : x.id = y.id => x = y
      /\ \A x \in K : x.id <= consumed'.entries
  BY BatchWritten
<1>2. \A g \in Handles : HandleData(OnFile', view'[g], pendingState'[g], buffered'[g])
  <2> SUFFICES ASSUME NEW g \in Handles \ {h}
               PROVE  HandleData(OnFile', view'[g], pendingState'[g], buffered'[g])
    OBVIOUS
  <2>1. HandleData(OnFile, view[g], pendingState[g], buffered[g])
    BY DEF DataOK
  <2>2. HandleData(OnFile', view[g], pendingState[g], buffered[g])
    BY <1>1, <2>1, HandleMonotone
  <2> QED BY <2>2
<1>3. \A g \in Handles : ToSet(buffered'[g]) \subseteq K
  BY DEF Known
<1>4. acked' \subseteq ToSet(OnFile')
  BY <1>1 DEF DataOK
<1> HIDE DEF K
<1> QED BY <1>1, <1>2, <1>3, <1>4, DataHolds

(* What the handle may then hold.                                           *)
LEMMA HandleAfterSuccess ==
  ASSUME Control, DataOK, ~glued', NEW h \in Handles,
         NEW new, FreshOn(OnFile, consumed.entries, new),
         WriteSucceeds(buffered[h] \o new),
         consumed'.entries = consumed.entries + Len(new)
  PROVE  /\ HandleData(OnFile', view[h] \o pendingState[h], <<>>, <<>>)
         /\ HandleData(OnFile', view[h] \o new, pendingState[h], <<>>)
         /\ HandleData(OnFile', view[h], pendingState[h], <<>>)
         /\ ToSet(new) \subseteq ToSet(OnFile') /\ ToSet(OnFile) \subseteq ToSet(OnFile')
<1>1. /\ ToSet(OnFile) \subseteq ToSet(OnFile')
      /\ ToSet(buffered[h]) \cup ToSet(new) \subseteq ToSet(OnFile')
  BY BatchWritten
<1>2. ToSet(view[h]) \subseteq ToSet(OnFile) /\ ToSet(pendingState[h]) \subseteq ToSet(OnFile) \cup ToSet(buffered[h])
  BY DEF DataOK, HandleData
<1>3. /\ ToSet(view[h] \o pendingState[h]) = ToSet(view[h]) \cup ToSet(pendingState[h])
      /\ ToSet(view[h] \o new) = ToSet(view[h]) \cup ToSet(new)
  BY ConcatSets DEF Control, HandleTypes, FreshOn
<1>4. GroundedOn(OnFile', <<>>) /\ TargetsIn(OnFile', <<>>)
  BY DEF GroundedOn, TargetsIn
<1> QED BY <1>1, <1>2, <1>3, <1>4, ToSetOfNothing DEF HandleData

LEMMA HandleAfterFailure ==
  ASSUME Control, DataOK, ~glued', NEW h \in Handles,
         NEW new, FreshOn(OnFile, consumed.entries, new),
         WriteFails(buffered[h] \o new),
         consumed'.entries = consumed.entries + Len(new)
  PROVE  /\ HandleData(OnFile', view[h], pendingState[h] \o new, buffered[h] \o new)
         /\ ToSet(buffered[h] \o new) = ToSet(buffered[h]) \cup ToSet(new)
         /\ ToSet(OnFile) \subseteq ToSet(OnFile')
<1>1. /\ ToSet(OnFile) \subseteq ToSet(OnFile') /\ IdsOf(OnFile) \subseteq IdsOf(OnFile')
      /\ GroundedOn(OnFile, buffered[h] \o new) /\ TargetsIn(OnFile, buffered[h] \o new)
  BY BatchWritten
<1>2. ToSet(view[h]) \subseteq ToSet(OnFile) /\ ToSet(pendingState[h]) \subseteq ToSet(OnFile) \cup ToSet(buffered[h])
  BY DEF DataOK, HandleData
<1>3. /\ ToSet(pendingState[h] \o new) = ToSet(pendingState[h]) \cup ToSet(new)
      /\ ToSet(buffered[h] \o new) = ToSet(buffered[h]) \cup ToSet(new)
  BY ConcatSets DEF Control, HandleTypes, FreshOn
<1>4. HandleData(OnFile, view[h], pendingState[h] \o new, buffered[h] \o new)
  BY <1>1, <1>2, <1>3 DEF HandleData
<1> QED BY <1>1, <1>3, <1>4, HandleMonotone

LEMMA NothingIsFresh ==
  ASSUME NEW f, NEW spent, NEW b \in Seq(Entry)
  PROVE  FreshOn(f, spent, <<>>) /\ b \o <<>> = b /\ Len(<<>>) = 0
BY DEF FreshOn, GroundedOn, TargetsIn

LEMMA FlushData ==
  ASSUME Control, DataOK, ~glued', NEW h \in Opened, FlushSucceeds(h),
         consumed'.entries = consumed.entries,
         \A c \in Callers : /\ loaded'[c] \in {loaded[c], <<>>}
                            /\ mine'[c] \in {mine[c], {}, ToSet(view'[h])},
         acked' = acked
  PROVE  DataOK'
<1>1. h \in Handles
  BY HandleIsOpen DEF Control
<1>2. /\ WriteSucceeds(buffered[h])
      /\ buffered' = [buffered EXCEPT ![h] = <<>>]
      /\ view' = [view EXCEPT ![h] = @ \o pendingState[h]]
      /\ pendingState' = [pendingState EXCEPT ![h] = <<>>]
  BY DEF FlushSucceeds
<1>3. /\ DOMAIN view = Handles /\ DOMAIN pendingState = Handles /\ DOMAIN buffered = Handles
      /\ buffered[h] \in Seq(Entry) /\ consumed.entries \in Nat
  BY <1>1, CountersFields DEF Control, HandleTypes, CountersInv
<1>4. /\ FreshOn(OnFile, consumed.entries, <<>>) /\ WriteSucceeds(buffered[h] \o <<>>)
      /\ consumed'.entries = consumed.entries + Len(<<>>)
  BY <1>2, <1>3, NothingIsFresh
<1>5. /\ HandleData(OnFile', view[h] \o pendingState[h], <<>>, <<>>)
      /\ ToSet(OnFile) \subseteq ToSet(OnFile')
  BY <1>1, <1>4, HandleAfterSuccess
<1>6. /\ view'[h] = view[h] \o pendingState[h] /\ pendingState'[h] = <<>> /\ buffered'[h] = <<>>
      /\ \A g \in Handles \ {h} : /\ view'[g] = view[g] /\ pendingState'[g] = pendingState[g]
                                  /\ buffered'[g] = buffered[g]
  BY <1>1, <1>2, <1>3
<1>7. \A c \in Callers : ToSet(loaded'[c]) \cup mine'[c] \subseteq ToSet(OnFile')
  <2>1. ToSet(view'[h]) \subseteq ToSet(OnFile')
    BY <1>5, <1>6 DEF HandleData
  <2> QED BY <1>5, <2>1, ToSetOfNothing DEF DataOK
<1> QED BY <1>1, <1>4, <1>5, <1>6, <1>7, ToSetOfNothing, DataAfterBatch

LEMMA FailedFlushData ==
  ASSUME Control, DataOK, ~glued', NEW h \in Opened, FlushFails(h),
         consumed'.entries = consumed.entries,
         \A c \in Callers : loaded'[c] \in {loaded[c], <<>>} /\ mine'[c] \in {mine[c], {}},
         acked' = acked
  PROVE  DataOK'
<1>1. h \in Handles
  BY HandleIsOpen DEF Control
<1>2. WriteFails(buffered[h]) /\ UNCHANGED <<view, pendingState, buffered>>
  BY DEF FlushFails, handleVars
<1>3. buffered[h] \in Seq(Entry) /\ pendingState[h] \in Seq(Entry) /\ consumed.entries \in Nat
  BY <1>1, CountersFields DEF Control, HandleTypes, CountersInv
<1>4. /\ FreshOn(OnFile, consumed.entries, <<>>) /\ WriteFails(buffered[h] \o <<>>)
      /\ consumed'.entries = consumed.entries + Len(<<>>)
      /\ buffered[h] \o <<>> = buffered[h] /\ pendingState[h] \o <<>> = pendingState[h]
  BY <1>2, <1>3, NothingIsFresh
<1>5. /\ HandleData(OnFile', view[h], pendingState[h], buffered[h])
      /\ ToSet(OnFile) \subseteq ToSet(OnFile')
  BY <1>1, <1>4, HandleAfterFailure
<1>6. \A c \in Callers : ToSet(loaded'[c]) \cup mine'[c] \subseteq ToSet(OnFile')
  BY <1>5, DataOfCallers
<1> QED BY <1>1, <1>2, <1>4, <1>5, <1>6, DataAfterBatch

LEMMA FreshForCall ==
  ASSUME Control, DataOK, NEW c \in Callers, pc[c] = "write", NEW batch, batch \in NewEntries(c)
  PROVE  FreshOn(OnFile, consumed.entries, batch)
<1>1. /\ view[held[c]] \in Seq(Entry) /\ view[held[c]] # <<>> /\ StartsWell(view[held[c]])
      /\ held[c] \in Handles /\ consumed \in Counters
  BY CallerHasHandle
<1>2. op[c] \in {"append", "append two", "leaf"} /\ consumed.entries \in Nat
  BY <1>1, CountersFields DEF Control, CallerInv
<1>3. ToSet(view[held[c]]) \subseteq ToSet(OnFile)
  BY <1>1 DEF DataOK, HandleData
<1>4. TargetsIn(OnFile, view[held[c]])
  <2>1. \A e \in ToSet(OnFile) : e.target \in IdsOf(OnFile) \cup {0}
    BY DEF DataOK, TargetsIn, ToSet
  <2>2. \A i \in DOMAIN view[held[c]] : view[held[c]][i] \in ToSet(view[held[c]])
    BY DEF ToSet
  <2> QED BY <1>3, <2>1, <2>2 DEF TargetsIn
<1> QED BY <1>1, <1>2, <1>3, <1>4, NewEntriesShape

LEMMA WriteEntriesData ==
  ASSUME Control, DataOK, ~glued', NEW c \in Callers, WriteEntries(c)
  PROVE  DataOK'
<1>1. /\ UNCHANGED <<pendingState, loaded, acked>> /\ pc[c] = "write"
  BY DEF WriteEntries
<1>2. PICK batch : /\ batch \in NewEntries(c)
                   /\ WriteSucceeds(buffered[held[c]] \o batch)
                   /\ buffered' = [buffered EXCEPT ![held[c]] = <<>>]
                   /\ view' = [view EXCEPT ![held[c]] = @ \o batch]
                   /\ mine' = [mine EXCEPT ![c] = ToSet(batch)]
                   /\ Use("entries", Len(batch))
  BY DEF WriteEntries
<1>3. FreshOn(OnFile, consumed.entries, batch)
  BY <1>1, <1>2, FreshForCall
<1>4. held[c] \in Handles /\ consumed \in Counters
  BY <1>1, CallerHasHandle
<1>5. consumed'.entries = consumed.entries + Len(batch)
  <2>1. consumed' = [consumed EXCEPT !.entries = @ + Len(batch)]
    BY <1>2 DEF Use
  <2> QED BY <1>4, <2>1 DEF Counters
<1>6. /\ HandleData(OnFile', view[held[c]] \o batch, pendingState[held[c]], <<>>)
      /\ ToSet(batch) \subseteq ToSet(OnFile') /\ ToSet(OnFile) \subseteq ToSet(OnFile')
  BY <1>2, <1>3, <1>4, <1>5, HandleAfterSuccess
<1>7. /\ view'[held[c]] = view[held[c]] \o batch /\ buffered'[held[c]] = <<>>
      /\ pendingState'[held[c]] = pendingState[held[c]]
      /\ \A g \in Handles \ {held[c]} : /\ view'[g] = view[g] /\ pendingState'[g] = pendingState[g]
                                       /\ buffered'[g] = buffered[g]
  BY <1>1, <1>2, <1>4 DEF Control, HandleTypes
<1>8. \A d \in Callers : ToSet(loaded'[d]) \cup mine'[d] \subseteq ToSet(OnFile')
  <2>1. \A d \in Callers : loaded'[d] = loaded[d] /\ mine'[d] \in {mine[d], ToSet(batch)}
    BY <1>1, <1>2 DEF Control, TypeInv
  <2> QED BY <1>6, <2>1 DEF DataOK
<1>9. acked' = acked
  BY <1>1
<1> QED BY <1>2, <1>3, <1>4, <1>5, <1>6, <1>7, <1>8, <1>9, ToSetOfNothing, DataAfterBatch

LEMMA WriteEntriesFailsData ==
  ASSUME Control, DataOK, ~glued', NEW c \in Callers, WriteEntriesFails(c)
  PROVE  DataOK'
<1>1. UNCHANGED <<view, acked>> /\ pc[c] = "write" /\ Leave(c)
  BY DEF WriteEntriesFails
<1>2. PICK batch :
        /\ batch \in NewEntries(c)
        /\ WriteFails(buffered[held[c]] \o batch)
        /\ buffered' = [buffered EXCEPT ![held[c]] = @ \o batch]
        /\ pendingState' = [pendingState EXCEPT ![held[c]] = @ \o batch]
        /\ consumed' = [consumed EXCEPT !.entries = @ + Len(batch), !.failures = @ + 1]
  BY DEF WriteEntriesFails
<1>3. FreshOn(OnFile, consumed.entries, batch)
  BY <1>1, <1>2, FreshForCall
<1>4. held[c] \in Handles /\ consumed \in Counters
  BY <1>1, CallerHasHandle
<1>5. consumed'.entries = consumed.entries + Len(batch)
  BY <1>2, <1>4 DEF Counters
<1>6. /\ HandleData(OnFile', view[held[c]], pendingState[held[c]] \o batch, buffered[held[c]] \o batch)
      /\ ToSet(buffered[held[c]] \o batch) = ToSet(buffered[held[c]]) \cup ToSet(batch)
      /\ ToSet(OnFile) \subseteq ToSet(OnFile')
  BY <1>2, <1>3, <1>4, <1>5, HandleAfterFailure
<1>7. /\ view'[held[c]] = view[held[c]] /\ buffered'[held[c]] = buffered[held[c]] \o batch
      /\ pendingState'[held[c]] = pendingState[held[c]] \o batch
      /\ \A g \in Handles \ {held[c]} : /\ view'[g] = view[g] /\ pendingState'[g] = pendingState[g]
                                       /\ buffered'[g] = buffered[g]
  BY <1>1, <1>2, <1>4 DEF Control, HandleTypes
<1>8. \A d \in Callers : ToSet(loaded'[d]) \cup mine'[d] \subseteq ToSet(OnFile')
  BY <1>1, <1>6, LeaveData, DataOfCallers
<1>9. acked' = acked
  BY <1>1
<1> QED BY <1>2, <1>3, <1>4, <1>5, <1>6, <1>7, <1>8, <1>9, DataAfterBatch

(* The recorder writes what it was sent by a call that no longer waits.     *)
LEMMA CallDroppedData ==
  ASSUME Control, DataOK, ~glued', NEW c \in Callers, CallDropped(c)
  PROVE  DataOK'
<1>1. UNCHANGED <<view, pendingState, acked>> /\ Leave(c) /\ acked' = acked
  BY DEF CallDropped
<1>2. consumed \in Counters /\ consumed.entries \in Nat
  BY CountersFields DEF Control, CountersInv
<1>3. \A d \in Callers : loaded'[d] \in {loaded[d], <<>>} /\ mine'[d] \in {mine[d], {}}
  BY <1>1, LeaveData
<1>4. \A d \in Callers : ToSet(loaded'[d]) \cup mine'[d] \subseteq ToSet(OnFile)
  BY <1>3, DataOfCallers
<1>5. ASSUME Use("drops", 1) PROVE consumed'.entries = consumed.entries
  BY <1>2, <1>5 DEF Use, Counters
<1>6. CASE UNCHANGED <<fileVars, buffered>> /\ Use("drops", 1)
  <2>1. UNCHANGED <<lines, tail, view, pendingState, buffered>>
    BY <1>1, <1>6 DEF fileVars
  <2>2. acked' \subseteq ToSet(OnFile)
    BY <1>1 DEF DataOK
  <2> QED BY <1>4, <1>5, <1>6, <2>1, <2>2, DataUntouched
<1>7. ASSUME pc[c] \in {"recover", "write", "flush"},
             NEW new, FreshOn(OnFile, consumed.entries, new),
             WriteSucceeds(buffered[held[c]] \o new),
             buffered' = [buffered EXCEPT ![held[c]] = <<>>],
             consumed'.entries = consumed.entries + Len(new)
      PROVE  DataOK'
  <2>1. held[c] \in Handles
    BY <1>7, CallerHasHandle
  <2>2. /\ HandleData(OnFile', view[held[c]], pendingState[held[c]], <<>>)
        /\ ToSet(OnFile) \subseteq ToSet(OnFile')
    BY <1>7, <2>1, HandleAfterSuccess
  <2>3. /\ view'[held[c]] = view[held[c]] /\ buffered'[held[c]] = <<>>
        /\ pendingState'[held[c]] = pendingState[held[c]]
        /\ \A g \in Handles \ {held[c]} : /\ view'[g] = view[g] /\ pendingState'[g] = pendingState[g]
                                         /\ buffered'[g] = buffered[g]
    BY <1>1, <1>7, <2>1 DEF Control, HandleTypes
  <2>4. \A d \in Callers : ToSet(loaded'[d]) \cup mine'[d] \subseteq ToSet(OnFile')
    BY <1>4, <2>2
  <2> QED BY <1>1, <1>7, <2>1, <2>2, <2>3, <2>4, ToSetOfNothing, DataAfterBatch
<1>8. CASE /\ pc[c] \in {"recover", "flush"}
           /\ WriteSucceeds(buffered[held[c]])
           /\ buffered' = [buffered EXCEPT ![held[c]] = <<>>]
           /\ Use("drops", 1)
  <2>1. buffered[held[c]] \in Seq(Entry)
    BY <1>8, CallerHasHandle
  <2>2. /\ FreshOn(OnFile, consumed.entries, <<>>) /\ WriteSucceeds(buffered[held[c]] \o <<>>)
        /\ consumed'.entries = consumed.entries + Len(<<>>)
    BY <1>2, <1>5, <1>8, <2>1, NothingIsFresh
  <2> QED BY <1>7, <1>8, <2>2
<1>9. CASE /\ pc[c] = "write"
           /\ \E batch \in NewEntries(c) :
                /\ WriteSucceeds(buffered[held[c]] \o batch)
                /\ buffered' = [buffered EXCEPT ![held[c]] = <<>>]
                /\ consumed' = [consumed EXCEPT !.entries = @ + Len(batch), !.drops = @ + 1]
  <2>1. PICK batch :
          /\ batch \in NewEntries(c)
          /\ WriteSucceeds(buffered[held[c]] \o batch)
          /\ buffered' = [buffered EXCEPT ![held[c]] = <<>>]
          /\ consumed' = [consumed EXCEPT !.entries = @ + Len(batch), !.drops = @ + 1]
    BY <1>9
  <2>2. FreshOn(OnFile, consumed.entries, batch)
    BY <1>9, <2>1, FreshForCall
  <2>3. consumed'.entries = consumed.entries + Len(batch)
    BY <1>2, <2>1 DEF Counters
  <2> QED BY <1>7, <1>9, <2>1, <2>2, <2>3
<1> QED BY <1>6, <1>8, <1>9 DEF CallDropped

(* The handle a caller opens shows what the caller read from the file.      *)
LEMMA OpenData ==
  ASSUME Control, DataOK, NEW c \in Callers, OpenHandle(consumed.handles + 1, loaded[c]),
         UNCHANGED <<lines, tail, acked>>, consumed'.entries = consumed.entries,
         \A d \in Callers : loaded'[d] \in {loaded[d], <<>>} /\ mine'[d] \in {mine[d], {}}
  PROVE  DataOK'
<1> DEFINE h == consumed.handles + 1
<1>1. /\ view' = [view EXCEPT ![h] = loaded[c]]
      /\ pendingState' = [pendingState EXCEPT ![h] = <<>>]
      /\ buffered' = [buffered EXCEPT ![h] = <<>>]
  BY DEF OpenHandle
<1> HIDE DEF h
<1>2. DOMAIN view = Handles /\ DOMAIN pendingState = Handles /\ DOMAIN buffered = Handles
  BY DEF Control, HandleTypes
<1>3. HandleData(OnFile, loaded[c], <<>>, <<>>)
  <2>1. GroundedOn(OnFile, <<>>) /\ TargetsIn(OnFile, <<>>)
    BY DEF GroundedOn, TargetsIn
  <2>2. ToSet(loaded[c]) \subseteq ToSet(OnFile)
    BY DEF DataOK
  <2> QED BY <2>1, <2>2, ToSetOfNothing DEF HandleData
<1>4. \A g \in Handles : HandleData(OnFile, view'[g], pendingState'[g], buffered'[g])
  <2> TAKE g \in Handles
  <2>1. CASE g = h
    <3>1. view'[g] = loaded[c] /\ pendingState'[g] = <<>> /\ buffered'[g] = <<>>
      BY <1>1, <1>2, <2>1
    <3> QED BY <1>3, <3>1
  <2>2. CASE g # h
    <3>1. view'[g] = view[g] /\ pendingState'[g] = pendingState[g] /\ buffered'[g] = buffered[g]
      BY <1>1, <1>2, <2>2
    <3> QED BY <3>1 DEF DataOK
  <2> QED BY <2>1, <2>2
<1>5. \A g \in Handles : ToSet(buffered'[g]) \subseteq ToSet(buffered[g])
  <2> TAKE g \in Handles
  <2>1. buffered'[g] \in {<<>>, buffered[g]}
    BY <1>1, <1>2
  <2> QED BY <2>1, ToSetOfNothing
<1>6. \A d \in Callers : ToSet(loaded'[d]) \cup mine'[d] \subseteq ToSet(OnFile)
  BY DataOfCallers
<1>7. acked' \subseteq ToSet(OnFile)
  BY DEF DataOK
<1> QED BY <1>4, <1>5, <1>6, <1>7, DataWithoutWrite

LEMMA InsertHandleData ==
  ASSUME Control, DataOK, NEW c \in Callers, InsertHandle(c) \/ InsertHandleFails(c)
  PROVE  DataOK'
<1>1. consumed \in Counters
  BY DEF Control, CountersInv
<1>2. CASE InsertHandle(c)
  <2>1. /\ UNCHANGED <<lines, tail, mine, acked>> /\ loaded' = [loaded EXCEPT ![c] = <<>>]
    BY <1>2 DEF InsertHandle, fileVars
  <2>2. \A d \in Callers : loaded'[d] \in {loaded[d], <<>>} /\ mine'[d] \in {mine[d], {}}
    BY <2>1 DEF Control, TypeInv
  <2>3. CASE UNCHANGED <<handleVars, consumed>>
    <3>1. UNCHANGED <<view, pendingState, buffered, consumed>>
      BY <2>3 DEF handleVars
    <3>2. \A d \in Callers : ToSet(loaded'[d]) \cup mine'[d] \subseteq ToSet(OnFile)
      BY <2>2, DataOfCallers
    <3>3. acked' \subseteq ToSet(OnFile)
      BY <2>1 DEF DataOK
    <3> QED BY <2>1, <3>1, <3>2, <3>3, DataUntouched
  <2>4. CASE OpenHandle(consumed.handles + 1, loaded[c]) /\ Use("handles", 1)
    <3>1. consumed'.entries = consumed.entries
      BY <1>1, <2>4 DEF Use, Counters
    <3> QED BY <2>1, <2>2, <2>4, <3>1, OpenData
  <2> QED BY <1>2, <2>3, <2>4 DEF InsertHandle
<1>3. CASE InsertHandleFails(c)
  <2>1. /\ UNCHANGED <<lines, tail, acked>> /\ Leave(c)
        /\ OpenHandle(consumed.handles + 1, loaded[c])
        /\ consumed' = [consumed EXCEPT !.handles = @ + 1, !.failures = @ + 1]
    BY <1>3 DEF InsertHandleFails, fileVars
  <2>2. consumed'.entries = consumed.entries
    BY <1>1, <2>1 DEF Counters
  <2>3. \A d \in Callers : loaded'[d] \in {loaded[d], <<>>} /\ mine'[d] \in {mine[d], {}}
    BY <2>1, LeaveData
  <2> QED BY <2>1, <2>2, <2>3, OpenData
<1> QED BY <1>2, <1>3

LEMMA CreateData ==
  ASSUME Control, DataOK, ~glued', NEW c \in Callers, CreatePersist(c) \/ CreateFails(c)
  PROVE  DataOK'
<1>1. consumed.entries = 0 /\ acked' = acked
  BY DEF CreatePersist, CreateFails
<1>2. /\ lines = <<>> /\ tail = Clean /\ \A h \in Handles : pendingState[h] = <<>> /\ buffered[h] = <<>>
      /\ consumed \in Counters
  BY <1>1, NothingYet
<1>3. 1 \in Handles
  BY StoreConstantsOK DEF Handles
<1> DEFINE new == <<Header>>
<1>4. new \in Seq(Entry) /\ Len(new) = 1 /\ DOMAIN new = 1..1 /\ new[1] = Header /\ ToSet(new) = {Header}
  BY HeaderBatch
<1>5. Header.id = 1 /\ Header.parent = 0 /\ Header.target = 0
  BY DEF Header
<1>6. <<>> \o new = new
  BY <1>4
<1> HIDE DEF new
<1>7. FreshOn(OnFile, consumed.entries, new)
  <2>1. \A i \in 1..Len(new) : new[i].id = consumed.entries + i
    BY <1>1, <1>4, <1>5
  <2>2. GroundedOn(OnFile, new) /\ TargetsIn(OnFile, new)
    BY <1>4, <1>5 DEF GroundedOn, TargetsIn
  <2> QED BY <1>4, <2>1, <2>2 DEF FreshOn
<1>8. buffered[1] \o new = new
  BY <1>2, <1>3, <1>6
<1>9. CASE CreatePersist(c)
  <2>1. /\ WriteSucceeds(buffered[1] \o new)
        /\ view' = [view EXCEPT ![1] = new]
        /\ pendingState' = [pendingState EXCEPT ![1] = <<>>]
        /\ buffered' = [buffered EXCEPT ![1] = <<>>]
        /\ mine' = [mine EXCEPT ![c] = {Header}] /\ loaded' = loaded
    BY <1>8, <1>9 DEF CreatePersist, OpenHandle, new
  <2>2. consumed'.entries = consumed.entries + Len(new)
    <3>1. consumed'.entries = 1
      BY <1>2, <1>9 DEF CreatePersist, Counters
    <3> QED BY <1>1, <1>4, <3>1
  <2>3. ToSet(new) \subseteq ToSet(OnFile') /\ ToSet(OnFile) \subseteq ToSet(OnFile')
    BY <1>3, <1>7, <2>1, <2>2, HandleAfterSuccess
  <2>4. /\ view'[1] = new /\ pendingState'[1] = <<>> /\ buffered'[1] = <<>>
        /\ \A g \in Handles \ {1} : /\ view'[g] = view[g] /\ pendingState'[g] = pendingState[g]
                                    /\ buffered'[g] = buffered[g]
    BY <1>3, <2>1 DEF Control, HandleTypes
  <2>5. HandleData(OnFile', view'[1], pendingState'[1], buffered'[1])
    <3>1. GroundedOn(OnFile', <<>>) /\ TargetsIn(OnFile', <<>>)
      BY DEF GroundedOn, TargetsIn
    <3> QED BY <2>3, <2>4, <3>1, ToSetOfNothing DEF HandleData
  <2>6. \A d \in Callers : ToSet(loaded'[d]) \cup mine'[d] \subseteq ToSet(OnFile')
    <3>1. \A d \in Callers : loaded'[d] = loaded[d] /\ mine'[d] \in {mine[d], {Header}}
      BY <2>1 DEF Control, TypeInv
    <3>2. \A d \in Callers : ToSet(loaded[d]) \cup mine[d] \subseteq ToSet(OnFile)
      BY DEF DataOK
    <3> QED BY <1>4, <2>3, <3>1, <3>2
  <2> QED BY <1>1, <1>3, <1>7, <2>1, <2>2, <2>4, <2>5, <2>6, ToSetOfNothing, DataAfterBatch
<1>10. CASE CreateFails(c)
  <2>1. UNCHANGED <<view, pendingState, buffered, mine, loaded>>
    BY <1>10 DEF CreateFails, handleVars, callVars
  <2>2. WriteFails(buffered[1] \o new)
    <3>1. PICK n \in {0, 1} : Written(new, n, Clean)
      BY <1>10 DEF CreateFails, new
    <3>2. n \in 0..Len(new) /\ Clean \in Cuts(new, n)
      BY <1>4 DEF Cuts
    <3>3. WriteFails(new)
      BY <3>1, <3>2 DEF WriteFails
    <3> QED BY <1>8, <3>3
  <2>3. consumed'.entries = consumed.entries + Len(new)
    <3>1. consumed'.entries = 1
      BY <1>2, <1>10 DEF CreateFails, Counters
    <3> QED BY <1>1, <1>4, <3>1
  <2>4. ToSet(OnFile) \subseteq ToSet(OnFile') /\ IdsOf(OnFile) \subseteq IdsOf(OnFile')
    BY <1>3, <1>7, <2>2, <2>3, BatchWritten
  <2>5. HandleData(OnFile', view'[1], pendingState'[1], buffered'[1])
    <3>1. HandleData(OnFile, view[1], pendingState[1], buffered[1])
      BY <1>3 DEF DataOK
    <3> QED BY <2>1, <2>4, <3>1, HandleMonotone
  <2>6. \A d \in Callers : ToSet(loaded'[d]) \cup mine'[d] \subseteq ToSet(OnFile')
    BY <2>1, <2>4 DEF DataOK
  <2> QED BY <1>1, <1>3, <1>7, <2>1, <2>2, <2>3, <2>5, <2>6, DataAfterBatch
<1> QED BY <1>9, <1>10

(* The steps that flush what a handle holds.                                *)
LEMMA FlushStepData ==
  ASSUME Control, DataOK, ~glued', NEW c \in Callers,
         Recover(c) \/ RecoverFails(c) \/ Flush(c) \/ FlushCallFails(c)
  PROVE  DataOK'
<1>1. held[c] \in Opened /\ held[c] \in Handles /\ consumed \in Counters
  BY CallerHasHandle DEF Recover, RecoverFails, Flush, FlushCallFails
<1>2. acked' = acked
  BY DEF Recover, RecoverFails, Flush, FlushCallFails
<1>3. ASSUME Use("failures", 1) PROVE consumed'.entries = consumed.entries
  BY <1>1, <1>3 DEF Use, Counters
<1>4. CASE Recover(c)
  <2>1. UNCHANGED <<loaded, mine, consumed>>
    BY <1>4 DEF Recover, callVars
  <2>2. CASE FlushSucceeds(held[c])
    BY <1>1, <1>2, <2>1, <2>2, FlushData
  <2>3. CASE UNCHANGED <<fileVars, handleVars>>
    <3>1. UNCHANGED <<lines, tail, view, pendingState, buffered>>
      BY <2>3 DEF fileVars, handleVars
    <3>2. \A d \in Callers : ToSet(loaded'[d]) \cup mine'[d] \subseteq ToSet(OnFile)
      BY <2>1 DEF DataOK
    <3>3. acked' \subseteq ToSet(OnFile)
      BY <1>2 DEF DataOK
    <3> QED BY <2>1, <3>1, <3>2, <3>3, DataUntouched
  <2> QED BY <1>4, <2>2, <2>3 DEF Recover
<1>5. CASE Flush(c)
  <2>1. /\ FlushSucceeds(held[c]) /\ UNCHANGED <<loaded, consumed>>
        /\ mine' = [mine EXCEPT ![c] = ToSet(view'[held[c]])]
    BY <1>5 DEF Flush
  <2>2. \A d \in Callers : /\ loaded'[d] \in {loaded[d], <<>>}
                           /\ mine'[d] \in {mine[d], {}, ToSet(view'[held[c]])}
    <3> DEFINE all == ToSet(view'[held[c]])
    <3>1. mine' = [mine EXCEPT ![c] = all]
      BY <2>1
    <3> HIDE DEF all
    <3>2. \A d \in Callers : mine'[d] \in {mine[d], {}, all}
      BY <3>1 DEF Control, TypeInv
    <3> QED BY <2>1, <3>2 DEF all
  <2> QED BY <1>1, <1>2, <2>1, <2>2, FlushData
<1>6. CASE RecoverFails(c) \/ FlushCallFails(c)
  <2>1. FlushFails(held[c]) /\ Use("failures", 1) /\ Leave(c)
    BY <1>6 DEF RecoverFails, FlushCallFails
  <2> QED BY <1>1, <1>2, <1>3, <2>1, LeaveData, FailedFlushData
<1> QED BY <1>4, <1>5, <1>6

LEMMA ClosingData ==
  ASSUME Control, DataOK, ~glued', NEW h \in Handles, CloseEvicted(h) \/ CloseEvictedFails(h)
  PROVE  DataOK'
<1>1. /\ h \in closing /\ UNCHANGED <<loaded, mine, acked>>
      /\ UNCHANGED consumed \/ Use("failures", 1)
      /\ FlushSucceeds(h) \/ FlushFails(h)
  BY DEF CloseEvicted, CloseEvictedFails, callVars
<1>2. h \in Opened /\ consumed \in Counters
  BY <1>1 DEF Control, HandlesInv, CountersInv
<1>3. consumed'.entries = consumed.entries
  BY <1>1, <1>2 DEF Use, Counters
<1> QED BY <1>1, <1>2, <1>3, FlushData, FailedFlushData

LEMMA ProcessEndsData ==
  ASSUME Control, DataOK, ~glued', KillProcess \/ ShutdownStore
  PROVE  DataOK'
<1>1. /\ ProcessEnds /\ acked' = acked
      /\ loaded' = [c \in Callers |-> <<>>] /\ mine' = [c \in Callers |-> {}]
  BY DEF KillProcess, ShutdownStore, ProcessEnds
<1>2. consumed'.entries = consumed.entries
  BY <1>1 DEF Control, CountersInv, ProcessEnds, Use, Counters
<1>3. \A c \in Callers : loaded'[c] \in {loaded[c], <<>>} /\ mine'[c] \in {mine[c], {}}
  BY <1>1
<1>4. CASE KillProcess
  <2>1. UNCHANGED <<lines, tail, view, pendingState, buffered>>
    BY <1>4 DEF KillProcess, fileVars, handleVars
  <2>2. acked' \subseteq ToSet(OnFile)
    BY <1>1 DEF DataOK
  <2> QED BY <1>2, <1>3, <2>1, <2>2, DataOfCallers, DataUntouched
<1>5. CASE ShutdownStore
  <2>1. mapped # Nobody /\ FlushSucceeds(mapped)
    BY <1>5 DEF ShutdownStore
  <2>2. mapped \in Opened
    BY <2>1 DEF Control, HandlesInv
  <2> QED BY <1>1, <1>2, <1>3, <2>1, <2>2, FlushData
<1> QED BY <1>4, <1>5

(* The steps that touch neither the file nor a handle.                      *)
LEMMA OtherStepData ==
  ASSUME Control, DataOK, NEW c \in Callers,
         \/ \E kind \in Kinds : Lookup(c, kind)
         \/ Acquire(c) \/ LoadFile(c) \/ CreateRegister(c)
         \/ UpsertIndex(c) \/ UpsertIndexFails(c)
  PROVE  DataOK'
<1>1. UNCHANGED <<lines, tail, view, pendingState, buffered>>
  BY DEF Lookup, Acquire, LoadFile, CreateRegister, UpsertIndex, UpsertIndexFails,
         fileVars, handleVars
<1>2. consumed'.entries = consumed.entries
  <2>1. UNCHANGED consumed \/ Use("calls", 1) \/ Use("failures", 1)
    BY DEF Lookup, Acquire, LoadFile, CreateRegister, UpsertIndex, UpsertIndexFails
  <2>2. consumed \in Counters
    BY DEF Control, CountersInv
  <2> QED BY <2>1, <2>2 DEF Use, Counters
<1>3. /\ \A d \in Callers : ToSet(loaded[d]) \cup mine[d] \subseteq ToSet(OnFile)
      /\ acked \subseteq ToSet(OnFile)
  BY DEF DataOK
<1>4. CASE \/ \E kind \in Kinds : Lookup(c, kind)
           \/ Acquire(c) \/ CreateRegister(c)
  <2>1. UNCHANGED <<loaded, mine, acked>>
    BY <1>4 DEF Lookup, Acquire, CreateRegister, callVars
  <2> QED BY <1>1, <1>2, <1>3, <2>1, DataUntouched
<1>5. CASE LoadFile(c)
  <2>1. UNCHANGED <<mine, acked>> /\ loaded' \in {loaded, [loaded EXCEPT ![c] = OnFile]}
    BY <1>5 DEF LoadFile
  <2>2. \A d \in Callers : loaded'[d] \in {loaded[d], OnFile}
    BY <2>1 DEF Control, TypeInv
  <2>3. \A d \in Callers : ToSet(loaded'[d]) \cup mine'[d] \subseteq ToSet(OnFile)
    BY <1>3, <2>1, <2>2
  <2> QED BY <1>1, <1>2, <1>3, <2>1, <2>3, DataUntouched
<1>6. CASE UpsertIndex(c) \/ UpsertIndexFails(c)
  <2>1. Leave(c) /\ acked' \in {acked, acked \cup mine[c]}
    BY <1>6 DEF UpsertIndex, UpsertIndexFails
  <2>2. \A d \in Callers : ToSet(loaded'[d]) \cup mine'[d] \subseteq ToSet(OnFile)
    BY <2>1, LeaveData, DataOfCallers
  <2>3. acked' \subseteq ToSet(OnFile)
    BY <1>3, <2>1
  <2> QED BY <1>1, <1>2, <2>2, <2>3, DataUntouched
<1> QED BY <1>4, <1>5, <1>6

LEMMA IdleStepData ==
  ASSUME Control, DataOK, Evict \/ UNCHANGED storeVars
  PROVE  DataOK'
<1>1. UNCHANGED <<lines, tail, view, pendingState, buffered, loaded, mine, acked>>
  BY DEF Evict, storeVars, fileVars, handleVars, callVars
<1>2. consumed'.entries = consumed.entries
  <2>1. UNCHANGED consumed \/ Use("evictions", 1)
    BY DEF Evict, storeVars
  <2>2. consumed \in Counters
    BY DEF Control, CountersInv
  <2> QED BY <2>1, <2>2 DEF Use, Counters
<1>3. /\ \A d \in Callers : ToSet(loaded[d]) \cup mine[d] \subseteq ToSet(OnFile)
      /\ acked \subseteq ToSet(OnFile)
  BY DEF DataOK
<1> QED BY <1>1, <1>2, <1>3, DataUntouched

LEMMA NextData ==
  ASSUME Control, DataOK, ~glued', [StoreNext]_storeVars
  PROVE  DataOK'
<1>1. ASSUME NEW c \in Callers, CreatePersist(c) \/ CreateFails(c) PROVE DataOK'
  BY <1>1, CreateData
<1>2. ASSUME NEW c \in Callers, NEW kind \in Kinds, Lookup(c, kind) PROVE DataOK'
  BY <1>2, OtherStepData
<1>3. ASSUME NEW c \in Callers, Acquire(c) PROVE DataOK'
  BY <1>3, OtherStepData
<1>4. ASSUME NEW c \in Callers, Continue(c) PROVE DataOK'
  BY <1>4, OtherStepData, InsertHandleData, FlushStepData, WriteEntriesData,
     WriteEntriesFailsData DEF Continue
<1>5. ASSUME NEW c \in Callers, CallDropped(c) PROVE DataOK'
  BY <1>5, CallDroppedData
<1>6. ASSUME NEW h \in Handles, CloseEvicted(h) \/ CloseEvictedFails(h) PROVE DataOK'
  BY <1>6, ClosingData
<1> QED BY <1>1, <1>2, <1>3, <1>4, <1>5, <1>6, IdleStepData, ProcessEndsData DEF StoreNext

(* A step leaves the file alone, or it writes a batch and answers nobody.   *)
FileStep ==
  \/ UNCHANGED <<lines, tail, glued>> /\ acked \subseteq acked'
  \/ acked' = acked /\ \E batch \in Seq(Entry) : WriteSucceeds(batch) \/ WriteFails(batch)

LEMMA FlushIsFileStep ==
  ASSUME Control, NEW h \in Opened, FlushSucceeds(h) \/ FlushFails(h), acked' = acked
  PROVE  FileStep
<1>1. buffered[h] \in Seq(Entry)
  BY HandleIsOpen DEF Control, HandleTypes
<1> QED BY <1>1 DEF FlushSucceeds, FlushFails, FileStep

LEMMA CallIsFileStep ==
  ASSUME Control, NEW c \in Callers, Continue(c) \/ CallDropped(c)
  PROVE  FileStep
<1>1. CASE CreateRegister(c) \/ LoadFile(c) \/ InsertHandle(c) \/ InsertHandleFails(c)
           \/ UpsertIndex(c) \/ UpsertIndexFails(c)
  BY <1>1 DEF CreateRegister, LoadFile, InsertHandle, InsertHandleFails, UpsertIndex,
              UpsertIndexFails, fileVars, FileStep
<1>2. CASE Recover(c) \/ RecoverFails(c) \/ Flush(c) \/ FlushCallFails(c)
  <2>1. held[c] \in Opened /\ acked' = acked
    BY <1>2, CallerHasHandle DEF Recover, RecoverFails, Flush, FlushCallFails
  <2>2. CASE FlushSucceeds(held[c]) \/ FlushFails(held[c])
    BY <2>1, <2>2, FlushIsFileStep
  <2>3. CASE UNCHANGED fileVars
    BY <2>1, <2>3 DEF fileVars, FileStep
  <2> QED BY <1>2, <2>2, <2>3 DEF Recover, RecoverFails, Flush, FlushCallFails
<1>3. CASE WriteEntries(c) \/ WriteEntriesFails(c)
  <2>1. PICK batch : /\ batch \in NewEntries(c)
                     /\ \/ WriteSucceeds(buffered[held[c]] \o batch)
                        \/ WriteFails(buffered[held[c]] \o batch)
    BY <1>3 DEF WriteEntries, WriteEntriesFails
  <2>2. pc[c] = "write" /\ acked' = acked
    BY <1>3 DEF WriteEntries, WriteEntriesFails
  <2>3. buffered[held[c]] \o batch \in Seq(Entry)
    BY <2>1, <2>2, BatchShape
  <2> QED BY <2>1, <2>2, <2>3 DEF FileStep
<1>4. CASE CallDropped(c)
  <2>1. acked' = acked
    BY <1>4 DEF CallDropped
  <2>2. CASE UNCHANGED fileVars
    BY <2>1, <2>2 DEF fileVars, FileStep
  <2>3. CASE pc[c] \in {"recover", "flush"} /\ WriteSucceeds(buffered[held[c]])
    <3>1. buffered[held[c]] \in Seq(Entry)
      BY <2>3, CallerHasHandle
    <3> QED BY <2>1, <2>3, <3>1 DEF FileStep
  <2>4. CASE pc[c] = "write" /\ \E batch \in NewEntries(c) : WriteSucceeds(buffered[held[c]] \o batch)
    <3>1. PICK batch : batch \in NewEntries(c) /\ WriteSucceeds(buffered[held[c]] \o batch)
      BY <2>4
    <3>2. buffered[held[c]] \o batch \in Seq(Entry)
      BY <2>4, <3>1, BatchShape
    <3> QED BY <2>1, <3>1, <3>2 DEF FileStep
  <2> QED BY <1>4, <2>2, <2>3, <2>4 DEF CallDropped
<1> QED BY <1>1, <1>2, <1>3, <1>4 DEF Continue

LEMMA NextIsFileStep ==
  ASSUME Control, [StoreNext]_storeVars
  PROVE  FileStep
<1>1. ASSUME NEW c \in Callers, CreatePersist(c) \/ CreateFails(c) PROVE FileStep
  <2> DEFINE new == <<Header>>
  <2>1. acked' = acked /\ (WriteSucceeds(new) \/ \E n \in {0, 1} : Written(new, n, Clean))
    BY <1>1 DEF CreatePersist, CreateFails
  <2>2. new \in Seq(Entry) /\ Len(new) = 1
    BY HeaderBatch
  <2> HIDE DEF new
  <2>3. \A n \in {0, 1} : n \in 0..Len(new) /\ Clean \in Cuts(new, n)
    BY <2>2 DEF Cuts
  <2>4. WriteSucceeds(new) \/ WriteFails(new)
    BY <2>1, <2>3 DEF WriteFails
  <2> QED BY <2>1, <2>2, <2>4 DEF FileStep
<1>2. ASSUME NEW c \in Callers, NEW kind \in Kinds, Lookup(c, kind) PROVE FileStep
  BY <1>2 DEF Lookup, fileVars, FileStep
<1>3. ASSUME NEW c \in Callers, Acquire(c) PROVE FileStep
  BY <1>3 DEF Acquire, fileVars, FileStep
<1>4. ASSUME NEW h \in Handles, CloseEvicted(h) \/ CloseEvictedFails(h) PROVE FileStep
  <2>1. h \in Opened /\ (FlushSucceeds(h) \/ FlushFails(h)) /\ acked' = acked
    BY <1>4 DEF CloseEvicted, CloseEvictedFails, Control, HandlesInv
  <2> QED BY <2>1, FlushIsFileStep
<1>5. CASE ShutdownStore
  <2>1. mapped \in Opened /\ FlushSucceeds(mapped) /\ acked' = acked
    BY <1>5 DEF ShutdownStore, ProcessEnds, Control, HandlesInv
  <2> QED BY <2>1, FlushIsFileStep
<1>6. CASE KillProcess \/ Evict \/ UNCHANGED storeVars
  BY <1>6 DEF KillProcess, ProcessEnds, Evict, storeVars, fileVars, FileStep
<1> QED BY <1>1, <1>2, <1>3, <1>4, <1>5, <1>6, CallIsFileStep DEF StoreNext

LEMMA GluedForEver ==
  ASSUME Control, FileStep, glued
  PROVE  glued'
BY DEF FileStep, WriteSucceeds, WriteFails, Written

LEMMA InitInvariant == StoreInit => IInv
<1> SUFFICES ASSUME StoreInit PROVE IInv
  OBVIOUS
<1> USE DEF StoreInit
<1>1. <<>> \in Seq(Entry) /\ StartsWell(<<>>) /\ IsFiniteSet({}) /\ ToSet(<<>>) = {}
  BY FS_EmptySet, ToSetOfNothing DEF StartsWell
<1>2. consumed \in Counters /\ consumed.handles = 0 /\ consumed.entries = 0
      /\ consumed.crashes = 0 /\ consumed.evictions = 0
  BY DEF Counters
<1>3. Opened = {}
  BY <1>2 DEF Opened
<1>4. FileInv
  <2>1. ~(consumed.handles > 0)
    BY <1>2
  <2>2. FileOK(lines, tail, glued)
    BY <1>1 DEF FileOK
  <2> QED BY <2>1, <2>2 DEF FileInv
<1>5. HandleTypes
  BY <1>1 DEF HandleTypes
<1>6. TypeInv
  BY <1>1 DEF TypeInv, Kinds
<1>7. CountersInv
  BY <1>2, StoreConstantsOK DEF CountersInv
<1>8. HandlesInv
  BY <1>1, <1>2, <1>3 DEF HandlesInv
<1>9. CallerInv
  BY <1>1 DEF CallerInv, Busy
<1>10. DataOK
  <2>1. OnFile = <<>>
    BY DEF OnFile, Readable
  <2>2. Known = {}
    BY <1>1, <2>1 DEF Known
  <2>3. Grounded(<<>>) /\ TargetsIn(<<>>, <<>>) /\ GroundedOn(<<>>, <<>>)
    BY DEF Grounded, TargetsIn, GroundedOn
  <2>4. HandleData(<<>>, <<>>, <<>>, <<>>)
    BY <2>3 DEF HandleData
  <2>5. \A h \in Handles : HandleData(OnFile, view[h], pendingState[h], buffered[h])
    BY <2>1, <2>4
  <2>6. \A c \in Callers : ToSet(loaded[c]) \cup mine[c] \subseteq ToSet(OnFile)
    BY <1>1, <2>1
  <2>7. Grounded(OnFile) /\ TargetsIn(OnFile, OnFile)
    BY <2>1, <2>3
  <2> QED BY <2>2, <2>5, <2>6, <2>7 DEF DataOK
<1> QED BY <1>4, <1>5, <1>6, <1>7, <1>8, <1>9, <1>10 DEF Control, IInv

(* The invariant of every run: what the file, the handles and the callers   *)
(* hold, and how their counts relate; while no line joined another one,     *)
(* also that whatever a handle or a caller shows as stored is on file and   *)
(* that the entries still held are grounded there, each with its own id.    *)
THEOREM StoreInvariant == StoreSpec => []IInv
<1>1. IInv /\ [StoreNext]_storeVars => IInv'
  <2> SUFFICES ASSUME IInv, [StoreNext]_storeVars PROVE IInv'
    OBVIOUS
  <2>1. Control /\ Control'
    BY NextControl DEF IInv
  <2>2. ASSUME ~glued' PROVE DataOK'
    <3>1. ~glued
      BY <2>1, <2>2, NextIsFileStep, GluedForEver
    <3> QED BY <2>1, <2>2, <3>1, NextData DEF IInv
  <2> QED BY <2>1, <2>2 DEF IInv
<1> QED BY <1>1, InitInvariant, PTL DEF StoreSpec

(* Every variable of the store keeps its type.                              *)
THEOREM StoreTypes == StoreSpec => []StoreTypeOK
<1>1. IInv => StoreTypeOK
  <2> SUFFICES ASSUME IInv PROVE StoreTypeOK
    OBVIOUS
  <2>1. mapped \in Handles \cup {Nobody} /\ closing \in SUBSET Handles
    BY HandleIsOpen DEF IInv, Control, HandlesInv
  <2> QED BY <2>1 DEF IInv, Control, FileInv, FileOK, HandleTypes, TypeInv, StoreTypeOK
<1> QED BY <1>1, StoreInvariant, PTL

(* What a caller of append_entries, set_leaf, flush or flush_all was told   *)
(* is stored can be read back by load, with every entry after its parent,   *)
(* whatever failed, crashed, was evicted or was dropped in between, as long *)
(* as no write joined an unterminated line.                                 *)
THEOREM WhatIsAckedIsReloaded == StoreSpec => []AckedIsReloaded
<1>1. IInv => AckedIsReloaded
  <2> SUFFICES ASSUME IInv, ~glued
               PROVE  /\ acked \subseteq ToSet(OnFile)
                      /\ indexed > 0 =>
                           /\ Loadable
                           /\ \A i \in DOMAIN OnFile :
                                OnFile[i].parent \in IdsOf(SubSeq(OnFile, 1, i - 1)) \cup {0}
    BY DEF AckedIsReloaded
  <2>1. Control /\ DataOK
    BY DEF IInv
  <2>2. acked \subseteq ToSet(OnFile) /\ Grounded(OnFile)
    BY <2>1 DEF DataOK
  <2>3. OnFile \in Seq(Entry)
    BY <2>1, OnFileType DEF Control, FileInv
  <2>4. indexed > 0 => OnFile # <<>>
    <3> SUFFICES ASSUME indexed > 0 PROVE OnFile # <<>>
      OBVIOUS
    <3>1. lines # <<>> /\ lines \in Seq(Entry) /\ FileOK(lines, tail, glued)
      BY <2>1 DEF Control, FileInv, FileOK, CountersInv
    <3>2. CASE tail \in {Clean, Torn}
      BY <3>1, <3>2 DEF OnFile, Readable
    <3>3. CASE tail \notin {Clean, Torn}
      <4>1. <<tail>> \in Seq(Entry)
        BY <3>1, <3>3 DEF FileOK
      <4>2. OnFile = lines \o New(<<tail>>, lines)
        BY <3>3 DEF OnFile, Readable
      <4>3. Len(lines) <= Len(OnFile)
        <5>1. Appends(OnFile, lines, <<tail>>)
          BY <3>1, <4>1, <4>2, AppendedFile
        <5> QED BY <5>1 DEF Appends
      <4>4. Len(lines) \in Nat \ {0}
        BY <3>1
      <4> QED BY <2>3, <4>3, <4>4
    <3> QED BY <3>2, <3>3
  <2> DEFINE f == OnFile
  <2> HIDE DEF f
  <2>5. \A i \in DOMAIN f : f[i].parent \in IdsOf(SubSeq(f, 1, i - 1)) \cup {0}
    <3> SUFFICES ASSUME NEW i \in 1..Len(f), f[i].parent # 0
                 PROVE  f[i].parent \in IdsOf(SubSeq(f, 1, i - 1))
      BY <2>3 DEF f
    <3>0. f \in Seq(Entry) /\ Grounded(f) /\ Len(f) \in Nat /\ DOMAIN f = 1..Len(f)
      BY <2>2, <2>3 DEF f
    <3>1. PICK j \in 1..(i - 1) : f[j].id = f[i].parent
      BY <3>0 DEF Grounded
    <3> DEFINE s == SubSeq(f, 1, i - 1)
    <3>2. DOMAIN s = 1..(i - 1) /\ s[j] = f[j]
      BY <3>0
    <3> HIDE DEF s
    <3>3. f[i].parent \in IdsOf(s)
      BY <3>1, <3>2 DEF IdsOf
    <3> QED BY <3>3 DEF s
  <2>6. ParentsPresent(f)
    <3>1. f \in Seq(Entry) /\ Grounded(f) /\ Len(f) \in Nat /\ DOMAIN f = 1..Len(f)
      BY <2>2, <2>3 DEF f
    <3> SUFFICES ASSUME NEW i \in 1..Len(f), f[i].parent # 0 PROVE f[i].parent \in IdsOf(f)
      BY <3>1 DEF ParentsPresent
    <3>2. PICK j \in 1..(i - 1) : f[j].id = f[i].parent
      BY <3>1 DEF Grounded
    <3>3. j \in 1..Len(f)
      BY <3>1
    <3> QED BY <3>1, <3>2, <3>3 DEF IdsOf
  <2> QED BY <2>2, <2>4, <2>5, <2>6 DEF Loadable, f
<1> QED BY <1>1, StoreInvariant, PTL

(* When failed writes stop between lines, no line is ever unterminated.     *)
CleanFile == tail = Clean /\ glued = FALSE

LEMMA CleanStep ==
  ASSUME ~TornWrites, Control, CleanFile, FileStep
  PROVE  /\ CleanFile' /\ OnFile = lines /\ OnFile' = lines'
         /\ \/ OnFile' = OnFile /\ acked \subseteq acked'
            \/ /\ acked' = acked /\ Len(OnFile) <= Len(OnFile')
               /\ \A i \in 1..Len(OnFile) : OnFile'[i] = OnFile[i]
<1>1. CASE UNCHANGED <<lines, tail, glued>> /\ acked \subseteq acked'
  BY <1>1 DEF CleanFile, OnFile, Readable
<1>2. ASSUME NEW batch \in Seq(Entry), WriteSucceeds(batch) \/ WriteFails(batch), acked' = acked
      PROVE  /\ CleanFile' /\ OnFile = lines /\ OnFile' = lines'
             /\ acked' = acked /\ Len(OnFile) <= Len(OnFile')
             /\ \A i \in 1..Len(OnFile) : OnFile'[i] = OnFile[i]
  <2>1. PICK n \in 0..Len(batch) : Written(batch, n, Clean)
    <3>1. Len(batch) \in 0..Len(batch) /\ \A n \in 0..Len(batch) : Cuts(batch, n) = {Clean}
      BY DEF Cuts
    <3> QED BY <1>2, <3>1 DEF WriteSucceeds, WriteFails
  <2> DEFINE whole == SubSeq(batch, 1, n)
  <2>2. tail' = Clean /\ glued' = FALSE /\ lines' = lines \o New(whole, lines)
    BY <2>1 DEF Written, CleanFile
  <2>3. whole \in Seq(Entry) /\ lines \in Seq(Entry)
    BY DEF Control, FileInv, FileOK
  <2> HIDE DEF whole
  <2>4. Len(lines) <= Len(lines') /\ \A i \in 1..Len(lines) : lines'[i] = lines[i]
    <3>1. Appends(lines', lines, whole)
      BY <2>2, <2>3, AppendedFile
    <3> QED BY <3>1 DEF Appends
  <2>5. CleanFile' /\ OnFile = lines /\ OnFile' = lines'
    BY <2>2 DEF CleanFile, OnFile, Readable
  <2> QED BY <1>2, <2>4, <2>5
<1> QED BY <1>1, <1>2 DEF FileStep

LEMMA PrefixByPosition ==
  ASSUME NEW s \in Seq(Entry), NEW t \in Seq(Entry), Len(s) <= Len(t),
         \A i \in 1..Len(s) : t[i] = s[i]
  PROVE  IsPrefix(s, t)
<1>1. SubSeq(s, 1, Len(s)) = SubSeq(t, 1, Len(s))
  OBVIOUS
<1> QED BY <1>1 DEF IsPrefix

(* When failed writes stop between lines, the file and the answers given    *)
(* implement the abstract log: it only grows, in steps after which every    *)
(* entry follows its parent, and only what it holds is ever promised.       *)
THEOREM StoreImplementsLog ==
  ASSUME ~TornWrites
  PROVE  StoreSpec => ImplementsLog
<1>1. StoreInit => Log!Init /\ CleanFile
  BY DEF StoreInit, CleanFile, Log!Init, OnFile, Readable
<1>2. IInv /\ IInv' /\ CleanFile /\ [StoreNext]_storeVars => CleanFile' /\ [Log!Next]_(Log!vars)
  <2> SUFFICES ASSUME IInv, IInv', CleanFile, [StoreNext]_storeVars
               PROVE  CleanFile' /\ [Log!Next]_(Log!vars)
    OBVIOUS
  <2>1. Control /\ Control' /\ FileStep
    BY NextIsFileStep DEF IInv
  <2>2. /\ CleanFile' /\ OnFile = lines /\ OnFile' = lines'
        /\ \/ OnFile' = OnFile /\ acked \subseteq acked'
           \/ /\ acked' = acked /\ Len(OnFile) <= Len(OnFile')
              /\ \A i \in 1..Len(OnFile) : OnFile'[i] = OnFile[i]
    BY <2>1, CleanStep
  <2>3. Grounded(OnFile)' /\ acked' \subseteq ToSet(OnFile)'
    BY <2>2 DEF IInv, CleanFile, DataOK
  <2>4. CASE OnFile' = OnFile /\ acked \subseteq acked'
    <3>1. acked' \subseteq ToSet(OnFile)
      BY <2>3, <2>4
    <3>2. CASE acked' = acked
      <4>1. UNCHANGED <<OnFile, acked>>
        BY <2>4, <3>2
      <4> QED BY <2>2, <4>1 DEF Log!vars
    <3>3. CASE acked' # acked
      <4>1. acked' \subseteq Log!ToSet(OnFile)
        BY <3>1 DEF ToSet, Log!ToSet
      <4>2. Log!Promise
        BY <2>4, <3>3, <4>1 DEF Log!Promise
      <4> QED BY <2>2, <4>2 DEF Log!Next
    <3> QED BY <3>2, <3>3
  <2>5. CASE /\ acked' = acked /\ Len(OnFile) <= Len(OnFile')
             /\ \A i \in 1..Len(OnFile) : OnFile'[i] = OnFile[i]
    <3>1. OnFile \in Seq(Entry) /\ OnFile' \in Seq(Entry)
      BY <2>1, <2>2 DEF Control, FileInv, FileOK
    <3>2. Log!IsPrefix(OnFile, OnFile')
      <4> DEFINE s == OnFile
                 t == OnFile'
      <4>1. s \in Seq(Entry) /\ t \in Seq(Entry) /\ Len(s) <= Len(t) /\ \A i \in 1..Len(s) : t[i] = s[i]
        BY <2>5, <3>1
      <4> HIDE DEF s, t
      <4>2. IsPrefix(s, t)
        BY <4>1, PrefixByPosition
      <4> QED BY <4>2 DEF s, t, IsPrefix, Log!IsPrefix
    <3>3. Log!Grounded(OnFile')
      BY <2>3 DEF Grounded, Log!Grounded
    <3>4. CASE OnFile' = OnFile
      <4>1. UNCHANGED <<OnFile, acked>>
        BY <2>5, <3>4
      <4> QED BY <2>2, <4>1 DEF Log!vars
    <3>5. CASE OnFile' # OnFile
      <4>1. Log!Store
        BY <2>5, <3>2, <3>3, <3>5 DEF Log!Store
      <4> QED BY <2>2, <4>1 DEF Log!Next
    <3> QED BY <3>4, <3>5
  <2> QED BY <2>2, <2>4, <2>5
<1> QED BY <1>1, <1>2, StoreInvariant, PTL DEF StoreSpec, ImplementsLog, Log!Spec

-----------------------------------------------------------------------------
(* The file and the view as one log *)

(* f is s, or s with more after it.                                          *)
Starts(s, f) == Len(s) <= Len(f) /\ \A i \in 1..Len(s) : f[i] = s[i]

Stamped(s, spent) ==
  /\ \A i, j \in 1..Len(s) : s[i].id = s[j].id => i = j
  /\ \A i \in 1..Len(s) : s[i].id <= spent

ParentAfter(before, e) ==
  IF e.kind = "Leaf" THEN LatestNonLeaf(before) ELSE AppendParent(before)

Sequential(s) == \A i \in 2..Len(s) : s[i].parent = ParentAfter(SubSeq(s, 1, i - 1), s[i])

GoodLog(s, spent) == s \in Seq(Entry) /\ Stamped(s, spent) /\ Sequential(s)

(* Of w exactly the first k elements are known by their ids.                 *)
KnownUpTo(w, known, k) ==
  /\ w \in Seq(Entry) /\ k \in 0..Len(w)
  /\ \A i \in 1..k : w[i].id \in IdsOf(known)
  /\ \A i \in (k + 1)..Len(w) : w[i].id \notin IdsOf(known)

IsRest(s, w, k) ==
  s \in Seq(Entry) /\ Len(s) = Len(w) - k /\ \A j \in 1..(Len(w) - k) : s[j] = w[k + j]

LEMMA NewAfterPrefix ==
  ASSUME NEW w, NEW known, NEW k, KnownUpTo(w, known, k)
  PROVE  IsRest(New(w, known), w, k)
<1> USE DEF KnownUpTo
<1>0. Len(w) \in Nat /\ k \in Nat /\ k <= Len(w)
  OBVIOUS
<1>1. PICK f \in [0..Len(w) -> Seq(Entry)] :
           Filters(f, w, known, Len(w)) /\ New(w, known) = f[Len(w)]
  BY NewIsFilter
<1> DEFINE Kept(n, s) == /\ s \in Seq(Entry) /\ Len(s) = IF n <= k THEN 0 ELSE n - k
                         /\ \A j \in 1..(n - k) : s[j] = w[k + j]
           T == {n \in 0..Len(w) : Kept(n, f[n])}
<1>2. 0 \in T
  <2>1. f[0] = <<>> /\ 0 \in 0..Len(w)
    BY <1>0, <1>1 DEF Filters
  <2> QED BY <1>0, <2>1
<1>3. ASSUME NEW n \in 0..Len(w), n < Len(w), n \in T PROVE n + 1 \in T
  <2>1. n + 1 \in 1..Len(w) /\ n + 1 \in 0..Len(w) /\ (n + 1) - 1 = n /\ n \in Nat
    BY <1>0, <1>3
  <2>2. f[n + 1] = IF w[n + 1].id \in IdsOf(known) THEN f[n] ELSE Append(f[n], w[n + 1])
    BY <1>1, <2>1 DEF Filters
  <2>3. PICK s : s = f[n]
    OBVIOUS
  <2>4. Kept(n, s)
    BY <1>3, <2>3
  <2>5. CASE n + 1 <= k
    <3>1. f[n + 1] = s
      BY <1>0, <2>1, <2>2, <2>3, <2>5
    <3>2. Kept(n + 1, s)
      BY <1>0, <2>1, <2>4, <2>5
    <3> QED BY <2>1, <3>1, <3>2
  <2>6. CASE ~(n + 1 <= k)
    <3>1. n + 1 \in (k + 1)..Len(w) /\ Len(s) = n - k /\ s \in Seq(Entry) /\ w[n + 1] \in Entry
      BY <1>0, <2>1, <2>4, <2>6
    <3>2. f[n + 1] = Append(s, w[n + 1])
      BY <2>2, <2>3, <3>1
    <3>3. Kept(n + 1, Append(s, w[n + 1]))
      <4>1. \A j \in 1..(n - k) : s[j] = w[k + j]
        BY <2>4
      <4> DEFINE t == Append(s, w[n + 1])
      <4>2. /\ t \in Seq(Entry) /\ Len(t) = (n - k) + 1 /\ t[(n - k) + 1] = w[n + 1]
            /\ \A j \in 1..(n - k) : t[j] = s[j]
        BY <3>1
      <4> HIDE DEF t
      <4>3. ASSUME NEW j \in 1..((n + 1) - k) PROVE t[j] = w[k + j]
        <5>1. CASE j = (n - k) + 1
          <6>1. k + j = n + 1
            BY <1>0, <2>1, <5>1
          <6> QED BY <4>2, <5>1, <6>1
        <5>2. CASE j # (n - k) + 1
          <6>1. j \in 1..(n - k)
            BY <1>0, <2>1, <2>6, <5>2
          <6> QED BY <4>1, <4>2, <6>1
        <5> QED BY <5>1, <5>2
      <4>4. (n - k) + 1 = (n + 1) - k
        BY <1>0, <2>1
      <4> QED BY <2>6, <4>2, <4>3, <4>4 DEF t
    <3> QED BY <2>1, <3>2, <3>3
  <2> QED BY <2>5, <2>6
<1> HIDE DEF T
<1>4. \A n \in 0..Len(w) : n \in T
  BY <1>0, <1>2, <1>3, InductionUpTo
<1>5. Kept(Len(w), f[Len(w)])
  BY <1>0, <1>4 DEF T
<1> QED BY <1>0, <1>1, <1>5 DEF IsRest

(* w stands in s, after its first a elements.                                *)
PartOf(w, s, a) == a + Len(w) <= Len(s) /\ \A i \in 1..Len(w) : w[i] = s[a + i]

(* The first k of m elements that start after place a lie within the first p. *)
Overlap(a, p, m, k) ==
  k \in Nat /\ k <= m /\ a + k <= p /\ (k = m \/ a + k = p)

LEMMA OverlapExists ==
  ASSUME NEW a \in Nat, NEW p \in Nat, NEW m \in Nat, a <= p
  PROVE  \E k \in 0..m : Overlap(a, p, m, k)
<1>1. CASE a + m <= p
  BY <1>1 DEF Overlap
<1>2. CASE ~(a + m <= p)
  <2>1. PICK k : k = p - a
    OBVIOUS
  <2>2. k \in 0..m /\ Overlap(a, p, m, k)
    BY <1>2, <2>1 DEF Overlap
  <2> QED BY <2>2
<1> QED BY <1>1, <1>2

LEMMA OverlapBounds ==
  ASSUME NEW a \in Nat, NEW p \in Nat, NEW m \in Nat, NEW k, Overlap(a, p, m, k)
  PROVE  /\ k \in 0..m
         /\ p + (m - k) = IF a + m <= p THEN p ELSE a + m
         /\ \A i \in 1..k : i \in 1..m /\ a + i \in 1..p
         /\ \A i \in (k + 1)..m : i \in 1..m /\ i \in Nat /\ \A j \in 1..p : j # a + i
         /\ \A j \in 1..(m - k) : k + j \in 1..m /\ p + j = a + (k + j)
BY DEF Overlap

(* l is the start of the log G, and w stands in G after its first a elements. *)
Continues(G, spent, l, w, a) ==
  /\ G \in Seq(Entry) /\ l \in Seq(Entry) /\ w \in Seq(Entry) /\ a \in Nat
  /\ Stamped(G, spent) /\ Starts(l, G) /\ a <= Len(l) /\ PartOf(w, G, a)

LEMMA NewOfContinuation ==
  ASSUME NEW G, NEW spent, NEW l, NEW w, NEW a, Continues(G, spent, l, w, a),
         NEW k, Overlap(a, Len(l), Len(w), k)
  PROVE  IsRest(New(w, l), w, k)
<1>0. Len(G) \in Nat /\ Len(l) \in Nat /\ Len(w) \in Nat /\ a \in Nat /\ DOMAIN l = 1..Len(l)
  BY DEF Continues
<1>1. Len(l) <= Len(G) /\ a + Len(w) <= Len(G) /\ a <= Len(l)
  BY DEF Starts, PartOf, Continues
<1>2. \A i \in 1..Len(l) : G[i] = l[i]
  BY DEF Starts, Continues
<1>3. \A i \in 1..Len(w) : w[i] = G[a + i]
  BY DEF PartOf, Continues
<1>4. /\ k \in 0..Len(w)
      /\ \A i \in 1..k : i \in 1..Len(w) /\ a + i \in 1..Len(l)
      /\ \A i \in (k + 1)..Len(w) :
           i \in 1..Len(w) /\ i \in Nat /\ \A j \in 1..Len(l) : j # a + i
  BY <1>0, OverlapBounds
<1>5. ASSUME NEW i \in 1..k PROVE w[i].id \in IdsOf(l)
  <2>1. a + i \in 1..Len(l) /\ i \in 1..Len(w)
    BY <1>4
  <2>2. w[i] = l[a + i]
    BY <1>2, <1>3, <2>1
  <2> QED BY <1>0, <2>1, <2>2 DEF IdsOf
<1>6. ASSUME NEW i \in (k + 1)..Len(w) PROVE w[i].id \notin IdsOf(l)
  <2> SUFFICES ASSUME NEW j \in 1..Len(l), l[j].id = w[i].id PROVE FALSE
    BY <1>0 DEF IdsOf
  <2>1. i \in 1..Len(w) /\ i \in Nat /\ j # a + i
    BY <1>4
  <2>2. j \in 1..Len(G) /\ a + i \in 1..Len(G)
    BY <1>0, <1>1, <2>1
  <2>3. G[j].id = G[a + i].id
    BY <1>2, <1>3, <2>1
  <2> QED BY <2>1, <2>2, <2>3 DEF Stamped, Continues
<1>7. w \in Seq(Entry) /\ k \in 0..Len(w)
  BY <1>4 DEF Continues
<1>8. \A i \in 1..k : w[i].id \in IdsOf(l)
  BY <1>5
<1>9. \A i \in (k + 1)..Len(w) : w[i].id \notin IdsOf(l)
  BY <1>6
<1>10. KnownUpTo(w, l, k)
  BY <1>7, <1>8, <1>9 DEF KnownUpTo
<1> QED BY <1>10, NewAfterPrefix

LEMMA PrefixExtends ==
  ASSUME NEW G, NEW spent, NEW l, NEW w, NEW a, Continues(G, spent, l, w, a)
  PROVE  /\ l \o New(w, l) \in Seq(Entry)
         /\ Starts(l, l \o New(w, l)) /\ Starts(l \o New(w, l), G)
         /\ Len(l \o New(w, l)) = IF a + Len(w) <= Len(l) THEN Len(l) ELSE a + Len(w)
<1>0. Len(G) \in Nat /\ Len(l) \in Nat /\ Len(w) \in Nat /\ a \in Nat
  BY DEF Continues
<1>1. Len(l) <= Len(G) /\ a + Len(w) <= Len(G) /\ a <= Len(l)
  BY DEF Starts, PartOf, Continues
<1>2. \A i \in 1..Len(l) : G[i] = l[i]
  BY DEF Starts, Continues
<1>3. \A i \in 1..Len(w) : w[i] = G[a + i]
  BY DEF PartOf, Continues
<1>4. PICK k : Overlap(a, Len(l), Len(w), k)
  BY <1>0, <1>1, OverlapExists
<1>5. /\ Len(l) + (Len(w) - k) = IF a + Len(w) <= Len(l) THEN Len(l) ELSE a + Len(w)
      /\ \A j \in 1..(Len(w) - k) : k + j \in 1..Len(w) /\ Len(l) + j = a + (k + j)
  BY <1>0, <1>4, OverlapBounds
<1>6. PICK N : N = New(w, l)
  OBVIOUS
<1>7. /\ N \in Seq(Entry) /\ Len(N) = Len(w) - k
      /\ \A j \in 1..(Len(w) - k) : N[j] = w[k + j]
  BY <1>4, <1>6, NewOfContinuation DEF IsRest
<1>8. PICK r : r = l \o N
  OBVIOUS
<1>9. /\ r \in Seq(Entry) /\ Len(r) = Len(l) + Len(N)
      /\ \A i \in 1..Len(l) : r[i] = l[i]
      /\ \A j \in 1..Len(N) : r[Len(l) + j] = N[j]
  <2>1. l \in Seq(Entry) /\ N \in Seq(Entry)
    BY <1>7 DEF Continues
  <2> QED BY <1>8, <2>1
<1>10. Len(r) = IF a + Len(w) <= Len(l) THEN Len(l) ELSE a + Len(w)
  BY <1>5, <1>7, <1>9
<1>11. Len(N) \in Nat
  BY <1>7
<1>12. Starts(l, r)
  BY <1>0, <1>9, <1>11 DEF Starts
<1>13. Starts(r, G)
  <2>1. Len(r) <= Len(G)
    BY <1>0, <1>1, <1>10
  <2>2. ASSUME NEW i \in 1..Len(r) PROVE G[i] = r[i]
    <3>1. CASE i \in 1..Len(l)
      BY <1>2, <1>9, <3>1
    <3>2. CASE i \notin 1..Len(l)
      <4>1. PICK j : j = i - Len(l)
        OBVIOUS
      <4>2. j \in 1..Len(N) /\ i = Len(l) + j
        BY <1>0, <1>9, <1>11, <3>2, <4>1
      <4>3. k + j \in 1..Len(w) /\ i = a + (k + j)
        BY <1>5, <1>7, <4>2
      <4>4. r[i] = w[k + j]
        BY <1>7, <1>9, <4>2
      <4> QED BY <1>3, <4>3, <4>4
    <3> QED BY <3>1, <3>2
  <2> QED BY <2>1, <2>2 DEF Starts
<1> QED BY <1>6, <1>8, <1>9, <1>10, <1>12, <1>13

LEMMA StartsTransitive ==
  ASSUME NEW a \in Seq(Entry), NEW b \in Seq(Entry), NEW c \in Seq(Entry),
         Starts(a, b), Starts(b, c)
  PROVE  Starts(a, c)
<1>1. Len(a) \in Nat /\ Len(b) \in Nat /\ Len(c) \in Nat
  OBVIOUS
<1> QED BY <1>1 DEF Starts

LEMMA StartsWithAll ==
  ASSUME NEW a \in Seq(Entry), NEW b \in Seq(Entry), Starts(a, b), Len(a) >= Len(b)
  PROVE  a = b
<1>1. Len(a) \in Nat /\ Len(b) \in Nat
  OBVIOUS
<1>2. Len(a) = Len(b) /\ \A i \in 1..Len(a) : a[i] = b[i]
  BY <1>1 DEF Starts
<1> QED BY <1>2

LEMMA StartsSelf ==
  ASSUME NEW a \in Seq(Entry)
  PROVE  Starts(a, a)
BY DEF Starts

LEMMA PartsOfWhole ==
  ASSUME NEW v \in Seq(Entry), NEW w \in Seq(Entry), NEW n \in 0..Len(w)
  PROVE  /\ v \o w \in Seq(Entry) /\ Len(v \o w) = Len(v) + Len(w)
         /\ Starts(v, v \o w)
         /\ SubSeq(w, 1, n) \in Seq(Entry) /\ Len(SubSeq(w, 1, n)) = n
         /\ PartOf(SubSeq(w, 1, n), v \o w, Len(v))
         /\ n < Len(w) => /\ <<w[n + 1]>> \in Seq(Entry) /\ Len(<<w[n + 1]>>) = 1
                          /\ PartOf(<<w[n + 1]>>, v \o w, Len(v) + n)
<1>0. Len(v) \in Nat /\ Len(w) \in Nat /\ n \in Nat /\ n <= Len(w)
  OBVIOUS
<1>1. PICK G : G = v \o w
  OBVIOUS
<1>2. /\ G \in Seq(Entry) /\ Len(G) = Len(v) + Len(w)
      /\ \A i \in 1..Len(v) : G[i] = v[i]
      /\ \A i \in 1..Len(w) : G[Len(v) + i] = w[i]
  BY <1>1
<1>3. Starts(v, G)
  BY <1>0, <1>2 DEF Starts
<1>4. PICK u : u = SubSeq(w, 1, n)
  OBVIOUS
<1>5. u \in Seq(Entry) /\ Len(u) = n /\ \A i \in 1..n : u[i] = w[i]
  BY <1>0, <1>4
<1>6. PartOf(u, G, Len(v))
  <2>1. \A i \in 1..n : u[i] = G[Len(v) + i]
    <3> TAKE i \in 1..n
    <3>1. i \in 1..Len(w)
      BY <1>0
    <3> QED BY <1>2, <1>5, <3>1
  <2> QED BY <1>0, <1>2, <1>5, <2>1 DEF PartOf
<1>7. ASSUME n < Len(w)
      PROVE  /\ <<w[n + 1]>> \in Seq(Entry) /\ Len(<<w[n + 1]>>) = 1
             /\ PartOf(<<w[n + 1]>>, G, Len(v) + n)
  <2>1. n + 1 \in 1..Len(w) /\ w[n + 1] \in Entry /\ Len(v) + (n + 1) = (Len(v) + n) + 1
    BY <1>0, <1>7
  <2>2. PICK e : e = <<w[n + 1]>>
    OBVIOUS
  <2>3. e \in Seq(Entry) /\ Len(e) = 1 /\ e[1] = w[n + 1]
    BY <2>1, <2>2
  <2>4. e[1] = G[(Len(v) + n) + 1]
    BY <1>2, <2>1, <2>3
  <2>5. (Len(v) + n) + 1 <= Len(G)
    BY <1>0, <1>2, <1>7
  <2>6. PartOf(e, G, Len(v) + n)
    BY <2>3, <2>4, <2>5 DEF PartOf
  <2> QED BY <2>2, <2>3, <2>6
<1> QED BY <1>1, <1>2, <1>3, <1>4, <1>5, <1>6, <1>7

(* Where the file stands between the view v and all of v \o w, a write of w  *)
(* takes it on, and one that succeeds takes it to the end.                   *)
LEMMA FileFollows ==
  ASSUME FileOK(lines, tail, glued), ~glued',
         NEW v \in Seq(Entry), NEW w \in Seq(Entry), NEW spent,
         Stamped(v \o w, spent), Starts(OnFile, v \o w), Starts(v, OnFile),
         NEW n \in 0..Len(w), NEW cut \in Cuts(w, n), Written(w, n, cut)
  PROVE  /\ OnFile' \in Seq(Entry) /\ Starts(OnFile, OnFile') /\ Starts(OnFile', v \o w)
         /\ n = Len(w) /\ cut = Clean => OnFile' = v \o w
<1>1. /\ n \in Nat /\ n <= Len(w) /\ Len(w) \in Nat /\ Len(v) \in Nat
      /\ lines \in Seq(Entry) /\ OnFile \in Seq(Entry)
  BY OnFileType DEF FileOK
<1>2. ~(tail # Clean /\ (n > 0 \/ cut # Clean))
  BY DEF Written
<1>3. lines' = lines \o New(SubSeq(w, 1, n), lines)
  BY <1>2 DEF Written
<1>4. PICK G : G = v \o w
  OBVIOUS
<1>5. PICK u : u = SubSeq(w, 1, n)
  OBVIOUS
<1>a. lines' = lines \o New(u, lines)
  BY <1>3, <1>5
<1>6. /\ G \in Seq(Entry) /\ Len(G) = Len(v) + Len(w) /\ Stamped(G, spent)
      /\ Starts(OnFile, G)
  BY <1>4, PartsOfWhole
<1>7. /\ u \in Seq(Entry) /\ Len(u) = n /\ PartOf(u, G, Len(v))
  BY <1>4, <1>5, PartsOfWhole
<1>8. n < Len(w) => /\ <<w[n + 1]>> \in Seq(Entry) /\ Len(<<w[n + 1]>>) = 1
                    /\ PartOf(<<w[n + 1]>>, G, Len(v) + n)
  BY <1>4, PartsOfWhole
<1>9. CASE tail # Clean
  <2>1. n = 0 /\ cut = Clean
    BY <1>1, <1>2, <1>9
  <2>2. u = <<>>
    BY <1>7, <2>1
  <2>3. lines' = lines
    <3>1. New(u, lines) = <<>>
      BY <2>2, NewOfNothing
    <3> QED BY <1>1, <1>a, <3>1
  <2>4. tail' = tail
    BY <2>1 DEF Written
  <2>5. OnFile' = OnFile
    BY <2>3, <2>4 DEF OnFile
  <2>6. Starts(OnFile, OnFile)
    BY <1>1, StartsSelf
  <2>7. ASSUME n = Len(w) PROVE OnFile = G
    <3>1. Len(G) = Len(v) /\ Len(v) <= Len(OnFile)
      BY <1>1, <1>6, <2>1, <2>7 DEF Starts
    <3>2. Len(OnFile) >= Len(G)
      BY <1>1, <3>1
    <3> QED BY <1>1, <1>6, <3>2, StartsWithAll
  <2> QED BY <1>1, <1>4, <1>6, <2>5, <2>6, <2>7
<1>10. CASE tail = Clean
  <2>1. OnFile = lines /\ tail' = cut
    BY <1>10 DEF OnFile, Readable, Written
  <2>2. Len(v) <= Len(lines) /\ Starts(lines, G)
    BY <1>6, <2>1 DEF Starts
  <2>3. Continues(G, spent, lines, u, Len(v))
    BY <1>1, <1>6, <1>7, <2>2 DEF Continues
  <2>4. PICK l2 : l2 = lines'
    OBVIOUS
  <2>5. /\ l2 \in Seq(Entry) /\ Starts(lines, l2) /\ Starts(l2, G)
        /\ Len(l2) = IF Len(v) + n <= Len(lines) THEN Len(lines) ELSE Len(v) + n
    <3>1. l2 = lines \o New(u, lines)
      BY <1>a, <2>4
    <3>2. /\ l2 \in Seq(Entry) /\ Starts(lines, l2) /\ Starts(l2, G)
          /\ Len(l2) = IF Len(v) + Len(u) <= Len(lines) THEN Len(lines) ELSE Len(v) + Len(u)
      BY <2>3, <3>1, PrefixExtends
    <3> QED BY <1>7, <3>2
  <2>6. CASE cut \in {Clean, Torn}
    <3>1. OnFile' = l2
      BY <2>1, <2>4, <2>6 DEF OnFile, Readable
    <3>2. n = Len(w) => l2 = G
      <4>1. n = Len(w) => Len(l2) >= Len(G)
        BY <1>1, <1>6, <2>5
      <4> QED BY <1>6, <2>5, <4>1, StartsWithAll
    <3> QED BY <1>4, <2>1, <2>5, <3>1, <3>2
  <2>7. CASE cut \notin {Clean, Torn}
    <3>1. n + 1 \in 1..Len(w) /\ cut = w[n + 1] /\ n < Len(w)
      BY <1>1, <2>7, CutsShape
    <3>2. PICK one : one = <<cut>>
      OBVIOUS
    <3>3. one \in Seq(Entry) /\ Len(one) = 1 /\ PartOf(one, G, Len(v) + n)
      BY <1>8, <3>1, <3>2
    <3>4. OnFile' = l2 \o New(one, l2)
      BY <2>1, <2>4, <2>7, <3>2 DEF OnFile, Readable
    <3>5. Len(v) + n <= Len(l2) /\ Len(v) + n \in Nat
      BY <1>1, <2>5
    <3>6. Continues(G, spent, l2, one, Len(v) + n)
      BY <1>6, <2>5, <3>3, <3>5 DEF Continues
    <3>7. PICK f2 : f2 = OnFile'
      OBVIOUS
    <3>8. f2 \in Seq(Entry) /\ Starts(l2, f2) /\ Starts(f2, G)
      BY <3>4, <3>6, <3>7, PrefixExtends
    <3>9. Starts(lines, f2)
      BY <1>1, <2>5, <3>8, StartsTransitive
    <3> QED BY <1>4, <2>1, <2>7, <3>7, <3>8, <3>9
  <2> QED BY <2>6, <2>7
<1> QED BY <1>9, <1>10

-----------------------------------------------------------------------------
(* Logs in which every entry continues the branch before it *)

LEMMA SamePrefix ==
  ASSUME NEW f \in Seq(Entry), NEW g \in Seq(Entry), Starts(f, g), NEW i \in 1..(Len(f) + 1)
  PROVE  SubSeq(f, 1, i - 1) = SubSeq(g, 1, i - 1)
<1>1. Len(f) \in Nat /\ Len(g) \in Nat /\ Len(f) <= Len(g) /\ \A j \in 1..Len(f) : g[j] = f[j]
  BY DEF Starts
<1>2. PICK m \in 0..Len(f) : m = i - 1
  BY <1>1
<1>3. /\ SubSeq(f, 1, m) \in Seq(Entry) /\ SubSeq(g, 1, m) \in Seq(Entry)
      /\ Len(SubSeq(f, 1, m)) = m /\ Len(SubSeq(g, 1, m)) = m
      /\ \A j \in 1..m : SubSeq(f, 1, m)[j] = f[j] /\ SubSeq(g, 1, m)[j] = g[j]
  BY <1>1
<1>4. SubSeq(f, 1, m) = SubSeq(g, 1, m)
  <2>1. \A j \in 1..m : SubSeq(f, 1, m)[j] = SubSeq(g, 1, m)[j]
    BY <1>1, <1>3
  <2> QED BY <1>3, <2>1
<1> QED BY <1>2, <1>4

LEMMA GoodPrefix ==
  ASSUME NEW f \in Seq(Entry), NEW g, NEW spent, GoodLog(g, spent), Starts(f, g)
  PROVE  GoodLog(f, spent)
<1>1. g \in Seq(Entry) /\ Stamped(g, spent) /\ Sequential(g)
  BY DEF GoodLog
<1>2. /\ Len(f) \in Nat /\ Len(g) \in Nat /\ Len(f) <= Len(g)
      /\ \A j \in 1..Len(f) : g[j] = f[j] /\ j \in 1..Len(g)
  BY <1>1 DEF Starts
<1>3. Stamped(f, spent)
  BY <1>1, <1>2 DEF Stamped
<1>4. Sequential(f)
  <2> SUFFICES ASSUME NEW i \in 2..Len(f)
               PROVE  f[i].parent = ParentAfter(SubSeq(f, 1, i - 1), f[i])
    BY DEF Sequential
  <2>1. i \in 2..Len(g) /\ i \in 1..Len(f) /\ i \in 1..(Len(f) + 1)
    BY <1>2
  <2>2. g[i].parent = ParentAfter(SubSeq(g, 1, i - 1), g[i]) /\ g[i] = f[i]
    BY <1>1, <1>2, <2>1 DEF Sequential
  <2>3. SubSeq(f, 1, i - 1) = SubSeq(g, 1, i - 1)
    BY <1>1, <2>1, SamePrefix
  <2> QED BY <2>2, <2>3
<1> QED BY <1>3, <1>4 DEF GoodLog

LEMMA GoodWithMore ==
  ASSUME NEW f, NEW spent \in Nat, NEW more \in Nat, GoodLog(f, spent), spent <= more
  PROVE  GoodLog(f, more)
<1>1. f \in Seq(Entry) /\ \A i \in 1..Len(f) : f[i].id \in Nat
  BY EntryShape DEF GoodLog
<1> QED BY <1>1 DEF GoodLog, Stamped

(* What a call adds to a view that has used up the ids up to `spent`.        *)
Chained(v, spent, b) ==
  /\ b \in Seq(Entry) /\ Len(b) \in {1, 2}
  /\ \A i \in 1..Len(b) : b[i].id = spent + i
  /\ b[1].parent = ParentAfter(v, b[1])
  /\ Len(b) = 2 => b[2].parent = b[1].id /\ b[1].kind = "Item" /\ b[2].kind = "Item"

LEMMA OneOrTwo ==
  ASSUME NEW n \in {1, 2}, NEW k \in 1..n
  PROVE  k = 1 \/ (k = 2 /\ n = 2)
OBVIOUS

LEMMA GoodExtends ==
  ASSUME NEW v, v # <<>>, NEW spent \in Nat, GoodLog(v, spent), NEW b, Chained(v, spent, b)
  PROVE  GoodLog(v \o b, spent + Len(b))
<1>1. /\ v \in Seq(Entry) /\ b \in Seq(Entry) /\ Len(v) \in Nat /\ Len(v) >= 1
      /\ Len(b) \in {1, 2}
  BY DEF GoodLog, Chained
<1>2. PICK G : G = v \o b
  OBVIOUS
<1>3. /\ G \in Seq(Entry) /\ Len(G) = Len(v) + Len(b)
      /\ \A i \in 1..Len(v) : G[i] = v[i]
      /\ \A i \in 1..Len(b) : G[Len(v) + i] = b[i]
  BY <1>1, <1>2
<1>n. /\ Len(v) \in Nat /\ Len(v) >= 1 /\ Len(G) = Len(v) + Len(b)
      /\ Len(b) \in Nat /\ (Len(b) = 1 \/ Len(b) = 2)
  BY <1>1, <1>3
<1>4. Starts(v, G)
  BY <1>1, <1>3 DEF Starts
<1>5. \A i \in 1..Len(G) : \/ i \in 1..Len(v)
                           \/ \E k \in 1..Len(b) : i = Len(v) + k
  <2> TAKE i \in 1..Len(G)
  <2>1. PICK k : k = i - Len(v)
    OBVIOUS
  <2>2. i \in 1..Len(v) \/ (k \in 1..Len(b) /\ i = Len(v) + k)
    BY <1>1, <1>3, <2>1
  <2> QED BY <2>2
<1>6. /\ \A i \in 1..Len(v) : v[i].id <= spent /\ v[i].id \in Nat
      /\ \A i, j \in 1..Len(v) : v[i].id = v[j].id => i = j
  BY <1>1, EntryShape DEF GoodLog, Stamped
<1>7. \A k \in 1..Len(b) : b[k].id = spent + k
  BY DEF Chained
<1>8. Stamped(G, spent + Len(b))
  <2>1. ASSUME NEW i \in 1..Len(G) PROVE G[i].id <= spent + Len(b)
    <3>1. CASE i \in 1..Len(v)
      <4>1. G[i].id \in Nat /\ G[i].id <= spent
        BY <1>3, <1>6, <3>1
      <4> QED BY <1>n, <4>1
    <3>2. ASSUME NEW k \in 1..Len(b), i = Len(v) + k PROVE G[i].id <= spent + Len(b)
      <4>1. G[i].id = spent + k
        BY <1>3, <1>7, <3>2
      <4>2. spent \in Nat /\ k <= Len(b) /\ k \in Nat
        BY <1>1, <1>n
      <4> QED BY <1>n, <4>1, <4>2
    <3> QED BY <1>5, <3>1, <3>2
  <2>2. ASSUME NEW i \in 1..Len(G), NEW j \in 1..Len(G), G[i].id = G[j].id PROVE i = j
    <3>1. CASE i \in 1..Len(v) /\ j \in 1..Len(v)
      BY <1>3, <1>6, <2>2, <3>1
    <3>2. ASSUME NEW k \in 1..Len(b), NEW m \in 1..Len(b), i = Len(v) + k, j = Len(v) + m
          PROVE  i = j
      <4>1. spent + k = spent + m
        BY <1>3, <1>7, <2>2, <3>2
      <4> QED BY <1>1, <3>2, <4>1
    <3>3. \A x \in 1..Len(v), k \in 1..Len(b) : G[x].id # G[Len(v) + k].id
      <4> TAKE x \in 1..Len(v), k \in 1..Len(b)
      <4>1. G[x].id \in Nat /\ G[x].id <= spent /\ G[Len(v) + k].id = spent + k
        BY <1>3, <1>6, <1>7
      <4> QED BY <1>1, <4>1
    <3> QED BY <1>5, <2>2, <3>1, <3>2, <3>3
  <2> QED BY <2>1, <2>2 DEF Stamped
<1>9. Sequential(G)
  <2> SUFFICES ASSUME NEW i \in 2..Len(G)
               PROVE  G[i].parent = ParentAfter(SubSeq(G, 1, i - 1), G[i])
    BY DEF Sequential
  <2>1. CASE i \in 1..Len(v)
    <3>1. i \in 2..Len(v) /\ i \in 1..(Len(v) + 1)
      BY <1>1, <2>1
    <3>2. SubSeq(v, 1, i - 1) = SubSeq(G, 1, i - 1)
      BY <1>1, <1>3, <1>4, <3>1, SamePrefix
    <3>3. v[i].parent = ParentAfter(SubSeq(v, 1, i - 1), v[i])
      BY <3>1 DEF GoodLog, Sequential
    <3> QED BY <1>3, <2>1, <3>2, <3>3
  <2>2. CASE i = Len(v) + 1
    <3>1. SubSeq(v, 1, Len(v)) = SubSeq(G, 1, Len(v))
      <4>1. Len(v) + 1 \in 1..(Len(v) + 1) /\ (Len(v) + 1) - 1 = Len(v)
        BY <1>1
      <4> QED BY <1>1, <1>3, <1>4, <4>1, SamePrefix
    <3>2. SubSeq(v, 1, Len(v)) = v
      BY <1>1
    <3>3. i - 1 = Len(v) /\ 1 \in 1..Len(b)
      BY <1>n, <2>2
    <3>4. G[i] = b[1]
      BY <1>3, <2>2, <3>3
    <3> QED BY <3>1, <3>2, <3>3, <3>4 DEF Chained
  <2>3. CASE i = Len(v) + 2 /\ Len(b) = 2
    <3>1. PICK t : t = SubSeq(G, 1, Len(v) + 1)
      OBVIOUS
    <3>2. /\ t \in Seq(Entry) /\ Len(t) = Len(v) + 1 /\ t[Len(v) + 1] = G[Len(v) + 1]
      BY <1>1, <1>3, <2>3, <3>1
    <3>3. 1 \in 1..Len(b) /\ 2 \in 1..Len(b) /\ i - 1 = Len(v) + 1
      BY <1>1, <2>3
    <3>4. G[i] = b[2] /\ Last(t) = b[1]
      BY <1>3, <2>3, <3>2, <3>3 DEF Last
    <3>5. AppendParent(t) = b[1].id
      BY <2>3, <3>4 DEF AppendParent, Chained
    <3> QED BY <2>3, <3>1, <3>3, <3>4, <3>5 DEF Chained, ParentAfter
  <2>4. i \in 1..Len(v) \/ i = Len(v) + 1 \/ (i = Len(v) + 2 /\ Len(b) = 2)
    <3>1. i \in 1..Len(G)
      BY <1>n
    <3>2. ASSUME NEW k \in 1..Len(b), i = Len(v) + k PROVE k = 1 \/ (k = 2 /\ Len(b) = 2)
      BY <1>1, OneOrTwo
    <3> QED BY <1>5, <3>1, <3>2
  <2> QED BY <2>1, <2>2, <2>3, <2>4
<1> QED BY <1>2, <1>3, <1>8, <1>9 DEF GoodLog

LEMMA NewEntriesChained ==
  ASSUME NEW v \in Seq(Entry), v # <<>>, StartsWell(v), NEW spent \in Nat, NEW batch,
         \/ \E size \in {1, 2} :
              batch = [i \in 1..size |->
                        MessageItem(spent + i, IF i = 1 THEN AppendParent(v) ELSE spent + i - 1)]
         \/ \E t \in IdsOf(v) \cup {0} : batch = <<Leaf(spent + 1, LatestNonLeaf(v), t)>>
  PROVE  Chained(v, spent, batch)
<1>1. batch \in Seq(Entry) /\ Len(batch) \in {1, 2}
  BY FreshEntries
<1>2. ASSUME NEW size \in {1, 2},
             batch = [i \in 1..size |->
                       MessageItem(spent + i, IF i = 1 THEN AppendParent(v) ELSE spent + i - 1)]
      PROVE  Chained(v, spent, batch)
  <2>1. Len(batch) = size
    BY <1>1, <1>2
  <2>2. \A i \in 1..size :
           /\ batch[i].id = spent + i /\ batch[i].kind = "Item"
           /\ batch[i].parent = IF i = 1 THEN AppendParent(v) ELSE spent + i - 1
    BY <1>2 DEF MessageItem
  <2>3. 1 \in 1..size /\ (size = 2 => 2 \in 1..size /\ spent + 2 - 1 = spent + 1)
    OBVIOUS
  <2> QED BY <1>1, <2>1, <2>2, <2>3 DEF Chained, ParentAfter
<1>3. ASSUME NEW t \in IdsOf(v) \cup {0}, batch = <<Leaf(spent + 1, LatestNonLeaf(v), t)>>
      PROVE  Chained(v, spent, batch)
  <2>1. Len(batch) = 1 /\ batch[1] = Leaf(spent + 1, LatestNonLeaf(v), t)
    BY <1>3
  <2>2. batch[1].id = spent + 1 /\ batch[1].kind = "Leaf" /\ batch[1].parent = LatestNonLeaf(v)
    BY <2>1 DEF Leaf
  <2> QED BY <1>1, <2>1, <2>2 DEF Chained, ParentAfter
<1> QED BY <1>2, <1>3

-----------------------------------------------------------------------------
(* The invariant behind one log *)

Quiet == consumed.evictions = 0 /\ consumed.drops = 0 /\ ~glued

(* The log as the open handle will leave it.                                *)
Whole == IF mapped = Nobody THEN OnFile ELSE view[mapped] \o buffered[mapped]

LogInv ==
  /\ GoodLog(Whole, consumed.entries) /\ Starts(OnFile, Whole)
  /\ mapped # Nobody =>
       Starts(view[mapped], OnFile) /\ pendingState[mapped] = buffered[mapped]

CallInv(c) ==
  /\ pc[c] \in {"lock", "recover", "write", "flush", "index"} => held[c] = mapped
  /\ pc[c] \in {"recover", "write", "flush"} => holder[mapped] = c
  /\ pc[c] = "write" => buffered[mapped] = <<>>
  /\ pc[c] = "insert" /\ mapped = Nobody => loaded[c] = OnFile
  /\ pc[c] = "register" =>
       /\ held[c] = 1 /\ OnFile = <<Header>> /\ view[1] = <<Header>>
       /\ buffered[1] = <<>> /\ pendingState[1] = <<>>

OneLog == Quiet => LogInv /\ closing = {} /\ \A c \in Callers : CallInv(c)

Spends(n) ==
  /\ consumed'.entries = consumed.entries + n
  /\ consumed'.evictions = consumed.evictions /\ consumed'.drops = consumed.drops

LEMMA SpendsAre ==
  ASSUME Control
  PROVE  /\ consumed' = consumed \/ Use("calls", 1) \/ Use("failures", 1) \/ Use("handles", 1)
              \/ Use("crashes", 1)
              \/ consumed' = [consumed EXCEPT !.handles = @ + 1, !.failures = @ + 1]
            => Spends(0)
         /\ \A n \in Nat :
              \/ Use("entries", n)
              \/ consumed' = [consumed EXCEPT !.entries = @ + n, !.failures = @ + 1]
              => Spends(n)
<1>1. consumed \in Counters /\ consumed.entries \in Nat
  BY CountersFields DEF Control, CountersInv
<1>2. consumed.entries + 0 = consumed.entries
  BY <1>1
<1>3. consumed' = consumed => Spends(0)
  BY <1>2 DEF Spends
<1>4. Use("calls", 1) => Spends(0)
  BY <1>1, <1>2 DEF Spends, Use, Counters
<1>5. Use("failures", 1) => Spends(0)
  BY <1>1, <1>2 DEF Spends, Use, Counters
<1>6. Use("handles", 1) => Spends(0)
  BY <1>1, <1>2 DEF Spends, Use, Counters
<1>7. Use("crashes", 1) => Spends(0)
  BY <1>1, <1>2 DEF Spends, Use, Counters
<1>8. consumed' = [consumed EXCEPT !.handles = @ + 1, !.failures = @ + 1] => Spends(0)
  BY <1>1, <1>2 DEF Spends, Counters
<1>9. ASSUME NEW n \in Nat PROVE Use("entries", n) => Spends(n)
  BY <1>1 DEF Spends, Use, Counters
<1>10. ASSUME NEW n \in Nat
       PROVE  consumed' = [consumed EXCEPT !.entries = @ + n, !.failures = @ + 1] => Spends(n)
  BY <1>1 DEF Spends, Counters
<1> QED BY <1>3, <1>4, <1>5, <1>6, <1>7, <1>8, <1>9, <1>10

LEMMA QuietBefore ==
  ASSUME Control, [StoreNext]_storeVars, NEW n, Spends(n), Quiet'
  PROVE  Quiet /\ ~glued'
<1>1. ~glued
  BY NextIsFileStep, GluedForEver DEF Quiet
<1> QED BY <1>1 DEF Quiet, Spends

LEMMA OpenHandleFacts ==
  ASSUME Control, mapped # Nobody
  PROVE  /\ mapped \in Handles /\ view[mapped] \in Seq(Entry) /\ buffered[mapped] \in Seq(Entry)
         /\ view[mapped] # <<>> /\ StartsWell(view[mapped])
         /\ pendingState[mapped] \in Seq(Entry)
         /\ consumed.entries \in Nat /\ FileOK(lines, tail, glued) /\ OnFile \in Seq(Entry)
         /\ HandleTypes
<1>1. mapped \in Opened
  BY DEF Control, HandlesInv
<1>2. mapped \in Handles /\ view[mapped] # <<>> /\ StartsWell(view[mapped])
  BY <1>1, HandleIsOpen DEF Control
<1>3. consumed.entries \in Nat
  BY CountersFields DEF Control, CountersInv
<1>4. FileOK(lines, tail, glued) /\ OnFile \in Seq(Entry)
  BY OnFileType DEF Control, FileInv
<1> QED BY <1>2, <1>3, <1>4 DEF Control, HandleTypes

LEMMA FileMovesOn ==
  ASSUME Control, mapped # Nobody, LogInv, ~glued',
         NEW w \in Seq(Entry), NEW spent,
         GoodLog(view[mapped] \o w, spent), Starts(OnFile, view[mapped] \o w),
         WriteSucceeds(w) \/ WriteFails(w)
  PROVE  /\ OnFile' \in Seq(Entry) /\ Starts(OnFile, OnFile')
         /\ Starts(OnFile', view[mapped] \o w) /\ Starts(view[mapped], OnFile')
         /\ WriteSucceeds(w) => OnFile' = view[mapped] \o w
<1>1. PICK v : v = view[mapped]
  OBVIOUS
<1>2. /\ v \in Seq(Entry) /\ OnFile \in Seq(Entry) /\ FileOK(lines, tail, glued)
      /\ Starts(v, OnFile)
  BY <1>1, OpenHandleFacts DEF LogInv
<1>3. Stamped(v \o w, spent) /\ Starts(OnFile, v \o w)
  BY <1>1 DEF GoodLog
<1>4. PICK f2 : f2 = OnFile'
  OBVIOUS
<1>5. /\ Len(w) \in 0..Len(w) /\ Clean \in Cuts(w, Len(w))
  BY DEF Cuts
<1>6. ASSUME NEW n \in 0..Len(w), NEW cut \in Cuts(w, n), Written(w, n, cut)
      PROVE  /\ f2 \in Seq(Entry) /\ Starts(OnFile, f2) /\ Starts(f2, v \o w)
             /\ n = Len(w) /\ cut = Clean => f2 = v \o w
  BY <1>2, <1>3, <1>4, <1>6, FileFollows
<1>7. f2 \in Seq(Entry) /\ Starts(OnFile, f2) /\ Starts(f2, v \o w)
  BY <1>5, <1>6 DEF WriteSucceeds, WriteFails
<1>8. WriteSucceeds(w) => f2 = v \o w
  BY <1>5, <1>6 DEF WriteSucceeds
<1>9. Starts(v, f2)
  BY <1>2, <1>7, StartsTransitive
<1> QED BY <1>1, <1>4, <1>7, <1>8, <1>9

(* Nothing of the log changes.                                               *)
LEMMA LogStays ==
  ASSUME Control, LogInv, Spends(0), UNCHANGED <<lines, tail, view, buffered, pendingState, mapped>>
  PROVE  LogInv'
<1>1. OnFile' = OnFile
  BY DEF OnFile
<1>2. Whole' = Whole
  BY <1>1 DEF Whole
<1>3. consumed'.entries = consumed.entries
  BY CountersFields DEF Control, CountersInv, Spends
<1> QED BY <1>1, <1>2, <1>3 DEF LogInv

LEMMA FlushCompletesLog ==
  ASSUME Control, LogInv, mapped # Nobody, FlushSucceeds(mapped), ~glued'
  PROVE  /\ OnFile' = Whole /\ view'[mapped] = Whole /\ Whole \in Seq(Entry)
         /\ buffered'[mapped] = <<>> /\ pendingState'[mapped] = <<>>
<1>1. /\ mapped \in Handles /\ view[mapped] \in Seq(Entry) /\ buffered[mapped] \in Seq(Entry)
      /\ HandleTypes
  BY OpenHandleFacts
<1>2. Whole = view[mapped] \o buffered[mapped] /\ pendingState[mapped] = buffered[mapped]
  BY DEF Whole, LogInv
<1>3. /\ WriteSucceeds(buffered[mapped])
      /\ buffered' = [buffered EXCEPT ![mapped] = <<>>]
      /\ view' = [view EXCEPT ![mapped] = @ \o pendingState[mapped]]
      /\ pendingState' = [pendingState EXCEPT ![mapped] = <<>>]
  BY DEF FlushSucceeds
<1>4. OnFile' = Whole
  <2>1. GoodLog(view[mapped] \o buffered[mapped], consumed.entries)
    BY <1>2 DEF LogInv
  <2>2. Starts(OnFile, view[mapped] \o buffered[mapped])
    BY <1>2 DEF LogInv
  <2> QED BY <1>1, <1>2, <1>3, <2>1, <2>2, FileMovesOn
<1>5. view'[mapped] = Whole
  BY <1>1, <1>2, <1>3 DEF HandleTypes
<1>6. buffered'[mapped] = <<>> /\ pendingState'[mapped] = <<>>
  BY <1>1, <1>3 DEF HandleTypes
<1> QED BY <1>1, <1>2, <1>4, <1>5, <1>6

LEMMA FlushKeepsLog ==
  ASSUME Control, LogInv, mapped # Nobody, FlushSucceeds(mapped), ~glued',
         mapped' = mapped, Spends(0)
  PROVE  LogInv' /\ buffered'[mapped] = <<>>
<1>1. PICK G : G = Whole
  OBVIOUS
<1>2. /\ OnFile' = G /\ view'[mapped] = G /\ G \in Seq(Entry)
      /\ buffered'[mapped] = <<>> /\ pendingState'[mapped] = <<>>
  BY <1>1, FlushCompletesLog
<1>3. Whole' = G
  <2>1. Whole' = view'[mapped] \o buffered'[mapped]
    BY DEF Whole
  <2> QED BY <1>2, <2>1
<1>4. GoodLog(G, consumed.entries) /\ consumed'.entries = consumed.entries
  BY <1>1, CountersFields DEF Control, CountersInv, Spends, LogInv
<1>5. Starts(G, G)
  BY <1>2, StartsSelf
<1> QED BY <1>2, <1>3, <1>4, <1>5 DEF LogInv

LEMMA FailedFlushKeepsLog ==
  ASSUME Control, LogInv, mapped # Nobody, FlushFails(mapped), ~glued',
         mapped' = mapped, Spends(0)
  PROVE  LogInv' /\ UNCHANGED buffered
<1>1. /\ view[mapped] \in Seq(Entry) /\ buffered[mapped] \in Seq(Entry)
  BY OpenHandleFacts
<1>2. Whole = view[mapped] \o buffered[mapped]
  BY DEF Whole
<1>3. WriteFails(buffered[mapped]) /\ UNCHANGED <<view, pendingState, buffered>>
  BY DEF FlushFails, handleVars
<1>4. /\ OnFile' \in Seq(Entry) /\ Starts(OnFile', Whole) /\ Starts(view[mapped], OnFile')
  <2>1. GoodLog(view[mapped] \o buffered[mapped], consumed.entries)
    BY <1>2 DEF LogInv
  <2>2. Starts(OnFile, view[mapped] \o buffered[mapped])
    BY <1>2 DEF LogInv
  <2> QED BY <1>1, <1>2, <1>3, <2>1, <2>2, FileMovesOn
<1>5. Whole' = Whole
  BY <1>3 DEF Whole
<1>6. consumed'.entries = consumed.entries
  BY CountersFields DEF Control, CountersInv, Spends
<1> QED BY <1>3, <1>4, <1>5, <1>6 DEF LogInv

(* A call that writes new entries has an empty recorder to write them to.    *)
LEMMA CallExtendsLog ==
  ASSUME Control, LogInv, NEW c \in Callers, CallInv(c), pc[c] = "write",
         NEW batch, batch \in NewEntries(c)
  PROVE  /\ mapped # Nobody /\ held[c] = mapped /\ buffered[mapped] = <<>>
         /\ batch \in Seq(Entry) /\ Len(batch) \in Nat
         /\ GoodLog(view[mapped] \o batch, consumed.entries + Len(batch))
         /\ OnFile = view[mapped] /\ pendingState[mapped] = <<>>
         /\ Starts(view[mapped], view[mapped] \o batch)
<1>1. held[c] = mapped /\ buffered[mapped] = <<>>
  BY DEF CallInv
<1>2. mapped # Nobody
  BY <1>1 DEF Control, CallerInv, Busy
<1>3. /\ view[mapped] \in Seq(Entry) /\ view[mapped] # <<>> /\ StartsWell(view[mapped])
      /\ consumed.entries \in Nat /\ OnFile \in Seq(Entry)
  BY <1>2, OpenHandleFacts
<1>4. Whole = view[mapped]
  BY <1>1, <1>2, <1>3 DEF Whole
<1>5. Chained(view[mapped], consumed.entries, batch)
  <2> DEFINE spent == consumed.entries
             v == view[held[c]]
  <2>0. op[c] \in {"append", "append two", "leaf"}
    BY DEF Control, CallerInv
  <2>1. \/ \E size \in {1, 2} :
             batch = [i \in 1..size |->
                       MessageItem(spent + i, IF i = 1 THEN AppendParent(v) ELSE spent + i - 1)]
        \/ \E t \in IdsOf(v) \cup {0} : batch = <<Leaf(spent + 1, LatestNonLeaf(v), t)>>
    BY <2>0 DEF NewEntries, Batch
  <2>2. v = view[mapped] /\ spent \in Nat
    BY <1>1, <1>3
  <2> HIDE DEF spent, v
  <2>3. Chained(v, spent, batch)
    BY <1>3, <2>1, <2>2, NewEntriesChained
  <2> QED BY <2>2, <2>3 DEF spent
<1>6. GoodLog(view[mapped], consumed.entries)
  BY <1>4 DEF LogInv
<1>7. batch \in Seq(Entry) /\ Len(batch) \in Nat
  BY <1>5 DEF Chained
<1>8. GoodLog(view[mapped] \o batch, consumed.entries + Len(batch))
  BY <1>3, <1>5, <1>6, GoodExtends
<1>9. Starts(view[mapped], OnFile) /\ Starts(OnFile, view[mapped]) /\ pendingState[mapped] = <<>>
  BY <1>1, <1>2, <1>4 DEF LogInv
<1>10. OnFile = view[mapped]
  <2>1. Len(OnFile) >= Len(view[mapped])
    BY <1>9 DEF Starts
  <2> QED BY <1>3, <1>9, <2>1, StartsWithAll
<1>11. Starts(view[mapped], view[mapped] \o batch)
  <2>1. 0 \in 0..Len(batch)
    BY <1>7
  <2> QED BY <1>3, <1>7, <2>1, PartsOfWhole
<1> QED BY <1>1, <1>2, <1>7, <1>8, <1>9, <1>10, <1>11

LEMMA WriteEntriesLog ==
  ASSUME Control, LogInv, NEW c \in Callers, CallInv(c), WriteEntries(c), ~glued'
  PROVE  LogInv' /\ mapped' = mapped /\ held[c] = mapped /\ mapped # Nobody
<1>1. PICK batch : /\ batch \in NewEntries(c)
                   /\ WriteSucceeds(buffered[held[c]] \o batch)
                   /\ buffered' = [buffered EXCEPT ![held[c]] = <<>>]
                   /\ view' = [view EXCEPT ![held[c]] = @ \o batch]
                   /\ Use("entries", Len(batch))
  BY DEF WriteEntries
<1>2. pc[c] = "write" /\ mapped' = mapped /\ pendingState' = pendingState
  BY DEF WriteEntries
<1>3. /\ mapped # Nobody /\ held[c] = mapped /\ buffered[mapped] = <<>>
      /\ batch \in Seq(Entry) /\ Len(batch) \in Nat
      /\ GoodLog(view[mapped] \o batch, consumed.entries + Len(batch))
      /\ OnFile = view[mapped] /\ pendingState[mapped] = <<>>
      /\ Starts(view[mapped], view[mapped] \o batch)
  BY <1>1, <1>2, CallExtendsLog
<1>4. mapped \in Handles /\ view[mapped] \in Seq(Entry) /\ HandleTypes
  BY <1>3, OpenHandleFacts
<1>5. PICK G : G = view[mapped] \o batch
  OBVIOUS
<1>6. G \in Seq(Entry) /\ view'[mapped] = G /\ buffered'[mapped] = <<>>
  BY <1>1, <1>3, <1>4, <1>5 DEF HandleTypes
<1>7. WriteSucceeds(batch)
  BY <1>1, <1>3
<1>8. OnFile' = G
  BY <1>3, <1>5, <1>7, FileMovesOn
<1>9. Whole' = G
  <2>1. Whole' = view'[mapped] \o buffered'[mapped]
    BY <1>2, <1>3 DEF Whole
  <2> QED BY <1>6, <2>1
<1>10. consumed'.entries = consumed.entries + Len(batch)
  BY <1>1, <1>3, SpendsAre DEF Spends
<1>11. Starts(G, G)
  BY <1>6, StartsSelf
<1> QED BY <1>2, <1>3, <1>5, <1>6, <1>8, <1>9, <1>10, <1>11 DEF LogInv

LEMMA WriteEntriesFailsLog ==
  ASSUME Control, LogInv, NEW c \in Callers, CallInv(c), WriteEntriesFails(c), ~glued'
  PROVE  LogInv' /\ mapped' = mapped /\ held[c] = mapped /\ mapped # Nobody
<1>1. PICK batch : /\ batch \in NewEntries(c)
                   /\ WriteFails(buffered[held[c]] \o batch)
                   /\ buffered' = [buffered EXCEPT ![held[c]] = @ \o batch]
                   /\ pendingState' = [pendingState EXCEPT ![held[c]] = @ \o batch]
                   /\ consumed' = [consumed EXCEPT !.entries = @ + Len(batch), !.failures = @ + 1]
  BY DEF WriteEntriesFails
<1>2. pc[c] = "write" /\ mapped' = mapped /\ view' = view
  BY DEF WriteEntriesFails
<1>3. /\ mapped # Nobody /\ held[c] = mapped /\ buffered[mapped] = <<>>
      /\ batch \in Seq(Entry) /\ Len(batch) \in Nat
      /\ GoodLog(view[mapped] \o batch, consumed.entries + Len(batch))
      /\ OnFile = view[mapped] /\ pendingState[mapped] = <<>>
      /\ Starts(view[mapped], view[mapped] \o batch)
  BY <1>1, <1>2, CallExtendsLog
<1>4. mapped \in Handles /\ view[mapped] \in Seq(Entry) /\ HandleTypes
  BY <1>3, OpenHandleFacts
<1>5. PICK G : G = view[mapped] \o batch
  OBVIOUS
<1>6. buffered'[mapped] = batch /\ pendingState'[mapped] = batch
  BY <1>1, <1>3, <1>4 DEF HandleTypes
<1>7. WriteFails(batch)
  BY <1>1, <1>3
<1>8. Starts(OnFile', G) /\ Starts(view[mapped], OnFile')
  BY <1>3, <1>5, <1>7, FileMovesOn
<1>9. Whole' = G
  <2>1. Whole' = view'[mapped] \o buffered'[mapped]
    BY <1>2, <1>3 DEF Whole
  <2> QED BY <1>2, <1>5, <1>6, <2>1
<1>10. consumed'.entries = consumed.entries + Len(batch)
  BY <1>1, <1>3, SpendsAre DEF Spends
<1> QED BY <1>2, <1>3, <1>5, <1>6, <1>8, <1>9, <1>10 DEF LogInv

(* A handle that is opened on what was loaded from the file starts a log     *)
(* that is all on file.                                                      *)
LEMMA OpenedOnFile ==
  ASSUME Control, LogInv, mapped = Nobody, NEW h \in Handles, mapped' = h,
         OpenHandle(h, OnFile), UNCHANGED <<lines, tail>>, Spends(0)
  PROVE  LogInv'
<1>1. OnFile \in Seq(Entry) /\ consumed.entries \in Nat /\ HandleTypes
  BY OnFileType, CountersFields DEF Control, FileInv, CountersInv
<1>2. h # Nobody
  BY StoreConstantsOK DEF Handles
<1>3. PICK f : f = OnFile
  OBVIOUS
<1>4. f \in Seq(Entry) /\ OnFile' = f
  BY <1>1, <1>3 DEF OnFile
<1>5. view'[h] = f /\ buffered'[h] = <<>> /\ pendingState'[h] = <<>>
  BY <1>1, <1>3 DEF OpenHandle, HandleTypes
<1>6. Whole' = f
  <2>1. Whole' = view'[h] \o buffered'[h]
    BY <1>2 DEF Whole
  <2> QED BY <1>4, <1>5, <2>1
<1>7. GoodLog(f, consumed.entries) /\ consumed'.entries = consumed.entries
  BY <1>1, <1>3 DEF LogInv, Whole, Spends
<1>8. Starts(f, f)
  BY <1>4, StartsSelf
<1> QED BY <1>2, <1>4, <1>5, <1>6, <1>7, <1>8 DEF LogInv

LEMMA RoomForHandle ==
  ASSUME Control, NEW c \in Callers, pc[c] = "insert", mapped = Nobody
  PROVE  consumed.handles + 1 \in Handles
<1>1. \A d \in Callers : pc[d] # "register"
  BY NobodyCreates
<1>2. consumed.handles > 0
  BY DEF Control, CallerInv
<1>3. /\ consumed.handles \in Nat /\ consumed.crashes \in Nat /\ consumed.evictions \in Nat
      /\ consumed.crashes <= MaxCrashes /\ consumed.evictions <= MaxEvictions
  BY CountersFields DEF Control, CountersInv
<1>4. consumed.handles <= consumed.crashes + consumed.evictions
  BY <1>1, <1>2 DEF Control, HandlesInv
<1> QED BY <1>3, <1>4, StoreConstantsOK DEF Handles

LEMMA InsertLog ==
  ASSUME Control, LogInv, NEW c \in Callers, CallInv(c), InsertHandle(c)
  PROVE  LogInv' /\ held'[c] = mapped' /\ (mapped # Nobody => mapped' = mapped) /\ mapped' # Nobody
<1>1. /\ pc[c] = "insert" /\ UNCHANGED <<lines, tail>> /\ c \in DOMAIN held
  BY DEF InsertHandle, fileVars, Control, TypeInv
<1>2. CASE mapped # Nobody
  <2>1. /\ held' = [held EXCEPT ![c] = mapped]
        /\ UNCHANGED <<mapped, view, pendingState, buffered, consumed>>
    BY <1>2 DEF InsertHandle, handleVars
  <2>2. LogInv'
    BY <1>1, <2>1, SpendsAre, LogStays
  <2> QED BY <1>1, <1>2, <2>1, <2>2
<1>3. CASE mapped = Nobody
  <2>1. PICK h : h = consumed.handles + 1
    OBVIOUS
  <2>2. /\ OpenHandle(h, loaded[c]) /\ mapped' = h /\ held' = [held EXCEPT ![c] = h]
        /\ Use("handles", 1)
    BY <1>3, <2>1 DEF InsertHandle
  <2>3. loaded[c] = OnFile
    BY <1>1, <1>3 DEF CallInv
  <2>4. h \in Handles
    BY <1>1, <1>3, <2>1, RoomForHandle
  <2>5. LogInv'
    BY <1>1, <1>3, <2>2, <2>3, <2>4, SpendsAre, OpenedOnFile
  <2>6. h # Nobody
    BY <2>4, StoreConstantsOK DEF Handles
  <2> QED BY <1>1, <1>3, <2>2, <2>5, <2>6
<1> QED BY <1>2, <1>3

LEMMA InsertFailsLog ==
  ASSUME Control, LogInv, NEW c \in Callers, CallInv(c), InsertHandleFails(c)
  PROVE  LogInv' /\ mapped = Nobody /\ mapped' # Nobody
<1>1. PICK h : h = consumed.handles + 1
  OBVIOUS
<1>2. /\ pc[c] = "insert" /\ UNCHANGED <<lines, tail>> /\ mapped = Nobody
      /\ OpenHandle(h, loaded[c]) /\ mapped' = h
      /\ consumed' = [consumed EXCEPT !.handles = @ + 1, !.failures = @ + 1]
  BY <1>1 DEF InsertHandleFails, fileVars
<1>3. loaded[c] = OnFile
  BY <1>2 DEF CallInv
<1>4. h \in Handles
  BY <1>1, <1>2, RoomForHandle
<1>5. LogInv'
  BY <1>2, <1>3, <1>4, SpendsAre, OpenedOnFile
<1>6. h # Nobody
  BY <1>4, StoreConstantsOK DEF Handles
<1> QED BY <1>2, <1>5, <1>6

(* The end of the process leaves what of the log is on file.                 *)
LEMMA EndedLog ==
  ASSUME Control, LogInv, mapped' = Nobody, Spends(0), OnFile' = OnFile \/ OnFile' = Whole,
         NEW f, f = OnFile'
  PROVE  LogInv'
<1>1. f \in Seq(Entry) /\ Starts(f, Whole) /\ GoodLog(Whole, consumed.entries)
  <2>1. OnFile \in Seq(Entry) /\ Whole \in Seq(Entry)
    BY OnFileType DEF Control, FileInv, LogInv, GoodLog
  <2>2. Starts(Whole, Whole)
    BY <2>1, StartsSelf
  <2> QED BY <2>1, <2>2 DEF LogInv
<1>2. GoodLog(f, consumed.entries)
  BY <1>1, GoodPrefix
<1>3. Whole' = f
  BY DEF Whole
<1>4. consumed'.entries = consumed.entries
  BY CountersFields DEF Control, CountersInv, Spends
<1>5. Starts(f, f)
  BY <1>1, StartsSelf
<1> QED BY <1>2, <1>3, <1>4, <1>5 DEF LogInv

LEMMA HeaderIsALog == GoodLog(<<Header>>, 1) /\ Starts(<<Header>>, <<Header>>)
<1>1. PICK s : s = <<Header>>
  OBVIOUS
<1>2. s \in Seq(Entry) /\ Len(s) = 1 /\ s[1].id = 1
  BY <1>1, HeaderBatch DEF Header
<1>3. GoodLog(s, 1)
  BY <1>2 DEF GoodLog, Stamped, Sequential
<1> QED BY <1>1, <1>2, <1>3, StartsSelf

LEMMA CreatedLog ==
  ASSUME Control, consumed.entries = 0, mapped' = mapped, consumed'.entries = 1, ~glued',
         \E n \in {0, 1} : Written(<<Header>>, n, Clean)
  PROVE  LogInv' /\ (Written(<<Header>>, 1, Clean) => OnFile' = <<Header>>)
<1>1. PICK w : w = <<Header>>
  OBVIOUS
<1>2. w \in Seq(Entry) /\ Len(w) = 1 /\ GoodLog(w, 1) /\ Starts(w, w)
  BY <1>1, HeaderIsALog, HeaderBatch
<1>3. lines = <<>> /\ tail = Clean /\ mapped = Nobody /\ FileOK(lines, tail, glued)
  BY NothingYet DEF Control, FileInv
<1>4. OnFile = <<>>
  BY <1>3 DEF OnFile, Readable
<1>5. PICK v : v = <<>>
  OBVIOUS
<1>6. v \in Seq(Entry) /\ v \o w = w /\ Starts(v, v) /\ Starts(v, w)
  BY <1>2, <1>5 DEF Starts
<1>7. OnFile = v /\ Stamped(v \o w, 1)
  BY <1>2, <1>4, <1>5, <1>6 DEF GoodLog
<1>8. PICK f2 : f2 = OnFile'
  OBVIOUS
<1>9. ASSUME NEW n \in {0, 1}, Written(w, n, Clean)
      PROVE  /\ f2 \in Seq(Entry) /\ Starts(f2, w)
             /\ n = 1 => f2 = w
  <2>1. n \in 0..Len(w) /\ Clean \in Cuts(w, n)
    BY <1>2 DEF Cuts
  <2>2. /\ OnFile' \in Seq(Entry) /\ Starts(OnFile, OnFile') /\ Starts(OnFile', v \o w)
        /\ n = Len(w) /\ Clean = Clean => OnFile' = v \o w
    <3>1. Starts(OnFile, v \o w) /\ Starts(v, OnFile)
      BY <1>6, <1>7
    <3> QED BY <1>2, <1>3, <1>6, <1>7, <1>9, <2>1, <3>1, FileFollows
  <2> QED BY <1>2, <1>6, <1>8, <2>2
<1>10. f2 \in Seq(Entry) /\ Starts(f2, w)
  BY <1>1, <1>9
<1>11. GoodLog(f2, 1)
  BY <1>2, <1>10, GoodPrefix
<1>12. Whole' = f2 /\ mapped' = Nobody
  BY <1>3, <1>8 DEF Whole
<1>13. Starts(f2, f2)
  BY <1>10, StartsSelf
<1>14. LogInv'
  BY <1>8, <1>11, <1>12, <1>13 DEF LogInv
<1> QED BY <1>1, <1>8, <1>9, <1>14

-----------------------------------------------------------------------------
(* Where the calls stand *)

LEMMA CallerMaps ==
  ASSUME Control
  PROVE  /\ DOMAIN pc = Callers /\ DOMAIN held = Callers /\ DOMAIN loaded = Callers
         /\ DOMAIN holder = Handles
BY DEF Control, TypeInv

(* A call that left asks for nothing.                                       *)
LEMMA CallLeft ==
  ASSUME Control, NEW c \in Callers, Leave(c)
  PROVE  /\ CallInv(c)'
         /\ \A d \in Callers \ {c} : pc'[d] = pc[d] /\ held'[d] = held[d] /\ loaded'[d] = loaded[d]
<1>1. pc'[c] = "idle"
  BY CallerMaps DEF Leave, Goto
<1>2. \A d \in Callers \ {c} : pc'[d] = pc[d] /\ held'[d] = held[d] /\ loaded'[d] = loaded[d]
  BY CallerMaps DEF Leave, Goto
<1> QED BY <1>1, <1>2 DEF CallInv

LEMMA UnlockSpares ==
  ASSUME Control, NEW c \in Callers, Unlock(c), NEW h \in Handles,
         NEW d \in Callers \ {c}, holder[h] = d
  PROVE  holder'[h] = d
<1>1. CASE holder[held[c]] = c
  BY <1>1, CallerMaps DEF Unlock
<1>2. CASE holder[held[c]] # c
  BY <1>2 DEF Unlock
<1> QED BY <1>1, <1>2

(* While a handle is open, only the one who has its lock goes near what the  *)
(* recorder holds.                                                          *)
LEMMA OtherCallsOnHandle ==
  ASSUME Control, mapped # Nobody, mapped' = mapped, NEW c \in Callers,
         \A d \in Callers : CallInv(d),
         \A d \in Callers \ {c} : pc'[d] = pc[d] /\ held'[d] = held[d],
         \A d \in Callers \ {c} : holder[mapped] = d => holder'[mapped] = d,
         buffered' = buffered \/ pc[c] \in {"recover", "write", "flush"}
  PROVE  \A d \in Callers \ {c} : CallInv(d)'
<1> SUFFICES ASSUME NEW d \in Callers \ {c} PROVE CallInv(d)'
  OBVIOUS
<1>1. CallInv(d) /\ CallInv(c) /\ pc'[d] = pc[d] /\ held'[d] = held[d] /\ pc[d] # "register"
  BY NobodyCreatesOpen
<1>2. pc[d] = "write" => buffered' = buffered
  BY <1>1 DEF CallInv
<1> QED BY <1>1, <1>2 DEF CallInv

LEMMA OtherCallsElsewhere ==
  ASSUME Control, NEW c \in Callers, \A d \in Callers : CallInv(d),
         UNCHANGED <<lines, tail, view, buffered, pendingState, mapped>>,
         \A d \in Callers \ {c} : pc'[d] = pc[d] /\ held'[d] = held[d] /\ loaded'[d] = loaded[d],
         mapped # Nobody =>
           \A d \in Callers \ {c} : holder[mapped] = d => holder'[mapped] = d
  PROVE  \A d \in Callers \ {c} : CallInv(d)'
<1>1. OnFile' = OnFile
  BY DEF OnFile
<1>2. \A d \in Callers : pc[d] \in {"recover", "write", "flush"} => mapped # Nobody
  BY DEF Control, CallerInv, Busy, CallInv
<1> QED BY <1>1, <1>2 DEF CallInv

LEMMA AllCalls ==
  ASSUME NEW c \in Callers, CallInv(c)', \A d \in Callers \ {c} : CallInv(d)'
  PROVE  \A d \in Callers : CallInv(d)'
OBVIOUS

Kept == LogInv /\ closing = {} /\ \A c \in Callers : CallInv(c)

LEMMA LookupKeeps ==
  ASSUME Control, Kept, NEW c \in Callers, NEW kind \in Kinds, Lookup(c, kind)
  PROVE  Kept'
<1>1. /\ UNCHANGED <<lines, tail, view, buffered, pendingState, mapped, closing, holder, loaded>>
      /\ held' = [held EXCEPT ![c] = mapped] /\ Use("calls", 1)
      /\ pc' = [pc EXCEPT ![c] = IF mapped # Nobody THEN "lock" ELSE "load"]
  BY DEF Lookup, fileVars, handleVars, Goto
<1>2. LogInv'
  BY <1>1, SpendsAre, LogStays DEF Kept
<1>3. CallInv(c)'
  <2>1. pc'[c] \in {"lock", "load"} /\ held'[c] = mapped
    BY <1>1, CallerMaps
  <2> QED BY <1>1, <2>1 DEF CallInv
<1>4. \A d \in Callers \ {c} : CallInv(d)'
  <2>1. \A d \in Callers \ {c} : pc'[d] = pc[d] /\ held'[d] = held[d] /\ loaded'[d] = loaded[d]
    BY <1>1, CallerMaps
  <2>2. \A d \in Callers \ {c} : holder[mapped] = d => holder'[mapped] = d
    BY <1>1
  <2> QED BY <1>1, <2>1, <2>2, OtherCallsElsewhere DEF Kept
<1> QED BY <1>1, <1>2, <1>3, <1>4, AllCalls DEF Kept

LEMMA LoadFileKeeps ==
  ASSUME Control, Kept, NEW c \in Callers, LoadFile(c)
  PROVE  Kept'
<1>1. /\ UNCHANGED <<lines, tail, view, buffered, pendingState, mapped, closing, holder, held>>
      /\ consumed' = consumed
      /\ \/ loaded' = [loaded EXCEPT ![c] = OnFile] /\ pc' = [pc EXCEPT ![c] = "insert"]
         \/ pc' = [pc EXCEPT ![c] = "idle"] /\ UNCHANGED loaded
  BY DEF LoadFile, fileVars, handleVars, Goto
<1>2. LogInv'
  BY <1>1, SpendsAre, LogStays DEF Kept
<1>3. CallInv(c)'
  <2>1. OnFile' = OnFile
    BY <1>1 DEF OnFile
  <2>2. pc'[c] = "idle" \/ (pc'[c] = "insert" /\ loaded'[c] = OnFile)
    BY <1>1, CallerMaps
  <2> QED BY <2>1, <2>2 DEF CallInv
<1>4. \A d \in Callers \ {c} : CallInv(d)'
  <2>1. \A d \in Callers \ {c} : pc'[d] = pc[d] /\ held'[d] = held[d] /\ loaded'[d] = loaded[d]
    BY <1>1, CallerMaps
  <2>2. \A d \in Callers \ {c} : holder[mapped] = d => holder'[mapped] = d
    BY <1>1
  <2> QED BY <1>1, <2>1, <2>2, OtherCallsElsewhere DEF Kept
<1> QED BY <1>1, <1>2, <1>3, <1>4, AllCalls DEF Kept

LEMMA AcquireKeeps ==
  ASSUME Control, Kept, NEW c \in Callers, Acquire(c)
  PROVE  Kept'
<1>1. /\ UNCHANGED <<lines, tail, view, buffered, pendingState, mapped, closing, held, loaded>>
      /\ consumed' = consumed /\ pc[c] = "lock" /\ holder[held[c]] = Nobody
      /\ holder' = [holder EXCEPT ![held[c]] = c]
      /\ pc' = [pc EXCEPT ![c] = IF op[c] \in {"flush", "flush all"} THEN "flush" ELSE "recover"]
  BY DEF Acquire, fileVars, handleVars, callVars, Goto
<1>2. LogInv'
  BY <1>1, SpendsAre, LogStays DEF Kept
<1>3. held[c] = mapped /\ held[c] \in Handles
  BY <1>1, CallerHasHandle DEF Kept, CallInv
<1>4. CallInv(c)'
  <2>1. pc'[c] \in {"flush", "recover"} /\ holder'[mapped] = c
    BY <1>1, <1>3, CallerMaps
  <2> QED BY <1>1, <1>3, <2>1 DEF CallInv
<1>5. \A d \in Callers \ {c} : CallInv(d)'
  <2>1. \A d \in Callers \ {c} : pc'[d] = pc[d] /\ held'[d] = held[d] /\ loaded'[d] = loaded[d]
    BY <1>1, CallerMaps
  <2>2. \A d \in Callers \ {c} : holder[mapped] = d => holder'[mapped] = d
    BY <1>1, <1>3, StoreConstantsOK
  <2> QED BY <1>1, <2>1, <2>2, OtherCallsElsewhere DEF Kept
<1> QED BY <1>1, <1>2, <1>4, <1>5, AllCalls DEF Kept

LEMMA UpsertKeeps ==
  ASSUME Control, Kept, NEW c \in Callers, UpsertIndex(c) \/ UpsertIndexFails(c)
  PROVE  Kept'
<1>1. /\ UNCHANGED <<lines, tail, view, buffered, pendingState, mapped, closing>>
      /\ consumed' = consumed \/ Use("failures", 1)
      /\ Unlock(c) /\ Leave(c)
  BY DEF UpsertIndex, UpsertIndexFails, fileVars, handleVars
<1>2. LogInv'
  BY <1>1, SpendsAre, LogStays DEF Kept
<1>3. /\ CallInv(c)'
      /\ \A d \in Callers \ {c} : pc'[d] = pc[d] /\ held'[d] = held[d] /\ loaded'[d] = loaded[d]
  BY <1>1, CallLeft
<1>4. mapped # Nobody => \A d \in Callers \ {c} : holder[mapped] = d => holder'[mapped] = d
  BY <1>1, OpenHandleFacts, UnlockSpares
<1>5. \A d \in Callers \ {c} : CallInv(d)'
  BY <1>1, <1>3, <1>4, OtherCallsElsewhere DEF Kept
<1> QED BY <1>1, <1>2, <1>3, <1>5, AllCalls DEF Kept

(* A call at work has the open handle, and its lock.                         *)
LEMMA CallAtWork ==
  ASSUME Control, Kept, NEW c \in Callers, pc[c] \in {"recover", "write", "flush"}
  PROVE  /\ held[c] = mapped /\ mapped # Nobody /\ mapped \in Handles /\ holder[mapped] = c
         /\ CallInv(c)
<1>1. held[c] = mapped /\ holder[mapped] = c
  BY DEF Kept, CallInv
<1>2. mapped # Nobody
  BY <1>1 DEF Control, CallerInv, Busy
<1> QED BY <1>1, <1>2, OpenHandleFacts DEF Kept

LEMMA RecoverKeeps ==
  ASSUME Control, Kept, NEW c \in Callers, Recover(c), ~glued'
  PROVE  Kept'
<1>1. /\ UNCHANGED <<mapped, closing, holder, held>> /\ consumed' = consumed
      /\ pc[c] = "recover" /\ pc' = [pc EXCEPT ![c] = "write"]
  BY DEF Recover, callVars, Goto
<1>2. held[c] = mapped /\ mapped # Nobody /\ holder[mapped] = c
  BY <1>1, CallAtWork
<1>3. LogInv' /\ buffered'[mapped] = <<>>
  <2>1. CASE pendingState[mapped] = <<>>
    <3>1. UNCHANGED <<lines, tail, view, buffered, pendingState>>
      BY <1>2, <2>1 DEF Recover, fileVars, handleVars
    <3>2. LogInv'
      BY <1>1, <3>1, SpendsAre, LogStays DEF Kept
    <3> QED BY <1>2, <2>1, <3>1, <3>2 DEF Kept, LogInv
  <2>2. CASE pendingState[mapped] # <<>>
    <3>1. FlushSucceeds(mapped)
      BY <1>2, <2>2 DEF Recover
    <3> QED BY <1>1, <1>2, <3>1, SpendsAre, FlushKeepsLog DEF Kept
  <2> QED BY <2>1, <2>2
<1>4. CallInv(c)'
  <2>1. pc'[c] = "write"
    BY <1>1, CallerMaps
  <2> QED BY <1>1, <1>2, <1>3, <2>1 DEF CallInv
<1>5. \A d \in Callers \ {c} : CallInv(d)'
  <2>1. \A d \in Callers \ {c} : pc'[d] = pc[d] /\ held'[d] = held[d]
    BY <1>1, CallerMaps
  <2>2. \A d \in Callers \ {c} : holder[mapped] = d => holder'[mapped] = d
    BY <1>1
  <2> QED BY <1>1, <1>2, <2>1, <2>2, OtherCallsOnHandle DEF Kept
<1> QED BY <1>1, <1>3, <1>4, <1>5, AllCalls DEF Kept

LEMMA FailedCallKeeps ==
  ASSUME Control, Kept, NEW c \in Callers, RecoverFails(c) \/ FlushCallFails(c), ~glued'
  PROVE  Kept'
<1>1. /\ UNCHANGED <<mapped, closing>> /\ Use("failures", 1) /\ FlushFails(held[c])
      /\ pc[c] \in {"recover", "flush"} /\ Unlock(c) /\ Leave(c)
  BY DEF RecoverFails, FlushCallFails
<1>2. held[c] = mapped /\ mapped # Nobody /\ mapped \in Handles
  BY <1>1, CallAtWork
<1>3. LogInv' /\ UNCHANGED buffered
  BY <1>1, <1>2, SpendsAre, FailedFlushKeepsLog DEF Kept
<1>4. /\ CallInv(c)'
      /\ \A d \in Callers \ {c} : pc'[d] = pc[d] /\ held'[d] = held[d]
  BY <1>1, CallLeft
<1>5. \A d \in Callers \ {c} : holder[mapped] = d => holder'[mapped] = d
  BY <1>1, <1>2, UnlockSpares
<1>6. \A d \in Callers \ {c} : CallInv(d)'
  BY <1>1, <1>2, <1>3, <1>4, <1>5, OtherCallsOnHandle DEF Kept
<1> QED BY <1>1, <1>3, <1>4, <1>6, AllCalls DEF Kept

LEMMA FlushKeeps ==
  ASSUME Control, Kept, NEW c \in Callers, Flush(c), ~glued'
  PROVE  Kept'
<1>1. /\ UNCHANGED <<mapped, closing, held>> /\ consumed' = consumed /\ FlushSucceeds(held[c])
      /\ pc[c] = "flush" /\ pc' = [pc EXCEPT ![c] = "index"]
      /\ Unlock(c) \/ UNCHANGED holder
  BY DEF Flush, Goto
<1>2. held[c] = mapped /\ mapped # Nobody /\ mapped \in Handles
  BY <1>1, CallAtWork
<1>3. LogInv'
  BY <1>1, <1>2, SpendsAre, FlushKeepsLog DEF Kept
<1>4. CallInv(c)'
  <2>1. pc'[c] = "index"
    BY <1>1, CallerMaps
  <2> QED BY <1>1, <1>2, <2>1 DEF CallInv
<1>5. \A d \in Callers \ {c} : holder[mapped] = d => holder'[mapped] = d
  BY <1>1, <1>2, UnlockSpares
<1>6. \A d \in Callers \ {c} : CallInv(d)'
  <2>1. \A d \in Callers \ {c} : pc'[d] = pc[d] /\ held'[d] = held[d]
    BY <1>1, CallerMaps
  <2> QED BY <1>1, <1>2, <1>5, <2>1, OtherCallsOnHandle DEF Kept
<1> QED BY <1>1, <1>3, <1>4, <1>6, AllCalls DEF Kept

LEMMA WriteEntriesKeeps ==
  ASSUME Control, Kept, NEW c \in Callers, WriteEntries(c), ~glued'
  PROVE  Kept'
<1>1. /\ UNCHANGED <<closing, held, holder>>
      /\ pc[c] = "write" /\ pc' = [pc EXCEPT ![c] = "index"]
  BY DEF WriteEntries, Goto
<1>2. LogInv' /\ mapped' = mapped /\ held[c] = mapped /\ mapped # Nobody
  BY WriteEntriesLog DEF Kept
<1>3. CallInv(c)'
  <2>1. pc'[c] = "index"
    BY <1>1, CallerMaps
  <2> QED BY <1>1, <1>2, <2>1 DEF CallInv
<1>4. \A d \in Callers \ {c} : CallInv(d)'
  <2>1. \A d \in Callers \ {c} : pc'[d] = pc[d] /\ held'[d] = held[d]
    BY <1>1, CallerMaps
  <2>2. \A d \in Callers \ {c} : holder[mapped] = d => holder'[mapped] = d
    BY <1>1
  <2> QED BY <1>1, <1>2, <2>1, <2>2, OtherCallsOnHandle DEF Kept
<1> QED BY <1>1, <1>2, <1>3, <1>4, AllCalls DEF Kept

LEMMA WriteEntriesFailsKeeps ==
  ASSUME Control, Kept, NEW c \in Callers, WriteEntriesFails(c), ~glued'
  PROVE  Kept'
<1>1. closing' = closing /\ pc[c] = "write" /\ Unlock(c) /\ Leave(c)
  BY DEF WriteEntriesFails
<1>2. LogInv' /\ mapped' = mapped /\ held[c] = mapped /\ mapped # Nobody
  BY WriteEntriesFailsLog DEF Kept
<1>3. /\ CallInv(c)'
      /\ \A d \in Callers \ {c} : pc'[d] = pc[d] /\ held'[d] = held[d]
  BY <1>1, CallLeft
<1>4. \A d \in Callers \ {c} : holder[mapped] = d => holder'[mapped] = d
  BY <1>1, <1>2, OpenHandleFacts, UnlockSpares
<1>5. \A d \in Callers \ {c} : CallInv(d)'
  BY <1>1, <1>2, <1>3, <1>4, OtherCallsOnHandle DEF Kept
<1> QED BY <1>1, <1>2, <1>3, <1>5, AllCalls DEF Kept

(* Before any handle is open, every call is still looking for one.           *)
LEMMA CallsWithoutHandle ==
  ASSUME Control, Kept, mapped = Nobody, NEW c \in Callers, pc[c] = "insert", NEW d \in Callers
  PROVE  pc[d] \in {"idle", "load", "insert"}
<1>1. pc[d] \notin {"lock", "recover", "write", "flush", "index"}
  BY DEF Kept, CallInv, Control, CallerInv, Busy
<1>2. pc[d] # "register"
  BY NobodyCreates
<1> QED BY <1>1, <1>2 DEF Control, TypeInv

LEMMA InsertHandleKeeps ==
  ASSUME Control, Kept, NEW c \in Callers, InsertHandle(c)
  PROVE  Kept'
<1>1. /\ pc[c] = "insert" /\ pc' = [pc EXCEPT ![c] = "lock"]
      /\ UNCHANGED <<closing, holder>>
      /\ \E h : held' = [held EXCEPT ![c] = h]
      /\ mapped # Nobody => buffered' = buffered
  BY DEF InsertHandle, Goto, handleVars
<1>2. /\ LogInv' /\ held'[c] = mapped' /\ mapped' # Nobody
      /\ mapped # Nobody => mapped' = mapped
  BY InsertLog DEF Kept
<1>3. CallInv(c)'
  <2>1. pc'[c] = "lock"
    BY <1>1, CallerMaps
  <2> QED BY <1>2, <2>1 DEF CallInv
<1>4. \A d \in Callers \ {c} : pc'[d] = pc[d] /\ held'[d] = held[d]
  BY <1>1, CallerMaps
<1>5. \A d \in Callers \ {c} : CallInv(d)'
  <2>1. CASE mapped # Nobody
    <3>1. \A d \in Callers \ {c} : holder[mapped] = d => holder'[mapped] = d
      BY <1>1
    <3> QED BY <1>1, <1>2, <1>4, <2>1, <3>1, OtherCallsOnHandle DEF Kept
  <2>2. CASE mapped = Nobody
    <3>1. \A d \in Callers \ {c} : pc'[d] \in {"idle", "load", "insert"}
      BY <1>1, <1>4, <2>2, CallsWithoutHandle
    <3> QED BY <1>2, <3>1 DEF CallInv
  <2> QED BY <2>1, <2>2
<1> QED BY <1>1, <1>2, <1>3, <1>5, AllCalls DEF Kept

LEMMA InsertHandleFailsKeeps ==
  ASSUME Control, Kept, NEW c \in Callers, InsertHandleFails(c)
  PROVE  Kept'
<1>1. closing' = closing /\ pc[c] = "insert" /\ Leave(c)
  BY DEF InsertHandleFails
<1>2. LogInv' /\ mapped = Nobody /\ mapped' # Nobody
  BY InsertFailsLog DEF Kept
<1>3. /\ CallInv(c)'
      /\ \A d \in Callers \ {c} : pc'[d] = pc[d]
  BY <1>1, CallLeft
<1>4. \A d \in Callers \ {c} : CallInv(d)'
  <2>1. \A d \in Callers \ {c} : pc'[d] \in {"idle", "load", "insert"}
    BY <1>1, <1>2, <1>3, CallsWithoutHandle
  <2> QED BY <1>2, <2>1 DEF CallInv
<1> QED BY <1>1, <1>2, <1>3, <1>4, AllCalls DEF Kept

LEMMA CreatePersistKeeps ==
  ASSUME Control, NEW c \in Callers, CreatePersist(c), ~glued'
  PROVE  Kept'
<1>1. /\ consumed.entries = 0 /\ WriteSucceeds(<<Header>>) /\ OpenHandle(1, <<Header>>)
      /\ held' = [held EXCEPT ![c] = 1] /\ UNCHANGED <<mapped, closing>>
      /\ consumed' = [consumed EXCEPT !.entries = 1, !.handles = 1]
      /\ pc' = [pc EXCEPT ![c] = "register"]
  BY DEF CreatePersist, Goto
<1>2. /\ mapped = Nobody /\ closing = {} /\ consumed \in Counters
      /\ \A d \in Callers : pc[d] = "idle"
  BY <1>1, NothingYet
<1>3. consumed'.entries = 1
  BY <1>1, <1>2 DEF Counters
<1>4. Written(<<Header>>, 1, Clean)
  BY <1>1, HeaderBatch DEF WriteSucceeds
<1>5. LogInv' /\ OnFile' = <<Header>>
  BY <1>1, <1>3, <1>4, CreatedLog
<1>6. 1 \in Handles
  BY StoreConstantsOK DEF Handles
<1>7. view'[1] = <<Header>> /\ buffered'[1] = <<>> /\ pendingState'[1] = <<>>
  BY <1>1, <1>6 DEF OpenHandle, Control, HandleTypes
<1>8. CallInv(c)'
  <2>1. pc'[c] = "register" /\ held'[c] = 1
    BY <1>1, CallerMaps
  <2> QED BY <1>5, <1>7, <2>1 DEF CallInv
<1>9. \A d \in Callers \ {c} : CallInv(d)'
  <2>1. \A d \in Callers \ {c} : pc'[d] = "idle"
    BY <1>1, <1>2, CallerMaps
  <2> QED BY <2>1 DEF CallInv
<1> QED BY <1>1, <1>2, <1>5, <1>8, <1>9, AllCalls DEF Kept

LEMMA CreateFailsKeeps ==
  ASSUME Control, NEW c \in Callers, CreateFails(c), ~glued'
  PROVE  Kept'
<1>1. /\ consumed.entries = 0 /\ \E n \in {0, 1} : Written(<<Header>>, n, Clean)
      /\ UNCHANGED <<mapped, closing, pc>>
      /\ consumed' = [consumed EXCEPT !.entries = 1, !.failures = @ + 1]
  BY DEF CreateFails
<1>2. closing = {} /\ consumed \in Counters /\ \A d \in Callers : pc[d] = "idle"
  BY <1>1, NothingYet
<1>3. consumed'.entries = 1
  BY <1>1, <1>2 DEF Counters
<1>4. LogInv'
  BY <1>1, <1>3, CreatedLog
<1>5. \A d \in Callers : CallInv(d)'
  BY <1>1, <1>2 DEF CallInv
<1> QED BY <1>1, <1>2, <1>4, <1>5 DEF Kept

LEMMA CreateRegisterKeeps ==
  ASSUME Control, Kept, NEW c \in Callers, CreateRegister(c)
  PROVE  Kept'
<1>1. /\ pc[c] = "register" /\ mapped' = held[c] /\ pc' = [pc EXCEPT ![c] = "index"]
      /\ UNCHANGED <<lines, tail, view, buffered, pendingState, closing, held>>
      /\ consumed' = consumed
  BY DEF CreateRegister, fileVars, handleVars, callVars, Goto
<1>2. /\ held[c] = 1 /\ OnFile = <<Header>> /\ view[1] = <<Header>>
      /\ buffered[1] = <<>> /\ pendingState[1] = <<>>
  BY <1>1 DEF Kept, CallInv
<1>3. /\ mapped = Nobody /\ 1 # Nobody
      /\ \A d \in Callers \ {c} : pc[d] = "idle"
  <2>1. 1 # Nobody
    BY StoreConstantsOK
  <2>2. mapped = Nobody /\ \A d \in Callers \ {c} : pc[d] = "idle"
    BY <1>1 DEF Control, CallerInv
  <2> QED BY <2>1, <2>2
<1>4. PICK f : f = <<Header>>
  OBVIOUS
<1>5. f \in Seq(Entry) /\ GoodLog(f, consumed.entries)
  BY <1>2, <1>3, <1>4, HeaderBatch DEF Kept, LogInv, Whole
<1>6. Whole' = f /\ OnFile' = f /\ view'[mapped'] = f
      /\ pendingState'[mapped'] = buffered'[mapped']
  <2>1. OnFile' = f
    BY <1>1, <1>2, <1>4 DEF OnFile
  <2>2. Whole' = f \o <<>>
    BY <1>1, <1>2, <1>3, <1>4 DEF Whole
  <2> QED BY <1>1, <1>2, <1>4, <1>5, <2>1, <2>2
<1>7. Starts(f, f)
  BY <1>5, StartsSelf
<1>8. LogInv'
  BY <1>1, <1>5, <1>6, <1>7 DEF LogInv
<1>9. CallInv(c)'
  <2>1. pc'[c] = "index" /\ held'[c] = mapped'
    BY <1>1, CallerMaps
  <2> QED BY <2>1 DEF CallInv
<1>10. \A d \in Callers \ {c} : CallInv(d)'
  <2>1. \A d \in Callers \ {c} : pc'[d] = "idle"
    BY <1>1, <1>3, CallerMaps
  <2> QED BY <2>1 DEF CallInv
<1> QED BY <1>1, <1>8, <1>9, <1>10, AllCalls DEF Kept

LEMMA ProcessEndsKeeps ==
  ASSUME Control, Kept, KillProcess \/ ShutdownStore, ~glued'
  PROVE  Kept'
<1>1. /\ mapped' = Nobody /\ closing' = {} /\ pc' = [c \in Callers |-> "idle"]
      /\ Use("crashes", 1)
  BY DEF KillProcess, ShutdownStore, ProcessEnds
<1>2. OnFile' = OnFile \/ OnFile' = Whole
  <2>1. CASE KillProcess
    BY <2>1 DEF KillProcess, fileVars, OnFile
  <2>2. CASE ShutdownStore
    <3>1. mapped # Nobody /\ FlushSucceeds(mapped)
      BY <2>2 DEF ShutdownStore
    <3> QED BY <3>1, FlushCompletesLog DEF Kept
  <2> QED BY <2>1, <2>2
<1>3. LogInv'
  BY <1>1, <1>2, SpendsAre, EndedLog DEF Kept
<1>4. \A d \in Callers : CallInv(d)'
  BY <1>1 DEF CallInv
<1> QED BY <1>1, <1>3, <1>4 DEF Kept

LEMMA StutterKeeps ==
  ASSUME Control, Kept, UNCHANGED storeVars
  PROVE  Kept'
<1>1. /\ UNCHANGED <<lines, tail, view, buffered, pendingState, mapped, closing, holder>>
      /\ UNCHANGED <<pc, held, loaded>> /\ consumed' = consumed
  BY DEF storeVars
<1>2. LogInv'
  BY <1>1, SpendsAre, LogStays DEF Kept
<1>3. OnFile' = OnFile
  BY <1>1 DEF OnFile
<1>4. \A c \in Callers : CallInv(c)'
  BY <1>1, <1>3 DEF Kept, CallInv
<1> QED BY <1>1, <1>2, <1>4 DEF Kept

(* A step that spends nothing but entries starts from the same promises.    *)
LEMMA KeptBefore ==
  ASSUME Control, OneLog, [StoreNext]_storeVars, NEW n, Spends(n), Quiet'
  PROVE  Kept /\ ~glued'
<1>1. Quiet /\ ~glued'
  BY QuietBefore
<1> QED BY <1>1 DEF OneLog, Kept

LEMMA NothingDropped ==
  ASSUME Control, Quiet'
  PROVE  /\ \A c \in Callers : ~CallDropped(c)
         /\ ~Evict
<1>1. consumed \in Counters /\ consumed.drops \in Nat /\ consumed.evictions \in Nat
  BY CountersFields DEF Control, CountersInv
<1>2. consumed'.drops # consumed.drops + 1 /\ consumed'.evictions # consumed.evictions + 1
  BY <1>1 DEF Quiet
<1>3. ~Use("drops", 1) /\ ~Use("evictions", 1)
  BY <1>1, <1>2 DEF Use, Counters
<1>4. ~Evict
  BY <1>3 DEF Evict
<1>5. ASSUME NEW c \in Callers, CallDropped(c) PROVE FALSE
  <2>1. PICK n : consumed' = [consumed EXCEPT !.entries = @ + n, !.drops = @ + 1]
    BY <1>3, <1>5 DEF CallDropped
  <2> QED BY <1>1, <1>2, <2>1 DEF Counters
<1> QED BY <1>4, <1>5

LEMMA CallKeeps ==
  ASSUME Control, OneLog, Quiet', NEW c \in Callers, Continue(c)
  PROVE  Kept'
<1>0. StoreNext
  BY DEF StoreNext
<1>1. CASE CreateRegister(c) \/ LoadFile(c) \/ Recover(c) \/ Flush(c) \/ UpsertIndex(c)
  <2>1. consumed' = consumed
    BY <1>1 DEF CreateRegister, LoadFile, Recover, Flush, UpsertIndex
  <2>2. Kept /\ ~glued'
    BY <1>0, <2>1, SpendsAre, KeptBefore
  <2> QED BY <1>1, <2>2, CreateRegisterKeeps, LoadFileKeeps, RecoverKeeps, FlushKeeps, UpsertKeeps
<1>2. CASE InsertHandle(c) \/ InsertHandleFails(c)
  <2>1. \/ consumed' = consumed \/ Use("handles", 1)
        \/ consumed' = [consumed EXCEPT !.handles = @ + 1, !.failures = @ + 1]
    BY <1>2 DEF InsertHandle, InsertHandleFails
  <2>2. Kept /\ ~glued'
    BY <1>0, <2>1, SpendsAre, KeptBefore
  <2> QED BY <1>2, <2>2, InsertHandleKeeps, InsertHandleFailsKeeps
<1>3. CASE RecoverFails(c) \/ FlushCallFails(c) \/ UpsertIndexFails(c)
  <2>1. Use("failures", 1)
    BY <1>3 DEF RecoverFails, FlushCallFails, UpsertIndexFails
  <2>2. Kept /\ ~glued'
    BY <1>0, <2>1, SpendsAre, KeptBefore
  <2> QED BY <1>3, <2>2, FailedCallKeeps, UpsertKeeps
<1>4. CASE WriteEntries(c) \/ WriteEntriesFails(c)
  <2>1. pc[c] = "write" /\ \E batch \in NewEntries(c) :
          \/ Use("entries", Len(batch))
          \/ consumed' = [consumed EXCEPT !.entries = @ + Len(batch), !.failures = @ + 1]
    BY <1>4 DEF WriteEntries, WriteEntriesFails
  <2>2. PICK batch \in NewEntries(c) :
          \/ Use("entries", Len(batch))
          \/ consumed' = [consumed EXCEPT !.entries = @ + Len(batch), !.failures = @ + 1]
    BY <2>1
  <2>3. Len(batch) \in Nat
    BY <2>1, <2>2, BatchShape
  <2>4. Spends(Len(batch))
    BY <2>2, <2>3, SpendsAre
  <2>5. Kept /\ ~glued'
    BY <1>0, <2>4, KeptBefore
  <2> QED BY <1>4, <2>5, WriteEntriesKeeps, WriteEntriesFailsKeeps
<1> QED BY <1>1, <1>2, <1>3, <1>4 DEF Continue

LEMMA NextKeeps ==
  ASSUME Control, OneLog, [StoreNext]_storeVars
  PROVE  OneLog'
<1> SUFFICES ASSUME Quiet' PROVE Kept'
  BY DEF OneLog, Kept
<1>1. ASSUME NEW c \in Callers, CreatePersist(c) \/ CreateFails(c) PROVE Kept'
  <2>1. ~glued'
    BY DEF Quiet
  <2> QED BY <1>1, <2>1, CreatePersistKeeps, CreateFailsKeeps
<1>2. ASSUME NEW c \in Callers, NEW kind \in Kinds, Lookup(c, kind) PROVE Kept'
  <2>1. Use("calls", 1)
    BY <1>2 DEF Lookup
  <2> QED BY <1>2, <2>1, SpendsAre, KeptBefore, LookupKeeps
<1>3. ASSUME NEW c \in Callers, Acquire(c) PROVE Kept'
  <2>1. consumed' = consumed
    BY <1>3 DEF Acquire
  <2> QED BY <1>3, <2>1, SpendsAre, KeptBefore, AcquireKeeps
<1>4. ASSUME NEW c \in Callers, Continue(c) PROVE Kept'
  BY <1>4, CallKeeps
<1>5. ASSUME NEW h \in Handles, CloseEvicted(h) \/ CloseEvictedFails(h) PROVE Kept'
  <2>1. h \in closing /\ (consumed' = consumed \/ Use("failures", 1))
    BY <1>5 DEF CloseEvicted, CloseEvictedFails
  <2>2. Kept
    BY <2>1, SpendsAre, KeptBefore
  <2> QED BY <2>1, <2>2 DEF Kept
<1>6. CASE KillProcess \/ ShutdownStore
  <2>1. Use("crashes", 1)
    BY <1>6 DEF KillProcess, ShutdownStore, ProcessEnds
  <2> QED BY <1>6, <2>1, SpendsAre, KeptBefore, ProcessEndsKeeps
<1>7. CASE UNCHANGED storeVars
  <2>1. consumed' = consumed
    BY <1>7 DEF storeVars
  <2> QED BY <1>7, <2>1, SpendsAre, KeptBefore, StutterKeeps
<1> QED BY <1>1, <1>2, <1>3, <1>4, <1>5, <1>6, <1>7, NothingDropped DEF StoreNext

LEMMA InitIsOneLog == StoreInit => OneLog
<1> SUFFICES ASSUME StoreInit PROVE LogInv /\ closing = {} /\ \A c \in Callers : CallInv(c)
  BY DEF OneLog
<1>1. mapped = Nobody /\ closing = {} /\ pc = [c \in Callers |-> "idle"] /\ OnFile = <<>>
  BY DEF StoreInit, OnFile, Readable
<1>2. LogInv
  <2>1. Whole = <<>>
    BY <1>1 DEF Whole
  <2>2. GoodLog(<<>>, consumed.entries) /\ Starts(<<>>, <<>>)
    BY DEF GoodLog, Stamped, Sequential, Starts
  <2> QED BY <1>1, <2>1, <2>2 DEF LogInv
<1>3. \A c \in Callers : CallInv(c)
  BY <1>1 DEF CallInv
<1> QED BY <1>1, <1>2, <1>3

LEMMA OneLogIsWhatIsPromised ==
  ASSUME IInv, StoreTypeOK, OneLog, consumed.evictions = 0, consumed.drops = 0
  PROVE  ViewAndFileAreOneLog
<1> SUFFICES ASSUME ~glued
             PROVE  /\ mapped # Nobody => /\ IsPrefix(view[mapped], OnFile)
                                          /\ IsPrefix(OnFile, view[mapped] \o buffered[mapped])
                    /\ \A i \in 2..Len(OnFile) :
                         OnFile[i].parent = ParentAfter(SubSeq(OnFile, 1, i - 1), OnFile[i])
  BY DEF ViewAndFileAreOneLog, ViewMatchesFile, LogIsSequential, ParentAfter
<1>1. LogInv
  BY DEF OneLog, Quiet
<1>2. Control /\ OnFile \in Seq(Entry)
  BY OnFileType DEF IInv, Control, FileInv
<1>3. GoodLog(OnFile, consumed.entries)
  BY <1>1, <1>2, GoodPrefix DEF LogInv, GoodLog
<1>4. ASSUME mapped # Nobody
      PROVE  /\ IsPrefix(view[mapped], OnFile)
             /\ IsPrefix(OnFile, view[mapped] \o buffered[mapped])
  <2>1. view[mapped] \in Seq(Entry) /\ Whole \in Seq(Entry) /\ Whole = view[mapped] \o buffered[mapped]
    BY <1>1, <1>2, <1>4, OpenHandleFacts DEF LogInv, GoodLog, Whole
  <2>2. Starts(view[mapped], OnFile) /\ Starts(OnFile, Whole)
    BY <1>1, <1>4 DEF LogInv
  <2>3. ASSUME NEW s \in Seq(Entry), NEW w \in Seq(Entry), Starts(s, w) PROVE IsPrefix(s, w)
    BY <2>3, PrefixByPosition DEF Starts
  <2> QED BY <1>2, <2>1, <2>2, <2>3
<1> QED BY <1>3, <1>4 DEF GoodLog, Sequential

(* Until a handle is evicted or a call is dropped in the middle, and while  *)
(* no write joined an unterminated line, the view in memory is a prefix of  *)
(* the file, the file of the view and what the recorder holds, and every    *)
(* entry of the file continues the branch the entries before it left active *)
(* (append_entries, set_leaf, flush and recover_pending_state_entries), for *)
(* any number of callers, failing writes and ends of the process.  The      *)
(* conditions are the code's own: a file loaded before an eviction may be   *)
(* opened after it, and a dropped call leaves the view behind the file.     *)
THEOREM ViewAndFileStayOneLog ==
  StoreSpec => [](consumed.evictions = 0 /\ consumed.drops = 0 => ViewAndFileAreOneLog)
<1>1. IInv /\ OneLog /\ [StoreNext]_storeVars => OneLog'
  BY NextKeeps DEF IInv
<1>2. IInv /\ StoreTypeOK /\ OneLog =>
        (consumed.evictions = 0 /\ consumed.drops = 0 => ViewAndFileAreOneLog)
  BY OneLogIsWhatIsPromised
<1> QED BY <1>1, <1>2, InitIsOneLog, StoreInvariant, StoreTypes, PTL DEF StoreSpec

LEMMA DropsAreCounted ==
  ASSUME MaxDrops = 0, Control, consumed.drops = 0, [StoreNext]_storeVars
  PROVE  consumed'.drops = 0
<1>1. consumed \in Counters
  BY DEF Control, CountersInv
<1>2. \A c \in Callers : ~CallDropped(c)
  BY DEF CallDropped
<1>3. ASSUME NEW c \in Callers, CreatePersist(c) \/ CreateFails(c) PROVE consumed'.drops = 0
  BY <1>1, <1>3 DEF CreatePersist, CreateFails, Counters
<1>4. ASSUME NEW c \in Callers, \E kind \in Kinds : Lookup(c, kind) PROVE consumed'.drops = 0
  <2>1. Use("calls", 1)
    BY <1>4 DEF Lookup
  <2> QED BY <1>1, <2>1 DEF Use, Counters
<1>5. ASSUME NEW c \in Callers, CreateRegister(c) \/ LoadFile(c) \/ Recover(c) \/ Flush(c)
                \/ UpsertIndex(c) \/ Acquire(c)
      PROVE consumed'.drops = 0
  BY <1>5 DEF CreateRegister, LoadFile, Recover, Flush, UpsertIndex, Acquire
<1>6. ASSUME NEW c \in Callers, InsertHandle(c) \/ InsertHandleFails(c) PROVE consumed'.drops = 0
  <2>1. \/ consumed' = consumed \/ Use("handles", 1)
        \/ consumed' = [consumed EXCEPT !.handles = @ + 1, !.failures = @ + 1]
    BY <1>6 DEF InsertHandle, InsertHandleFails
  <2> QED BY <1>1, <2>1 DEF Use, Counters
<1>7. ASSUME NEW c \in Callers, RecoverFails(c) \/ FlushCallFails(c) \/ UpsertIndexFails(c)
      PROVE consumed'.drops = 0
  BY <1>1, <1>7 DEF RecoverFails, FlushCallFails, UpsertIndexFails, Use, Counters
<1>8. ASSUME NEW c \in Callers, WriteEntries(c) \/ WriteEntriesFails(c)
      PROVE consumed'.drops = 0
  <2>1. \E n : \/ Use("entries", n)
               \/ consumed' = [consumed EXCEPT !.entries = @ + n, !.failures = @ + 1]
    BY <1>8 DEF WriteEntries, WriteEntriesFails
  <2> QED BY <1>1, <2>1 DEF Use, Counters
<1>9. ASSUME NEW h \in Handles, CloseEvicted(h) \/ CloseEvictedFails(h)
       PROVE consumed'.drops = 0
  BY <1>1, <1>9 DEF CloseEvicted, CloseEvictedFails, Use, Counters
<1>10. CASE Evict \/ KillProcess \/ ShutdownStore \/ UNCHANGED storeVars
  BY <1>1, <1>10 DEF Evict, KillProcess, ShutdownStore, ProcessEnds, Use, storeVars, Counters
<1> QED BY <1>2, <1>3, <1>4, <1>5, <1>6, <1>7, <1>8, <1>9, <1>10 DEF StoreNext, Continue

(* A process that opens no more sessions than it may keep open and whose    *)
(* turns do not panic always has one log in memory and on file.             *)
THEOREM OneLogWithoutEvictions ==
  ASSUME MaxEvictions = 0, MaxDrops = 0
  PROVE  StoreSpec => []ViewAndFileAreOneLog
<1>1. StoreInit => consumed.drops = 0
  BY DEF StoreInit
<1>2. IInv /\ consumed.drops = 0 /\ [StoreNext]_storeVars => (consumed.drops = 0)'
  BY DropsAreCounted DEF IInv
<1>3. IInv => consumed.evictions = 0
  BY CountersFields DEF IInv, Control, CountersInv
<1>4. consumed.evictions = 0 /\ consumed.drops = 0
        /\ (consumed.evictions = 0 /\ consumed.drops = 0 => ViewAndFileAreOneLog)
        => ViewAndFileAreOneLog
  OBVIOUS
<1> QED BY <1>1, <1>2, <1>3, <1>4, ViewAndFileStayOneLog, StoreInvariant, PTL DEF StoreSpec

-----------------------------------------------------------------------------
(* The session index.  All of it hangs on the stamps: a file's only grows,  *)
(* a path that was removed does not come back, and a file that holds the    *)
(* foreign session does not change any more.  So a mark, what a repair has  *)
(* found and what it has read of a file are one after the other, and when   *)
(* the first is as late as the file itself, so are the others.              *)

(* The statements of a repair that has a plan, and those with a file in hand. *)
Planned == {"unmark", "unlist", "extract", "forget", "row", "mark", "list"}
Reading == {"forget", "row", "mark"}

(* A record of these six fields.                                            *)
IsRepair(r) ==
  r = [pc |-> r.pc, found |-> r.found, stale |-> r.stale, todo |-> r.todo,
       known |-> r.known, read |-> r.read]

(* A session has one file; the header of a file names its own session or,   *)
(* after it was replaced, the foreign one.                                  *)
FilesInv ==
  /\ born \in SUBSET Paths /\ DOMAIN files \subseteq born
  /\ \A p \in DOMAIN files : files[p] \in [session : {p, Foreign}, stamp : Nat]
  /\ \A p, q \in DOMAIN files : files[p].session = files[q].session => p = q

WriterInv ==
  /\ writer \in [path : Paths \cup {NoPath}, step : {"idle", "created", "written"}]
  /\ writer.step # "idle" => writer.path \in DOMAIN files /\ files[writer.path].session = writer.path

(* What a row says of the foreign session is what its file holds.           *)
RowsInv ==
  /\ \A s \in DOMAIN rows : /\ s \in Sessions /\ rows[s] \in [path : born, stamp : Nat]
                            /\ s \in Paths => rows[s].path = s
  /\ Foreign \in DOMAIN rows /\ rows[Foreign].path \in DOMAIN files
       => files[rows[Foreign].path] = File(Foreign, rows[Foreign].stamp)

(* A mark is never ahead of its file, and has the session right when it     *)
(* fits.                                                                    *)
MarksInv ==
  /\ MarksHaveRows /\ MarkedRowIsFresh
  /\ \A s \in DOMAIN marks : /\ marks[s] \in [path : born, stamp : Nat]
                             /\ s \in Paths => marks[s].path = s
  /\ \A s \in DOMAIN marks :
       LET p == marks[s].path
       IN  p \in DOMAIN files => /\ marks[s].stamp <= files[p].stamp
                                 /\ marks[s].stamp = files[p].stamp => files[p].session = s

(* What was found was so when the repair began, later than every mark.      *)
FoundInv ==
  repair.pc # "idle" =>
    /\ IsRepair(repair)
    /\ repair.read \in [session : Sessions, stamp : Nat]
    /\ DOMAIN repair.found \subseteq born
    /\ \A p \in DOMAIN repair.found :
         /\ repair.found[p].stamp \in Nat
         /\ p \in DOMAIN files => repair.found[p].stamp <= files[p].stamp
    /\ \A s \in DOMAIN marks :
         LET p == marks[s].path
         IN  p \in DOMAIN files => p \in DOMAIN repair.found /\ marks[s].stamp <= repair.found[p].stamp
    /\ still => repair.found = files

(* The row of the file's session says what the file is.                     *)
Listed(p) == files[p].session \in DOMAIN rows /\ rows[files[p].session] = Mark(p, files[p].stamp)

(* What is not planned any more is listed, unless a file changed since.     *)
PlanInv ==
  repair.pc \in Planned =>
    /\ repair.todo \subseteq DOMAIN repair.found
    /\ repair.pc \in {"extract"} \cup Reading => repair.todo # {} /\ repair.stale = {}
    /\ repair.pc = "list" => repair.todo = {} /\ repair.stale = {}
    /\ repair.stale \subseteq Sessions
    /\ repair.pc = "unlist" => repair.read.session \in repair.stale /\ repair.read.session \notin DOMAIN marks
    /\ \A p \in DOMAIN repair.known : repair.known[p] \in {p, Foreign}
    /\ still => /\ \A p \in DOMAIN files : p \in repair.todo \/ Listed(p)
                /\ \A s \in DOMAIN rows : rows[s].path \in DOMAIN files \/ s \in repair.stale
                /\ \A s \in repair.stale : s \in DOMAIN rows /\ rows[s].path \notin DOMAIN files
                /\ \A p \in DOMAIN repair.known :
                     repair.known[p] = Foreign /\ p \in DOMAIN files => files[p].session = Foreign

(* What was read of the file under repair, and what may have happened to it *)
(* and to its session since.                                                *)
ReadInv ==
  repair.pc \in Reading =>
    LET p == First(repair.todo)
        owner == repair.read.session
    IN  /\ owner \in {p, Foreign} /\ repair.found[p].stamp <= repair.read.stamp
        /\ p \in DOMAIN files =>
             /\ repair.read.stamp <= files[p].stamp
             /\ repair.read.stamp = files[p].stamp \/ owner = Foreign => files[p] = repair.read
        /\ \A q \in DOMAIN files \cap DOMAIN repair.found :
             q # p /\ files[q].session = owner => repair.found[q].stamp < files[q].stamp
        /\ repair.pc = "mark" =>
             /\ owner \in DOMAIN rows
             /\ p \in DOMAIN files /\ files[p] = File(owner, repair.found[p].stamp)
                  => rows[owner] = Mark(p, repair.found[p].stamp)
        /\ still => p \in DOMAIN files /\ files[p] = repair.read

IndexInv ==
  /\ repair.pc \in Planned \cup {"idle", "load"}
  /\ FilesInv /\ WriterInv /\ RowsInv /\ MarksInv /\ FoundInv /\ PlanInv /\ ReadInv

-----------------------------------------------------------------------------
(* Lemmas about the repair's record *)

(* The first of the files still to do is one of them.                       *)
LEMMA FirstIsOne ==
  ASSUME NEW paths, paths \subseteq Nat, paths # {}
  PROVE  First(paths) \in paths
<1>1. PICK p \in paths : \A q \in paths : ~(<<q, p>> \in LessThan)
  BY LessThanIsWellFounded, WFMin
<1>2. ASSUME NEW q \in paths
      PROVE  p <= q
  <2>1. q \in Nat /\ p \in Nat /\ <<q, p>> \in Nat \X Nat
    BY <1>1
  <2>2. <<q, p>>[1] = q /\ <<q, p>>[2] = p
    OBVIOUS
  <2>3. ~(q < p)
    BY <1>1, <2>1, <2>2 DEF LessThan
  <2> QED BY <2>1, <2>3
<1> QED BY <1>1, <1>2 DEF First

LEMMA NextStepIs ==
  ASSUME NEW r, IsRepair(r)
  PROVE  /\ IsRepair(NextStep(r))
         /\ NextStep(r).pc \in {"unmark", "extract", "list"}
         /\ NextStep(r).pc = "extract" => r.stale = {} /\ r.todo # {}
         /\ NextStep(r).pc = "list" => r.stale = {} /\ r.todo = {}
         /\ NextStep(r).found = r.found /\ NextStep(r).stale = r.stale
         /\ NextStep(r).todo = r.todo /\ NextStep(r).known = r.known
         /\ NextStep(r).read = r.read
BY DEF NextStep, IsRepair

LEMMA IdleIs == IsRepair(Idle) /\ Idle.pc = "idle" /\ Idle.read = File(Foreign, 0)
                /\ Idle.stale = {} /\ Idle.todo = {} /\ DOMAIN Idle.known = {}
BY DEF IsRepair, Idle

(* A path under repair is a file that was found.                            *)
LEMMA TodoIsFound ==
  ASSUME IndexInv, repair.pc \in {"extract"} \cup Reading
  PROVE  /\ First(repair.todo) \in repair.todo
         /\ First(repair.todo) \in DOMAIN repair.found
         /\ First(repair.todo) \in born /\ First(repair.todo) \in Paths
<1>1. repair.pc \in Planned /\ repair.pc # "idle"
  BY DEF Planned, Reading
<1>2. /\ repair.todo \subseteq DOMAIN repair.found /\ repair.todo # {}
      /\ DOMAIN repair.found \subseteq born /\ born \subseteq Paths
  BY <1>1 DEF IndexInv, PlanInv, FoundInv, FilesInv
<1>3. repair.todo \subseteq Nat
  BY <1>2, IndexConstantsOK
<1> QED BY <1>2, <1>3, FirstIsOne

-----------------------------------------------------------------------------
(* A file that changes: it is written under its own session or replaced,    *)
(* removed, or created for the first time.                                  *)
FilesChange ==
  /\ born \subseteq born' /\ still' = FALSE
  /\ rows' = rows /\ marks' = marks /\ repair' = repair
  /\ \A p \in DOMAIN files' :
       \/ p \in DOMAIN files /\ files'[p] = files[p]
       \/ p \in DOMAIN files /\ files[p].session # Foreign /\ files[p].stamp < files'[p].stamp
       \/ p \notin born

LEMMA ChangeKeepsRows ==
  ASSUME IndexInv, FilesChange
  PROVE  RowsInv'
<1>1. ASSUME NEW s \in DOMAIN rows
      PROVE  s \in Sessions /\ rows[s] \in [path : born', stamp : Nat] /\ (s \in Paths => rows[s].path = s)
  BY <1>1 DEF IndexInv, RowsInv, FilesChange
<1>2. ASSUME Foreign \in DOMAIN rows, rows[Foreign].path \in DOMAIN files'
      PROVE  files'[rows[Foreign].path] = File(Foreign, rows[Foreign].stamp)
  <2> DEFINE p == rows[Foreign].path
  <2>1. p \in born
    BY <1>2 DEF IndexInv, RowsInv
  <2>2. p \in DOMAIN files
    BY <1>2, <2>1 DEF FilesChange
  <2>3. files[p] = File(Foreign, rows[Foreign].stamp)
    BY <1>2, <2>2 DEF IndexInv, RowsInv
  <2>4. files[p].session = Foreign
    BY <2>3 DEF File
  <2> QED BY <1>2, <2>1, <2>3, <2>4 DEF FilesChange
<1> QED BY <1>1, <1>2 DEF RowsInv, FilesChange, Sessions

LEMMA ChangeKeepsMarks ==
  ASSUME IndexInv, FilesChange, FilesInv'
  PROVE  MarksInv'
<1>1. MarksHaveRows'
  BY DEF IndexInv, MarksInv, MarksHaveRows, FilesChange
<1>2. ASSUME NEW s \in DOMAIN marks
      PROVE  marks[s] \in [path : born', stamp : Nat] /\ (s \in Paths => marks[s].path = s)
  BY <1>2 DEF IndexInv, MarksInv, FilesChange
<1>3. ASSUME NEW s \in DOMAIN marks, marks[s].path \in DOMAIN files'
      PROVE  /\ marks[s].path \in DOMAIN files
             /\ \/ files'[marks[s].path] = files[marks[s].path]
                \/ marks[s].stamp < files'[marks[s].path].stamp
             /\ marks[s].stamp <= files'[marks[s].path].stamp
  <2> DEFINE p == marks[s].path
  <2>1. p \in born /\ marks[s].stamp \in Nat
    BY <1>3 DEF IndexInv, MarksInv
  <2>2. p \in DOMAIN files
    BY <1>3, <2>1 DEF FilesChange
  <2>3. marks[s].stamp <= files[p].stamp /\ files[p].stamp \in Nat
    BY <1>3, <2>2 DEF IndexInv, MarksInv, FilesInv
  <2>4. files'[p].stamp \in Nat
    BY <1>3 DEF FilesInv
  <2>5. files'[p] = files[p] \/ files[p].stamp < files'[p].stamp
    BY <1>3, <2>1 DEF FilesChange
  <2> QED BY <2>1, <2>2, <2>3, <2>4, <2>5
<1>4. MarkedRowIsFresh'
  <2> SUFFICES ASSUME NEW s \in DOMAIN marks, marks[s].path \in DOMAIN files',
                      files'[marks[s].path] = File(s, marks[s].stamp)
               PROVE  s \in DOMAIN rows /\ rows[s] = marks[s]
    BY DEF MarkedRowIsFresh, FilesChange
  <2>1. files'[marks[s].path].stamp = marks[s].stamp /\ marks[s].stamp \in Nat
    BY DEF File, IndexInv, MarksInv
  <2>2. marks[s].path \in DOMAIN files /\ files[marks[s].path] = File(s, marks[s].stamp)
    BY <1>3, <2>1
  <2> QED BY <2>2 DEF IndexInv, MarksInv, MarkedRowIsFresh
<1>5. ASSUME NEW s \in DOMAIN marks, marks[s].path \in DOMAIN files',
             marks[s].stamp = files'[marks[s].path].stamp
      PROVE  files'[marks[s].path].session = s
  <2>1. marks[s].stamp \in Nat
    BY <1>2
  <2>2. files'[marks[s].path] = files[marks[s].path] /\ marks[s].path \in DOMAIN files
    BY <1>3, <1>5, <2>1
  <2> QED BY <2>2, <1>5 DEF IndexInv, MarksInv
<1> QED BY <1>1, <1>2, <1>3, <1>4, <1>5 DEF MarksInv, FilesChange

LEMMA ChangeKeepsFound ==
  ASSUME IndexInv, FilesChange, FilesInv'
  PROVE  FoundInv'
<1> SUFFICES ASSUME repair.pc # "idle"
             PROVE  FoundInv'
  BY DEF FoundInv, FilesChange
<1>1. /\ IsRepair(repair)
      /\ repair.read \in [session : Sessions, stamp : Nat]
      /\ DOMAIN repair.found \subseteq born
      /\ \A p \in DOMAIN repair.found :
           /\ repair.found[p].stamp \in Nat
           /\ p \in DOMAIN files => repair.found[p].stamp <= files[p].stamp
      /\ \A s \in DOMAIN marks :
           marks[s].path \in DOMAIN files =>
             marks[s].path \in DOMAIN repair.found /\ marks[s].stamp <= repair.found[marks[s].path].stamp
  BY DEF IndexInv, FoundInv
<1>2. ASSUME NEW p \in DOMAIN repair.found, p \in DOMAIN files'
      PROVE  repair.found[p].stamp <= files'[p].stamp
  <2>1. p \in born /\ repair.found[p].stamp \in Nat /\ files'[p].stamp \in Nat
    BY <1>1, <1>2 DEF FilesInv
  <2>2. p \in DOMAIN files /\ (files'[p] = files[p] \/ files[p].stamp < files'[p].stamp)
    BY <1>2, <2>1 DEF FilesChange
  <2>3. files[p].stamp \in Nat /\ repair.found[p].stamp <= files[p].stamp
    BY <1>1, <2>2 DEF IndexInv, FilesInv
  <2> QED BY <2>1, <2>2, <2>3
<1>3. ASSUME NEW s \in DOMAIN marks, marks[s].path \in DOMAIN files'
      PROVE  marks[s].path \in DOMAIN files
  <2>1. marks[s].path \in born
    BY DEF IndexInv, MarksInv
  <2> QED BY <1>3, <2>1 DEF FilesChange
<1>4. DOMAIN repair.found \subseteq born'
  BY <1>1 DEF FilesChange
<1> QED BY <1>1, <1>2, <1>3, <1>4 DEF FoundInv, FilesChange, Sessions

LEMMA ChangeKeepsPlan ==
  ASSUME IndexInv, FilesChange
  PROVE  PlanInv'
BY DEF IndexInv, PlanInv, FilesChange, Planned, Reading, Sessions

LEMMA ChangeKeepsRead ==
  ASSUME IndexInv, FilesChange, FilesInv'
  PROVE  ReadInv'
<1> DEFINE p == First(repair.todo)
           owner == repair.read.session
<1> SUFFICES ASSUME repair.pc \in Reading
             PROVE  ReadInv'
  BY DEF ReadInv, FilesChange, Reading
<1>1. p \in DOMAIN repair.found /\ p \in born
  BY TodoIsFound
<1>2. repair.pc # "idle"
  BY DEF Reading
<1>3. /\ repair.found[p].stamp \in Nat /\ repair.read.stamp \in Nat
      /\ \A q \in DOMAIN repair.found : q \in born /\ repair.found[q].stamp \in Nat
      /\ \A q \in DOMAIN repair.found \cap DOMAIN files : repair.found[q].stamp <= files[q].stamp
  BY <1>1, <1>2 DEF IndexInv, FoundInv
<1>4. \A q \in DOMAIN files : files[q].stamp \in Nat
  BY DEF IndexInv, FilesInv
<1>5. \A q \in DOMAIN files' : files'[q].stamp \in Nat
  BY DEF FilesInv
<1>6. \A q \in DOMAIN files' : q \in born =>
        /\ q \in DOMAIN files
        /\ \/ files'[q] = files[q]
           \/ files[q].session # Foreign /\ files[q].stamp < files'[q].stamp
  BY DEF FilesChange
<1>7. /\ owner \in {p, Foreign} /\ repair.found[p].stamp <= repair.read.stamp
      /\ p \in DOMAIN files =>
           /\ repair.read.stamp <= files[p].stamp
           /\ repair.read.stamp = files[p].stamp \/ owner = Foreign => files[p] = repair.read
      /\ \A q \in DOMAIN files \cap DOMAIN repair.found :
           q # p /\ files[q].session = owner => repair.found[q].stamp < files[q].stamp
      /\ repair.pc = "mark" =>
           /\ owner \in DOMAIN rows
           /\ p \in DOMAIN files /\ files[p] = File(owner, repair.found[p].stamp)
                => rows[owner] = Mark(p, repair.found[p].stamp)
  BY DEF IndexInv, ReadInv
<1>8. ASSUME p \in DOMAIN files'
      PROVE  /\ repair.read.stamp <= files'[p].stamp
             /\ repair.read.stamp = files'[p].stamp \/ owner = Foreign => files'[p] = repair.read
  <2>1. p \in DOMAIN files /\ repair.read.stamp <= files[p].stamp
    BY <1>1, <1>6, <1>7, <1>8
  <2>2. CASE files'[p] = files[p]
    BY <2>1, <2>2, <1>7
  <2>3. CASE files[p].session # Foreign /\ files[p].stamp < files'[p].stamp
    <3>1. owner # Foreign
      BY <2>1, <2>3, <1>7
    <3>2. repair.read.stamp < files'[p].stamp
      BY <2>1, <2>3, <1>3, <1>4, <1>5, <1>8
    <3> QED BY <3>1, <3>2, <1>3, <1>5, <1>8
  <2> QED BY <2>2, <2>3, <1>1, <1>6, <1>8
<1>9. ASSUME NEW q \in DOMAIN files' \cap DOMAIN repair.found, q # p, files'[q].session = owner
      PROVE  repair.found[q].stamp < files'[q].stamp
  <2>1. q \in DOMAIN files /\ q \in DOMAIN repair.found
    BY <1>9, <1>3, <1>6
  <2>2. CASE files'[q] = files[q]
    BY <2>1, <2>2, <1>7, <1>9
  <2>3. CASE files[q].stamp < files'[q].stamp
    BY <2>1, <2>3, <1>3, <1>4, <1>5, <1>9
  <2> QED BY <2>2, <2>3, <1>3, <1>6, <1>9
<1>10. ASSUME p \in DOMAIN files', files'[p] = File(owner, repair.found[p].stamp)
       PROVE  files[p] = files'[p] /\ p \in DOMAIN files
  <2>1. files'[p].stamp = repair.found[p].stamp
    BY <1>10 DEF File
  <2>2. p \in DOMAIN files /\ repair.found[p].stamp <= files[p].stamp
    BY <1>1, <1>3, <1>6, <1>10
  <2> QED BY <2>1, <2>2, <1>1, <1>3, <1>4, <1>5, <1>6, <1>10
<1> HIDE DEF p, owner
<1>11. /\ owner \in {p, Foreign} /\ repair.found[p].stamp <= repair.read.stamp
       /\ p \in DOMAIN files' =>
            /\ repair.read.stamp <= files'[p].stamp
            /\ repair.read.stamp = files'[p].stamp \/ owner = Foreign => files'[p] = repair.read
       /\ \A q \in DOMAIN files' \cap DOMAIN repair.found :
            q # p /\ files'[q].session = owner => repair.found[q].stamp < files'[q].stamp
  BY <1>7, <1>8, <1>9
<1>12. repair.pc = "mark" =>
          /\ owner \in DOMAIN rows
          /\ p \in DOMAIN files' /\ files'[p] = File(owner, repair.found[p].stamp)
               => rows[owner] = Mark(p, repair.found[p].stamp)
  BY <1>7, <1>10
<1> QED BY <1>11, <1>12 DEF ReadInv, FilesChange, p, owner

-----------------------------------------------------------------------------
(* The actions on files *)

LEMMA ChangeKeepsIndex ==
  ASSUME IndexInv, FilesChange, FilesInv', WriterInv'
  PROVE  IndexInv'
<1>1. (repair.pc \in Planned \cup {"idle", "load"})'
  BY DEF IndexInv, FilesChange, Planned
<1> QED BY <1>1, ChangeKeepsRows, ChangeKeepsMarks, ChangeKeepsFound, ChangeKeepsPlan,
           ChangeKeepsRead DEF IndexInv

LEMMA CreateFileKeeps ==
  ASSUME IndexInv, NEW p \in Paths, CreateFile(p)
  PROVE  IndexInv'
<1>1. /\ writer.step = "idle" /\ p \notin born /\ files' = With(files, p, File(p, 0))
      /\ still' = FALSE /\ born' = born \cup {p}
      /\ writer' = [path |-> p, step |-> "created"]
      /\ rows' = rows /\ marks' = marks /\ repair' = repair
  BY DEF CreateFile, Touched
<1>2. /\ born \in SUBSET Paths /\ DOMAIN files \subseteq born
      /\ \A q \in DOMAIN files : files[q] \in [session : {q, Foreign}, stamp : Nat]
      /\ \A q, r \in DOMAIN files : files[q].session = files[r].session => q = r
  BY DEF IndexInv, FilesInv
<1>3. /\ DOMAIN files' = DOMAIN files \cup {p} /\ files'[p] = File(p, 0)
      /\ \A q \in DOMAIN files : files'[q] = files[q]
  BY <1>1, <1>2 DEF With
<1>4. files'[p].session = p /\ File(p, 0) \in [session : {p, Foreign}, stamp : Nat]
  BY <1>3 DEF File
<1>5. \A q \in DOMAIN files : files'[q].session # p
  BY <1>1, <1>2, <1>3, IndexConstantsOK
<1>6. FilesInv'
  <2>1. \A q, r \in DOMAIN files' : files'[q].session = files'[r].session => q = r
    BY <1>2, <1>3, <1>4, <1>5
  <2> QED BY <1>1, <1>2, <1>3, <1>4, <2>1 DEF FilesInv
<1>7. WriterInv'
  BY <1>1, <1>3, <1>4 DEF WriterInv
<1>8. FilesChange
  BY <1>1, <1>3 DEF FilesChange
<1> QED BY <1>6, <1>7, <1>8, ChangeKeepsIndex

LEMMA WriteFileKeeps ==
  ASSUME IndexInv, NEW p \in Paths, WriteFile(p)
  PROVE  IndexInv'
<1>1. /\ p \in DOMAIN files /\ files[p].session = p
      /\ files' = With(files, p, File(p, files[p].stamp + 1))
      /\ still' = FALSE /\ born' = born
      /\ writer' = [path |-> p, step |-> "written"]
      /\ rows' = rows /\ marks' = marks /\ repair' = repair
  BY DEF WriteFile, Touched
<1>2. /\ born \in SUBSET Paths /\ DOMAIN files \subseteq born
      /\ \A q \in DOMAIN files : files[q] \in [session : {q, Foreign}, stamp : Nat]
      /\ \A q, r \in DOMAIN files : files[q].session = files[r].session => q = r
  BY DEF IndexInv, FilesInv
<1>3. /\ DOMAIN files' = DOMAIN files /\ files'[p] = File(p, files[p].stamp + 1)
      /\ \A q \in DOMAIN files : q # p => files'[q] = files[q]
  <2> DEFINE file == File(p, files[p].stamp + 1)
  <2> HIDE DEF file
  <2>1. files' = With(files, p, file)
    BY <1>1 DEF file
  <2>2. /\ DOMAIN files' = DOMAIN files /\ files'[p] = file
        /\ \A q \in DOMAIN files : q # p => files'[q] = files[q]
    BY <2>1, <1>1 DEF With
  <2> QED BY <2>2 DEF file
<1>4. /\ files'[p].session = p /\ File(p, files[p].stamp + 1) \in [session : {p, Foreign}, stamp : Nat]
      /\ files[p].stamp < files'[p].stamp
  BY <1>1, <1>2, <1>3 DEF File
<1>5. \A q \in DOMAIN files : files'[q].session = files[q].session
  BY <1>1, <1>3, <1>4
<1>6. FilesInv'
  BY <1>1, <1>2, <1>3, <1>4, <1>5 DEF FilesInv
<1>7. WriterInv'
  BY <1>1, <1>3, <1>4 DEF WriterInv
<1>8. p # Foreign
  BY IndexConstantsOK
<1>9. FilesChange
  BY <1>1, <1>3, <1>4, <1>8 DEF FilesChange
<1> QED BY <1>6, <1>7, <1>9, ChangeKeepsIndex

LEMMA RemoveFileKeeps ==
  ASSUME IndexInv, NEW p \in Paths, RemoveFile(p)
  PROVE  IndexInv'
<1>1. /\ writer.path # p /\ files' = Without(files, p)
      /\ still' = FALSE /\ born' = born /\ writer' = writer
      /\ rows' = rows /\ marks' = marks /\ repair' = repair
  BY DEF RemoveFile
<1>2. /\ DOMAIN files' = DOMAIN files \ {p}
      /\ \A q \in DOMAIN files' : files'[q] = files[q]
  BY <1>1 DEF Without
<1>3. FilesInv'
  BY <1>1, <1>2 DEF IndexInv, FilesInv
<1>4. WriterInv'
  BY <1>1, <1>2 DEF IndexInv, WriterInv
<1>5. FilesChange
  BY <1>1, <1>2 DEF FilesChange
<1> QED BY <1>3, <1>4, <1>5, ChangeKeepsIndex

LEMMA ReplaceFileKeeps ==
  ASSUME IndexInv, NEW p \in Paths, ReplaceFile(p)
  PROVE  IndexInv'
<1>1. /\ p \in DOMAIN files /\ writer.path # p
      /\ \A q \in DOMAIN files : files[q].session # Foreign
      /\ files' = With(files, p, File(Foreign, files[p].stamp + 1))
      /\ still' = FALSE /\ born' = born /\ writer' = writer
      /\ rows' = rows /\ marks' = marks /\ repair' = repair
  BY DEF ReplaceFile, Touched
<1>2. /\ born \in SUBSET Paths /\ DOMAIN files \subseteq born
      /\ \A q \in DOMAIN files : files[q] \in [session : {q, Foreign}, stamp : Nat]
      /\ \A q, r \in DOMAIN files : files[q].session = files[r].session => q = r
  BY DEF IndexInv, FilesInv
<1>3. /\ DOMAIN files' = DOMAIN files /\ files'[p] = File(Foreign, files[p].stamp + 1)
      /\ \A q \in DOMAIN files : q # p => files'[q] = files[q]
  BY <1>1, <1>2 DEF With
<1>4. /\ files'[p].session = Foreign
      /\ File(Foreign, files[p].stamp + 1) \in [session : {p, Foreign}, stamp : Nat]
      /\ files[p].stamp < files'[p].stamp
  BY <1>1, <1>2, <1>3 DEF File
<1>5. \A q, r \in DOMAIN files' : files'[q].session = files'[r].session => q = r
  BY <1>1, <1>2, <1>3, <1>4
<1>6. FilesInv'
  BY <1>1, <1>2, <1>3, <1>4, <1>5 DEF FilesInv
<1>7. WriterInv'
  BY <1>1, <1>3 DEF IndexInv, WriterInv
<1>8. FilesChange
  BY <1>1, <1>3, <1>4 DEF FilesChange
<1> QED BY <1>6, <1>7, <1>8, ChangeKeepsIndex

-----------------------------------------------------------------------------
(* The writer's row, and what ends a repair *)

LEMMA UpsertOwnRowKeeps ==
  ASSUME IndexInv, UpsertOwnRow
  PROVE  IndexInv'
<1> DEFINE w == writer.path
<1>1. /\ writer.step = "written" /\ rows' = With(rows, w, Mark(w, files[w].stamp))
      /\ writer' = [path |-> NoPath, step |-> "idle"]
      /\ files' = files /\ born' = born /\ marks' = marks /\ repair' = repair /\ still' = still
  BY DEF UpsertOwnRow
<1>2. w \in DOMAIN files /\ files[w].session = w
  BY <1>1 DEF IndexInv, WriterInv
<1>3. /\ w \in born /\ w \in Paths /\ w # Foreign /\ files[w].stamp \in Nat
      /\ \A q \in DOMAIN files : files[q].session = w => q = w
  BY <1>2, IndexConstantsOK DEF IndexInv, FilesInv
<1>4. /\ DOMAIN rows' = DOMAIN rows \cup {w} /\ rows'[w] = Mark(w, files[w].stamp)
      /\ \A s \in DOMAIN rows : s # w => rows'[s] = rows[s]
  BY <1>1 DEF With
<1>5. rows'[w].path = w /\ rows'[w] \in [path : born, stamp : Nat]
  BY <1>3, <1>4 DEF Mark
<1> HIDE DEF w
<1>6. FilesInv' /\ (repair.pc \in Planned \cup {"idle", "load"})'
  BY <1>1 DEF IndexInv, FilesInv
<1>7. WriterInv'
  BY <1>1 DEF WriterInv
<1>8. RowsInv'
  BY <1>1, <1>3, <1>4, <1>5 DEF IndexInv, RowsInv, Sessions
<1>9. MarksInv'
  <2>1. MarksHaveRows'
    BY <1>1, <1>4 DEF IndexInv, MarksInv, MarksHaveRows
  <2>2. MarkedRowIsFresh'
    <3> SUFFICES ASSUME NEW s \in DOMAIN marks, marks[s].path \in DOMAIN files,
                        files[marks[s].path] = File(s, marks[s].stamp)
                 PROVE  s \in DOMAIN rows' /\ rows'[s] = marks[s]
      BY <1>1 DEF MarkedRowIsFresh
    <3>1. s \in DOMAIN rows /\ rows[s] = marks[s]
      BY DEF IndexInv, MarksInv, MarkedRowIsFresh
    <3>2. CASE s # w
      BY <3>1, <3>2, <1>4
    <3>3. CASE s = w
      <4>1. marks[w].path = w /\ marks[w] \in [path : born, stamp : Nat]
        BY <3>3, <1>3 DEF IndexInv, MarksInv
      <4>2. files[w].stamp = marks[w].stamp
        BY <4>1, <3>3 DEF File
      <4>3. marks[w] = Mark(w, files[w].stamp)
        BY <4>1, <4>2 DEF Mark
      <4> QED BY <3>3, <4>3, <1>4
    <3> QED BY <3>2, <3>3
  <2> QED BY <2>1, <2>2, <1>1 DEF IndexInv, MarksInv
<1>10. FoundInv'
  BY <1>1 DEF IndexInv, FoundInv
<1>11. PlanInv'
  <2> SUFFICES ASSUME repair.pc \in Planned
               PROVE  PlanInv'
    BY <1>1 DEF PlanInv
  <2>1. ASSUME still, NEW q \in DOMAIN files, q \notin repair.todo
        PROVE  Listed(q)'
    <3>1. Listed(q)
      BY <2>1 DEF IndexInv, PlanInv
    <3>2. CASE files[q].session = w
      <4>1. q = w
        BY <3>2, <1>3
      <4> QED BY <4>1, <3>2, <1>1, <1>4 DEF Listed
    <3>3. CASE files[q].session # w
      BY <3>1, <3>3, <1>1, <1>4 DEF Listed
    <3> QED BY <3>2, <3>3
  <2>2. ASSUME still, NEW s \in DOMAIN rows'
        PROVE  rows'[s].path \in DOMAIN files \/ s \in repair.stale
    BY <2>2, <1>2, <1>4, <1>5 DEF IndexInv, PlanInv
  <2>3. ASSUME still, NEW s \in repair.stale
        PROVE  s \in DOMAIN rows' /\ rows'[s].path \notin DOMAIN files
    <3>1. s \in DOMAIN rows /\ rows[s].path \notin DOMAIN files
      BY <2>3 DEF IndexInv, PlanInv
    <3>2. s # w
      BY <3>1, <1>2, <1>3 DEF IndexInv, RowsInv
    <3> QED BY <3>1, <3>2, <1>4
  <2> QED BY <2>1, <2>2, <2>3, <1>1 DEF IndexInv, PlanInv
<1>12. ReadInv'
  <2> DEFINE p == First(repair.todo)
             owner == repair.read.session
  <2> SUFFICES ASSUME repair.pc \in Reading
               PROVE  ReadInv'
    BY <1>1 DEF ReadInv
  <2>1. ASSUME repair.pc = "mark"
        PROVE  /\ owner \in DOMAIN rows'
               /\ p \in DOMAIN files /\ files[p] = File(owner, repair.found[p].stamp)
                   => rows'[owner] = Mark(p, repair.found[p].stamp)
    <3>1. /\ owner \in DOMAIN rows
          /\ p \in DOMAIN files /\ files[p] = File(owner, repair.found[p].stamp)
                => rows[owner] = Mark(p, repair.found[p].stamp)
      BY <2>1 DEF IndexInv, ReadInv
    <3>2. ASSUME owner = w, p \in DOMAIN files, files[p] = File(owner, repair.found[p].stamp)
          PROVE  rows'[owner] = Mark(p, repair.found[p].stamp)
      <4>1. files[p].session = w /\ files[p].stamp = repair.found[p].stamp
        BY <3>2 DEF File
      <4>2. p = w
        BY <4>1, <3>2, <1>3
      <4> QED BY <4>1, <4>2, <3>2, <1>4
    <3> QED BY <3>1, <3>2, <1>4
  <2> HIDE DEF p, owner
  <2> QED BY <2>1, <1>1 DEF IndexInv, ReadInv, p, owner
<1> QED BY <1>6, <1>7, <1>8, <1>9, <1>10, <1>11, <1>12 DEF IndexInv

LEMMA IdleKeeps ==
  ASSUME IndexInv, repair' = Idle, WriterInv',
         UNCHANGED <<files, born, rows, marks, still>>
  PROVE  IndexInv'
<1>1. repair'.pc = "idle"
  BY IdleIs
<1>2. FilesInv' /\ RowsInv'
  BY DEF IndexInv, FilesInv, RowsInv
<1>3. MarksInv'
  BY DEF IndexInv, MarksInv, MarksHaveRows, MarkedRowIsFresh
<1>4. FoundInv' /\ PlanInv' /\ ReadInv'
  BY <1>1 DEF FoundInv, PlanInv, ReadInv, Planned, Reading
<1> QED BY <1>1, <1>2, <1>3, <1>4 DEF IndexInv

LEMMA WriterStops ==
  ASSUME writer' = [path |-> NoPath, step |-> "idle"]
  PROVE  WriterInv'
BY DEF WriterInv

LEMMA UpsertOwnRowFailsKeeps ==
  ASSUME IndexInv, UpsertOwnRowFails
  PROVE  IndexInv'
<1>1. WriterInv'
  BY WriterStops DEF UpsertOwnRowFails
<1>2. files' = files /\ born' = born /\ rows' = rows /\ marks' = marks /\ repair' = repair /\ still' = still
  BY DEF UpsertOwnRowFails
<1>3. FilesInv' /\ RowsInv' /\ FoundInv' /\ ReadInv'
  BY <1>2 DEF IndexInv, FilesInv, RowsInv, FoundInv, ReadInv
<1>4. MarksInv' /\ PlanInv'
  BY <1>2 DEF IndexInv, MarksInv, MarksHaveRows, MarkedRowIsFresh, PlanInv, Listed
<1> QED BY <1>1, <1>2, <1>3, <1>4 DEF IndexInv

LEMMA CrashKeeps ==
  ASSUME IndexInv, Crash
  PROVE  IndexInv'
<1>1. WriterInv'
  BY WriterStops DEF Crash
<1> QED BY <1>1, IdleKeeps DEF Crash

LEMMA ListRowsKeeps ==
  ASSUME IndexInv, ListRows
  PROVE  IndexInv'
<1>1. WriterInv'
  BY DEF ListRows, IndexInv, WriterInv
<1> QED BY <1>1, IdleKeeps DEF ListRows

-----------------------------------------------------------------------------
(* The steps of the repair *)

LEMMA RepairLeavesFiles ==
  ASSUME IndexInv, UNCHANGED <<files, born, writer>>
  PROVE  FilesInv' /\ WriterInv'
BY DEF IndexInv, FilesInv, WriterInv

LEMMA CollectFilesKeeps ==
  ASSUME IndexInv, CollectFiles
  PROVE  IndexInv'
<1>1. /\ repair' = [Idle EXCEPT !.pc = "load", !.found = files] /\ still' = TRUE
      /\ UNCHANGED <<files, born, rows, marks, writer>>
  BY DEF CollectFiles, Begin
<1>2. /\ IsRepair(repair') /\ repair'.pc = "load" /\ repair'.found = files
      /\ repair'.read = File(Foreign, 0)
  BY <1>1 DEF Idle, IsRepair
<1>3. FilesInv' /\ WriterInv'
  BY <1>1, RepairLeavesFiles
<1>4. RowsInv'
  BY <1>1 DEF IndexInv, RowsInv
<1>5. MarksInv'
  BY <1>1 DEF IndexInv, MarksInv, MarksHaveRows, MarkedRowIsFresh
<1>6. FoundInv'
  <2>1. File(Foreign, 0) \in [session : Sessions, stamp : Nat]
    BY DEF File, Sessions
  <2>2. DOMAIN files \subseteq born /\ \A p \in DOMAIN files : files[p].stamp \in Nat
    BY DEF IndexInv, FilesInv
  <2>3. \A s \in DOMAIN marks : marks[s].path \in DOMAIN files => marks[s].stamp <= files[marks[s].path].stamp
    BY DEF IndexInv, MarksInv
  <2> QED BY <1>1, <1>2, <2>1, <2>2, <2>3 DEF FoundInv, Sessions
<1>7. PlanInv' /\ ReadInv'
  BY <1>2 DEF PlanInv, ReadInv, Planned, Reading
<1> QED BY <1>2, <1>3, <1>4, <1>5, <1>6, <1>7 DEF IndexInv

LEMMA LoseIndexKeeps ==
  ASSUME IndexInv, LoseIndex
  PROVE  IndexInv'
<1> DEFINE r == [Idle EXCEPT !.found = files, !.todo = DOMAIN files]
<1>1. /\ repair' = NextStep(r) /\ still' = TRUE /\ rows' = NoFiles /\ marks' = NoFiles
      /\ UNCHANGED <<files, born, writer>>
  BY DEF LoseIndex
<1>2. /\ IsRepair(r) /\ r.found = files /\ r.todo = DOMAIN files /\ r.stale = {}
      /\ r.read = File(Foreign, 0) /\ DOMAIN r.known = {}
  <2> DEFINE nothing == [p \in {} |-> Foreign]
             all == DOMAIN files
  <2>1. DOMAIN nothing = {}
    OBVIOUS
  <2> HIDE DEF nothing, all
  <2>2. Idle = [pc |-> "idle", found |-> NoFiles, stale |-> {}, todo |-> {}, known |-> nothing,
                read |-> File(Foreign, 0)]
    BY DEF Idle, nothing
  <2>3. [Idle EXCEPT !.found = files]
          = [pc |-> "idle", found |-> files, stale |-> {}, todo |-> {}, known |-> nothing,
             read |-> File(Foreign, 0)]
    BY <2>2
  <2> DEFINE i == [Idle EXCEPT !.found = files]
  <2> HIDE DEF i
  <2>7. i = [pc |-> "idle", found |-> files, stale |-> {}, todo |-> {}, known |-> nothing,
             read |-> File(Foreign, 0)]
    BY <2>3 DEF i
  <2>4. [i EXCEPT !.todo = all]
          = [pc |-> "idle", found |-> files, stale |-> {}, todo |-> all, known |-> nothing,
             read |-> File(Foreign, 0)]
    BY <2>7
  <2>5. r = [i EXCEPT !.todo = all]
    BY Zenon DEF all, i
  <2> HIDE DEF r
  <2>6. r = [pc |-> "idle", found |-> files, stale |-> {}, todo |-> all, known |-> nothing,
             read |-> File(Foreign, 0)]
    BY <2>4, <2>5
  <2> QED BY <2>1, <2>6 DEF IsRepair, all
<1> HIDE DEF r
<1>3. /\ IsRepair(repair') /\ repair'.pc \in {"unmark", "extract", "list"}
      /\ repair'.pc = "extract" => repair'.todo # {}
      /\ repair'.pc = "list" => repair'.todo = {}
      /\ repair'.found = files /\ repair'.todo = DOMAIN files /\ repair'.stale = {}
      /\ repair'.read = File(Foreign, 0) /\ DOMAIN repair'.known = {}
  BY <1>1, <1>2, NextStepIs
<1>4. DOMAIN NoFiles = {}
  BY DEF NoFiles
<1>5. FilesInv' /\ WriterInv'
  BY <1>1, RepairLeavesFiles
<1>6. RowsInv'
  BY <1>1, <1>4 DEF RowsInv
<1>7. MarksInv'
  BY <1>1, <1>4 DEF MarksInv, MarksHaveRows, MarkedRowIsFresh
<1>8. FoundInv'
  <2>1. File(Foreign, 0) \in [session : Sessions, stamp : Nat]
    BY DEF File, Sessions
  <2>2. DOMAIN files \subseteq born /\ \A p \in DOMAIN files : files[p].stamp \in Nat
    BY DEF IndexInv, FilesInv
  <2> QED BY <1>1, <1>3, <1>4, <2>1, <2>2 DEF FoundInv, Sessions
<1>9. PlanInv'
  BY <1>1, <1>3, <1>4 DEF PlanInv, Planned, Reading
<1>10. ReadInv'
  BY <1>3 DEF ReadInv, Reading
<1>11. (repair.pc \in Planned \cup {"idle", "load"})'
  BY <1>3 DEF Planned
<1> QED BY <1>5, <1>6, <1>7, <1>8, <1>9, <1>10, <1>11 DEF IndexInv

LEMMA LoadAndPlanKeeps ==
  ASSUME IndexInv, LoadAndPlan
  PROVE  IndexInv'
<1>1. UNCHANGED <<files, born, rows, marks, writer, still>> /\ repair.pc = "load"
  BY DEF LoadAndPlan
<1>2. IsRepair(repair) /\ repair.pc # "idle"
  BY <1>1 DEF IndexInv, FoundInv
<1>3. PICK known \in Indexed :
        repair' = NextStep([repair EXCEPT
          !.stale = {s \in DOMAIN rows : rows[s].path \notin DOMAIN repair.found},
          !.todo = {p \in DOMAIN repair.found : ~IsFresh(p, known)},
          !.known = known])
  BY DEF LoadAndPlan
<1> DEFINE stale == {s \in DOMAIN rows : rows[s].path \notin DOMAIN repair.found}
           todo == {p \in DOMAIN repair.found : ~IsFresh(p, known)}
           r == [repair EXCEPT !.stale = stale, !.todo = todo, !.known = known]
<1>4. repair' = NextStep(r)
  BY <1>3
<1> HIDE DEF stale, todo
<1>5. /\ IsRepair(r) /\ r.found = repair.found /\ r.todo = todo /\ r.stale = stale
      /\ r.known = known /\ r.read = repair.read
  <2> DEFINE s1 == [repair EXCEPT !.stale = stale]
             s2 == [s1 EXCEPT !.todo = todo]
             s3 == [s2 EXCEPT !.known = known]
  <2>1. r = s3
    BY Zenon
  <2>2. IsRepair(s1) /\ s1.found = repair.found /\ s1.stale = stale /\ s1.read = repair.read
    BY <1>2 DEF IsRepair
  <2> HIDE DEF s1
  <2>3. /\ IsRepair(s2) /\ s2.found = s1.found /\ s2.stale = s1.stale /\ s2.todo = todo
        /\ s2.read = s1.read
    BY <2>2 DEF IsRepair
  <2> HIDE DEF s2
  <2>4. /\ IsRepair(s3) /\ s3.found = s2.found /\ s3.stale = s2.stale /\ s3.todo = s2.todo
        /\ s3.known = known /\ s3.read = s2.read
    BY <2>3 DEF IsRepair
  <2> HIDE DEF s3, r
  <2> QED BY <2>1, <2>2, <2>3, <2>4
<1> HIDE DEF r
<1>6. /\ IsRepair(repair') /\ repair'.pc \in {"unmark", "extract", "list"}
      /\ repair'.pc = "extract" => todo # {} /\ stale = {}
      /\ repair'.pc = "list" => todo = {} /\ stale = {}
      /\ repair'.found = repair.found /\ repair'.todo = todo /\ repair'.stale = stale
      /\ repair'.known = known /\ repair'.read = repair.read
  BY <1>4, <1>5, NextStepIs
<1>7. FilesInv' /\ WriterInv'
  BY <1>1, RepairLeavesFiles
<1>8. RowsInv'
  BY <1>1 DEF IndexInv, RowsInv
<1>9. MarksInv'
  BY <1>1 DEF IndexInv, MarksInv, MarksHaveRows, MarkedRowIsFresh
<1>10. FoundInv'
  BY <1>1, <1>2, <1>6 DEF IndexInv, FoundInv
<1>11. ReadInv'
  BY <1>6 DEF ReadInv, Reading
<1>12. (repair.pc \in Planned \cup {"idle", "load"})'
  BY <1>6 DEF Planned
<1>13. ASSUME NEW p \in DOMAIN known
       PROVE  known[p] \in DOMAIN rows /\ rows[known[p]].path = p /\ known[p] \in {p, Foreign}
  <2>1. known[p] \in DOMAIN rows /\ rows[known[p]].path = p
    BY <1>13 DEF Indexed
  <2>2. known[p] \in Sessions /\ (known[p] \in Paths => rows[known[p]].path = known[p])
    BY <2>1 DEF IndexInv, RowsInv
  <2> QED BY <2>1, <2>2 DEF Sessions
<1>14. ASSUME still, NEW p \in DOMAIN files, p \notin todo
       PROVE  Listed(p)
  <2> DEFINE s == known[p]
  <2>1. repair.found = files
    BY <1>2, <1>14 DEF IndexInv, FoundInv
  <2>2. p \in DOMAIN known /\ s \in DOMAIN marks /\ marks[s].stamp = files[p].stamp
    BY <2>1, <1>14 DEF todo, IsFresh
  <2>3. s \in DOMAIN rows /\ rows[s].path = p /\ s \in {p, Foreign}
    BY <1>13, <2>2
  <2>4. p \in Paths /\ files[p] \in [session : {p, Foreign}, stamp : Nat]
    BY <1>14 DEF IndexInv, FilesInv
  <2>5. CASE s = p
    <3>1. marks[s] \in [path : born, stamp : Nat] /\ marks[s].path = p
      BY <2>2, <2>4, <2>5 DEF IndexInv, MarksInv
    <3>2. files[p].session = s
      BY <3>1, <2>2, <1>14 DEF IndexInv, MarksInv
    <3>3. files[p] = File(s, marks[s].stamp)
      BY <2>2, <2>4, <3>2 DEF File
    <3>4. rows[s] = marks[s]
      BY <2>2, <3>1, <3>3, <1>14 DEF IndexInv, MarksInv, MarkedRowIsFresh
    <3>5. marks[s] = Mark(p, files[p].stamp)
      BY <2>2, <3>1 DEF Mark
    <3> QED BY <2>3, <3>2, <3>4, <3>5 DEF Listed
  <2>6. CASE s = Foreign
    <3>1. files[p] = File(Foreign, rows[Foreign].stamp) /\ rows[Foreign] \in [path : born, stamp : Nat]
      BY <2>3, <2>6, <1>14 DEF IndexInv, RowsInv
    <3>2. files[p].session = Foreign /\ files[p].stamp = rows[Foreign].stamp
      BY <3>1 DEF File
    <3>3. rows[Foreign] = Mark(p, files[p].stamp)
      BY <2>3, <2>6, <3>1, <3>2 DEF Mark
    <3> QED BY <2>3, <2>6, <3>2, <3>3 DEF Listed
  <2> QED BY <2>3, <2>5, <2>6
<1>15. ASSUME still, NEW p \in DOMAIN known, known[p] = Foreign, p \in DOMAIN files
       PROVE  files[p].session = Foreign
  <2>1. Foreign \in DOMAIN rows /\ rows[Foreign].path = p
    BY <1>13, <1>15
  <2>2. files[p] = File(Foreign, rows[Foreign].stamp)
    BY <2>1, <1>15 DEF IndexInv, RowsInv
  <2> QED BY <2>2 DEF File
<1>16. PlanInv'
  <2>1. todo \subseteq DOMAIN repair.found /\ stale \subseteq DOMAIN rows
    BY DEF todo, stale
  <2>2. stale \subseteq Sessions
    BY <2>1 DEF IndexInv, RowsInv, Sessions
  <2>3. still => repair.found = files
    BY <1>2 DEF IndexInv, FoundInv
  <2>4. still => /\ \A s \in DOMAIN rows : rows[s].path \in DOMAIN files \/ s \in stale
                 /\ \A s \in stale : s \in DOMAIN rows /\ rows[s].path \notin DOMAIN files
    BY <2>3 DEF stale
  <2>5. \A p \in DOMAIN files : still /\ p \notin todo => Listed(p)'
    BY <1>1, <1>14 DEF Listed
  <2> QED BY <1>1, <1>6, <1>13, <1>15, <2>1, <2>2, <2>4, <2>5 DEF PlanInv, Reading, Planned, Sessions
<1> QED BY <1>7, <1>8, <1>9, <1>10, <1>11, <1>12, <1>16 DEF IndexInv

LEMMA DeleteMarkKeeps ==
  ASSUME IndexInv, DeleteMark
  PROVE  IndexInv'
<1>1. PICK s \in repair.stale :
        /\ marks' = Without(marks, s)
        /\ repair' = [repair EXCEPT !.pc = "unlist", !.stale = {s} \cup @, !.read.session = s]
  BY DEF DeleteMark
<1>2. repair.pc = "unmark" /\ UNCHANGED <<files, born, rows, writer, still>>
  BY DEF DeleteMark
<1>3. /\ IsRepair(repair) /\ repair.read \in [session : Sessions, stamp : Nat]
      /\ s \in Sessions /\ repair.stale = {s} \cup repair.stale
  BY <1>1, <1>2 DEF IndexInv, FoundInv, PlanInv, Planned
<1>4. /\ IsRepair(repair') /\ repair'.pc = "unlist" /\ repair'.found = repair.found
      /\ repair'.stale = repair.stale /\ repair'.todo = repair.todo /\ repair'.known = repair.known
      /\ repair'.read.session = s /\ repair'.read \in [session : Sessions, stamp : Nat]
  <2> DEFINE s1 == [repair EXCEPT !.pc = "unlist"]
             s2 == [s1 EXCEPT !.stale = {s} \cup @]
             s3 == [s2 EXCEPT !.read.session = s]
  <2>1. repair' = s3
    BY <1>1, Zenon
  <2>2. /\ IsRepair(s1) /\ s1.pc = "unlist" /\ s1.found = repair.found /\ s1.stale = repair.stale
        /\ s1.todo = repair.todo /\ s1.known = repair.known /\ s1.read = repair.read
    BY <1>3 DEF IsRepair
  <2> HIDE DEF s1
  <2>3. /\ IsRepair(s2) /\ s2.pc = s1.pc /\ s2.found = s1.found /\ s2.stale = repair.stale
        /\ s2.todo = s1.todo /\ s2.known = s1.known /\ s2.read = s1.read
    BY <1>3, <2>2 DEF IsRepair
  <2> HIDE DEF s2
  <2>4. /\ IsRepair(s3) /\ s3.pc = s2.pc /\ s3.found = s2.found /\ s3.stale = s2.stale
        /\ s3.todo = s2.todo /\ s3.known = s2.known /\ s3.read = [s2.read EXCEPT !.session = s]
    BY <2>3 DEF IsRepair
  <2> HIDE DEF s3
  <2>5. repair'.read = [repair.read EXCEPT !.session = s]
    BY <2>1, <2>2, <2>3, <2>4
  <2>6. repair'.read.session = s /\ repair'.read \in [session : Sessions, stamp : Nat]
    BY <2>5, <1>3
  <2> QED BY <2>1, <2>2, <2>3, <2>4, <2>6
<1>5. /\ DOMAIN marks' = DOMAIN marks \ {s}
      /\ \A x \in DOMAIN marks' : x \in DOMAIN marks /\ marks'[x] = marks[x]
  BY <1>1 DEF Without
<1>6. FilesInv' /\ WriterInv'
  BY <1>2, RepairLeavesFiles
<1>7. RowsInv'
  BY <1>2 DEF IndexInv, RowsInv
<1>8. MarksInv'
  <2>1. MarksHaveRows' /\ MarkedRowIsFresh'
    BY <1>2, <1>5 DEF IndexInv, MarksInv, MarksHaveRows, MarkedRowIsFresh
  <2> QED BY <2>1, <1>2, <1>5 DEF IndexInv, MarksInv
<1>9. FoundInv'
  BY <1>2, <1>4, <1>5 DEF IndexInv, FoundInv
<1>10. PlanInv'
  BY <1>1, <1>2, <1>4, <1>5 DEF IndexInv, PlanInv, Planned, Reading, Listed
<1>11. ReadInv' /\ (repair.pc \in Planned \cup {"idle", "load"})'
  BY <1>4 DEF ReadInv, Reading, Planned
<1> QED BY <1>6, <1>7, <1>8, <1>9, <1>10, <1>11 DEF IndexInv

LEMMA DeleteRowKeeps ==
  ASSUME IndexInv, DeleteRow
  PROVE  IndexInv'
<1> DEFINE x == repair.read.session
           r == [repair EXCEPT !.stale = @ \ {x}]
<1>1. /\ repair.pc = "unlist" /\ rows' = Without(rows, x) /\ repair' = NextStep(r)
      /\ UNCHANGED <<files, born, marks, writer, still>>
  BY DEF DeleteRow
<1>2. /\ IsRepair(repair) /\ x \in repair.stale /\ x \notin DOMAIN marks
  BY <1>1 DEF IndexInv, FoundInv, PlanInv, Planned
<1>3. /\ IsRepair(r) /\ r.found = repair.found /\ r.stale = repair.stale \ {x}
      /\ r.todo = repair.todo /\ r.known = repair.known /\ r.read = repair.read
  BY <1>2 DEF IsRepair
<1> HIDE DEF r
<1>4. /\ IsRepair(repair') /\ repair'.pc \in {"unmark", "extract", "list"}
      /\ repair'.pc = "extract" => repair'.todo # {} /\ repair'.stale = {}
      /\ repair'.pc = "list" => repair'.todo = {} /\ repair'.stale = {}
      /\ repair'.found = repair.found /\ repair'.stale = repair.stale \ {x}
      /\ repair'.todo = repair.todo /\ repair'.known = repair.known /\ repair'.read = repair.read
  BY <1>1, <1>3, NextStepIs
<1>5. /\ DOMAIN rows' = DOMAIN rows \ {x}
      /\ \A s \in DOMAIN rows' : s \in DOMAIN rows /\ rows'[s] = rows[s]
  BY <1>1 DEF Without
<1>6. FilesInv' /\ WriterInv'
  BY <1>1, RepairLeavesFiles
<1>7. RowsInv'
  BY <1>1, <1>5 DEF IndexInv, RowsInv
<1>8. MarksInv'
  <2>1. MarksHaveRows' /\ MarkedRowIsFresh'
    BY <1>1, <1>2, <1>5 DEF IndexInv, MarksInv, MarksHaveRows, MarkedRowIsFresh
  <2> QED BY <2>1, <1>1 DEF IndexInv, MarksInv
<1>9. FoundInv'
  BY <1>1, <1>4 DEF IndexInv, FoundInv
<1>10. PlanInv'
  <2>1. ASSUME still, NEW q \in DOMAIN files, q \notin repair.todo
        PROVE  Listed(q)'
    <3>1. Listed(q)
      BY <1>1, <2>1 DEF IndexInv, PlanInv, Planned
    <3>2. files[q].session # x
      <4>1. rows[x].path \notin DOMAIN files
        BY <1>1, <1>2, <2>1 DEF IndexInv, PlanInv, Planned
      <4> QED BY <4>1, <3>1, <2>1 DEF Listed, Mark
    <3> QED BY <3>1, <3>2, <1>1, <1>5 DEF Listed
  <2>2. still => /\ \A s \in DOMAIN rows' : rows'[s].path \in DOMAIN files \/ s \in repair.stale \ {x}
                 /\ \A s \in repair.stale \ {x} : s \in DOMAIN rows' /\ rows'[s].path \notin DOMAIN files
    BY <1>1, <1>5 DEF IndexInv, PlanInv, Planned
  <2> QED BY <2>1, <2>2, <1>1, <1>4 DEF IndexInv, PlanInv, Planned, Reading
<1>11. ReadInv' /\ (repair.pc \in Planned \cup {"idle", "load"})'
  BY <1>4 DEF ReadInv, Reading, Planned
<1> QED BY <1>6, <1>7, <1>8, <1>9, <1>10, <1>11 DEF IndexInv

LEMMA ExtractKeeps ==
  ASSUME IndexInv, Extract
  PROVE  IndexInv'
<1> DEFINE p == First(repair.todo)
<1>1. repair.pc = "extract" /\ UNCHANGED <<files, born, rows, marks, writer, still>>
  BY DEF Extract
<1>2. FilesInv' /\ WriterInv'
  BY <1>1, RepairLeavesFiles
<1>3. CASE repair' = Idle
  BY <1>1, <1>2, <1>3, IdleKeeps
<1>4. CASE p \in DOMAIN files /\ repair' = [repair EXCEPT !.pc = "forget", !.read = files[p]]
  <2>1. IsRepair(repair) /\ p \in DOMAIN repair.found
    BY <1>1, TodoIsFound DEF IndexInv, FoundInv
  <2>2. files[p] \in [session : {p, Foreign}, stamp : Nat] /\ p \in Paths
    BY <1>4 DEF IndexInv, FilesInv
  <2>3. /\ IsRepair(repair') /\ repair'.pc = "forget" /\ repair'.found = repair.found
        /\ repair'.stale = repair.stale /\ repair'.todo = repair.todo
        /\ repair'.known = repair.known /\ repair'.read = files[p]
    <3> DEFINE s1 == [repair EXCEPT !.pc = "forget"]
               s2 == [s1 EXCEPT !.read = files[p]]
    <3>1. repair' = s2
      BY <1>4, Zenon
    <3>2. /\ IsRepair(s1) /\ s1.pc = "forget" /\ s1.found = repair.found /\ s1.stale = repair.stale
          /\ s1.todo = repair.todo /\ s1.known = repair.known
      BY <2>1 DEF IsRepair
    <3> HIDE DEF s1, p
    <3>3. /\ IsRepair(s2) /\ s2.pc = s1.pc /\ s2.found = s1.found /\ s2.stale = s1.stale
          /\ s2.todo = s1.todo /\ s2.known = s1.known /\ s2.read = files[p]
      BY <3>2 DEF IsRepair
    <3> HIDE DEF s2
    <3> QED BY <3>1, <3>2, <3>3
  <2>4. RowsInv'
    BY <1>1 DEF IndexInv, RowsInv
  <2>5. MarksInv'
    BY <1>1 DEF IndexInv, MarksInv, MarksHaveRows, MarkedRowIsFresh
  <2>6. FoundInv'
    <3>1. files[p] \in [session : Sessions, stamp : Nat]
      BY <2>2 DEF Sessions
    <3> QED BY <1>1, <2>3, <3>1 DEF IndexInv, FoundInv
  <2>7. PlanInv'
    BY <1>1, <2>3 DEF IndexInv, PlanInv, Planned, Reading, Listed
  <2>8. repair.found[p].stamp <= files[p].stamp
    BY <1>1, <1>4, <2>1 DEF IndexInv, FoundInv
  <2>9. \A q \in DOMAIN files : files[q].session = files[p].session => q = p
    BY <1>4 DEF IndexInv, FilesInv
  <2>10. ReadInv'
    <3>1. First(repair'.todo) = p
      BY <2>3
    <3> HIDE DEF p
    <3> QED BY <1>1, <1>4, <2>2, <2>3, <2>8, <2>9, <3>1 DEF ReadInv
  <2>11. (repair.pc \in Planned \cup {"idle", "load"})'
    BY <2>3 DEF Planned
  <2> QED BY <1>2, <2>4, <2>5, <2>6, <2>7, <2>10, <2>11 DEF IndexInv
<1> QED BY <1>3, <1>4 DEF Extract

LEMMA ForgetReplacedKeeps ==
  ASSUME IndexInv, ForgetReplaced
  PROVE  IndexInv'
<1> DEFINE p == First(repair.todo)
           other == IF p \in DOMAIN repair.known THEN {repair.known[p]} \ {repair.read.session}
                    ELSE {}
<1>1. /\ repair.pc = "forget" /\ repair' = [repair EXCEPT !.pc = "row"]
      /\ rows' = [s \in DOMAIN rows \ other |-> rows[s]]
      /\ marks' = [s \in DOMAIN marks \ other |-> marks[s]]
      /\ UNCHANGED <<files, born, writer, still>>
  BY DEF ForgetReplaced
<1>2. /\ IsRepair(repair) /\ p \in repair.todo /\ p \in Paths
      /\ repair.todo # {} /\ repair.stale = {}
  BY <1>1, TodoIsFound DEF IndexInv, FoundInv, PlanInv, Planned, Reading
<1>3. /\ IsRepair(repair') /\ repair'.pc = "row" /\ repair'.found = repair.found
      /\ repair'.stale = repair.stale /\ repair'.todo = repair.todo
      /\ repair'.known = repair.known /\ repair'.read = repair.read
  BY <1>1, <1>2 DEF IsRepair
<1>4. still => p \in DOMAIN files /\ files[p] = repair.read
  BY <1>1 DEF IndexInv, ReadInv, Reading
<1>5. \A s \in other : p \in DOMAIN repair.known /\ s = repair.known[p] /\ s # repair.read.session
  OBVIOUS
<1> HIDE DEF other
<1>6. /\ DOMAIN rows' = DOMAIN rows \ other /\ DOMAIN marks' = DOMAIN marks \ other
      /\ \A s \in DOMAIN rows' : s \in DOMAIN rows /\ rows'[s] = rows[s]
      /\ \A s \in DOMAIN marks' : s \in DOMAIN marks /\ marks'[s] = marks[s]
  BY <1>1
<1>7. FilesInv' /\ WriterInv'
  BY <1>1, RepairLeavesFiles
<1>8. RowsInv'
  BY <1>1, <1>6 DEF IndexInv, RowsInv
<1>9. MarksInv'
  <2>1. MarksHaveRows' /\ MarkedRowIsFresh'
    BY <1>1, <1>6 DEF IndexInv, MarksInv, MarksHaveRows, MarkedRowIsFresh
  <2> QED BY <2>1, <1>1, <1>6 DEF IndexInv, MarksInv
<1>10. FoundInv'
  BY <1>1, <1>3, <1>6 DEF IndexInv, FoundInv
<1>11. ASSUME still, NEW q \in DOMAIN files, q \notin repair.todo
       PROVE  Listed(q)'
  <2>1. Listed(q)
    BY <1>1, <1>11 DEF IndexInv, PlanInv, Planned
  <2>2. files[q].session \notin other
    <3> SUFFICES ASSUME files[q].session \in other PROVE FALSE
      OBVIOUS
    <3>1. /\ p \in DOMAIN repair.known /\ files[q].session = repair.known[p]
          /\ files[q].session # files[p].session
      BY <1>4, <1>5, <1>11
    <3>2. repair.known[p] \in {p, Foreign}
      BY <1>1, <3>1 DEF IndexInv, PlanInv, Planned
    <3>3. files[q].session \in {q, Foreign}
      BY <1>11 DEF IndexInv, FilesInv
    <3>4. p # Foreign
      BY <1>2, IndexConstantsOK
    <3>5. CASE repair.known[p] = p
      BY <3>1, <3>3, <3>4, <3>5, <1>2, <1>11
    <3>6. CASE repair.known[p] = Foreign
      <4>1. files[p].session = Foreign
        BY <1>1, <1>4, <1>11, <3>1, <3>6 DEF IndexInv, PlanInv, Planned
      <4> QED BY <4>1, <3>1, <3>6
    <3> QED BY <3>2, <3>5, <3>6
  <2> QED BY <2>1, <2>2, <1>1, <1>6 DEF Listed
<1>12. PlanInv'
  BY <1>1, <1>2, <1>3, <1>6, <1>11 DEF IndexInv, PlanInv, Planned, Reading
<1>13. ReadInv'
  BY <1>1, <1>3 DEF IndexInv, ReadInv, Reading
<1>14. (repair.pc \in Planned \cup {"idle", "load"})'
  BY <1>3 DEF Planned
<1> QED BY <1>7, <1>8, <1>9, <1>10, <1>12, <1>13, <1>14 DEF IndexInv

LEMMA UpsertRowKeeps ==
  ASSUME IndexInv, UpsertRow
  PROVE  IndexInv'
<1> DEFINE p == First(repair.todo)
           owner == repair.read.session
           stamp == repair.read.stamp
<1>1. /\ repair.pc = "row" /\ repair' = [repair EXCEPT !.pc = "mark"]
      /\ rows' = With(rows, owner, Mark(p, stamp))
      /\ UNCHANGED <<files, born, marks, writer, still>>
  BY DEF UpsertRow
<1>2. /\ IsRepair(repair) /\ p \in repair.todo /\ p \in Paths /\ p \in born
      /\ p \in DOMAIN repair.found /\ repair.found[p].stamp \in Nat
      /\ repair.read \in [session : Sessions, stamp : Nat]
      /\ repair.todo # {} /\ repair.stale = {}
  BY <1>1, TodoIsFound DEF IndexInv, FoundInv, PlanInv, Planned, Reading
<1>3. /\ IsRepair(repair') /\ repair'.pc = "mark" /\ repair'.found = repair.found
      /\ repair'.stale = repair.stale /\ repair'.todo = repair.todo
      /\ repair'.known = repair.known /\ repair'.read = repair.read
  BY <1>1, <1>2 DEF IsRepair
<1>4. /\ owner \in {p, Foreign} /\ repair.found[p].stamp <= stamp
      /\ p \in DOMAIN files =>
           /\ stamp <= files[p].stamp
           /\ stamp = files[p].stamp \/ owner = Foreign => files[p] = repair.read
      /\ \A q \in DOMAIN files \cap DOMAIN repair.found :
           q # p /\ files[q].session = owner => repair.found[q].stamp < files[q].stamp
      /\ still => p \in DOMAIN files /\ files[p] = repair.read
  BY <1>1 DEF IndexInv, ReadInv, Reading
<1>5. owner \in Sessions /\ stamp \in Nat /\ repair.read = File(owner, stamp)
  BY <1>2 DEF File
<1>6. /\ DOMAIN rows' = DOMAIN rows \cup {owner}
      /\ rows'[owner] = Mark(p, stamp)
      /\ \A s \in DOMAIN rows : s # owner => rows'[s] = rows[s]
  <2> DEFINE row == Mark(p, stamp)
  <2> HIDE DEF row, owner
  <2>1. rows' = With(rows, owner, row)
    BY <1>1 DEF row, owner
  <2>2. /\ DOMAIN rows' = DOMAIN rows \cup {owner} /\ rows'[owner] = row
        /\ \A s \in DOMAIN rows : s # owner => rows'[s] = rows[s]
    BY <2>1 DEF With
  <2> QED BY <2>2 DEF row
<1>7. rows'[owner].path = p /\ rows'[owner].stamp = stamp /\ rows'[owner] \in [path : born, stamp : Nat]
  BY <1>2, <1>5, <1>6 DEF Mark
<1>8. \A q \in DOMAIN files : files[q] \in [session : {q, Foreign}, stamp : Nat]
  BY DEF IndexInv, FilesInv
<1> HIDE DEF p, owner, stamp
<1>9. FilesInv' /\ WriterInv'
  BY <1>1, RepairLeavesFiles
<1>10. RowsInv'
  <2>1. ASSUME NEW s \in DOMAIN rows'
        PROVE  /\ s \in Sessions /\ rows'[s] \in [path : born, stamp : Nat]
               /\ s \in Paths => rows'[s].path = s
    <3>1. CASE s = owner
      BY <3>1, <1>4, <1>5, <1>7, IndexConstantsOK
    <3>2. CASE s # owner
      BY <3>2, <1>6 DEF IndexInv, RowsInv
    <3> QED BY <3>1, <3>2
  <2>2. ASSUME Foreign \in DOMAIN rows', rows'[Foreign].path \in DOMAIN files
        PROVE  files[rows'[Foreign].path] = File(Foreign, rows'[Foreign].stamp)
    <3>1. CASE Foreign = owner
      BY <3>1, <2>2, <1>4, <1>5, <1>7
    <3>2. CASE Foreign # owner
      BY <3>2, <2>2, <1>6 DEF IndexInv, RowsInv
    <3> QED BY <3>1, <3>2
  <2> QED BY <2>1, <2>2, <1>1 DEF RowsInv, Sessions
<1>11. MarkedRowIsFresh'
  <2> SUFFICES ASSUME NEW s \in DOMAIN marks, marks[s].path \in DOMAIN files,
                      files[marks[s].path] = File(s, marks[s].stamp)
               PROVE  s \in DOMAIN rows' /\ rows'[s] = marks[s]
    BY <1>1 DEF MarkedRowIsFresh
  <2> DEFINE m == marks[s].path
  <2>1. CASE s # owner
    <3>1. s \in DOMAIN rows /\ rows[s] = marks[s]
      BY DEF IndexInv, MarksInv, MarkedRowIsFresh
    <3> QED BY <3>1, <2>1, <1>6
  <2>2. CASE s = owner
    <3>1. files[m].session = owner /\ files[m].stamp = marks[s].stamp
      BY <2>2 DEF File
    <3>2. m \in DOMAIN repair.found /\ marks[s].stamp <= repair.found[m].stamp
      BY <1>1 DEF IndexInv, FoundInv
    <3>3. marks[s] \in [path : born, stamp : Nat] /\ repair.found[m].stamp \in Nat
      BY <3>2, <1>1 DEF IndexInv, MarksInv, FoundInv
    <3>4. m = p
      BY <3>1, <3>2, <3>3, <1>4
    <3>5. marks[s].stamp = stamp
      BY <3>1, <3>2, <3>3, <3>4, <1>2, <1>4, <1>5 DEF p
    <3>6. marks[s] = Mark(p, stamp)
      BY <3>3, <3>4, <3>5 DEF Mark
    <3> QED BY <3>6, <2>2, <1>6
  <2> QED BY <2>1, <2>2
<1>12. MarksInv'
  <2>1. MarksHaveRows'
    BY <1>1, <1>6 DEF IndexInv, MarksInv, MarksHaveRows
  <2> QED BY <2>1, <1>1, <1>11 DEF IndexInv, MarksInv
<1>13. FoundInv'
  BY <1>1, <1>3 DEF IndexInv, FoundInv
<1>14. ASSUME still, NEW q \in DOMAIN files, q \notin repair.todo
       PROVE  Listed(q)'
  <2>1. Listed(q)
    BY <1>1, <1>14 DEF IndexInv, PlanInv, Planned
  <2>2. p \in repair.todo
    BY <1>2 DEF p
  <2>3. files[p].session = owner /\ p \in DOMAIN files
    BY <1>4, <1>5, <1>14 DEF File
  <2>4. files[q].session # owner
    BY <2>2, <2>3, <1>14 DEF IndexInv, FilesInv
  <2> QED BY <2>1, <2>4, <1>1, <1>6 DEF Listed
<1>15. still => \A s \in DOMAIN rows' : rows'[s].path \in DOMAIN files
  <2> SUFFICES ASSUME still, NEW s \in DOMAIN rows'
               PROVE  rows'[s].path \in DOMAIN files
    OBVIOUS
  <2>1. CASE s = owner
    BY <2>1, <1>4, <1>7
  <2>2. CASE s # owner
    BY <2>2, <1>1, <1>2, <1>6 DEF IndexInv, PlanInv, Planned
  <2> QED BY <2>1, <2>2
<1>16. PlanInv'
  BY <1>1, <1>2, <1>3, <1>14, <1>15 DEF IndexInv, PlanInv, Planned, Reading
<1>17. ASSUME p \in DOMAIN files, files[p] = File(owner, repair.found[p].stamp)
       PROVE  rows'[owner] = Mark(p, repair.found[p].stamp)
  <2>1. files[p].stamp = repair.found[p].stamp
    BY <1>17 DEF File
  <2>2. repair.found[p].stamp = stamp
    BY <2>1, <1>2, <1>4, <1>5, <1>17 DEF p
  <2> QED BY <2>2, <1>6
<1>18. ReadInv'
  <2>1. /\ First(repair'.todo) = p /\ repair'.read.session = owner /\ repair'.read.stamp = stamp
        /\ repair'.found = repair.found /\ repair'.read = repair.read
    BY <1>3 DEF p, owner, stamp
  <2> QED BY <2>1, <1>1, <1>4, <1>6, <1>17 DEF ReadInv
<1>19. (repair.pc \in Planned \cup {"idle", "load"})'
  BY <1>3 DEF Planned
<1> QED BY <1>9, <1>10, <1>12, <1>13, <1>16, <1>18, <1>19 DEF IndexInv

LEMMA UpsertMarkKeeps ==
  ASSUME IndexInv, UpsertMark
  PROVE  IndexInv'
<1> DEFINE p == First(repair.todo)
           owner == repair.read.session
           stamp == repair.found[p].stamp
           r == [repair EXCEPT !.todo = @ \ {p}]
<1>1. /\ repair.pc = "mark" /\ UNCHANGED <<files, born, rows, writer, still>>
      /\ \/ repair' = Idle /\ marks' = marks
         \/ marks' = With(marks, owner, Mark(p, stamp)) /\ repair' = NextStep(r)
  BY DEF UpsertMark, Fingerprint
<1>2. FilesInv' /\ WriterInv'
  BY <1>1, RepairLeavesFiles
<1>3. CASE repair' = Idle /\ marks' = marks
  BY <1>1, <1>2, <1>3, IdleKeeps
<1>4. CASE marks' = With(marks, owner, Mark(p, stamp)) /\ repair' = NextStep(r)
  <2>1. /\ IsRepair(repair) /\ p \in repair.todo /\ p \in Paths /\ p \in born
        /\ p \in DOMAIN repair.found /\ stamp \in Nat
        /\ repair.read \in [session : Sessions, stamp : Nat]
        /\ repair.stale = {}
    BY <1>1, TodoIsFound DEF IndexInv, FoundInv, PlanInv, Planned, Reading
  <2>2. /\ IsRepair(r) /\ r.found = repair.found /\ r.stale = repair.stale
        /\ r.todo = repair.todo \ {p} /\ r.known = repair.known /\ r.read = repair.read
    BY <2>1, SMTT(30) DEF IsRepair
  <2> HIDE DEF r
  <2>3. /\ IsRepair(repair') /\ repair'.pc \in {"unmark", "extract", "list"}
        /\ repair'.pc = "extract" => repair'.todo # {} /\ repair'.stale = {}
        /\ repair'.pc = "list" => repair'.todo = {} /\ repair'.stale = {}
        /\ repair'.found = repair.found /\ repair'.stale = repair.stale
        /\ repair'.todo = repair.todo \ {p}
        /\ repair'.known = repair.known /\ repair'.read = repair.read
    BY <1>4, <2>2, NextStepIs
  <2>4. /\ owner \in {p, Foreign} /\ stamp <= repair.read.stamp /\ owner \in DOMAIN rows
        /\ p \in DOMAIN files =>
             /\ repair.read.stamp <= files[p].stamp
             /\ repair.read.stamp = files[p].stamp \/ owner = Foreign => files[p] = repair.read
             /\ files[p] = File(owner, stamp) => rows[owner] = Mark(p, stamp)
        /\ still => p \in DOMAIN files /\ files[p] = repair.read
    BY <1>1 DEF IndexInv, ReadInv, Reading
  <2>5. /\ DOMAIN marks' = DOMAIN marks \cup {owner}
        /\ marks'[owner] = Mark(p, stamp)
        /\ \A s \in DOMAIN marks : s # owner => marks'[s] = marks[s]
    <3> DEFINE mark == Mark(p, stamp)
    <3> HIDE DEF mark, owner
    <3>1. marks' = With(marks, owner, mark)
      BY <1>4 DEF mark, owner
    <3>2. /\ DOMAIN marks' = DOMAIN marks \cup {owner} /\ marks'[owner] = mark
          /\ \A s \in DOMAIN marks : s # owner => marks'[s] = marks[s]
      BY <3>1 DEF With
    <3> QED BY <3>2 DEF mark
  <2>6. /\ marks'[owner].path = p /\ marks'[owner].stamp = stamp
        /\ marks'[owner] \in [path : born, stamp : Nat]
    BY <2>1, <2>5 DEF Mark
  <2>7. p # Foreign /\ Foreign \notin Paths
    BY <2>1, IndexConstantsOK
  <2>8. p \in DOMAIN files => files[p].stamp \in Nat /\ stamp <= files[p].stamp
                               /\ (files[p].stamp = stamp => files[p].session = owner)
    BY <2>1, <2>4 DEF IndexInv, FilesInv
  <2>9. still => repair.found = files
    BY <1>1 DEF IndexInv, FoundInv
  <2> HIDE DEF p, owner, stamp
  <2>10. RowsInv'
    BY <1>1 DEF IndexInv, RowsInv
  <2>11. MarksHaveRows'
    BY <1>1, <2>4, <2>5 DEF IndexInv, MarksInv, MarksHaveRows
  <2>12. MarkedRowIsFresh'
    <3> SUFFICES ASSUME NEW s \in DOMAIN marks', marks'[s].path \in DOMAIN files,
                        files[marks'[s].path] = File(s, marks'[s].stamp)
                 PROVE  s \in DOMAIN rows /\ rows[s] = marks'[s]
      BY <1>1 DEF MarkedRowIsFresh
    <3>1. CASE s = owner
      BY <3>1, <2>4, <2>5, <2>6
    <3>2. CASE s # owner
      BY <3>2, <2>5 DEF IndexInv, MarksInv, MarkedRowIsFresh
    <3> QED BY <3>1, <3>2
  <2>13. ASSUME NEW s \in DOMAIN marks'
         PROVE  /\ marks'[s] \in [path : born, stamp : Nat]
                /\ s \in Paths => marks'[s].path = s
                /\ marks'[s].path \in DOMAIN files =>
                     /\ marks'[s].stamp <= files[marks'[s].path].stamp
                     /\ marks'[s].stamp = files[marks'[s].path].stamp
                          => files[marks'[s].path].session = s
    <3>1. CASE s = owner
      BY <3>1, <2>4, <2>6, <2>7, <2>8
    <3>2. CASE s # owner
      BY <3>2, <2>5 DEF IndexInv, MarksInv
    <3> QED BY <3>1, <3>2
  <2>14. MarksInv'
    BY <1>1, <2>11, <2>12, <2>13 DEF MarksInv
  <2>15. FoundInv'
    <3>1. ASSUME NEW s \in DOMAIN marks', marks'[s].path \in DOMAIN files
          PROVE  /\ marks'[s].path \in DOMAIN repair.found
                 /\ marks'[s].stamp <= repair.found[marks'[s].path].stamp
      <4>1. CASE s = owner
        BY <4>1, <2>1, <2>6 DEF stamp
      <4>2. CASE s # owner
        BY <4>2, <3>1, <1>1, <2>5 DEF IndexInv, FoundInv
      <4> QED BY <4>1, <4>2
    <3> QED BY <3>1, <1>1, <2>3 DEF IndexInv, FoundInv
  <2>16. ASSUME still, NEW q \in DOMAIN files, q \notin repair.todo \ {p}
         PROVE  Listed(q)
    <3>1. CASE q = p
      <4>1. files[p].stamp = stamp /\ p \in DOMAIN files
        BY <2>4, <2>9, <2>16 DEF stamp
      <4>2. files[p].session = owner
        BY <4>1, <2>8
      <4>3. files[p] \in [session : {p, Foreign}, stamp : Nat]
        BY <4>1 DEF IndexInv, FilesInv
      <4>4. files[p] = File(owner, stamp)
        BY <4>1, <4>2, <4>3 DEF File
      <4> QED BY <3>1, <4>1, <4>2, <4>4, <2>4 DEF Listed
    <3>2. CASE q # p
      BY <3>2, <1>1, <2>16 DEF IndexInv, PlanInv, Planned
    <3> QED BY <3>1, <3>2
  <2>17. PlanInv'
    <3>1. \A q \in DOMAIN files : still /\ q \notin repair.todo \ {p} => Listed(q)'
      BY <1>1, <2>16 DEF Listed
    <3> QED BY <3>1, <1>1, <2>1, <2>3 DEF IndexInv, PlanInv, Planned, Reading
  <2>18. ReadInv' /\ (repair.pc \in Planned \cup {"idle", "load"})'
    BY <2>3 DEF ReadInv, Reading, Planned
  <2> QED BY <1>2, <2>10, <2>14, <2>15, <2>17, <2>18 DEF IndexInv
<1> QED BY <1>1, <1>3, <1>4

-----------------------------------------------------------------------------
(* Together *)

LEMMA IndexStarts == IndexInit => IndexInv
<1> SUFFICES ASSUME IndexInit PROVE IndexInv
  OBVIOUS
<1>1. /\ files = NoFiles /\ born = {} /\ rows = NoFiles /\ marks = NoFiles
      /\ writer = [path |-> NoPath, step |-> "idle"] /\ repair.pc = "idle"
  BY IdleIs DEF IndexInit
<1>2. DOMAIN files = {} /\ DOMAIN rows = {} /\ DOMAIN marks = {}
  BY <1>1 DEF NoFiles
<1>3. FilesInv
  BY <1>1, <1>2 DEF FilesInv
<1>4. WriterInv
  BY <1>1 DEF WriterInv
<1>5. RowsInv /\ MarksInv
  BY <1>2 DEF RowsInv, MarksInv, MarksHaveRows, MarkedRowIsFresh
<1>6. FoundInv /\ PlanInv /\ ReadInv
  BY <1>1 DEF FoundInv, PlanInv, ReadInv, Planned, Reading
<1> QED BY <1>1, <1>3, <1>4, <1>5, <1>6 DEF IndexInv

LEMMA IndexSteps == IndexInv /\ [IndexNext]_indexVars => IndexInv'
<1> SUFFICES ASSUME IndexInv, [IndexNext]_indexVars PROVE IndexInv'
  OBVIOUS
<1>1. CASE \E p \in Paths : CreateFile(p) \/ WriteFile(p) \/ RemoveFile(p) \/ ReplaceFile(p)
  BY <1>1, CreateFileKeeps, WriteFileKeeps, RemoveFileKeeps, ReplaceFileKeeps
<1>2. CASE UpsertOwnRow \/ UpsertOwnRowFails \/ Crash \/ LoseIndex \/ CollectFiles
  BY <1>2, UpsertOwnRowKeeps, UpsertOwnRowFailsKeeps, CrashKeeps, LoseIndexKeeps, CollectFilesKeeps
<1>3. CASE Repair
  BY <1>3, LoadAndPlanKeeps, DeleteMarkKeeps, DeleteRowKeeps, ExtractKeeps, ForgetReplacedKeeps,
     UpsertRowKeeps, UpsertMarkKeeps, ListRowsKeeps DEF Repair
<1>4. CASE UNCHANGED indexVars
  <2>1. UNCHANGED <<files, born, rows, marks, writer, repair, still>>
    BY <1>4 DEF indexVars
  <2>2. FilesInv' /\ WriterInv'
    BY <2>1, RepairLeavesFiles
  <2>3. RowsInv' /\ FoundInv' /\ ReadInv'
    BY <2>1 DEF IndexInv, RowsInv, FoundInv, ReadInv
  <2>4. MarksInv' /\ PlanInv'
    BY <2>1 DEF IndexInv, MarksInv, MarksHaveRows, MarkedRowIsFresh, PlanInv, Listed
  <2> QED BY <2>1, <2>2, <2>3, <2>4 DEF IndexInv
<1> QED BY <1>1, <1>2, <1>3, <1>4 DEF IndexNext

LEMMA IndexInvIsEnough == IndexInv => IndexIsTrue
<1> SUFFICES ASSUME IndexInv PROVE IndexIsTrue
  OBVIOUS
<1>1. MarkedRowIsFresh /\ MarksHaveRows
  BY DEF IndexInv, MarksInv
<1>2. IndexTypeOK
  <2>1. DOMAIN files \subseteq born /\ born \subseteq Paths
    BY DEF IndexInv, FilesInv
  <2>2. \A s \in DOMAIN rows : s \in Sessions /\ rows[s].path \in Paths
    BY <2>1 DEF IndexInv, RowsInv
  <2>3. DOMAIN marks \subseteq Sessions
    BY <2>2, <1>1 DEF MarksHaveRows
  <2> QED BY <2>1, <2>2, <2>3 DEF IndexTypeOK, IndexInv, Planned
<1>3. RepairedListIsTrue
  <2> SUFFICES ASSUME repair.pc = "list", still
               PROVE  /\ \A p \in DOMAIN files : Listed(p)
                      /\ \A s \in DOMAIN rows : rows[s].path \in DOMAIN files
    BY DEF RepairedListIsTrue, Listed
  <2> QED BY DEF IndexInv, PlanInv, Planned
<1> QED BY <1>1, <1>2, <1>3 DEF IndexIsTrue

(* What the session index says is true of the files whatever it has been    *)
(* through: a mark that fits its file has the row derived from all of it,   *)
(* a mark never outlives its row, and a repair during which no file changed *)
(* ends with a list that has the session of every file as it is and none    *)
(* whose file is gone (repair.rs).                                          *)
THEOREM PickerListsWhatIsThere == IndexInit /\ [][IndexNext]_indexVars => []IndexIsTrue
BY IndexStarts, IndexSteps, IndexInvIsEnough, PTL
=============================================================================
