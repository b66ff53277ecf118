------------------------ MODULE SequenceFilterProofs ------------------------
(* What Select keeps of a sequence.  It is defined by recursion on the      *)
(* length, so these facts are proved by induction up to the length.         *)
EXTENDS SequenceFilters, TLAPS, WellFoundedInduction, SequenceTheorems, FiniteSetTheorems

-----------------------------------------------------------------------------
(* Induction up to a bound, from the well-foundedness of < on Nat *)

LessThan == {ss \in Nat \X Nat : ss[1] < ss[2]}

LEMMA LessThanIsWellFounded == IsWellFoundedOn(LessThan, Nat)
BY NatLessThanWellFounded DEF LessThan, OpToRel

LEMMA InductionUpTo ==
  ASSUME NEW m \in Nat, NEW T,
         0 \in T,
         \A n \in 0..m : n < m /\ n \in T => n + 1 \in T
  PROVE  \A n \in 0..m : n \in T
<1> DEFINE missing == {n \in 0..m : n \notin T}
<1> SUFFICES ASSUME missing # {} PROVE FALSE
  OBVIOUS
<1>1. missing \subseteq Nat
  OBVIOUS
<1>2. PICK x \in missing : \A y \in missing : ~(<<y, x>> \in LessThan)
  BY <1>1, LessThanIsWellFounded, WFMin
<1>3. x \in 1..m
  BY <1>2
<1>4. x - 1 \in 0..m /\ x - 1 < m /\ (x - 1) + 1 = x
  BY <1>3
<1>5. x - 1 \notin T
  BY <1>2, <1>4
<1>6. x - 1 \in missing /\ <<x - 1, x>> \in LessThan
  BY <1>3, <1>4, <1>5 DEF LessThan
<1> QED BY <1>2, <1>6

-----------------------------------------------------------------------------
(* The recursion of Select *)

Keeps(f, s, S, m) ==
  /\ f[0] = <<>>
  /\ \A n \in 1..m : f[n] = IF s[n] \in S THEN Append(f[n - 1], s[n]) ELSE f[n - 1]

LEMMA KeepsExists ==
  ASSUME NEW T, NEW S, NEW s \in Seq(T)
  PROVE  \E f \in [0..Len(s) -> Seq(T)] : Keeps(f, s, S, Len(s))
<1> DEFINE D == {m \in 0..Len(s) : \E f \in [0..m -> Seq(T)] : Keeps(f, s, S, m)}
<1>1. 0 \in D
  <2>1. [n \in 0..0 |-> <<>>] \in [0..0 -> Seq(T)]
    OBVIOUS
  <2>2. Keeps([n \in 0..0 |-> <<>>], s, S, 0)
    BY DEF Keeps
  <2>3. 0 \in 0..Len(s)
    OBVIOUS
  <2> QED BY <2>1, <2>2, <2>3
<1>2. ASSUME NEW m \in 0..Len(s), m < Len(s), m \in D PROVE m + 1 \in D
  <2>1. PICK f \in [0..m -> Seq(T)] : Keeps(f, s, S, m)
    BY <1>2
  <2> DEFINE last == IF s[m + 1] \in S THEN Append(f[m], s[m + 1]) ELSE f[m]
             g    == [n \in 0..(m + 1) |-> IF n = m + 1 THEN last ELSE f[n]]
  <2>2. last \in Seq(T)
    BY <1>2
  <2> HIDE DEF last
  <2>3. g \in [0..(m + 1) -> Seq(T)]
    BY <2>2
  <2>4. g[m + 1] = last /\ \A n \in 0..m : g[n] = f[n]
    OBVIOUS
  <2> HIDE DEF g
  <2>5. Keeps(g, s, S, m + 1)
    <3>1. g[0] = <<>>
      BY <2>1, <2>4 DEF Keeps
    <3>2. ASSUME NEW n \in 1..(m + 1)
          PROVE  g[n] = IF s[n] \in S THEN Append(g[n - 1], s[n]) ELSE g[n - 1]
      <4>1. CASE n = m + 1
        BY <2>4, <4>1 DEF last
      <4>2. CASE n # m + 1
        <5>1. n \in 1..m /\ n \in 0..m /\ n - 1 \in 0..m
          BY <4>2
        <5> QED BY <5>1, <2>1, <2>4 DEF Keeps
      <4> QED BY <4>1, <4>2
    <3> QED BY <3>1, <3>2 DEF Keeps
  <2> QED BY <2>3, <2>5, <1>2
<1> HIDE DEF D
<1>3. Len(s) \in Nat /\ Len(s) \in 0..Len(s)
  OBVIOUS
<1>4. Len(s) \in D
  BY <1>1, <1>2, <1>3, InductionUpTo
<1> QED BY <1>4 DEF D

LEMMA SelectIsKept ==
  ASSUME NEW T, NEW S, NEW s \in Seq(T)
  PROVE  \E f \in [0..Len(s) -> Seq(T)] : Keeps(f, s, S, Len(s)) /\ Select(s, S) = f[Len(s)]
<1> DEFINE Step(f, n) == IF n = 0 THEN <<>>
                         ELSE IF s[n] \in S THEN Append(f[n - 1], s[n])
                         ELSE f[n - 1]
           IsKept(f) == f = [n \in 0..Len(s) |-> Step(f, n)]
           kept == CHOOSE f : IsKept(f)
<1>1. Len(s) \in Nat
  OBVIOUS
<1>2. PICK f \in [0..Len(s) -> Seq(T)] : Keeps(f, s, S, Len(s))
  BY KeepsExists
<1>3. IsKept(f)
  <2>1. f[0] = Step(f, 0)
    BY <1>2 DEF Keeps
  <2>2. \A n \in 1..Len(s) : f[n] = Step(f, n)
    BY <1>2 DEF Keeps
  <2> HIDE DEF Step
  <2>3. \A n \in 0..Len(s) : f[n] = Step(f, n)
    BY <1>1, <2>1, <2>2
  <2> QED BY <2>3
<1>4. IsKept(kept)
  BY <1>3
<1>5. Select(s, S) = kept[Len(s)]
  BY DEF Select
<1> HIDE DEF kept
<1>6. \A n \in 0..Len(s) : kept[n] = Step(kept, n)
  BY <1>4
<1>7. kept[0] = <<>>
  BY <1>1, <1>6
<1>8. \A n \in 1..Len(s) : kept[n] = IF s[n] \in S THEN Append(kept[n - 1], s[n])
                                      ELSE kept[n - 1]
  <2> SUFFICES ASSUME NEW n \in 1..Len(s) PROVE kept[n] = Step(kept, n)
    OBVIOUS
  <2>1. n \in 0..Len(s)
    OBVIOUS
  <2> QED BY <2>1, <1>6
<1> DEFINE D == {n \in 0..Len(s) : kept[n] = f[n]}
<1>9. 0 \in D
  BY <1>1, <1>2, <1>7 DEF Keeps
<1>10. ASSUME NEW n \in 0..Len(s), n < Len(s), n \in D PROVE n + 1 \in D
  <2>1. n + 1 \in 1..Len(s) /\ n + 1 \in 0..Len(s) /\ (n + 1) - 1 = n
    BY <1>1, <1>10
  <2>2. kept[n] = f[n]
    BY <1>10
  <2>3. kept[n + 1] = f[n + 1]
    BY <2>1, <2>2, <1>2, <1>8 DEF Keeps
  <2> QED BY <2>1, <2>3
<1> HIDE DEF D
<1>11. Len(s) \in D
  <2>1. Len(s) \in 0..Len(s)
    BY <1>1
  <2>2. \A n \in 0..Len(s) : n < Len(s) /\ n \in D => n + 1 \in D
    BY <1>10
  <2> QED BY <2>1, <2>2, <1>1, <1>9, InductionUpTo
<1>12. kept[Len(s)] = f[Len(s)]
  BY <1>11 DEF D
<1> QED BY <1>2, <1>5, <1>12

LEMMA SelectOfNothing ==
  ASSUME NEW S
  PROVE  Select(<<>>, S) = <<>>
<1>1. ASSUME NEW T, NEW none \in Seq(T)
      PROVE  Len(none) = 0 => Select(none, S) = <<>>
  <2>1. PICK f : Keeps(f, none, S, Len(none)) /\ Select(none, S) = f[Len(none)]
    BY SelectIsKept
  <2>2. f[0] = <<>>
    BY <2>1 DEF Keeps
  <2> QED BY <2>1, <2>2
<1>2. <<>> \in Seq({S}) /\ Len(<<>>) = 0
  OBVIOUS
<1> QED BY <1>1, <1>2

LEMMA SelectType ==
  ASSUME NEW T, NEW S, NEW s \in Seq(T)
  PROVE  Select(s, S) \in Seq(T)
<1>1. Len(s) \in Nat
  OBVIOUS
<1> QED BY <1>1, SelectIsKept

LEMMA SelectAppend ==
  ASSUME NEW T, NEW S, NEW s \in Seq(T), NEW e \in T
  PROVE  Select(Append(s, e), S) = IF e \in S THEN Append(Select(s, S), e) ELSE Select(s, S)
<1> DEFINE more == Append(s, e)
<1>1. /\ more \in Seq(T) /\ Len(s) \in Nat /\ Len(more) = Len(s) + 1
      /\ more[Len(s) + 1] = e /\ \A n \in 1..Len(s) : more[n] = s[n]
  OBVIOUS
<1> HIDE DEF more
<1>2. PICK f : Keeps(f, s, S, Len(s)) /\ Select(s, S) = f[Len(s)]
  BY SelectIsKept
<1>3. PICK g : Keeps(g, more, S, Len(more)) /\ Select(more, S) = g[Len(more)]
  BY <1>1, SelectIsKept
<1> DEFINE D == {n \in 0..Len(s) : g[n] = f[n]}
<1>4. 0 \in D
  BY <1>1, <1>2, <1>3 DEF Keeps
<1>5. ASSUME NEW n \in 0..Len(s), n < Len(s), n \in D PROVE n + 1 \in D
  <2>1. /\ n + 1 \in 1..Len(s) /\ n + 1 \in 0..Len(s) /\ n + 1 \in 1..Len(more)
        /\ (n + 1) - 1 = n
    BY <1>1, <1>5
  <2>2. g[n] = f[n] /\ more[n + 1] = s[n + 1]
    BY <1>1, <1>5, <2>1
  <2>3. f[n + 1] = IF s[n + 1] \in S THEN Append(f[n], s[n + 1]) ELSE f[n]
    BY <2>1, <1>2 DEF Keeps
  <2>4. g[n + 1] = IF s[n + 1] \in S THEN Append(g[n], s[n + 1]) ELSE g[n]
    BY <2>1, <2>2, <1>3 DEF Keeps
  <2> QED BY <2>1, <2>2, <2>3, <2>4
<1> HIDE DEF D
<1>6. Len(s) \in D
  <2>1. Len(s) \in 0..Len(s)
    BY <1>1
  <2>2. \A n \in 0..Len(s) : n < Len(s) /\ n \in D => n + 1 \in D
    BY <1>5
  <2> QED BY <2>1, <2>2, <1>1, <1>4, InductionUpTo
<1>7. g[Len(s)] = f[Len(s)]
  BY <1>6 DEF D
<1>8. Len(more) \in 1..Len(more) /\ Len(more) - 1 = Len(s)
  BY <1>1
<1>9. g[Len(more)] = IF e \in S THEN Append(g[Len(s)], e) ELSE g[Len(s)]
  BY <1>1, <1>3, <1>8 DEF Keeps
<1> QED BY <1>2, <1>3, <1>7, <1>9 DEF more

(* Induction over a set of sequences.                                       *)
LEMMA SequencesInduction ==
  ASSUME NEW T, NEW D, <<>> \in D,
         \A s \in Seq(T), e \in T : s \in D => Append(s, e) \in D
  PROVE  Seq(T) \subseteq D
<1> SUFFICES ASSUME NEW s \in Seq(T) PROVE s \in D
  OBVIOUS
<1> DEFINE P(n) == SubSeq(s, 1, n)
           N == {n \in 0..Len(s) : P(n) \in D}
<1>1. Len(s) \in Nat /\ P(0) = <<>> /\ P(Len(s)) = s
  OBVIOUS
<1>5. ASSUME NEW n \in 0..Len(s), n < Len(s)
      PROVE  /\ P(n) \in Seq(T) /\ s[n + 1] \in T /\ n + 1 \in 0..Len(s)
             /\ P(n + 1) = Append(P(n), s[n + 1])
  BY <1>1, <1>5
<1> HIDE DEF P
<1>2. 0 \in N
  BY <1>1
<1>3. ASSUME NEW n \in 0..Len(s), n < Len(s), n \in N PROVE n + 1 \in N
  BY <1>3, <1>5
<1>4. Len(s) \in N
  <2> HIDE DEF N
  <2>1. Len(s) \in 0..Len(s)
    BY <1>1
  <2>2. \A n \in 0..Len(s) : n < Len(s) /\ n \in N => n + 1 \in N
    BY <1>3
  <2> QED BY <2>1, <2>2, <1>1, <1>2, InductionUpTo
<1> QED BY <1>1, <1>4

LEMMA ConcatAppend ==
  ASSUME NEW T, NEW s \in Seq(T), NEW u \in Seq(T), NEW e \in T
  PROVE  s \o Append(u, e) = Append(s \o u, e)
OBVIOUS

LEMMA SelectConcat ==
  ASSUME NEW T, NEW S, NEW s \in Seq(T), NEW u \in Seq(T)
  PROVE  Select(s \o u, S) = Select(s, S) \o Select(u, S)
<1> DEFINE D == {x \in Seq(T) : Select(s \o x, S) = Select(s, S) \o Select(x, S)}
<1>1. <<>> \in D
  <2>1. s \o <<>> = s /\ Select(<<>>, S) = <<>> /\ Select(s, S) \in Seq(T)
    BY SelectOfNothing, SelectType
  <2>2. Select(s, S) \o <<>> = Select(s, S)
    BY <2>1
  <2> QED BY <2>1, <2>2
<1>2. ASSUME NEW x \in Seq(T), NEW e \in T, x \in D PROVE Append(x, e) \in D
  <2>1. s \o Append(x, e) = Append(s \o x, e) /\ Append(x, e) \in Seq(T)
    OBVIOUS
  <2> DEFINE both == s \o x
  <2>7. both \in Seq(T)
    OBVIOUS
  <2> HIDE DEF both
  <2>2. Select(Append(both, e), S)
          = IF e \in S THEN Append(Select(both, S), e) ELSE Select(both, S)
    BY <2>7, SelectAppend
  <2>6. Select(Append(x, e), S) = IF e \in S THEN Append(Select(x, S), e) ELSE Select(x, S)
    BY SelectAppend
  <2>3. Select(both, S) = Select(s, S) \o Select(x, S)
    BY <1>2 DEF both
  <2>4. Select(s, S) \in Seq(T) /\ Select(x, S) \in Seq(T)
    BY SelectType
  <2>5. Append(Select(s, S) \o Select(x, S), e) = Select(s, S) \o Append(Select(x, S), e)
    <3> DEFINE a == Select(s, S)  b == Select(x, S)
    <3>1. a \in Seq(T) /\ b \in Seq(T)
      BY <2>4
    <3> HIDE DEF a, b
    <3>2. a \o Append(b, e) = Append(a \o b, e)
      BY <3>1, ConcatAppend
    <3> QED BY <3>2 DEF a, b
  <2> QED BY <2>1, <2>2, <2>3, <2>5, <2>6 DEF both
<1> HIDE DEF D
<1>3. u \in D
  BY <1>1, <1>2, SequencesInduction
<1> QED BY <1>3 DEF D

LEMMA SequenceInto ==
  ASSUME NEW T, NEW U, NEW s \in Seq(T), \A i \in 1..Len(s) : s[i] \in U
  PROVE  s \in Seq(U)
OBVIOUS

LEMMA SelectAll ==
  ASSUME NEW T, NEW S, NEW s \in Seq(T), T \subseteq S
  PROVE  Select(s, S) = s
<1> DEFINE D == {x \in Seq(T) : Select(x, S) = x}
<1>1. <<>> \in D
  BY SelectOfNothing
<1>2. ASSUME NEW x \in Seq(T), NEW e \in T, x \in D PROVE Append(x, e) \in D
  <2>1. Select(Append(x, e), S) = IF e \in S THEN Append(Select(x, S), e) ELSE Select(x, S)
    BY SelectAppend
  <2> QED BY <2>1, <1>2
<1> HIDE DEF D
<1>3. s \in D
  BY <1>1, <1>2, SequencesInduction
<1> QED BY <1>3 DEF D

LEMMA SelectNone ==
  ASSUME NEW T, NEW S, NEW s \in Seq(T), T \cap S = {}
  PROVE  Select(s, S) = <<>>
<1> DEFINE D == {x \in Seq(T) : Select(x, S) = <<>>}
<1>1. <<>> \in D
  BY SelectOfNothing
<1>2. ASSUME NEW x \in Seq(T), NEW e \in T, x \in D PROVE Append(x, e) \in D
  <2>1. Select(Append(x, e), S) = IF e \in S THEN Append(Select(x, S), e) ELSE Select(x, S)
    BY SelectAppend
  <2> QED BY <2>1, <1>2
<1> HIDE DEF D
<1>3. s \in D
  BY <1>1, <1>2, SequencesInduction
<1> QED BY <1>3 DEF D

(* The places the kept elements come from.                                  *)
Places(f, s, kept, S) ==
  /\ \A k \in 1..Len(kept) : f[k] \in 1..Len(s) /\ s[f[k]] = kept[k] /\ kept[k] \in S
  /\ \A j, k \in 1..Len(kept) : j < k => f[j] < f[k]
  /\ \A i \in 1..Len(s) : s[i] \in S => \E k \in 1..Len(kept) : f[k] = i

LEMMA SelectPlaces ==
  ASSUME NEW T, NEW S, NEW s \in Seq(T)
  PROVE  \E f : Places(f, s, Select(s, S), S)
<1> DEFINE D == {x \in Seq(T) : \E f : Places(f, x, Select(x, S), S)}
<1>1. <<>> \in D
  <2>1. Places(<<>>, <<>>, <<>>, S)
    BY DEF Places
  <2> QED BY <2>1, SelectOfNothing
<1>2. ASSUME NEW x \in Seq(T), NEW e \in T, x \in D PROVE Append(x, e) \in D
  <2> DEFINE more == Append(x, e)  kept == Select(x, S)
  <2>1. PICK f : Places(f, x, kept, S)
    BY <1>2
  <2>2. Select(more, S) = IF e \in S THEN Append(kept, e) ELSE kept
    BY SelectAppend
  <2>3. kept \in Seq(T)
    BY SelectType
  <2>4. /\ more \in Seq(T) /\ Len(x) \in Nat /\ Len(more) = Len(x) + 1
        /\ more[Len(x) + 1] = e /\ \A i \in 1..Len(x) : more[i] = x[i]
    OBVIOUS
  <2> HIDE DEF more, kept
  <2>5. CASE e \notin S
    <3>2. ASSUME NEW k \in 1..Len(kept)
          PROVE  f[k] \in 1..Len(more) /\ more[f[k]] = kept[k] /\ kept[k] \in S
      BY <2>1, <2>4 DEF Places
    <3>3. ASSUME NEW i \in 1..Len(more), more[i] \in S PROVE \E k \in 1..Len(kept) : f[k] = i
      <4>1. i \in 1..Len(x) /\ x[i] \in S
        BY <3>3, <2>4, <2>5
      <4> QED BY <4>1, <2>1 DEF Places
    <3>1. Places(f, more, kept, S)
      BY <3>2, <3>3, <2>1 DEF Places
    <3> QED BY <3>1, <2>2, <2>4, <2>5 DEF more
  <2>6. CASE e \in S
    <3> DEFINE L == Len(kept)  all == Append(kept, e)
               g == [k \in 1..(L + 1) |-> IF k = L + 1 THEN Len(x) + 1 ELSE f[k]]
    <3>1. /\ L \in Nat /\ Len(all) = L + 1 /\ all[L + 1] = e
          /\ \A k \in 1..L : all[k] = kept[k]
      BY <2>3
    <3>2. g[L + 1] = Len(x) + 1 /\ \A k \in 1..L : g[k] = f[k]
      BY <3>1
    <3> HIDE DEF L, all, g
    <3>3. ASSUME NEW k \in 1..Len(all)
          PROVE  g[k] \in 1..Len(more) /\ more[g[k]] = all[k] /\ all[k] \in S
      <4>1. CASE k = L + 1
        BY <4>1, <3>1, <3>2, <2>4, <2>6
      <4>2. CASE k \in 1..L
        <5>1. g[k] = f[k] /\ all[k] = kept[k]
          BY <4>2, <3>1, <3>2
        <5>2. f[k] \in 1..Len(x) /\ x[f[k]] = kept[k] /\ kept[k] \in S
          BY <4>2, <2>1 DEF Places, L
        <5>3. f[k] \in 1..Len(more) /\ more[f[k]] = x[f[k]]
          BY <5>2, <2>4
        <5> QED BY <5>1, <5>2, <5>3
      <4>3. k = L + 1 \/ k \in 1..L
        BY <3>1
      <4> QED BY <4>1, <4>2, <4>3
    <3>4. ASSUME NEW j \in 1..Len(all), NEW k \in 1..Len(all), j < k PROVE g[j] < g[k]
      <4>1. j \in 1..L
        BY <3>1, <3>4
      <4>2. CASE k = L + 1
        BY <4>1, <4>2, <3>1, <3>2, <2>1, <2>4 DEF Places, L
      <4>3. CASE k \in 1..L
        BY <4>1, <4>3, <3>1, <3>2, <3>4, <2>1 DEF Places, L
      <4> QED BY <4>2, <4>3, <3>1
    <3>5. ASSUME NEW i \in 1..Len(more), more[i] \in S PROVE \E k \in 1..Len(all) : g[k] = i
      <4>1. CASE i = Len(x) + 1
        <5>1. L + 1 \in 1..Len(all)
          BY <3>1
        <5> QED BY <5>1, <4>1, <3>2
      <4>2. CASE i \in 1..Len(x)
        <5>1. PICK k \in 1..L : f[k] = i
          BY <4>2, <3>5, <2>1, <2>4 DEF Places, L
        <5>2. k \in 1..Len(all) /\ g[k] = i
          BY <5>1, <3>1, <3>2
        <5> QED BY <5>2
      <4> QED BY <4>1, <4>2, <2>4
    <3>6. Places(g, more, all, S)
      BY <3>3, <3>4, <3>5 DEF Places
    <3> QED BY <3>6, <2>2, <2>4, <2>6 DEF more, all
  <2> QED BY <2>5, <2>6
<1> HIDE DEF D
<1>3. s \in D
  BY <1>1, <1>2, SequencesInduction
<1> QED BY <1>3 DEF D

LEMMA SelectRange ==
  ASSUME NEW T, NEW S, NEW s \in Seq(T)
  PROVE  /\ \A k \in 1..Len(Select(s, S)) :
              Select(s, S)[k] \in S /\ \E i \in 1..Len(s) : s[i] = Select(s, S)[k]
         /\ \A i \in 1..Len(s) : s[i] \in S => \E k \in 1..Len(Select(s, S)) : Select(s, S)[k] = s[i]
<1>1. PICK f : Places(f, s, Select(s, S), S)
  BY SelectPlaces
<1> DEFINE kept == Select(s, S)
<1> HIDE DEF kept
<1>2. Places(f, s, kept, S)
  BY <1>1 DEF kept
<1>3. /\ \A k \in 1..Len(kept) : kept[k] \in S /\ \E i \in 1..Len(s) : s[i] = kept[k]
      /\ \A i \in 1..Len(s) : s[i] \in S => \E k \in 1..Len(kept) : kept[k] = s[i]
  BY <1>2 DEF Places
<1> QED BY <1>3 DEF kept

-----------------------------------------------------------------------------
(* The order of a finite set *)

(* Under a total order of a finite set, each place is taken by one element.  *)
LEMMA OneAtEachPlace ==
  ASSUME NEW n \in Nat, NEW K, IsFiniteSet(K), Cardinality(K) = n, NEW under,
         \A a \in K : under[a] \in SUBSET (K \ {a}),
         \A a, b \in K : a \in under[b] => under[a] \subseteq under[b],
         \A a, b \in K : a # b => a \in under[b] \/ b \in under[a]
  PROVE  /\ \A k \in 1..n : \E a \in K : Cardinality(under[a]) = k - 1
         /\ \A a \in K : Cardinality(under[a]) + 1 \in 1..n
         /\ \A a, b \in K : Cardinality(under[a]) = Cardinality(under[b]) => a = b
<1>1. ASSUME NEW a \in K
      PROVE  IsFiniteSet(under[a]) /\ Cardinality(under[a]) \in 0..n - 1
  <2>2. IsFiniteSet(K \ {a}) /\ Cardinality(K \ {a}) = n - 1
    BY FS_RemoveElement
  <2>3. IsFiniteSet(under[a]) /\ Cardinality(under[a]) =< n - 1
    BY <2>2, FS_Subset
  <2>4. Cardinality(under[a]) \in Nat
    BY <2>3, FS_CardinalityType
  <2> QED BY <2>3, <2>4
<1>2. ASSUME NEW a \in K, NEW b \in K, a \in under[b]
      PROVE  Cardinality(under[a]) < Cardinality(under[b])
  <2>1. under[a] \in SUBSET under[b] /\ a \notin under[a]
    BY <1>2
  <2>2. IsFiniteSet(under[b]) /\ Cardinality(under[b]) \in Int /\ Cardinality(under[a]) \in Int
    BY <1>1
  <2>3. /\ Cardinality(under[a]) =< Cardinality(under[b])
        /\ Cardinality(under[b]) = Cardinality(under[a]) => under[b] = under[a]
    BY <2>1, <2>2, FS_Subset
  <2> QED BY <1>2, <2>1, <2>2, <2>3
<1>3. \A a, b \in K : Cardinality(under[a]) = Cardinality(under[b]) => a = b
  <2> TAKE a, b \in K
  <2> HAVE Cardinality(under[a]) = Cardinality(under[b])
  <2>1. Cardinality(under[a]) \in Int /\ Cardinality(under[b]) \in Int
    BY <1>1
  <2> QED BY <1>2, <2>1
<1>4. \A a \in K : Cardinality(under[a]) + 1 \in 1..n
  <2> TAKE a \in K
  <2>1. Cardinality(under[a]) \in 0..n - 1
    BY <1>1
  <2> QED BY <2>1
<1> DEFINE rank == [a \in K |-> Cardinality(under[a]) + 1]
           places == 1..n
<1>5. rank \in [K -> places]
  BY <1>4
<1>6. \A a, b \in K : rank[a] = rank[b] => a = b
  <2> TAKE a, b \in K
  <2> HAVE rank[a] = rank[b]
  <2>1. Cardinality(under[a]) \in Int /\ Cardinality(under[b]) \in Int
    BY <1>1
  <2>2. Cardinality(under[a]) = Cardinality(under[b])
    BY <2>1
  <2> QED BY <1>3, <2>2
<1>7. IsFiniteSet(places) /\ Cardinality(places) = n
  BY FS_Interval
<1>8. \A k \in places : \E a \in K : rank[a] = k
  <2> HIDE DEF rank, places
  <2>1. rank \in Injection(K, places)
    BY <1>5, <1>6 DEF Injection, IsInjective
  <2>2. rank \in Surjection(K, places)
    BY <1>7, <2>1, FS_Injection
  <2> QED BY <2>2 DEF Surjection
<1>9. \A k \in 1..n : \E a \in K : Cardinality(under[a]) = k - 1
  <2> TAKE k \in 1..n
  <2>1. PICK a \in K : rank[a] = k
    BY <1>8
  <2>2. Cardinality(under[a]) \in Int /\ rank[a] = Cardinality(under[a]) + 1
    BY <1>1
  <2> QED BY <2>1, <2>2
<1> QED BY <1>3, <1>4, <1>9
=============================================================================
