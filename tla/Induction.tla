------------------------------ MODULE Induction ------------------------------
(***************************************************************************)
(* Induction and recursion with sets and functions in place of predicates  *)
(* and operators, so that the lemmas can be cited: over the naturals, over *)
(* lists that grow at their end, over finite sets; what folding a set and  *)
(* filtering a list do.                                                    *)
(***************************************************************************)
EXTENDS Integers, Sequences, FiniteSets, Lists, SequenceTheorems, FiniteSetTheorems,
        WellFoundedInduction, TLAPS

\* What is left out of an inductive set has a least element.
LEMMA SetInduction ==
  ASSUME NEW T, 0 \in T, \A n \in Nat : n \in T => n + 1 \in T
  PROVE  Nat \subseteq T
<1>1. SUFFICES ASSUME Nat \ T # {}
               PROVE  FALSE
  OBVIOUS
<1>2. PICK less : less = {p \in Nat \X Nat : p[1] < p[2]}
  OBVIOUS
<1>3. IsWellFoundedOn(less, Nat)
  <2>1. OpToRel(<, Nat) = less
    BY <1>2 DEF OpToRel
  <2> QED BY <2>1, NatLessThanWellFounded
<1>4. PICK n \in Nat \ T : \A m \in Nat \ T : <<m, n>> \notin less
  BY <1>1, <1>3, WFMin, Zenon
<1>5. n # 0 /\ n - 1 \in Nat /\ <<n - 1, n>> \in less
  BY <1>2
<1>6. n - 1 \in T
  BY <1>4, <1>5
<1> QED BY <1>5, <1>6

\* Every list is made by appending.
LEMMA ListInduction ==
  ASSUME NEW T, NEW P, <<>> \in P,
         \A s \in Seq(T) : \A e \in T : s \in P => Append(s, e) \in P
  PROVE  Seq(T) \subseteq P
<1>1. PICK N : N = {n \in Nat : \A s \in Seq(T) : Len(s) = n => s \in P}
  OBVIOUS
<1>2. 0 \in N
  <2>1. \A s \in Seq(T) : Len(s) = 0 => s = <<>>
    BY EmptySeq
  <2> QED BY <1>1, <2>1
<1>3. ASSUME NEW n \in Nat, n \in N
      PROVE  n + 1 \in N
  <2>1. SUFFICES ASSUME NEW s \in Seq(T), Len(s) = n + 1
                 PROVE  s \in P
    BY <1>1
  <2>2. PICK front : front = SubSeq(s, 1, n)
    OBVIOUS
  <2>3. /\ front \in Seq(T) /\ Len(front) = n
        /\ \A i \in 1..n : front[i] = s[i]
    BY <2>1, <2>2, SubSeqProperties
  <2>4. s[n + 1] \in T
    BY <2>1, ElementOfSeq
  <2>5. /\ Append(front, s[n + 1]) \in Seq(T)
        /\ Len(Append(front, s[n + 1])) = n + 1
        /\ \A i \in 1..n : Append(front, s[n + 1])[i] = front[i]
        /\ Append(front, s[n + 1])[n + 1] = s[n + 1]
    BY <2>3, <2>4, AppendProperties
  <2>6. Append(front, s[n + 1]) = s
    <3>1. \A i \in 1..(n + 1) : Append(front, s[n + 1])[i] = s[i]
      BY <2>3, <2>5
    <3> QED BY <2>1, <2>5, <3>1, SeqEqual
  <2>7. front \in P
    BY <1>1, <1>3, <2>3
  <2> QED BY <2>3, <2>4, <2>6, <2>7
<1>4. Nat \subseteq N
  BY <1>2, <1>3, SetInduction
<1>5. \A s \in Seq(T) : Len(s) \in Nat
  BY LenProperties
<1> QED BY <1>1, <1>4, <1>5

\* The values of a recursive function on 0..n, which a step takes from one to the
\* next.
Recursive(f, base, n, step) ==
  /\ f[0] = base
  /\ \A i \in 1..n : f[i] = step[<<f[i - 1], i>>]

LEMMA Recursion ==
  ASSUME NEW V, NEW base \in V, NEW n \in Nat, NEW step \in [V \X (1..n) -> V]
  PROVE  \E f \in [0..n -> V] : Recursive(f, base, n, step)
<1>1. PICK N :
        N = {m \in Nat : m <= n => \E f \in [0..m -> V] : Recursive(f, base, m, step)}
  OBVIOUS
<1>2. 0 \in N
  <2>1. PICK f : f = [i \in 0..0 |-> base]
    OBVIOUS
  <2>2. f \in [0..0 -> V] /\ Recursive(f, base, 0, step)
    BY <2>1 DEF Recursive
  <2> QED BY <1>1, <2>2
<1>3. ASSUME NEW m \in Nat, m \in N
      PROVE  m + 1 \in N
  <2>1. SUFFICES ASSUME m + 1 <= n
                 PROVE  \E f \in [0..(m + 1) -> V] : Recursive(f, base, m + 1, step)
    BY <1>1
  <2>2. PICK f \in [0..m -> V] : Recursive(f, base, m, step)
    BY <1>1, <1>3, <2>1
  <2>3. PICK next : next = step[<<f[m], m + 1>>]
    OBVIOUS
  <2>4. next \in V
    BY <2>1, <2>3
  <2>5. PICK g : g = [i \in 0..(m + 1) |-> IF i = m + 1 THEN next ELSE f[i]]
    OBVIOUS
  <2>6. /\ g \in [0..(m + 1) -> V] /\ g[m + 1] = next
        /\ \A i \in 0..m : g[i] = f[i]
    BY <2>4, <2>5
  <2>7. \A i \in 1..(m + 1) : g[i] = step[<<g[i - 1], i>>]
    <3>1. SUFFICES ASSUME NEW i \in 1..(m + 1)
                   PROVE  g[i] = step[<<g[i - 1], i>>]
      OBVIOUS
    <3>2. CASE i = m + 1
      <4>1. g[i - 1] = f[m] /\ g[i] = next
        BY <2>6, <3>2
      <4> QED BY <2>3, <3>2, <4>1
    <3>3. CASE i # m + 1
      <4>1. i \in 1..m /\ i \in 0..m /\ i - 1 \in 0..m
        BY <3>3
      <4>2. g[i] = f[i] /\ g[i - 1] = f[i - 1]
        BY <2>6, <4>1
      <4> QED BY <2>2, <4>1, <4>2 DEF Recursive
    <3> QED BY <3>2, <3>3
  <2>8. g[0] = base
    BY <2>2, <2>6 DEF Recursive
  <2> QED BY <2>6, <2>7, <2>8 DEF Recursive
<1>4. n \in N
  BY <1>2, <1>3, SetInduction
<1> QED BY <1>1, <1>4

\* Two recursive functions that start alike and take the same steps agree.
StepAlike(f, g, n) ==
  f[0] = g[0] /\ \A i \in 1..n : f[i - 1] = g[i - 1] => f[i] = g[i]

LEMMA RecursionIsUnique ==
  ASSUME NEW n \in Nat, NEW f, NEW g, StepAlike(f, g, n)
  PROVE  \A i \in 0..n : f[i] = g[i]
<1>1. PICK N : N = {i \in Nat : i <= n => f[i] = g[i]}
  OBVIOUS
<1>2. \A i \in Nat : i \in N => i + 1 \in N
  <2>1. SUFFICES ASSUME NEW i \in Nat, i \in N, i + 1 <= n
                 PROVE  f[i + 1] = g[i + 1]
    BY <1>1
  <2>2. f[i] = g[i] /\ i + 1 \in 1..n
    BY <1>1, <2>1
  <2>3. i + 1 - 1 = i
    OBVIOUS
  <2> QED BY <2>2, <2>3 DEF StepAlike
<1>3. Nat \subseteq N
  <2>1. 0 \in N
    BY <1>1 DEF StepAlike
  <2> QED BY <1>2, <2>1, SetInduction
<1> QED BY <1>1, <1>3

\* What is bounded has a maximum.
LEMMA HasMaximum ==
  ASSUME NEW S, S # {}, NEW f \in [S -> Nat], NEW b \in Nat, \A q \in S : f[q] <= b
  PROVE  \E p \in S : \A q \in S : f[q] <= f[p]
<1>1. SUFFICES ASSUME \A p \in S : \E q \in S : f[p] < f[q]
               PROVE  FALSE
  OBVIOUS
<1>2. PICK N : N = {n \in Nat : \E q \in S : f[q] >= n}
  OBVIOUS
<1>3. 0 \in N
  BY <1>2
<1>4. ASSUME NEW n \in Nat, n \in N
      PROVE  n + 1 \in N
  <2>1. PICK p \in S : f[p] >= n
    BY <1>2, <1>4
  <2>2. PICK q \in S : f[p] < f[q]
    BY <1>1
  <2>3. f[q] >= n + 1
    BY <2>1, <2>2
  <2> QED BY <1>2, <2>3
<1>5. Nat \subseteq N
  BY <1>3, <1>4, SetInduction
<1>6. b + 1 \in N
  BY <1>5
<1>7. PICK q \in S : f[q] >= b + 1
  BY <1>2, <1>6
<1> QED BY <1>7

\* The first of the numbers from a on that are in S.
LEMMA Least ==
  ASSUME NEW S \in SUBSET Nat, NEW b \in S
  PROVE  \E j \in S : \A k \in Nat : k < j => k \notin S
<1>1. SUFFICES ASSUME \A j \in S : \E k \in S : k < j
               PROVE  FALSE
  OBVIOUS
<1>2. PICK N : N = {n \in Nat : \A k \in 0..n : k \notin S}
  OBVIOUS
<1>3. 0 \in N
  BY <1>1, <1>2
<1>4. ASSUME NEW n \in Nat, n \in N
      PROVE  n + 1 \in N
  <2>1. n + 1 \notin S
    BY <1>1, <1>2, <1>4
  <2> QED BY <1>2, <1>4, <2>1
<1>5. b \in N
  BY <1>3, <1>4, SetInduction
<1> QED BY <1>2, <1>5

-----------------------------------------------------------------------------
(* Folding a set: what FoldSet does. *)

\* An element of every set that has one.
Chooses(choose, T) == \A s \in SUBSET T : s # {} => choose[s] \in s

LEMMA FoldInduction ==
  ASSUME NEW T, IsFiniteSet(T), NEW choose, Chooses(choose, T), NEW G, {} \in G,
         \A s \in SUBSET T : s # {} /\ s \ {choose[s]} \in G => s \in G
  PROVE  SUBSET T \subseteq G
<1>1. PICK N : N = {n \in Nat : \A s \in SUBSET T : Cardinality(s) = n => s \in G}
  OBVIOUS
<1>2. 0 \in N
  <2>1. \A s \in SUBSET T : Cardinality(s) = 0 => s = {}
    BY FS_Subset, FS_EmptySet
  <2> QED BY <1>1, <2>1
<1>3. ASSUME NEW n \in Nat, n \in N
      PROVE  n + 1 \in N
  <2>1. SUFFICES ASSUME NEW s \in SUBSET T, Cardinality(s) = n + 1
                 PROVE  s \in G
    BY <1>1
  <2>2. s # {}
    <3>1. s = {} => Cardinality(s) = 0
      BY FS_EmptySet
    <3> QED BY <2>1, <3>1
  <2>3. choose[s] \in s
    BY <2>2 DEF Chooses
  <2>4. PICK r : r = s \ {choose[s]}
    OBVIOUS
  <2>5. IsFiniteSet(s)
    BY FS_Subset
  <2>6. Cardinality(r) = n
    <3>1. Cardinality(r) = Cardinality(s) - 1
      BY <2>3, <2>4, <2>5, FS_RemoveElement
    <3> QED BY <2>1, <3>1
  <2>7. r \in G
    BY <1>1, <1>3, <2>4, <2>6
  <2> QED BY <2>2, <2>4, <2>7
<1>4. Nat \subseteq N
  BY <1>2, <1>3, SetInduction
<1>5. SUFFICES ASSUME NEW s \in SUBSET T
               PROVE  s \in G
  OBVIOUS
<1>6. IsFiniteSet(s)
  BY FS_Subset
<1>7. Cardinality(s) \in Nat
  BY <1>6, FS_CardinalityType
<1> QED BY <1>1, <1>4, <1>7

\* The values of the fold for the sets of D.
Folded(g, D, base, choose, step) ==
  \A s \in D : g[s] = IF s = {} THEN base ELSE step[choose[s]][g[s \ {choose[s]}]]

LEMMA FoldExists ==
  ASSUME NEW T, IsFiniteSet(T), NEW choose, Chooses(choose, T),
         NEW V, NEW base \in V, NEW step \in [T -> [V -> V]]
  PROVE  \E g \in [SUBSET T -> V] : Folded(g, SUBSET T, base, choose, step)
<1>1. PICK D : D = [n \in Nat |-> {s \in SUBSET T : Cardinality(s) <= n}]
  OBVIOUS
<1>2. PICK N :
        N = {n \in Nat : \E g \in [D[n] -> V] : Folded(g, D[n], base, choose, step)}
  OBVIOUS
<1>3. \A s \in SUBSET T : IsFiniteSet(s) /\ Cardinality(s) \in Nat
  BY FS_Subset, FS_CardinalityType
<1>4. 0 \in N
  <2>1. \A s \in D[0] : s = {}
    BY <1>1, <1>3, FS_EmptySet
  <2>2. PICK g : g = [s \in D[0] |-> base]
    OBVIOUS
  <2> QED BY <1>2, <2>1, <2>2 DEF Folded
<1>5. ASSUME NEW n \in Nat, n \in N
      PROVE  n + 1 \in N
  <2>1. PICK f \in [D[n] -> V] : Folded(f, D[n], base, choose, step)
    BY <1>2, <1>5
  <2>2. PICK g :
          g = [s \in D[n + 1] |-> IF s = {} THEN base ELSE step[choose[s]][f[s \ {choose[s]}]]]
    OBVIOUS
  <2>3. ASSUME NEW s \in D[n + 1], s # {}
        PROVE  choose[s] \in T /\ s \ {choose[s]} \in D[n]
    <3>1. s \in SUBSET T /\ Cardinality(s) <= n + 1
      BY <1>1
    <3>2. choose[s] \in s
      BY <2>3, <3>1 DEF Chooses
    <3>3. Cardinality(s \ {choose[s]}) = Cardinality(s) - 1
      BY <1>3, <3>1, <3>2, FS_RemoveElement
    <3>4. Cardinality(s \ {choose[s]}) <= n
      BY <1>3, <3>1, <3>3
    <3> QED BY <1>1, <3>1, <3>2, <3>4
  <2>4. g \in [D[n + 1] -> V]
    <3>1. \A s \in D[n + 1] : s # {} => step[choose[s]][f[s \ {choose[s]}]] \in V
      BY <2>1, <2>3
    <3> QED BY <2>2, <3>1
  <2>5. \A s \in D[n] : s \in D[n + 1] /\ g[s] = f[s]
    <3>1. \A s \in D[n] : s \in D[n + 1]
      BY <1>1, <1>3
    <3> QED BY <2>1, <2>2, <3>1 DEF Folded
  <2>6. Folded(g, D[n + 1], base, choose, step)
    BY <2>2, <2>3, <2>5 DEF Folded
  <2>7. n + 1 \in Nat
    OBVIOUS
  <2> QED BY <1>2, <2>4, <2>6, <2>7
<1>6. Nat \subseteq N
  BY <1>4, <1>5, SetInduction
<1>7. PICK m \in Nat : m = Cardinality(T)
  BY FS_CardinalityType
<1>8. D[m] = SUBSET T
  BY <1>1, <1>3, <1>7, FS_Subset
<1> QED BY <1>2, <1>6, <1>7, <1>8, ZenonT(60)

-----------------------------------------------------------------------------
(* The filter *)

\* What is kept of the first n elements.
Filters(kept, s, S) ==
  /\ kept[0] = <<>>
  /\ \A n \in 1..Len(s) :
       kept[n] = IF s[n] \in S THEN Append(kept[n - 1], s[n]) ELSE kept[n - 1]

\* Among is what its recursion says.
LEMMA AmongRecursion ==
  ASSUME NEW T, NEW s \in Seq(T), NEW S
  PROVE  \E kept \in [0..Len(s) -> Seq(T)] :
           Filters(kept, s, S) /\ Among(s, S) = kept[Len(s)]
<1>1. PICK step :
        step = [p \in Seq(T) \X (1..Len(s)) |->
                  IF s[p[2]] \in S THEN Append(p[1], s[p[2]]) ELSE p[1]]
  OBVIOUS
<1>2. Len(s) \in Nat /\ \A n \in 1..Len(s) : s[n] \in T
  BY LenProperties, ElementOfSeq
<1>3. step \in [Seq(T) \X (1..Len(s)) -> Seq(T)]
  BY <1>1, <1>2, AppendProperties
<1>4. PICK f \in [0..Len(s) -> Seq(T)] : Recursive(f, <<>>, Len(s), step)
  <2>1. Len(s) \in Nat /\ <<>> \in Seq(T)
    BY <1>2
  <2> QED BY <1>3, <2>1, Recursion
<1>5. Filters(f, s, S)
  <2>1. \A n \in 1..Len(s) : n - 1 \in 0..Len(s)
    BY <1>2
  <2> QED BY <1>1, <1>4, <2>1 DEF Recursive, Filters
<1>6. f = [n \in 0..Len(s) |->
             IF n = 0 THEN <<>>
             ELSE IF s[n] \in S THEN Append(f[n - 1], s[n]) ELSE f[n - 1]]
  <2>1. \A n \in 0..Len(s) : n = 0 \/ n \in 1..Len(s)
    BY <1>2
  <2> QED BY <1>5, <2>1 DEF Filters
<1>7. PICK kept :
        /\ kept = CHOOSE k : k = [n \in 0..Len(s) |->
             IF n = 0 THEN <<>>
             ELSE IF s[n] \in S THEN Append(k[n - 1], s[n]) ELSE k[n - 1]]
        /\ Among(s, S) = kept[Len(s)]
  BY DEF Among
<1>8. kept = [n \in 0..Len(s) |->
                IF n = 0 THEN <<>>
                ELSE IF s[n] \in S THEN Append(kept[n - 1], s[n]) ELSE kept[n - 1]]
  BY <1>6, <1>7
<1>9. Filters(kept, s, S)
  <2>1. 0 \in 0..Len(s) /\ \A n \in 1..Len(s) : n \in 0..Len(s) /\ n # 0
    BY <1>2
  <2> QED BY <1>8, <2>1 DEF Filters
<1>10. kept \in [0..Len(s) -> Seq(T)]
  <2>1. StepAlike(f, kept, Len(s))
    BY <1>5, <1>9 DEF Filters, StepAlike
  <2>2. Len(s) \in Nat
    BY <1>2
  <2>3. \A n \in 0..Len(s) : f[n] = kept[n]
    BY <2>1, <2>2, RecursionIsUnique
  <2> QED BY <1>4, <1>8, <2>3
<1> QED BY <1>7, <1>9, <1>10

LEMMA AmongEmpty ==
  ASSUME NEW S
  PROVE  Among(<<>>, S) = <<>>
<1>1. PICK s : s = <<>>
  OBVIOUS
<1>2. s \in Seq({}) /\ Len(s) = 0
  BY <1>1
<1>3. PICK kept : Filters(kept, s, S) /\ Among(s, S) = kept[Len(s)]
  BY <1>2, AmongRecursion
<1> QED BY <1>1, <1>2, <1>3 DEF Filters

LEMMA AmongAppend ==
  ASSUME NEW T, NEW s \in Seq(T), NEW e \in T, NEW S
  PROVE  /\ Among(s, S) \in Seq(T)
         /\ Among(Append(s, e), S)
              = IF e \in S THEN Append(Among(s, S), e) ELSE Among(s, S)
<1>1. PICK t : t = Append(s, e)
  OBVIOUS
<1>2. PICK m : m = Len(s)
  OBVIOUS
<1>3. /\ t \in Seq(T) /\ Len(t) = m + 1 /\ t[m + 1] = e
      /\ \A i \in 1..m : t[i] = s[i]
      /\ m \in Nat
  BY <1>1, <1>2, AppendProperties, LenProperties
<1>4. PICK f \in [0..Len(s) -> Seq(T)] : Filters(f, s, S) /\ Among(s, S) = f[Len(s)]
  BY AmongRecursion
<1>5. PICK g \in [0..Len(t) -> Seq(T)] : Filters(g, t, S) /\ Among(t, S) = g[Len(t)]
  BY <1>3, AmongRecursion
<1>6. /\ f[0] = <<>> /\ g[0] = <<>>
      /\ \A n \in 1..m :
           f[n] = IF s[n] \in S THEN Append(f[n - 1], s[n]) ELSE f[n - 1]
      /\ \A n \in 1..(m + 1) :
           g[n] = IF t[n] \in S THEN Append(g[n - 1], t[n]) ELSE g[n - 1]
  BY <1>2, <1>3, <1>4, <1>5 DEF Filters
<1>7. f[m] = g[m]
  <2>1. m \in Nat
    BY <1>3
  <2>2. ASSUME NEW n \in 1..m, f[n - 1] = g[n - 1]
        PROVE  f[n] = g[n]
    <3>1. t[n] = s[n] /\ n \in 1..(m + 1)
      BY <1>3
    <3> QED BY <1>6, <2>2, <3>1
  <2>3. StepAlike(f, g, m)
    BY <1>6, <2>2 DEF StepAlike
  <2>4. \A n \in 0..m : f[n] = g[n]
    BY <2>1, <2>3, RecursionIsUnique
  <2>5. m \in 0..m
    BY <2>1
  <2> QED BY <2>4, <2>5
<1>8. g[m + 1] = IF e \in S THEN Append(g[m], e) ELSE g[m]
  <2>1. m + 1 \in 1..(m + 1) /\ m + 1 - 1 = m
    BY <1>3
  <2> QED BY <1>3, <1>6, <2>1
<1>9. /\ Among(s, S) = f[m] /\ f[m] \in Seq(T)
      /\ Among(t, S) = g[m + 1]
  BY <1>2, <1>3, <1>4, <1>5
<1> QED BY <1>1, <1>7, <1>8, <1>9

LEMMA AmongTyped ==
  ASSUME NEW T, NEW s \in Seq(T), NEW S
  PROVE  Among(s, S) \in Seq(T)
<1>1. PICK kept \in [0..Len(s) -> Seq(T)] : Among(s, S) = kept[Len(s)]
  BY AmongRecursion
<1>2. Len(s) \in 0..Len(s)
  BY LenProperties
<1> QED BY <1>1, <1>2

LEMMA AmongMember ==
  ASSUME NEW T, NEW s \in Seq(T), NEW e \in T, NEW S, e \in S
  PROVE  Among(Append(s, e), S) = Append(Among(s, S), e)
<1> QED BY AmongAppend

LEMMA AmongOther ==
  ASSUME NEW T, NEW s \in Seq(T), NEW e \in T, NEW S, e \notin S
  PROVE  Among(Append(s, e), S) = Among(s, S)
<1> QED BY AmongAppend
=============================================================================
