----------------------------- MODULE FoldFacts -----------------------------
(***************************************************************************)
(* What a fold of the community modules computes, one element at a time:   *)
(* over a sequence from the left, and over a function in any order. The    *)
(* operator is a constant, so that a proof instantiates the module for the *)
(* operator it folds with. Induction is the least counterexample, over the *)
(* naturals and over the subsets of a finite set.                          *)
(***************************************************************************)
EXTENDS SequencesExt, FiniteSetTheorems, SequenceTheorems, TLAPS

CONSTANT op(_, _)

-----------------------------------------------------------------------------
(* Least counterexamples. *)

LEMMA LeastSubset ==
  ASSUME NEW S, IsFiniteSet(S), NEW T \in SUBSET (SUBSET S), T # {}
  PROVE  \E s \in T : \A t \in T : t \subseteq s => t = s
<1>1. T \subseteq FiniteSubsetsOf(S)
  BY FS_FiniteSubsetsOfFinite
<1>2. PICK s \in T : \A t \in T : <<t, s>> \notin StrictSubsetOrdering(S)
  BY <1>1, FS_StrictSubsetOrderingWellFounded, WFMin
<1>3. QED
  BY <1>2 DEF StrictSubsetOrdering

LEMMA LeastNumber ==
  ASSUME NEW T \in SUBSET Nat, T # {}
  PROVE  \E n \in T : \A m \in T : n <= m
<1>1. PICK k \in T : k \in Nat
  OBVIOUS
<1> DEFINE all == 0..k
           U == {0..n : n \in {m \in T : m <= k}}
<1>2. IsFiniteSet(all)
  BY <1>1, FS_Interval
<1>3. PICK s \in U : \A t \in U : t \subseteq s => t = s
  <2>1. U \in SUBSET (SUBSET all) /\ U # {}
    BY <1>1
  <2> HIDE DEF U, all
  <2>2. QED
    BY <1>2, <2>1, LeastSubset
<1>4. PICK n \in T : n <= k /\ s = 0..n
  BY <1>3
<1>5. ASSUME NEW m \in T, m < n PROVE FALSE
  <2>1. 0..m \in U /\ 0..m \subseteq s
    BY <1>4, <1>5
  <2>2. n \in s /\ n \notin 0..m
    BY <1>4, <1>5
  <2>3. QED
    BY <1>3, <2>1, <2>2
<1>6. QED
  BY <1>4, <1>5

LEMMA GreatestNumber ==
  ASSUME NEW A \in SUBSET Nat, IsFiniteSet(A), A # {}
  PROVE  \E x \in A : \A y \in A : y <= x
<1> DEFINE Above(x) == {y \in A : y > x}
           T == {Above(x) : x \in A}
<1>1. T \in SUBSET (SUBSET A) /\ T # {}
  OBVIOUS
<1>2. PICK t \in T : \A u \in T : u \subseteq t => u = t
  <2> DEFINE B == A
  <2>1. IsFiniteSet(B) /\ T \in SUBSET (SUBSET B) /\ T # {}
    BY <1>1
  <2> HIDE DEF T, B
  <2>2. QED
    BY <2>1, LeastSubset
<1>3. PICK x \in A : t = Above(x)
  BY <1>2
<1>4. ASSUME NEW y \in A, y > x PROVE FALSE
  <2>1. x \in Nat /\ y \in Nat
    OBVIOUS
  <2>2. Above(y) \in T
    OBVIOUS
  <2>3. y \in Above(x) /\ y \notin Above(y)
    BY <1>4, <2>1
  <2>4. ASSUME NEW z \in Above(y) PROVE z \in Above(x)
    <3>1. z \in Nat /\ z > y /\ z \in A
      BY <2>4
    <3>2. z > x
      BY <1>4, <2>1, <3>1
    <3>3. QED
      BY <3>1, <3>2
  <2>5. Above(y) \subseteq Above(x)
    BY <2>4
  <2> HIDE DEF Above, T
  <2>6. QED
    BY <1>2, <1>3, <2>2, <2>3, <2>5
<1>5. \A y \in A : ~(y > x) /\ x \in Nat /\ y \in Nat
  BY <1>4
<1>6. QED
  BY <1>5

-----------------------------------------------------------------------------
(* The recursive definition inside a fold has a solution. *)

\* One step: of the set s, the element that ch picks meets the fold of the rest,
\* from the right (a sequence) or from the left (a set).
Step(base, ch, elt, side, it, s) ==
  IF s = {} THEN base
  ELSE IF side = "right" THEN op(it[s \ {ch[s]}], elt[ch[s]]) ELSE op(elt[ch[s]], it[s \ {ch[s]}])

Solution(it, S, ch, base, elt, side) ==
  /\ it = [s \in SUBSET S |-> it[s]]
  /\ \A s \in SUBSET S : it[s] = Step(base, ch, elt, side, it, s)

LEMMA Solvable ==
  ASSUME NEW S, IsFiniteSet(S), NEW ch, \A s \in SUBSET S : s # {} => ch[s] \in s,
         NEW base, NEW elt, NEW side
  PROVE  \E it : Solution(it, S, ch, base, elt, side)
<1> DEFINE Small(s, n) == Cardinality(s) <= n
           Solves(it, n) == \A s \in SUBSET S : Small(s, n) => it[s] = Step(base, ch, elt, side, it, s)
           T == {n \in Nat : ~ \E it : Solves(it, n)}
<1>1. \A s \in SUBSET S : IsFiniteSet(s) /\ Cardinality(s) \in Nat
  BY FS_Subset, FS_CardinalityType
<1>2. \A s \in SUBSET S : Cardinality(s) = 0 <=> s = {}
  BY <1>1, FS_EmptySet
<1>3. ASSUME NEW s \in SUBSET S, s # {}
      PROVE  s \ {ch[s]} \in SUBSET S /\ Cardinality(s \ {ch[s]}) = Cardinality(s) - 1
  BY <1>1, <1>3, FS_RemoveElement
<1>4. T = {}
  <2> SUFFICES ASSUME T # {} PROVE FALSE
    OBVIOUS
  <2>1. PICK n \in T : \A m \in T : n <= m
    BY LeastNumber
  <2>2. CASE n = 0
    <3> DEFINE it == [s \in SUBSET S |-> base]
    <3>1. ASSUME NEW s \in SUBSET S, Small(s, 0) PROVE it[s] = Step(base, ch, elt, side, it, s)
      BY <1>1, <1>2, <3>1 DEF Step
    <3>2. QED
      BY <2>1, <2>2, <3>1
  <2>3. CASE n # 0
    <3>1. n - 1 \in Nat /\ n - 1 \notin T
      BY <2>1, <2>3
    <3>2. PICK g : Solves(g, n - 1)
      BY <3>1
    <3> DEFINE it == [s \in SUBSET S |-> Step(base, ch, elt, side, g, s)]
    <3>3. ASSUME NEW s \in SUBSET S, Small(s, n) PROVE it[s] = Step(base, ch, elt, side, it, s)
      <4>1. CASE s = {}
        BY <4>1 DEF Step
      <4>2. CASE s # {}
        <5> DEFINE rest == s \ {ch[s]}
        <5>1. rest \in SUBSET S /\ Small(rest, n - 1)
          BY <1>1, <1>3, <2>1, <3>3, <4>2
        <5>2. it[rest] = g[rest]
          BY <3>2, <5>1
        <5>3. QED
          BY <4>2, <5>2 DEF Step
      <4>3. QED
        BY <4>1, <4>2
    <3>4. Solves(it, n)
      BY <3>3
    <3>5. QED
      BY <2>1, <3>4
  <2>4. QED
    BY <2>2, <2>3
<1>5. PICK it : Solves(it, Cardinality(S))
  BY <1>1, <1>4
<1> DEFINE solution == [s \in SUBSET S |-> Step(base, ch, elt, side, it, s)]
<1>6. ASSUME NEW s \in SUBSET S PROVE it[s] = solution[s]
  BY <1>1, <1>5, <1>6, FS_Subset
<1>7. ASSUME NEW s \in SUBSET S
      PROVE  Step(base, ch, elt, side, it, s) = Step(base, ch, elt, side, solution, s)
  <2>1. CASE s = {}
    BY <2>1 DEF Step
  <2>2. CASE s # {}
    <3>1. it[s \ {ch[s]}] = solution[s \ {ch[s]}]
      BY <1>3, <1>6, <2>2
    <3> HIDE DEF solution
    <3>2. QED
      BY <2>2, <3>1 DEF Step
  <2>3. QED
    BY <2>1, <2>2
<1>8. /\ solution = [s \in SUBSET S |-> solution[s]]
      /\ \A s \in SUBSET S : solution[s] = Step(base, ch, elt, side, solution, s)
  BY <1>7
<1> HIDE DEF solution
<1>9. QED
  BY <1>8 DEF Solution

-----------------------------------------------------------------------------
(* Sequences, from the left. *)

\* The greatest of 1..n is n.
LEMMA MaxOfInterval == ASSUME NEW n \in Nat, n # 0 PROVE Max(1..n) = n
BY DEF Max

LEMMA MaxOfSome == ASSUME NEW n \in Nat, NEW s \in SUBSET (1..n), s # {} PROVE Max(s) \in s
<1> DEFINE below == {n - x : x \in s}
<1>1. \A x \in s : x \in Nat /\ n - x \in Nat
  OBVIOUS
<1>2. below \in SUBSET Nat /\ below # {} /\ \A x \in s : n - x \in below
  BY <1>1
<1>3. PICK m \in below : \A k \in below : m <= k
  <2> HIDE DEF below
  <2> QED
    BY <1>2, LeastNumber
<1>4. PICK x \in s : m = n - x
  OBVIOUS
<1> HIDE DEF below
<1>5. ASSUME NEW y \in s PROVE x >= y
  <2>1. n - x <= n - y
    BY <1>2, <1>3, <1>4
  <2>2. QED
    BY <1>1, <2>1
<1>6. QED
  BY <1>5 DEF Max

\* A fold is the last of a series of results, one for each element.
LEMMA FoldLeftTurns ==
  ASSUME NEW T, NEW seq \in Seq(T), NEW base
  PROVE  \E at : /\ at[0] = base
                 /\ \A i \in 0..(Len(seq) - 1) : at[i + 1] = op(at[i], seq[i + 1])
                 /\ FoldLeft(op, base, seq) = at[Len(seq)]
<1> DEFINE n == Len(seq)
           D == 1..n
           ch == [s \in SUBSET D |-> Max(s)]
           P(it) == it = [s \in SUBSET D |-> IF s = {} THEN base
                                            ELSE op(it[s \ {Max(s)}], seq[Max(s)])]
           iter == CHOOSE it : P(it)
           at == [i \in 0..n |-> iter[1..i]]
<1>1. n \in Nat /\ DOMAIN seq = D /\ IsFiniteSet(D)
  BY FS_Interval
<1>2. \A s \in SUBSET D : ch[s] = Max(s) /\ (s # {} => ch[s] \in s)
  BY <1>1, MaxOfSome
<1>3. PICK it : Solution(it, D, ch, base, seq, "right")
  <2>1. \A s \in SUBSET D : s # {} => ch[s] \in s
    BY <1>2
  <2> HIDE DEF D, ch
  <2>2. QED
    BY <1>1, <2>1, Solvable
<1>4. P(it)
  BY <1>2, <1>3 DEF Solution, Step
<1>5. P(iter)
  BY <1>4
<1>6. FoldLeft(op, base, seq) = iter[D]
  BY <1>1 DEF FoldLeft, MapThenFoldSet
<1> HIDE DEF iter, n
<1>7. at[0] = base /\ at[n] = iter[D]
  <2>1. 1..0 = {} /\ {} \in SUBSET D
    OBVIOUS
  <2>2. iter[{}] = base
    BY <1>5, <2>1
  <2>3. QED
    BY <1>1, <2>1, <2>2
<1>8. ASSUME NEW i \in 0..(n - 1) PROVE at[i + 1] = op(at[i], seq[i + 1])
  <2> DEFINE s == 1..(i + 1)
  <2>1. i \in Nat /\ i + 1 \in Nat \ {0} /\ i + 1 \in D
    BY <1>1
  <2>2. s \in SUBSET D /\ s # {}
    <3>1. i + 1 <= n /\ 1 \in s
      BY <1>1, <2>1
    <3> HIDE DEF n
    <3>2. s \subseteq D
      BY <1>1, <2>1, <3>1
    <3>3. QED
      BY <3>1, <3>2
  <2>3. Max(s) = i + 1 /\ s \ {i + 1} = 1..i
    BY <2>1, MaxOfInterval
  <2>4. at[i + 1] = iter[s] /\ at[i] = iter[1..i]
    BY <1>1
  <2> HIDE DEF s, at
  <2>5. iter[s] = op(iter[s \ {Max(s)}], seq[Max(s)])
    BY <1>5, <2>2
  <2>6. QED
    BY <2>3, <2>4, <2>5
<1>9. QED
  BY <1>6, <1>7, <1>8 DEF n

LEMMA FoldLeftOfLengthZero ==
  ASSUME NEW T, NEW seq \in Seq(T), NEW base
  PROVE  Len(seq) = 0 => FoldLeft(op, base, seq) = base
<1>1. PICK at : /\ at[0] = base
                /\ \A i \in 0..(Len(seq) - 1) : at[i + 1] = op(at[i], seq[i + 1])
                /\ FoldLeft(op, base, seq) = at[Len(seq)]
  BY FoldLeftTurns
<1>2. QED
  BY <1>1

THEOREM FoldLeftEmpty == ASSUME NEW base PROVE FoldLeft(op, base, <<>>) = base
<1>1. <<>> \in Seq({}) /\ Len(<<>>) = 0
  OBVIOUS
<1>2. QED
  BY <1>1, FoldLeftOfLengthZero

\* The folds of a few elements.
THEOREM FoldLeftFew ==
  ASSUME NEW T, NEW seq \in Seq(T), NEW base
  PROVE  /\ Len(seq) = 1 => FoldLeft(op, base, seq) = op(base, seq[1])
         /\ Len(seq) = 2 => FoldLeft(op, base, seq) = op(op(base, seq[1]), seq[2])
         /\ Len(seq) = 3 => FoldLeft(op, base, seq) = op(op(op(base, seq[1]), seq[2]), seq[3])
<1>1. PICK at : /\ at[0] = base
                /\ \A i \in 0..(Len(seq) - 1) : at[i + 1] = op(at[i], seq[i + 1])
                /\ FoldLeft(op, base, seq) = at[Len(seq)]
  BY FoldLeftTurns
<1>2. Len(seq) >= 1 => at[1] = op(base, seq[1])
  <2>1. Len(seq) >= 1 => 0 \in 0..(Len(seq) - 1) /\ 0 + 1 = 1
    OBVIOUS
  <2>2. QED
    BY <1>1, <2>1
<1>3. Len(seq) >= 2 => at[2] = op(at[1], seq[2])
  <2>1. Len(seq) >= 2 => 1 \in 0..(Len(seq) - 1) /\ 1 + 1 = 2
    OBVIOUS
  <2>2. QED
    BY <1>1, <2>1
<1>4. Len(seq) >= 3 => at[3] = op(at[2], seq[3])
  <2>1. Len(seq) >= 3 => 2 \in 0..(Len(seq) - 1) /\ 2 + 1 = 3
    OBVIOUS
  <2>2. QED
    BY <1>1, <2>1
<1>5. QED
  BY <1>1, <1>2, <1>3, <1>4

\* The last element of a sequence is folded in last.
THEOREM FoldLeftAppend ==
  ASSUME NEW T, NEW seq \in Seq(T), NEW x \in T, NEW base
  PROVE  FoldLeft(op, base, Append(seq, x)) = op(FoldLeft(op, base, seq), x)
<1> DEFINE n == Len(seq)
           longer == Append(seq, x)
<1>1. /\ longer \in Seq(T) /\ Len(longer) = n + 1 /\ n \in Nat
      /\ \A i \in 1..n : longer[i] = seq[i]
      /\ longer[n + 1] = x
  BY AppendProperties
<1> HIDE DEF longer
<1>2. PICK a : /\ a[0] = base
               /\ \A i \in 0..(n - 1) : a[i + 1] = op(a[i], seq[i + 1])
               /\ FoldLeft(op, base, seq) = a[n]
  BY FoldLeftTurns
<1>3. PICK b : /\ b[0] = base
               /\ \A i \in 0..n : b[i + 1] = op(b[i], longer[i + 1])
               /\ FoldLeft(op, base, longer) = b[n + 1]
  <2>1. PICK b : /\ b[0] = base
                 /\ \A i \in 0..(Len(longer) - 1) : b[i + 1] = op(b[i], longer[i + 1])
                 /\ FoldLeft(op, base, longer) = b[Len(longer)]
    BY <1>1, FoldLeftTurns
  <2>2. QED
    BY <1>1, <2>1
<1>4. \A i \in 0..n : a[i] = b[i]
  <2> DEFINE Differ == {i \in 0..n : a[i] # b[i]}
  <2> SUFFICES ASSUME Differ # {} PROVE FALSE
    OBVIOUS
  <2>1. PICK k \in Differ : \A m \in Differ : k <= m
    <3>1. Differ \in SUBSET Nat
      BY <1>1
    <3> HIDE DEF Differ
    <3>2. QED
      BY <3>1, LeastNumber
  <2>2. k # 0 /\ k - 1 \in 0..(n - 1) /\ k - 1 \notin Differ
    BY <1>1, <1>2, <1>3, <2>1
  <2>3. a[k] = op(a[k - 1], seq[k]) /\ b[k] = op(b[k - 1], longer[k]) /\ longer[k] = seq[k]
    <3>1. k \in 1..n /\ (k - 1) + 1 = k /\ k - 1 \in 0..n
      BY <1>1, <2>2
    <3>2. QED
      BY <1>1, <1>2, <1>3, <2>2, <3>1
  <2>4. QED
    BY <2>1, <2>2, <2>3
<1>5. QED
  BY <1>1, <1>2, <1>3, <1>4 DEF longer

-----------------------------------------------------------------------------
(* Functions, in any order. *)

\* What the recursive definition computes for a set does not depend on the set
\* the definition was opened on.
LEMMA SolutionsAgree ==
  ASSUME NEW S, IsFiniteSet(S), NEW ch, \A s \in SUBSET S : s # {} => ch[s] \in s,
         NEW base, NEW elt, NEW side, NEW R \in SUBSET S,
         NEW it, Solution(it, S, ch, base, elt, side),
         NEW jt, Solution(jt, R, ch, base, elt, side)
  PROVE  \A s \in SUBSET R : it[s] = jt[s]
<1> DEFINE Differ == {s \in SUBSET R : it[s] # jt[s]}
<1> SUFFICES ASSUME Differ # {} PROVE FALSE
  OBVIOUS
<1>1. PICK s \in Differ : \A t \in Differ : t \subseteq s => t = s
  <2>1. IsFiniteSet(R) /\ Differ \in SUBSET (SUBSET R)
    BY FS_Subset
  <2> HIDE DEF Differ
  <2>2. QED
    BY <2>1, LeastSubset
<1>2. s \in SUBSET R /\ s \in SUBSET S /\ it[s] # jt[s]
  BY <1>1
<1>3. it[s] = Step(base, ch, elt, side, it, s) /\ jt[s] = Step(base, ch, elt, side, jt, s)
  BY <1>2 DEF Solution
<1>4. CASE s = {}
  BY <1>2, <1>3, <1>4 DEF Step
<1>5. CASE s # {}
  <2>1. ch[s] \in s
    BY <1>2, <1>5
  <2>2. s \ {ch[s]} \in SUBSET R /\ s \ {ch[s]} \notin Differ
    BY <1>1, <1>2, <2>1
  <2>3. it[s \ {ch[s]}] = jt[s \ {ch[s]}]
    BY <2>2
  <2>4. QED
    BY <1>2, <1>3, <1>5, <2>3 DEF Step
<1>6. QED
  BY <1>4, <1>5

Fold(base, fun, S) == FoldFunctionOnSet(op, base, fun, S)

\* One recursive function gives the fold of every part of a finite set.
LEMMA FoldsTogether ==
  ASSUME NEW S, IsFiniteSet(S), NEW fun, NEW base
  PROVE  \E it, ch : /\ \A s \in SUBSET S : s # {} => ch[s] \in s
                     /\ \A s \in SUBSET S : ch[s] = CHOOSE x \in s : TRUE
                     /\ \A s \in SUBSET S : it[s] = Fold(base, fun, s)
                     /\ Solution(it, S, ch, base, fun, "left")
<1> DEFINE ch == [s \in SUBSET S |-> CHOOSE x \in s : TRUE]
<1>1. \A s \in SUBSET S : (s # {} => ch[s] \in s) /\ ch[s] = CHOOSE x \in s : TRUE
  OBVIOUS
<1>2. PICK it : Solution(it, S, ch, base, fun, "left")
  <2> HIDE DEF ch
  <2>1. QED
    BY <1>1, Solvable
<1>3. ASSUME NEW R \in SUBSET S PROVE it[R] = Fold(base, fun, R)
  <2> DEFINE P(jt) == jt = [s \in SUBSET R |-> IF s = {} THEN base
                              ELSE op(fun[CHOOSE x \in s : TRUE],
                                      jt[s \ {CHOOSE x \in s : TRUE}])]
             iter == CHOOSE jt : P(jt)
  <2>1. IsFiniteSet(R) /\ \A s \in SUBSET R : s # {} => ch[s] \in s
    BY <1>1, FS_Subset
  <2>2. \A s \in SUBSET R : ch[s] = CHOOSE x \in s : TRUE
    OBVIOUS
  <2>3. PICK jt : Solution(jt, R, ch, base, fun, "left")
    <3> HIDE DEF ch
    <3>1. QED
      BY <2>1, Solvable
  <2>4. P(jt)
    <3> HIDE DEF ch
    <3>1. QED
      BY <2>2, <2>3 DEF Solution, Step
  <2>5. P(iter)
    BY <2>4
  <2>6. Fold(base, fun, R) = iter[R]
    BY DEF Fold, FoldFunctionOnSet, MapThenFoldSet
  <2> HIDE DEF iter
  <2>7. Solution(iter, R, ch, base, fun, "left")
    <3> HIDE DEF ch
    <3>1. QED
      BY <2>2, <2>5 DEF Solution, Step
  <2> HIDE DEF ch
  <2>8. it[R] = iter[R]
    BY <1>1, <1>2, <2>7, SolutionsAgree
  <2>9. QED
    BY <2>6, <2>8
<1> HIDE DEF ch
<1>4. QED
  BY <1>1, <1>2, <1>3

\* A fold of nothing is the base.
THEOREM FoldEmpty == ASSUME NEW fun, NEW base PROVE Fold(base, fun, {}) = base
<1>1. IsFiniteSet({}) /\ {} \in SUBSET {}
  BY FS_EmptySet
<1>2. PICK it, ch : /\ \A s \in SUBSET {} : s # {} => ch[s] \in s
                    /\ \A s \in SUBSET {} : ch[s] = CHOOSE x \in s : TRUE
                    /\ \A s \in SUBSET {} : it[s] = Fold(base, fun, s)
                    /\ Solution(it, {}, ch, base, fun, "left")
  BY <1>1, FoldsTogether
<1>3. QED
  BY <1>1, <1>2 DEF Solution, Step

\* One element of a set, whatever the function, meets the fold of the others.
THEOREM FoldStep ==
  ASSUME NEW S, IsFiniteSet(S), S # {}
  PROVE  \E x \in S : \A fun, base :
           Fold(base, fun, S) = op(fun[x], Fold(base, fun, S \ {x}))
<1> DEFINE x == CHOOSE y \in S : TRUE
<1>1. x \in S
  OBVIOUS
<1> SUFFICES ASSUME NEW fun, NEW base
             PROVE  Fold(base, fun, S) = op(fun[x], Fold(base, fun, S \ {x}))
  BY <1>1
<1>2. PICK it, ch : /\ \A s \in SUBSET S : s # {} => ch[s] \in s
                    /\ \A s \in SUBSET S : ch[s] = CHOOSE y \in s : TRUE
                    /\ \A s \in SUBSET S : it[s] = Fold(base, fun, s)
                    /\ Solution(it, S, ch, base, fun, "left")
  BY FoldsTogether
<1>3. ch[S] = x /\ S \in SUBSET S /\ S \ {x} \in SUBSET S
  BY <1>2
<1> HIDE DEF x
<1>4. QED
  BY <1>2, <1>3 DEF Solution, Step

\* A fold stays in a type its operator stays in.
THEOREM FoldType ==
  ASSUME NEW T, \A a, b \in T : op(a, b) \in T,
         NEW S, IsFiniteSet(S), NEW fun, \A i \in S : fun[i] \in T, NEW base \in T
  PROVE  Fold(base, fun, S) \in T
<1> DEFINE Bad == {s \in SUBSET S : Fold(base, fun, s) \notin T}
<1> SUFFICES ASSUME Bad # {} PROVE FALSE
  OBVIOUS
<1>1. PICK s \in Bad : \A t \in Bad : t \subseteq s => t = s
  <2>1. Bad \in SUBSET (SUBSET S)
    OBVIOUS
  <2> HIDE DEF Bad
  <2>2. QED
    BY <2>1, LeastSubset
<1>2. s # {} /\ s \in SUBSET S /\ IsFiniteSet(s)
  BY FoldEmpty, FS_Subset
<1>3. PICK x \in s : Fold(base, fun, s) = op(fun[x], Fold(base, fun, s \ {x}))
  BY <1>2, FoldStep
<1>4. s \ {x} \in SUBSET S /\ s \ {x} \notin Bad
  BY <1>1, <1>2
<1>5. QED
  BY <1>2, <1>3, <1>4

\* Two functions related element by element, by a relation the operator keeps,
\* have related folds.
THEOREM FoldRelated ==
  ASSUME NEW T, NEW U, NEW R,
         \A a, c \in T : op(a, c) \in T,
         \A b, d \in U : op(b, d) \in U,
         \A a, c \in T, b, d \in U :
           <<a, b>> \in R /\ <<c, d>> \in R => <<op(a, c), op(b, d)>> \in R,
         NEW S, IsFiniteSet(S), NEW f, NEW g,
         \A i \in S : f[i] \in T /\ g[i] \in U /\ <<f[i], g[i]>> \in R,
         NEW a0 \in T, NEW b0 \in U, <<a0, b0>> \in R
  PROVE  <<Fold(a0, f, S), Fold(b0, g, S)>> \in R
<1> DEFINE Bad == {s \in SUBSET S : <<Fold(a0, f, s), Fold(b0, g, s)>> \notin R}
<1> SUFFICES ASSUME Bad # {} PROVE FALSE
  OBVIOUS
<1>1. PICK s \in Bad : \A t \in Bad : t \subseteq s => t = s
  <2>1. Bad \in SUBSET (SUBSET S)
    OBVIOUS
  <2> HIDE DEF Bad
  <2>2. QED
    BY <2>1, LeastSubset
<1>2. s # {} /\ s \in SUBSET S /\ IsFiniteSet(s)
  BY FoldEmpty, FS_Subset
<1>3. PICK x \in s : \A fun, base : Fold(base, fun, s) = op(fun[x], Fold(base, fun, s \ {x}))
  BY <1>2, FoldStep
<1>4. s \ {x} \in SUBSET S /\ s \ {x} \notin Bad /\ IsFiniteSet(s \ {x})
  BY <1>1, <1>2, FS_Subset
<1>5. Fold(a0, f, s \ {x}) \in T
  BY <1>4, FoldType
<1>6. Fold(b0, g, s \ {x}) \in U
  BY <1>4, FoldType
<1>7. <<op(f[x], Fold(a0, f, s \ {x})), op(g[x], Fold(b0, g, s \ {x}))>> \in R
  BY <1>2, <1>4, <1>5, <1>6
<1>8. QED
  BY <1>3, <1>7

Abelian(T) ==
  /\ \A a, b \in T : op(a, b) \in T /\ op(a, b) = op(b, a)
  /\ \A a, b, c \in T : op(a, op(b, c)) = op(op(a, b), c)

\* The order does not matter to an operator that is associative and commutative:
\* any element can be taken out first.
THEOREM FoldTakesOut ==
  ASSUME NEW T, Abelian(T),
         NEW S, IsFiniteSet(S), NEW fun, \A i \in S : fun[i] \in T, NEW base \in T,
         NEW y \in S
  PROVE  Fold(base, fun, S) = op(fun[y], Fold(base, fun, S \ {y}))
<1> DEFINE Bad == {s \in SUBSET S : \E z \in s :
                     Fold(base, fun, s) # op(fun[z], Fold(base, fun, s \ {z}))}
<1> SUFFICES ASSUME Bad # {} PROVE FALSE
  OBVIOUS
<1>1. PICK s \in Bad : \A t \in Bad : t \subseteq s => t = s
  <2>1. Bad \in SUBSET (SUBSET S)
    OBVIOUS
  <2> HIDE DEF Bad
  <2>2. QED
    BY <2>1, LeastSubset
<1>2. s # {} /\ s \in SUBSET S /\ IsFiniteSet(s)
  BY FS_Subset
<1>3. PICK z \in s : Fold(base, fun, s) # op(fun[z], Fold(base, fun, s \ {z}))
  OBVIOUS
<1>4. PICK x \in s : \A f, b : Fold(b, f, s) = op(f[x], Fold(b, f, s \ {x}))
  BY <1>2, FoldStep
<1>5. x # z
  BY <1>3, <1>4
<1> DEFINE rest == (s \ {x}) \ {z}
<1>6. s \ {x} \notin Bad /\ s \ {z} \notin Bad /\ z \in s \ {x} /\ x \in s \ {z}
  BY <1>1, <1>2, <1>5
<1>7. Fold(base, fun, s \ {x}) = op(fun[z], Fold(base, fun, rest))
  BY <1>2, <1>6
<1>8. (s \ {z}) \ {x} = rest
  OBVIOUS
<1>9. Fold(base, fun, s \ {z}) = op(fun[x], Fold(base, fun, rest))
  BY <1>2, <1>6, <1>8
<1>10. fun[x] \in T /\ fun[z] \in T
  BY <1>2
<1>11. Fold(base, fun, rest) \in T
  <2>1. IsFiniteSet(rest) /\ \A i \in rest : fun[i] \in T
    BY <1>2, FS_Subset
  <2> HIDE DEF rest
  <2>2. QED
    BY <1>2, <2>1, FoldType DEF Abelian
<1> DEFINE r == Fold(base, fun, rest)
<1>12. r \in T
  BY <1>11
<1> HIDE DEF r, rest, Bad
<1>13. op(fun[x], op(fun[z], r)) = op(fun[z], op(fun[x], r))
  <2>1. \A a, b \in T : op(a, op(b, r)) = op(b, op(a, r))
    <3> SUFFICES ASSUME NEW a \in T, NEW b \in T PROVE op(a, op(b, r)) = op(b, op(a, r))
      OBVIOUS
    <3>1. op(a, op(b, r)) = op(op(a, b), r) /\ op(b, op(a, r)) = op(op(b, a), r)
      BY <1>12 DEF Abelian
    <3>2. op(a, b) = op(b, a)
      BY DEF Abelian
    <3>3. QED
      BY <3>1, <3>2
  <2>2. QED
    BY <1>10, <2>1
<1>14. QED
  BY <1>3, <1>4, <1>7, <1>9, <1>13 DEF r
=============================================================================
