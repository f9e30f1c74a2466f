----------------------------- MODULE SumProofs -----------------------------
(***************************************************************************)
(* Sums over finite sets: what SumFunctionOnSet of the community modules   *)
(* computes, for every finite set of indices.  A fold is a recursive       *)
(* function on the subsets of its set; the facts below are proved by       *)
(* induction on finite sets, in the form of a set of good subsets that     *)
(* contains the empty set and is closed under adding an element.  In the   *)
(* end, facts about integer division, and about recursive functions on     *)
(* 0 .. n.                                                                 *)
(***************************************************************************)
EXTENDS FiniteSetsExt, Sequences, WellFoundedInduction, TLAPS

\* A leaf goes to the SMT solver, for a minute at most, unless it names Zenon.
USE SMTT(60)

\* Induction on natural numbers, for a set of good numbers.
LEMMA NatClosure ==
    ASSUME NEW Good, 0 \in Good, \A n \in Nat : n \in Good => n + 1 \in Good
    PROVE  Nat \subseteq Good
  <1> DEFINE Bad == Nat \ Good
             R   == OpToRel(<, Nat)
  <1> SUFFICES ASSUME Bad # {} PROVE FALSE
    OBVIOUS
  <1>1. PICK n \in Bad : \A m \in Bad : <<m, n>> \notin R
    <2> HIDE DEF R
    <2>1. IsWellFoundedOn(R, Nat)
      BY NatLessThanWellFounded, ZenonT(60) DEF R
    <2>2. Bad \subseteq Nat
      OBVIOUS
    <2> HIDE DEF Bad
    <2> QED
      BY <2>1, <2>2, WFMin, ZenonT(60)
  <1>2. n # 0 /\ n - 1 \in Nat
    OBVIOUS
  <1>3. <<n - 1, n>> \in R
    <2>1. R = {ss \in Nat \X Nat : ss[1] < ss[2]}
      BY DEF OpToRel
    <2> HIDE DEF R
    <2> QED
      BY <1>2, <2>1
  <1>4. n - 1 \notin Bad
    BY <1>1, <1>3, ZenonT(60)
  <1> QED
    BY <1>2, <1>4

\* Finite sets: the empty set, intervals, and the subsets of a finite set.
LEMMA FiniteEmpty == IsFiniteSet({})
  <1>1. <<>> \in Seq({})
    OBVIOUS
  <1> QED BY <1>1, ZenonT(60) DEF IsFiniteSet

\* The indices of a sequence.
LEMMA FiniteInterval ==
    ASSUME NEW n \in Nat
    PROVE  IsFiniteSet(1 .. n)
  <1> DEFINE seq == [i \in 1 .. n |-> i]
  <1>1. seq \in Seq(1 .. n) /\ Len(seq) = n /\ \A i \in 1 .. n : seq[i] = i
    OBVIOUS
  <1> HIDE DEF seq
  <1> QED BY <1>1 DEF IsFiniteSet

\* A subset is listed by a list of its superset in which the other elements are replaced.
LEMMA FiniteSubset ==
    ASSUME NEW S, IsFiniteSet(S), NEW T \in SUBSET S
    PROVE  IsFiniteSet(T)
  <1>1. PICK seq \in Seq(S) : \A s \in S : \E n \in 1 .. Len(seq) : seq[n] = s
    BY DEF IsFiniteSet
  <1>2. CASE T = {}
    BY <1>2, FiniteEmpty
  <1>3. CASE T # {}
    <2>1. PICK e : e \in T
      BY <1>3
    <2> DEFINE list == [i \in 1 .. Len(seq) |-> IF seq[i] \in T THEN seq[i] ELSE e]
    <2>2. list \in Seq(T) /\ Len(list) = Len(seq)
      BY <2>1
    <2>3. ASSUME NEW s \in T PROVE \E n \in 1 .. Len(seq) : list[n] = s
      <3>1. PICK n \in 1 .. Len(seq) : seq[n] = s
        BY <1>1
      <3>2. list[n] = s
        BY <3>1
      <3> QED BY <3>2
    <2> HIDE DEF list
    <2> QED BY <2>2, <2>3 DEF IsFiniteSet
  <1> QED BY <1>2, <1>3

\* Induction on finite sets, for a set of good subsets.
LEMMA FiniteClosure ==
    ASSUME NEW S, IsFiniteSet(S), NEW Good, {} \in Good,
           \A T \in SUBSET S : T # {} /\ (\A x \in T : T \ {x} \in Good) => T \in Good
    PROVE  S \in Good
  <1> DEFINE Lists(f, n, T) == \A x \in T : \E i \in 1 .. n : f[i] = x
             Numbers == {n \in Nat : \A T \in SUBSET S : (\E f : Lists(f, n, T)) => T \in Good}
  <1>1. 0 \in Numbers
    <2>1. ASSUME NEW T \in SUBSET S, NEW f, Lists(f, 0, T) PROVE T = {}
      BY <2>1
    <2> QED BY <2>1, ZenonT(60)
  <1>2. ASSUME NEW n \in Nat, n \in Numbers PROVE n + 1 \in Numbers
    <2> SUFFICES ASSUME NEW T \in SUBSET S, NEW f, Lists(f, n + 1, T) PROVE T \in Good
      OBVIOUS
    <2>1. ASSUME NEW x \in T PROVE T \ {x} \in Good
      <3>1. PICK j \in 1 .. n + 1 : f[j] = x
        OBVIOUS
      <3> DEFINE g == [i \in 1 .. n |-> IF i = j THEN f[n + 1] ELSE f[i]]
      <3>2. ASSUME NEW y \in T \ {x} PROVE \E i \in 1 .. n : g[i] = y
        <4>1. PICK i \in 1 .. n + 1 : f[i] = y
          OBVIOUS
        <4>2. i # j
          BY <3>1, <4>1
        <4>3. CASE i = n + 1
          <5>1. j \in 1 .. n /\ g[j] = y
            BY <4>1, <4>2, <4>3
          <5> QED BY <5>1
        <4>4. CASE i # n + 1
          <5>1. i \in 1 .. n /\ g[i] = y
            BY <4>1, <4>2, <4>4
          <5> QED BY <5>1
        <4> QED BY <4>3, <4>4
      <3>3. Lists(g, n, T \ {x}) /\ T \ {x} \in SUBSET S
        BY <3>2
      <3> HIDE DEF g, Lists
      <3> QED BY <1>2, <3>3, ZenonT(60)
    <2>2. CASE T = {}
      BY <2>2
    <2>3. CASE T # {}
      BY <2>1, <2>3
    <2> QED BY <2>2, <2>3
  <1> HIDE DEF Numbers
  <1>3. Nat \subseteq Numbers
    BY <1>1, <1>2, NatClosure
  <1>4. PICK seq \in Seq(S) : Lists(seq, Len(seq), S)
    BY DEF IsFiniteSet
  <1>5. Len(seq) \in Numbers
    BY <1>3
  <1> HIDE DEF Lists
  <1> QED
    BY <1>4, <1>5, ZenonT(60) DEF Numbers

-----------------------------------------------------------------------------

pick(T) == CHOOSE x \in T : TRUE

\* The equation of the recursive function that SumFunctionOnSet is defined with.
Sums(f, S, g) ==
    g = [T \in SUBSET S |-> IF T = {} THEN 0 ELSE f[pick(T)] + g[T \ {pick(T)}]]

\* An element is picked from every non-empty set.
LEMMA PickElement == \A T : T # {} => pick(T) \in T
  BY DEF pick

\* What SumFunctionOnSet stands for.
LEMMA SumIsChosen ==
    ASSUME NEW f, NEW S
    PROVE  SumFunctionOnSet(f, S) = (CHOOSE g : Sums(f, S, g))[S]
  BY DEF SumFunctionOnSet, FoldFunctionOnSet, MapThenFoldSet, Sums, pick

\* The equation has at most one solution on a finite set, and a solution on a set is
\* a solution on its subsets.
LEMMA SumsUnique ==
    ASSUME NEW f, NEW S, IsFiniteSet(S), NEW T \in SUBSET S,
           NEW g, Sums(f, S, g), NEW h, Sums(f, T, h)
    PROVE  h[T] = g[T]
  <1> DEFINE Good == {U \in SUBSET T : h[U] = g[U]}
  <1>1. {} \in Good
    BY DEF Sums
  <1>2. ASSUME NEW U \in SUBSET T, U # {}, U \ {pick(U)} \in Good PROVE U \in Good
    BY <1>2, ZenonT(60) DEF Sums
  <1>3. IsFiniteSet(T)
    BY FiniteSubset
  <1> HIDE DEF Good
  <1>4. T \in Good
    BY <1>1, <1>2, <1>3, PickElement, FiniteClosure, ZenonT(60)
  <1> QED
    BY <1>4 DEF Good

\* The equation has a solution on every finite set.
LEMMA SumsExist ==
    ASSUME NEW f, NEW S, IsFiniteSet(S)
    PROVE  \E g : Sums(f, S, g)
  <1> DEFINE Good == {T \in SUBSET S : \A U \in SUBSET T : \E g : Sums(f, U, g)}
             sum(T) == (CHOOSE g : Sums(f, T, g))[T]
  <1>1. {} \in Good
    <2>1. Sums(f, {}, [T \in SUBSET {} |-> 0])
      BY DEF Sums
    <2> QED
      BY <2>1
  <1>2. ASSUME NEW T \in SUBSET S, T # {}, \A x \in T : T \ {x} \in Good
        PROVE  T \in Good
    <2> DEFINE g == [U \in SUBSET T |-> IF U = {} THEN 0 ELSE f[pick(U)] + sum(U \ {pick(U)})]
    <2>1. ASSUME NEW U \in SUBSET T, U # T
          PROVE  /\ \E h : Sums(f, U, h)
                 /\ Sums(f, U, CHOOSE h : Sums(f, U, h))
      <3>1. PICK x \in T : U \in SUBSET (T \ {x})
        BY <2>1
      <3> QED
        BY <1>2, <3>1
    <2>2. ASSUME NEW U \in SUBSET T, U # T PROVE sum(U) = g[U]
      <3> DEFINE h == CHOOSE h : Sums(f, U, h)
      <3>1. Sums(f, U, h)
        BY <2>1, <2>2
      <3>2. IsFiniteSet(U)
        BY FiniteSubset
      <3>3. CASE U = {}
        BY <3>1, <3>3, ZenonT(60) DEF Sums
      <3>4. CASE U # {}
        <4> DEFINE V == U \ {pick(U)}
        <4>1. V \in SUBSET U /\ V \in SUBSET T /\ V # T
          BY <3>4, PickElement
        <4>2. Sums(f, V, CHOOSE k : Sums(f, V, k))
          BY <2>1, <4>1, ZenonT(60)
        <4>3. sum(V) = h[V]
          <5> HIDE DEF h
          <5> QED
            BY <3>1, <3>2, <4>1, <4>2, SumsUnique
        <4>4. h[U] = f[pick(U)] + h[V]
          BY <3>1, <3>4, ZenonT(60) DEF Sums
        <4> QED
          BY <3>4, <4>3, <4>4
      <3> QED
        BY <3>3, <3>4
    <2>3. Sums(f, T, g)
      <3>1. \A U \in SUBSET T : U # {} => U \ {pick(U)} \in SUBSET T /\ U \ {pick(U)} # T
        BY PickElement
      <3>2. \A U \in SUBSET T : U # {} => sum(U \ {pick(U)}) = g[U \ {pick(U)}]
        BY <2>2, <3>1, ZenonT(60)
      <3> HIDE DEF sum
      <3>3. g = [U \in SUBSET T |-> IF U = {} THEN 0 ELSE f[pick(U)] + g[U \ {pick(U)}]]
        BY <3>2, ZenonT(60)
      <3> HIDE DEF g
      <3> QED
        BY <3>3, ZenonT(60) DEF Sums
    <2> QED
      BY <2>1, <2>3
  <1> HIDE DEF Good
  <1>3. S \in Good
    BY <1>1, <1>2, FiniteClosure, ZenonT(60)
  <1> QED
    BY <1>3 DEF Good

\* The sum over the empty set, and over a set from which an element is picked.
LEMMA SumEmpty == \A f : SumFunctionOnSet(f, {}) = 0
  <1> TAKE f
  <1>1. IsFiniteSet({})
    BY FiniteEmpty
  <1> DEFINE g == CHOOSE g : Sums(f, {}, g)
  <1>2. Sums(f, {}, g)
    BY <1>1, SumsExist
  <1> QED
    BY <1>2, SumIsChosen, ZenonT(60) DEF Sums

\* The sum without the element that the fold takes first.
LEMMA SumPicked ==
    ASSUME NEW f, NEW S, IsFiniteSet(S), S # {}
    PROVE  SumFunctionOnSet(f, S) = f[pick(S)] + SumFunctionOnSet(f, S \ {pick(S)})
  <1> DEFINE T == S \ {pick(S)}
             g == CHOOSE g : Sums(f, S, g)
             h == CHOOSE h : Sums(f, T, h)
  <1>1. T \in SUBSET S /\ IsFiniteSet(T)
    BY FiniteSubset
  <1>2. Sums(f, S, g) /\ Sums(f, T, h)
    BY <1>1, SumsExist
  <1>3. SumFunctionOnSet(f, S) = g[S] /\ SumFunctionOnSet(f, T) = h[T]
    BY SumIsChosen
  <1> HIDE DEF g, h
  <1>4. h[T] = g[T]
    BY <1>1, <1>2, SumsUnique
  <1>5. g[S] = f[pick(S)] + g[T]
    BY <1>2, ZenonT(60) DEF Sums
  <1> QED
    BY <1>3, <1>4, <1>5

-----------------------------------------------------------------------------

\* A sum of integers is an integer.
LEMMA SumInt ==
    ASSUME NEW S, IsFiniteSet(S), NEW f, \A x \in S : f[x] \in Int
    PROVE  SumFunctionOnSet(f, S) \in Int
  <1> DEFINE Good == {T \in SUBSET S : SumFunctionOnSet(f, T) \in Int}
  <1>1. {} \in Good
    BY SumEmpty
  <1>2. ASSUME NEW T \in SUBSET S, T # {}, \A x \in T : T \ {x} \in Good
        PROVE  T \in Good
    <2>1. SumFunctionOnSet(f, T) = f[pick(T)] + SumFunctionOnSet(f, T \ {pick(T)})
      BY <1>2, FiniteSubset, SumPicked
    <2> QED
      BY <1>2, <2>1, PickElement
  <1> HIDE DEF Good
  <1>3. S \in Good
    BY <1>1, <1>2, FiniteClosure, ZenonT(60)
  <1> QED
    BY <1>3 DEF Good

\* A sum of natural numbers is a natural number.
LEMMA SumNat ==
    ASSUME NEW S, IsFiniteSet(S), NEW f, \A x \in S : f[x] \in Nat
    PROVE  SumFunctionOnSet(f, S) \in Nat
  <1> DEFINE Good == {T \in SUBSET S : SumFunctionOnSet(f, T) \in Nat}
  <1>1. {} \in Good
    BY SumEmpty
  <1>2. ASSUME NEW T \in SUBSET S, T # {}, \A x \in T : T \ {x} \in Good
        PROVE  T \in Good
    <2>1. SumFunctionOnSet(f, T) = f[pick(T)] + SumFunctionOnSet(f, T \ {pick(T)})
      BY <1>2, FiniteSubset, SumPicked
    <2> QED
      BY <1>2, <2>1, PickElement
  <1> HIDE DEF Good
  <1>3. S \in Good
    BY <1>1, <1>2, FiniteClosure, ZenonT(60)
  <1> QED
    BY <1>3 DEF Good

\* Any element can be taken out of a sum, not only the one that is picked.
LEMMA SumRemove ==
    ASSUME NEW S, IsFiniteSet(S), NEW f, \A x \in S : f[x] \in Int, NEW y \in S
    PROVE  SumFunctionOnSet(f, S) = f[y] + SumFunctionOnSet(f, S \ {y})
  <1> DEFINE Good == {T \in SUBSET S : \A x \in T :
                         SumFunctionOnSet(f, T) = f[x] + SumFunctionOnSet(f, T \ {x})}
  <1>1. {} \in Good
    OBVIOUS
  <1>2. ASSUME NEW T \in SUBSET S, T # {}, \A x \in T : T \ {x} \in Good
        PROVE  T \in Good
    <2> SUFFICES ASSUME NEW x \in T
                 PROVE  SumFunctionOnSet(f, T) = f[x] + SumFunctionOnSet(f, T \ {x})
      OBVIOUS
    <2> DEFINE p == pick(T)
               Rest == (T \ {x}) \ {p}
    <2>1. p \in T
      BY PickElement
    <2>2. SumFunctionOnSet(f, T) = f[p] + SumFunctionOnSet(f, T \ {p})
      BY <1>2, FiniteSubset, SumPicked
    <2> HIDE DEF p
    <2>3. CASE x = p
      BY <2>2, <2>3
    <2>4. CASE x # p
      <3>1. (T \ {p}) \ {x} = Rest
        OBVIOUS
      <3>2. SumFunctionOnSet(f, T \ {p}) = f[x] + SumFunctionOnSet(f, Rest)
        BY <1>2, <2>1, <2>4, <3>1
      <3>3. SumFunctionOnSet(f, T \ {x}) = f[p] + SumFunctionOnSet(f, Rest)
        BY <1>2, <2>1, <2>4
      <3>4. SumFunctionOnSet(f, Rest) \in Int
        BY FiniteSubset, SumInt, ZenonT(60)
      <3>5. f[x] \in Int /\ f[p] \in Int
        BY <2>1
      <3> HIDE DEF Rest
      <3> QED
        BY <2>2, <3>2, <3>3, <3>4, <3>5
    <2> QED
      BY <2>3, <2>4
  <1> HIDE DEF Good
  <1>3. S \in Good
    BY <1>1, <1>2, FiniteClosure, ZenonT(60)
  <1> QED
    BY <1>3 DEF Good

\* A sum depends on the values of its function on the set alone.
LEMMA SumSame ==
    ASSUME NEW S, IsFiniteSet(S), NEW f, NEW g, \A x \in S : f[x] = g[x]
    PROVE  SumFunctionOnSet(f, S) = SumFunctionOnSet(g, S)
  <1> DEFINE Good == {T \in SUBSET S : SumFunctionOnSet(f, T) = SumFunctionOnSet(g, T)}
  <1>1. {} \in Good
    BY SumEmpty
  <1>2. ASSUME NEW T \in SUBSET S, T # {}, \A x \in T : T \ {x} \in Good
        PROVE  T \in Good
    <2>1. /\ SumFunctionOnSet(f, T) = f[pick(T)] + SumFunctionOnSet(f, T \ {pick(T)})
          /\ SumFunctionOnSet(g, T) = g[pick(T)] + SumFunctionOnSet(g, T \ {pick(T)})
      BY <1>2, FiniteSubset, SumPicked
    <2> QED
      BY <1>2, <2>1, PickElement
  <1> HIDE DEF Good
  <1>3. S \in Good
    BY <1>1, <1>2, FiniteClosure
  <1> QED
    BY <1>3 DEF Good

\* A sum of which one summand changes.
LEMMA SumChange ==
    ASSUME NEW S, IsFiniteSet(S), NEW f, \A x \in S : f[x] \in Int,
           NEW g, \A x \in S : g[x] \in Int,
           NEW y \in S, \A x \in S \ {y} : g[x] = f[x]
    PROVE  SumFunctionOnSet(g, S) = SumFunctionOnSet(f, S) + (g[y] - f[y])
  <1> DEFINE T == S \ {y}
  <1>1. IsFiniteSet(T)
    BY FiniteSubset
  <1>2. SumFunctionOnSet(g, T) = SumFunctionOnSet(f, T)
    BY <1>1, SumSame
  <1>3. SumFunctionOnSet(f, S) = f[y] + SumFunctionOnSet(f, T)
    BY SumRemove
  <1>4. SumFunctionOnSet(g, S) = g[y] + SumFunctionOnSet(g, T)
    BY SumRemove
  <1>5. SumFunctionOnSet(f, T) \in Int
    BY <1>1, SumInt
  <1> QED
    BY <1>2, <1>3, <1>4, <1>5

\* A summand of natural numbers is no larger than the sum.
LEMMA SumBounds ==
    ASSUME NEW S, IsFiniteSet(S), NEW f, \A x \in S : f[x] \in Nat, NEW y \in S
    PROVE  f[y] <= SumFunctionOnSet(f, S)
  <1>1. SumFunctionOnSet(f, S \ {y}) \in Nat
    BY FiniteSubset, SumNat
  <1>2. SumFunctionOnSet(f, S) = f[y] + SumFunctionOnSet(f, S \ {y})
    BY SumRemove
  <1> QED
    BY <1>1, <1>2

\* Larger summands have a larger sum.
LEMMA SumMonotone ==
    ASSUME NEW S, IsFiniteSet(S), NEW f, \A x \in S : f[x] \in Int,
           NEW g, \A x \in S : g[x] \in Int, \A x \in S : f[x] <= g[x]
    PROVE  SumFunctionOnSet(f, S) <= SumFunctionOnSet(g, S)
  <1> DEFINE Good == {T \in SUBSET S : SumFunctionOnSet(f, T) <= SumFunctionOnSet(g, T)}
  <1>1. {} \in Good
    BY SumEmpty
  <1>2. ASSUME NEW T \in SUBSET S, T # {}, \A x \in T : T \ {x} \in Good
        PROVE  T \in Good
    <2> DEFINE U == T \ {pick(T)}
    <2>1. IsFiniteSet(T) /\ IsFiniteSet(U) /\ pick(T) \in T /\ U \in Good
      BY <1>2, FiniteSubset, PickElement
    <2>2. /\ SumFunctionOnSet(f, T) = f[pick(T)] + SumFunctionOnSet(f, U)
          /\ SumFunctionOnSet(g, T) = g[pick(T)] + SumFunctionOnSet(g, U)
      BY <1>2, <2>1, SumPicked
    <2>3. SumFunctionOnSet(f, U) \in Int /\ SumFunctionOnSet(g, U) \in Int
      BY <2>1, SumInt
    <2>4. SumFunctionOnSet(f, U) <= SumFunctionOnSet(g, U)
      BY <2>1
    <2> HIDE DEF U
    <2>5. SumFunctionOnSet(f, T) <= SumFunctionOnSet(g, T)
      BY <2>1, <2>2, <2>3, <2>4
    <2> QED
      BY <2>5
  <1> HIDE DEF Good
  <1>3. S \in Good
    BY <1>1, <1>2, FiniteClosure, ZenonT(60)
  <1> QED
    BY <1>3 DEF Good

\* The sum of pointwise sums.
LEMMA SumPlus ==
    ASSUME NEW S, IsFiniteSet(S), NEW f, \A x \in S : f[x] \in Int,
           NEW g, \A x \in S : g[x] \in Int,
           NEW h, \A x \in S : h[x] = f[x] + g[x]
    PROVE  SumFunctionOnSet(h, S) = SumFunctionOnSet(f, S) + SumFunctionOnSet(g, S)
  <1> DEFINE Good == {T \in SUBSET S : SumFunctionOnSet(h, T) = SumFunctionOnSet(f, T) + SumFunctionOnSet(g, T)}
  <1>1. {} \in Good
    BY SumEmpty
  <1>2. ASSUME NEW T \in SUBSET S, T # {}, \A x \in T : T \ {x} \in Good
        PROVE  T \in Good
    <2> DEFINE U == T \ {pick(T)}
    <2>1. IsFiniteSet(T) /\ IsFiniteSet(U) /\ pick(T) \in T /\ U \in Good
      BY <1>2, FiniteSubset, PickElement
    <2>2. /\ SumFunctionOnSet(f, T) = f[pick(T)] + SumFunctionOnSet(f, U)
          /\ SumFunctionOnSet(g, T) = g[pick(T)] + SumFunctionOnSet(g, U)
          /\ SumFunctionOnSet(h, T) = h[pick(T)] + SumFunctionOnSet(h, U)
      BY <1>2, <2>1, SumPicked
    <2>3. SumFunctionOnSet(f, U) \in Int /\ SumFunctionOnSet(g, U) \in Int /\ SumFunctionOnSet(h, U) \in Int
      BY <2>1, SumInt
    <2>4. SumFunctionOnSet(h, U) = SumFunctionOnSet(f, U) + SumFunctionOnSet(g, U)
      BY <2>1
    <2> HIDE DEF U
    <2>5. SumFunctionOnSet(h, T) = SumFunctionOnSet(f, T) + SumFunctionOnSet(g, T)
      BY <2>1, <2>2, <2>3, <2>4
    <2> QED
      BY <2>5
  <1> HIDE DEF Good
  <1>3. S \in Good
    BY <1>1, <1>2, FiniteClosure, ZenonT(60)
  <1> QED
    BY <1>3 DEF Good

\* A factor common to all summands is a factor of the sum.
LEMMA SumScale ==
    ASSUME NEW S, IsFiniteSet(S), NEW f, \A x \in S : f[x] \in Int, NEW c \in Int,
           NEW g, \A x \in S : g[x] = c * f[x]
    PROVE  SumFunctionOnSet(g, S) = c * SumFunctionOnSet(f, S)
  <1> DEFINE Good == {T \in SUBSET S : SumFunctionOnSet(g, T) = c * SumFunctionOnSet(f, T)}
  <1>1. {} \in Good
    BY SumEmpty
  <1>2. ASSUME NEW T \in SUBSET S, T # {}, \A x \in T : T \ {x} \in Good
        PROVE  T \in Good
    <2> DEFINE U == T \ {pick(T)}
    <2>1. IsFiniteSet(T) /\ IsFiniteSet(U) /\ pick(T) \in T /\ U \in Good
      BY <1>2, FiniteSubset, PickElement
    <2>2. /\ SumFunctionOnSet(f, T) = f[pick(T)] + SumFunctionOnSet(f, U)
          /\ SumFunctionOnSet(g, T) = g[pick(T)] + SumFunctionOnSet(g, U)
      BY <1>2, <2>1, SumPicked
    <2>3. SumFunctionOnSet(f, U) \in Int /\ SumFunctionOnSet(g, U) \in Int
      BY <2>1, SumInt
    <2>4. SumFunctionOnSet(g, U) = c * SumFunctionOnSet(f, U)
      BY <2>1
    <2> HIDE DEF U
    <2>5. SumFunctionOnSet(g, T) = c * SumFunctionOnSet(f, T)
      BY <2>1, <2>2, <2>3, <2>4
    <2> QED
      BY <2>5
  <1> HIDE DEF Good
  <1>3. S \in Good
    BY <1>1, <1>2, FiniteClosure, ZenonT(60)
  <1> QED
    BY <1>3 DEF Good

\* Summands that are zero can be left out.
LEMMA SumSubset ==
    ASSUME NEW S, IsFiniteSet(S), NEW f, \A x \in S : f[x] \in Int,
           NEW T \in SUBSET S, \A x \in S \ T : f[x] = 0
    PROVE  SumFunctionOnSet(f, S) = SumFunctionOnSet(f, T)
  <1> DEFINE Rest == S \ T
             Good == {U \in SUBSET Rest : SumFunctionOnSet(f, T \cup U) = SumFunctionOnSet(f, T)}
  <1>1. {} \in Good
    <2>1. T \cup {} = T
      OBVIOUS
    <2> QED
      BY <2>1
  <1>2. ASSUME NEW U \in SUBSET Rest, U # {}, \A x \in U : U \ {x} \in Good
        PROVE  U \in Good
    <2>1. PICK y \in U : TRUE
      BY <1>2
    <2>2. (T \cup U) \ {y} = T \cup (U \ {y}) /\ f[y] = 0
      OBVIOUS
    <2>3. IsFiniteSet(T \cup U) /\ \A x \in T \cup U : f[x] \in Int
      BY FiniteSubset
    <2>4. SumFunctionOnSet(f, T \cup U) = f[y] + SumFunctionOnSet(f, (T \cup U) \ {y})
      BY <2>3, SumRemove
    <2>5. SumFunctionOnSet(f, T \cup (U \ {y})) = SumFunctionOnSet(f, T)
      BY <1>2
    <2>6. SumFunctionOnSet(f, T) \in Int
      BY FiniteSubset, SumInt, ZenonT(60)
    <2>7. SumFunctionOnSet(f, (T \cup U) \ {y}) = SumFunctionOnSet(f, T)
      BY <2>2, <2>5
    <2>8. SumFunctionOnSet(f, T \cup U) = 0 + SumFunctionOnSet(f, T)
      BY <2>2, <2>4, <2>7
    <2> QED
      BY <2>6, <2>8
  <1>3. IsFiniteSet(Rest) /\ T \cup Rest = S
    BY FiniteSubset
  <1> HIDE DEF Good
  <1>4. Rest \in Good
    BY <1>1, <1>2, <1>3, FiniteClosure, ZenonT(60)
  <1> QED
    BY <1>3, <1>4 DEF Good

-----------------------------------------------------------------------------

\* What integer division is.
LEMMA Quotient ==
    ASSUME NEW n \in Nat, NEW d \in Nat, d > 0
    PROVE  n \div d \in Nat /\ d * (n \div d) <= n /\ n < d * ((n \div d) + 1)
  OBVIOUS

\* A bound on a quotient.
LEMMA QuotientBound ==
    ASSUME NEW n \in Nat, NEW d \in Nat, d > 0, NEW k \in Nat, n < d * (k + 1)
    PROVE  n \div d <= k
<1> DEFINE q == n \div d
<1>1. q \in Nat /\ d * q <= n
  BY Quotient
<1> HIDE DEF q
<1>2. ASSUME q > k PROVE FALSE
  <2>1. d * (k + 1) <= d * q
    BY <1>1, <1>2
  <2>2. d * (k + 1) \in Nat /\ d * q \in Nat
    BY <1>1
  <2> QED BY <1>1, <2>1, <2>2
<1>3. q <= k
  BY <1>1, <1>2
<1> QED BY <1>3 DEF q

\* A part a of e does not increase a quotient.
LEMMA QuotientOfPart ==
    ASSUME NEW n \in Nat, NEW d \in Nat, d > 0, NEW a \in Nat, NEW e \in Nat, e > 0, a <= e
    PROVE  /\ n * a \in Nat /\ d * e \in Nat /\ d * e > 0
           /\ (n * a) \div (d * e) <= n \div d
<1> DEFINE q == n \div d
<1>1. q \in Nat /\ n < d * (q + 1)
  BY Quotient
<1> HIDE DEF q
<1>2. n * a \in Nat /\ d * e \in Nat /\ d * e > 0 /\ n * e \in Nat /\ n * a <= n * e
  OBVIOUS
<1>3. n * e < (d * (q + 1)) * e
  <2> DEFINE m == d * (q + 1)
  <2>1. m \in Nat /\ n < m
    BY <1>1
  <2> HIDE DEF m
  <2>2. n * e < m * e
    BY <2>1
  <2> QED BY <2>2 DEF m
<1>4. (d * (q + 1)) * e = (d * e) * (q + 1) /\ (d * e) * (q + 1) \in Nat
  BY <1>1
<1>5. n * a < (d * e) * (q + 1)
  BY <1>2, <1>3, <1>4
<1>6. (n * a) \div (d * e) <= q
  <2> DEFINE x == n * a
             y == d * e
  <2> HIDE DEF x, y
  <2>1. x \in Nat /\ y \in Nat /\ y > 0 /\ x < y * (q + 1)
    BY <1>2, <1>5 DEF x, y
  <2>2. x \div y <= q
    BY <1>1, <2>1, QuotientBound
  <2> QED BY <2>2 DEF x, y
<1> QED BY <1>2, <1>6 DEF q

-----------------------------------------------------------------------------

\* A run of n steps from x, each of them a function on the states S.
Steps(n, S) == [1 .. n -> [S -> S]]
IsRun(f, n, S, x, G) == f \in [0 .. n -> S] /\ f[0] = x /\ \A i \in 1 .. n : f[i] = G[i][f[i - 1]]

\* There is one from every state.
LEMMA RunExists ==
    ASSUME NEW S, NEW n \in Nat, NEW x \in S, NEW G \in Steps(n, S)
    PROVE  \E f : IsRun(f, n, S, x, G)
  <1> USE DEF Steps
  <1> DEFINE Run(f, m) == f \in [0 .. m -> S] /\ f[0] = x /\ \A i \in 1 .. m : f[i] = G[i][f[i - 1]]
             Good == {m \in Nat : m <= n => \E f : Run(f, m)}
  <1>1. 0 \in Good
    <2>1. Run([i \in 0 .. 0 |-> x], 0)
      OBVIOUS
    <2> QED BY <2>1, ZenonT(60)
  <1>2. ASSUME NEW m \in Nat, m \in Good PROVE m + 1 \in Good
    <2> SUFFICES ASSUME m + 1 <= n PROVE \E f : Run(f, m + 1)
      OBVIOUS
    <2>1. PICK f : Run(f, m)
      BY <1>2
    <2> DEFINE g == [i \in 0 .. m + 1 |-> IF i = m + 1 THEN G[m + 1][f[m]] ELSE f[i]]
    <2>2. f[m] \in S /\ m + 1 \in 1 .. n
      BY <2>1
    <2>3. G[m + 1][f[m]] \in S
      BY <2>2
    <2>4. g \in [0 .. m + 1 -> S] /\ g[0] = x /\ g[m + 1] = G[m + 1][f[m]]
      BY <2>1, <2>3
    <2>5. \A i \in 0 .. m : g[i] = f[i]
      OBVIOUS
    <2> HIDE DEF g
    <2>6. ASSUME NEW i \in 1 .. m + 1 PROVE g[i] = G[i][g[i - 1]]
      <3>1. CASE i = m + 1
        <4>1. i - 1 = m /\ g[m] = f[m]
          BY <2>5, <3>1
        <4> QED BY <2>4, <3>1, <4>1
      <3>2. CASE i # m + 1
        <4>1. i \in 1 .. m /\ i \in 0 .. m /\ i - 1 \in 0 .. m
          BY <3>2
        <4> QED BY <2>1, <2>5, <4>1
      <3> QED BY <3>1, <3>2
    <2>7. Run(g, m + 1)
      BY <2>4, <2>6
    <2> QED BY <2>7
  <1> HIDE DEF Good
  <1>3. n \in Good
    BY <1>1, <1>2, NatClosure
  <1>4. \E f : Run(f, n)
    BY <1>3 DEF Good
  <1> QED
    BY <1>4, ZenonT(60) DEF IsRun

\* What the first state of a run has and every step keeps, all states of it have.
LEMMA RunType ==
    ASSUME NEW S, NEW n \in Nat, NEW g, g[0] \in S,
           \A i \in 1 .. n : g[i - 1] \in S => g[i] \in S
    PROVE  \A i \in 0 .. n : g[i] \in S
  <1> DEFINE Good == {m \in Nat : m <= n => g[m] \in S}
  <1>1. 0 \in Good
    OBVIOUS
  <1>2. ASSUME NEW m \in Nat, m \in Good PROVE m + 1 \in Good
    <2> SUFFICES ASSUME m + 1 <= n PROVE g[m + 1] \in S
      OBVIOUS
    <2>1. m + 1 \in 1 .. n /\ (m + 1) - 1 = m /\ g[m] \in S
      BY <1>2
    <2> QED BY <2>1
  <1> HIDE DEF Good
  <1>3. Nat \subseteq Good
    BY <1>1, <1>2, NatClosure
  <1> QED
    BY <1>3 DEF Good

=============================================================================
