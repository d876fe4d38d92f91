------------------------------ MODULE FoldTheorems ------------------------------
(***************************************************************************)
(* What a fold over a finite function or a sequence is, for an operator and *)
(* a way to pick elements that the instances choose, any base and any c the *)
(* operator may depend on: the folds of the community modules, one element  *)
(* at a time.  Induction is stated with a set of numbers instead of a       *)
(* predicate.                                                               *)
(***************************************************************************)
EXTENDS Integers, Sequences, FiniteSets, FiniteSetsExt, FiniteSetTheorems, WellFoundedInduction,
        Folds, TLAPS

CONSTANTS Op(_, _, _), Pick(_)

Less == {p \in Nat \X Nat : p[1] < p[2]}

Inductive(T) == 0 \in T /\ \A n \in Nat : n \in T => n + 1 \in T

LEMMA InductionOnNumbers == ASSUME NEW T, Inductive(T) PROVE Nat \subseteq T
<1> SUFFICES ASSUME NEW y \in Nat \ T PROVE FALSE
  OBVIOUS
<1>1. IsWellFoundedOn(Less, Nat)
  BY NatLessThanWellFounded DEF OpToRel, Less
<1>2. PICK x \in Nat \ T : \A z \in Nat \ T : ~(<<z, x>> \in Less)
  BY <1>1, WFMin
<1>3. x \in Nat /\ x # 0
  BY <1>2 DEF Inductive
<1>4. x - 1 \in Nat /\ x - 1 < x /\ (x - 1) + 1 = x
  BY <1>3
<1>5. x - 1 \in T
  BY <1>2, <1>4 DEF Less
<1>6. (x - 1) + 1 \in T
  BY <1>4, <1>5 DEF Inductive
<1>. QED  BY <1>2, <1>4, <1>6

LEMMA InductionOnSequences ==
  ASSUME NEW S, NEW T, << >> \in T, \A s \in Seq(S), x \in S : s \in T => Append(s, x) \in T
  PROVE  Seq(S) \subseteq T
<1> DEFINE N == {n \in Nat : \A s \in Seq(S) : Len(s) = n => s \in T}
<1>1. 0 \in N
  <2>1. \A s \in Seq(S) : Len(s) = 0 => s = << >>  OBVIOUS
  <2>. QED  BY <2>1
<1>2. ASSUME NEW n \in Nat, n \in N PROVE n + 1 \in N
  <2> SUFFICES ASSUME NEW s \in Seq(S), Len(s) = n + 1 PROVE s \in T
    OBVIOUS
  <2> DEFINE front == SubSeq(s, 1, n)
  <2>1. front \in Seq(S) /\ Len(front) = n /\ s[n + 1] \in S  OBVIOUS
  <2>2. s = Append(front, s[n + 1])  OBVIOUS
  <2>. QED  BY <1>2, <2>1, <2>2
<1>. HIDE DEF N
<1>3. Nat \subseteq N
  <2>1. Inductive(N)  BY <1>1, <1>2 DEF Inductive
  <2>. QED  BY <2>1, InductionOnNumbers
<1>. QED  BY <1>3 DEF N

-------------------------------------------------------------------------------
(* The fold of the values of a function, and the recursion that defines it.   *)
FoldOf(c, base, t) == MapThenFoldSet(LAMBDA x, y : Op(c, x, y), base, LAMBDA i : t[i], Pick, DOMAIN t)

Picks(t) == IsFiniteSet(DOMAIN t) /\ \A s \in SUBSET DOMAIN t : s # {} => Pick(s) \in s

Step(c, base, t, g, s) == IF s = {} THEN base ELSE Op(c, t[Pick(s)], g[s \ {Pick(s)}])
Iterates(c, base, t, g) == g = [s \in SUBSET DOMAIN t |-> Step(c, base, t, g, s)]

LEMMA SmallerSet ==
  ASSUME NEW s, IsFiniteSet(s), NEW x \in s
  PROVE  /\ IsFiniteSet(s \ {x}) /\ Cardinality(s) \in Nat
         /\ Cardinality(s \ {x}) = Cardinality(s) - 1
  BY FS_RemoveElement, FS_CardinalityType

LEMMA FoldsExist == ASSUME NEW c, NEW base, NEW t, Picks(t) PROVE \E g : Iterates(c, base, t, g)
<1> DEFINE D == DOMAIN t
           Upto(n) == {s \in SUBSET D : Cardinality(s) <= n}
           T == {n \in Nat : \E g : \A s \in Upto(n) : g[s] = Step(c, base, t, g, s)}
<1>1. \A s \in SUBSET D : IsFiniteSet(s) /\ Cardinality(s) \in Nat
                          /\ (Cardinality(s) = 0 <=> s = {}) /\ Cardinality(s) <= Cardinality(D)
  BY FS_Subset, FS_CardinalityType, FS_EmptySet DEF Picks
<1>2. \A s \in SUBSET D : s # {} =>
        /\ Pick(s) \in s /\ s \ {Pick(s)} \in SUBSET D
        /\ Cardinality(s \ {Pick(s)}) = Cardinality(s) - 1
  BY <1>1, SmallerSet DEF Picks
<1>3. 0 \in T
  <2> DEFINE g == [s \in SUBSET D |-> base]
  <2>1. ASSUME NEW s \in Upto(0) PROVE g[s] = Step(c, base, t, g, s)
    <3>1. s = {}  BY <1>1
    <3>. QED  BY <3>1 DEF Step
  <2>. HIDE DEF g
  <2>. QED  BY <2>1
<1>4. ASSUME NEW n \in Nat, n \in T PROVE n + 1 \in T
  <2>1. PICK g : \A s \in Upto(n) : g[s] = Step(c, base, t, g, s)  BY <1>4
  <2> DEFINE h == [s \in SUBSET D |-> IF Cardinality(s) <= n THEN g[s] ELSE Step(c, base, t, g, s)]
  <2>2. ASSUME NEW s \in Upto(n + 1) PROVE h[s] = Step(c, base, t, h, s)
    <3>1. Step(c, base, t, h, s) = Step(c, base, t, g, s)
      <4>1. CASE s = {}  BY <4>1 DEF Step
      <4>2. CASE s # {}
        <5>1. Cardinality(s \ {Pick(s)}) <= n /\ s \ {Pick(s)} \in SUBSET D
          BY <1>1, <1>2, <4>2
        <5>2. h[s \ {Pick(s)}] = g[s \ {Pick(s)}]  BY <5>1
        <5>. QED  BY <4>2, <5>2 DEF Step
      <4>. QED  BY <4>1, <4>2
    <3>2. h[s] = Step(c, base, t, g, s)  BY <2>1
    <3>. QED  BY <3>1, <3>2
  <2>. HIDE DEF h
  <2>. QED  BY <2>2
<1>. HIDE DEF T
<1>5. Cardinality(D) \in T
  <2>1. Inductive(T)  BY <1>3, <1>4 DEF Inductive
  <2>2. Nat \subseteq T  BY <2>1, InductionOnNumbers
  <2>3. Cardinality(D) \in Nat  BY <1>1
  <2>. QED  BY <2>2, <2>3
<1>6. PICK g : \A s \in Upto(Cardinality(D)) : g[s] = Step(c, base, t, g, s)  BY <1>5 DEF T
<1> DEFINE h == [s \in SUBSET D |-> g[s]]
<1>7. ASSUME NEW s \in SUBSET D PROVE h[s] = Step(c, base, t, h, s)
  <2>1. h[s] = Step(c, base, t, g, s)  BY <1>1, <1>6
  <2>2. Step(c, base, t, g, s) = Step(c, base, t, h, s)  BY DEF Step
  <2>. QED  BY <2>1, <2>2
<1>8. h = [s \in SUBSET D |-> h[s]]  OBVIOUS
<1>. HIDE DEF h
<1>9. Iterates(c, base, t, h)  BY <1>7, <1>8 DEF Iterates
<1>. QED  BY <1>9

(* Only the values in the set count.                                          *)
LEMMA FoldsAgree ==
  ASSUME NEW c, NEW base, NEW t, NEW g, Iterates(c, base, t, g), Picks(t),
         NEW u, NEW h, Iterates(c, base, u, h),
         NEW D, D \subseteq DOMAIN t, D \subseteq DOMAIN u, \A i \in D : t[i] = u[i]
  PROVE  g[D] = h[D]
<1> DEFINE T == {n \in Nat : \A s \in SUBSET D : Cardinality(s) = n => g[s] = h[s]}
<1>1. \A s \in SUBSET D : IsFiniteSet(s) /\ Cardinality(s) \in Nat /\ (Cardinality(s) = 0 <=> s = {})
  BY FS_Subset, FS_CardinalityType, FS_EmptySet DEF Picks
<1>2. \A s \in SUBSET D : g[s] = Step(c, base, t, g, s) /\ h[s] = Step(c, base, u, h, s)
  BY DEF Iterates
<1>3. 0 \in T  BY <1>1, <1>2 DEF Step
<1>4. ASSUME NEW n \in Nat, n \in T PROVE n + 1 \in T
  <2> SUFFICES ASSUME NEW s \in SUBSET D, Cardinality(s) = n + 1 PROVE g[s] = h[s]
    OBVIOUS
  <2>1. s # {} /\ Pick(s) \in s  BY <1>1 DEF Picks
  <2>2. s \ {Pick(s)} \in SUBSET D /\ Cardinality(s \ {Pick(s)}) = n
    BY <1>1, <2>1, SmallerSet
  <2>3. g[s \ {Pick(s)}] = h[s \ {Pick(s)}] /\ t[Pick(s)] = u[Pick(s)]  BY <1>4, <2>1, <2>2
  <2>. QED  BY <1>2, <2>1, <2>3 DEF Step
<1>. HIDE DEF T
<1>5. Cardinality(D) \in T
  <2>1. Inductive(T)  BY <1>3, <1>4 DEF Inductive
  <2>2. Nat \subseteq T  BY <2>1, InductionOnNumbers
  <2>3. Cardinality(D) \in Nat  BY <1>1
  <2>. QED  BY <2>2, <2>3
<1>. QED  BY <1>5 DEF T

LEMMA FoldIsIteration ==
  ASSUME NEW c, NEW base, NEW t, Picks(t)
  PROVE  \E g : Iterates(c, base, t, g) /\ FoldOf(c, base, t) = g[DOMAIN t]
<1> DEFINE g == CHOOSE g : g = [s \in SUBSET DOMAIN t |-> Step(c, base, t, g, s)]
<1>1. FoldOf(c, base, t) = g[DOMAIN t]
  BY DEF FoldOf, MapThenFoldSet, Step
<1>2. Iterates(c, base, t, g)  BY FoldsExist DEF Iterates
<1>. HIDE DEF g
<1>. QED  BY <1>1, <1>2

(* A fold starts at the base and takes one picked value at a time.            *)
LEMMA FoldEmpty ==
  ASSUME NEW c, NEW base, NEW t, Picks(t), DOMAIN t = {}
  PROVE  FoldOf(c, base, t) = base
<1>1. PICK g : Iterates(c, base, t, g) /\ FoldOf(c, base, t) = g[DOMAIN t]  BY FoldIsIteration
<1>2. FoldOf(c, base, t) = Step(c, base, t, g, DOMAIN t)  BY <1>1 DEF Iterates
<1>. QED  BY <1>2 DEF Step

LEMMA FoldSteps ==
  ASSUME NEW c, NEW base, NEW t, Picks(t), DOMAIN t # {}, NEW x, x = Pick(DOMAIN t)
  PROVE  FoldOf(c, base, t) = Op(c, t[x], FoldOf(c, base, [i \in DOMAIN t \ {x} |-> t[i]]))
<1>1. PICK g : Iterates(c, base, t, g) /\ FoldOf(c, base, t) = g[DOMAIN t]  BY FoldIsIteration
<1>2. FoldOf(c, base, t) = Step(c, base, t, g, DOMAIN t)  BY <1>1 DEF Iterates
<1> DEFINE u == [i \in DOMAIN t \ {x} |-> t[i]]
<1>3. DOMAIN u = DOMAIN t \ {x} /\ \A i \in DOMAIN u : u[i] = t[i]  OBVIOUS
<1>. HIDE DEF u
<1>4. Picks(u)  BY <1>3, FS_Subset DEF Picks
<1>5. PICK h : Iterates(c, base, u, h) /\ FoldOf(c, base, u) = h[DOMAIN u]  BY <1>4, FoldIsIteration
<1>6. g[DOMAIN u] = h[DOMAIN u]  BY <1>1, <1>3, <1>4, <1>5, FoldsAgree
<1>7. FoldOf(c, base, t) = Op(c, t[x], g[DOMAIN t \ {x}])  BY <1>2 DEF Step
<1>. QED  BY <1>3, <1>5, <1>6, <1>7 DEF u

-------------------------------------------------------------------------------
(* An operator on V for which the order does not matter.                      *)
Commutes(c, base, V) ==
  /\ base \in V
  /\ \A a, b \in V : Op(c, a, b) \in V
  /\ \A a, b, d \in V : Op(c, a, Op(c, b, d)) = Op(c, b, Op(c, a, d))

LEMMA FoldsType ==
  ASSUME NEW c, NEW base, NEW V, Commutes(c, base, V),
         NEW t, Picks(t), \A i \in DOMAIN t : t[i] \in V, NEW g, Iterates(c, base, t, g)
  PROVE  \A s \in SUBSET DOMAIN t : g[s] \in V
<1> DEFINE D == DOMAIN t
           T == {n \in Nat : \A s \in SUBSET D : Cardinality(s) = n => g[s] \in V}
<1>1. \A s \in SUBSET D : IsFiniteSet(s) /\ Cardinality(s) \in Nat /\ (Cardinality(s) = 0 <=> s = {})
  BY FS_Subset, FS_CardinalityType, FS_EmptySet DEF Picks
<1>2. \A s \in SUBSET D : g[s] = Step(c, base, t, g, s)  BY DEF Iterates
<1>3. 0 \in T  BY <1>1, <1>2 DEF Step, Commutes
<1>4. ASSUME NEW n \in Nat, n \in T PROVE n + 1 \in T
  <2> SUFFICES ASSUME NEW s \in SUBSET D, Cardinality(s) = n + 1 PROVE g[s] \in V
    OBVIOUS
  <2>1. s # {} /\ Pick(s) \in s  BY <1>1 DEF Picks
  <2>2. s \ {Pick(s)} \in SUBSET D /\ Cardinality(s \ {Pick(s)}) = n
    BY <1>1, <2>1, SmallerSet
  <2>3. g[s \ {Pick(s)}] \in V /\ t[Pick(s)] \in V  BY <1>4, <2>1, <2>2
  <2>4. g[s] = Op(c, t[Pick(s)], g[s \ {Pick(s)}])  BY <1>2, <2>1 DEF Step
  <2>5. Op(c, t[Pick(s)], g[s \ {Pick(s)}]) \in V  BY <2>3, Zenon DEF Commutes
  <2>. QED  BY <2>4, <2>5
<1>. HIDE DEF T
<1>5. Nat \subseteq T
  <2>1. Inductive(T)  BY <1>3, <1>4 DEF Inductive
  <2>. QED  BY <2>1, InductionOnNumbers
<1>. QED  BY <1>1, <1>5 DEF T

LEMMA FoldsRemove ==
  ASSUME NEW c, NEW base, NEW V, Commutes(c, base, V),
         NEW t, Picks(t), \A i \in DOMAIN t : t[i] \in V, NEW g, Iterates(c, base, t, g),
         NEW x \in DOMAIN t
  PROVE  g[DOMAIN t] = Op(c, t[x], g[DOMAIN t \ {x}])
<1> DEFINE D == DOMAIN t
           T == {n \in Nat : \A s \in SUBSET D : Cardinality(s) = n =>
                               \A y \in s : g[s] = Op(c, t[y], g[s \ {y}])}
<1>1. \A s \in SUBSET D : IsFiniteSet(s) /\ Cardinality(s) \in Nat /\ (Cardinality(s) = 0 <=> s = {})
  BY FS_Subset, FS_CardinalityType, FS_EmptySet DEF Picks
<1>2. \A s \in SUBSET D : g[s] = Step(c, base, t, g, s)
  BY DEF Iterates
<1>3. 0 \in T  BY <1>1
<1>4. ASSUME NEW n \in Nat, n \in T PROVE n + 1 \in T
  <2> SUFFICES ASSUME NEW s \in SUBSET D, Cardinality(s) = n + 1, NEW y \in s
               PROVE  g[s] = Op(c, t[y], g[s \ {y}])
    OBVIOUS
  <2> DEFINE f == Pick(s)
  <2>1. f \in s  BY DEF Picks
  <2>2. g[s] = Op(c, t[f], g[s \ {f}])  BY <1>2, <2>1 DEF Step
  <2>3. CASE f = y  BY <2>2, <2>3
  <2>4. CASE f # y
    <3>1. \A z \in s : s \ {z} \in SUBSET D /\ Cardinality(s \ {z}) = n
      BY <1>1, SmallerSet
    <3>2. y \in s \ {f} /\ f \in s \ {y}  BY <2>1, <2>4
    <3>3. g[s \ {f}] = Op(c, t[y], g[(s \ {f}) \ {y}])  BY <1>4, <2>1, <3>1, <3>2
    <3>4. g[s \ {y}] = Op(c, t[f], g[(s \ {y}) \ {f}])  BY <1>4, <2>1, <3>1, <3>2
    <3>5. (s \ {f}) \ {y} = (s \ {y}) \ {f} /\ (s \ {y}) \ {f} \in SUBSET D  OBVIOUS
    <3>6. PICK k \in V, l \in V, m \in V : k = t[f] /\ l = t[y] /\ m = g[(s \ {y}) \ {f}]
      BY <2>1, <3>5, FoldsType
    <3>7. g[s] = Op(c, k, Op(c, l, m))  BY <2>2, <3>3, <3>5, <3>6
    <3>8. g[s \ {y}] = Op(c, k, m)  BY <3>4, <3>6
    <3>9. Op(c, k, Op(c, l, m)) = Op(c, l, Op(c, k, m))  BY DEF Commutes
    <3>. QED  BY <3>6, <3>7, <3>8, <3>9
  <2>. QED  BY <2>3, <2>4
<1>. HIDE DEF T
<1>5. Cardinality(D) \in T
  <2>1. Inductive(T)  BY <1>3, <1>4 DEF Inductive
  <2>2. Nat \subseteq T  BY <2>1, InductionOnNumbers
  <2>3. Cardinality(D) \in Nat  BY <1>1
  <2>. QED  BY <2>2, <2>3
<1>. QED  BY <1>5 DEF T

(* The fold of such an operator stays in V, and any value can be the last one. *)
THEOREM FoldRemove ==
  ASSUME NEW c, NEW base, NEW V, Commutes(c, base, V),
         NEW t, Picks(t), \A i \in DOMAIN t : t[i] \in V
  PROVE  /\ FoldOf(c, base, t) \in V
         /\ DOMAIN t = {} => FoldOf(c, base, t) = base
         /\ \A x \in DOMAIN t :
              FoldOf(c, base, t) = Op(c, t[x], FoldOf(c, base, [i \in DOMAIN t \ {x} |-> t[i]]))
<1>1. PICK g : Iterates(c, base, t, g) /\ FoldOf(c, base, t) = g[DOMAIN t]  BY FoldIsIteration
<1>2. FoldOf(c, base, t) \in V  BY <1>1, FoldsType
<1>3. ASSUME NEW x \in DOMAIN t
      PROVE  FoldOf(c, base, t) = Op(c, t[x], FoldOf(c, base, [i \in DOMAIN t \ {x} |-> t[i]]))
  <2> DEFINE u == [i \in DOMAIN t \ {x} |-> t[i]]
  <2>1. DOMAIN u = DOMAIN t \ {x} /\ \A i \in DOMAIN u : u[i] = t[i]  OBVIOUS
  <2>. HIDE DEF u
  <2>2. Picks(u)  BY <2>1, FS_Subset DEF Picks
  <2>3. PICK h : Iterates(c, base, u, h) /\ FoldOf(c, base, u) = h[DOMAIN u]  BY <2>2, FoldIsIteration
  <2>4. g[DOMAIN u] = h[DOMAIN u]  BY <1>1, <2>1, <2>3, FoldsAgree
  <2>5. FoldOf(c, base, t) = Op(c, t[x], g[DOMAIN t \ {x}])  BY <1>1, FoldsRemove
  <2>. QED  BY <2>1, <2>3, <2>4, <2>5 DEF u
<1>4. DOMAIN t = {} => FoldOf(c, base, t) = base  BY FoldEmpty
<1>. QED  BY <1>2, <1>3, <1>4

-------------------------------------------------------------------------------
(* The fold of a sequence from the left picks the last element first.         *)
LEMMA MaxIs ==
  ASSUME NEW n \in Nat, NEW s \in SUBSET (1 .. n), s # {}
  PROVE  Max(s) \in s /\ \A y \in s : Max(s) >= y
<1> DEFINE T == {m \in Nat : \A r \in SUBSET (1 .. m) : r # {} => \E x \in r : \A y \in r : x >= y}
<1>1. 0 \in T
  <2>1. 1 .. 0 = {}  OBVIOUS
  <2>. QED  BY <2>1
<1>2. ASSUME NEW m \in Nat, m \in T PROVE m + 1 \in T
  <2> SUFFICES ASSUME NEW r \in SUBSET (1 .. m + 1), r # {} PROVE \E x \in r : \A y \in r : x >= y
    OBVIOUS
  <2>1. CASE m + 1 \in r  BY <2>1
  <2>2. CASE m + 1 \notin r
    <3>1. r \in SUBSET (1 .. m)  BY <2>2
    <3>. QED  BY <1>2, <3>1
  <2>. QED  BY <2>1, <2>2
<1>. HIDE DEF T
<1>3. n \in T
  <2>1. Inductive(T)  BY <1>1, <1>2 DEF Inductive
  <2>. QED  BY <2>1, InductionOnNumbers
<1>. QED  BY <1>3 DEF T, Max

PicksLargest == \A n \in Nat : \A s \in SUBSET (1 .. n) : s # {} =>
                  Pick(s) \in s /\ \A y \in s : Pick(s) >= y

THEOREM FoldAppend ==
  ASSUME NEW c, NEW base, PicksLargest, NEW S
  PROVE  /\ FoldOf(c, base, << >>) = base
         /\ \A s \in Seq(S), x \in S : FoldOf(c, base, Append(s, x)) = Op(c, x, FoldOf(c, base, s))
<1>1. ASSUME NEW s \in Seq(S) PROVE Picks(s)
  <2>1. DOMAIN s = 1 .. Len(s) /\ Len(s) \in Nat  OBVIOUS
  <2>2. IsFiniteSet(1 .. Len(s))  BY <2>1, FS_Interval
  <2>3. \A r \in SUBSET (1 .. Len(s)) : r # {} => Pick(r) \in r  BY <2>1 DEF PicksLargest
  <2>. QED  BY <2>1, <2>2, <2>3 DEF Picks
<1>2. FoldOf(c, base, << >>) = base
  <2>1. << >> \in Seq(S) /\ DOMAIN << >> = {}  OBVIOUS
  <2>. QED  BY <1>1, <2>1, FoldEmpty
<1>3. ASSUME NEW s \in Seq(S), NEW x \in S
      PROVE  FoldOf(c, base, Append(s, x)) = Op(c, x, FoldOf(c, base, s))
  <2> DEFINE t == Append(s, x)
             n == Len(t)
             u == [i \in DOMAIN t \ {n} |-> t[i]]
  <2>1. /\ t \in Seq(S) /\ n = Len(s) + 1 /\ n \in Nat /\ n \in 1 .. n /\ DOMAIN t = 1 .. n /\ t[n] = x
        /\ DOMAIN s = 1 .. Len(s) /\ \A i \in 1 .. Len(s) : t[i] = s[i]
    OBVIOUS
  <2>2. u = s
    <3>1. DOMAIN t \ {n} = DOMAIN s  BY <2>1
    <3>2. \A i \in DOMAIN s : t[i] = s[i]  BY <2>1
    <3>3. s = [i \in DOMAIN s |-> s[i]]  OBVIOUS
    <3>. QED  BY <3>1, <3>2, <3>3
  <2>. HIDE DEF t, n
  <2>3. Pick(1 .. n) = n
    <3>1. Pick(1 .. n) \in 1 .. n /\ Pick(1 .. n) >= n  BY <2>1 DEF PicksLargest
    <3>. QED  BY <2>1, <3>1
  <2>4. FoldOf(c, base, t) = Op(c, t[n], FoldOf(c, base, u))
    <3>1. DOMAIN t # {} /\ Pick(DOMAIN t) = n  BY <2>1, <2>3
    <3>2. Picks(t)  BY <1>1, <2>1
    <3>. QED  BY <3>1, <3>2, FoldSteps
  <2>. QED  BY <2>1, <2>2, <2>4 DEF t
<1>. QED  BY <1>2, <1>3
===============================================================================
