------------------------ MODULE SequenceDispatcher_proofs ------------------------
(***************************************************************************)
(* For any queries, chains, sessions and limits: with the dispatcher of    *)
(* SequenceDispatcher.cpp and its ChainScheduler.h the server executes the *)
(* queries of a chain for the first time in the order they were sent; they *)
(* keep their books in step, count active tasks exactly and forget nobody  *)
(* who could start.                                                        *)
(***************************************************************************)
EXTENDS SequenceDispatcher, FiniteSetTheorems, TLAPS

Tries(c, n, w) == TryFirst(w)
Charges(c, u, d) == Charge(d, u)
Largest(s) == Max(s)

Trying == INSTANCE FoldTheorems WITH Op <- Tries, Pick <- Largest
Charging == INSTANCE FoldTheorems WITH Op <- Charges, Pick <- Largest

-------------------------------------------------------------------------------
(* Sequences.                                                                 *)
LEMMA ToSetIs ==
  ASSUME NEW S, NEW a \in Seq(S)
  PROVE  /\ ToSet(a) \subseteq S /\ DOMAIN a = 1 .. Len(a) /\ Len(a) \in Nat
         /\ (a = << >> <=> ToSet(a) = {})
  BY DEF ToSet

LEMMA ToSetConcat ==
  ASSUME NEW S, NEW a \in Seq(S), NEW b \in Seq(S)
  PROVE  ToSet(a \o b) = ToSet(a) \union ToSet(b)
<1>1. /\ DOMAIN (a \o b) = 1 .. Len(a) + Len(b) /\ DOMAIN a = 1 .. Len(a) /\ DOMAIN b = 1 .. Len(b)
      /\ Len(a) \in Nat /\ Len(b) \in Nat
  OBVIOUS
<1>2. ASSUME NEW x \in ToSet(a) PROVE x \in ToSet(a \o b)
  <2>1. PICK i \in 1 .. Len(a) : x = a[i]  BY <1>1 DEF ToSet
  <2>2. (a \o b)[i] = x /\ i \in 1 .. Len(a) + Len(b)  BY <1>1, <2>1
  <2>. QED  BY <1>1, <2>2 DEF ToSet
<1>3. ASSUME NEW x \in ToSet(b) PROVE x \in ToSet(a \o b)
  <2>1. PICK i \in 1 .. Len(b) : x = b[i]  BY <1>1 DEF ToSet
  <2>2. (a \o b)[Len(a) + i] = x /\ Len(a) + i \in 1 .. Len(a) + Len(b)  BY <1>1, <2>1
  <2>. QED  BY <1>1, <2>2 DEF ToSet
<1>4. ASSUME NEW x \in ToSet(a \o b) PROVE x \in ToSet(a) \union ToSet(b)
  <2>1. PICK i \in 1 .. Len(a) + Len(b) : x = (a \o b)[i]  BY <1>1, <1>4 DEF ToSet
  <2>2. CASE i <= Len(a)
    <3>1. x = a[i] /\ i \in DOMAIN a  BY <1>1, <2>1, <2>2
    <3>. QED  BY <3>1 DEF ToSet
  <2>3. CASE ~(i <= Len(a))
    <3>1. x = b[i - Len(a)] /\ i - Len(a) \in DOMAIN b  BY <1>1, <2>1, <2>3
    <3>. QED  BY <3>1 DEF ToSet
  <2>. QED  BY <2>2, <2>3
<1>. QED  BY <1>2, <1>3, <1>4

LEMMA ToSetAppend ==
  ASSUME NEW S, NEW a \in Seq(S), NEW x \in S
  PROVE  ToSet(Append(a, x)) = ToSet(a) \union {x}
<1>1. /\ DOMAIN Append(a, x) = 1 .. Len(a) + 1 /\ DOMAIN a = 1 .. Len(a) /\ Len(a) \in Nat
      /\ Append(a, x)[Len(a) + 1] = x /\ \A i \in 1 .. Len(a) : Append(a, x)[i] = a[i]
  OBVIOUS
<1>2. 1 .. Len(a) + 1 = (1 .. Len(a)) \union {Len(a) + 1}  BY <1>1
<1>. QED  BY ONLY <1>1, <1>2 DEF ToSet

Pieces(parts, f, n) == \A i \in 1 .. n : f[i] = IF i = 1 THEN parts[i] ELSE f[i - 1] \o parts[i]

LEMMA FlattenIs ==
  ASSUME NEW S, NEW parts \in Seq(Seq(S)), Len(parts) # 0
  PROVE  \E f : Pieces(parts, f, Len(parts)) /\ FlattenSeq(parts) = f[Len(parts)]
<1> DEFINE n == Len(parts)
           f == CHOOSE f : f = [i \in 1 .. n |-> IF i = 1 THEN parts[i] ELSE f[i - 1] \o parts[i]]
           T == {m \in Nat : \E g : Pieces(parts, g, m)}
<1>1. 0 \in T
  <2>1. Pieces(parts, << >>, 0)  BY DEF Pieces
  <2>. QED  BY <2>1
<1>2. ASSUME NEW m \in Nat, m \in T PROVE m + 1 \in T
  <2>1. PICK g : Pieces(parts, g, m)  BY <1>2
  <2> DEFINE h == [i \in 1 .. m + 1 |-> IF i <= m THEN g[i]
                                        ELSE IF i = 1 THEN parts[i] ELSE g[i - 1] \o parts[i]]
  <2>2. ASSUME NEW i \in 1 .. m + 1 PROVE h[i] = IF i = 1 THEN parts[i] ELSE h[i - 1] \o parts[i]
    <3>1. CASE i = 1
      <4>1. 1 <= m => g[1] = parts[1]  BY <2>1 DEF Pieces
      <4>. QED  BY <3>1, <4>1
    <3>2. CASE i # 1
      <4>1. i - 1 \in 1 .. m + 1 /\ i - 1 <= m  BY <3>2
      <4>2. h[i - 1] = g[i - 1]  BY <4>1
      <4>3. h[i] = g[i - 1] \o parts[i]
        <5>1. \A j \in 1 .. m : j # 1 => g[j] = g[j - 1] \o parts[j]
          <6>1. \A j \in 1 .. m : g[j] = IF j = 1 THEN parts[j] ELSE g[j - 1] \o parts[j]
            BY ONLY <2>1 DEF Pieces
          <6>. QED  BY ONLY <6>1
        <5>2. i <= m => i \in 1 .. m  OBVIOUS
        <5>. QED  BY <3>2, <5>1, <5>2
      <4>. QED  BY <3>2, <4>2, <4>3
    <3>. QED  BY <3>1, <3>2
  <2>. HIDE DEF h
  <2>3. Pieces(parts, h, m + 1)  BY <2>2 DEF Pieces
  <2>. QED  BY <2>3
<1>. HIDE DEF T
<1>3. n \in T
  <2>1. Trying!Inductive(T)  BY <1>1, <1>2 DEF Trying!Inductive
  <2>2. Nat \subseteq T  BY <2>1, Trying!InductionOnNumbers
  <2>. QED  BY <2>2
<1>4. PICK g : Pieces(parts, g, n)  BY <1>3 DEF T
<1> DEFINE h == [i \in 1 .. n |-> g[i]]
<1>5. ASSUME NEW i \in 1 .. n PROVE h[i] = IF i = 1 THEN parts[i] ELSE h[i - 1] \o parts[i]
  <2>1. h[i] = IF i = 1 THEN parts[i] ELSE g[i - 1] \o parts[i]  BY <1>4 DEF Pieces
  <2>2. i # 1 => i - 1 \in 1 .. n  OBVIOUS
  <2>. QED  BY <2>1, <2>2
<1>6. h = [i \in 1 .. n |-> h[i]]  OBVIOUS
<1>. HIDE DEF h
<1>7. h = [i \in 1 .. n |-> IF i = 1 THEN parts[i] ELSE h[i - 1] \o parts[i]]  BY <1>5, <1>6
<1>8. f = [i \in 1 .. n |-> IF i = 1 THEN parts[i] ELSE f[i - 1] \o parts[i]]  BY <1>7
<1>9. FlattenSeq(parts) = f[n]  BY DEF FlattenSeq
<1>. HIDE DEF f
<1>10. Pieces(parts, f, n)  BY <1>8 DEF Pieces
<1>. QED  BY <1>9, <1>10

(* What FlattenSeq returns: the elements of the parts, and no more of them    *)
(* than there are parts when a part has at most one.                          *)
LEMMA Flattened ==
  ASSUME NEW S, NEW parts \in Seq(Seq(S))
  PROVE  /\ FlattenSeq(parts) \in Seq(S)
         /\ \A x : x \in ToSet(FlattenSeq(parts)) <=> \E i \in 1 .. Len(parts) : x \in ToSet(parts[i])
         /\ (\A i \in 1 .. Len(parts) : Len(parts[i]) <= 1) => Len(FlattenSeq(parts)) <= Len(parts)
<1>1. CASE Len(parts) = 0
  <2>1. FlattenSeq(parts) = parts /\ parts = << >>  BY <1>1 DEF FlattenSeq
  <2>2. ToSet(<< >>) = {}  BY DEF ToSet
  <2>. QED  BY <1>1, <2>1, <2>2
<1>2. CASE Len(parts) # 0
  <2>1. PICK f : Pieces(parts, f, Len(parts)) /\ FlattenSeq(parts) = f[Len(parts)]  BY <1>2, FlattenIs
  <2>2. Len(parts) \in Nat /\ \A i \in 1 .. Len(parts) : parts[i] \in Seq(S)  OBVIOUS
  <2> DEFINE Right(i) == /\ f[i] \in Seq(S)
                         /\ \A x : x \in ToSet(f[i]) <=> \E j \in 1 .. i : x \in ToSet(parts[j])
                         /\ (\A j \in 1 .. Len(parts) : Len(parts[j]) <= 1) => Len(f[i]) <= i
             T == {i \in Nat : i \in 1 .. Len(parts) => Right(i)}
  <2>3. 0 \in T  OBVIOUS
  <2>. HIDE DEF Right
  <2>4. ASSUME NEW m \in Nat, m \in T PROVE m + 1 \in T
    <3>1. SUFFICES ASSUME m + 1 \in 1 .. Len(parts) PROVE Right(m + 1)  OBVIOUS
    <3>2. CASE m = 0
      <4>1. f[m + 1] = parts[1] /\ 1 \in 1 .. Len(parts)  BY <2>1, <2>2, <3>2, <3>1 DEF Pieces
      <4>2. 1 .. m + 1 = {1}  BY <3>2
      <4>. QED  BY <2>2, <3>2, <4>1, <4>2 DEF Right
    <3>3. CASE m # 0
      <4>1. m \in 1 .. Len(parts) /\ m + 1 # 1 /\ m + 1 - 1 = m  BY <2>2, <3>3, <3>1
      <4>2. f[m + 1] = f[m] \o parts[m + 1]
        <5>1. \A i \in 1 .. Len(parts) : f[i] = IF i = 1 THEN parts[i] ELSE f[i - 1] \o parts[i]
          BY ONLY <2>1 DEF Pieces
        <5>2. \A i \in 1 .. Len(parts) : i # 1 => f[i] = f[i - 1] \o parts[i]  BY ONLY <5>1
        <5>3. PICK i \in 1 .. Len(parts) : i = m + 1 /\ i - 1 = m /\ i # 1  BY <3>1, <4>1
        <5>4. f[i] = f[i - 1] \o parts[i]  BY ONLY <5>2, <5>3
        <5>. QED  BY <5>3, <5>4
      <4>3. Right(m)  BY <2>4, <4>1
      <4>4. PICK a \in Seq(S), b \in Seq(S) : a = f[m] /\ b = parts[m + 1]  BY <2>2, <3>1, <4>3 DEF Right
      <4>5. ToSet(a \o b) = ToSet(a) \union ToSet(b) /\ a \o b \in Seq(S) /\ Len(a \o b) = Len(a) + Len(b)
        BY ToSetConcat
      <4>6. \A x : x \in ToSet(a) <=> \E j \in 1 .. m : x \in ToSet(parts[j])  BY <4>3, <4>4 DEF Right
      <4>7. 1 .. m + 1 = (1 .. m) \union {m + 1}  OBVIOUS
      <4>8. \A x : x \in ToSet(a \o b) <=> \E j \in 1 .. m + 1 : x \in ToSet(parts[j])
        BY ONLY <4>4, <4>5, <4>6, <4>7
      <4>9. (\A j \in 1 .. Len(parts) : Len(parts[j]) <= 1) => Len(a \o b) <= m + 1
        <5> SUFFICES ASSUME \A j \in 1 .. Len(parts) : Len(parts[j]) <= 1 PROVE Len(a \o b) <= m + 1
          OBVIOUS
        <5>1. Len(a) <= m /\ Len(b) <= 1  BY <3>1, <4>3, <4>4 DEF Right
        <5>2. Len(a) \in Nat /\ Len(b) \in Nat  OBVIOUS
        <5>. QED  BY <4>5, <5>1, <5>2
      <4>10. f[m + 1] = a \o b  BY <4>2, <4>4
      <4>. QED  BY ONLY <4>5, <4>8, <4>9, <4>10 DEF Right
    <3>. QED  BY <3>2, <3>3
  <2>. HIDE DEF T
  <2>5. Len(parts) \in T
    <3>1. Trying!Inductive(T)  BY <2>3, <2>4 DEF Trying!Inductive
    <3>2. Nat \subseteq T  BY <3>1, Trying!InductionOnNumbers
    <3>. QED  BY <2>2, <3>2
  <2>6. Right(Len(parts))  BY <1>2, <2>2, <2>5 DEF T
  <2>7. FlattenSeq(parts) \in Seq(S) /\ \A x : x \in ToSet(FlattenSeq(parts)) <=> \E i \in 1 .. Len(parts) : x \in ToSet(parts[i])
    BY <2>1, <2>6 DEF Right
  <2>8. (\A i \in 1 .. Len(parts) : Len(parts[i]) <= 1) => Len(FlattenSeq(parts)) <= Len(parts)
    BY <2>1, <2>6 DEF Right
  <2>. QED  BY <2>7, <2>8
<1>. QED  BY <1>1, <1>2

-------------------------------------------------------------------------------
(* A chain is a set of tasks in the order of their names, and a task has at   *)
(* most one parent and one child in it.                                       *)
Members(s, c) == ToSet(s.chain[c])
Ahead(s, t, c) == {u \in Members(s, c) : u < t}
Current(s, t, c) == s.node[t][c] = s.gen[c]
Clear(s, t, c) == \A u \in Ahead(s, t, c) : Current(s, u, c)
IsParent(s, p, t, c) == p \in Ahead(s, t, c) /\ \A u \in Ahead(s, t, c) : u <= p
IsChild(s, q, t, c) == q \in Members(s, c) /\ t < q /\ \A u \in Members(s, c) : t < u => q <= u
Sorted(us) == \A i, j \in DOMAIN us : i < j => us[i] < us[j]

Joined(s) ==
  /\ s \in Schedulers
  /\ \A t \in Tasks : IsInjective(s.chains[t]) /\ (s.state[t] = "None" <=> s.chains[t] = << >>)
  /\ \A c \in Chains : Sorted(s.chain[c])
  /\ \A t \in Tasks, c \in Chains : t \in Members(s, c) <=> c \in ChainSet(s, t)

LEMMA Fields ==
  ASSUME NEW s \in Schedulers
  PROVE  /\ s.chains \in [Tasks -> Seq(Chains)]
         /\ s.state \in [Tasks -> {"None", "Pending", "Active", "Paused"}]
         /\ s.node \in [Tasks -> [Chains -> Nat]]
         /\ s.chain \in [Chains -> Seq(Tasks)]
         /\ s.active \in [Chains -> Nat]
         /\ s.gen \in [Chains -> Nat]
         /\ s.limited \in [Chains -> Tasks \union {NoTask}]
         /\ s.pending \in Seq(Tasks)
  BY DEF Schedulers

LEMMA TasksAreNumbers == \A t \in Tasks : t \in Nat
  BY DispatcherAssumption

LEMMA PlaceIs ==
  ASSUME NEW s, Joined(s), NEW c \in Chains, NEW t \in Members(s, c)
  PROVE  /\ s.chain[c] \in Seq(Tasks) /\ DOMAIN s.chain[c] = 1 .. Len(s.chain[c])
         /\ Len(s.chain[c]) \in Nat /\ t \in Tasks
         /\ Place(s, t, c) \in 1 .. Len(s.chain[c]) /\ s.chain[c][Place(s, t, c)] = t
<1>1. s.chain[c] \in Seq(Tasks)  BY Fields DEF Joined
<1>2. DOMAIN s.chain[c] = 1 .. Len(s.chain[c]) /\ Len(s.chain[c]) \in Nat  BY <1>1
<1>3. PICK i \in 1 .. Len(s.chain[c]) : s.chain[c][i] = t  BY <1>2 DEF Members, ToSet
<1>4. Place(s, t, c) \in 1 .. Len(s.chain[c]) /\ s.chain[c][Place(s, t, c)] = t  BY <1>3 DEF Place
<1>5. t \in Tasks  BY <1>1, <1>3
<1>. QED  BY <1>1, <1>2, <1>4, <1>5

LEMMA ByPlace ==
  ASSUME NEW us \in Seq(Tasks), Sorted(us), NEW i \in 1 .. Len(us), NEW j \in 1 .. Len(us)
  PROVE  (i < j <=> us[i] < us[j]) /\ (us[i] = us[j] => i = j) /\ (us[i] <= us[j] <=> i <= j)
<1>1. us[i] \in Nat /\ us[j] \in Nat /\ i \in Nat /\ j \in Nat  BY TasksAreNumbers
<1>2. DOMAIN us = 1 .. Len(us)  OBVIOUS
<1>3. (i < j => us[i] < us[j]) /\ (j < i => us[j] < us[i])  BY <1>2 DEF Sorted
<1>. QED  BY <1>1, <1>3

LEMMA ParentIs ==
  ASSUME NEW s, Joined(s), NEW c \in Chains, NEW t \in Members(s, c)
  PROVE  /\ Parent(s, t, c) \in Seq(Tasks) /\ Len(Parent(s, t, c)) <= 1
         /\ \A p : p \in ToSet(Parent(s, t, c)) <=> IsParent(s, p, t, c)
         /\ Ahead(s, t, c) # {} => \E p : IsParent(s, p, t, c)
<1> DEFINE k == Place(s, t, c)
           us == s.chain[c]
<1>1. /\ us \in Seq(Tasks) /\ DOMAIN us = 1 .. Len(us) /\ Len(us) \in Nat /\ k \in 1 .. Len(us) /\ us[k] = t
  BY PlaceIs
<1>2. Sorted(us)  BY DEF Joined
<1>3. \A u : u \in Ahead(s, t, c) <=> \E i \in 1 .. Len(us) : u = us[i] /\ i < k
  <2>1. \A i \in 1 .. Len(us) : us[i] < t <=> i < k  BY <1>1, <1>2, ByPlace
  <2>. QED  BY <1>1, <2>1 DEF Ahead, Members, ToSet
<1>4. CASE k = 1
  <2>1. Parent(s, t, c) = << >>
    <3>1. ~(k - 1 \in DOMAIN us)  BY <1>1, <1>4
    <3>. QED  BY <3>1 DEF Parent, At
  <2>2. Ahead(s, t, c) = {}  BY <1>3, <1>4
  <2>3. ToSet(<< >>) = {}  BY DEF ToSet
  <2>. QED  BY <2>1, <2>2, <2>3 DEF IsParent
<1>5. CASE k # 1
  <2>1. PICK p \in Tasks : p = us[k - 1]  BY <1>1, <1>5
  <2>2. k - 1 \in 1 .. Len(us) /\ k - 1 < k  BY <1>1, <1>5
  <2>3. Parent(s, t, c) = <<p>>  BY <1>1, <2>1, <2>2 DEF Parent, At
  <2>4. IsParent(s, p, t, c)
    <3>1. p \in Ahead(s, t, c)  BY <1>3, <2>1, <2>2
    <3>2. ASSUME NEW u \in Ahead(s, t, c) PROVE u <= p
      <4>1. PICK i \in 1 .. Len(us) : u = us[i] /\ i < k  BY <1>3
      <4>2. i <= k - 1  BY <1>1, <4>1
      <4>3. us[i] <= us[k - 1]  BY <1>1, <1>2, <2>2, <4>2, ByPlace
      <4>. QED  BY <2>1, <4>1, <4>3
    <3>. QED  BY <3>1, <3>2 DEF IsParent
  <2>5. ASSUME NEW q, IsParent(s, q, t, c) PROVE q = p
    <3>1. q \in Ahead(s, t, c) /\ p <= q /\ q <= p /\ q \in Tasks
      BY <1>1, <1>3, <2>4, <2>5 DEF IsParent
    <3>. QED  BY <3>1, TasksAreNumbers
  <2>6. ToSet(<<p>>) = {p}  BY DEF ToSet
  <2>. QED  BY <2>3, <2>4, <2>5, <2>6
<1>. QED  BY <1>4, <1>5

LEMMA ChildIs ==
  ASSUME NEW s, Joined(s), NEW c \in Chains, NEW t \in Members(s, c)
  PROVE  /\ Child(s, t, c) \in Seq(Tasks) /\ Len(Child(s, t, c)) <= 1
         /\ \A q : IsChild(s, q, t, c) => q \in ToSet(Child(s, t, c))
<1> DEFINE k == Place(s, t, c)
           us == s.chain[c]
<1>1. /\ us \in Seq(Tasks) /\ DOMAIN us = 1 .. Len(us) /\ Len(us) \in Nat /\ k \in 1 .. Len(us) /\ us[k] = t
  BY PlaceIs
<1>2. Sorted(us)  BY DEF Joined
<1>3. CASE k = Len(us)
  <2>1. Child(s, t, c) = << >>
    <3>1. ~(k + 1 \in DOMAIN us)  BY <1>1, <1>3
    <3>. QED  BY <3>1 DEF Child, At
  <2>2. ASSUME NEW q, IsChild(s, q, t, c) PROVE FALSE
    <3>1. PICK i \in 1 .. Len(us) : q = us[i]  BY <1>1, <2>2 DEF IsChild, Members, ToSet
    <3>2. us[k] < us[i]  BY <1>1, <2>2, <3>1 DEF IsChild
    <3>3. k < i  BY <1>1, <1>2, <3>2, ByPlace
    <3>. QED  BY <1>1, <1>3, <3>3
  <2>. QED  BY <2>1, <2>2
<1>4. CASE k # Len(us)
  <2>1. PICK p \in Tasks : p = us[k + 1]  BY <1>1, <1>4
  <2>2. k + 1 \in 1 .. Len(us) /\ k < k + 1  BY <1>1, <1>4
  <2>3. Child(s, t, c) = <<p>>  BY <1>1, <2>1, <2>2 DEF Child, At
  <2>4. ASSUME NEW q, IsChild(s, q, t, c) PROVE q = p
    <3>1. PICK i \in 1 .. Len(us) : q = us[i]  BY <1>1, <2>4 DEF IsChild, Members, ToSet
    <3>2. us[k] < us[i]  BY <1>1, <2>4, <3>1 DEF IsChild
    <3>3. k < i  BY <1>1, <1>2, <3>2, ByPlace
    <3>4. us[k] < us[k + 1]  BY <1>1, <1>2, <2>2, ByPlace
    <3>5. p \in Members(s, c) /\ t < p  BY <1>1, <2>1, <2>2, <3>4 DEF Members, ToSet
    <3>6. q <= p  BY <2>4, <3>5 DEF IsChild
    <3>7. p <= q
      <4>1. k + 1 <= i  BY <1>1, <3>3
      <4>. QED  BY <1>1, <1>2, <2>1, <2>2, <3>1, <4>1, ByPlace
    <3>. QED  BY <1>1, <2>1, <3>1, <3>6, <3>7, TasksAreNumbers
  <2>5. ToSet(<<p>>) = {p}  BY DEF ToSet
  <2>. QED  BY <2>3, <2>4, <2>5
<1>. QED  BY <1>3, <1>4

LEMMA ChainsOf ==
  ASSUME NEW s, Joined(s), NEW t \in Tasks
  PROVE  /\ s.chains[t] \in Seq(Chains) /\ Len(s.chains[t]) \in Nat
         /\ \A i \in 1 .. Len(s.chains[t]) : s.chains[t][i] \in Chains /\ t \in Members(s, s.chains[t][i])
         /\ \A c : c \in ChainSet(s, t) <=> c \in Chains /\ \E i \in 1 .. Len(s.chains[t]) : s.chains[t][i] = c
         /\ Len(s.chains[t]) <= Cardinality(Chains) /\ Cardinality(Chains) \in Nat
<1>1. s.chains[t] \in Seq(Chains)  BY Fields DEF Joined
<1>2. Len(s.chains[t]) \in Nat /\ DOMAIN s.chains[t] = 1 .. Len(s.chains[t])  BY <1>1
<1>3. \A i \in 1 .. Len(s.chains[t]) : s.chains[t][i] \in Chains  BY <1>1
<1>4. \A c : c \in ChainSet(s, t) <=> c \in Chains /\ \E i \in 1 .. Len(s.chains[t]) : s.chains[t][i] = c
  BY <1>2, <1>3 DEF ChainSet, ToSet
<1>5. \A i \in 1 .. Len(s.chains[t]) : t \in Members(s, s.chains[t][i])  BY <1>3, <1>4 DEF Joined
<1>6. Len(s.chains[t]) <= Cardinality(Chains) /\ Cardinality(Chains) \in Nat
  <2>1. IsFiniteSet(Chains) /\ Cardinality(Chains) \in Nat  BY SchedulerAssumption, FS_CardinalityType
  <2>2. s.chains[t] \in [1 .. Len(s.chains[t]) -> Chains]
    <3>1. PICK us \in Seq(Chains) : us = s.chains[t]  BY <1>1
    <3>2. us \in [1 .. Len(us) -> Chains]  OBVIOUS
    <3>. QED  BY <3>1, <3>2
  <2>3. IsInjective(s.chains[t])  BY DEF Joined
  <2>4. s.chains[t] \in Injection(1 .. Len(s.chains[t]), Chains)
    BY <1>2, <2>2, <2>3 DEF Injection, IsInjective
  <2>5. Cardinality(1 .. Len(s.chains[t])) <= Cardinality(Chains)  BY <2>1, <2>4, FS_Injection
  <2>6. Cardinality(1 .. Len(s.chains[t])) = Len(s.chains[t])  BY <1>2, FS_Interval
  <2>. QED  BY <2>1, <2>5, <2>6
<1>. QED  BY <1>1, <1>2, <1>3, <1>4, <1>5, <1>6

LEMMA ChildrenAre ==
  ASSUME NEW s, Joined(s), NEW t \in Tasks
  PROVE  /\ Children(s, t) \in Seq(Tasks) /\ Len(Children(s, t)) <= Len(s.chains[t])
         /\ \A c \in ChainSet(s, t) : \A q : IsChild(s, q, t, c) => q \in ToSet(Children(s, t))
<1> DEFINE parts == [i \in 1 .. Len(s.chains[t]) |-> Child(s, t, s.chains[t][i])]
<1>1. \A i \in 1 .. Len(s.chains[t]) : parts[i] \in Seq(Tasks) /\ Len(parts[i]) <= 1
  BY ChainsOf, ChildIs
<1>2. parts \in Seq(Seq(Tasks)) /\ Len(parts) = Len(s.chains[t])
  <2>1. Len(s.chains[t]) \in Nat  BY ChainsOf
  <2>2. parts \in [1 .. Len(s.chains[t]) -> Seq(Tasks)]  BY <1>1
  <2>. QED  BY <2>1, <2>2
<1>3. Children(s, t) = FlattenSeq(parts)  BY DEF Children
<1>4. ASSUME NEW c \in ChainSet(s, t), NEW q, IsChild(s, q, t, c) PROVE \E i \in 1 .. Len(parts) : q \in ToSet(parts[i])
  <2>1. PICK i \in 1 .. Len(s.chains[t]) : s.chains[t][i] = c /\ c \in Chains /\ t \in Members(s, c)  BY ChainsOf
  <2>2. q \in ToSet(parts[i])  BY <1>4, <2>1, ChildIs
  <2>. QED  BY <1>2, <2>2
<1>. HIDE DEF parts
<1>. QED  BY <1>1, <1>2, <1>3, <1>4, Flattened

LEMMA ParentsAre ==
  ASSUME NEW s, Joined(s), NEW t \in Tasks
  PROVE  /\ ToSet(Parents(s, t)) \subseteq Tasks
         /\ \A c \in ChainSet(s, t) : \A p : IsParent(s, p, t, c) => p \in ToSet(Parents(s, t))
<1> DEFINE parts == [i \in 1 .. Len(s.chains[t]) |-> Parent(s, t, s.chains[t][i])]
<1>1. \A i \in 1 .. Len(s.chains[t]) : parts[i] \in Seq(Tasks) /\ Len(parts[i]) <= 1
  BY ChainsOf, ParentIs
<1>2. parts \in Seq(Seq(Tasks)) /\ Len(parts) = Len(s.chains[t])
  <2>1. Len(s.chains[t]) \in Nat  BY ChainsOf
  <2>2. parts \in [1 .. Len(s.chains[t]) -> Seq(Tasks)]  BY <1>1
  <2>. QED  BY <2>1, <2>2
<1>3. Parents(s, t) = FlattenSeq(parts)  BY DEF Parents
<1>4. ASSUME NEW c \in ChainSet(s, t), NEW q, IsParent(s, q, t, c) PROVE \E i \in 1 .. Len(parts) : q \in ToSet(parts[i])
  <2>1. PICK i \in 1 .. Len(s.chains[t]) : s.chains[t][i] = c /\ c \in Chains /\ t \in Members(s, c)  BY ChainsOf
  <2>2. q \in ToSet(parts[i])  BY <1>4, <2>1, ParentIs
  <2>. QED  BY <1>2, <2>2
<1>. HIDE DEF parts
<1>5. FlattenSeq(parts) \in Seq(Tasks)  BY <1>2, Flattened
<1>6. ToSet(FlattenSeq(parts)) \subseteq Tasks  BY <1>5, ToSetIs
<1>7. \A x : x \in ToSet(FlattenSeq(parts)) <=> \E i \in 1 .. Len(parts) : x \in ToSet(parts[i])  BY <1>2, Flattened
<1>. QED  BY <1>3, <1>4, <1>6, <1>7

(* RemoveAt takes one task out of a chain and leaves it in order.             *)
LEMMA Removed ==
  ASSUME NEW us \in Seq(Tasks), Sorted(us), NEW k \in 1 .. Len(us)
  PROVE  /\ RemoveAt(us, k) \in Seq(Tasks) /\ Sorted(RemoveAt(us, k))
         /\ ToSet(RemoveAt(us, k)) = ToSet(us) \ {us[k]}
<1> DEFINE n == Len(us)
           r == RemoveAt(us, k)
           Old(i) == IF i < k THEN i ELSE i + 1
<1>1. n \in Nat /\ DOMAIN us = 1 .. n /\ k \in Nat  OBVIOUS
<1>2. /\ r \in Seq(Tasks) /\ Len(r) = n - 1 /\ DOMAIN r = 1 .. n - 1
      /\ \A i \in 1 .. n - 1 : r[i] = us[Old(i)]
  <2>1. PICK a, b : a = SubSeq(us, 1, k - 1) /\ b = SubSeq(us, k + 1, n)  OBVIOUS
  <2>2. a \in Seq(Tasks) /\ b \in Seq(Tasks)
    <3>1. \A i \in 1 .. k - 1 : us[i] \in Tasks  BY <1>1
    <3>2. \A i \in k + 1 .. n : us[i] \in Tasks  BY <1>1
    <3>. QED  BY <1>1, <2>1, <3>1, <3>2
  <2>3. Len(a) = k - 1 /\ \A i \in 1 .. k - 1 : a[i] = us[i]  BY <2>1
  <2>4. Len(b) = n - k /\ \A i \in 1 .. n - k : b[i] = us[k + i]  BY <2>1
  <2>5. r = a \o b  BY <2>1 DEF RemoveAt
  <2>6. Len(r) = n - 1 /\ r \in Seq(Tasks)
    <3>1. a \o b \in Seq(Tasks) /\ Len(a \o b) = Len(a) + Len(b)  BY ONLY <2>2
    <3>2. (k - 1) + (n - k) = n - 1  BY <1>1
    <3>3. Len(a) + Len(b) = n - 1  BY <2>3, <2>4, <3>2
    <3>. QED  BY <2>5, <3>1, <3>3
  <2>7. ASSUME NEW i \in 1 .. n - 1 PROVE r[i] = us[Old(i)]
    <3>1. CASE i < k  BY <1>1, <2>3, <2>5, <3>1
    <3>2. CASE ~(i < k)
      <4>1. r[i] = b[i - (k - 1)]  BY <1>1, <2>3, <2>4, <2>5, <3>2
      <4>2. i - (k - 1) \in 1 .. n - k /\ k + (i - (k - 1)) = i + 1  BY <1>1, <3>2
      <4>. QED  BY <2>4, <3>2, <4>1, <4>2
    <3>. QED  BY <3>1, <3>2
  <2>. QED  BY <2>6, <2>7
<1>. HIDE DEF r
<1>3. Sorted(r)
  <2> SUFFICES ASSUME NEW i \in 1 .. n - 1, NEW j \in 1 .. n - 1, i < j PROVE r[i] < r[j]
    BY <1>2 DEF Sorted
  <2>1. Old(i) \in 1 .. n /\ Old(j) \in 1 .. n /\ Old(i) < Old(j)  BY <1>1
  <2>2. us[Old(i)] < us[Old(j)]  BY <1>1, <2>1 DEF Sorted
  <2>. QED  BY <1>2, <2>2
<1>4. ASSUME NEW x \in ToSet(r) PROVE x \in ToSet(us) \ {us[k]}
  <2>1. PICK i \in 1 .. n - 1 : x = us[Old(i)]  BY <1>2 DEF ToSet
  <2>2. Old(i) \in 1 .. n /\ Old(i) # k  BY <1>1
  <2>3. us[Old(i)] # us[k]  BY <1>1, <2>2, ByPlace
  <2>. QED  BY <1>1, <2>1, <2>2, <2>3 DEF ToSet
<1>5. ASSUME NEW x \in ToSet(us) \ {us[k]} PROVE x \in ToSet(r)
  <2>1. PICK j \in 1 .. n : x = us[j] /\ j # k  BY <1>1 DEF ToSet
  <2>2. PICK i \in 1 .. n - 1 : Old(i) = j
    <3>1. j < k => j \in 1 .. n - 1 /\ Old(j) = j  BY <1>1
    <3>2. j > k => j - 1 \in 1 .. n - 1 /\ Old(j - 1) = j  BY <1>1
    <3>. QED  BY <1>1, <2>1, <3>1, <3>2
  <2>. QED  BY <1>2, <2>1, <2>2 DEF ToSet
<1>. QED  BY <1>2, <1>3, <1>4, <1>5 DEF r

-------------------------------------------------------------------------------
(* What holds of a scheduler between two calls of its functions, and in       *)
(* try_start_task: the counts are exact; the tasks started in the current     *)
(* generation of a chain are its first ones and active.                       *)
Running(s, c) == {t \in Members(s, c) : s.state[t] = "Active"}
Counted(s) == \A c \in Chains : s.active[c] = Cardinality(Running(s, c)) /\ s.active[c] <= Limit

Pipelined(s) ==
  \A c \in Chains :
     /\ s.gen[c] >= 1
     /\ \A t \in Members(s, c) :
          /\ s.node[t][c] <= s.gen[c]
          /\ Current(s, t, c) => s.state[t] = "Active" /\ Clear(s, t, c)

Listed(s) ==
  /\ \A c \in Chains : s.limited[c] \in Members(s, c) \union {NoTask}
  /\ \A t \in ToSet(s.pending) : s.state[t] = "Active"

Good(s) == Joined(s) /\ Counted(s) /\ Pipelined(s) /\ Listed(s)

(* A task whose parents have started is being tried, or some chain that is    *)
(* full remembers it.                                                         *)
Ready(s, t) == s.state[t] = "Pending" /\ \A c \in ChainSet(s, t) : Clear(s, t, c)
Blocked(s, t) == \E c \in ChainSet(s, t) : ~HasRoom(s, c) /\ s.limited[c] = t
Tended(s, T) == \A t \in Tasks : Ready(s, t) => t \in T \/ Blocked(s, t)

LEMMA MemberIs ==
  ASSUME NEW s, Joined(s), NEW c \in Chains
  PROVE  /\ Members(s, c) \subseteq Tasks
         /\ \A t \in Members(s, c) : t \in Nat /\ c \in ChainSet(s, t)
                                     /\ s.node[t][c] \in Nat /\ s.gen[c] \in Nat
         /\ \A t \in Tasks : c \in ChainSet(s, t) => t \in Members(s, c)
         /\ IsFiniteSet(Running(s, c))
<1>1. s.chain[c] \in Seq(Tasks) /\ s.gen[c] \in Nat /\ \A t \in Tasks : s.node[t][c] \in Nat
  BY Fields DEF Joined
<1>2. Members(s, c) \subseteq Tasks  BY <1>1, ToSetIs DEF Members
<1>3. Running(s, c) \subseteq Tasks  BY <1>2 DEF Running
<1>4. IsFiniteSet(Running(s, c))  BY <1>3, SchedulerAssumption, FS_Subset
<1>. QED  BY <1>1, <1>2, <1>4, TasksAreNumbers DEF Joined

LEMMA ChainSetIs ==
  ASSUME NEW s, Joined(s), NEW t \in Tasks
  PROVE  ChainSet(s, t) \subseteq Chains /\ \A c \in ChainSet(s, t) : t \in Members(s, c)
  BY ChainsOf, MemberIs

LEMMA ParentStartedIs ==
  ASSUME NEW s, Joined(s), Pipelined(s), NEW c \in Chains, NEW t \in Members(s, c)
  PROVE  ParentStarted(s, t, c) <=> Clear(s, t, c)
<1>1. ASSUME Clear(s, t, c) PROVE ParentStarted(s, t, c)
  <2>1. ASSUME NEW p \in ToSet(Parent(s, t, c)) PROVE s.node[p][c] = s.gen[c]
    <3>1. IsParent(s, p, t, c)  BY ParentIs
    <3>. QED  BY <1>1, <3>1 DEF IsParent, Clear, Current
  <2>. QED  BY <2>1 DEF ParentStarted
<1>2. ASSUME ParentStarted(s, t, c), NEW u \in Ahead(s, t, c) PROVE Current(s, u, c)
  <2>1. PICK p : IsParent(s, p, t, c)  BY ParentIs
  <2>2. Current(s, p, c)  BY <1>2, <2>1, ParentIs DEF ParentStarted, Current
  <2>3. p \in Members(s, c) /\ u \in Members(s, c) /\ u <= p  BY <2>1 DEF IsParent, Ahead
  <2>4. CASE u = p  BY <2>2, <2>4
  <2>5. CASE u # p
    <3>1. u < p  BY <2>3, <2>5, MemberIs
    <3>2. u \in Ahead(s, p, c)  BY <2>3, <3>1 DEF Ahead
    <3>3. Clear(s, p, c)  BY <2>2, <2>3 DEF Pipelined
    <3>. QED  BY <3>2, <3>3 DEF Clear
  <2>. QED  BY <2>4, <2>5
<1>. QED  BY <1>1, <1>2 DEF Clear

LEMMA OneFrontier ==
  ASSUME NEW s, Joined(s), NEW c \in Chains, NEW t \in Members(s, c), NEW u \in Members(s, c),
         ~Current(s, t, c), ~Current(s, u, c), Clear(s, t, c), Clear(s, u, c)
  PROVE  t = u
<1>1. ~(t < u) /\ ~(u < t)  BY DEF Clear, Ahead
<1>. QED  BY <1>1, MemberIs

LEMMA MinIs ==
  ASSUME NEW I \in SUBSET Nat, I # {}
  PROVE  Min(I) \in I /\ \A i \in I : Min(I) <= i
<1> DEFINE T == {n \in Nat : \A S \in SUBSET Nat : (\E m \in S : m <= n) => \E x \in S : \A y \in S : x <= y}
<1>1. 0 \in T
  <2> SUFFICES ASSUME NEW S \in SUBSET Nat, NEW m \in S, m <= 0 PROVE \E x \in S : \A y \in S : x <= y
    OBVIOUS
  <2>1. \A y \in S : m <= y  OBVIOUS
  <2>. QED  BY <2>1
<1>2. ASSUME NEW n \in Nat, n \in T PROVE n + 1 \in T
  <2> SUFFICES ASSUME NEW S \in SUBSET Nat, NEW m \in S, m <= n + 1 PROVE \E x \in S : \A y \in S : x <= y
    OBVIOUS
  <2>1. CASE \E k \in S : k <= n  BY <1>2, <2>1
  <2>2. CASE ~ \E k \in S : k <= n
    <3>1. \A y \in S : m <= y  BY <2>2
    <3>. QED  BY <3>1
  <2>. QED  BY <2>1, <2>2
<1>. HIDE DEF T
<1>3. Nat \subseteq T
  <2>1. Trying!Inductive(T)  BY <1>1, <1>2 DEF Trying!Inductive
  <2>. QED  BY <2>1, Trying!InductionOnNumbers
<1>4. \E x \in I : \A y \in I : x <= y
  <2>1. PICK m \in I : TRUE  OBVIOUS
  <2>2. m \in T /\ m <= m  BY <1>3
  <2>. QED  BY <2>2 DEF T
<1>. QED  BY <1>4 DEF Min

-------------------------------------------------------------------------------
(* What try_start_task does to the rest: it may start pending tasks, which    *)
(* are then on pending_tasks_; when none can start, it only remembers tasks.  *)
Starts(s, e) ==
  /\ e.chains = s.chains /\ e.chain = s.chain /\ e.gen = s.gen
  /\ \A t \in Tasks :
       \/ e.state[t] = s.state[t] /\ (t \in ToSet(e.pending) <=> t \in ToSet(s.pending))
       \/ s.state[t] = "Pending" /\ e.state[t] = "Active" /\ t \in ToSet(e.pending)

Idle(s) == \A t \in Tasks : ~CanStart(s, t)

Remembers(s, e) == /\ e.chains = s.chains /\ e.chain = s.chain /\ e.gen = s.gen /\ e.node = s.node
                   /\ e.state = s.state /\ e.pending = s.pending /\ e.active = s.active

LEMMA StartsTransitive ==
  ASSUME NEW s, NEW e, NEW f, Starts(s, e), Starts(e, f)
  PROVE  Starts(s, f)
  BY DEF Starts

LEMMA SameStart ==
  ASSUME NEW s, NEW e, Remembers(s, e), NEW t
  PROVE  CanStart(s, t) <=> CanStart(e, t)
<1>1. \A c : Place(e, t, c) = Place(s, t, c)  BY DEF Remembers, Place
<1>2. \A c, i : At(e, c, i) = At(s, c, i)  BY DEF Remembers, At
<1>3. \A c : Parent(e, t, c) = Parent(s, t, c)  BY <1>1, <1>2 DEF Parent
<1>4. \A c : Refuses(e, t, c) <=> Refuses(s, t, c)
  BY <1>3 DEF Remembers, Refuses, ParentStarted, HasRoom
<1>5. ChainSet(e, t) = ChainSet(s, t)  BY DEF Remembers, ChainSet
<1>. QED  BY <1>4, <1>5 DEF CanStart, Remembers

LEMMA CanStartIs ==
  ASSUME NEW s, Joined(s), Pipelined(s), NEW t \in Tasks
  PROVE  CanStart(s, t) <=> Ready(s, t) /\ \A c \in ChainSet(s, t) : HasRoom(s, c)
  BY ChainSetIs, ParentStartedIs DEF CanStart, Ready, Refuses

(* do_start_task *)
StartedFrom(s, t, e) ==
  /\ e.chains = s.chains /\ e.chain = s.chain /\ e.gen = s.gen /\ e.limited = s.limited
  /\ e.state[t] = "Active" /\ \A u \in Tasks : u # t => e.state[u] = s.state[u]
  /\ \A c \in Chains : e.node[t][c] = IF c \in ChainSet(s, t) THEN s.gen[c] ELSE s.node[t][c]
  /\ \A u \in Tasks : u # t => e.node[u] = s.node[u]
  /\ \A c \in Chains : e.active[c] = IF c \in ChainSet(s, t) THEN s.active[c] + 1 ELSE s.active[c]
  /\ ToSet(e.pending) = ToSet(s.pending) \union {t}

LEMMA StartedFields ==
  ASSUME NEW s \in Schedulers, NEW t \in Tasks, NEW e, e = Started(s, t)
  PROVE  e \in Schedulers /\ StartedFrom(s, t, e)
<1>1. PICK state, node, active, pending :
        /\ state = [s.state EXCEPT ![t] = "Active"]
        /\ node = [s.node EXCEPT ![t] = [c \in Chains |-> IF c \in ChainSet(s, t) THEN s.gen[c] ELSE @[c]]]
        /\ active = [c \in Chains |-> IF c \in ChainSet(s, t) THEN s.active[c] + 1 ELSE s.active[c]]
        /\ pending = Append(s.pending, t)
  OBVIOUS
<1>2. e = [s EXCEPT !.state = state, !.node = node, !.active = active, !.pending = pending]
  BY <1>1 DEF Started, Schedulers
<1>3. /\ e.chains = s.chains /\ e.chain = s.chain /\ e.gen = s.gen /\ e.limited = s.limited
      /\ e.state = state /\ e.node = node /\ e.active = active /\ e.pending = pending
  BY <1>2 DEF Schedulers
<1>4. /\ state \in [Tasks -> {"None", "Pending", "Active", "Paused"}]
      /\ state[t] = "Active" /\ \A u \in Tasks : u # t => state[u] = s.state[u]
  BY <1>1, Fields
<1>5. /\ node \in [Tasks -> [Chains -> Nat]]
      /\ \A c \in Chains : node[t][c] = IF c \in ChainSet(s, t) THEN s.gen[c] ELSE s.node[t][c]
      /\ \A u \in Tasks : u # t => node[u] = s.node[u]
  <2>1. PICK n \in [Chains -> Nat] : n = [c \in Chains |-> IF c \in ChainSet(s, t) THEN s.gen[c] ELSE s.node[t][c]]
    <3>1. s.gen \in [Chains -> Nat] /\ s.node[t] \in [Chains -> Nat]  BY Fields
    <3>. QED  BY <3>1
  <2>2. node = [s.node EXCEPT ![t] = n]  BY <1>1, <2>1, Fields
  <2>3. s.node \in [Tasks -> [Chains -> Nat]]  BY Fields
  <2>4. node \in [Tasks -> [Chains -> Nat]] /\ node[t] = n /\ \A u \in Tasks : u # t => node[u] = s.node[u]
    BY <2>2, <2>3
  <2>. QED  BY <2>1, <2>4
<1>6. active \in [Chains -> Nat]  BY <1>1, Fields
<1>7. pending \in Seq(Tasks) /\ ToSet(pending) = ToSet(s.pending) \union {t}  BY <1>1, Fields, ToSetAppend
<1>8. e \in Schedulers  BY <1>2, <1>4, <1>5, <1>6, <1>7 DEF Schedulers
<1>9. StartedFrom(s, t, e)  BY <1>1, <1>3, <1>4, <1>5, <1>7 DEF StartedFrom
<1>. QED  BY <1>8, <1>9

LEMMA StartedIs ==
  ASSUME NEW s, Good(s), NEW t \in Tasks, CanStart(s, t), NEW e, e = Started(s, t)
  PROVE  Good(e) /\ Starts(s, e)
<1>1. s \in Schedulers /\ Joined(s) /\ Counted(s) /\ Pipelined(s) /\ Listed(s)  BY DEF Good, Joined
<1>2. /\ e \in Schedulers
      /\ e.chains = s.chains /\ e.chain = s.chain /\ e.gen = s.gen /\ e.limited = s.limited
      /\ e.state[t] = "Active" /\ \A u \in Tasks : u # t => e.state[u] = s.state[u]
      /\ \A c \in Chains : e.node[t][c] = IF c \in ChainSet(s, t) THEN s.gen[c] ELSE s.node[t][c]
      /\ \A u \in Tasks : u # t => e.node[u] = s.node[u]
      /\ \A c \in Chains : e.active[c] = IF c \in ChainSet(s, t) THEN s.active[c] + 1 ELSE s.active[c]
      /\ ToSet(e.pending) = ToSet(s.pending) \union {t}
  <2>1. e \in Schedulers /\ StartedFrom(s, t, e)  BY <1>1, StartedFields
  <2>. QED  BY <2>1 DEF StartedFrom
<1>3. /\ \A c : Members(e, c) = Members(s, c)
      /\ \A u, c : Ahead(e, u, c) = Ahead(s, u, c)
      /\ \A u : ChainSet(e, u) = ChainSet(s, u)
  BY <1>2 DEF Members, Ahead, ChainSet
<1>4. Ready(s, t) /\ \A c \in ChainSet(s, t) : HasRoom(s, c)  BY <1>1, CanStartIs
<1>5. s.state[t] = "Pending"  BY <1>4 DEF Ready
<1>6. Joined(e)
  <2>1. ASSUME NEW u \in Tasks PROVE IsInjective(e.chains[u]) /\ (e.state[u] = "None" <=> e.chains[u] = << >>)
    BY <1>1, <1>2, <1>5 DEF Joined
  <2>. QED  BY <1>1, <1>2, <1>3, <2>1 DEF Joined
<1>7. Counted(e)
  <2> SUFFICES ASSUME NEW c \in Chains PROVE e.active[c] = Cardinality(Running(e, c)) /\ e.active[c] <= Limit
    BY DEF Counted
  <2>1. s.active[c] = Cardinality(Running(s, c)) /\ s.active[c] <= Limit /\ s.active[c] \in Nat /\ IsFiniteSet(Running(s, c))
    BY <1>1, Fields, MemberIs DEF Counted
  <2>2. CASE c \in ChainSet(s, t)
    <3>1. t \in Members(s, c)  BY <1>1, <2>2, MemberIs
    <3>2. Running(e, c) = Running(s, c) \union {t} /\ t \notin Running(s, c)
      <4>1. \A u \in Members(s, c) : u \in Tasks  BY <1>1, MemberIs
      <4>. QED  BY ONLY t \in Tasks, <1>2, <1>3, <1>5, <3>1, <4>1 DEF Running
    <3>3. s.active[c] < Limit  BY <1>4, <2>2 DEF HasRoom
    <3>4. Cardinality(Running(e, c)) = Cardinality(Running(s, c)) + 1  BY <2>1, <3>2, FS_AddElement
    <3>. QED  BY <1>2, <2>1, <2>2, <3>3, <3>4, SchedulerAssumption
  <2>3. CASE c \notin ChainSet(s, t)
    <3>1. t \notin Members(s, c)  BY <1>1, <2>3, MemberIs
    <3>2. Running(e, c) = Running(s, c)
      <4>1. \A u \in Members(s, c) : u \in Tasks  BY <1>1, MemberIs
      <4>. QED  BY ONLY t \in Tasks, <1>2, <1>3, <3>1, <4>1 DEF Running
    <3>. QED  BY <1>2, <2>1, <2>3, <3>2
  <2>. QED  BY <2>2, <2>3
<1>8. Pipelined(e)
  <2> SUFFICES ASSUME NEW c \in Chains
               PROVE  /\ e.gen[c] >= 1
                      /\ \A u \in Members(e, c) : /\ e.node[u][c] <= e.gen[c]
                                                  /\ Current(e, u, c) => e.state[u] = "Active" /\ Clear(e, u, c)
    BY DEF Pipelined
  <2>1. e.gen[c] >= 1 /\ e.gen[c] = s.gen[c] /\ s.gen[c] \in Nat  BY <1>1, <1>2, Fields DEF Pipelined
  <2>2. ASSUME NEW u \in Members(s, c), Clear(s, u, c) PROVE Clear(e, u, c)
    <3> SUFFICES ASSUME NEW v \in Ahead(s, u, c) PROVE Current(e, v, c)  BY <1>3 DEF Clear
    <3>1. v \in Members(s, c) /\ v \in Tasks /\ s.node[v][c] = s.gen[c]
      BY <1>1, <2>2, MemberIs DEF Ahead, Clear, Current
    <3>2. CASE v = t
      <4>1. c \in ChainSet(s, t)  BY <1>1, <3>1, <3>2, MemberIs
      <4>. QED  BY <1>2, <3>2, <4>1 DEF Current
    <3>3. CASE v # t  BY <1>2, <3>1, <3>3 DEF Current
    <3>. QED  BY <3>2, <3>3
  <2>3. ASSUME NEW u \in Members(s, c)
        PROVE  /\ e.node[u][c] <= e.gen[c]
               /\ Current(e, u, c) => e.state[u] = "Active" /\ Clear(e, u, c)
    <3>1. u \in Tasks /\ c \in ChainSet(s, u) /\ s.node[u][c] <= s.gen[c]
      BY <1>1, MemberIs DEF Pipelined
    <3>2. CASE u = t
      <4>1. Clear(s, t, c)  BY <1>4, <3>1, <3>2 DEF Ready
      <4>2. Clear(e, u, c)  BY <2>2, <3>2, <4>1
      <4>. QED  BY <1>2, <2>1, <3>1, <3>2, <4>2
    <3>3. CASE u # t
      <4>1. e.node[u][c] = s.node[u][c] /\ e.state[u] = s.state[u]  BY <1>2, <3>1, <3>3
      <4>2. Current(s, u, c) => s.state[u] = "Active" /\ Clear(s, u, c)  BY <1>1 DEF Pipelined
      <4>3. Current(e, u, c) <=> Current(s, u, c)  BY <1>2, <4>1 DEF Current
      <4>. QED  BY <2>1, <2>2, <3>1, <4>1, <4>2, <4>3
    <3>. QED  BY <3>2, <3>3
  <2>. QED  BY <1>3, <2>1, <2>3
<1>9. Listed(e)
  <2>1. \A c \in Chains : e.limited[c] \in Members(e, c) \union {NoTask}  BY <1>1, <1>2, <1>3 DEF Listed
  <2>2. ToSet(s.pending) \subseteq Tasks  BY <1>1, Fields, ToSetIs
  <2>3. \A u \in ToSet(e.pending) : e.state[u] = "Active"  BY <1>1, <1>2, <2>2 DEF Listed
  <2>. QED  BY <2>1, <2>3 DEF Listed
<1>10. Starts(s, e)  BY <1>2, <1>5 DEF Starts
<1>. QED  BY <1>6, <1>7, <1>8, <1>9, <1>10 DEF Good

(* What is still tended after a task has started: its children are tried.     *)
LEMMA StartedTends ==
  ASSUME NEW s, Good(s), NEW t \in Tasks, CanStart(s, t), NEW e, e = Started(s, t),
         NEW T, Tended(s, T), NEW R, T \subseteq R \union {t}
  PROVE  Tended(e, ToSet(Children(s, t)) \union R)
<1>1. s \in Schedulers /\ Joined(s) /\ Pipelined(s)  BY DEF Good, Joined
<1>2. /\ e.chains = s.chains /\ e.chain = s.chain /\ e.gen = s.gen /\ e.limited = s.limited
      /\ e.state[t] = "Active" /\ \A u \in Tasks : u # t => e.state[u] = s.state[u]
      /\ \A u \in Tasks : u # t => e.node[u] = s.node[u]
      /\ \A c \in Chains : e.active[c] = IF c \in ChainSet(s, t) THEN s.active[c] + 1 ELSE s.active[c]
  BY <1>1, StartedFields DEF StartedFrom
<1>3. /\ \A u, c : Ahead(e, u, c) = Ahead(s, u, c)
      /\ \A u : ChainSet(e, u) = ChainSet(s, u)
  BY <1>2 DEF Members, Ahead, ChainSet
<1>4. s.state[t] = "Pending"  BY DEF CanStart
<1> SUFFICES ASSUME NEW u \in Tasks, Ready(e, u), u \notin ToSet(Children(s, t)), u \notin R
             PROVE  Blocked(e, u)
  BY DEF Tended
<1>5. u # t /\ s.state[u] = "Pending" /\ \A c \in ChainSet(s, u) : Clear(e, u, c)
  BY <1>2, <1>3 DEF Ready
<1>6. ASSUME NEW c \in ChainSet(s, u) PROVE Clear(s, u, c)
  <2> SUFFICES ASSUME NEW v \in Ahead(s, u, c), ~Current(s, v, c) PROVE FALSE  BY DEF Clear
  <2>1. c \in Chains /\ u \in Members(s, c) /\ v \in Members(s, c) /\ v < u /\ v \in Tasks
    BY <1>1, ChainSetIs, MemberIs DEF Ahead
  <2>2. Current(e, v, c)  BY <1>3, <1>5 DEF Clear
  <2>3. v = t  BY <1>2, <2>1, <2>2 DEF Current
  <2>4. IsChild(s, u, t, c)
    <3> SUFFICES ASSUME NEW x \in Members(s, c), t < x PROVE u <= x  BY <2>1, <2>3 DEF IsChild
    <3>1. x \in Nat /\ u \in Nat /\ x \in Tasks  BY <1>1, <2>1, MemberIs
    <3>2. ASSUME x < u PROVE FALSE
      <4>1. x \in Ahead(s, u, c) /\ x # t  BY <2>3, <3>1, <3>2, TasksAreNumbers DEF Ahead
      <4>2. Current(e, x, c)  BY <1>3, <1>5, <4>1 DEF Clear
      <4>3. Current(s, x, c)  BY <1>2, <3>1, <4>1, <4>2 DEF Current
      <4>4. Clear(s, x, c)  BY <1>1, <2>1, <4>3 DEF Pipelined
      <4>5. t \in Ahead(s, x, c)  BY <2>1, <2>3 DEF Ahead
      <4>. QED  BY <2>3, <4>4, <4>5 DEF Clear
    <3>. QED  BY <3>1, <3>2
  <2>5. c \in ChainSet(s, t)  BY <1>1, <2>1, <2>3, MemberIs
  <2>. QED  BY <1>1, <2>4, <2>5, ChildrenAre
<1>7. Blocked(s, u)  BY <1>5, <1>6 DEF Tended, Ready
<1>8. PICK c \in ChainSet(s, u) : ~HasRoom(s, c) /\ s.limited[c] = u  BY <1>7 DEF Blocked
<1>9. c \in Chains /\ s.active[c] \in Nat  BY <1>1, ChainSetIs, Fields
<1>10. ~HasRoom(e, c)  BY <1>2, <1>8, <1>9, SchedulerAssumption DEF HasRoom
<1>. QED  BY <1>2, <1>3, <1>8, <1>10 DEF Blocked

(* try_start_task on a task that cannot start.                                *)
LEMMA RefusedBy ==
  ASSUME NEW s, Good(s), NEW t \in Tasks, ~CanStart(s, t), NEW e, e = Refused(s, t)
  PROVE  \/ e = s /\ ~Ready(s, t)
         \/ /\ s.state[t] = "Pending"
            /\ \E c \in ChainSet(s, t) : /\ e = [s EXCEPT !.limited[c] = t]
                                         /\ Clear(s, t, c) /\ ~HasRoom(s, c)
<1>1. Joined(s) /\ Pipelined(s)  BY DEF Good
<1>2. CASE s.state[t] # "Pending"  BY <1>2 DEF Refused, Ready
<1>3. CASE s.state[t] = "Pending"
  <2> DEFINE I == {i \in 1 .. Len(s.chains[t]) : Refuses(s, t, s.chains[t][i])}
             stop == SelectInSeq(s.chains[t], LAMBDA c : Refuses(s, t, c))
             c == s.chains[t][stop]
  <2>1. I # {}
    <3>1. PICK x \in ChainSet(s, t) : Refuses(s, t, x)  BY <1>3 DEF CanStart
    <3>2. PICK i \in 1 .. Len(s.chains[t]) : s.chains[t][i] = x  BY <1>1, ChainsOf
    <3>. QED  BY <3>1, <3>2
  <2>2. stop \in I
    <3>1. I \in SUBSET Nat  OBVIOUS
    <3>2. stop = Min(I)  BY <2>1 DEF SelectInSeq
    <3>. HIDE DEF I, stop
    <3>. QED  BY <2>1, <3>1, <3>2, MinIs
  <2>. HIDE DEF stop
  <2>3. c \in ChainSet(s, t) /\ c \in Chains /\ t \in Members(s, c) /\ Refuses(s, t, c)
    BY <1>1, <2>2, ChainsOf
  <2>4. ParentStarted(s, t, c) <=> Clear(s, t, c)  BY <1>1, <2>3, ParentStartedIs
  <2>5. e = IF ParentStarted(s, t, c) THEN [s EXCEPT !.limited[c] = t] ELSE s
    BY <1>3 DEF Refused, stop
  <2>. HIDE DEF c
  <2>6. CASE ParentStarted(s, t, c)
    <3>1. e = [s EXCEPT !.limited[c] = t] /\ ~HasRoom(s, c)  BY <2>3, <2>5, <2>6 DEF Refuses
    <3>. QED  BY <1>3, <2>3, <2>4, <2>6, <3>1
  <2>7. CASE ~ParentStarted(s, t, c)
    <3>1. ~Ready(s, t)  BY <2>3, <2>4, <2>7 DEF Ready
    <3>. QED  BY <2>5, <2>7, <3>1
  <2>. QED  BY <2>6, <2>7
<1>. QED  BY <1>2, <1>3

LEMMA RefusedIs ==
  ASSUME NEW s, Good(s), NEW t \in Tasks, ~CanStart(s, t), NEW e, e = Refused(s, t),
         NEW T, Tended(s, T), NEW R, T \subseteq R \union {t}
  PROVE  Good(e) /\ Remembers(s, e) /\ Tended(e, R)
<1>1. s \in Schedulers /\ Joined(s) /\ Counted(s) /\ Pipelined(s) /\ Listed(s)  BY DEF Good, Joined
<1>2. CASE e = s /\ ~Ready(s, t)
  <2>1. Tended(s, R)  BY <1>2 DEF Tended
  <2>2. Remembers(s, s)  BY DEF Remembers
  <2>. QED  BY <1>2, <2>1, <2>2
<1>3. ASSUME s.state[t] = "Pending", NEW c \in ChainSet(s, t), e = [s EXCEPT !.limited[c] = t],
             Clear(s, t, c), ~HasRoom(s, c)
      PROVE  Good(e) /\ Remembers(s, e) /\ Tended(e, R)
  <2>1. c \in Chains /\ t \in Members(s, c)  BY <1>1, ChainSetIs
  <2>2. PICK limited : limited = [s.limited EXCEPT ![c] = t]  OBVIOUS
  <2>3. limited \in [Chains -> Tasks \union {NoTask}] /\ limited[c] = t /\ \A x \in Chains : x # c => limited[x] = s.limited[x]
    <3>1. s.limited \in [Chains -> Tasks \union {NoTask}]  BY <1>1, Fields
    <3>. QED  BY <2>1, <2>2, <3>1
  <2>4. e = [s EXCEPT !.limited = limited]  BY <1>1, <1>3, <2>2 DEF Schedulers
  <2>5. Remembers(s, e) /\ e.limited = limited /\ e \in Schedulers
    BY <1>1, <2>3, <2>4 DEF Schedulers, Remembers
  <2>6. /\ \A x : Members(e, x) = Members(s, x)
        /\ \A u, x : Ahead(e, u, x) = Ahead(s, u, x)
        /\ \A u : ChainSet(e, u) = ChainSet(s, u)
        /\ \A u, x : Current(e, u, x) <=> Current(s, u, x)
    BY <2>5 DEF Members, Ahead, ChainSet, Current, Remembers
  <2>7. \A u, x : Clear(e, u, x) <=> Clear(s, u, x)  BY <2>6 DEF Clear
  <2>8. Joined(e)  BY <1>1, <2>5, <2>6 DEF Joined, Remembers
  <2>9. Counted(e)
    <3>1. \A x : Running(e, x) = Running(s, x)  BY <2>5, <2>6 DEF Running, Remembers
    <3>. QED  BY <1>1, <2>5, <3>1 DEF Counted, Remembers
  <2>10. Pipelined(e)  BY <1>1, <2>5, <2>6, <2>7 DEF Pipelined, Remembers
  <2>11. Listed(e)
    <3>1. ASSUME NEW x \in Chains PROVE e.limited[x] \in Members(e, x) \union {NoTask}
      BY <1>1, <2>1, <2>3, <2>5, <2>6 DEF Listed
    <3>. QED  BY <1>1, <2>5, <3>1 DEF Listed, Remembers
  <2>12. Tended(e, R)
    <3> SUFFICES ASSUME NEW u \in Tasks, Ready(e, u), u \notin R PROVE Blocked(e, u)  BY DEF Tended
    <3>1. Ready(s, u)  BY <2>5, <2>6, <2>7 DEF Ready, Remembers
    <3>2. \A x : HasRoom(e, x) <=> HasRoom(s, x)  BY <2>5 DEF HasRoom, Remembers
    <3>3. CASE u = t  BY <1>3, <2>3, <2>5, <2>6, <3>2, <3>3 DEF Blocked
    <3>4. CASE u # t
      <4>1. PICK x \in ChainSet(s, u) : ~HasRoom(s, x) /\ s.limited[x] = u
        BY <3>1, <3>4 DEF Tended, Blocked
      <4>2. x \in Chains /\ u \in Members(s, x) /\ Clear(s, u, x)  BY <1>1, <3>1, ChainSetIs DEF Ready
      <4>3. x # c
        <5> SUFFICES ASSUME x = c PROVE FALSE  OBVIOUS
        <5>1. ~Current(s, t, c) /\ ~Current(s, u, c)
          BY <1>1, <1>3, <2>1, <3>1, <4>2 DEF Pipelined, Ready
        <5>. QED  BY <1>1, <1>3, <2>1, <3>4, <4>2, <5>1, OneFrontier
      <4>. QED  BY <2>3, <2>5, <2>6, <3>2, <4>1, <4>2, <4>3 DEF Blocked
    <3>. QED  BY <3>3, <3>4
  <2>. QED  BY <2>5, <2>8, <2>9, <2>10, <2>11, <2>12 DEF Good
<1>. QED  BY <1>2, <1>3, RefusedBy

-------------------------------------------------------------------------------
(* The loop of try_start_task and its recursion.                              *)
Waiting(s) == {t \in Tasks : s.state[t] = "Pending"}
Steps(list) == Len(list) + Cardinality(Tasks) * Cardinality(Chains)
Work(w) == Len(w.todo) + Cardinality(Waiting(w.s)) * Cardinality(Chains)

Trial(s, bound, n, w) ==
  /\ w.todo \in Seq(Tasks) /\ Good(w.s) /\ Starts(s, w.s) /\ Tended(w.s, ToSet(w.todo))
  /\ Idle(s) => Remembers(s, w.s)
  /\ w.todo = << >> \/ Work(w) + n <= bound

LEMMA WaitingIs ==
  ASSUME NEW s
  PROVE  IsFiniteSet(Waiting(s)) /\ Cardinality(Waiting(s)) \in Nat /\ Cardinality(Waiting(s)) <= Cardinality(Tasks)
<1>1. Waiting(s) \subseteq Tasks  BY DEF Waiting
<1>. QED  BY <1>1, SchedulerAssumption, FS_Subset, FS_CardinalityType

LEMMA OneFewer == ASSUME NEW a \in Nat, NEW b \in Nat, a >= 1 PROVE (a - 1) * b = a * b - b /\ (a - 1) * b \in Nat /\ a * b \in Nat
<1>1. (a - 1) * b = a * b - b  OBVIOUS
<1>2. a - 1 \in Nat  OBVIOUS
<1>. QED  BY <1>1, <1>2

LEMMA TailIs ==
  ASSUME NEW S, NEW a \in Seq(S), a # << >>
  PROVE  /\ Head(a) \in S /\ Tail(a) \in Seq(S) /\ Len(Tail(a)) = Len(a) - 1 /\ Len(a) \in Nat
         /\ ToSet(a) \subseteq ToSet(Tail(a)) \union {Head(a)}
<1>1. /\ Len(a) \in Nat /\ Len(a) >= 1 /\ DOMAIN a = 1 .. Len(a) /\ Head(a) = a[1] /\ Tail(a) \in Seq(S)
      /\ Len(Tail(a)) = Len(a) - 1 /\ DOMAIN Tail(a) = 1 .. Len(a) - 1
      /\ \A i \in 1 .. Len(a) - 1 : Tail(a)[i] = a[i + 1]
  OBVIOUS
<1>2. a[1] \in S  BY <1>1
<1>3. ASSUME NEW i \in 1 .. Len(a), i # 1 PROVE a[i] \in ToSet(Tail(a))
  <2>1. i - 1 \in 1 .. Len(a) - 1 /\ Tail(a)[i - 1] = a[i - 1 + 1] /\ i - 1 + 1 = i  BY <1>1, <1>3
  <2>. QED  BY <1>1, <2>1 DEF ToSet
<1>4. ToSet(a) \subseteq ToSet(Tail(a)) \union {Head(a)}
  <2> SUFFICES ASSUME NEW x \in ToSet(a) PROVE x \in ToSet(Tail(a)) \union {Head(a)}  OBVIOUS
  <2>1. PICK i \in 1 .. Len(a) : x = a[i]  BY <1>1 DEF ToSet
  <2>. QED  BY <1>1, <1>3, <2>1
<1>. QED  BY <1>1, <1>2, <1>4

LEMMA TrialStep ==
  ASSUME NEW s, NEW bound \in Nat, NEW n \in Nat, NEW w, Trial(s, bound, n, w)
  PROVE  Trial(s, bound, n + 1, TryFirst(w))
<1> DEFINE v == w.s
           t == Head(w.todo)
           f == TryFirst(w)
<1>1. CASE w.todo = << >>
  <2>1. f = w  BY <1>1 DEF TryFirst
  <2>. QED  BY <1>1, <2>1 DEF Trial
<1>2. CASE w.todo # << >>
  <2>1. /\ t \in Tasks /\ Tail(w.todo) \in Seq(Tasks) /\ Len(Tail(w.todo)) = Len(w.todo) - 1 /\ Len(w.todo) \in Nat
        /\ ToSet(w.todo) \subseteq ToSet(Tail(w.todo)) \union {t}
    BY <1>2, TailIs DEF Trial
  <2>2. Good(v) /\ Starts(s, v) /\ Tended(v, ToSet(w.todo)) /\ (Idle(s) => Remembers(s, v)) /\ Work(w) + n <= bound
    BY <1>2 DEF Trial
  <2>3. PICK k \in Nat, chains \in Nat : k = Cardinality(Waiting(v)) /\ chains = Cardinality(Chains)
    BY WaitingIs, SchedulerAssumption, FS_CardinalityType
  <2>4. Work(w) = Len(w.todo) + k * chains  BY <2>3 DEF Work
  <2>5. CASE CanStart(v, t)
    <3>1. PICK e : e = Started(v, t)  OBVIOUS
    <3>2. f = [s |-> e, todo |-> Children(v, t) \o Tail(w.todo)]  BY <1>2, <2>5, <3>1 DEF TryFirst
    <3>3. Good(e) /\ Starts(v, e)  BY <2>1, <2>2, <2>5, <3>1, StartedIs
    <3>4. Joined(v) /\ v \in Schedulers /\ e.state[t] = "Active" /\ \A u \in Tasks : u # t => e.state[u] = v.state[u]
      <4>1. Joined(v) /\ v \in Schedulers  BY <2>2 DEF Good, Joined
      <4>2. StartedFrom(v, t, e)  BY <2>1, <3>1, <4>1, StartedFields
      <4>. QED  BY <4>1, <4>2 DEF StartedFrom
    <3>5. Children(v, t) \in Seq(Tasks) /\ Len(Children(v, t)) \in Nat /\ Len(Children(v, t)) <= chains
      <4>1. Children(v, t) \in Seq(Tasks) /\ Len(Children(v, t)) <= Len(v.chains[t])  BY <2>1, <3>4, ChildrenAre
      <4>2. Len(v.chains[t]) \in Nat /\ Len(v.chains[t]) <= chains  BY <2>1, <2>3, <3>4, ChainsOf
      <4>3. Len(Children(v, t)) \in Nat  BY <4>1
      <4>. QED  BY <4>1, <4>2, <4>3
    <3>6. PICK todo \in Seq(Tasks) :
            /\ todo = Children(v, t) \o Tail(w.todo)
            /\ Len(todo) = Len(Children(v, t)) + (Len(w.todo) - 1)
            /\ ToSet(todo) = ToSet(Children(v, t)) \union ToSet(Tail(w.todo))
      <4>1. PICK a \in Seq(Tasks), b \in Seq(Tasks) : a = Children(v, t) /\ b = Tail(w.todo)  BY <2>1, <3>5
      <4>2. a \o b \in Seq(Tasks) /\ Len(a \o b) = Len(a) + Len(b) /\ ToSet(a \o b) = ToSet(a) \union ToSet(b)
        BY ToSetConcat
      <4>. QED  BY <2>1, <4>1, <4>2
    <3>7. Tended(e, ToSet(todo))
      <4>1. Tended(e, ToSet(Children(v, t)) \union ToSet(Tail(w.todo)))  BY <2>1, <2>2, <2>5, <3>1, StartedTends
      <4>. QED  BY <3>6, <4>1
    <3>8. Starts(s, e)  BY <2>2, <3>3, StartsTransitive
    <3>9. ~Idle(s)
      <4> SUFFICES ASSUME Idle(s) PROVE FALSE  OBVIOUS
      <4>1. CanStart(s, t)  BY <2>2, <2>5, SameStart
      <4>. QED  BY <2>1, <4>1 DEF Idle
    <3>10. Work([s |-> e, todo |-> todo]) + (n + 1) <= bound
      <4>1. Waiting(e) = Waiting(v) \ {t} /\ t \in Waiting(v)  BY <2>1, <2>5, <3>4 DEF Waiting, CanStart
      <4>2. Cardinality(Waiting(e)) = k - 1 /\ k >= 1
        <5>1. IsFiniteSet(Waiting(v)) /\ Cardinality(Waiting(e)) \in Nat  BY WaitingIs
        <5>2. Cardinality(Waiting(e)) = k - 1  BY <2>3, <4>1, <5>1, FS_RemoveElement
        <5>. QED  BY <2>3, <5>1, <5>2
      <4>3. Work([s |-> e, todo |-> todo]) = Len(todo) + (k - 1) * chains  BY <2>3, <4>2 DEF Work
      <4>4. PICK p \in Nat, q \in Nat : p = k * chains /\ q = (k - 1) * chains /\ q = p - chains  BY <4>2, OneFewer
      <4>5. PICK a, l, m, x, y : /\ a = Len(w.todo) /\ l = Len(Children(v, t)) /\ m = Len(todo)
                                 /\ x = Work(w) /\ y = Work([s |-> e, todo |-> todo])
        OBVIOUS
      <4>6. a \in Nat /\ l \in Nat /\ l <= chains /\ m = l + (a - 1) /\ x = a + p /\ y = m + q /\ x + n <= bound
        BY <2>1, <2>2, <2>4, <3>5, <3>6, <4>3, <4>4, <4>5
      <4>7. y + (n + 1) <= bound  BY ONLY <4>6, <4>4, bound \in Nat, n \in Nat
      <4>. QED  BY <4>5, <4>7
    <3>. QED  BY <3>2, <3>3, <3>6, <3>7, <3>8, <3>9, <3>10 DEF Trial
  <2>6. CASE ~CanStart(v, t)
    <3>1. PICK e : e = Refused(v, t)  OBVIOUS
    <3>2. f = [s |-> e, todo |-> Tail(w.todo)]  BY <1>2, <2>6, <3>1 DEF TryFirst
    <3>3. Good(e) /\ Remembers(v, e) /\ Tended(e, ToSet(Tail(w.todo)))
      BY <2>1, <2>2, <2>6, <3>1, RefusedIs
    <3>4. Starts(s, e)
      <4>1. Starts(v, e)  BY <3>3 DEF Starts, Remembers
      <4>. QED  BY <2>2, <4>1, StartsTransitive
    <3>5. Idle(s) => Remembers(s, e)  BY <2>2, <3>3 DEF Remembers
    <3>6. Work([s |-> e, todo |-> Tail(w.todo)]) + (n + 1) <= bound
      <4>1. Waiting(e) = Waiting(v)  BY <3>3 DEF Waiting, Remembers
      <4>2. Work([s |-> e, todo |-> Tail(w.todo)]) = Len(w.todo) - 1 + k * chains  BY <2>1, <2>3, <4>1 DEF Work
      <4>3. PICK p \in Int : p = k * chains  OBVIOUS
      <4>4. PICK a, x, y : a = Len(w.todo) /\ x = Work(w) /\ y = Work([s |-> e, todo |-> Tail(w.todo)])
        OBVIOUS
      <4>5. a \in Nat /\ x = a + p /\ y = a - 1 + p /\ x + n <= bound  BY <2>1, <2>2, <2>4, <4>2, <4>3, <4>4
      <4>6. y + (n + 1) <= bound  BY ONLY <4>5, bound \in Nat, n \in Nat
      <4>. QED  BY <4>4, <4>6
    <3>. QED  BY <2>1, <3>2, <3>3, <3>4, <3>5, <3>6 DEF Trial
  <2>. QED  BY <2>5, <2>6
<1>. QED  BY <1>1, <1>2

Loop(w, us) == FoldLeft(LAMBDA v, n : TryFirst(v), w, us)

LEMMA LoopAppend ==
  ASSUME NEW w
  PROVE  /\ Loop(w, << >>) = w
         /\ \A us \in Seq(Nat), n \in Nat : Loop(w, Append(us, n)) = TryFirst(Loop(w, us))
<1>1. \A us : Loop(w, us) = Trying!FoldOf(0, w, us)
  BY DEF Loop, FoldLeft, Trying!FoldOf, MapThenFoldSet, Trying!MapThenFoldSet, Tries, Largest
<1>2. /\ Trying!FoldOf(0, w, << >>) = w
      /\ \A us \in Seq(Nat), n \in Nat :
           Trying!FoldOf(0, w, Append(us, n)) = Tries(0, n, Trying!FoldOf(0, w, us))
  <2>1. Trying!PicksLargest
    <3>1. \A n \in Nat : \A s \in SUBSET (1 .. n) : s # {} => Trying!Max(s) \in s /\ \A y \in s : Trying!Max(s) >= y
      BY Trying!MaxIs
    <3>2. \A s : Trying!Max(s) = Largest(s)  BY DEF Trying!Max, Max, Largest
    <3>. QED  BY <3>1, <3>2 DEF Trying!PicksLargest
  <2>. QED  BY <2>1, Trying!FoldAppend
<1>. QED  BY <1>1, <1>2 DEF Tries

(* What try_start_task on a list leaves: nothing that could start.            *)
LEMMA Tried ==
  ASSUME NEW s, Good(s), NEW list \in Seq(Tasks), Tended(s, ToSet(list)), NEW e, e = TryStart(s, list)
  PROVE  Good(e) /\ Starts(s, e) /\ Tended(e, {}) /\ (Idle(s) => Remembers(s, e))
<1>1. PICK bound \in Nat : bound = Steps(list)
  <2>1. Cardinality(Tasks) * Cardinality(Chains) \in Nat
    <3>1. Cardinality(Tasks) \in Nat /\ Cardinality(Chains) \in Nat  BY SchedulerAssumption, FS_CardinalityType
    <3>. QED  BY <3>1
  <2>2. Len(list) \in Nat  OBVIOUS
  <2>3. Steps(list) \in Nat  BY <2>1, <2>2 DEF Steps
  <2>. QED  BY <2>3
<1>2. PICK w : w = [s |-> s, todo |-> list]  OBVIOUS
<1> DEFINE T == {us \in Seq(Nat) : Trial(s, bound, Len(us), Loop(w, us))}
<1>3. << >> \in T
  <2>1. Work(w) + 0 <= bound
    <3>1. PICK k \in Nat, m \in Nat, chains \in Nat :
            k = Cardinality(Waiting(s)) /\ m = Cardinality(Tasks) /\ chains = Cardinality(Chains) /\ k <= m
      BY WaitingIs, SchedulerAssumption, FS_CardinalityType
    <3>2. k * chains <= m * chains  BY ONLY <3>1, k \in Nat, m \in Nat, chains \in Nat
    <3>3. Work(w) = Len(list) + k * chains /\ bound = Len(list) + m * chains  BY <1>1, <1>2, <3>1 DEF Work, Steps
    <3>4. PICK p \in Int, q \in Int, l \in Int : p = k * chains /\ q = m * chains /\ l = Len(list)  OBVIOUS
    <3>5. PICK x \in Int : x = Work(w)  BY <3>3, <3>4
    <3>6. x = l + p /\ bound = l + q /\ p <= q  BY <3>2, <3>3, <3>4, <3>5
    <3>7. x + 0 <= bound  BY ONLY <3>4, <3>6
    <3>. QED  BY <3>5, <3>7
  <2>2. Starts(s, s) /\ Remembers(s, s)  BY DEF Starts, Remembers
  <2>3. Trial(s, bound, 0, w)  BY <1>1, <1>2, <2>1, <2>2 DEF Trial
  <2>4. << >> \in Seq(Nat) /\ Len(<< >>) = 0 /\ Loop(w, << >>) = w  BY LoopAppend
  <2>. QED  BY <2>3, <2>4
<1>4. ASSUME NEW us \in Seq(Nat), NEW n \in Nat, us \in T PROVE Append(us, n) \in T
  <2>1. Trial(s, bound, Len(us), Loop(w, us)) /\ Len(us) \in Nat  BY <1>4
  <2>2. Trial(s, bound, Len(us) + 1, TryFirst(Loop(w, us)))  BY <2>1, TrialStep
  <2>3. Append(us, n) \in Seq(Nat) /\ Len(Append(us, n)) = Len(us) + 1  OBVIOUS
  <2>4. Loop(w, Append(us, n)) = TryFirst(Loop(w, us))  BY LoopAppend
  <2>. QED  BY <2>2, <2>3, <2>4
<1>. HIDE DEF T
<1>5. Seq(Nat) \subseteq T  BY <1>3, <1>4, Trying!InductionOnSequences
<1>6. PICK us \in Seq(Nat) : us = [n \in 1 .. bound |-> n] /\ Len(us) = bound
  <2>1. PICK us : us = [n \in 1 .. bound |-> n]  OBVIOUS
  <2>2. us \in [1 .. bound -> Nat]
    <3>1. \A n \in 1 .. bound : n \in Nat  OBVIOUS
    <3>. QED  BY <2>1, <3>1
  <2>3. us \in Seq(Nat) /\ Len(us) = bound  BY ONLY <2>2, bound \in Nat
  <2>. QED  BY <2>1, <2>3
<1>7. e = Loop(w, us).s  BY <1>1, <1>2, <1>6 DEF TryStart, Loop, Steps
<1>8. PICK f : f = Loop(w, us) /\ Trial(s, bound, bound, f)  BY <1>5, <1>6 DEF T
<1>9. f.todo = << >>
  <2> SUFFICES ASSUME Work(f) + bound <= bound PROVE f.todo = << >>  BY <1>8 DEF Trial
  <2>1. PICK k \in Nat, chains \in Nat : k = Cardinality(Waiting(f.s)) /\ chains = Cardinality(Chains)
    BY WaitingIs, SchedulerAssumption, FS_CardinalityType
  <2>2. PICK p \in Nat : p = k * chains  OBVIOUS
  <2>3. f.todo \in Seq(Tasks) /\ Len(f.todo) \in Nat  BY <1>8 DEF Trial
  <2>4. Work(f) = Len(f.todo) + p  BY <2>1, <2>2 DEF Work
  <2>5. Len(f.todo) = 0  BY <2>3, <2>4
  <2>. QED  BY <2>3, <2>5
<1>10. ToSet(f.todo) = {}  BY <1>9 DEF ToSet
<1>. QED  BY <1>7, <1>8, <1>10 DEF Trial

LEMMA TendedIsIdle ==
  ASSUME NEW s, Good(s), Tended(s, {})
  PROVE  Idle(s)
<1> SUFFICES ASSUME NEW t \in Tasks, CanStart(s, t) PROVE FALSE  BY DEF Idle
<1>1. Ready(s, t) /\ \A c \in ChainSet(s, t) : HasRoom(s, c)  BY CanStartIs DEF Good
<1>2. Blocked(s, t)  BY <1>1 DEF Tended
<1>. QED  BY <1>1, <1>2 DEF Blocked

-------------------------------------------------------------------------------
(* inactivate_task: whom it tries later, and what it changes.                 *)
LEMMA OthersAre ==
  ASSUME NEW s, Good(s), NEW t \in Tasks
  PROVE  /\ StartLater(s, t) \in Seq(Tasks)
         /\ \A c \in ChainSet(s, t), u \in Tasks : s.limited[c] = u /\ u # t => u \in ToSet(StartLater(s, t))
<1>1. Joined(s) /\ Listed(s) /\ s \in Schedulers  BY DEF Good, Joined
<1>2. ASSUME NEW u \in Tasks \union {NoTask}
      PROVE  Other(t, u) \in Seq(Tasks) /\ (u \in Tasks /\ u # t => u \in ToSet(Other(t, u)))
  <2>1. CASE u \in {t, NoTask}
    <3>1. Other(t, u) = << >>  BY <2>1 DEF Other
    <3>2. << >> \in Seq(Tasks)  OBVIOUS
    <3>. QED  BY <2>1, <3>1, <3>2, SchedulerAssumption
  <2>2. CASE u \notin {t, NoTask}
    <3>1. Other(t, u) = <<u>> /\ u \in Tasks  BY <2>2 DEF Other
    <3>2. <<u>> \in Seq(Tasks) /\ DOMAIN <<u>> = {1} /\ <<u>>[1] = u  BY <3>1
    <3>. QED  BY <3>1, <3>2 DEF ToSet
  <2>. QED  BY <2>1, <2>2
<1> DEFINE Freed(c) == Other(t, s.limited[c]) \o Other(t, Head(s.chain[c]))
           parts == [i \in 1 .. Len(s.chains[t]) |-> Freed(s.chains[t][i])]
<1>3. ASSUME NEW c \in Chains, t \in Members(s, c)
      PROVE  Freed(c) \in Seq(Tasks) /\ \A u \in Tasks : s.limited[c] = u /\ u # t => u \in ToSet(Freed(c))
  <2>1. s.limited[c] \in Tasks \union {NoTask}  BY <1>1, Fields
  <2>2. Head(s.chain[c]) \in Tasks
    <3>1. s.chain[c] \in Seq(Tasks)  BY <1>1, Fields
    <3>2. s.chain[c] # << >>  BY <1>3 DEF Members, ToSet
    <3>. QED  BY <3>1, <3>2, TailIs
  <2>3. PICK a \in Seq(Tasks), b \in Seq(Tasks) : a = Other(t, s.limited[c]) /\ b = Other(t, Head(s.chain[c]))
    BY <1>2, <2>1, <2>2
  <2>4. a \o b \in Seq(Tasks) /\ ToSet(a) \subseteq ToSet(a \o b)  BY ToSetConcat
  <2>5. \A u \in Tasks : s.limited[c] = u /\ u # t => u \in ToSet(a)  BY <1>2, <2>3
  <2>. QED  BY <2>3, <2>4, <2>5
<1>. HIDE DEF Freed
<1>4. \A i \in 1 .. Len(s.chains[t]) : parts[i] \in Seq(Tasks)  BY <1>1, <1>3, ChainsOf
<1>5. parts \in Seq(Seq(Tasks)) /\ Len(parts) = Len(s.chains[t])
  <2>1. Len(s.chains[t]) \in Nat  BY <1>1, ChainsOf
  <2>2. parts \in [1 .. Len(s.chains[t]) -> Seq(Tasks)]  BY <1>4
  <2>. QED  BY <2>1, <2>2
<1>6. StartLater(s, t) = FlattenSeq(parts)  BY DEF StartLater, Freed
<1>7. ASSUME NEW c \in ChainSet(s, t), NEW u \in Tasks, s.limited[c] = u, u # t
      PROVE  \E i \in 1 .. Len(parts) : u \in ToSet(parts[i])
  <2>1. PICK i \in 1 .. Len(s.chains[t]) : s.chains[t][i] = c /\ c \in Chains /\ t \in Members(s, c)  BY <1>1, ChainsOf
  <2>2. u \in ToSet(parts[i])  BY <1>3, <1>7, <2>1
  <2>. QED  BY <1>5, <2>2
<1>. HIDE DEF parts
<1>8. \A x : x \in ToSet(FlattenSeq(parts)) <=> \E i \in 1 .. Len(parts) : x \in ToSet(parts[i])  BY <1>5, Flattened
<1>. QED  BY <1>5, <1>6, <1>7, <1>8, Flattened

Off(s, t, failed, e) ==
  /\ e.chains = s.chains /\ e.chain = s.chain /\ e.node = s.node /\ e.pending = s.pending
  /\ e.state[t] = "Pending" /\ \A u \in Tasks : u # t => e.state[u] = s.state[u]
  /\ \A c \in Chains :
       /\ e.active[c] = IF c \in ChainSet(s, t) /\ s.state[t] = "Active" THEN s.active[c] - 1 ELSE s.active[c]
       /\ e.gen[c] = IF c \in ChainSet(s, t) /\ s.state[t] = "Active" /\ failed /\ s.node[t][c] >= s.gen[c]
                     THEN s.node[t][c] + 1 ELSE s.gen[c]
       /\ e.limited[c] = IF c \in ChainSet(s, t) THEN NoTask ELSE s.limited[c]

LEMMA OffFields ==
  ASSUME NEW s, Good(s), NEW t \in Tasks, NEW failed \in BOOLEAN, NEW e, e = Inactivated(s, t, failed)
  PROVE  e \in Schedulers /\ Off(s, t, failed, e)
<1>1. s \in Schedulers /\ Joined(s) /\ Counted(s)  BY DEF Good, Joined
<1>2. PICK state, active, gen, limited :
        /\ state = [s.state EXCEPT ![t] = "Pending"]
        /\ active = [c \in Chains |-> IF c \in ChainSet(s, t) /\ s.state[t] = "Active" THEN s.active[c] - 1 ELSE s.active[c]]
        /\ gen = [c \in Chains |-> IF c \in ChainSet(s, t) /\ s.state[t] = "Active" /\ failed /\ s.node[t][c] >= s.gen[c]
                                   THEN s.node[t][c] + 1 ELSE s.gen[c]]
        /\ limited = [c \in Chains |-> IF c \in ChainSet(s, t) THEN NoTask ELSE s.limited[c]]
  OBVIOUS
<1>3. e = [s EXCEPT !.state = state, !.active = active, !.gen = gen, !.limited = limited]
  BY <1>1, <1>2 DEF Inactivated, Schedulers
<1>4. state \in [Tasks -> {"None", "Pending", "Active", "Paused"}] /\ state[t] = "Pending"
      /\ \A u \in Tasks : u # t => state[u] = s.state[u]
  BY <1>1, <1>2, Fields
<1>5. active \in [Chains -> Nat]
  <2>1. ASSUME NEW c \in Chains, c \in ChainSet(s, t), s.state[t] = "Active" PROVE s.active[c] - 1 \in Nat
    <3>1. t \in Running(s, c) /\ IsFiniteSet(Running(s, c))  BY <1>1, <2>1, MemberIs DEF Running
    <3>2. Cardinality(Running(s, c)) # 0 /\ Cardinality(Running(s, c)) \in Nat
      BY <3>1, FS_EmptySet, FS_CardinalityType
    <3>. QED  BY <1>1, <3>2 DEF Counted
  <2>2. \A c \in Chains : s.active[c] \in Nat  BY <1>1, Fields
  <2>. QED  BY <1>2, <2>1, <2>2
<1>6. gen \in [Chains -> Nat]
  <2>1. \A c \in Chains : s.gen[c] \in Nat /\ s.node[t][c] \in Nat  BY <1>1, Fields
  <2>2. \A c \in Chains : s.node[t][c] + 1 \in Nat  BY <2>1
  <2>. QED  BY <1>2, <2>1, <2>2
<1>7. limited \in [Chains -> Tasks \union {NoTask}]  BY <1>1, <1>2, Fields
<1>8. e \in Schedulers  BY <1>1, <1>3, <1>4, <1>5, <1>6, <1>7 DEF Schedulers
<1>9. /\ e.chains = s.chains /\ e.chain = s.chain /\ e.node = s.node /\ e.pending = s.pending
      /\ e.state = state /\ e.active = active /\ e.gen = gen /\ e.limited = limited
  BY <1>1, <1>3 DEF Schedulers
<1>10. Off(s, t, failed, e)  BY <1>2, <1>4, <1>9 DEF Off
<1>. QED  BY <1>8, <1>10

(* A reset or paused task: in the chains it was started in the current        *)
(* generation of, nobody is started any more.                                 *)
Stop(s, t, st, e) ==
  /\ e.chains = s.chains /\ e.chain = s.chain /\ e.pending = s.pending
  /\ e.state[t] = st /\ \A u \in Tasks : u # t => e.state[u] = s.state[u]

StopFrom(s, t, st, i, e) ==
  /\ e \in Schedulers /\ Off(s, t, TRUE, i) /\ Stop(s, t, st, e)
  /\ e.node = s.node /\ e.active = i.active /\ e.gen = i.gen /\ e.limited = i.limited

LEMMA StoppedFields ==
  ASSUME NEW s, Good(s), NEW t \in Tasks, NEW st \in {"Pending", "Paused"}, NEW i, i = Inactivated(s, t, TRUE),
         NEW e, e = [i EXCEPT !.state[t] = st]
  PROVE  StopFrom(s, t, st, i, e)
<1>1. i \in Schedulers /\ Off(s, t, TRUE, i)  BY OffFields
<1>2. PICK state : state = [i.state EXCEPT ![t] = st]  OBVIOUS
<1>3. e = [i EXCEPT !.state = state]  BY <1>1, <1>2 DEF Schedulers
<1>4. /\ state \in [Tasks -> {"None", "Pending", "Active", "Paused"}] /\ state[t] = st
      /\ \A u \in Tasks : u # t => state[u] = i.state[u]
  BY <1>1, <1>2, Fields
<1>5. e \in Schedulers  BY <1>1, <1>3, <1>4 DEF Schedulers
<1>6. /\ e.chains = i.chains /\ e.chain = i.chain /\ e.node = i.node /\ e.pending = i.pending /\ e.state = state
      /\ e.active = i.active /\ e.gen = i.gen /\ e.limited = i.limited
  BY <1>1, <1>3 DEF Schedulers
<1>7. Stop(s, t, st, e) /\ e.node = s.node  BY <1>1, <1>4, <1>6 DEF Off, Stop
<1>. QED  BY <1>1, <1>5, <1>6, <1>7 DEF StopFrom

LEMMA Stopped ==
  ASSUME NEW s, Good(s), NEW t \in Tasks, s.state[t] # "None", t \notin ToSet(s.pending),
         NEW st \in {"Pending", "Paused"}, NEW e, e = [Inactivated(s, t, TRUE) EXCEPT !.state[t] = st]
  PROVE  /\ Good(e) /\ Stop(s, t, st, e)
         /\ Tended(s, {}) => Tended(e, ToSet(StartLater(s, t)) \union (IF st = "Pending" THEN {t} ELSE {}))
         /\ Tended(s, {}) /\ s.state[t] # "Active" /\ st = "Paused" => Idle(e)
<1>1. s \in Schedulers /\ Joined(s) /\ Counted(s) /\ Pipelined(s) /\ Listed(s)  BY DEF Good, Joined
<1>2. PICK i : i = Inactivated(s, t, TRUE)  OBVIOUS
<1>3. /\ e \in Schedulers /\ Off(s, t, TRUE, i) /\ Stop(s, t, st, e)
      /\ e.node = s.node /\ e.active = i.active /\ e.gen = i.gen /\ e.limited = i.limited
  <2>1. e = [i EXCEPT !.state[t] = st]  BY <1>2
  <2>2. StopFrom(s, t, st, i, e)  BY <1>2, <2>1, StoppedFields
  <2>. QED  BY <2>2 DEF StopFrom
<1>4. /\ e.chains = s.chains /\ e.chain = s.chain /\ e.pending = s.pending
      /\ e.state[t] = st /\ \A u \in Tasks : u # t => e.state[u] = s.state[u]
  BY <1>3 DEF Stop
<1>5. /\ \A c : Members(e, c) = Members(s, c)
      /\ \A u, c : Ahead(e, u, c) = Ahead(s, u, c)
      /\ \A u : ChainSet(e, u) = ChainSet(s, u)
  BY <1>4 DEF Members, Ahead, ChainSet
<1> DEFINE Broken(c) == c \in ChainSet(s, t) /\ s.state[t] = "Active" /\ s.node[t][c] >= s.gen[c]
<1>6. \A c \in Chains :
        /\ e.active[c] = IF c \in ChainSet(s, t) /\ s.state[t] = "Active" THEN s.active[c] - 1 ELSE s.active[c]
        /\ e.gen[c] = IF Broken(c) THEN s.gen[c] + 1 ELSE s.gen[c]
        /\ e.limited[c] = IF c \in ChainSet(s, t) THEN NoTask ELSE s.limited[c]
  <2> SUFFICES ASSUME NEW c \in Chains
               PROVE  /\ e.active[c] = IF c \in ChainSet(s, t) /\ s.state[t] = "Active" THEN s.active[c] - 1 ELSE s.active[c]
                      /\ e.gen[c] = IF Broken(c) THEN s.gen[c] + 1 ELSE s.gen[c]
                      /\ e.limited[c] = IF c \in ChainSet(s, t) THEN NoTask ELSE s.limited[c]
    OBVIOUS
  <2>1. Broken(c) => s.node[t][c] = s.gen[c]
    <3>1. c \in ChainSet(s, t) => t \in Members(s, c)  BY <1>1, MemberIs
    <3>2. s.node[t][c] \in Nat /\ s.gen[c] \in Nat  BY <1>1, Fields
    <3>3. Broken(c) => s.node[t][c] <= s.gen[c]  BY <1>1, <3>1 DEF Pipelined
    <3>. QED  BY <3>2, <3>3
  <2>2. /\ i.active[c] = IF c \in ChainSet(s, t) /\ s.state[t] = "Active" THEN s.active[c] - 1 ELSE s.active[c]
        /\ i.gen[c] = IF c \in ChainSet(s, t) /\ s.state[t] = "Active" /\ TRUE /\ s.node[t][c] >= s.gen[c]
                      THEN s.node[t][c] + 1 ELSE s.gen[c]
        /\ i.limited[c] = IF c \in ChainSet(s, t) THEN NoTask ELSE s.limited[c]
    BY <1>3 DEF Off
  <2>. QED  BY <1>3, <2>1, <2>2
<1>. HIDE DEF Broken
<1>7. \A c \in Chains : s.gen[c] \in Nat /\ s.gen[c] >= 1 /\ s.active[c] \in Nat
  BY <1>1, Fields DEF Pipelined
<1>8. ASSUME NEW c \in Chains, Broken(c) PROVE \A u \in Members(s, c) : ~Current(e, u, c) /\ e.node[u][c] <= e.gen[c]
  <2> SUFFICES ASSUME NEW u \in Members(s, c) PROVE ~Current(e, u, c) /\ e.node[u][c] <= e.gen[c]  OBVIOUS
  <2>1. s.node[u][c] <= s.gen[c] /\ s.node[u][c] \in Nat /\ s.gen[c] \in Nat  BY <1>1, MemberIs DEF Pipelined
  <2>2. e.gen[c] = s.gen[c] + 1 /\ e.node[u][c] = s.node[u][c]  BY <1>3, <1>6, <1>8
  <2>3. PICK n, g, m, h : n = s.node[u][c] /\ g = s.gen[c] /\ m = e.node[u][c] /\ h = e.gen[c]  OBVIOUS
  <2>4. n \in Nat /\ g \in Nat /\ n <= g /\ h = g + 1 /\ m = n  BY <2>1, <2>2, <2>3
  <2>5. m # h /\ m <= h  BY ONLY <2>4
  <2>. QED  BY <2>3, <2>5 DEF Current
<1>9. ASSUME NEW c \in Chains, ~Broken(c) PROVE \A u : Current(e, u, c) <=> Current(s, u, c)
  BY <1>3, <1>6, <1>9 DEF Current
<1>10. ASSUME NEW c \in Chains, NEW u \in Members(s, c), Clear(e, u, c) PROVE Clear(s, u, c)
  <2>1. CASE Broken(c)
    <3>1. \A v \in Ahead(s, u, c) : v \in Members(s, c) /\ Current(e, v, c)  BY <1>5, <1>10 DEF Clear, Ahead
    <3>2. Ahead(s, u, c) = {}  BY <1>8, <2>1, <3>1
    <3>. QED  BY <3>2 DEF Clear
  <2>2. CASE ~Broken(c)
    <3>1. \A v : Current(e, v, c) <=> Current(s, v, c)  BY <1>9, <2>2
    <3>. QED  BY <1>5, <1>10, <3>1 DEF Clear
  <2>. QED  BY <2>1, <2>2
<1>11. Joined(e)
  <2>1. ASSUME NEW u \in Tasks PROVE IsInjective(e.chains[u]) /\ (e.state[u] = "None" <=> e.chains[u] = << >>)
    BY <1>1, <1>4 DEF Joined
  <2>. QED  BY <1>1, <1>3, <1>4, <1>5, <2>1 DEF Joined
<1>12. Counted(e)
  <2> SUFFICES ASSUME NEW c \in Chains PROVE e.active[c] = Cardinality(Running(e, c)) /\ e.active[c] <= Limit
    BY DEF Counted
  <2>1. /\ s.active[c] = Cardinality(Running(s, c)) /\ s.active[c] <= Limit
        /\ s.active[c] \in Nat /\ IsFiniteSet(Running(s, c)) /\ \A u \in Members(s, c) : u \in Tasks
    BY <1>1, Fields, MemberIs DEF Counted
  <2>2. CASE c \in ChainSet(s, t) /\ s.state[t] = "Active"
    <3>1. t \in Members(s, c)  BY <1>1, <2>2, MemberIs
    <3>2. Running(e, c) = Running(s, c) \ {t} /\ t \in Running(s, c)  BY <1>4, <1>5, <2>1, <2>2, <3>1 DEF Running
    <3>3. Cardinality(Running(e, c)) = Cardinality(Running(s, c)) - 1  BY <2>1, <3>2, FS_RemoveElement
    <3>4. e.active[c] = s.active[c] - 1  BY <1>6, <2>2
    <3>5. PICK a \in Nat : a = s.active[c]  BY <2>1
    <3>6. a - 1 <= Limit  BY <2>1, <3>5, SchedulerAssumption
    <3>. QED  BY <2>1, <3>3, <3>4, <3>5, <3>6
  <2>3. CASE ~(c \in ChainSet(s, t) /\ s.state[t] = "Active")
    <3>1. t \in Members(s, c) => s.state[t] # "Active"  BY <1>1, <2>3, MemberIs
    <3>2. Running(e, c) = Running(s, c)  BY <1>4, <1>5, <2>1, <3>1 DEF Running
    <3>. QED  BY <1>6, <2>1, <2>3, <3>2
  <2>. QED  BY <2>2, <2>3
<1>13. Pipelined(e)
  <2> SUFFICES ASSUME NEW c \in Chains
               PROVE  /\ e.gen[c] >= 1
                      /\ \A u \in Members(e, c) : /\ e.node[u][c] <= e.gen[c]
                                                  /\ Current(e, u, c) => e.state[u] = "Active" /\ Clear(e, u, c)
    BY DEF Pipelined
  <2>1. e.gen[c] >= 1
    <3>1. s.gen[c] \in Nat /\ s.gen[c] >= 1 /\ s.gen[c] + 1 >= 1  BY <1>7
    <3>. QED  BY <1>6, <3>1
  <2>2. CASE Broken(c)  BY <1>5, <1>8, <2>1, <2>2
  <2>3. CASE ~Broken(c)
    <3> SUFFICES ASSUME NEW u \in Members(s, c)
                 PROVE  /\ e.node[u][c] <= e.gen[c]
                        /\ Current(e, u, c) => e.state[u] = "Active" /\ Clear(e, u, c)
      BY <1>5, <2>1
    <3>1. /\ s.node[u][c] <= s.gen[c] /\ u \in Tasks /\ c \in ChainSet(s, u)
          /\ Current(s, u, c) => s.state[u] = "Active" /\ Clear(s, u, c)
      BY <1>1, MemberIs DEF Pipelined
    <3>2. \A v : Current(e, v, c) <=> Current(s, v, c)  BY <1>9, <2>3
    <3>3. Clear(s, u, c) => Clear(e, u, c)  BY <1>5, <3>2 DEF Clear
    <3>4. Current(s, u, c) => u # t
      <4> SUFFICES ASSUME Current(s, u, c), u = t PROVE FALSE  OBVIOUS
      <4>1. s.node[t][c] = s.gen[c] /\ s.gen[c] \in Nat /\ s.state[t] = "Active"  BY <1>7, <3>1 DEF Current
      <4>. QED  BY <2>3, <3>1, <4>1 DEF Broken
    <3>5. e.node[u][c] <= e.gen[c]  BY <1>3, <1>6, <2>3, <3>1
    <3>. QED  BY <1>4, <3>1, <3>2, <3>3, <3>4, <3>5
  <2>. QED  BY <2>2, <2>3
<1>14. Listed(e)
  <2>1. \A c \in Chains : e.limited[c] \in Members(e, c) \union {NoTask}  BY <1>1, <1>5, <1>6 DEF Listed
  <2>2. ToSet(s.pending) \subseteq Tasks  BY <1>1, Fields, ToSetIs
  <2>. QED  BY <1>1, <1>4, <2>1, <2>2 DEF Listed
<1>15. Good(e)  BY <1>11, <1>12, <1>13, <1>14 DEF Good
<1>16. ASSUME NEW u \in Tasks, Ready(e, u), u # t PROVE Ready(s, u)
  <2>1. ASSUME NEW c \in ChainSet(s, u) PROVE Clear(s, u, c)
    <3>1. c \in Chains /\ u \in Members(s, c)  BY <1>1, ChainSetIs
    <3>2. Clear(e, u, c)  BY <1>5, <1>16 DEF Ready
    <3>. QED  BY <1>10, <3>1, <3>2
  <2>. QED  BY <1>4, <1>16, <2>1 DEF Ready
<1>17. ASSUME Tended(s, {}) PROVE Tended(e, ToSet(StartLater(s, t)) \union (IF st = "Pending" THEN {t} ELSE {}))
  <2> SUFFICES ASSUME NEW u \in Tasks, Ready(e, u), u \notin ToSet(StartLater(s, t)), ~(u = t /\ st = "Pending")
               PROVE  Blocked(e, u)
    BY DEF Tended
  <2>1. u # t  BY <1>4 DEF Ready
  <2>2. Blocked(s, u)  BY <1>16, <1>17, <2>1 DEF Tended
  <2>3. PICK c \in ChainSet(s, u) : ~HasRoom(s, c) /\ s.limited[c] = u  BY <2>2 DEF Blocked
  <2>4. c \notin ChainSet(s, t) /\ c \in Chains  BY <1>1, <2>1, <2>3, OthersAre, ChainSetIs
  <2>5. ~HasRoom(e, c) /\ e.limited[c] = u  BY <1>6, <2>3, <2>4 DEF HasRoom
  <2>. QED  BY <1>5, <2>3, <2>5 DEF Blocked
<1>18. ASSUME Tended(s, {}), s.state[t] # "Active", st = "Paused" PROVE Idle(e)
  <2> SUFFICES ASSUME NEW u \in Tasks, CanStart(e, u) PROVE FALSE  BY DEF Idle
  <2>1. Ready(e, u) /\ \A c \in ChainSet(e, u) : HasRoom(e, c)  BY <1>11, <1>13, CanStartIs
  <2>2. u # t  BY <1>4, <1>18, <2>1 DEF Ready
  <2>3. Ready(s, u)  BY <1>16, <2>1, <2>2
  <2>4. \A c \in ChainSet(s, u) : HasRoom(s, c)
    <3>1. \A c \in ChainSet(s, u) : c \in Chains /\ e.active[c] = s.active[c]  BY <1>1, <1>6, <1>18, ChainSetIs
    <3>. QED  BY <1>5, <2>1, <3>1 DEF HasRoom
  <2>5. CanStart(s, u)  BY <1>1, <2>3, <2>4, CanStartIs
  <2>. QED  BY <1>18, <2>5, TendedIsIdle DEF Idle
<1>. QED  BY <1>3, <1>15, <1>17, <1>18

(* A finished task is in no chain.                                            *)
Left(s, t) == [c \in Chains |-> IF c \in ChainSet(s, t) THEN RemoveAt(s.chain[c], Place(s, t, c)) ELSE s.chain[c]]
Gone(s, t, c) == c \in ChainSet(s, t) /\ Left(s, t)[c] = << >>
Ended(s, t) ==
  [Inactivated(s, t, FALSE) EXCEPT
     !.state[t]  = "None",
     !.chains[t] = << >>,
     !.node[t]   = [c \in Chains |-> 0],
     !.chain     = Left(s, t),
     !.active    = [c \in Chains |-> IF Gone(s, t, c) THEN 0 ELSE @[c]],
     !.gen       = [c \in Chains |-> IF Gone(s, t, c) THEN 1 ELSE @[c]]]

LEMMA FinishIs == \A s, t : FinishTask(s, t) = TryStart(Ended(s, t), StartLater(s, t) \o Children(s, t))
  BY DEF FinishTask, Ended, Left, Gone

EndFrom(s, t, e) ==
  /\ e \in Schedulers /\ e.pending = s.pending
  /\ e.chains[t] = << >> /\ e.state[t] = "None"
  /\ \A u \in Tasks : u # t => /\ e.chains[u] = s.chains[u] /\ e.state[u] = s.state[u] /\ e.node[u] = s.node[u]
  /\ e.chain = Left(s, t)
  /\ \A c \in Chains :
       /\ e.active[c] = IF Gone(s, t, c) THEN 0
                        ELSE IF c \in ChainSet(s, t) /\ s.state[t] = "Active" THEN s.active[c] - 1 ELSE s.active[c]
       /\ e.gen[c] = IF Gone(s, t, c) THEN 1 ELSE s.gen[c]
       /\ e.limited[c] = IF c \in ChainSet(s, t) THEN NoTask ELSE s.limited[c]

LEMMA LeftIs ==
  ASSUME NEW s, Good(s), NEW t \in Tasks, NEW c \in Chains
  PROVE  /\ Left(s, t) \in [Chains -> Seq(Tasks)] /\ Sorted(Left(s, t)[c])
         /\ ToSet(Left(s, t)[c]) = Members(s, c) \ {t}
         /\ Gone(s, t, c) => Members(s, c) \ {t} = {}
<1>1. s \in Schedulers /\ Joined(s)  BY DEF Good, Joined
<1>2. ASSUME NEW x \in Chains
      PROVE  Left(s, t)[x] \in Seq(Tasks) /\ Sorted(Left(s, t)[x]) /\ ToSet(Left(s, t)[x]) = Members(s, x) \ {t}
  <2>1. s.chain[x] \in Seq(Tasks) /\ Sorted(s.chain[x])  BY <1>1, Fields DEF Joined
  <2>2. CASE x \in ChainSet(s, t)
    <3>1. t \in Members(s, x)  BY <1>1, <2>2, MemberIs
    <3>2. PICK k : k = Place(s, t, x) /\ k \in 1 .. Len(s.chain[x]) /\ s.chain[x][k] = t  BY <1>1, <3>1, PlaceIs
    <3>3. Left(s, t)[x] = RemoveAt(s.chain[x], k)  BY <2>2, <3>2 DEF Left
    <3>4. /\ RemoveAt(s.chain[x], k) \in Seq(Tasks) /\ Sorted(RemoveAt(s.chain[x], k))
          /\ ToSet(RemoveAt(s.chain[x], k)) = ToSet(s.chain[x]) \ {s.chain[x][k]}
      BY <2>1, <3>2, Removed
    <3>. QED  BY <3>2, <3>3, <3>4 DEF Members
  <2>3. CASE x \notin ChainSet(s, t)
    <3>1. t \notin Members(s, x)  BY <1>1, <2>3, MemberIs
    <3>2. Left(s, t)[x] = s.chain[x]  BY <2>3 DEF Left
    <3>. QED  BY <2>1, <3>1, <3>2 DEF Members
  <2>. QED  BY <2>2, <2>3
<1>3. Left(s, t) \in [Chains -> Seq(Tasks)]
  <2>1. PICK f : f = Left(s, t) /\ \A x \in Chains : f[x] \in Seq(Tasks)  BY <1>2
  <2>2. f = [x \in Chains |-> f[x]]  BY <2>1 DEF Left
  <2>. QED  BY <2>1, <2>2
<1>4. Gone(s, t, c) => Members(s, c) \ {t} = {}
  <2>1. ToSet(<< >>) = {}  BY DEF ToSet
  <2>. QED  BY <1>2, <2>1 DEF Gone
<1>. QED  BY <1>2, <1>3, <1>4

LEMMA EndFields ==
  ASSUME NEW s, Good(s), NEW t \in Tasks, NEW e, e = Ended(s, t)
  PROVE  EndFrom(s, t, e)
<1>1. PICK i : i = Inactivated(s, t, FALSE)  OBVIOUS
<1>2. i \in Schedulers /\ Off(s, t, FALSE, i) /\ s \in Schedulers  BY <1>1, OffFields DEF Good, Joined
<1>3. PICK state, chains, node, chain, active, gen :
        /\ state = [i.state EXCEPT ![t] = "None"]
        /\ chains = [i.chains EXCEPT ![t] = << >>]
        /\ node = [i.node EXCEPT ![t] = [c \in Chains |-> 0]]
        /\ chain = Left(s, t)
        /\ active = [c \in Chains |-> IF Gone(s, t, c) THEN 0 ELSE i.active[c]]
        /\ gen = [c \in Chains |-> IF Gone(s, t, c) THEN 1 ELSE i.gen[c]]
  OBVIOUS
<1>4. e = [i EXCEPT !.state = state, !.chains = chains, !.node = node, !.chain = chain, !.active = active, !.gen = gen]
  <2>1. e = [i EXCEPT !.state[t] = "None", !.chains[t] = << >>, !.node[t] = [c \in Chains |-> 0], !.chain = Left(s, t),
                      !.active = [c \in Chains |-> IF Gone(s, t, c) THEN 0 ELSE @[c]],
                      !.gen = [c \in Chains |-> IF Gone(s, t, c) THEN 1 ELSE @[c]]]
    BY <1>1 DEF Ended
  <2>. QED  BY ONLY <1>2, <1>3, <2>1 DEF Schedulers
<1>5. /\ state \in [Tasks -> {"None", "Pending", "Active", "Paused"}] /\ state[t] = "None"
      /\ \A u \in Tasks : u # t => state[u] = i.state[u]
  BY <1>2, <1>3, Fields
<1>6. chains \in [Tasks -> Seq(Chains)] /\ chains[t] = << >> /\ \A u \in Tasks : u # t => chains[u] = i.chains[u]
  <2>1. << >> \in Seq(Chains) /\ i.chains \in [Tasks -> Seq(Chains)]  BY <1>2, Fields
  <2>. QED  BY <1>3, <2>1
<1>7. node \in [Tasks -> [Chains -> Nat]] /\ \A u \in Tasks : u # t => node[u] = i.node[u]
  <2>1. PICK n : n = [c \in Chains |-> 0]  OBVIOUS
  <2>2. 0 \in Nat  OBVIOUS
  <2>3. n \in [Chains -> Nat]  BY <2>1, <2>2
  <2>4. i.node \in [Tasks -> [Chains -> Nat]]  BY <1>2, Fields
  <2>5. node = [i.node EXCEPT ![t] = n]  BY <1>3, <2>1
  <2>. QED  BY <2>3, <2>4, <2>5
<1>8. chain \in [Chains -> Seq(Tasks)]
  <2>1. CASE Chains = {}
    <3>1. chain = [x \in Chains |-> chain[x]]  BY <1>3 DEF Left
    <3>. QED  BY <2>1, <3>1
  <2>2. CASE Chains # {}  BY <1>3, <2>2, LeftIs
  <2>. QED  BY <2>1, <2>2
<1>9. active \in [Chains -> Nat] /\ gen \in [Chains -> Nat]
  <2>1. i.active \in [Chains -> Nat] /\ i.gen \in [Chains -> Nat] /\ 0 \in Nat /\ 1 \in Nat  BY <1>2, Fields
  <2>. QED  BY <1>3, <2>1
<1>10. e \in Schedulers  BY <1>2, <1>4, <1>5, <1>6, <1>7, <1>8, <1>9 DEF Schedulers
<1>11. /\ e.pending = i.pending /\ e.limited = i.limited /\ e.state = state /\ e.chains = chains /\ e.node = node
       /\ e.chain = chain /\ e.active = active /\ e.gen = gen
  BY <1>2, <1>4 DEF Schedulers
<1>12. ASSUME NEW c \in Chains
       PROVE  /\ e.active[c] = IF Gone(s, t, c) THEN 0
                        ELSE IF c \in ChainSet(s, t) /\ s.state[t] = "Active" THEN s.active[c] - 1 ELSE s.active[c]
              /\ e.gen[c] = IF Gone(s, t, c) THEN 1 ELSE s.gen[c]
              /\ e.limited[c] = IF c \in ChainSet(s, t) THEN NoTask ELSE s.limited[c]
  <2>1. /\ i.active[c] = IF c \in ChainSet(s, t) /\ s.state[t] = "Active" THEN s.active[c] - 1 ELSE s.active[c]
        /\ i.gen[c] = s.gen[c] /\ i.limited[c] = IF c \in ChainSet(s, t) THEN NoTask ELSE s.limited[c]
    BY <1>2 DEF Off
  <2>. QED  BY <1>3, <1>11, <2>1
<1>13. e.pending = s.pending  BY <1>2, <1>11 DEF Off
<1>14. ASSUME NEW u \in Tasks, u # t PROVE e.chains[u] = s.chains[u] /\ e.state[u] = s.state[u] /\ e.node[u] = s.node[u]
  <2>1. i.chains[u] = s.chains[u] /\ i.state[u] = s.state[u] /\ i.node[u] = s.node[u]  BY <1>2, <1>14 DEF Off
  <2>2. state[u] = i.state[u] /\ chains[u] = i.chains[u] /\ node[u] = i.node[u]  BY <1>5, <1>6, <1>7, <1>14
  <2>. QED  BY <1>11, <2>1, <2>2
<1>. QED  BY <1>3, <1>5, <1>6, <1>10, <1>11, <1>12, <1>13, <1>14 DEF EndFrom

LEMMA Finished ==
  ASSUME NEW s, Good(s), NEW t \in Tasks, t \notin ToSet(s.pending), NEW e, EndFrom(s, t, e)
  PROVE  /\ Good(e) /\ \A c \in Chains : Members(e, c) = Members(s, c) \ {t}
         /\ Tended(s, {}) => Tended(e, ToSet(StartLater(s, t)) \union ToSet(Children(s, t)))
<1>1. s \in Schedulers /\ Joined(s) /\ Counted(s) /\ Pipelined(s) /\ Listed(s)  BY DEF Good, Joined
<1>2. /\ e \in Schedulers /\ e.pending = s.pending
      /\ e.chains[t] = << >> /\ e.state[t] = "None"
      /\ \A u \in Tasks : u # t => /\ e.chains[u] = s.chains[u] /\ e.state[u] = s.state[u] /\ e.node[u] = s.node[u]
      /\ e.chain = Left(s, t)
      /\ \A c \in Chains :
           /\ e.active[c] = IF Gone(s, t, c) THEN 0
                            ELSE IF c \in ChainSet(s, t) /\ s.state[t] = "Active" THEN s.active[c] - 1 ELSE s.active[c]
           /\ e.gen[c] = IF Gone(s, t, c) THEN 1 ELSE s.gen[c]
           /\ e.limited[c] = IF c \in ChainSet(s, t) THEN NoTask ELSE s.limited[c]
  BY DEF EndFrom
<1>3. \A c \in Chains : /\ Members(e, c) = Members(s, c) \ {t} /\ Sorted(e.chain[c])
                        /\ (Gone(s, t, c) => Members(e, c) = {})
  <2> SUFFICES ASSUME NEW c \in Chains PROVE /\ Members(e, c) = Members(s, c) \ {t} /\ Sorted(e.chain[c])
                        /\ (Gone(s, t, c) => Members(e, c) = {})
    OBVIOUS
  <2>1. e.chain[c] = Left(s, t)[c]  BY <1>2
  <2>2. /\ Sorted(Left(s, t)[c]) /\ ToSet(Left(s, t)[c]) = Members(s, c) \ {t}
        /\ Gone(s, t, c) => Members(s, c) \ {t} = {}
    BY LeftIs
  <2>3. Members(e, c) = ToSet(e.chain[c])  BY DEF Members
  <2>. QED  BY ONLY <2>1, <2>2, <2>3
<1>4. ChainSet(e, t) = {} /\ \A u \in Tasks : u # t => ChainSet(e, u) = ChainSet(s, u)
  <2>1. ToSet(<< >>) = {}  BY DEF ToSet
  <2>. QED  BY <1>2, <2>1 DEF ChainSet
<1>5. Joined(e)
  <2>1. ASSUME NEW u \in Tasks PROVE IsInjective(e.chains[u]) /\ (e.state[u] = "None" <=> e.chains[u] = << >>)
    <3>1. IsInjective(<< >>)  BY DEF IsInjective
    <3>. QED  BY <1>1, <1>2, <3>1 DEF Joined
  <2>2. ASSUME NEW u \in Tasks, NEW c \in Chains PROVE u \in Members(e, c) <=> c \in ChainSet(e, u)
    BY <1>1, <1>3, <1>4 DEF Joined
  <2>. QED  BY <1>2, <1>3, <2>1, <2>2 DEF Joined
<1>6. Counted(e)
  <2> SUFFICES ASSUME NEW c \in Chains PROVE e.active[c] = Cardinality(Running(e, c)) /\ e.active[c] <= Limit
    BY DEF Counted
  <2>1. /\ s.active[c] = Cardinality(Running(s, c)) /\ s.active[c] <= Limit
        /\ s.active[c] \in Nat /\ IsFiniteSet(Running(s, c)) /\ \A u \in Members(s, c) : u \in Tasks
    BY <1>1, Fields, MemberIs DEF Counted
  <2>2. CASE Gone(s, t, c)
    <3>1. Running(e, c) = {}  BY <1>3, <2>2 DEF Running
    <3>2. e.active[c] = 0 /\ 0 <= Limit  BY <1>2, <2>2, SchedulerAssumption
    <3>. QED  BY <3>1, <3>2, FS_EmptySet
  <2>3. CASE ~Gone(s, t, c) /\ c \in ChainSet(s, t) /\ s.state[t] = "Active"
    <3>1. t \in Members(s, c)  BY <1>1, <2>3, MemberIs
    <3>2. Running(e, c) = Running(s, c) \ {t} /\ t \in Running(s, c)  BY <1>2, <1>3, <2>1, <2>3, <3>1 DEF Running
    <3>3. Cardinality(Running(e, c)) = Cardinality(Running(s, c)) - 1  BY <2>1, <3>2, FS_RemoveElement
    <3>4. e.active[c] = s.active[c] - 1  BY <1>2, <2>3
    <3>5. PICK a \in Nat : a = s.active[c]  BY <2>1
    <3>6. a - 1 <= Limit  BY <2>1, <3>5, SchedulerAssumption
    <3>. QED  BY <2>1, <3>3, <3>4, <3>5, <3>6
  <2>4. CASE ~Gone(s, t, c) /\ ~(c \in ChainSet(s, t) /\ s.state[t] = "Active")
    <3>1. t \in Members(s, c) => s.state[t] # "Active"  BY <1>1, <2>4, MemberIs
    <3>2. Running(e, c) = Running(s, c)  BY <1>2, <1>3, <2>1, <3>1 DEF Running
    <3>. QED  BY <1>2, <2>1, <2>4, <3>2
  <2>. QED  BY <2>2, <2>3, <2>4
<1>7. ASSUME NEW c \in Chains, NEW u \in Members(e, c)
      PROVE  /\ u \in Members(s, c) /\ u \in Tasks /\ u # t /\ e.gen[c] = s.gen[c] /\ e.node[u] = s.node[u]
             /\ e.state[u] = s.state[u]
             /\ Current(e, u, c) <=> Current(s, u, c)
             /\ Ahead(e, u, c) = Ahead(s, u, c) \ {t}
  <2>1. u \in Members(s, c) /\ u # t /\ ~Gone(s, t, c)  BY <1>3, <1>7
  <2>2. u \in Tasks  BY <1>1, <2>1, MemberIs
  <2>3. e.gen[c] = s.gen[c] /\ e.node[u] = s.node[u] /\ e.state[u] = s.state[u]  BY <1>2, <2>1, <2>2
  <2>4. Ahead(e, u, c) = Ahead(s, u, c) \ {t}  BY <1>3 DEF Ahead
  <2>. QED  BY <2>1, <2>2, <2>3, <2>4 DEF Current
<1>8. ASSUME NEW c \in Chains, NEW u \in Members(e, c) PROVE \A v \in Ahead(e, u, c) : Current(e, v, c) <=> Current(s, v, c)
  <2>1. \A v \in Ahead(e, u, c) : v \in Members(e, c)  BY DEF Ahead
  <2>. QED  BY <1>7, <2>1
<1>9. Pipelined(e)
  <2>1. ASSUME NEW c \in Chains PROVE e.gen[c] >= 1  BY <1>1, <1>2 DEF Pipelined
  <2>2. ASSUME NEW c \in Chains, NEW u \in Members(e, c)
        PROVE  e.node[u][c] <= e.gen[c] /\ (Current(e, u, c) => e.state[u] = "Active" /\ Clear(e, u, c))
    <3>1. s.node[u][c] <= s.gen[c] /\ (Current(s, u, c) => s.state[u] = "Active" /\ Clear(s, u, c))
      BY <1>1, <1>7 DEF Pipelined
    <3>2. Clear(s, u, c) => Clear(e, u, c)  BY <1>7, <1>8 DEF Clear
    <3>. QED  BY <1>7, <3>1, <3>2
  <2>. QED  BY ONLY <2>1, <2>2 DEF Pipelined
<1>10. Listed(e)
  <2>1. ASSUME NEW c \in Chains PROVE e.limited[c] \in Members(e, c) \union {NoTask}
    <3>1. c \notin ChainSet(s, t) => t \notin Members(s, c)  BY <1>1, MemberIs
    <3>. QED  BY <1>1, <1>2, <1>3, <3>1 DEF Listed
  <2>2. ToSet(s.pending) \subseteq Tasks  BY <1>1, Fields, ToSetIs
  <2>. QED  BY <1>1, <1>2, <2>1, <2>2 DEF Listed
<1>11. Good(e)  BY <1>5, <1>6, <1>9, <1>10 DEF Good
<1>12. ASSUME Tended(s, {}) PROVE Tended(e, ToSet(StartLater(s, t)) \union ToSet(Children(s, t)))
  <2> SUFFICES ASSUME NEW u \in Tasks, Ready(e, u), u \notin ToSet(StartLater(s, t)), u \notin ToSet(Children(s, t))
               PROVE  Blocked(e, u)
    BY DEF Tended
  <2>1. u # t /\ s.state[u] = "Pending" /\ ChainSet(e, u) = ChainSet(s, u)  BY <1>2, <1>4 DEF Ready
  <2>2. ASSUME NEW c \in ChainSet(s, u) PROVE Clear(s, u, c)
    <3>1. c \in Chains /\ u \in Members(s, c) /\ u \in Members(e, c)  BY <1>1, <1>3, <2>1, ChainSetIs
    <3>2. \A v \in Ahead(s, u, c) \ {t} : Current(s, v, c)  BY <1>7, <1>8, <2>1, <3>1 DEF Ready, Clear
    <3>3. CASE t \in Ahead(s, u, c)
      <4> SUFFICES ASSUME ~Current(s, t, c) PROVE FALSE  BY <3>2, <3>3 DEF Clear
      <4>1. t \in Members(s, c) /\ t < u /\ t \in Nat /\ u \in Nat  BY <1>1, <3>1, <3>3, MemberIs DEF Ahead
      <4>2. IsChild(s, u, t, c)
        <5> SUFFICES ASSUME NEW x \in Members(s, c), t < x PROVE u <= x  BY <3>1, <4>1 DEF IsChild
        <5>1. x \in Nat  BY <1>1, <3>1, MemberIs
        <5>2. ASSUME x < u PROVE FALSE
          <6>1. x \in Ahead(s, u, c) \ {t}  BY <4>1, <5>1, <5>2 DEF Ahead
          <6>2. Clear(s, x, c)  BY <1>1, <3>1, <3>2, <6>1 DEF Pipelined
          <6>3. t \in Ahead(s, x, c)  BY <4>1 DEF Ahead
          <6>. QED  BY <6>2, <6>3 DEF Clear
        <5>. QED  BY <4>1, <5>1, <5>2
      <4>3. c \in ChainSet(s, t)  BY <1>1, <3>1, <4>1, MemberIs
      <4>. QED  BY <1>1, <4>2, <4>3, ChildrenAre
    <3>4. CASE t \notin Ahead(s, u, c)  BY <3>2, <3>4 DEF Clear
    <3>. QED  BY <3>3, <3>4
  <2>3. Blocked(s, u)  BY <1>12, <2>1, <2>2 DEF Tended, Ready
  <2>4. PICK c \in ChainSet(s, u) : ~HasRoom(s, c) /\ s.limited[c] = u  BY <2>3 DEF Blocked
  <2>5. c \notin ChainSet(s, t) /\ c \in Chains  BY <1>1, <2>1, <2>4, OthersAre, ChainSetIs
  <2>6. ~HasRoom(e, c) /\ e.limited[c] = u
    <3>1. ~Gone(s, t, c)  BY <2>5 DEF Gone
    <3>. QED  BY <1>2, <2>4, <2>5, <3>1 DEF HasRoom
  <2>. QED  BY <2>1, <2>4, <2>6 DEF Blocked
<1>. QED  BY <1>3, <1>11, <1>12

(* A new task is the last one of its chains.                                  *)
Made(s, t, l) ==
  [s EXCEPT !.chains[t] = l,
            !.state[t]  = "Pending",
            !.node[t]   = [c \in Chains |-> 0],
            !.chain     = [c \in Chains |-> IF c \in ToSet(l) THEN Append(@[c], t) ELSE @[c]]]

LEMMA CreateIs == \A s, t, l : CreateTask(s, t, l) = TryStart(Made(s, t, l), <<t>>)
  BY DEF CreateTask, Made

MadeFrom(s, t, l, e) ==
  /\ e \in Schedulers /\ e.pending = s.pending /\ e.active = s.active /\ e.gen = s.gen /\ e.limited = s.limited
  /\ e.chains[t] = l /\ e.state[t] = "Pending"
  /\ \A u \in Tasks : u # t => /\ e.chains[u] = s.chains[u] /\ e.state[u] = s.state[u] /\ e.node[u] = s.node[u]
  /\ \A c \in Chains : /\ e.node[t][c] = 0
                       /\ e.chain[c] = IF c \in ToSet(l) THEN Append(s.chain[c], t) ELSE s.chain[c]

LEMMA MadeFields ==
  ASSUME NEW s \in Schedulers, NEW t \in Tasks, NEW l \in ChainLists, NEW e, e = Made(s, t, l)
  PROVE  MadeFrom(s, t, l, e)
<1>1. PICK state, chains, node, chain, zero :
        /\ state = [s.state EXCEPT ![t] = "Pending"]
        /\ chains = [s.chains EXCEPT ![t] = l]
        /\ zero = [c \in Chains |-> 0]
        /\ node = [s.node EXCEPT ![t] = zero]
        /\ chain = [c \in Chains |-> IF c \in ToSet(l) THEN Append(s.chain[c], t) ELSE s.chain[c]]
  OBVIOUS
<1>2. e = [s EXCEPT !.state = state, !.chains = chains, !.node = node, !.chain = chain]
  <2>1. e = [s EXCEPT !.chains[t] = l, !.state[t] = "Pending", !.node[t] = [c \in Chains |-> 0],
                      !.chain = [c \in Chains |-> IF c \in ToSet(l) THEN Append(@[c], t) ELSE @[c]]]
    BY DEF Made
  <2>. QED  BY ONLY s \in Schedulers, <1>1, <2>1 DEF Schedulers
<1>3. /\ state \in [Tasks -> {"None", "Pending", "Active", "Paused"}] /\ state[t] = "Pending"
      /\ \A u \in Tasks : u # t => state[u] = s.state[u]
  BY <1>1, Fields
<1>4. chains \in [Tasks -> Seq(Chains)] /\ chains[t] = l /\ \A u \in Tasks : u # t => chains[u] = s.chains[u]
  <2>1. l \in Seq(Chains) /\ s.chains \in [Tasks -> Seq(Chains)]  BY Fields, DispatcherAssumption
  <2>. QED  BY <1>1, <2>1
<1>5. /\ node \in [Tasks -> [Chains -> Nat]] /\ \A u \in Tasks : u # t => node[u] = s.node[u]
      /\ \A c \in Chains : node[t][c] = 0
  <2>1. zero \in [Chains -> Nat]
    <3>1. 0 \in Nat  OBVIOUS
    <3>. QED  BY <1>1, <3>1
  <2>2. s.node \in [Tasks -> [Chains -> Nat]]  BY Fields
  <2>3. node[t] = zero  BY <1>1, <2>2
  <2>. QED  BY <1>1, <2>1, <2>2, <2>3
<1>6. chain \in [Chains -> Seq(Tasks)]
  <2>1. s.chain \in [Chains -> Seq(Tasks)]  BY Fields
  <2>. QED  BY <1>1, <2>1
<1>7. /\ e.pending = s.pending /\ e.active = s.active /\ e.gen = s.gen /\ e.limited = s.limited
      /\ e.state = state /\ e.chains = chains /\ e.node = node /\ e.chain = chain
  BY <1>2 DEF Schedulers
<1>8. e \in Schedulers  BY <1>2, <1>3, <1>4, <1>5, <1>6 DEF Schedulers
<1>9. \A c \in Chains : /\ e.node[t][c] = 0
                        /\ e.chain[c] = IF c \in ToSet(l) THEN Append(s.chain[c], t) ELSE s.chain[c]
  BY <1>1, <1>5, <1>7
<1>. QED  BY <1>3, <1>4, <1>5, <1>7, <1>8, <1>9 DEF MadeFrom

Grows(s, t, l, e) ==
  \A c \in Chains : Members(e, c) = IF c \in ToSet(l) THEN Members(s, c) \union {t} ELSE Members(s, c)

LEMMA Created ==
  ASSUME NEW s, Good(s), NEW t \in Tasks, s.state[t] = "None", NEW l \in ChainLists,
         \A u \in Tasks : s.state[u] # "None" => u < t,
         NEW e, MadeFrom(s, t, l, e)
  PROVE  /\ Good(e) /\ Grows(s, t, l, e)
         /\ Tended(s, {}) => Tended(e, {t})
<1>1. s \in Schedulers /\ Joined(s) /\ Counted(s) /\ Pipelined(s) /\ Listed(s)  BY DEF Good, Joined
<1>2. /\ e \in Schedulers /\ e.pending = s.pending /\ e.active = s.active /\ e.gen = s.gen /\ e.limited = s.limited
      /\ e.chains[t] = l /\ e.state[t] = "Pending"
      /\ \A u \in Tasks : u # t => /\ e.chains[u] = s.chains[u] /\ e.state[u] = s.state[u] /\ e.node[u] = s.node[u]
      /\ \A c \in Chains : /\ e.node[t][c] = 0
                           /\ e.chain[c] = IF c \in ToSet(l) THEN Append(s.chain[c], t) ELSE s.chain[c]
  BY DEF MadeFrom
<1>3. ChainSet(e, t) = ToSet(l) /\ \A u \in Tasks : u # t => ChainSet(e, u) = ChainSet(s, u)  BY <1>2 DEF ChainSet
<1>4. ASSUME NEW c \in Chains, NEW u \in Members(s, c) PROVE u \in Tasks /\ u < t /\ u # t /\ u \in Nat
  <2>1. u \in Tasks /\ u \in Nat /\ c \in ChainSet(s, u)  BY <1>1, MemberIs
  <2>2. s.state[u] # "None"
    <3>1. ToSet(<< >>) = {}  BY DEF ToSet
    <3>. QED  BY <1>1, <2>1, <3>1 DEF Joined, ChainSet
  <2>. QED  BY <2>1, <2>2, TasksAreNumbers
<1>5. \A c \in Chains : s.chain[c] \in Seq(Tasks)  BY <1>1, Fields
<1>6. \A c \in Chains : Members(e, c) = IF c \in ToSet(l) THEN Members(s, c) \union {t} ELSE Members(s, c)
  <2> SUFFICES ASSUME NEW c \in Chains
               PROVE  Members(e, c) = IF c \in ToSet(l) THEN Members(s, c) \union {t} ELSE Members(s, c)
    OBVIOUS
  <2>1. ToSet(Append(s.chain[c], t)) = ToSet(s.chain[c]) \union {t}  BY <1>5, ToSetAppend
  <2>2. e.chain[c] = IF c \in ToSet(l) THEN Append(s.chain[c], t) ELSE s.chain[c]  BY <1>2
  <2>. QED  BY ONLY <2>1, <2>2 DEF Members
<1>7. \A c \in Chains : Sorted(e.chain[c])
  <2> SUFFICES ASSUME NEW c \in Chains, c \in ToSet(l) PROVE Sorted(Append(s.chain[c], t))
    BY <1>1, <1>2 DEF Joined
  <2>1. PICK us \in Seq(Tasks) : us = s.chain[c]  BY <1>5
  <2>2. Sorted(us)  BY <1>1, <2>1 DEF Joined
  <2>3. \A i \in 1 .. Len(us) : us[i] < t
    <3>1. \A i \in 1 .. Len(us) : us[i] \in Members(s, c)  BY <2>1 DEF Members, ToSet
    <3>. QED  BY <1>4, <3>1
  <2> SUFFICES ASSUME NEW i \in DOMAIN Append(us, t), NEW j \in DOMAIN Append(us, t), i < j
               PROVE  Append(us, t)[i] < Append(us, t)[j]
    BY <2>1 DEF Sorted
  <2>4. i \in 1 .. Len(us) /\ Append(us, t)[i] = us[i]  OBVIOUS
  <2>5. CASE j \in 1 .. Len(us)
    <3>1. Append(us, t)[j] = us[j] /\ DOMAIN us = 1 .. Len(us)  BY <2>5
    <3>. QED  BY <2>2, <2>4, <2>5, <3>1 DEF Sorted
  <2>6. CASE j \notin 1 .. Len(us)
    <3>1. Append(us, t)[j] = t  BY <2>6
    <3>. QED  BY <2>3, <2>4, <3>1
  <2>. QED  BY <2>5, <2>6
<1>8. Joined(e)
  <2>1. ASSUME NEW u \in Tasks PROVE IsInjective(e.chains[u]) /\ (e.state[u] = "None" <=> e.chains[u] = << >>)
    <3>1. IsInjective(l) /\ l # << >>  BY DispatcherAssumption
    <3>. QED  BY <1>1, <1>2, <3>1 DEF Joined
  <2>2. ASSUME NEW u \in Tasks, NEW c \in Chains PROVE u \in Members(e, c) <=> c \in ChainSet(e, u)
    <3>1. u = t => u \notin Members(s, c)  BY <1>4
    <3>. QED  BY <1>1, <1>3, <1>6, <3>1 DEF Joined
  <2>. QED  BY <1>2, <1>7, <2>1, <2>2 DEF Joined
<1>9. ASSUME NEW c \in Chains PROVE Running(e, c) = Running(s, c)
  <2>1. e.state[t] # "Active"  BY <1>2
  <2>2. \A u \in Members(s, c) : e.state[u] = s.state[u]  BY <1>2, <1>4
  <2>. QED  BY <1>6, <2>1, <2>2 DEF Running
<1>10. Counted(e)  BY <1>1, <1>2, <1>9 DEF Counted
<1>11. ASSUME NEW c \in Chains, NEW u \in Members(s, c)
       PROVE  /\ Current(e, u, c) <=> Current(s, u, c)
              /\ Ahead(e, u, c) = Ahead(s, u, c)
  <2>1. u \in Tasks /\ u < t /\ u # t /\ u \in Nat /\ t \in Nat  BY <1>4, TasksAreNumbers
  <2>2. ~(t < u)  BY <2>1
  <2>. QED  BY <1>2, <1>6, <2>1, <2>2 DEF Ahead, Current
<1>12. ASSUME NEW c \in Chains, NEW u \in Members(s, c) PROVE Clear(e, u, c) <=> Clear(s, u, c)
  <2>1. \A v \in Ahead(s, u, c) : v \in Members(s, c)  BY DEF Ahead
  <2>. QED  BY <1>11, <2>1 DEF Clear
<1>13. ASSUME NEW c \in Chains PROVE ~Current(e, t, c) /\ e.node[t][c] <= e.gen[c] /\ e.gen[c] >= 1
  <2>1. s.gen[c] \in Nat /\ s.gen[c] >= 1  BY <1>1, Fields DEF Pipelined
  <2>. QED  BY <1>2, <2>1 DEF Current
<1>14. Pipelined(e)
  <2>1. ASSUME NEW c \in Chains, NEW u \in Members(e, c)
        PROVE  e.node[u][c] <= e.gen[c] /\ (Current(e, u, c) => e.state[u] = "Active" /\ Clear(e, u, c))
    <3>1. CASE u = t  BY <1>13, <3>1
    <3>2. CASE u # t
      <4>1. u \in Members(s, c)  BY <1>6, <3>2
      <4>2. e.node[u][c] = s.node[u][c] /\ e.gen[c] = s.gen[c] /\ e.state[u] = s.state[u]  BY <1>2, <1>4, <4>1
      <4>. QED  BY <1>1, <1>11, <1>12, <4>1, <4>2 DEF Pipelined
    <3>. QED  BY <3>1, <3>2
  <2>. QED  BY <1>13, <2>1 DEF Pipelined
<1>15. Listed(e)
  <2>1. \A u \in ToSet(s.pending) : u \in Tasks /\ u # t  BY <1>1, Fields, ToSetIs DEF Listed
  <2>. QED  BY <1>1, <1>2, <1>6, <2>1 DEF Listed
<1>16. Good(e)  BY <1>8, <1>10, <1>14, <1>15 DEF Good
<1>17. ASSUME Tended(s, {}) PROVE Tended(e, {t})
  <2> SUFFICES ASSUME NEW u \in Tasks, Ready(e, u), u # t PROVE Blocked(e, u)
    BY DEF Tended
  <2>1. s.state[u] = "Pending" /\ ChainSet(e, u) = ChainSet(s, u)  BY <1>2, <1>3 DEF Ready
  <2>2. \A c \in ChainSet(s, u) : c \in Chains /\ u \in Members(s, c)  BY <1>1, ChainSetIs
  <2>3. Ready(s, u)  BY <1>12, <2>1, <2>2 DEF Ready
  <2>4. Blocked(s, u)  BY <1>17, <2>3 DEF Tended
  <2>. QED  BY <1>2, <2>1, <2>4 DEF Blocked, HasRoom
<1>. QED  BY <1>6, <1>16, <1>17 DEF Grows

-------------------------------------------------------------------------------
(* The functions of the scheduler: what each makes of the task it is called   *)
(* for, and of the others.                                                    *)
Turns(s, e, u) ==
  \/ e.state[u] = s.state[u] /\ (u \in ToSet(e.pending) <=> u \in ToSet(s.pending))
  \/ s.state[u] = "Pending" /\ e.state[u] = "Active" /\ u \in ToSet(e.pending)

Shifts(s, t, e) ==
  /\ \A c \in Chains : Members(e, c) \ {t} = Members(s, c) \ {t}
  /\ \A u \in Tasks : u # t => Turns(s, e, u)

Settled(e) == Good(e) /\ Tended(e, {})

LEMMA TriedShifts ==
  ASSUME NEW s, NEW t \in Tasks, NEW m, Good(m), NEW list \in Seq(Tasks), Tended(m, ToSet(list)),
         m.pending = s.pending, \A u \in Tasks : u # t => m.state[u] = s.state[u],
         \A c \in Chains : Members(m, c) \ {t} = Members(s, c) \ {t},
         NEW e, e = TryStart(m, list)
  PROVE  Settled(e) /\ Shifts(s, t, e) /\ e.chain = m.chain /\ Turns(m, e, t)
<1>1. Good(e) /\ Starts(m, e) /\ Tended(e, {})  BY Tried
<1>2. \A u \in Tasks : Turns(m, e, u)  BY <1>1 DEF Starts, Turns
<1>3. e.chain = m.chain  BY <1>1 DEF Starts
<1>. QED  BY <1>1, <1>2, <1>3 DEF Settled, Shifts, Turns, Members

LEMMA Lists ==
  ASSUME NEW a \in Seq(Tasks), NEW t \in Tasks, NEW b \in Seq(Tasks)
  PROVE  /\ a \o <<t>> \in Seq(Tasks) /\ ToSet(a \o <<t>>) = ToSet(a) \union {t}
         /\ <<t>> \in Seq(Tasks) /\ ToSet(<<t>>) = {t}
         /\ a \o b \in Seq(Tasks) /\ ToSet(a \o b) = ToSet(a) \union ToSet(b)
<1>1. <<t>> \in Seq(Tasks) /\ ToSet(<<t>>) = {t}  BY DEF ToSet
<1>2. ToSet(a \o <<t>>) = ToSet(a) \union ToSet(<<t>>)  BY <1>1, ToSetConcat
<1>3. ToSet(a \o b) = ToSet(a) \union ToSet(b)  BY ToSetConcat
<1>. QED  BY <1>1, <1>2, <1>3

LEMMA ResetIs ==
  ASSUME NEW s, Settled(s), NEW t \in Tasks, s.state[t] # "None", t \notin ToSet(s.pending),
         NEW e, e = ResetTask(s, t)
  PROVE  /\ Settled(e) /\ Shifts(s, t, e) /\ e.chain = s.chain
         /\ \/ e.state[t] = "Pending" /\ t \notin ToSet(e.pending)
            \/ e.state[t] = "Active" /\ t \in ToSet(e.pending)
<1>1. Good(s) /\ Tended(s, {}) /\ s \in Schedulers  BY DEF Settled, Good, Joined
<1>2. PICK i : i = Inactivated(s, t, TRUE)  OBVIOUS
<1>3. i \in Schedulers /\ Off(s, t, TRUE, i)  BY <1>1, <1>2, OffFields
<1>4. i = [i EXCEPT !.state[t] = "Pending"]
  <2>1. PICK state : state = i.state /\ state \in [Tasks -> {"None", "Pending", "Active", "Paused"}] /\ state[t] = "Pending"
    BY <1>3, Fields DEF Off
  <2>2. [state EXCEPT ![t] = "Pending"] = state  BY <2>1
  <2>3. [i EXCEPT !.state = state] = i  BY <1>3, <2>1 DEF Schedulers
  <2>. QED  BY <2>1, <2>2, <2>3
<1>5. Good(i) /\ Stop(s, t, "Pending", i) /\ Tended(i, ToSet(StartLater(s, t)) \union {t})
  <2>1. i = [Inactivated(s, t, TRUE) EXCEPT !.state[t] = "Pending"]  BY <1>2, <1>4
  <2>. QED  BY <1>1, <2>1, Stopped
<1>6. PICK list : list = StartLater(s, t) /\ list \in Seq(Tasks)  BY <1>1, OthersAre
<1>7. PICK todo : todo = list \o <<t>> /\ todo \in Seq(Tasks) /\ ToSet(todo) = ToSet(list) \union {t}  BY <1>6, Lists
<1>8. e = TryStart(i, todo) /\ Tended(i, ToSet(todo))  BY <1>2, <1>5, <1>6, <1>7 DEF ResetTask
<1>9. /\ i.pending = s.pending /\ i.chain = s.chain /\ i.state[t] = "Pending"
      /\ \A u \in Tasks : u # t => i.state[u] = s.state[u]
      /\ \A c : Members(i, c) = Members(s, c)
  BY <1>5 DEF Stop, Members
<1>10. Settled(e) /\ Shifts(s, t, e) /\ e.chain = i.chain /\ Turns(i, e, t)
  <2>1. todo \in Seq(Tasks) /\ Good(i)  BY <1>5, <1>7
  <2>2. \A c \in Chains : Members(i, c) \ {t} = Members(s, c) \ {t}  BY <1>9
  <2>. QED  BY ONLY <1>8, <1>9, <2>1, <2>2, TriedShifts, t \in Tasks
<1>. QED  BY <1>9, <1>10 DEF Turns

LEMMA PauseIs ==
  ASSUME NEW s, Settled(s), NEW t \in Tasks, s.state[t] # "None", t \notin ToSet(s.pending),
         NEW e, e = PauseTask(s, t)
  PROVE  /\ Settled(e) /\ Shifts(s, t, e) /\ e.chain = s.chain
         /\ e.state[t] = "Paused" /\ t \notin ToSet(e.pending)
         /\ s.state[t] # "Active" => e.pending = s.pending /\ \A u \in Tasks : u # t => e.state[u] = s.state[u]
<1>1. Good(s) /\ Tended(s, {}) /\ s \in Schedulers  BY DEF Settled, Good, Joined
<1>2. PICK i : i = [Inactivated(s, t, TRUE) EXCEPT !.state[t] = "Paused"]  OBVIOUS
<1>3. /\ Good(i) /\ Stop(s, t, "Paused", i) /\ Tended(i, ToSet(StartLater(s, t)))
      /\ s.state[t] # "Active" => Idle(i)
  BY <1>1, <1>2, Stopped
<1>4. PICK list : list = StartLater(s, t) /\ list \in Seq(Tasks)  BY <1>1, OthersAre
<1>5. e = TryStart(i, list) /\ Tended(i, ToSet(list))  BY <1>2, <1>3, <1>4 DEF PauseTask
<1>6. /\ i.pending = s.pending /\ i.chain = s.chain /\ i.state[t] = "Paused"
      /\ \A u \in Tasks : u # t => i.state[u] = s.state[u]
      /\ \A c : Members(i, c) = Members(s, c)
  BY <1>3 DEF Stop, Members
<1>7. Settled(e) /\ Shifts(s, t, e) /\ e.chain = i.chain /\ Turns(i, e, t)
  BY <1>3, <1>4, <1>5, <1>6, TriedShifts
<1>8. s.state[t] # "Active" => Remembers(i, e)  BY <1>3, <1>4, <1>5, Tried
<1>9. s.state[t] # "Active" => e.pending = s.pending /\ \A u \in Tasks : u # t => e.state[u] = s.state[u]
  BY <1>6, <1>8 DEF Remembers
<1>. QED  BY <1>6, <1>7, <1>9 DEF Turns

LEMMA FinishedIs ==
  ASSUME NEW s, Settled(s), NEW t \in Tasks, t \notin ToSet(s.pending), NEW e, e = FinishTask(s, t)
  PROVE  /\ Settled(e) /\ Shifts(s, t, e) /\ \A c \in Chains : t \notin Members(e, c)
         /\ e.state[t] = "None" /\ t \notin ToSet(e.pending)
<1>1. Good(s) /\ Tended(s, {}) /\ Joined(s)  BY DEF Settled, Good
<1>2. PICK i : i = Ended(s, t)  OBVIOUS
<1>3. EndFrom(s, t, i)  BY <1>1, <1>2, EndFields
<1>4. PICK list, next : list = StartLater(s, t) /\ next = Children(s, t)  OBVIOUS
<1>5. list \in Seq(Tasks) /\ next \in Seq(Tasks)  BY <1>1, <1>4, OthersAre, ChildrenAre
<1>6. /\ Good(i) /\ \A c \in Chains : Members(i, c) = Members(s, c) \ {t}
      /\ Tended(i, ToSet(list) \union ToSet(next))
  BY <1>1, <1>3, <1>4, Finished
<1>7. list \o next \in Seq(Tasks) /\ ToSet(list \o next) = ToSet(list) \union ToSet(next)  BY <1>5, Lists
<1>8. e = TryStart(i, list \o next)  BY <1>2, <1>4, FinishIs
<1>9. i.pending = s.pending /\ i.state[t] = "None" /\ \A u \in Tasks : u # t => i.state[u] = s.state[u]
  BY <1>3 DEF EndFrom
<1>10. Tended(i, ToSet(list \o next)) /\ \A c \in Chains : Members(i, c) \ {t} = Members(s, c) \ {t}  BY <1>6, <1>7
<1>11. Settled(e) /\ Shifts(s, t, e) /\ e.chain = i.chain /\ Turns(i, e, t)
  BY <1>6, <1>7, <1>8, <1>9, <1>10, TriedShifts
<1>12. \A c : Members(e, c) = Members(i, c)  BY <1>11 DEF Members
<1>. QED  BY <1>6, <1>9, <1>11, <1>12 DEF Turns

LEMMA CreatedIs ==
  ASSUME NEW s, Settled(s), NEW t \in Tasks, s.state[t] = "None", NEW l \in ChainLists,
         \A u \in Tasks : s.state[u] # "None" => u < t,
         NEW e, e = CreateTask(s, t, l)
  PROVE  /\ Settled(e) /\ Shifts(s, t, e)
         /\ \/ e.state[t] = "Pending" /\ t \notin ToSet(e.pending)
            \/ e.state[t] = "Active" /\ t \in ToSet(e.pending)
<1>1. Good(s) /\ Tended(s, {}) /\ s \in Schedulers  BY DEF Settled, Good, Joined
<1>2. PICK i : i = Made(s, t, l)  OBVIOUS
<1>3. MadeFrom(s, t, l, i)  BY <1>1, <1>2, MadeFields
<1>4. Good(i) /\ Tended(i, {t}) /\ Grows(s, t, l, i)
  <2>1. Good(s) /\ s.state[t] = "None" /\ \A u \in Tasks : s.state[u] # "None" => u < t  BY <1>1
  <2>. QED  BY ONLY <1>1, <1>3, <2>1, Created, t \in Tasks, l \in ChainLists
<1>5. PICK todo : todo = <<t>> /\ todo \in Seq(Tasks) /\ ToSet(todo) = {t}
  <2>1. << >> \in Seq(Tasks)  OBVIOUS
  <2>. QED  BY <2>1, Lists
<1>6. e = TryStart(i, todo) /\ Tended(i, ToSet(todo))  BY <1>2, <1>4, <1>5, CreateIs
<1>7. i.pending = s.pending /\ i.state[t] = "Pending" /\ \A u \in Tasks : u # t => i.state[u] = s.state[u]
  BY <1>3 DEF MadeFrom
<1>8. \A c \in Chains : Members(i, c) \ {t} = Members(s, c) \ {t}  BY <1>4 DEF Grows
<1>9. Settled(e) /\ Shifts(s, t, e) /\ Turns(i, e, t)
  <2>1. todo \in Seq(Tasks) /\ Good(i)  BY <1>4, <1>5
  <2>. QED  BY ONLY <1>6, <1>7, <1>8, <2>1, TriedShifts, t \in Tasks
<1>10. t \notin ToSet(s.pending)  BY <1>1 DEF Good, Listed
<1>. QED  BY <1>7, <1>9, <1>10 DEF Turns

-------------------------------------------------------------------------------
(* The dispatcher.  The scheduler's books and the places of the queries.      *)
Views ==
  [s : Schedulers, at : [Tasks -> Places], after : [Tasks -> SUBSET Tasks],
   answer : [Tasks -> {"none", "ok", "error", "wait", "flood"}],
   flood : [Tasks -> BOOLEAN], total : [Tasks -> Nat], owed : [Tasks -> Nat]]

Matches(d, t) ==
  /\ d.s.state[t] = "None" <=> d.at[t] \in {"new", "gone"}
  /\ d.s.state[t] = "Pending" => d.at[t] = "node"
  /\ d.s.state[t] = "Paused" => d.at[t] \in {"owner", "resend", "drop"}
  /\ t \in ToSet(d.s.pending) => d.at[t] = "node"
  /\ d.s.state[t] = "Active" /\ t \notin ToSet(d.s.pending) =>
       d.at[t] \in {"session", "sent", "delayer", "answered", "owner", "resend", "drop"}

Speaks(d, t) ==
  /\ d.at[t] \in {"new", "node", "session", "delayer"} => d.answer[t] = "none"
  /\ d.at[t] = "resend" => d.answer[t] = "error"

(* A query that is out refers to its parents, unless one of them has ended.   *)
Refers(d, t) ==
  \/ \E p \in d.after[t] : d.at[p] = "gone"
  \/ \A c \in Chains : t \in Members(d.s, c) => \A p : IsParent(d.s, p, t, c) => p \in d.after[t]

Sequenced(d) == \A t, u \in Tasks : u < t /\ d.at[t] # "new" => d.at[u] # "new"

Sound(d) ==
  /\ d \in Views /\ Settled(d.s) /\ Sequenced(d)
  /\ \A t \in Tasks : /\ Matches(d, t) /\ Speaks(d, t)
                      /\ d.at[t] \in {"session", "sent", "delayer"} => Refers(d, t)

(* What the dispatcher's handlers leave of the order of the queries.          *)
Stays(d, e, t) ==
  /\ e.at[t] = "new" => d.at[t] = "new"
  /\ d.at[t] = "gone" => e.at[t] = "gone"
  /\ d.at[t] = "sent" <=> e.at[t] = "sent"
  /\ e.at[t] = "sent" => e.answer[t] = d.answer[t]
  /\ d.answer[t] = "ok" <=> e.answer[t] = "ok"

Moves(d, e) ==
  /\ \A c \in Chains : /\ \A t \in Members(e.s, c) : t \in Members(d.s, c) \/ d.at[t] = "new"
                       /\ \A t \in Members(d.s, c) : t \in Members(e.s, c) \/ e.at[t] = "gone"
  /\ \A t \in Tasks : Stays(d, e, t)

(* Flood waits are charged, never made.                                       *)
Debt(d, e) ==
  \A t \in Tasks : /\ e.total[t] + e.owed[t] <= d.total[t] + d.owed[t]
                   /\ e.flood[t] => d.flood[t]
                   /\ e.answer[t] = "flood" => d.answer[t] = "flood"

LEMMA ViewFields ==
  ASSUME NEW d \in Views
  PROVE  /\ d.s \in Schedulers /\ d.at \in [Tasks -> Places] /\ d.after \in [Tasks -> SUBSET Tasks]
         /\ d.answer \in [Tasks -> {"none", "ok", "error", "wait", "flood"}]
         /\ d.flood \in [Tasks -> BOOLEAN] /\ d.total \in [Tasks -> Nat] /\ d.owed \in [Tasks -> Nat]
  BY DEF Views

LEMMA MovesTransitive ==
  ASSUME NEW d, NEW e, NEW f, Sound(d), Sound(e), Sound(f), Moves(d, e), Moves(e, f)
  PROVE  Moves(d, f)
<1>1. \A c \in Chains : Members(d.s, c) \subseteq Tasks /\ Members(e.s, c) \subseteq Tasks /\ Members(f.s, c) \subseteq Tasks
  BY MemberIs DEF Sound, Settled, Good
<1>2. \A t \in Tasks : Stays(d, f, t)  BY DEF Moves, Stays
<1>3. ASSUME NEW c \in Chains, NEW t \in Members(f.s, c) PROVE t \in Members(d.s, c) \/ d.at[t] = "new"
  BY <1>1, <1>3 DEF Moves, Stays
<1>4. ASSUME NEW c \in Chains, NEW t \in Members(d.s, c) PROVE t \in Members(f.s, c) \/ f.at[t] = "gone"
  BY <1>1, <1>4 DEF Moves, Stays
<1>. QED  BY <1>2, <1>3, <1>4 DEF Moves

LEMMA DebtTransitive ==
  ASSUME NEW d \in Views, NEW e \in Views, NEW f \in Views, Debt(d, e), Debt(e, f)
  PROVE  Debt(d, f)
<1> SUFFICES ASSUME NEW t \in Tasks
             PROVE  /\ f.total[t] + f.owed[t] <= d.total[t] + d.owed[t]
                    /\ f.flood[t] => d.flood[t]
                    /\ f.answer[t] = "flood" => d.answer[t] = "flood"
  BY DEF Debt
<1>1. PICK a \in Nat, b \in Nat, c \in Nat :
        a = f.total[t] + f.owed[t] /\ b = e.total[t] + e.owed[t] /\ c = d.total[t] + d.owed[t]
  <2>1. \A x \in Nat, y \in Nat : x + y \in Nat  OBVIOUS
  <2>. QED  BY <2>1, ViewFields
<1>2. a <= b /\ b <= c  BY <1>1 DEF Debt
<1>3. a <= c  BY <1>2
<1>. QED  BY <1>1, <1>3 DEF Debt

LEMMA Same ==
  ASSUME NEW d \in Views
  PROVE  Debt(d, d)
<1> SUFFICES ASSUME NEW t \in Tasks PROVE d.total[t] + d.owed[t] <= d.total[t] + d.owed[t]  BY DEF Debt
<1>1. d.total[t] + d.owed[t] \in Nat
  <2>1. d.total[t] \in Nat /\ d.owed[t] \in Nat  BY ViewFields
  <2>. QED  BY <2>1
<1>. QED  BY <1>1

-------------------------------------------------------------------------------
(* A handler changes one query, and what the scheduler starts.                *)
Changes(d, t, e) ==
  /\ Settled(e.s) /\ Shifts(d.s, t, e.s) /\ Matches(e, t)
  /\ \A u \in Tasks : u # t => e.at[u] = d.at[u] /\ e.answer[u] = d.answer[u] /\ e.after[u] = d.after[u]
  /\ e.at[t] \in {"node", "owner", "gone"} /\ d.at[t] \notin {"sent", "gone"}
  /\ e.at[t] = "node" => e.answer[t] = "none"
  /\ d.answer[t] = "ok" <=> e.answer[t] = "ok"
  /\ \A c \in Chains : /\ t \in Members(e.s, c) => t \in Members(d.s, c) \/ d.at[t] = "new"
                       /\ t \in Members(d.s, c) => t \in Members(e.s, c) \/ e.at[t] = "gone"
  /\ d.at[t] = "new" => \A u \in Tasks : u < t => d.at[u] # "new"

LEMMA Carried ==
  ASSUME NEW d, Sound(d), NEW t \in Tasks, NEW e \in Views, Changes(d, t, e)
  PROVE  Sound(e) /\ Moves(d, e)
<1>1. /\ d \in Views /\ Joined(d.s) /\ Joined(e.s) /\ Sequenced(d)
      /\ \A u \in Tasks : u # t => Turns(d.s, e.s, u)
      /\ \A c \in Chains : Members(e.s, c) \ {t} = Members(d.s, c) \ {t}
  BY DEF Sound, Changes, Settled, Good, Shifts
<1>2. /\ \A u \in Tasks : u # t => e.at[u] = d.at[u] /\ e.answer[u] = d.answer[u] /\ e.after[u] = d.after[u]
      /\ e.at[t] \in {"node", "owner", "gone"} /\ d.at[t] \notin {"sent", "gone"}
      /\ \A c \in Chains : /\ t \in Members(e.s, c) => t \in Members(d.s, c) \/ d.at[t] = "new"
                           /\ t \in Members(d.s, c) => t \in Members(e.s, c) \/ e.at[t] = "gone"
      /\ d.at[t] = "new" => \A u \in Tasks : u < t => d.at[u] # "new"
  BY DEF Changes
<1>3. Moves(d, e)
  <2>1. \A u \in Tasks : Stays(d, e, u)  BY <1>2 DEF Changes, Stays
  <2>2. ASSUME NEW c \in Chains, NEW u \in Members(e.s, c) PROVE u \in Members(d.s, c) \/ d.at[u] = "new"
    BY <1>1, <1>2
  <2>3. ASSUME NEW c \in Chains, NEW u \in Members(d.s, c) PROVE u \in Members(e.s, c) \/ e.at[u] = "gone"
    BY <1>1, <1>2
  <2>. QED  BY <2>1, <2>2, <2>3 DEF Moves
<1>4. Sequenced(e)
  <2> SUFFICES ASSUME NEW v \in Tasks, NEW u \in Tasks, u < v, e.at[v] # "new" PROVE e.at[u] # "new"
    BY DEF Sequenced
  <2>. QED  BY <1>1, <1>2 DEF Sequenced
<1>5. ASSUME NEW u \in Tasks, u # t PROVE Matches(e, u) /\ Speaks(e, u)
  <2>1. e.at[u] = d.at[u] /\ e.answer[u] = d.answer[u] /\ Turns(d.s, e.s, u)  BY <1>1, <1>2, <1>5
  <2>2. Speaks(e, u)  BY <2>1 DEF Sound, Speaks
  <2>3. Matches(d, u)  BY DEF Sound
  <2>4. CASE e.s.state[u] = d.s.state[u] /\ (u \in ToSet(e.s.pending) <=> u \in ToSet(d.s.pending))
    BY <2>1, <2>2, <2>3, <2>4 DEF Matches
  <2>5. CASE d.s.state[u] = "Pending" /\ e.s.state[u] = "Active" /\ u \in ToSet(e.s.pending)
    BY <2>1, <2>2, <2>3, <2>5 DEF Matches
  <2>. QED  BY <2>1, <2>4, <2>5 DEF Turns
<1>6. Matches(e, t) /\ Speaks(e, t)  BY <1>2 DEF Changes, Speaks
<1>7. ASSUME NEW u \in Tasks, e.at[u] \in {"session", "sent", "delayer"} PROVE Refers(e, u)
  <2>1. u # t /\ e.at[u] = d.at[u] /\ e.after[u] = d.after[u] /\ d.after[u] \subseteq Tasks
    BY <1>1, <1>2, <1>7, ViewFields
  <2>2. Refers(d, u)  BY <1>7, <2>1 DEF Sound
  <2>3. CASE \E p \in d.after[u] : d.at[p] = "gone"
    <3>1. PICK p \in d.after[u] : d.at[p] = "gone"  BY <2>3
    <3>2. p \in Tasks /\ p # t  BY <1>2, <2>1, <3>1
    <3>. QED  BY <1>2, <2>1, <3>1, <3>2 DEF Refers
  <2>4. CASE \A c \in Chains : u \in Members(d.s, c) => \A p : IsParent(d.s, p, u, c) => p \in d.after[u]
    <3> SUFFICES ASSUME ~ \E p \in e.after[u] : e.at[p] = "gone",
                        NEW c \in Chains, u \in Members(e.s, c), NEW p, IsParent(e.s, p, u, c)
                 PROVE  p \in e.after[u]
      BY DEF Refers
    <3>1. u \in Members(d.s, c) /\ u \in Nat /\ t \in Nat
      <4>1. u \in Members(d.s, c)  BY <1>1, <2>1
      <4>. QED  BY <4>1, TasksAreNumbers
    <3>2. p \in Ahead(e.s, u, c) /\ p \in Members(e.s, c) /\ p \in Nat /\ \A v \in Ahead(e.s, u, c) : v <= p
      BY <1>1, MemberIs DEF IsParent, Ahead
    <3>3. t \in Ahead(e.s, u, c) => t \in Ahead(d.s, u, c)
      <4> SUFFICES ASSUME t \in Members(e.s, c), t < u PROVE t \in Members(d.s, c)  BY DEF Ahead
      <4>1. d.at[t] = "new" => d.at[u] = "new"  BY <1>1 DEF Sequenced
      <4>. QED  BY <1>2, <1>7, <2>1, <4>1
    <3>4. p \in Ahead(d.s, u, c)  BY <1>1, <3>2, <3>3 DEF Ahead
    <3>5. \A v \in Ahead(d.s, u, c) : v # t => v <= p  BY <1>1, <3>2 DEF Ahead
    <3>6. CASE t \in Ahead(d.s, u, c) /\ ~(t <= p)
      <4>1. t \notin Members(e.s, c)
        <5> SUFFICES ASSUME t \in Members(e.s, c) PROVE FALSE  OBVIOUS
        <5>1. t \in Ahead(e.s, u, c)  BY <3>6 DEF Ahead
        <5>. QED  BY <3>2, <3>6, <5>1
      <4>2. e.at[t] = "gone"  BY <1>2, <3>6, <4>1 DEF Ahead
      <4>3. \A v \in Ahead(d.s, u, c) : v <= t
        <5> SUFFICES ASSUME NEW v \in Ahead(d.s, u, c), v # t PROVE v <= t  BY <3>1
        <5>1. v <= p /\ v \in Nat  BY <1>1, <3>5, MemberIs DEF Ahead
        <5>. QED  BY <3>1, <3>2, <3>6, <5>1
      <4>4. IsParent(d.s, t, u, c)  BY <3>6, <4>3 DEF IsParent
      <4>5. t \in e.after[u]  BY <2>1, <2>4, <3>1, <4>4
      <4>. QED  BY <4>2, <4>5
    <3>7. CASE ~(t \in Ahead(d.s, u, c) /\ ~(t <= p))
      <4>1. IsParent(d.s, p, u, c)  BY <3>4, <3>5, <3>7 DEF IsParent
      <4>. QED  BY <2>1, <2>4, <3>1, <4>1
    <3>. QED  BY <3>6, <3>7
  <2>. QED  BY <2>2, <2>3, <2>4 DEF Refers
<1>8. Settled(e.s)  BY DEF Changes
<1>. QED  BY <1>3, <1>4, <1>5, <1>6, <1>7, <1>8 DEF Sound

(* loop *)
LEMMA Emptied ==
  ASSUME NEW s, Settled(s), NEW e, e = [s EXCEPT !.pending = << >>]
  PROVE  /\ Settled(e) /\ e.state = s.state /\ e.chain = s.chain /\ e.pending = << >> /\ ToSet(e.pending) = {}
         /\ \A c, t : Members(e, c) = Members(s, c) /\ \A p : IsParent(e, p, t, c) <=> IsParent(s, p, t, c)
<1>1. s \in Schedulers /\ Joined(s) /\ Counted(s) /\ Pipelined(s) /\ Listed(s) /\ Tended(s, {})
  BY DEF Settled, Good, Joined
<1>2. /\ e.chains = s.chains /\ e.state = s.state /\ e.node = s.node /\ e.chain = s.chain /\ e.active = s.active
      /\ e.gen = s.gen /\ e.limited = s.limited /\ e.pending = << >>
  BY <1>1 DEF Schedulers
<1>3. ToSet(e.pending) = {}  BY <1>2 DEF ToSet
<1>4. e \in Schedulers
  <2>1. << >> \in Seq(Tasks)  OBVIOUS
  <2>. QED  BY <1>1, <2>1 DEF Schedulers
<1>5. /\ \A c : Members(e, c) = Members(s, c) /\ Running(e, c) = Running(s, c)
      /\ \A t : ChainSet(e, t) = ChainSet(s, t)
      /\ \A t, c : Ahead(e, t, c) = Ahead(s, t, c) /\ (Current(e, t, c) <=> Current(s, t, c))
  BY <1>2 DEF Members, Running, ChainSet, Ahead, Current
<1>6. \A t, c : (Clear(e, t, c) <=> Clear(s, t, c)) /\ (\A p : IsParent(e, p, t, c) <=> IsParent(s, p, t, c))
  BY <1>5 DEF Clear, IsParent
<1>7. Joined(e)  BY <1>1, <1>2, <1>4, <1>5 DEF Joined
<1>8. Counted(e)  BY <1>1, <1>2, <1>5 DEF Counted
<1>9. Pipelined(e)
  <2>1. \A c \in Chains : e.gen[c] >= 1  BY <1>1, <1>2 DEF Pipelined
  <2>2. ASSUME NEW c \in Chains, NEW t \in Members(e, c)
        PROVE  e.node[t][c] <= e.gen[c] /\ (Current(e, t, c) => e.state[t] = "Active" /\ Clear(e, t, c))
    <3>1. t \in Members(s, c) /\ (Current(e, t, c) <=> Current(s, t, c)) /\ (Clear(e, t, c) <=> Clear(s, t, c))
      BY <1>5, <1>6
    <3>. QED  BY <1>1, <1>2, <3>1 DEF Pipelined
  <2>. QED  BY ONLY <2>1, <2>2 DEF Pipelined
<1>10. Listed(e)  BY <1>1, <1>2, <1>3, <1>5 DEF Listed
<1>11. Tended(e, {})
  <2> SUFFICES ASSUME NEW t \in Tasks, Ready(e, t) PROVE Blocked(e, t)  BY DEF Tended
  <2>1. Ready(s, t)  BY <1>2, <1>5, <1>6 DEF Ready
  <2>2. Blocked(s, t)  BY <1>1, <2>1 DEF Tended
  <2>. QED  BY <1>2, <1>5, <2>2 DEF Blocked, HasRoom
<1>. QED  BY <1>2, <1>3, <1>5, <1>6, <1>7, <1>8, <1>9, <1>10, <1>11 DEF Settled, Good

FlushFrom(d, e) ==
  /\ e \in Views /\ e.s = [d.s EXCEPT !.pending = << >>] /\ e.answer = d.answer /\ e.total = d.total /\ e.owed = d.owed
  /\ \A t \in Tasks :
       IF t \in ToSet(d.s.pending)
       THEN e.at[t] = "session" /\ e.after[t] = ToSet(Parents(d.s, t)) /\ e.flood[t] = FALSE
       ELSE e.at[t] = d.at[t] /\ e.after[t] = d.after[t] /\ e.flood[t] = d.flood[t]

LEMMA FlushFields ==
  ASSUME NEW d, Sound(d), NEW e, e = Flush(d)
  PROVE  FlushFrom(d, e)
<1>1. d \in Views /\ Settled(d.s) /\ Joined(d.s)  BY DEF Sound, Settled, Good
<1>2. PICK out, s, at2, after2, flood2 :
        /\ out = ToSet(d.s.pending)
        /\ s = [d.s EXCEPT !.pending = << >>]
        /\ at2 = [t \in Tasks |-> IF t \notin out THEN d.at[t] ELSE IF d.at[t] = "node" THEN "session" ELSE "lost"]
        /\ after2 = [t \in Tasks |-> IF t \in out THEN ToSet(Parents(d.s, t)) ELSE d.after[t]]
        /\ flood2 = [t \in Tasks |-> d.flood[t] /\ t \notin out]
  OBVIOUS
<1>3. e = [d EXCEPT !.s = s, !.at = at2, !.after = after2, !.flood = flood2]
  <2>1. e = [d EXCEPT !.s.pending = << >>,
                !.at    = [t \in Tasks |-> IF t \notin out THEN @[t]
                                           ELSE IF @[t] = "node" THEN "session" ELSE "lost"],
                !.after = [t \in Tasks |-> IF t \in out THEN ToSet(Parents(d.s, t)) ELSE @[t]],
                !.flood = [t \in Tasks |-> @[t] /\ t \notin out]]
    BY <1>2 DEF Flush
  <2>. QED  BY ONLY <1>1, <1>2, <2>1 DEF Views
<1>4. \A t \in Tasks : t \in out => d.at[t] = "node"  BY <1>2 DEF Sound, Matches
<1>5. at2 \in [Tasks -> Places] /\ \A t \in Tasks : at2[t] = IF t \in out THEN "session" ELSE d.at[t]
  BY <1>1, <1>2, <1>4, ViewFields DEF Places
<1>6. after2 \in [Tasks -> SUBSET Tasks]
  <2>1. \A t \in Tasks : ToSet(Parents(d.s, t)) \subseteq Tasks  BY <1>1, ParentsAre
  <2>2. \A t \in Tasks : d.after[t] \subseteq Tasks  BY <1>1, ViewFields
  <2>. QED  BY <1>2, <2>1, <2>2
<1>7. flood2 \in [Tasks -> BOOLEAN]  BY <1>2
<1>8. s \in Schedulers  BY <1>1, <1>2, Emptied DEF Settled, Good, Joined
<1>9. e \in Views  BY <1>1, <1>3, <1>5, <1>6, <1>7, <1>8 DEF Views
<1>10. /\ e.s = s /\ e.answer = d.answer /\ e.total = d.total /\ e.owed = d.owed /\ e.at = at2 /\ e.after = after2
       /\ e.flood = flood2
  BY <1>1, <1>3 DEF Views
<1>11. \A t \in Tasks : flood2[t] = IF t \in out THEN FALSE ELSE d.flood[t]
  <2>1. \A t \in Tasks : d.flood[t] \in BOOLEAN  BY <1>1, ViewFields
  <2>. QED  BY <1>2, <2>1
<1>12. ASSUME NEW t \in Tasks
       PROVE  IF t \in ToSet(d.s.pending)
              THEN e.at[t] = "session" /\ e.after[t] = ToSet(Parents(d.s, t)) /\ e.flood[t] = FALSE
              ELSE e.at[t] = d.at[t] /\ e.after[t] = d.after[t] /\ e.flood[t] = d.flood[t]
  <2>1. /\ e.at[t] = IF t \in out THEN "session" ELSE d.at[t]
        /\ e.flood[t] = IF t \in out THEN FALSE ELSE d.flood[t]
    BY <1>5, <1>10, <1>11
  <2>2. e.after[t] = IF t \in out THEN ToSet(Parents(d.s, t)) ELSE d.after[t]  BY <1>2, <1>10
  <2>3. out = ToSet(d.s.pending)  BY <1>2
  <2>4. CASE t \in out  BY ONLY <2>1, <2>2, <2>3, <2>4
  <2>5. CASE t \notin out  BY ONLY <2>1, <2>2, <2>3, <2>5
  <2>. QED  BY <2>4, <2>5
<1>. QED  BY <1>2, <1>9, <1>10, <1>12 DEF FlushFrom

Flushed(d, e) ==
  /\ Sound(e) /\ Moves(d, e) /\ Debt(d, e) /\ e.s.pending = << >> /\ e.answer = d.answer
  /\ \A t \in Tasks : e.at[t] = d.at[t] \/ (d.at[t] = "node" /\ e.at[t] = "session")

LEMMA FlushIs ==
  ASSUME NEW d, Sound(d), NEW e, e = Flush(d)
  PROVE  Flushed(d, e)
<1>1. /\ d \in Views /\ Settled(d.s) /\ Joined(d.s) /\ Sequenced(d)
      /\ \A t \in Tasks : Matches(d, t) /\ Speaks(d, t)
  BY DEF Sound, Settled, Good
<1>2. /\ e \in Views /\ e.s = [d.s EXCEPT !.pending = << >>] /\ e.answer = d.answer /\ e.total = d.total /\ e.owed = d.owed
      /\ \A t \in Tasks : t \in ToSet(d.s.pending) =>
           e.at[t] = "session" /\ e.after[t] = ToSet(Parents(d.s, t)) /\ e.flood[t] = FALSE
      /\ \A t \in Tasks : t \notin ToSet(d.s.pending) =>
           e.at[t] = d.at[t] /\ e.after[t] = d.after[t] /\ e.flood[t] = d.flood[t]
  <2>1. FlushFrom(d, e)  BY FlushFields
  <2>. QED  BY <2>1 DEF FlushFrom
<1>3. /\ Settled(e.s) /\ e.s.state = d.s.state /\ e.s.pending = << >> /\ ToSet(e.s.pending) = {}
      /\ \A c, t : Members(e.s, c) = Members(d.s, c) /\ \A p : IsParent(e.s, p, t, c) <=> IsParent(d.s, p, t, c)
  BY <1>1, <1>2, Emptied
<1>4. \A t \in Tasks : t \in ToSet(d.s.pending) => d.at[t] = "node" /\ d.s.state[t] = "Active"
  BY <1>1 DEF Matches, Settled, Good, Listed
<1>5. ASSUME NEW t \in Tasks PROVE Matches(e, t) /\ Speaks(e, t)
  <2>1. Matches(d, t) /\ Speaks(d, t)  BY <1>1
  <2>2. CASE t \in ToSet(d.s.pending)
    <3>1. e.at[t] = "session" /\ d.at[t] = "node" /\ e.s.state[t] = "Active" /\ e.answer[t] = d.answer[t]
      BY <1>2, <1>3, <1>4, <2>2
    <3>2. Matches(e, t)  BY <1>3, <3>1 DEF Matches
    <3>. QED  BY <2>1, <3>1, <3>2 DEF Speaks
  <2>3. CASE t \notin ToSet(d.s.pending)
    <3>1. e.at[t] = d.at[t] /\ e.s.state[t] = d.s.state[t] /\ e.answer[t] = d.answer[t]  BY <1>2, <1>3, <2>3
    <3>2. Matches(e, t)  BY <1>3, <2>1, <2>3, <3>1 DEF Matches
    <3>. QED  BY <2>1, <3>1, <3>2 DEF Speaks
  <2>. QED  BY <2>2, <2>3
<1>6. ASSUME NEW t \in Tasks, e.at[t] \in {"session", "sent", "delayer"} PROVE Refers(e, t)
  <2>1. CASE t \in ToSet(d.s.pending)
    <3>1. \A c \in Chains : t \in Members(d.s, c) => \A p : IsParent(d.s, p, t, c) => p \in e.after[t]
      <4>1. \A c \in Chains : t \in Members(d.s, c) => c \in ChainSet(d.s, t)  BY <1>1, MemberIs
      <4>2. e.after[t] = ToSet(Parents(d.s, t))  BY <1>2, <2>1
      <4>3. \A c \in ChainSet(d.s, t) : \A p : IsParent(d.s, p, t, c) => p \in ToSet(Parents(d.s, t))
        BY <1>1, ParentsAre
      <4>. QED  BY <4>1, <4>2, <4>3
    <3>. QED  BY <1>3, <3>1 DEF Refers
  <2>2. CASE t \notin ToSet(d.s.pending)
    <3>1. e.at[t] = d.at[t] /\ e.after[t] = d.after[t]  BY <1>2, <2>2
    <3>2. Refers(d, t)  BY <1>6, <3>1 DEF Sound
    <3>3. \A p \in d.after[t] : d.at[p] = "gone" => e.at[p] = "gone"
      <4>1. d.after[t] \subseteq Tasks  BY <1>1, ViewFields
      <4>. QED  BY <1>2, <1>4, <4>1
    <3>. QED  BY <1>3, <3>1, <3>2, <3>3 DEF Refers
  <2>. QED  BY <2>1, <2>2
<1>7. \A t \in Tasks : e.at[t] = "new" <=> d.at[t] = "new"  BY <1>2, <1>4
<1>8. Sequenced(e)  BY <1>1, <1>7 DEF Sequenced
<1>9. Sound(e)  BY <1>2, <1>3, <1>5, <1>6, <1>8 DEF Sound
<1>10. \A t \in Tasks : e.at[t] = d.at[t] \/ (d.at[t] = "node" /\ e.at[t] = "session")  BY <1>2, <1>4
<1>11. Moves(d, e)
  <2>1. \A t \in Tasks : Stays(d, e, t)  BY <1>2, <1>10 DEF Stays
  <2>. QED  BY <1>3, <2>1 DEF Moves
<1>12. Debt(d, e)
  <2>1. Debt(d, d)  BY <1>1, Same
  <2>. QED  BY <1>2, <2>1 DEF Debt
<1>. QED  BY <1>2, <1>3, <1>9, <1>10, <1>11, <1>12 DEF Flushed

(* Finish *)
LEMMA Ends ==
  ASSUME NEW d, Sound(d), NEW t \in Tasks, t \notin ToSet(d.s.pending), d.at[t] \notin {"new", "sent", "gone"},
         NEW e, e = Finish(d, t)
  PROVE  /\ Sound(e) /\ Moves(d, e) /\ Debt(d, e) /\ e.s.pending = << >> /\ e.answer = d.answer
         /\ \A u \in Tasks : u # t => e.at[u] = d.at[u] \/ (d.at[u] = "node" /\ e.at[u] = "session")
<1>1. d \in Views /\ Settled(d.s)  BY DEF Sound
<1>2. PICK s : s = FinishTask(d.s, t)  OBVIOUS
<1>3. /\ Settled(s) /\ Shifts(d.s, t, s) /\ \A c \in Chains : t \notin Members(s, c)
      /\ s.state[t] = "None" /\ t \notin ToSet(s.pending)
  BY <1>1, <1>2, FinishedIs
<1>4. s \in Schedulers  BY <1>3 DEF Settled, Good, Joined
<1>5. PICK f : f = [d EXCEPT !.s = s, !.at[t] = "gone", !.after[t] = {}, !.owed[t] = 0, !.flood[t] = FALSE]
  OBVIOUS
<1>6. e = Flush(f)  BY <1>2, <1>5 DEF Finish
<1>7. PICK at2, after2, owed2, flood2 :
        /\ at2 = [d.at EXCEPT ![t] = "gone"] /\ after2 = [d.after EXCEPT ![t] = {}]
        /\ owed2 = [d.owed EXCEPT ![t] = 0] /\ flood2 = [d.flood EXCEPT ![t] = FALSE]
  OBVIOUS
<1>8. /\ at2 \in [Tasks -> Places] /\ after2 \in [Tasks -> SUBSET Tasks] /\ owed2 \in [Tasks -> Nat]
      /\ flood2 \in [Tasks -> BOOLEAN]
      /\ at2[t] = "gone" /\ owed2[t] = 0 /\ flood2[t] = FALSE
      /\ \A u \in Tasks : u # t => at2[u] = d.at[u] /\ after2[u] = d.after[u] /\ owed2[u] = d.owed[u] /\ flood2[u] = d.flood[u]
  <2>1. at2 \in [Tasks -> Places] /\ at2[t] = "gone" /\ \A u \in Tasks : u # t => at2[u] = d.at[u]
    BY <1>1, <1>7, ViewFields DEF Places
  <2>2. after2 \in [Tasks -> SUBSET Tasks] /\ \A u \in Tasks : u # t => after2[u] = d.after[u]
    BY <1>1, <1>7, ViewFields
  <2>3. owed2 \in [Tasks -> Nat] /\ owed2[t] = 0 /\ \A u \in Tasks : u # t => owed2[u] = d.owed[u]
    <3>1. 0 \in Nat  OBVIOUS
    <3>. QED  BY <1>1, <1>7, <3>1, ViewFields
  <2>4. flood2 \in [Tasks -> BOOLEAN] /\ flood2[t] = FALSE /\ \A u \in Tasks : u # t => flood2[u] = d.flood[u]
    BY <1>1, <1>7, ViewFields
  <2>. QED  BY <2>1, <2>2, <2>3, <2>4
<1>9. f = [d EXCEPT !.s = s, !.at = at2, !.after = after2, !.owed = owed2, !.flood = flood2]
  BY ONLY <1>1, <1>5, <1>7 DEF Views
<1>10. /\ f.s = s /\ f.at = at2 /\ f.after = after2 /\ f.owed = owed2 /\ f.flood = flood2 /\ f.answer = d.answer
       /\ f.total = d.total
  BY <1>1, <1>9 DEF Views
<1>11. f \in Views  BY <1>1, <1>4, <1>8, <1>9 DEF Views
<1>12. Changes(d, t, f)
  <2>1. Matches(f, t)  BY <1>3, <1>8, <1>10 DEF Matches
  <2>2. \A u \in Tasks : u # t => f.at[u] = d.at[u] /\ f.answer[u] = d.answer[u] /\ f.after[u] = d.after[u]
    BY <1>8, <1>10
  <2>. QED  BY <1>3, <1>8, <1>10, <2>1, <2>2 DEF Changes
<1>13. Sound(f) /\ Moves(d, f)  BY <1>11, <1>12, Carried
<1>14. Debt(d, f)
  <2> SUFFICES ASSUME NEW u \in Tasks
               PROVE  /\ f.total[u] + f.owed[u] <= d.total[u] + d.owed[u]
                      /\ f.flood[u] => d.flood[u]
                      /\ f.answer[u] = "flood" => d.answer[u] = "flood"
    BY DEF Debt
  <2>1. f.flood[u] => d.flood[u]  BY <1>8, <1>10
  <2>2. PICK a \in Nat, b \in Nat, o \in Nat : a = d.total[u] /\ b = d.owed[u] /\ o = f.owed[u]
    BY <1>1, <1>11, ViewFields
  <2>3. o = 0 \/ o = b  BY <1>8, <1>10, <2>2
  <2>4. a + o <= a + b  BY <2>3
  <2>. QED  BY <1>10, <2>1, <2>2, <2>4
<1>15. Flushed(f, e)  BY <1>6, <1>13, FlushIs
<1>16. /\ Sound(e) /\ Moves(f, e) /\ Debt(f, e) /\ e.s.pending = << >> /\ e.answer = f.answer /\ e \in Views
       /\ \A u \in Tasks : e.at[u] = f.at[u] \/ (f.at[u] = "node" /\ e.at[u] = "session")
  BY <1>15 DEF Flushed, Sound
<1>17. Moves(d, e)  BY <1>13, <1>16, MovesTransitive
<1>18. Debt(d, e)  BY <1>1, <1>11, <1>14, <1>16, DebtTransitive
<1>19. \A u \in Tasks : u # t => e.at[u] = d.at[u] \/ (d.at[u] = "node" /\ e.at[u] = "session")
  BY <1>8, <1>10, <1>16
<1>. QED  BY <1>10, <1>16, <1>17, <1>18, <1>19

(* check_timeout *)
Charges0(d, t, e) ==
  /\ e \in Views /\ e.s = d.s /\ e.at = d.at /\ e.after = d.after /\ e.answer = d.answer /\ e.flood = d.flood
  /\ \A u \in Tasks : e.total[u] + e.owed[u] = d.total[u] + d.owed[u]

LEMMA ChargedIs ==
  ASSUME NEW d \in Views, NEW t \in Tasks, NEW e, e = Charged(d, t)
  PROVE  Charges0(d, t, e)
<1>1. CASE d.at[t] # "node"  BY <1>1 DEF Charged, Charges0
<1>2. CASE d.at[t] = "node"
  <2>1. PICK total2, owed2 : total2 = [d.total EXCEPT ![t] = @ + d.owed[t]] /\ owed2 = [d.owed EXCEPT ![t] = 0]
    OBVIOUS
  <2>2. e = [d EXCEPT !.total = total2, !.owed = owed2]
    <3>1. e = [d EXCEPT !.total[t] = @ + d.owed[t], !.owed[t] = 0]  BY <1>2 DEF Charged
    <3>. QED  BY ONLY <2>1, <3>1, d \in Views DEF Views
  <2>3. PICK a \in Nat, b \in Nat : a = d.total[t] /\ b = d.owed[t]  BY ViewFields
  <2>4. total2[t] = a + b /\ owed2[t] = 0 /\ \A u \in Tasks : u # t => total2[u] = d.total[u] /\ owed2[u] = d.owed[u]
    BY <2>1, <2>3, ViewFields
  <2>5. total2 \in [Tasks -> Nat] /\ owed2 \in [Tasks -> Nat]
    <3>1. a + b \in Nat /\ 0 \in Nat  BY <2>3
    <3>2. total2 = [d.total EXCEPT ![t] = a + b]  BY <2>1, <2>3
    <3>. QED  BY <2>1, <3>1, <3>2, ViewFields
  <2>6. e \in Views  BY <2>2, <2>5 DEF Views
  <2>7. /\ e.total = total2 /\ e.owed = owed2 /\ e.s = d.s /\ e.at = d.at /\ e.after = d.after
        /\ e.answer = d.answer /\ e.flood = d.flood
    BY <2>2 DEF Views
  <2>8. ASSUME NEW u \in Tasks PROVE e.total[u] + e.owed[u] = d.total[u] + d.owed[u]
    <3>1. (a + b) + 0 = a + b  BY <2>3
    <3>. QED  BY <2>3, <2>4, <2>7, <3>1
  <2>. QED  BY <2>6, <2>7, <2>8 DEF Charges0
<1>. QED  BY <1>1, <1>2

LEMMA ChargedSound ==
  ASSUME NEW d, Sound(d), NEW t \in Tasks, NEW e, e = Charged(d, t)
  PROVE  Sound(e) /\ Moves(d, e) /\ Debt(d, e) /\ e.s = d.s /\ e.at = d.at /\ e.answer = d.answer
<1>1. d \in Views  BY DEF Sound
<1>2. Charges0(d, t, e)  BY <1>1, ChargedIs
<1>3. /\ e \in Views /\ e.s = d.s /\ e.at = d.at /\ e.after = d.after /\ e.answer = d.answer /\ e.flood = d.flood
      /\ \A u \in Tasks : e.total[u] + e.owed[u] = d.total[u] + d.owed[u]
  BY <1>2 DEF Charges0
<1>4. Debt(d, e)
  <2>1. Debt(d, d)  BY <1>1, Same
  <2>. QED  BY <1>3, <2>1 DEF Debt
<1>5. Moves(d, e)
  <2>1. \A u \in Tasks : Stays(d, e, u)  BY <1>3 DEF Stays
  <2>. QED  BY <1>3, <2>1 DEF Moves
<1>6. Sound(e)
  <2>1. \A u \in Tasks : (Matches(d, u) <=> Matches(e, u)) /\ (Speaks(d, u) <=> Speaks(e, u)) /\ (Refers(d, u) <=> Refers(e, u))
    BY <1>3 DEF Matches, Speaks, Refers
  <2>2. Sequenced(e)  BY <1>3 DEF Sound, Sequenced
  <2>. QED  BY <1>3, <2>1, <2>2 DEF Sound
<1>. QED  BY <1>3, <1>4, <1>5, <1>6

(* A query that has waited too long is paused and becomes its owner's.        *)
Own(d, t) == [Charged(d, t) EXCEPT !.s = PauseTask(d.s, t), !.answer[t] = "error", !.at[t] = "owner"]

LEMMA ExpireIs ==
  ASSUME NEW d \in Views, NEW t \in Tasks
  PROVE  Expire(d, t) = IF t \in Resendable THEN Own(d, t) ELSE Finish(Own(d, t), t)
<1>1. PICK f, s : f = Charged(d, t) /\ s = PauseTask(d.s, t)  OBVIOUS
<1>2. f \in Views  BY <1>1, ChargedIs DEF Charges0
<1>3. PICK x : x = [f EXCEPT !.s = s, !.answer[t] = "error"]  OBVIOUS
<1>4. PICK y : y = [f EXCEPT !.s = s, !.answer[t] = "error", !.at[t] = "owner"]  OBVIOUS
<1>5. Expire(d, t) = TryResend(x, t) /\ Own(d, t) = y  BY <1>1, <1>3, <1>4 DEF Expire, Own
<1>6. y = [x EXCEPT !.at[t] = "owner"]  BY <1>2, <1>3, <1>4 DEF Views
<1>7. Finish(x, t) = Finish(y, t)
  <2>1. x.s = y.s /\ x.s = s  BY <1>2, <1>3, <1>4 DEF Views
  <2>2. PICK z : z = FinishTask(s, t)  OBVIOUS
  <2>3. [x EXCEPT !.s = z, !.at[t] = "gone", !.after[t] = {}, !.owed[t] = 0, !.flood[t] = FALSE]
        = [y EXCEPT !.s = z, !.at[t] = "gone", !.after[t] = {}, !.owed[t] = 0, !.flood[t] = FALSE]
    <3>1. PICK a, b, c, g, w :
            /\ a = [f.at EXCEPT ![t] = "gone"] /\ b = [f.after EXCEPT ![t] = {}] /\ c = [f.owed EXCEPT ![t] = 0]
            /\ g = [f.flood EXCEPT ![t] = FALSE] /\ w = [f.answer EXCEPT ![t] = "error"]
      OBVIOUS
    <3>2. PICK o : o = [f.at EXCEPT ![t] = "owner"]  OBVIOUS
    <3>3. a = [o EXCEPT ![t] = "gone"]
      <4>1. PICK at0 : at0 = f.at /\ at0 \in [Tasks -> Places]  BY <1>2, ViewFields
      <4>2. [at0 EXCEPT ![t] = "gone"] = [[at0 EXCEPT ![t] = "owner"] EXCEPT ![t] = "gone"]  BY <4>1
      <4>. QED  BY ONLY <3>1, <3>2, <4>1, <4>2
    <3>4. x = [f EXCEPT !.s = s, !.answer = w] /\ y = [f EXCEPT !.s = s, !.answer = w, !.at = o]
      BY ONLY <1>2, <1>3, <1>4, <3>1, <3>2 DEF Views
    <3>5. PICK end : end = [f EXCEPT !.s = z, !.answer = w, !.at = a, !.after = b, !.owed = c, !.flood = g]
      OBVIOUS
    <3>6. [x EXCEPT !.s = z, !.at[t] = "gone", !.after[t] = {}, !.owed[t] = 0, !.flood[t] = FALSE] = end
      BY ONLY <1>2, <3>1, <3>4, <3>5 DEF Views
    <3>7. [y EXCEPT !.s = z, !.at[t] = "gone", !.after[t] = {}, !.owed[t] = 0, !.flood[t] = FALSE] = end
      BY ONLY <1>2, <3>1, <3>3, <3>4, <3>5 DEF Views
    <3>. QED  BY <3>6, <3>7
  <2>. QED  BY <2>1, <2>2, <2>3 DEF Finish
<1>. QED  BY <1>5, <1>6, <1>7 DEF TryResend

OwnFrom(x, t, s, e) ==
  /\ e \in Views /\ e.s = s /\ e.after = x.after /\ e.flood = x.flood
  /\ e.at[t] = "owner" /\ e.answer[t] = "error"
  /\ \A u \in Tasks : u # t => e.at[u] = x.at[u] /\ e.answer[u] = x.answer[u]
  /\ \A u \in Tasks : e.total[u] + e.owed[u] = x.total[u] + x.owed[u]

LEMMA OwnFields ==
  ASSUME NEW x \in Views, NEW t \in Tasks, NEW s \in Schedulers, s = PauseTask(x.s, t), NEW e, e = Own(x, t)
  PROVE  OwnFrom(x, t, s, e)
<1>1. PICK f : f = Charged(x, t)  OBVIOUS
<1>2. /\ f \in Views /\ f.s = x.s /\ f.at = x.at /\ f.after = x.after /\ f.answer = x.answer /\ f.flood = x.flood
      /\ \A u \in Tasks : f.total[u] + f.owed[u] = x.total[u] + x.owed[u]
  BY <1>1, ChargedIs DEF Charges0
<1>3. PICK at2, answer2 : at2 = [f.at EXCEPT ![t] = "owner"] /\ answer2 = [f.answer EXCEPT ![t] = "error"]
  OBVIOUS
<1>4. at2 \in [Tasks -> Places] /\ at2[t] = "owner" /\ \A u \in Tasks : u # t => at2[u] = f.at[u]
  BY <1>2, <1>3, ViewFields DEF Places
<1>5. /\ answer2 \in [Tasks -> {"none", "ok", "error", "wait", "flood"}] /\ answer2[t] = "error"
      /\ \A u \in Tasks : u # t => answer2[u] = f.answer[u]
  BY <1>2, <1>3, ViewFields
<1>6. e = [f EXCEPT !.s = s, !.answer = answer2, !.at = at2]
  <2>1. e = [f EXCEPT !.s = s, !.answer[t] = "error", !.at[t] = "owner"]  BY <1>1 DEF Own
  <2>. QED  BY ONLY <1>2, <1>3, <2>1 DEF Views
<1>7. e \in Views  BY <1>2, <1>4, <1>5, <1>6 DEF Views
<1>8. /\ e.s = s /\ e.after = f.after /\ e.flood = f.flood /\ e.at = at2 /\ e.answer = answer2
      /\ e.total = f.total /\ e.owed = f.owed
  BY <1>2, <1>6 DEF Views
<1>. QED  BY <1>2, <1>4, <1>5, <1>7, <1>8 DEF OwnFrom

(* x is d, or d with the query back at its node.                              *)
HeldFrom(d, t, x) ==
  /\ x \in Views /\ x.s = d.s /\ x.after = d.after /\ x.flood = d.flood /\ x.total = d.total /\ x.owed = d.owed
  /\ \A u \in Tasks : u # t => x.at[u] = d.at[u] /\ x.answer[u] = d.answer[u]

Calm(d, e, t) ==
  \A u \in Tasks : u # t => /\ e.at[u] = d.at[u] \/ (d.at[u] = "node" /\ e.at[u] = "session")
                            /\ e.answer[u] = d.answer[u]

LEMMA Owned ==
  ASSUME NEW d, Sound(d), NEW t \in Tasks, t \notin ToSet(d.s.pending), d.at[t] \in {"node", "answered", "resend"},
         d.answer[t] # "ok", NEW x, HeldFrom(d, t, x), NEW e, e = Own(x, t)
  PROVE  /\ Sound(e) /\ Moves(d, e) /\ Debt(d, e) /\ e.at[t] = "owner" /\ t \notin ToSet(e.s.pending) /\ Calm(d, e, t)
         /\ d.s.state[t] # "Active" => e.s.pending = d.s.pending
<1>1. d \in Views /\ Settled(d.s) /\ Matches(d, t)  BY DEF Sound
<1>2. /\ x \in Views /\ x.s = d.s /\ x.after = d.after /\ x.flood = d.flood /\ x.total = d.total /\ x.owed = d.owed
      /\ \A u \in Tasks : u # t => x.at[u] = d.at[u] /\ x.answer[u] = d.answer[u]
  BY DEF HeldFrom
<1>3. d.s.state[t] # "None"  BY <1>1 DEF Matches
<1>4. PICK s : s = PauseTask(d.s, t)  OBVIOUS
<1>5. /\ Settled(s) /\ Shifts(d.s, t, s) /\ s.chain = d.s.chain
      /\ s.state[t] = "Paused" /\ t \notin ToSet(s.pending)
      /\ d.s.state[t] # "Active" => s.pending = d.s.pending
  BY <1>1, <1>3, <1>4, PauseIs
<1>6. s \in Schedulers  BY <1>5 DEF Settled, Good, Joined
<1>7. /\ e \in Views /\ e.s = s /\ e.after = x.after /\ e.flood = x.flood
      /\ e.at[t] = "owner" /\ e.answer[t] = "error"
      /\ \A u \in Tasks : u # t => e.at[u] = x.at[u] /\ e.answer[u] = x.answer[u]
      /\ \A u \in Tasks : e.total[u] + e.owed[u] = x.total[u] + x.owed[u]
  <2>1. OwnFrom(x, t, s, e)  BY <1>2, <1>4, <1>6, OwnFields
  <2>. QED  BY <2>1 DEF OwnFrom
<1>8. Changes(d, t, e)
  <2>1. Matches(e, t)  BY <1>5, <1>7 DEF Matches
  <2>2. \A c : Members(e.s, c) = Members(d.s, c)  BY <1>5, <1>7 DEF Members
  <2>3. \A u \in Tasks : u # t => e.at[u] = d.at[u] /\ e.answer[u] = d.answer[u] /\ e.after[u] = d.after[u]
    BY <1>2, <1>7
  <2>. QED  BY <1>5, <1>7, <2>1, <2>2, <2>3 DEF Changes
<1>9. Sound(e) /\ Moves(d, e)  BY <1>7, <1>8, Carried
<1>10. Debt(d, e)
  <2>1. Debt(d, d)  BY <1>1, Same
  <2>. QED  BY <1>2, <1>7, <2>1 DEF Debt
<1>11. Calm(d, e, t)  BY <1>2, <1>7 DEF Calm
<1>. QED  BY <1>5, <1>7, <1>9, <1>10, <1>11

(* Expire *)
LEMMA Expired ==
  ASSUME NEW d, Sound(d), NEW t \in Tasks, t \notin ToSet(d.s.pending), d.at[t] \in {"node", "answered", "resend"},
         d.answer[t] # "ok", NEW x, HeldFrom(d, t, x), NEW e, e = Expire(x, t)
  PROVE  /\ Sound(e) /\ Moves(d, e) /\ Debt(d, e) /\ Calm(d, e, t)
         /\ d.s.state[t] # "Active" /\ d.s.pending = << >> => e.s.pending = << >>
<1>1. x \in Views /\ d \in Views  BY DEF HeldFrom, Sound
<1>2. PICK y : y = Own(x, t)  OBVIOUS
<1>3. /\ Sound(y) /\ Moves(d, y) /\ Debt(d, y) /\ y.at[t] = "owner" /\ t \notin ToSet(y.s.pending) /\ Calm(d, y, t)
      /\ d.s.state[t] # "Active" => y.s.pending = d.s.pending
  BY <1>2, Owned
<1>4. Expire(x, t) = IF t \in Resendable THEN y ELSE Finish(y, t)  BY <1>1, <1>2, ExpireIs
<1>5. CASE t \in Resendable
  <2>1. e = y  BY <1>4, <1>5
  <2>. QED  BY <1>3, <2>1
<1>6. CASE t \notin Resendable
  <2>1. e = Finish(y, t)  BY <1>4, <1>6
  <2>2. /\ Sound(e) /\ Moves(y, e) /\ Debt(y, e) /\ e.s.pending = << >> /\ e.answer = y.answer
        /\ \A u \in Tasks : u # t => e.at[u] = y.at[u] \/ (y.at[u] = "node" /\ e.at[u] = "session")
    BY <1>3, <2>1, Ends
  <2>3. Moves(d, e)  BY <1>3, <2>2, MovesTransitive
  <2>4. Debt(d, e)
    <3>1. y \in Views /\ e \in Views  BY <1>3, <2>2 DEF Sound
    <3>. QED  BY <1>1, <1>3, <2>2, <3>1, DebtTransitive
  <2>5. Calm(d, e, t)  BY <1>3, <2>2 DEF Calm
  <2>. QED  BY <2>2, <2>3, <2>4, <2>5
<1>. QED  BY <1>5, <1>6

LEMMA SameOrder ==
  ASSUME NEW d, Sound(d), NEW e \in Views, e.s = d.s, e.at = d.at, e.after = d.after, e.answer = d.answer
  PROVE  Sound(e) /\ Moves(d, e)
<1>1. Moves(d, e)
  <2>1. \A u \in Tasks : Stays(d, e, u)  BY DEF Stays
  <2>. QED  BY <2>1 DEF Moves
<1>2. \A u \in Tasks : (Matches(d, u) <=> Matches(e, u)) /\ (Speaks(d, u) <=> Speaks(e, u)) /\ (Refers(d, u) <=> Refers(e, u))
  BY DEF Matches, Speaks, Refers
<1>3. Sequenced(e)  BY DEF Sound, Sequenced
<1>. QED  BY <1>1, <1>2, <1>3 DEF Sound

(* One dependent is charged: it may time out, which ends it or hands it to    *)
(* its owner; nothing else is disturbed, for its task was not active.         *)
Keeps(d, e) ==
  \A u \in Tasks : d.at[u] # "node" => e.at[u] = d.at[u] /\ e.answer[u] = d.answer[u]

LEMMA ChargeIs ==
  ASSUME NEW d, Sound(d), d.s.pending = << >>, NEW t \in Tasks, NEW e, e = Charge(d, t)
  PROVE  Sound(e) /\ Moves(d, e) /\ Debt(d, e) /\ Keeps(d, e) /\ e.s.pending = << >>
<1>1. CASE TimedOut(d, t)
  <2>1. d.at[t] = "node"  BY <1>1 DEF TimedOut
  <2>2. ToSet(d.s.pending) = {}  BY DEF ToSet
  <2>3. /\ d \in Views /\ Matches(d, t) /\ Speaks(d, t)
    BY DEF Sound
  <2>4. d.s.state[t] # "Active" /\ d.answer[t] # "ok"  BY <2>1, <2>2, <2>3 DEF Matches, Speaks
  <2>5. HeldFrom(d, t, d)  BY <2>3 DEF HeldFrom
  <2>6. e = Expire(d, t)  BY <1>1 DEF Charge
  <2>7. Sound(e) /\ Moves(d, e) /\ Debt(d, e) /\ Calm(d, e, t) /\ e.s.pending = << >>
    <3>1. Sound(d) /\ t \notin ToSet(d.s.pending) /\ d.at[t] \in {"node", "answered", "resend"}  BY <2>1, <2>2
    <3>. QED  BY <2>4, <2>5, <2>6, <3>1, Expired
  <2>8. Keeps(d, e)  BY <2>1, <2>7 DEF Calm, Keeps
  <2>. QED  BY <2>7, <2>8
<1>2. CASE ~TimedOut(d, t)
  <2>1. e = Charged(d, t)  BY <1>2 DEF Charge
  <2>2. Sound(e) /\ Moves(d, e) /\ Debt(d, e) /\ e.s = d.s /\ e.at = d.at /\ e.answer = d.answer  BY <2>1, ChargedSound
  <2>. QED  BY <2>2 DEF Keeps
<1>. QED  BY <1>1, <1>2

LEMMA DependentsAre ==
  ASSUME NEW s, Joined(s), NEW t \in Tasks
  PROVE  Dependents(s, t) \in Seq(Tasks)
<1> DEFINE Behind(c) == SubSeq(s.chain[c], Place(s, t, c), Len(s.chain[c]))
           parts == [i \in 1 .. Len(s.chains[t]) |-> Behind(s.chains[t][i])]
           First(all, i)  == \A j \in 1 .. i - 1 : all[j] # all[i]
           Firsts(all) == [i \in 1 .. Len(all) |-> IF First(all, i) THEN <<all[i]>> ELSE <<>>]
<1>1. Dependents(s, t) = FlattenSeq(Firsts(FlattenSeq(parts)))  BY DEF Dependents
<1>2. ASSUME NEW c \in Chains, t \in Members(s, c) PROVE Behind(c) \in Seq(Tasks)
  <2>1. PICK us, k : us = s.chain[c] /\ k = Place(s, t, c) /\ us \in Seq(Tasks) /\ k \in 1 .. Len(us)  BY <1>2, PlaceIs
  <2>2. SubSeq(us, k, Len(us)) \in Seq(Tasks)
    <3>1. \A i \in k .. Len(us) : us[i] \in Tasks  BY <2>1
    <3>. QED  BY <2>1, <3>1
  <2>. QED  BY <2>1, <2>2
<1>3. parts \in Seq(Seq(Tasks))
  <2>1. Len(s.chains[t]) \in Nat /\ \A i \in 1 .. Len(s.chains[t]) : s.chains[t][i] \in Chains /\ t \in Members(s, s.chains[t][i])
    BY ChainsOf
  <2>2. parts \in [1 .. Len(s.chains[t]) -> Seq(Tasks)]  BY <1>2, <2>1
  <2>. QED  BY <2>1, <2>2
<1>. HIDE DEF parts
<1>4. PICK all \in Seq(Tasks) : all = FlattenSeq(parts)  BY <1>3, Flattened
<1>5. Firsts(all) \in Seq(Seq(Tasks))
  <2>1. \A i \in 1 .. Len(all) : <<all[i]>> \in Seq(Tasks) /\ << >> \in Seq(Tasks)  OBVIOUS
  <2>2. Firsts(all) \in [1 .. Len(all) -> Seq(Tasks)]  BY <2>1
  <2>. QED  BY <2>2
<1>. HIDE DEF Firsts
<1>. QED  BY <1>1, <1>4, <1>5, Flattened

Chargeable(d, us) == FoldLeft(Charge, d, us)

LEMMA ChargingAppend ==
  ASSUME NEW d
  PROVE  /\ Chargeable(d, << >>) = d
         /\ \A us \in Seq(Tasks), u \in Tasks : Chargeable(d, Append(us, u)) = Charge(Chargeable(d, us), u)
<1>1. \A us : Chargeable(d, us) = Charging!FoldOf(0, d, us)
  BY DEF Chargeable, FoldLeft, Charging!FoldOf, MapThenFoldSet, Charging!MapThenFoldSet, Charges, Largest
<1>2. /\ Charging!FoldOf(0, d, << >>) = d
      /\ \A us \in Seq(Tasks), u \in Tasks :
           Charging!FoldOf(0, d, Append(us, u)) = Charges(0, u, Charging!FoldOf(0, d, us))
  <2>1. Charging!PicksLargest
    <3>1. \A n \in Nat : \A s \in SUBSET (1 .. n) : s # {} => Charging!Max(s) \in s /\ \A y \in s : Charging!Max(s) >= y
      BY Charging!MaxIs
    <3>2. \A s : Charging!Max(s) = Largest(s)  BY DEF Charging!Max, Max, Largest
    <3>. QED  BY <3>1, <3>2 DEF Charging!PicksLargest
  <2>. QED  BY <2>1, Charging!FoldAppend
<1>. QED  BY <1>1, <1>2 DEF Charges

LEMMA AllCharged ==
  ASSUME NEW d, Sound(d), d.s.pending = << >>, NEW t \in Tasks, d.at[t] # "node", NEW us \in Seq(Tasks),
         NEW e, e = Chargeable(d, us)
  PROVE  Sound(e) /\ Moves(d, e) /\ Debt(d, e) /\ e.s.pending = << >> /\ e.at[t] = d.at[t] /\ e.answer[t] = d.answer[t]
<1> DEFINE P(f) == Sound(f) /\ Moves(d, f) /\ Debt(d, f) /\ f.s.pending = << >> /\ f.at[t] = d.at[t] /\ f.answer[t] = d.answer[t]
           T == {vs \in Seq(Tasks) : P(Chargeable(d, vs))}
<1>1. << >> \in T
  <2>1. Debt(d, d)  BY Same DEF Sound
  <2>2. Moves(d, d)  BY SameOrder DEF Sound
  <2>3. Chargeable(d, << >>) = d /\ << >> \in Seq(Tasks)  BY ChargingAppend
  <2>. QED  BY <2>1, <2>2, <2>3
<1>2. ASSUME NEW vs \in Seq(Tasks), NEW u \in Tasks, vs \in T PROVE Append(vs, u) \in T
  <2>1. PICK f : f = Chargeable(d, vs)  OBVIOUS
  <2>2. /\ Sound(f) /\ Moves(d, f) /\ Debt(d, f) /\ f.s.pending = << >> /\ f.at[t] = d.at[t] /\ f.answer[t] = d.answer[t]
    BY <1>2, <2>1
  <2>3. PICK g : g = Charge(f, u) /\ g = Chargeable(d, Append(vs, u))  BY <2>1, ChargingAppend
  <2>4. Sound(g) /\ Moves(f, g) /\ Debt(f, g) /\ Keeps(f, g) /\ g.s.pending = << >>  BY <2>2, <2>3, ChargeIs
  <2>5. Moves(d, g)  BY <2>2, <2>4, MovesTransitive
  <2>6. Debt(d, g)
    <3>1. d \in Views /\ f \in Views /\ g \in Views  BY <2>2, <2>4 DEF Sound
    <3>. QED  BY <2>2, <2>4, <3>1, DebtTransitive
  <2>7. g.at[t] = d.at[t] /\ g.answer[t] = d.answer[t]  BY <2>2, <2>4 DEF Keeps
  <2>8. P(g)  BY <2>4, <2>5, <2>6, <2>7
  <2>9. Append(vs, u) \in Seq(Tasks)  OBVIOUS
  <2>. QED  BY <2>3, <2>8, <2>9
<1>. HIDE DEF T
<1>3. Seq(Tasks) \subseteq T  BY <1>1, <1>2, Charging!InductionOnSequences
<1>4. P(e)  BY <1>3 DEF T
<1>. QED  BY <1>4

(* on_result: what follows the query owes its flood wait.                     *)
Owing(d, t) ==
  [d EXCEPT !.flood[t] = FALSE,
            !.owed = [u \in Tasks |-> IF u \in ToSet(Dependents(d.s, t)) \ {t} THEN @[u] + 1 ELSE @[u]]]

OwesFrom(d, t, e) ==
  /\ e \in Views /\ e.s = d.s /\ e.at = d.at /\ e.after = d.after /\ e.answer = d.answer /\ e.total = d.total
  /\ e.flood[t] = FALSE /\ \A u \in Tasks : u # t => e.flood[u] = d.flood[u]
  /\ e.owed[t] = d.owed[t] /\ \A u \in Tasks : e.owed[u] \in {d.owed[u], d.owed[u] + 1}

LEMMA OwingFields ==
  ASSUME NEW d \in Views, NEW t \in Tasks, NEW e, e = Owing(d, t)
  PROVE  OwesFrom(d, t, e)
<1>1. PICK late, flood2, owed2 :
        /\ late = ToSet(Dependents(d.s, t)) \ {t}
        /\ flood2 = [d.flood EXCEPT ![t] = FALSE]
        /\ owed2 = [u \in Tasks |-> IF u \in late THEN d.owed[u] + 1 ELSE d.owed[u]]
  OBVIOUS
<1>2. e = [d EXCEPT !.flood = flood2, !.owed = owed2]
  <2>1. e = [d EXCEPT !.flood[t] = FALSE, !.owed = [u \in Tasks |-> IF u \in late THEN @[u] + 1 ELSE @[u]]]
    BY <1>1 DEF Owing
  <2>. QED  BY ONLY d \in Views, <1>1, <2>1 DEF Views
<1>3. flood2 \in [Tasks -> BOOLEAN] /\ flood2[t] = FALSE /\ \A u \in Tasks : u # t => flood2[u] = d.flood[u]
  BY <1>1, ViewFields
<1>4. owed2 \in [Tasks -> Nat]
  <2>1. \A u \in Tasks : d.owed[u] \in Nat /\ d.owed[u] + 1 \in Nat
    <3>1. \A u \in Tasks : d.owed[u] \in Nat  BY ViewFields
    <3>. QED  BY <3>1
  <2>. QED  BY <1>1, <2>1
<1>5. owed2[t] = d.owed[t] /\ \A u \in Tasks : owed2[u] \in {d.owed[u], d.owed[u] + 1}
  <2>1. t \notin late  BY <1>1
  <2>. QED  BY <1>1, <2>1
<1>6. e \in Views  BY <1>2, <1>3, <1>4 DEF Views
<1>7. /\ e.s = d.s /\ e.at = d.at /\ e.after = d.after /\ e.answer = d.answer /\ e.total = d.total
      /\ e.flood = flood2 /\ e.owed = owed2
  BY <1>2 DEF Views
<1>. QED  BY <1>3, <1>5, <1>6, <1>7 DEF OwesFrom

(* What the query's flood wait costs: nothing new, or one wait for each of    *)
(* the others in place of its own.                                            *)
Costs(d, t, e) ==
  \/ Debt(d, e)
  \/ d.flood[t] /\ \E f : OwesFrom(d, t, f) /\ Debt(f, e)

LEMMA DependentsCharged ==
  ASSUME NEW d, Sound(d), d.s.pending = << >>, NEW t \in Tasks, d.at[t] # "node", NEW e, e = ChargeDependents(d, t)
  PROVE  Sound(e) /\ Moves(d, e) /\ Costs(d, t, e) /\ e.s.pending = << >> /\ e.at[t] = d.at[t] /\ e.answer[t] = d.answer[t]
<1>1. d \in Views /\ Joined(d.s) /\ d.flood[t] \in BOOLEAN  BY ViewFields DEF Sound, Settled, Good
<1>2. PICK late, f : late = Dependents(d.s, t) /\ f = Owing(d, t)  OBVIOUS
<1>3. e = IF d.flood[t] THEN Chargeable(f, late) ELSE d  BY <1>2 DEF ChargeDependents, Chargeable, Owing
<1>4. CASE ~d.flood[t]
  <2>1. e = d  BY <1>3, <1>4
  <2>2. Moves(d, d) /\ Debt(d, d)  BY <1>1, SameOrder, Same
  <2>. QED  BY <2>1, <2>2 DEF Costs
<1>5. CASE d.flood[t]
  <2>1. e = Chargeable(f, late) /\ late \in Seq(Tasks)  BY <1>1, <1>2, <1>3, <1>5, DependentsAre
  <2>2. OwesFrom(d, t, f)  BY <1>1, <1>2, OwingFields
  <2>3. f \in Views /\ f.s = d.s /\ f.at = d.at /\ f.after = d.after /\ f.answer = d.answer  BY <2>2 DEF OwesFrom
  <2>4. Sound(f) /\ Moves(d, f)  BY <2>3, SameOrder
  <2>5. Sound(e) /\ Moves(f, e) /\ Debt(f, e) /\ e.s.pending = << >> /\ e.at[t] = f.at[t] /\ e.answer[t] = f.answer[t]
    BY <2>1, <2>3, <2>4, AllCharged
  <2>6. Moves(d, e)  BY <2>4, <2>5, MovesTransitive
  <2>. QED  BY <1>5, <2>2, <2>3, <2>5, <2>6 DEF Costs
<1>. QED  BY <1>4, <1>5

LEMMA CostsMore ==
  ASSUME NEW d \in Views, NEW e \in Views, NEW g \in Views, NEW t \in Tasks, Costs(d, t, e), Debt(e, g)
  PROVE  Costs(d, t, g)
<1>1. CASE Debt(d, e)
  <2>1. Debt(d, g)  BY <1>1, DebtTransitive
  <2>. QED  BY <2>1 DEF Costs
<1>2. CASE d.flood[t] /\ \E f : OwesFrom(d, t, f) /\ Debt(f, e)
  <2>1. PICK f : OwesFrom(d, t, f) /\ Debt(f, e)  BY <1>2
  <2>2. f \in Views  BY <2>1 DEF OwesFrom
  <2>3. Debt(f, g)  BY <2>1, <2>2, DebtTransitive
  <2>. QED  BY <1>2, <2>1, <2>3 DEF Costs
<1>. QED  BY <1>1, <1>2 DEF Costs

(* do_resend *)
HeldAgain(d, t) == [d EXCEPT !.at[t] = "node", !.answer[t] = "none"]

LEMMA HeldIs ==
  ASSUME NEW d \in Views, NEW t \in Tasks, NEW x, x = HeldAgain(d, t)
  PROVE  HeldFrom(d, t, x) /\ x.at[t] = "node" /\ x.answer[t] = "none"
<1>1. PICK at2, answer2 : at2 = [d.at EXCEPT ![t] = "node"] /\ answer2 = [d.answer EXCEPT ![t] = "none"]
  OBVIOUS
<1>2. at2 \in [Tasks -> Places] /\ at2[t] = "node" /\ \A u \in Tasks : u # t => at2[u] = d.at[u]
  BY <1>1, ViewFields DEF Places
<1>3. /\ answer2 \in [Tasks -> {"none", "ok", "error", "wait", "flood"}] /\ answer2[t] = "none"
      /\ \A u \in Tasks : u # t => answer2[u] = d.answer[u]
  BY <1>1, ViewFields
<1>4. x = [d EXCEPT !.at = at2, !.answer = answer2]
  <2>1. x = [d EXCEPT !.at[t] = "node", !.answer[t] = "none"]  BY DEF HeldAgain
  <2>. QED  BY ONLY d \in Views, <1>1, <2>1 DEF Views
<1>5. x \in Views  BY <1>2, <1>3, <1>4 DEF Views
<1>6. /\ x.s = d.s /\ x.after = d.after /\ x.flood = d.flood /\ x.total = d.total /\ x.owed = d.owed
      /\ x.at = at2 /\ x.answer = answer2
  BY <1>4 DEF Views
<1>. QED  BY <1>2, <1>3, <1>5, <1>6 DEF HeldFrom

LEMMA Resent ==
  ASSUME NEW d, Sound(d), d.s.pending = << >>, NEW t \in Tasks, d.at[t] \in {"answered", "resend"}, d.answer[t] # "ok",
         NEW e, e = Flush(DoResend(d, t))
  PROVE  Sound(e) /\ Moves(d, e) /\ Debt(d, e) /\ e.s.pending = << >>
<1>1. d \in Views /\ Settled(d.s) /\ Matches(d, t) /\ ToSet(d.s.pending) = {}
  BY DEF Sound, ToSet
<1>2. PICK x : x = HeldAgain(d, t)  OBVIOUS
<1>3. HeldFrom(d, t, x) /\ x.at[t] = "node" /\ x.answer[t] = "none"  BY <1>1, <1>2, HeldIs
<1>4. PICK y : y = DoResend(d, t)  OBVIOUS
<1>5. y = IF TimedOut(x, t) THEN Expire(x, t) ELSE [Charged(x, t) EXCEPT !.s = ResetTask(d.s, t)]
  BY <1>2, <1>4 DEF DoResend, HeldAgain
<1>6. Sound(y) /\ Moves(d, y) /\ Debt(d, y)
  <2>1. CASE TimedOut(x, t)
    <3>1. y = Expire(x, t)  BY <1>5, <2>1
    <3>2. t \notin ToSet(d.s.pending) /\ d.at[t] \in {"node", "answered", "resend"} /\ Sound(d)  BY <1>1
    <3>. QED  BY <1>3, <3>1, <3>2, Expired
  <2>2. CASE ~TimedOut(x, t)
    <3>1. PICK f, s : f = Charged(x, t) /\ s = ResetTask(d.s, t)  OBVIOUS
    <3>2. y = [f EXCEPT !.s = s]  BY <1>5, <2>2, <3>1
    <3>3. /\ x \in Views /\ x.s = d.s /\ x.after = d.after /\ x.flood = d.flood /\ x.total = d.total /\ x.owed = d.owed
          /\ \A u \in Tasks : u # t => x.at[u] = d.at[u] /\ x.answer[u] = d.answer[u]
      BY <1>3 DEF HeldFrom
    <3>4. /\ f \in Views /\ f.s = x.s /\ f.at = x.at /\ f.after = x.after /\ f.answer = x.answer /\ f.flood = x.flood
          /\ \A u \in Tasks : f.total[u] + f.owed[u] = x.total[u] + x.owed[u]
      BY <3>1, <3>3, ChargedIs DEF Charges0
    <3>5. d.s.state[t] # "None" /\ t \notin ToSet(d.s.pending)  BY <1>1 DEF Matches
    <3>6. /\ Settled(s) /\ Shifts(d.s, t, s) /\ s.chain = d.s.chain
          /\ \/ s.state[t] = "Pending" /\ t \notin ToSet(s.pending)
             \/ s.state[t] = "Active" /\ t \in ToSet(s.pending)
      BY <1>1, <3>1, <3>5, ResetIs
    <3>7. s \in Schedulers  BY <3>6 DEF Settled, Good, Joined
    <3>8. y \in Views  BY <3>2, <3>4, <3>7 DEF Views
    <3>9. /\ y.s = s /\ y.at = f.at /\ y.after = f.after /\ y.answer = f.answer /\ y.flood = f.flood
          /\ y.total = f.total /\ y.owed = f.owed
      BY <3>2, <3>4 DEF Views
    <3>10. Changes(d, t, y)
      <4>1. Matches(y, t)  BY <1>3, <3>4, <3>6, <3>9 DEF Matches
      <4>2. \A c : Members(y.s, c) = Members(d.s, c)  BY <3>6, <3>9 DEF Members
      <4>3. \A u \in Tasks : u # t => y.at[u] = d.at[u] /\ y.answer[u] = d.answer[u] /\ y.after[u] = d.after[u]
        BY <3>3, <3>4, <3>9
      <4>4. y.at[t] = "node" /\ y.answer[t] = "none"  BY <1>3, <3>4, <3>9
      <4>. QED  BY <3>6, <3>9, <4>1, <4>2, <4>3, <4>4 DEF Changes
    <3>11. Sound(y) /\ Moves(d, y)  BY <3>8, <3>10, Carried
    <3>12. Debt(d, y)
      <4>1. Debt(d, d)  BY <1>1, Same
      <4>2. \A u \in Tasks : y.answer[u] = "flood" => d.answer[u] = "flood"  BY <1>3, <3>3, <3>4, <3>9
      <4>3. \A u \in Tasks : y.total[u] + y.owed[u] = d.total[u] + d.owed[u] /\ (y.flood[u] => d.flood[u])
        BY <3>3, <3>4, <3>9
      <4>. QED  BY <4>1, <4>2, <4>3 DEF Debt
    <3>. QED  BY <3>11, <3>12
  <2>. QED  BY <2>1, <2>2
<1>7. e = Flush(y)  BY <1>4
<1>8. Sound(e) /\ Moves(y, e) /\ Debt(y, e) /\ e.s.pending = << >>  BY <1>6, <1>7, FlushIs DEF Flushed
<1>9. Moves(d, e)  BY <1>6, <1>8, MovesTransitive
<1>10. Debt(d, e)
  <2>1. d \in Views /\ y \in Views /\ e \in Views  BY <1>6, <1>8 DEF Sound
  <2>. QED  BY <1>6, <1>8, <2>1, DebtTransitive
<1>. QED  BY <1>8, <1>9, <1>10

LEMMA Unshifted ==
  ASSUME NEW s, NEW t
  PROVE  Shifts(s, t, s)
  BY DEF Shifts, Turns

(* try_resend: the query is its owner's, or its task ends.                    *)
LEMMA Tells ==
  ASSUME NEW d, Sound(d), d.s.pending = << >>, NEW t \in Tasks, d.at[t] = "answered", NEW e, e = TryResend(d, t)
  PROVE  Sound(e) /\ Moves(d, e) /\ Debt(d, e) /\ e.s.pending = << >>
<1>1. d \in Views /\ Settled(d.s) /\ Matches(d, t) /\ ToSet(d.s.pending) = {}  BY DEF Sound, ToSet
<1>2. CASE t \in Resendable
  <2>1. e = [d EXCEPT !.at[t] = "owner"]  BY <1>2 DEF TryResend
  <2>2. PICK at2 : at2 = [d.at EXCEPT ![t] = "owner"]  OBVIOUS
  <2>3. at2 \in [Tasks -> Places] /\ at2[t] = "owner" /\ \A u \in Tasks : u # t => at2[u] = d.at[u]
    BY <1>1, <2>2, ViewFields DEF Places
  <2>4. e = [d EXCEPT !.at = at2]  BY <2>1, <2>2
  <2>5. e \in Views  BY <1>1, <2>3, <2>4 DEF Views
  <2>6. /\ e.s = d.s /\ e.at = at2 /\ e.after = d.after /\ e.answer = d.answer /\ e.flood = d.flood
        /\ e.total = d.total /\ e.owed = d.owed
    BY <1>1, <2>4 DEF Views
  <2>7. Changes(d, t, e)
    <3>1. d.s.state[t] = "Active"
      <4>1. d.s.state[t] \in {"None", "Pending", "Active", "Paused"}  BY <1>1, ViewFields, Fields
      <4>. QED  BY <1>1, <4>1 DEF Matches
    <3>2. Matches(e, t)  BY <1>1, <2>3, <2>6, <3>1 DEF Matches
    <3>3. Shifts(d.s, t, e.s)  BY <2>6, Unshifted
    <3>. QED  BY <1>1, <2>3, <2>6, <3>2, <3>3 DEF Changes
  <2>8. Sound(e) /\ Moves(d, e)  BY <2>5, <2>7, Carried
  <2>9. Debt(d, e)
    <3>1. Debt(d, d)  BY <1>1, Same
    <3>. QED  BY <2>6, <3>1 DEF Debt
  <2>. QED  BY <2>6, <2>8, <2>9
<1>3. CASE t \notin Resendable
  <2>1. e = Finish(d, t)  BY <1>3 DEF TryResend
  <2>2. t \notin ToSet(d.s.pending) /\ d.at[t] \notin {"new", "sent", "gone"} /\ Sound(d)  BY <1>1
  <2>. QED  BY <2>1, <2>2, Ends
<1>. QED  BY <1>2, <1>3

LEMMA ResultHandled ==
  ASSUME NEW d, Sound(d), d.s.pending = << >>, NEW t \in Tasks, d.at[t] = "answered",
         NEW f, f = ChargeDependents(d, t),
         NEW e, e = IF d.answer[t] = "wait" THEN Flush(DoResend(f, t)) ELSE TryResend(f, t)
  PROVE  Sound(e) /\ Moves(d, e) /\ Costs(d, t, e) /\ e.s.pending = << >>
<1>1. Sound(f) /\ Moves(d, f) /\ Costs(d, t, f) /\ f.s.pending = << >> /\ f.at[t] = "answered" /\ f.answer[t] = d.answer[t]
  <2>1. Sound(d) /\ d.s.pending = << >> /\ d.at[t] # "node"  OBVIOUS
  <2>. QED  BY <2>1, DependentsCharged
<1>2. Sound(e) /\ Moves(f, e) /\ Debt(f, e) /\ e.s.pending = << >>
  <2>1. CASE d.answer[t] = "wait"
    <3>1. e = Flush(DoResend(f, t)) /\ f.answer[t] # "ok" /\ f.at[t] \in {"answered", "resend"}  BY <1>1, <2>1
    <3>. QED  BY <1>1, <3>1, Resent
  <2>2. CASE d.answer[t] # "wait"
    <3>1. e = TryResend(f, t)  BY <2>2
    <3>. QED  BY <1>1, <3>1, Tells
  <2>. QED  BY <2>1, <2>2
<1>3. Moves(d, e)  BY <1>1, <1>2, MovesTransitive
<1>4. Costs(d, t, e)
  <2>1. d \in Views /\ e \in Views /\ f \in Views  BY <1>1, <1>2 DEF Sound
  <2>. QED  BY <1>1, <1>2, <2>1, CostsMore
<1>. QED  BY <1>2, <1>3, <1>4

LEMMA ResendHandled ==
  ASSUME NEW d, Sound(d), d.s.pending = << >>, NEW t \in Tasks, d.at[t] \in {"resend", "drop"},
         NEW e, e = IF d.at[t] = "drop" THEN Finish(d, t) ELSE Flush(DoResend(d, t))
  PROVE  Sound(e) /\ Moves(d, e) /\ Debt(d, e) /\ e.s.pending = << >>
<1>1. CASE d.at[t] = "drop"
  <2>1. t \notin ToSet(d.s.pending) /\ d.at[t] \notin {"new", "sent", "gone"} /\ Sound(d) /\ e = Finish(d, t)
    BY <1>1 DEF ToSet
  <2>. QED  BY <2>1, Ends
<1>2. CASE d.at[t] = "resend"
  <2>1. d.answer[t] = "error"  BY <1>2 DEF Sound, Speaks
  <2>2. d.at[t] \in {"answered", "resend"} /\ d.answer[t] # "ok" /\ e = Flush(DoResend(d, t))  BY <1>2, <2>1
  <2>. QED  BY <2>2, Resent
<1>. QED  BY <1>1, <1>2

LEMMA SendHandled ==
  ASSUME NEW d, Sound(d), d.s.pending = << >>, NEW t \in Tasks, d.at[t] = "new", \A u \in Tasks : u < t => d.at[u] # "new",
         NEW l \in ChainLists, NEW e, e = Flush([d EXCEPT !.s = CreateTask(d.s, t, l), !.at[t] = "node"])
  PROVE  Sound(e) /\ Moves(d, e) /\ Debt(d, e) /\ e.s.pending = << >>
<1>1. d \in Views /\ Settled(d.s) /\ Matches(d, t) /\ Speaks(d, t) /\ Sequenced(d)  BY DEF Sound
<1>2. PICK s : s = CreateTask(d.s, t, l)  OBVIOUS
<1>3. \A u \in Tasks : d.s.state[u] # "None" => u < t
  <2> SUFFICES ASSUME NEW u \in Tasks, d.s.state[u] # "None" PROVE u < t  OBVIOUS
  <2>1. d.at[u] # "new"  BY DEF Sound, Matches
  <2>2. ~(t < u)  BY <1>1, <2>1 DEF Sequenced
  <2>3. u # t  BY <2>1
  <2>. QED  BY <2>2, <2>3, TasksAreNumbers
<1>4. d.s.state[t] = "None"  BY <1>1 DEF Matches
<1>5. /\ Settled(s) /\ Shifts(d.s, t, s)
      /\ \/ s.state[t] = "Pending" /\ t \notin ToSet(s.pending)
         \/ s.state[t] = "Active" /\ t \in ToSet(s.pending)
  BY <1>1, <1>2, <1>3, <1>4, CreatedIs
<1>6. s \in Schedulers  BY <1>5 DEF Settled, Good, Joined
<1>7. PICK at2 : at2 = [d.at EXCEPT ![t] = "node"]  OBVIOUS
<1>8. at2 \in [Tasks -> Places] /\ at2[t] = "node" /\ \A u \in Tasks : u # t => at2[u] = d.at[u]
  BY <1>1, <1>7, ViewFields DEF Places
<1>9. PICK y : y = [d EXCEPT !.s = s, !.at = at2]  OBVIOUS
<1>10. e = Flush(y)  BY <1>2, <1>7, <1>9
<1>11. y \in Views  BY <1>1, <1>6, <1>8, <1>9 DEF Views
<1>12. /\ y.s = s /\ y.at = at2 /\ y.after = d.after /\ y.answer = d.answer /\ y.flood = d.flood
       /\ y.total = d.total /\ y.owed = d.owed
  BY <1>1, <1>9 DEF Views
<1>13. Changes(d, t, y)
  <2>1. Matches(y, t)  BY <1>5, <1>8, <1>12 DEF Matches
  <2>2. d.answer[t] = "none"  BY <1>1 DEF Speaks
  <2>3. \A c \in Chains : t \notin Members(d.s, c)
    <3>1. Joined(d.s) /\ ToSet(<< >>) = {}  BY <1>1 DEF Settled, Good, ToSet
    <3>2. ChainSet(d.s, t) = {}  BY <1>4, <3>1 DEF Joined, ChainSet
    <3>. QED  BY <3>1, <3>2, MemberIs
  <2>. QED  BY <1>5, <1>8, <1>12, <2>1, <2>2, <2>3 DEF Changes
<1>14. Sound(y) /\ Moves(d, y)  BY <1>11, <1>13, Carried
<1>15. Debt(d, y)
  <2>1. Debt(d, d)  BY <1>1, Same
  <2>. QED  BY <1>12, <2>1 DEF Debt
<1>16. Sound(e) /\ Moves(y, e) /\ Debt(y, e) /\ e.s.pending = << >>  BY <1>10, <1>14, FlushIs DEF Flushed
<1>17. Moves(d, e)  BY <1>14, <1>16, MovesTransitive
<1>18. Debt(d, e)
  <2>1. d \in Views /\ y \in Views /\ e \in Views  BY <1>14, <1>16 DEF Sound
  <2>. QED  BY <1>15, <1>16, <2>1, DebtTransitive
<1>. QED  BY <1>16, <1>17, <1>18

(* Everything else moves a query between those that have it.                  *)
Passes(d, e, u) ==
  \/ e.at[u] = d.at[u]
  \/ d.at[u] \in {"session", "sent", "delayer"} /\ e.at[u] \in {"session", "sent", "delayer", "answered"}
  \/ d.at[u] = "owner" /\ e.at[u] \in {"resend", "drop"}

LEMMA Passed ==
  ASSUME NEW d, Sound(d), NEW e \in Views, e.s = d.s, e.after = d.after,
         \A u \in Tasks : Passes(d, e, u) /\ Speaks(e, u)
  PROVE  Sound(e)
<1>1. /\ d \in Views /\ Settled(d.s) /\ Sequenced(d) /\ \A u \in Tasks : Matches(d, u)
      /\ \A u \in Tasks : d.at[u] \in {"session", "sent", "delayer"} => Refers(d, u)
  BY DEF Sound
<1>2. \A u \in Tasks : (e.at[u] = "new" <=> d.at[u] = "new") /\ (d.at[u] = "gone" => e.at[u] = "gone")
  BY DEF Passes
<1>3. Sequenced(e)  BY <1>1, <1>2 DEF Sequenced
<1>4. ASSUME NEW u \in Tasks PROVE Matches(e, u)
  <2>1. Matches(d, u) /\ Passes(d, e, u)  BY <1>1
  <2>. QED  BY <2>1 DEF Matches, Passes
<1>5. ASSUME NEW u \in Tasks, e.at[u] \in {"session", "sent", "delayer"} PROVE Refers(e, u)
  <2>1. Refers(d, u)  BY <1>1, <1>5 DEF Passes
  <2>2. d.after[u] \subseteq Tasks  BY <1>1, ViewFields
  <2>. QED  BY <1>2, <2>1, <2>2 DEF Refers
<1>. QED  BY <1>1, <1>3, <1>4, <1>5 DEF Sound

-------------------------------------------------------------------------------
(* Order.  The server executes a query only when it has executed everything   *)
(* before it in its chains: that holds of every query it has executed, even   *)
(* if its answer was lost and it is on its way again; and of a query that is  *)
(* sent and waits for its parent, once the server has executed the parent.    *)
(* The books x say which queries those are, and which answers were not lost.  *)
Executions == [query : Tasks, chains : SUBSET Chains, lost : BOOLEAN]

Ran(x, t) == \E k \in DOMAIN x : x[k].query = t
Unlost(x, t) == \E k \in DOMAIN x : x[k].query = t /\ ~x[k].lost
Before(x, i, t) == \E k \in 1 .. i - 1 : x[k].query = t

AllRan(d, x, t, c) == \A u \in Ahead(d.s, t, c) : Ran(x, u)

Prefixed(d, x) == \A c \in Chains : \A t \in Members(d.s, c) : Ran(x, t) => AllRan(d, x, t, c)

Awaited(d, w) ==
  w \in [Tasks -> SUBSET Tasks] /\ \A t \in Tasks : \A p \in w[t] : d.at[p] = "sent" /\ d.answer[p] = "none"

Followed(d, w, m, x) ==
  \A t \in Tasks : d.at[t] = "sent" /\ d.answer[t] = "none" /\ ~m[t] =>
    \A c \in Chains : t \in Members(d.s, c) => AllRan(d, x, t, c) \/ \E p \in w[t] : IsParent(d.s, p, t, c)

Known(d, x, t) ==
  /\ d.answer[t] = "ok" <=> Unlost(x, t)
  /\ Ran(x, t) => d.at[t] # "new"

Recorded(d, x) ==
  /\ x \in Seq(Executions) /\ \A t \in Tasks : Known(d, x, t)
  /\ \A i \in DOMAIN x : \A c \in x[i].chains : \A q \in Members(d.s, c) : q < x[i].query => Before(x, i, q)

Ordered(d, w, m, x) == Prefixed(d, x) /\ Awaited(d, w) /\ Followed(d, w, m, x) /\ Recorded(d, x)

LEMMA EntryIs ==
  ASSUME NEW x \in Seq(Executions), NEW i \in DOMAIN x
  PROVE  x[i].query \in Tasks /\ x[i].chains \subseteq Chains /\ x[i].lost \in BOOLEAN
<1>1. PICK r : r = x[i] /\ r \in Executions  OBVIOUS
<1>2. r.query \in Tasks /\ r.chains \subseteq Chains /\ r.lost \in BOOLEAN  BY <1>1 DEF Executions
<1>. QED  BY <1>1, <1>2

LEMMA MembersAreSent ==
  ASSUME NEW d, Sound(d), NEW c \in Chains, NEW t \in Members(d.s, c)
  PROVE  t \in Tasks /\ t \in Nat /\ d.at[t] \notin {"new", "gone"}
<1>1. Joined(d.s) /\ ToSet(<< >>) = {}  BY DEF Sound, Settled, Good, ToSet
<1>2. t \in Tasks /\ t \in Nat /\ c \in ChainSet(d.s, t)  BY <1>1, MemberIs
<1>3. d.s.state[t] # "None"  BY <1>1, <1>2 DEF Joined, ChainSet
<1>4. Matches(d, t)  BY <1>2 DEF Sound
<1>. QED  BY <1>2, <1>3, <1>4 DEF Matches

LEMMA OrderMoves ==
  ASSUME NEW d, Sound(d), NEW e, Sound(e), Moves(d, e), NEW w, NEW m, NEW x, Ordered(d, w, m, x)
  PROVE  Ordered(e, w, m, x)
<1>1. /\ Prefixed(d, x) /\ Awaited(d, w) /\ Followed(d, w, m, x) /\ Recorded(d, x) /\ Sequenced(d)
      /\ \A t \in Tasks : Stays(d, e, t)
      /\ \A c \in Chains : /\ \A t \in Members(e.s, c) : t \in Members(d.s, c) \/ d.at[t] = "new"
                           /\ \A t \in Members(d.s, c) : t \in Members(e.s, c) \/ e.at[t] = "gone"
  BY DEF Ordered, Moves, Sound
<1>2. \A c \in Chains : \A t \in Members(e.s, c) : t \in Tasks /\ t \in Nat  BY MembersAreSent
<1>3. \A t \in Tasks : Ran(x, t) => d.at[t] # "new"  BY <1>1 DEF Recorded, Known
<1>4. ASSUME NEW c \in Chains, NEW t \in Members(e.s, c), d.at[t] # "new", NEW u \in Ahead(e.s, t, c)
      PROVE  t \in Members(d.s, c) /\ u \in Ahead(d.s, t, c) /\ u \in Tasks
  <2>1. u \in Members(e.s, c) /\ u < t /\ u \in Tasks /\ t \in Tasks  BY <1>2 DEF Ahead
  <2>2. d.at[u] # "new"  BY <1>1, <1>4, <2>1 DEF Sequenced
  <2>. QED  BY <1>1, <1>4, <2>1, <2>2 DEF Ahead
<1>5. Prefixed(e, x)
  <2> SUFFICES ASSUME NEW c \in Chains, NEW t \in Members(e.s, c), Ran(x, t), NEW u \in Ahead(e.s, t, c) PROVE Ran(x, u)
    BY DEF Prefixed, AllRan
  <2>1. t \in Tasks /\ d.at[t] # "new"  BY <1>2, <1>3
  <2>2. t \in Members(d.s, c) /\ u \in Ahead(d.s, t, c)  BY <1>4, <2>1
  <2>. QED  BY <1>1, <2>2 DEF Prefixed, AllRan
<1>6. Awaited(e, w)
  <2> SUFFICES ASSUME NEW t \in Tasks, NEW p \in w[t] PROVE e.at[p] = "sent" /\ e.answer[p] = "none"
    BY <1>1 DEF Awaited
  <2>1. p \in Tasks /\ d.at[p] = "sent" /\ d.answer[p] = "none"  BY <1>1 DEF Awaited
  <2>. QED  BY <1>1, <2>1 DEF Stays
<1>7. Followed(e, w, m, x)
  <2> SUFFICES ASSUME NEW t \in Tasks, e.at[t] = "sent", e.answer[t] = "none", ~m[t], NEW c \in Chains, t \in Members(e.s, c)
               PROVE  AllRan(e, x, t, c) \/ \E p \in w[t] : IsParent(e.s, p, t, c)
    BY DEF Followed
  <2>1. d.at[t] = "sent" /\ d.answer[t] = "none" /\ d.at[t] # "new"  BY <1>1 DEF Stays
  <2>2. t \in Members(d.s, c)  BY <1>1, <2>1
  <2>3. CASE AllRan(d, x, t, c)
    <3>1. AllRan(e, x, t, c)  BY <1>4, <2>1, <2>3 DEF AllRan
    <3>. QED  BY <3>1
  <2>4. CASE \E p \in w[t] : IsParent(d.s, p, t, c)
    <3>1. PICK p \in w[t] : IsParent(d.s, p, t, c)  BY <2>4
    <3>2. p \in Tasks /\ e.at[p] = "sent"  BY <1>1, <1>6, <3>1 DEF Awaited
    <3>3. p \in Members(d.s, c) /\ p < t /\ \A u \in Ahead(d.s, t, c) : u <= p  BY <3>1 DEF IsParent, Ahead
    <3>4. p \in Members(e.s, c)  BY <1>1, <3>2, <3>3
    <3>5. p \in Ahead(e.s, t, c)  BY <3>3, <3>4 DEF Ahead
    <3>6. \A u \in Ahead(e.s, t, c) : u <= p  BY <1>4, <2>1, <3>3
    <3>. QED  BY <3>1, <3>5, <3>6 DEF IsParent
  <2>. QED  BY <1>1, <2>1, <2>2, <2>3, <2>4 DEF Followed
<1>8. Recorded(e, x)
  <2>1. x \in Seq(Executions)  BY <1>1 DEF Recorded
  <2>2. \A t \in Tasks : Known(e, x, t)
    <3> SUFFICES ASSUME NEW t \in Tasks PROVE Known(e, x, t)  OBVIOUS
    <3>1. Known(d, x, t) /\ Stays(d, e, t)  BY <1>1 DEF Recorded
    <3>. QED  BY <3>1 DEF Known, Stays
  <2>3. ASSUME NEW i \in DOMAIN x, NEW c \in x[i].chains, NEW q \in Members(e.s, c), q < x[i].query
        PROVE  Before(x, i, q)
    <3>1. x[i].query \in Tasks /\ c \in Chains  BY <2>1, EntryIs
    <3>2. q \in Tasks  BY <1>2, <3>1
    <3>3. d.at[x[i].query] # "new"  BY <1>3, <3>1 DEF Ran
    <3>4. d.at[q] # "new"  BY <1>1, <2>3, <3>1, <3>2, <3>3 DEF Sequenced
    <3>5. q \in Members(d.s, c)  BY <1>1, <3>1, <3>4
    <3>. QED  BY <1>1, <2>3, <3>5 DEF Recorded
  <2>. QED  BY <2>1, <2>2, <2>3 DEF Recorded
<1>. QED  BY <1>5, <1>6, <1>7, <1>8 DEF Ordered

InOrder(x) ==
  \A i, j \in DOMAIN x : i < j =>
    /\ x[i].query = x[j].query => x[i].lost
    /\ x[i].chains \cap x[j].chains # {} /\ x[j].query < x[i].query => Before(x, i, x[j].query)

(* Answers are lost, or none is: the same executions, with more of them lost. *)
Marks(x, y) ==
  /\ y \in Seq(Executions) /\ DOMAIN y = DOMAIN x
  /\ \A i \in DOMAIN x : y[i].query = x[i].query /\ y[i].chains = x[i].chains /\ (x[i].lost => y[i].lost)

LEMMA MarksIs ==
  ASSUME NEW x \in Seq(Executions), NEW y, Marks(x, y)
  PROVE  /\ \A t : Ran(y, t) <=> Ran(x, t)
         /\ \A i \in DOMAIN x : \A t : Before(y, i, t) <=> Before(x, i, t)
         /\ InOrder(x) => InOrder(y)
<1>1. /\ y \in Seq(Executions) /\ DOMAIN y = DOMAIN x
      /\ \A i \in DOMAIN x : y[i].query = x[i].query /\ y[i].chains = x[i].chains /\ (x[i].lost => y[i].lost)
  BY DEF Marks
<1>2. \A t : Ran(y, t) <=> Ran(x, t)  BY <1>1 DEF Ran
<1>3. \A i \in DOMAIN x : \A t : Before(y, i, t) <=> Before(x, i, t)
  <2>1. DOMAIN x = 1 .. Len(x) /\ Len(x) \in Nat  OBVIOUS
  <2>2. \A i \in DOMAIN x : \A k \in 1 .. i - 1 : k \in DOMAIN x  BY <2>1
  <2>. QED  BY <1>1, <2>2 DEF Before
<1>4. ASSUME InOrder(x) PROVE InOrder(y)
  <2> SUFFICES ASSUME NEW i \in DOMAIN x, NEW j \in DOMAIN x, i < j
               PROVE  /\ y[i].query = y[j].query => y[i].lost
                      /\ y[i].chains \cap y[j].chains # {} /\ y[j].query < y[i].query => Before(y, i, y[j].query)
    BY <1>1 DEF InOrder
  <2>1. /\ x[i].query = x[j].query => x[i].lost
        /\ x[i].chains \cap x[j].chains # {} /\ x[j].query < x[i].query => Before(x, i, x[j].query)
    BY <1>4 DEF InOrder
  <2>. QED  BY <1>1, <1>3, <2>1
<1>. QED  BY <1>2, <1>3, <1>4

LEMMA RanKept ==
  ASSUME NEW d, NEW x, Prefixed(d, x), Recorded(d, x), \A c \in Chains : Members(d.s, c) \subseteq Tasks,
         NEW y, Marks(x, y), NEW e, e.s = d.s, \A t \in Tasks : Known(e, y, t)
  PROVE  Prefixed(e, y) /\ Recorded(e, y)
<1>1. x \in Seq(Executions)  BY DEF Recorded
<1>2. /\ \A t : Ran(y, t) <=> Ran(x, t)
      /\ \A i \in DOMAIN x : \A t : Before(y, i, t) <=> Before(x, i, t)
  BY <1>1, MarksIs
<1>3. Prefixed(e, y)  BY <1>2 DEF Prefixed, AllRan
<1>4. /\ y \in Seq(Executions) /\ DOMAIN y = DOMAIN x
      /\ \A i \in DOMAIN x : y[i].query = x[i].query /\ y[i].chains = x[i].chains
  BY DEF Marks
<1>5. ASSUME NEW i \in DOMAIN y, NEW c \in y[i].chains, NEW q \in Members(e.s, c), q < y[i].query
      PROVE  Before(y, i, q)
  <2>1. i \in DOMAIN x /\ c \in x[i].chains /\ q \in Members(d.s, c) /\ q < x[i].query  BY <1>4, <1>5
  <2>2. Before(x, i, q)  BY <2>1 DEF Recorded
  <2>. QED  BY <1>2, <2>1, <2>2
<1>. QED  BY <1>3, <1>4, <1>5 DEF Recorded

LEMMA MarksItself ==
  ASSUME NEW x \in Seq(Executions)
  PROVE  Marks(x, x)
  BY DEF Marks

(* The session sends a query with references to its parents.                  *)
LEMMA OrderSent ==
  ASSUME NEW d, Sound(d), NEW w, NEW m, NEW x, Ordered(d, w, m, x), m \in [Tasks -> BOOLEAN],
         NEW t \in Tasks, d.at[t] = "session", \A p \in d.after[t] : d.at[p] = "sent",
         NEW e, e.s = d.s, e.answer = d.answer, e.at[t] = "sent", \A u \in Tasks : u # t => e.at[u] = d.at[u],
         NEW w2, w2 = [w EXCEPT ![t] = {p \in d.after[t] : d.answer[p] = "none"}],
         NEW m2, m2 = [m EXCEPT ![t] = \E p \in d.after[t] : d.answer[p] \notin {"none", "ok"}]
  PROVE  Ordered(e, w2, m2, x)
<1>1. /\ Prefixed(d, x) /\ Awaited(d, w) /\ Followed(d, w, m, x) /\ Recorded(d, x) /\ d \in Views /\ Joined(d.s)
      /\ w \in [Tasks -> SUBSET Tasks] /\ Refers(d, t) /\ x \in Seq(Executions)
  BY DEF Ordered, Awaited, Recorded, Sound, Settled, Good
<1>2. \A u \in Tasks : Known(e, x, u)
  <2> SUFFICES ASSUME NEW u \in Tasks PROVE Known(e, x, u)  OBVIOUS
  <2>1. Known(d, x, u) /\ e.at[t] = "sent"  BY <1>1 DEF Recorded
  <2>. QED  BY <2>1 DEF Known
<1>3. d.after[t] \subseteq Tasks  BY <1>1, ViewFields
<1>4. /\ w2 \in [Tasks -> SUBSET Tasks] /\ w2[t] = {p \in d.after[t] : d.answer[p] = "none"}
      /\ \A u \in Tasks : u # t => w2[u] = w[u] /\ m2[u] = m[u]
      /\ m2[t] <=> \E p \in d.after[t] : d.answer[p] \notin {"none", "ok"}
  BY <1>1, <1>3
<1>5. Prefixed(e, x) /\ Recorded(e, x)
  <2>1. \A c \in Chains : Members(d.s, c) \subseteq Tasks  BY <1>1, MemberIs
  <2>2. Marks(x, x)  BY <1>1, MarksItself
  <2>. QED  BY <1>1, <1>2, <2>1, <2>2, RanKept
<1>6. Awaited(e, w2)
  <2> SUFFICES ASSUME NEW u \in Tasks, NEW p \in w2[u] PROVE e.at[p] = "sent" /\ e.answer[p] = "none"
    BY <1>4 DEF Awaited
  <2>1. CASE u = t  BY <1>3, <1>4, <2>1
  <2>2. CASE u # t
    <3>1. p \in Tasks /\ d.at[p] = "sent" /\ d.answer[p] = "none"  BY <1>1, <1>4, <2>2 DEF Awaited
    <3>. QED  BY <3>1
  <2>. QED  BY <2>1, <2>2
<1>7. Followed(e, w2, m2, x)
  <2> SUFFICES ASSUME NEW u \in Tasks, e.at[u] = "sent", e.answer[u] = "none", ~m2[u], NEW c \in Chains, u \in Members(e.s, c)
               PROVE  AllRan(d, x, u, c) \/ \E p \in w2[u] : IsParent(d.s, p, u, c)
    BY DEF Followed, AllRan
  <2>1. CASE u # t  BY <1>1, <1>4, <2>1 DEF Followed
  <2>2. CASE u = t
    <3>1. t \in Members(d.s, c)  BY <2>2
    <3>2. CASE Ahead(d.s, t, c) = {}  BY <2>2, <3>2 DEF AllRan
    <3>3. CASE Ahead(d.s, t, c) # {}
      <4>1. PICK p : IsParent(d.s, p, t, c)  BY <1>1, <3>1, <3>3, ParentIs
      <4>2. p \in d.after[t] /\ p \in Tasks  BY <1>1, <1>3, <3>1, <4>1 DEF Refers
      <4>3. d.answer[p] \in {"none", "ok"}  BY <1>4, <2>2, <4>2
      <4>4. CASE d.answer[p] = "none"  BY <1>4, <2>2, <4>1, <4>2, <4>4
      <4>5. CASE d.answer[p] = "ok"
        <5>1. p \in Members(d.s, c) /\ p \in Nat /\ \A v \in Ahead(d.s, t, c) : v <= p
          BY <1>1, <4>1, MemberIs DEF IsParent, Ahead
        <5>2. Ran(x, p)  BY <1>1, <4>2, <4>5 DEF Recorded, Known, Unlost, Ran
        <5>3. AllRan(d, x, p, c)  BY <1>1, <5>1, <5>2 DEF Prefixed
        <5>4. ASSUME NEW v \in Ahead(d.s, t, c) PROVE Ran(x, v)
          <6>1. v \in Members(d.s, c) /\ v \in Nat /\ v <= p  BY <1>1, <5>1, MemberIs DEF Ahead
          <6>2. v = p \/ v \in Ahead(d.s, p, c)  BY <5>1, <6>1 DEF Ahead
          <6>. QED  BY <5>2, <5>3, <6>2 DEF AllRan
        <5>. QED  BY <2>2, <5>4 DEF AllRan
      <4>. QED  BY <4>3, <4>4, <4>5
    <3>. QED  BY <3>2, <3>3
  <2>. QED  BY <2>1, <2>2
<1>. QED  BY <1>5, <1>6, <1>7 DEF Ordered

(* Messages leave the server: answered ones, or lost ones, which takes those  *)
(* that wait for them along and whose executions are marked.                  *)
Leaves(d, w, m, x, L, e, w2, m2, y) ==
  /\ e.s = d.s /\ Marks(x, y) /\ \A u \in Tasks : Known(e, y, u)
  /\ w2 \in [Tasks -> SUBSET Tasks]
  /\ \A u \in L : e.at[u] # "sent" /\ w2[u] = {}
  /\ \A u \in Tasks : u \notin L => /\ e.at[u] = d.at[u] /\ e.answer[u] = d.answer[u] /\ w2[u] = w[u] \ L
                                   /\ (~m2[u] => ~m[u] /\ w[u] \cap L = {})
  /\ \A c \in Chains : Members(d.s, c) \subseteq Tasks

LEMMA OrderLeft ==
  ASSUME NEW d, NEW w, NEW m, NEW x, Ordered(d, w, m, x),
         NEW L, NEW e, NEW w2, NEW m2, NEW y, Leaves(d, w, m, x, L, e, w2, m2, y)
  PROVE  Ordered(e, w2, m2, y)
<1>1. /\ Prefixed(d, x) /\ Awaited(d, w) /\ Followed(d, w, m, x) /\ Recorded(d, x)
      /\ w \in [Tasks -> SUBSET Tasks] /\ x \in Seq(Executions)
  BY DEF Ordered, Awaited, Recorded
<1>2. /\ e.s = d.s /\ Marks(x, y) /\ \A u \in Tasks : Known(e, y, u)
      /\ w2 \in [Tasks -> SUBSET Tasks]
      /\ \A u \in L : e.at[u] # "sent" /\ w2[u] = {}
      /\ \A u \in Tasks : u \notin L => /\ e.at[u] = d.at[u] /\ e.answer[u] = d.answer[u] /\ w2[u] = w[u] \ L
                                       /\ (~m2[u] => ~m[u] /\ w[u] \cap L = {})
      /\ \A c \in Chains : Members(d.s, c) \subseteq Tasks
  BY DEF Leaves
<1>3. \A t : Ran(y, t) <=> Ran(x, t)  BY <1>1, <1>2, MarksIs
<1>4. Prefixed(e, y) /\ Recorded(e, y)  BY <1>2, <1>1, RanKept
<1>5. Awaited(e, w2)
  <2> SUFFICES ASSUME NEW u \in Tasks, NEW p \in w2[u] PROVE e.at[p] = "sent" /\ e.answer[p] = "none"
    BY <1>2 DEF Awaited
  <2>1. u \notin L /\ p \in w[u] /\ p \notin L /\ p \in Tasks  BY <1>2
  <2>. QED  BY <1>2, <1>1, <2>1 DEF Awaited
<1>6. Followed(e, w2, m2, y)
  <2> SUFFICES ASSUME NEW u \in Tasks, e.at[u] = "sent", e.answer[u] = "none", ~m2[u], NEW c \in Chains, u \in Members(e.s, c)
               PROVE  AllRan(e, y, u, c) \/ \E p \in w2[u] : IsParent(e.s, p, u, c)
    BY <1>2 DEF Followed
  <2>1. u \notin L  BY <1>2
  <2>2. d.at[u] = "sent" /\ d.answer[u] = "none" /\ ~m[u] /\ w2[u] = w[u]  BY <1>2, <2>1
  <2>3. AllRan(d, x, u, c) \/ \E p \in w[u] : IsParent(d.s, p, u, c)  BY <1>2, <1>1, <2>2 DEF Followed
  <2>4. AllRan(d, x, u, c) => AllRan(e, y, u, c)  BY <1>2, <1>3 DEF AllRan
  <2>. QED  BY <1>2, <2>2, <2>3, <2>4
<1>. QED  BY <1>4, <1>5, <1>6 DEF Ordered

(* The server answers.                                                        *)
Answered(d, t, a, w, m, e, w2, m2) ==
  /\ e.s = d.s /\ e.at = d.at /\ e.answer[t] = a /\ \A u \in Tasks : u # t => e.answer[u] = d.answer[u]
  /\ w2 \in [Tasks -> SUBSET Tasks] /\ \A u \in Tasks : w2[u] = w[u] \ {t} /\ (~m2[u] => ~m[u] /\ (t \in w[u] => a = "ok"))

LEMMA OrderRefused ==
  ASSUME NEW d, NEW w, NEW m, NEW x, Ordered(d, w, m, x), NEW t \in Tasks, d.at[t] = "sent", d.answer[t] = "none",
         NEW a, a \notin {"none", "ok"}, NEW e, NEW w2, NEW m2, Answered(d, t, a, w, m, e, w2, m2),
         \A c \in Chains : Members(d.s, c) \subseteq Tasks
  PROVE  Ordered(e, w2, m2, x)
<1>1. /\ Prefixed(d, x) /\ Awaited(d, w) /\ Followed(d, w, m, x) /\ Recorded(d, x)
      /\ w \in [Tasks -> SUBSET Tasks] /\ x \in Seq(Executions)
  BY DEF Ordered, Awaited, Recorded
<1>2. /\ e.s = d.s /\ e.at = d.at /\ e.answer[t] = a /\ \A u \in Tasks : u # t => e.answer[u] = d.answer[u]
      /\ w2 \in [Tasks -> SUBSET Tasks] /\ \A u \in Tasks : w2[u] = w[u] \ {t} /\ (~m2[u] => ~m[u] /\ t \notin w[u])
  BY DEF Answered
<1>3. ASSUME NEW u \in Tasks PROVE Known(e, x, u)
  <2>1. Known(d, x, u)  BY <1>1 DEF Recorded
  <2>2. e.answer[u] = "ok" <=> d.answer[u] = "ok"  BY <1>2
  <2>. QED  BY <1>2, <2>1, <2>2 DEF Known
<1>4. Prefixed(e, x) /\ Recorded(e, x)
  <2>1. Marks(x, x)  BY <1>1, MarksItself
  <2>. QED  BY <1>1, <1>2, <1>3, <2>1, RanKept
<1>5. Awaited(e, w2)
  <2> SUFFICES ASSUME NEW u \in Tasks, NEW p \in w2[u] PROVE e.at[p] = "sent" /\ e.answer[p] = "none"
    BY <1>2 DEF Awaited
  <2>1. p \in w[u] /\ p # t /\ p \in Tasks  BY <1>2
  <2>. QED  BY <1>1, <1>2, <2>1 DEF Awaited
<1>6. Followed(e, w2, m2, x)
  <2> SUFFICES ASSUME NEW u \in Tasks, e.at[u] = "sent", e.answer[u] = "none", ~m2[u], NEW c \in Chains, u \in Members(e.s, c)
               PROVE  AllRan(e, x, u, c) \/ \E p \in w2[u] : IsParent(e.s, p, u, c)
    BY DEF Followed
  <2>1. u # t  BY <1>2
  <2>2. d.at[u] = "sent" /\ d.answer[u] = "none" /\ ~m[u] /\ w2[u] = w[u] /\ u \in Members(d.s, c)  BY <1>2, <2>1
  <2>3. AllRan(d, x, u, c) \/ \E p \in w[u] : IsParent(d.s, p, u, c)  BY <1>1, <2>2 DEF Followed
  <2>4. AllRan(d, x, u, c) => AllRan(e, x, u, c)  BY <1>2 DEF AllRan
  <2>. QED  BY <1>2, <2>2, <2>3, <2>4
<1>. QED  BY <1>4, <1>5, <1>6 DEF Ordered

Execution(d, t) == [query |-> t, chains |-> ChainSet(d.s, t), lost |-> FALSE]

LEMMA Appended ==
  ASSUME NEW x \in Seq(Executions), NEW r \in Executions, NEW y, y = Append(x, r)
  PROVE  /\ y \in Seq(Executions) /\ DOMAIN y = 1 .. Len(x) + 1 /\ DOMAIN x = 1 .. Len(x) /\ Len(x) \in Nat
         /\ y[Len(x) + 1] = r /\ \A i \in 1 .. Len(x) : y[i] = x[i]
         /\ \A t : Ran(y, t) <=> Ran(x, t) \/ t = r.query
         /\ \A t : Unlost(y, t) <=> Unlost(x, t) \/ (t = r.query /\ ~r.lost)
         /\ \A i \in 1 .. Len(x) : \A t : Before(y, i, t) <=> Before(x, i, t)
         /\ \A t : Ran(x, t) <=> Before(y, Len(x) + 1, t)
<1>1. PICK n \in Nat : n = Len(x)  OBVIOUS
<1>2. /\ y \in Seq(Executions) /\ DOMAIN y = 1 .. n + 1 /\ DOMAIN x = 1 .. n /\ y[n + 1] = r
      /\ \A i \in 1 .. n : y[i] = x[i]
  BY <1>1
<1>3. \A i \in DOMAIN y : i = n + 1 \/ i \in DOMAIN x  BY <1>2
<1>4. n + 1 \in DOMAIN y /\ \A i \in DOMAIN x : i \in DOMAIN y /\ y[i] = x[i]  BY <1>2
<1>5. \A t : Ran(y, t) <=> Ran(x, t) \/ t = r.query  BY <1>2, <1>3, <1>4 DEF Ran
<1>6. \A t : Unlost(y, t) <=> Unlost(x, t) \/ (t = r.query /\ ~r.lost)  BY <1>2, <1>3, <1>4 DEF Unlost
<1>7. \A i \in 1 .. n : \A t : Before(y, i, t) <=> Before(x, i, t)
  <2>1. \A i \in 1 .. n : \A k \in 1 .. i - 1 : k \in 1 .. n  OBVIOUS
  <2>. QED  BY <1>2, <2>1 DEF Before
<1>8. \A t : Ran(x, t) <=> Before(y, n + 1, t)
  <2>1. 1 .. (n + 1) - 1 = 1 .. n  OBVIOUS
  <2>. QED  BY <1>2, <2>1 DEF Ran, Before
<1>. QED  BY <1>1, <1>2, <1>5, <1>6, <1>7, <1>8

LEMMA OrderExecuted ==
  ASSUME NEW d, Sound(d), NEW w, NEW m, NEW x, Ordered(d, w, m, x), InOrder(x),
         NEW t \in Tasks, d.at[t] = "sent", d.answer[t] = "none", w[t] = {}, ~m[t],
         NEW e, NEW w2, NEW m2, Answered(d, t, "ok", w, m, e, w2, m2), NEW y, y = Append(x, Execution(d, t))
  PROVE  Ordered(e, w2, m2, y) /\ InOrder(y)
<1>1. /\ Prefixed(d, x) /\ Awaited(d, w) /\ Followed(d, w, m, x) /\ Recorded(d, x) /\ Joined(d.s)
      /\ w \in [Tasks -> SUBSET Tasks] /\ x \in Seq(Executions)
  BY DEF Ordered, Awaited, Recorded, Sound, Settled, Good
<1>2. /\ e.s = d.s /\ e.at = d.at /\ e.answer[t] = "ok" /\ \A u \in Tasks : u # t => e.answer[u] = d.answer[u]
      /\ w2 \in [Tasks -> SUBSET Tasks] /\ \A u \in Tasks : w2[u] = w[u] \ {t} /\ (~m2[u] => ~m[u])
  BY DEF Answered
<1>3. PICK r, n : r = Execution(d, t) /\ n = Len(x)  OBVIOUS
<1>4. r \in Executions /\ r.query = t /\ r.chains = ChainSet(d.s, t) /\ r.lost = FALSE
  <2>1. PICK z : z = ChainSet(d.s, t) /\ z \in SUBSET Chains  BY <1>1, ChainSetIs
  <2>2. r = [query |-> t, chains |-> z, lost |-> FALSE]  BY <1>3, <2>1 DEF Execution
  <2>. QED  BY <2>1, <2>2 DEF Executions
<1>5. /\ y \in Seq(Executions) /\ DOMAIN y = 1 .. n + 1 /\ DOMAIN x = 1 .. n /\ n \in Nat
      /\ y[n + 1] = r /\ \A i \in 1 .. n : y[i] = x[i]
      /\ \A u : Ran(y, u) <=> Ran(x, u) \/ u = t
      /\ \A u : Unlost(y, u) <=> Unlost(x, u) \/ u = t
      /\ \A i \in 1 .. n : \A u : Before(y, i, u) <=> Before(x, i, u)
      /\ \A u : Ran(x, u) <=> Before(y, n + 1, u)
  <2>1. y = Append(x, r) /\ ~r.lost  BY <1>3, <1>4
  <2>2. /\ y \in Seq(Executions) /\ DOMAIN y = 1 .. Len(x) + 1 /\ DOMAIN x = 1 .. Len(x) /\ Len(x) \in Nat
        /\ y[Len(x) + 1] = r /\ \A i \in 1 .. Len(x) : y[i] = x[i]
        /\ \A u : Ran(y, u) <=> Ran(x, u) \/ u = r.query
        /\ \A u : Unlost(y, u) <=> Unlost(x, u) \/ (u = r.query /\ ~r.lost)
        /\ \A i \in 1 .. Len(x) : \A u : Before(y, i, u) <=> Before(x, i, u)
        /\ \A u : Ran(x, u) <=> Before(y, Len(x) + 1, u)
    BY <1>1, <1>4, <2>1, Appended
  <2>. QED  BY <1>3, <1>4, <2>1, <2>2
<1>6. \A c \in Chains : \A u \in Members(d.s, c) : u \in Tasks /\ u \in Nat  BY <1>1, MemberIs
<1>7. \A c \in Chains : t \in Members(d.s, c) => AllRan(d, x, t, c)  BY <1>1 DEF Followed
<1>8. Prefixed(e, y)
  <2> SUFFICES ASSUME NEW c \in Chains, NEW v \in Members(d.s, c), Ran(y, v), NEW u \in Ahead(d.s, v, c) PROVE Ran(x, u)
    BY <1>2, <1>5 DEF Prefixed, AllRan
  <2>1. CASE v = t  BY <1>7, <2>1 DEF AllRan
  <2>2. CASE v # t
    <3>1. Ran(x, v)  BY <1>5, <2>2
    <3>. QED  BY <1>1, <3>1 DEF Prefixed, AllRan
  <2>. QED  BY <2>1, <2>2
<1>9. Awaited(e, w2)
  <2> SUFFICES ASSUME NEW u \in Tasks, NEW p \in w2[u] PROVE e.at[p] = "sent" /\ e.answer[p] = "none"
    BY <1>2 DEF Awaited
  <2>1. p \in w[u] /\ p # t /\ p \in Tasks  BY <1>2
  <2>. QED  BY <1>1, <1>2, <2>1 DEF Awaited
<1>10. Followed(e, w2, m2, y)
  <2> SUFFICES ASSUME NEW u \in Tasks, e.at[u] = "sent", e.answer[u] = "none", ~m2[u], NEW c \in Chains, u \in Members(e.s, c)
               PROVE  AllRan(e, y, u, c) \/ \E p \in w2[u] : IsParent(e.s, p, u, c)
    BY <1>2 DEF Followed
  <2>1. u # t  BY <1>2
  <2>2. d.at[u] = "sent" /\ d.answer[u] = "none" /\ ~m[u] /\ w2[u] = w[u] \ {t} /\ u \in Members(d.s, c)  BY <1>2, <2>1
  <2>3. AllRan(d, x, u, c) \/ \E p \in w[u] : IsParent(d.s, p, u, c)  BY <1>1, <2>2 DEF Followed
  <2>4. AllRan(d, x, u, c) => AllRan(e, y, u, c)  BY <1>2, <1>5 DEF AllRan
  <2>5. ASSUME IsParent(d.s, t, u, c) PROVE AllRan(e, y, u, c)
    <3>1. t \in Members(d.s, c) /\ t \in Nat /\ \A v \in Ahead(d.s, u, c) : v <= t
      BY <1>6, <2>5 DEF IsParent, Ahead
    <3>2. AllRan(d, x, t, c)  BY <1>7, <3>1
    <3>3. ASSUME NEW v \in Ahead(d.s, u, c) PROVE Ran(y, v)
      <4>1. v \in Members(d.s, c) /\ v \in Nat /\ v <= t  BY <1>6, <3>1 DEF Ahead
      <4>2. v = t \/ v \in Ahead(d.s, t, c)  BY <3>1, <4>1 DEF Ahead
      <4>. QED  BY <1>5, <3>2, <4>2 DEF AllRan
    <3>. QED  BY <1>2, <3>3 DEF AllRan
  <2>6. ASSUME NEW p \in w[u], IsParent(d.s, p, u, c), p # t PROVE \E q \in w2[u] : IsParent(e.s, q, u, c)
    BY <1>2, <2>2, <2>6
  <2>. QED  BY <2>3, <2>4, <2>5, <2>6
<1>11. \A c \in ChainSet(d.s, t) : c \in Chains /\ t \in Members(d.s, c)  BY <1>1, ChainSetIs
<1>12. Recorded(e, y)
  <2>1. ASSUME NEW u \in Tasks PROVE Known(e, y, u)
    <3>1. Known(d, x, u)  BY <1>1 DEF Recorded
    <3>2. CASE u = t  BY <1>2, <1>5, <3>2 DEF Known
    <3>3. CASE u # t
      <4>1. e.answer[u] = d.answer[u] /\ e.at[u] = d.at[u]  BY <1>2, <3>3
      <4>2. (Ran(y, u) <=> Ran(x, u)) /\ (Unlost(y, u) <=> Unlost(x, u))  BY <1>5, <3>3
      <4>. QED  BY <3>1, <4>1, <4>2 DEF Known
    <3>. QED  BY <3>2, <3>3
  <2>2. ASSUME NEW i \in 1 .. n + 1, NEW c \in y[i].chains, NEW q \in Members(d.s, c), q < y[i].query
        PROVE  Before(y, i, q)
    <3>1. CASE i \in 1 .. n
      <4>1. y[i] = x[i] /\ i \in DOMAIN x  BY <1>5, <3>1
      <4>2. Before(x, i, q)  BY <1>1, <2>2, <4>1 DEF Recorded
      <4>. QED  BY <1>5, <3>1, <4>2
    <3>2. CASE i \notin 1 .. n
      <4>1. i = n + 1 /\ y[i] = r  BY <1>5, <3>2
      <4>2. c \in ChainSet(d.s, t) /\ q < t  BY <1>4, <2>2, <4>1
      <4>3. q \in Ahead(d.s, t, c)  BY <2>2, <4>2 DEF Ahead
      <4>4. Ran(x, q)  BY <1>7, <1>11, <4>2, <4>3 DEF AllRan
      <4>. QED  BY <1>5, <4>1, <4>4
    <3>. QED  BY <3>1, <3>2
  <2>. QED  BY <1>2, <1>5, <2>1, <2>2 DEF Recorded
<1>13. InOrder(y)
  <2> SUFFICES ASSUME NEW i \in 1 .. n + 1, NEW j \in 1 .. n + 1, i < j
               PROVE  /\ y[i].query = y[j].query => y[i].lost
                      /\ y[i].chains \cap y[j].chains # {} /\ y[j].query < y[i].query => Before(y, i, y[j].query)
    BY <1>5 DEF InOrder
  <2>1. i \in 1 .. n /\ i \in DOMAIN x /\ y[i] = x[i]  BY <1>5
  <2>2. CASE j \in 1 .. n
    <3>1. j \in DOMAIN x /\ y[j] = x[j]  BY <1>5, <2>2
    <3>2. /\ x[i].query = x[j].query => x[i].lost
          /\ x[i].chains \cap x[j].chains # {} /\ x[j].query < x[i].query => Before(x, i, x[j].query)
      BY <2>1, <3>1 DEF InOrder
    <3>. QED  BY <1>5, <2>1, <3>1, <3>2
  <2>3. CASE j \notin 1 .. n
    <3>1. j = n + 1 /\ y[j] = r /\ y[j].query = t /\ y[j].chains = ChainSet(d.s, t)  BY <1>4, <1>5, <2>3
    <3>2. ASSUME x[i].query = t PROVE x[i].lost
      <4>1. ~Unlost(x, t)  BY <1>1 DEF Recorded, Known
      <4>. QED  BY <2>1, <3>2, <4>1 DEF Unlost
    <3>3. ASSUME NEW c \in x[i].chains, c \in ChainSet(d.s, t), t < x[i].query PROVE Before(x, i, t)
      <4>1. t \in Members(d.s, c)  BY <1>11, <3>3
      <4>. QED  BY <1>1, <2>1, <3>3, <4>1 DEF Recorded
    <3>. QED  BY <1>5, <2>1, <3>1, <3>2, <3>3
  <2>. QED  BY <2>2, <2>3
<1>. QED  BY <1>8, <1>9, <1>10, <1>12, <1>13 DEF Ordered

-------------------------------------------------------------------------------
(* Flood waits.  What a query has waited, what it owes, the flood waits of    *)
(* others that it may yet be charged with, and the refusals on their way are  *)
(* all faults that have happened.                                             *)
Floods(d, u) == {t \in Tasks : t # u /\ d.flood[t]}
Refusals(d) == {t \in Tasks : d.answer[t] = "flood"}
Budget(d, n) ==
  \A u \in Tasks : d.total[u] + d.owed[u] + Cardinality(Floods(d, u)) + Cardinality(Refusals(d)) <= n

LEMMA Counts ==
  ASSUME NEW S, S \subseteq Tasks
  PROVE  /\ IsFiniteSet(S) /\ Cardinality(S) \in Nat
         /\ \A R \in SUBSET S : Cardinality(R) \in Nat /\ Cardinality(R) <= Cardinality(S)
         /\ \A t \in S : Cardinality(S \ {t}) = Cardinality(S) - 1
         /\ \A t : Cardinality(S \union {t}) \in Nat /\ Cardinality(S \union {t}) <= Cardinality(S) + 1
<1>1. IsFiniteSet(S) /\ Cardinality(S) \in Nat  BY SchedulerAssumption, FS_Subset, FS_CardinalityType
<1>2. \A R \in SUBSET S : Cardinality(R) \in Nat /\ Cardinality(R) <= Cardinality(S)
  BY <1>1, FS_Subset, FS_CardinalityType
<1>3. \A t \in S : Cardinality(S \ {t}) = Cardinality(S) - 1  BY <1>1, FS_RemoveElement
<1>4. ASSUME NEW t PROVE Cardinality(S \union {t}) \in Nat /\ Cardinality(S \union {t}) <= Cardinality(S) + 1
  <2>1. CASE t \in S
    <3>1. S \union {t} = S  BY <2>1
    <3>2. PICK k \in Nat : k = Cardinality(S)  BY <1>1
    <3>3. k <= k + 1  OBVIOUS
    <3>. QED  BY <3>1, <3>2, <3>3
  <2>2. CASE t \notin S
    <3>1. Cardinality(S \union {t}) = Cardinality(S) + 1  BY <1>1, <2>2, FS_AddElement
    <3>. QED  BY <1>1, <3>1
  <2>. QED  BY <2>1, <2>2
<1>. QED  BY <1>1, <1>2, <1>3, <1>4

LEMMA Budgeted ==
  ASSUME NEW d \in Views, NEW e \in Views, NEW n \in Nat, NEW n2 \in Nat, Budget(d, n),
         \A u \in Tasks : \E i \in Int, j \in Int, k \in Int :
           /\ e.total[u] + e.owed[u] <= d.total[u] + d.owed[u] + i
           /\ Cardinality(Floods(e, u)) <= Cardinality(Floods(d, u)) + j
           /\ Cardinality(Refusals(e)) <= Cardinality(Refusals(d)) + k
           /\ i + j + k <= n2 - n
  PROVE  Budget(e, n2)
<1> SUFFICES ASSUME NEW u \in Tasks
             PROVE  e.total[u] + e.owed[u] + Cardinality(Floods(e, u)) + Cardinality(Refusals(e)) <= n2
  BY DEF Budget
<1>1. PICK a \in Nat, b \in Nat, f \in Nat, r \in Nat :
        a = d.total[u] /\ b = d.owed[u] /\ f = Cardinality(Floods(d, u)) /\ r = Cardinality(Refusals(d))
  BY ViewFields, Counts DEF Floods, Refusals
<1>2. PICK a2 \in Nat, b2 \in Nat, f2 \in Nat, r2 \in Nat :
        a2 = e.total[u] /\ b2 = e.owed[u] /\ f2 = Cardinality(Floods(e, u)) /\ r2 = Cardinality(Refusals(e))
  BY ViewFields, Counts DEF Floods, Refusals
<1>3. a + b + f + r <= n  BY <1>1 DEF Budget
<1>4. PICK i \in Int, j \in Int, k \in Int : a2 + b2 <= a + b + i /\ f2 <= f + j /\ r2 <= r + k /\ i + j + k <= n2 - n
  BY <1>1, <1>2
<1>5. a2 + b2 + f2 + r2 <= n2  BY ONLY <1>3, <1>4, a \in Nat, b \in Nat, f \in Nat, r \in Nat, a2 \in Nat, b2 \in Nat,
        f2 \in Nat, r2 \in Nat, n \in Nat, n2 \in Nat, i \in Int, j \in Int, k \in Int
<1>. QED  BY <1>2, <1>5

LEMMA DebtBudget ==
  ASSUME NEW d \in Views, NEW e \in Views, NEW n \in Nat, NEW n2 \in Nat, n <= n2, Budget(d, n), Debt(d, e)
  PROVE  Budget(e, n2)
<1>1. ASSUME NEW u \in Tasks
      PROVE  /\ e.total[u] + e.owed[u] <= d.total[u] + d.owed[u] + 0
             /\ Cardinality(Floods(e, u)) <= Cardinality(Floods(d, u)) + 0
             /\ Cardinality(Refusals(e)) <= Cardinality(Refusals(d)) + 0
  <2>1. PICK a \in Nat, b \in Nat : a = d.total[u] /\ b = d.owed[u]  BY ViewFields
  <2>2. PICK c \in Nat : c = e.total[u] + e.owed[u]
    <3>1. e.total[u] \in Nat /\ e.owed[u] \in Nat  BY ViewFields
    <3>. QED  BY <3>1
  <2>3. c <= a + b + 0  BY <2>1, <2>2 DEF Debt
  <2>4. Floods(e, u) \subseteq Floods(d, u) /\ Refusals(e) \subseteq Refusals(d)  BY DEF Debt, Floods, Refusals
  <2>5. /\ Cardinality(Floods(e, u)) <= Cardinality(Floods(d, u)) /\ Cardinality(Refusals(e)) <= Cardinality(Refusals(d))
        /\ Cardinality(Floods(d, u)) \in Nat /\ Cardinality(Refusals(d)) \in Nat
    <3>1. Floods(d, u) \subseteq Tasks /\ Refusals(d) \subseteq Tasks  BY DEF Floods, Refusals
    <3>. QED  BY <2>4, <3>1, Counts
  <2>. QED  BY <2>1, <2>2, <2>3, <2>5
<1>2. 0 \in Int /\ 0 + 0 + 0 <= n2 - n  OBVIOUS
<1>. QED  BY <1>1, <1>2, Budgeted

LEMMA OwesBudget ==
  ASSUME NEW d \in Views, NEW n \in Nat, Budget(d, n), NEW t \in Tasks, d.flood[t], NEW e, OwesFrom(d, t, e)
  PROVE  Budget(e, n)
<1>1. /\ e \in Views /\ e.answer = d.answer /\ e.total = d.total
      /\ e.flood[t] = FALSE /\ \A u \in Tasks : u # t => e.flood[u] = d.flood[u]
      /\ e.owed[t] = d.owed[t] /\ \A u \in Tasks : e.owed[u] \in {d.owed[u], d.owed[u] + 1}
  BY DEF OwesFrom
<1>2. Refusals(e) = Refusals(d) /\ Cardinality(Refusals(d)) \in Nat  BY <1>1, Counts DEF Refusals
<1>3. ASSUME NEW u \in Tasks
      PROVE  \E i \in Int, j \in Int, k \in Int :
               /\ e.total[u] + e.owed[u] <= d.total[u] + d.owed[u] + i
               /\ Cardinality(Floods(e, u)) <= Cardinality(Floods(d, u)) + j
               /\ Cardinality(Refusals(e)) <= Cardinality(Refusals(d)) + k
               /\ i + j + k <= n - n
  <2>1. PICK a \in Nat, b \in Nat, f \in Nat, r \in Nat :
          a = d.total[u] /\ b = d.owed[u] /\ f = Cardinality(Floods(d, u)) /\ r = Cardinality(Refusals(d))
    BY ViewFields, Counts DEF Floods, Refusals
  <2>2. CASE u = t
    <3>1. Floods(e, u) = Floods(d, u)  BY <1>1, <2>2 DEF Floods
    <3>2. a + b <= a + b + 0 /\ f <= f + 0 /\ r <= r + 0 /\ 0 + 0 + 0 <= n - n /\ 0 \in Int
      BY <2>1
    <3>. QED  BY <1>1, <1>2, <2>1, <2>2, <3>1, <3>2
  <2>3. CASE u # t
    <3>1. Floods(e, u) = Floods(d, u) \ {t} /\ t \in Floods(d, u)  BY <1>1, <2>3 DEF Floods
    <3>2. Cardinality(Floods(e, u)) = f - 1  BY <2>1, <3>1, Counts DEF Floods
    <3>3. PICK b2 \in Nat : b2 = e.owed[u] /\ (b2 = b \/ b2 = b + 1)  BY <1>1, <2>1, ViewFields
    <3>4. a + b2 <= a + b + 1 /\ f - 1 <= f + (-1) /\ r <= r + 0 /\ 1 + (-1) + 0 <= n - n /\ 0 \in Int /\ 1 \in Int /\ -1 \in Int
      BY <2>1, <3>3
    <3>. QED  BY <1>1, <1>2, <2>1, <3>2, <3>3, <3>4
  <2>. QED  BY <2>2, <2>3
<1>. QED  BY <1>1, <1>3, Budgeted

LEMMA CostsBudget ==
  ASSUME NEW d \in Views, NEW e \in Views, NEW n \in Nat, Budget(d, n), NEW t \in Tasks, Costs(d, t, e)
  PROVE  Budget(e, n)
<1>1. CASE Debt(d, e)  BY <1>1, DebtBudget
<1>2. CASE d.flood[t] /\ \E f : OwesFrom(d, t, f) /\ Debt(f, e)
  <2>1. PICK f : OwesFrom(d, t, f) /\ Debt(f, e)  BY <1>2
  <2>2. Budget(f, n) /\ f \in Views
    <3>1. Budget(f, n)  BY <1>2, <2>1, OwesBudget
    <3>. QED  BY <2>1, <3>1 DEF OwesFrom
  <2>. QED  BY <2>1, <2>2, DebtBudget
<1>. QED  BY <1>1, <1>2 DEF Costs

(* delay *)
LEMMA DelayBudget ==
  ASSUME NEW d \in Views, NEW n \in Nat, Budget(d, n), NEW t \in Tasks, d.answer[t] = "flood",
         NEW e \in Views, e.owed = d.owed, e.flood = [d.flood EXCEPT ![t] = TRUE], e.total = [d.total EXCEPT ![t] = @ + 1],
         e.answer[t] # "flood", \A u \in Tasks : u # t => e.answer[u] = d.answer[u]
  PROVE  Budget(e, n)
<1>1. /\ \A u \in Tasks : u # t => e.flood[u] = d.flood[u] /\ e.total[u] = d.total[u]
      /\ e.total[t] = d.total[t] + 1
  BY ViewFields
<1>2. t \in Refusals(d) /\ Refusals(e) = Refusals(d) \ {t}  BY DEF Refusals
<1>3. PICK r \in Nat : r = Cardinality(Refusals(d)) /\ Cardinality(Refusals(e)) = r - 1
  <2>1. Refusals(d) \subseteq Tasks  BY DEF Refusals
  <2>2. Cardinality(Refusals(d)) \in Nat /\ Cardinality(Refusals(d) \ {t}) = Cardinality(Refusals(d)) - 1
    BY <1>2, <2>1, Counts
  <2>. QED  BY <1>2, <2>2
<1>4. ASSUME NEW u \in Tasks
      PROVE  \E i \in Int, j \in Int, k \in Int :
               /\ e.total[u] + e.owed[u] <= d.total[u] + d.owed[u] + i
               /\ Cardinality(Floods(e, u)) <= Cardinality(Floods(d, u)) + j
               /\ Cardinality(Refusals(e)) <= Cardinality(Refusals(d)) + k
               /\ i + j + k <= n - n
  <2>1. PICK a \in Nat, b \in Nat, f \in Nat : a = d.total[u] /\ b = d.owed[u] /\ f = Cardinality(Floods(d, u))
    <3>1. Floods(d, u) \subseteq Tasks  BY DEF Floods
    <3>2. Cardinality(Floods(d, u)) \in Nat  BY <3>1, Counts
    <3>. QED  BY <3>2, ViewFields
  <2>2. CASE u = t
    <3>1. Floods(e, u) = Floods(d, u)  BY <1>1, <2>2 DEF Floods
    <3>2. a + 1 + b <= a + b + 1 /\ f <= f + 0 /\ r - 1 <= r + (-1) /\ 1 + 0 + (-1) <= n - n /\ 0 \in Int /\ 1 \in Int /\ -1 \in Int
      BY <2>1, <1>3
    <3>. QED  BY <1>1, <1>3, <2>1, <2>2, <3>1, <3>2
  <2>3. CASE u # t
    <3>1. Floods(e, u) \subseteq Floods(d, u) \union {t}  BY <1>1 DEF Floods
    <3>2. Floods(e, u) \subseteq Tasks /\ Floods(d, u) \subseteq Tasks  BY DEF Floods
    <3>3. PICK f2 \in Nat, f3 \in Nat : f2 = Cardinality(Floods(e, u)) /\ f3 = Cardinality(Floods(d, u) \union {t}) /\ f3 <= f + 1
      BY <2>1, <3>2, Counts
    <3>4. f2 <= f3
      <4>1. Floods(d, u) \union {t} \subseteq Tasks  BY <3>2
      <4>. QED  BY <3>1, <3>3, <4>1, Counts
    <3>5. a + b <= a + b + 0 /\ f2 <= f + 1 /\ r - 1 <= r + (-1) /\ 0 + 1 + (-1) <= n - n /\ 0 \in Int /\ 1 \in Int /\ -1 \in Int
      BY <2>1, <1>3, <3>3, <3>4
    <3>. QED  BY <1>1, <1>3, <2>1, <2>3, <3>3, <3>5
  <2>. QED  BY <2>2, <2>3
<1>. QED  BY <1>4, Budgeted

(* A refusal is a fault.                                                      *)
LEMMA RefusalBudget ==
  ASSUME NEW d \in Views, NEW n \in Nat, Budget(d, n), NEW t \in Tasks,
         NEW e \in Views, e.owed = d.owed, e.flood = d.flood, e.total = d.total,
         \A u \in Tasks : u # t => e.answer[u] = d.answer[u]
  PROVE  Budget(e, n + 1)
<1>1. PICK r \in Nat : r = Cardinality(Refusals(d))  BY Counts DEF Refusals
<1>2. PICK r2 \in Nat : r2 = Cardinality(Refusals(e)) /\ r2 <= r + 1
  <2>1. Refusals(e) \subseteq Refusals(d) \union {t} /\ Refusals(d) \subseteq Tasks /\ Refusals(d) \union {t} \subseteq Tasks
    BY DEF Refusals
  <2>2. PICK r3 \in Nat : r3 = Cardinality(Refusals(d) \union {t}) /\ r3 <= r + 1  BY <1>1, <2>1, Counts
  <2>3. Cardinality(Refusals(e)) \in Nat /\ Cardinality(Refusals(e)) <= r3  BY <2>1, <2>2, Counts
  <2>. QED  BY <1>1, <2>2, <2>3
<1>3. PICK n2 \in Nat : n2 = n + 1  OBVIOUS
<1>4. ASSUME NEW u \in Tasks
      PROVE  \E i \in Int, j \in Int, k \in Int :
               /\ e.total[u] + e.owed[u] <= d.total[u] + d.owed[u] + i
               /\ Cardinality(Floods(e, u)) <= Cardinality(Floods(d, u)) + j
               /\ Cardinality(Refusals(e)) <= Cardinality(Refusals(d)) + k
               /\ i + j + k <= n2 - n
  <2>1. PICK a \in Nat, b \in Nat, f \in Nat : a = d.total[u] /\ b = d.owed[u] /\ f = Cardinality(Floods(d, u))
    BY ViewFields, Counts DEF Floods, Refusals
  <2>2. Floods(e, u) = Floods(d, u)  BY DEF Floods
  <2>3. a + b <= a + b + 0 /\ f <= f + 0 /\ r2 <= r + 1 /\ 0 + 0 + 1 <= n2 - n /\ 0 \in Int /\ 1 \in Int
    BY <2>1, <1>2, <1>3
  <2>. QED  BY <1>1, <1>2, <2>1, <2>2, <2>3
<1>5. Budget(e, n2)  BY <1>4, Budgeted
<1>. QED  BY <1>3, <1>5

-------------------------------------------------------------------------------
(* The inductive invariant.                                                   *)
Whole(d, w, m, x, n) ==
  /\ Sound(d) /\ d.s.pending = << >>
  /\ Ordered(d, w, m, x) /\ InOrder(x) /\ m \in [Tasks -> BOOLEAN]
  /\ Budget(d, n) /\ n \in 0 .. MaxFaults

DispatcherInv == Whole(d0, waits, doomed, executed, faults)

LEMMA BudgetNumbers == MaxFaults \in Nat
  BY DispatcherAssumption

LEMMA Handled ==
  ASSUME NEW d, NEW w, NEW m, NEW x, NEW n, Whole(d, w, m, x, n),
         NEW e, Sound(e), Moves(d, e), e.s.pending = << >>, Debt(d, e) \/ \E t \in Tasks : Costs(d, t, e)
  PROVE  Whole(e, w, m, x, n)
<1>1. Sound(d) /\ Ordered(d, w, m, x) /\ Budget(d, n) /\ n \in 0 .. MaxFaults  BY DEF Whole
<1>2. Ordered(e, w, m, x)  BY <1>1, OrderMoves
<1>3. Budget(e, n)
  <2>1. d \in Views /\ e \in Views /\ n \in Nat /\ n <= n  BY <1>1, BudgetNumbers DEF Sound
  <2>2. CASE Debt(d, e)  BY <1>1, <2>1, <2>2, DebtBudget
  <2>3. CASE \E t \in Tasks : Costs(d, t, e)  BY <1>1, <2>1, <2>3, CostsBudget
  <2>. QED  BY <2>2, <2>3
<1>. QED  BY <1>2, <1>3 DEF Whole

LEMMA Kept ==
  ASSUME NEW d, NEW w, NEW m, NEW x, NEW n, Whole(d, w, m, x, n),
         NEW e \in Views, e.s = d.s, e.after = d.after, \A u \in Tasks : Passes(d, e, u) /\ Speaks(e, u),
         NEW w2, NEW m2 \in [Tasks -> BOOLEAN], NEW x2, Ordered(e, w2, m2, x2), InOrder(x2),
         NEW n2 \in 0 .. MaxFaults, Budget(e, n2)
  PROVE  Whole(e, w2, m2, x2, n2)
<1>1. Sound(d) /\ d.s.pending = << >>  BY DEF Whole
<1>2. Sound(e)  BY <1>1, Passed
<1>. QED  BY <1>1, <1>2 DEF Whole

LEMMA StaysMoves ==
  ASSUME NEW d, NEW e, e.s = d.s, \A u \in Tasks : Stays(d, e, u)
  PROVE  Moves(d, e)
  BY DEF Moves, Members

LEMMA Framed ==
  ASSUME NEW d \in Views, NEW at2 \in [Tasks -> Places],
         NEW answer2 \in [Tasks -> {"none", "ok", "error", "wait", "flood"}],
         NEW flood2 \in [Tasks -> BOOLEAN], NEW total2 \in [Tasks -> Nat],
         NEW e, e = [s |-> d.s, at |-> at2, after |-> d.after, answer |-> answer2, flood |-> flood2, total |-> total2,
                     owed |-> d.owed]
  PROVE  e \in Views
<1>1. d.s \in Schedulers /\ d.after \in [Tasks -> SUBSET Tasks] /\ d.owed \in [Tasks -> Nat]  BY ViewFields
<1>. QED  BY <1>1 DEF Views

(* The rigid view of a state, and of the next one.                            *)
LEMMA BecomesIs ==
  ASSUME NEW f \in Views, Becomes(f)
  PROVE  f = d0' /\ waits' = waits /\ doomed' = doomed /\ executed' = executed
<1>1. f = [s |-> f.s, at |-> f.at, after |-> f.after, answer |-> f.answer, flood |-> f.flood, total |-> f.total,
           owed |-> f.owed]
  BY DEF Views
<1>. QED  BY <1>1 DEF Becomes, d0

LEMMA Becoming ==
  ASSUME NEW d, d = d0, NEW e, Becomes(e), NoFault, DispatcherInv, Sound(e), Moves(d, e), e.s.pending = << >>,
         Debt(d, e) \/ \E t \in Tasks : Costs(d, t, e)
  PROVE  DispatcherInv'
<1>1. PICK w, m, x, n : w = waits /\ m = doomed /\ x = executed /\ n = faults  OBVIOUS
<1>2. Whole(d, w, m, x, n)  BY <1>1 DEF DispatcherInv
<1>3. Whole(e, w, m, x, n)  BY <1>2, Handled
<1>4. e = d0' /\ w = waits' /\ m = doomed' /\ x = executed' /\ n = faults'
  <2>1. e \in Views  BY DEF Sound
  <2>. QED  BY <1>1, <2>1, BecomesIs DEF NoFault
<1>. QED  BY <1>3, <1>4 DEF DispatcherInv

LEMMA SendKeeps ==
  ASSUME DispatcherInv, NEW t \in Tasks, NEW l \in ChainLists, Send(t, l)
  PROVE  DispatcherInv'
<1>1. PICK d : d = d0  OBVIOUS
<1>2. /\ Sound(d) /\ d.s.pending = << >> /\ d.s = sched /\ d.at = at  BY <1>1 DEF DispatcherInv, Whole, d0
<1>3. PICK e : e = Flush([d EXCEPT !.s = CreateTask(d.s, t, l), !.at[t] = "node"])  OBVIOUS
<1>4. Becomes(e) /\ NoFault /\ d.at[t] = "new" /\ \A u \in Tasks : u < t => d.at[u] # "new"
  BY <1>1, <1>2, <1>3 DEF Send
<1>5. Sound(e) /\ Moves(d, e) /\ Debt(d, e) /\ e.s.pending = << >>  BY <1>2, <1>3, <1>4, SendHandled
<1>. QED  BY <1>1, <1>4, <1>5, Becoming

LEMMA OnResultKeeps ==
  ASSUME DispatcherInv, NEW t \in Tasks, OnResult(t)
  PROVE  DispatcherInv'
<1>1. PICK d : d = d0  OBVIOUS
<1>2. Sound(d) /\ d.s.pending = << >> /\ d.at = at /\ d.answer = answer  BY <1>1 DEF DispatcherInv, Whole, d0
<1>3. PICK f : f = ChargeDependents(d, t)  OBVIOUS
<1>4. PICK e : e = IF d.answer[t] = "wait" THEN Flush(DoResend(f, t)) ELSE TryResend(f, t)  OBVIOUS
<1>5. Becomes(e) /\ NoFault /\ d.at[t] = "answered"  BY <1>1, <1>2, <1>3, <1>4 DEF OnResult
<1>6. Sound(e) /\ Moves(d, e) /\ Costs(d, t, e) /\ e.s.pending = << >>  BY <1>2, <1>3, <1>4, <1>5, ResultHandled
<1>. QED  BY <1>1, <1>5, <1>6, Becoming

LEMMA OnResendKeeps ==
  ASSUME DispatcherInv, NEW t \in Tasks, OnResend(t)
  PROVE  DispatcherInv'
<1>1. PICK d : d = d0  OBVIOUS
<1>2. Sound(d) /\ d.s.pending = << >> /\ d.at = at  BY <1>1 DEF DispatcherInv, Whole, d0
<1>3. PICK e : e = IF d.at[t] = "drop" THEN Finish(d, t) ELSE Flush(DoResend(d, t))  OBVIOUS
<1>4. Becomes(e) /\ NoFault /\ d.at[t] \in {"resend", "drop"}  BY <1>1, <1>2, <1>3 DEF OnResend
<1>5. Sound(e) /\ Moves(d, e) /\ Debt(d, e) /\ e.s.pending = << >>  BY <1>2, <1>3, <1>4, ResendHandled
<1>. QED  BY <1>1, <1>4, <1>5, Becoming

(* The actions that change neither the scheduler nor what a query refers to.  *)
LEMMA Views0 ==
  ASSUME DispatcherInv, NEW d, d = d0
  PROVE  /\ d \in Views /\ Sound(d) /\ Ordered(d, waits, doomed, executed) /\ InOrder(executed)
         /\ Budget(d, faults) /\ faults \in 0 .. MaxFaults /\ doomed \in [Tasks -> BOOLEAN]
         /\ waits \in [Tasks -> SUBSET Tasks]
         /\ d.s = sched /\ d.at = at /\ d.after = after /\ d.answer = answer /\ d.flood = flood /\ d.total = total
         /\ d.owed = owed
         /\ \A c \in Chains : Members(d.s, c) \subseteq Tasks
<1>1. Whole(d, waits, doomed, executed, faults)  BY DEF DispatcherInv
<1>2. Sound(d) /\ d \in Views /\ Joined(d.s)  BY <1>1 DEF Whole, Sound, Settled, Good
<1>3. \A c \in Chains : Members(d.s, c) \subseteq Tasks  BY <1>2, MemberIs
<1>4. Ordered(d, waits, doomed, executed)  BY <1>1 DEF Whole
<1>5. waits \in [Tasks -> SUBSET Tasks]  BY <1>4 DEF Ordered, Awaited
<1>. QED  BY <1>1, <1>2, <1>3, <1>4, <1>5 DEF Whole, d0

LEMMA Forward ==
  ASSUME DispatcherInv, NEW d, d = d0, UNCHANGED <<sched, after, owed>>,
         NEW at2, at2 = at', at2 \in [Tasks -> Places],
         NEW answer2, answer2 = answer', answer2 \in [Tasks -> {"none", "ok", "error", "wait", "flood"}],
         NEW flood2, flood2 = flood', flood2 \in [Tasks -> BOOLEAN],
         NEW total2, total2 = total', total2 \in [Tasks -> Nat]
  PROVE  \E e \in Views : /\ e = d0' /\ e.s = d.s /\ e.after = d.after /\ e.owed = d.owed
                          /\ e.at = at2 /\ e.answer = answer2 /\ e.flood = flood2 /\ e.total = total2
<1>1. PICK e : e = [s |-> d.s, at |-> at2, after |-> d.after, answer |-> answer2, flood |-> flood2, total |-> total2,
                    owed |-> d.owed]
  OBVIOUS
<1>2. d \in Views /\ d.s = sched /\ d.after = after /\ d.owed = owed  BY Views0
<1>3. e \in Views  BY <1>1, <1>2, Framed
<1>4. e = d0'  BY <1>1, <1>2 DEF d0
<1>. QED  BY <1>1, <1>3, <1>4

LEMMA Closing ==
  ASSUME DispatcherInv, NEW d, d = d0, NEW e \in Views, e = d0', e.s = d.s, e.after = d.after,
         \A u \in Tasks : Passes(d, e, u) /\ Speaks(e, u),
         NEW w2, w2 = waits', NEW m2, m2 = doomed', m2 \in [Tasks -> BOOLEAN], NEW x2, x2 = executed',
         Ordered(e, w2, m2, x2), InOrder(x2), NEW n2, n2 = faults', n2 \in 0 .. MaxFaults, Budget(e, n2)
  PROVE  DispatcherInv'
<1>1. PICK w, m, x, n : w = waits /\ m = doomed /\ x = executed /\ n = faults  OBVIOUS
<1>2. Whole(d, w, m, x, n)  BY <1>1 DEF DispatcherInv
<1>3. Whole(e, w2, m2, x2, n2)  BY <1>2, Kept
<1>. QED  BY <1>3 DEF DispatcherInv

(* Owner, delayer and the session that rejects: no message is sent or lost.   *)
LEMMA Hands ==
  ASSUME DispatcherInv, NEW d, d = d0, NEW e \in Views, e = d0', e.s = d.s, e.after = d.after,
         e.owed = d.owed, e.flood = d.flood, e.total = d.total,
         \A u \in Tasks : Passes(d, e, u) /\ Speaks(e, u) /\ Stays(d, e, u) /\ (e.answer[u] = "flood" => d.answer[u] = "flood"),
         UNCHANGED <<waits, doomed, executed>>, NEW n2, n2 = faults', n2 \in 0 .. MaxFaults, n2 \in {faults, faults + 1}
  PROVE  DispatcherInv'
<1>1. PICK w, m, x, n : w = waits /\ m = doomed /\ x = executed /\ n = faults  OBVIOUS
<1>2. /\ d \in Views /\ Sound(d) /\ Ordered(d, w, m, x) /\ InOrder(x) /\ Budget(d, n) /\ n \in 0 .. MaxFaults
      /\ m \in [Tasks -> BOOLEAN]
  BY <1>1, Views0
<1>3. Sound(e)  BY <1>2, Passed
<1>4. Moves(d, e)  BY StaysMoves
<1>5. Ordered(e, w, m, x)  BY <1>2, <1>3, <1>4, OrderMoves
<1>6. Debt(d, e)
  <2>1. Debt(d, d)  BY <1>2, Same
  <2>. QED  BY <2>1 DEF Debt
<1>7. Budget(e, n2)
  <2>1. n2 \in {n, n + 1} /\ n \in Nat /\ n2 \in Nat /\ n <= n2  BY <1>1, <1>2, BudgetNumbers
  <2>. QED  BY <1>2, <1>6, <2>1, DebtBudget
<1>8. w = waits' /\ m = doomed' /\ x = executed'  BY <1>1
<1>. QED  BY <1>2, <1>5, <1>7, <1>8, Closing

LEMMA OwnerKeeps ==
  ASSUME DispatcherInv, NEW t \in Tasks, OwnerAccepts(t) \/ OwnerRetries(t)
  PROVE  DispatcherInv'
<1>1. PICK d, p : d = d0 /\ p = (IF at'[t] = "drop" THEN "drop" ELSE "resend")  OBVIOUS
<1>2. d \in Views /\ Sound(d) /\ d.at = at /\ d.answer = answer /\ d.flood = flood /\ d.total = total /\ d.s = sched
      /\ faults \in 0 .. MaxFaults
  BY <1>1, Views0
<1>3. PICK at2, n2 : at2 = at' /\ n2 = faults'  OBVIOUS
<1>4. /\ at2 = [d.at EXCEPT ![t] = "drop"] \/ (at2 = [d.at EXCEPT ![t] = "resend"] /\ d.answer[t] = "error")
      /\ d.at[t] = "owner" /\ n2 \in {faults, faults + 1} /\ n2 \in 0 .. MaxFaults
      /\ UNCHANGED <<sched, after, owed, answer, flood, total, waits, doomed, executed>>
  BY <1>2, <1>3, BudgetNumbers DEF OwnerAccepts, OwnerRetries, Fault
<1>5. /\ at2 \in [Tasks -> Places] /\ \A u \in Tasks : u # t => at2[u] = d.at[u]
      /\ at2[t] = "drop" \/ (at2[t] = "resend" /\ d.answer[t] = "error")
  BY <1>2, <1>4, ViewFields DEF Places
<1>6. PICK answer2, flood2, total2 : answer2 = answer' /\ flood2 = flood' /\ total2 = total'  OBVIOUS
<1>7. answer2 = d.answer /\ flood2 = d.flood /\ total2 = d.total  BY <1>2, <1>4, <1>6
<1>8. /\ answer2 \in [Tasks -> {"none", "ok", "error", "wait", "flood"}] /\ flood2 \in [Tasks -> BOOLEAN]
      /\ total2 \in [Tasks -> Nat]
  BY <1>2, <1>7, ViewFields
<1>9. UNCHANGED <<sched, after, owed>>  BY <1>4
<1>10. PICK e \in Views : /\ e = d0' /\ e.s = d.s /\ e.after = d.after /\ e.owed = d.owed
                          /\ e.at = at2 /\ e.answer = answer2 /\ e.flood = flood2 /\ e.total = total2
  BY <1>1, <1>3, <1>5, <1>6, <1>8, <1>9, Forward
<1>11. ASSUME NEW u \in Tasks
       PROVE  Passes(d, e, u) /\ Speaks(e, u) /\ Stays(d, e, u) /\ (e.answer[u] = "flood" => d.answer[u] = "flood")
  <2>1. Speaks(d, u)  BY <1>2 DEF Sound
  <2>2. CASE u = t  BY <1>4, <1>5, <1>7, <1>10, <2>1, <2>2 DEF Passes, Speaks, Stays
  <2>3. CASE u # t  BY <1>4, <1>5, <1>7, <1>10, <2>1, <2>3 DEF Passes, Speaks, Stays
  <2>. QED  BY <2>2, <2>3
<1>. QED  BY <1>1, <1>3, <1>4, <1>7, <1>10, <1>11, Hands

LEMMA DelayEndsKeeps ==
  ASSUME DispatcherInv, NEW t \in Tasks, DelayEnds(t)
  PROVE  DispatcherInv'
<1>1. PICK d : d = d0  OBVIOUS
<1>2. /\ d \in Views /\ Sound(d) /\ d.at = at /\ d.after = after /\ d.answer = answer /\ d.flood = flood
      /\ d.total = total /\ d.s = sched /\ faults \in 0 .. MaxFaults
  BY <1>1, Views0
<1>3. PICK at2, answer2, flood2, total2, n2 :
        at2 = at' /\ answer2 = answer' /\ flood2 = flood' /\ total2 = total' /\ n2 = faults'
  OBVIOUS
<1>4. /\ \/ at2 = [d.at EXCEPT ![t] = "session"] /\ answer2 = d.answer
         \/ at2 = [d.at EXCEPT ![t] = "answered"] /\ answer2 = [d.answer EXCEPT ![t] = "wait"]
      /\ d.at[t] = "delayer" /\ n2 = faults /\ flood2 = d.flood /\ total2 = d.total
      /\ UNCHANGED <<sched, after, owed, waits, doomed, executed>>
  BY <1>2, <1>3 DEF DelayEnds
<1>5. /\ at2 \in [Tasks -> Places] /\ answer2 \in [Tasks -> {"none", "ok", "error", "wait", "flood"}]
      /\ \A u \in Tasks : u # t => at2[u] = d.at[u] /\ answer2[u] = d.answer[u]
      /\ (at2[t] = "session" /\ answer2[t] = d.answer[t]) \/ (at2[t] = "answered" /\ answer2[t] = "wait")
  BY <1>2, <1>4, ViewFields DEF Places
<1>6. flood2 \in [Tasks -> BOOLEAN] /\ total2 \in [Tasks -> Nat] /\ UNCHANGED <<sched, after, owed>>
  BY <1>2, <1>4, ViewFields
<1>7. PICK e \in Views : /\ e = d0' /\ e.s = d.s /\ e.after = d.after /\ e.owed = d.owed
                         /\ e.at = at2 /\ e.answer = answer2 /\ e.flood = flood2 /\ e.total = total2
  BY <1>1, <1>3, <1>5, <1>6, Forward
<1>8. ASSUME NEW u \in Tasks
      PROVE  Passes(d, e, u) /\ Speaks(e, u) /\ Stays(d, e, u) /\ (e.answer[u] = "flood" => d.answer[u] = "flood")
  <2>1. Speaks(d, u)  BY <1>2 DEF Sound
  <2>2. CASE u = t  BY <1>4, <1>5, <1>7, <2>1, <2>2 DEF Passes, Speaks, Stays
  <2>3. CASE u # t  BY <1>5, <1>7, <2>1, <2>3 DEF Passes, Speaks, Stays
  <2>. QED  BY <2>2, <2>3
<1>. QED  BY <1>1, <1>2, <1>3, <1>4, <1>7, <1>8, Hands

LEMMA SessionSendKeeps ==
  ASSUME DispatcherInv, NEW t \in Tasks, SessionSend(t)
  PROVE  DispatcherInv'
<1>1. PICK d : d = d0  OBVIOUS
<1>2. /\ d \in Views /\ Sound(d) /\ d.at = at /\ d.after = after /\ d.answer = answer /\ d.flood = flood
      /\ d.total = total /\ d.s = sched /\ faults \in 0 .. MaxFaults
  BY <1>1, Views0
<1>3. PICK at2, answer2, flood2, total2, n2 :
        at2 = at' /\ answer2 = answer' /\ flood2 = flood' /\ total2 = total' /\ n2 = faults'
  OBVIOUS
<1>4. /\ d.at[t] = "session" /\ n2 = faults /\ flood2 = d.flood /\ total2 = d.total
      /\ UNCHANGED <<sched, after, owed, executed>>
  BY <1>2, <1>3 DEF SessionSend
<1>5. flood2 \in [Tasks -> BOOLEAN] /\ total2 \in [Tasks -> Nat]  BY <1>2, <1>4, ViewFields
<1>6. CASE \A p \in after[t] : Referenced(t, p)
  <2>1. PICK w, m, x : w = waits /\ m = doomed /\ x = executed  OBVIOUS
  <2>2. PICK w2, m2 : w2 = waits' /\ m2 = doomed'  OBVIOUS
  <2>3. /\ at2 = [d.at EXCEPT ![t] = "sent"] /\ answer2 = d.answer
        /\ w2 = [w EXCEPT ![t] = {p \in d.after[t] : d.answer[p] = "none"}]
        /\ m2 = [m EXCEPT ![t] = \E p \in d.after[t] : d.answer[p] \notin {"none", "ok"}]
        /\ x = executed'
    BY <1>2, <1>3, <1>4, <1>6, <2>1, <2>2 DEF SessionSend
  <2>4. /\ at2 \in [Tasks -> Places] /\ answer2 \in [Tasks -> {"none", "ok", "error", "wait", "flood"}]
        /\ at2[t] = "sent" /\ \A u \in Tasks : u # t => at2[u] = d.at[u]
    BY <1>2, <2>3, ViewFields DEF Places
  <2>5. PICK e \in Views : /\ e = d0' /\ e.s = d.s /\ e.after = d.after /\ e.owed = d.owed
                           /\ e.at = at2 /\ e.answer = answer2 /\ e.flood = flood2 /\ e.total = total2
    BY <1>1, <1>3, <1>4, <1>5, <2>4, Forward
  <2>6. ASSUME NEW u \in Tasks PROVE Passes(d, e, u) /\ Speaks(e, u)
    <3>1. Speaks(d, u)  BY <1>2 DEF Sound
    <3>2. CASE u = t  BY <1>4, <2>4, <2>5, <3>2 DEF Passes, Speaks
    <3>3. CASE u # t  BY <2>3, <2>4, <2>5, <3>1, <3>3 DEF Passes, Speaks
    <3>. QED  BY <3>2, <3>3
  <2>7. Ordered(d, w, m, x) /\ InOrder(x) /\ m \in [Tasks -> BOOLEAN] /\ Budget(d, n2) /\ n2 \in 0 .. MaxFaults
    BY <1>1, <1>4, <2>1, Views0
  <2>8. Ordered(e, w2, m2, x)
    <3>1. \A p \in d.after[t] : d.at[p] = "sent"  BY <1>2, <1>6 DEF Referenced
    <3>2. /\ e.s = d.s /\ e.answer = d.answer /\ e.at[t] = "sent" /\ \A u \in Tasks : u # t => e.at[u] = d.at[u]
      BY <2>3, <2>4, <2>5
    <3>. QED  BY <1>2, <1>4, <2>3, <2>7, <3>1, <3>2, OrderSent
  <2>9. m2 \in [Tasks -> BOOLEAN]  BY <2>3, <2>7
  <2>10. Budget(e, n2)
    <3>1. Debt(d, d)  BY <1>2, Same
    <3>2. Debt(d, e)  BY <1>4, <2>3, <2>5, <3>1 DEF Debt
    <3>3. n2 \in Nat /\ n2 <= n2  BY <2>7, BudgetNumbers
    <3>. QED  BY <1>2, <2>5, <2>7, <3>2, <3>3, DebtBudget
  <2>. QED  BY <1>1, <1>3, <2>2, <2>3, <2>5, <2>6, <2>7, <2>8, <2>9, <2>10, Closing
<1>7. CASE ~ \A p \in after[t] : Referenced(t, p)
  <2>1. /\ at2 = [d.at EXCEPT ![t] = "answered"] /\ answer2 = [d.answer EXCEPT ![t] = "wait"]
        /\ UNCHANGED <<waits, doomed>>
    BY <1>2, <1>3, <1>7 DEF SessionSend
  <2>2. /\ at2 \in [Tasks -> Places] /\ answer2 \in [Tasks -> {"none", "ok", "error", "wait", "flood"}]
        /\ \A u \in Tasks : u # t => at2[u] = d.at[u] /\ answer2[u] = d.answer[u]
        /\ at2[t] = "answered" /\ answer2[t] = "wait"
    BY <1>2, <2>1, ViewFields DEF Places
  <2>3. PICK e \in Views : /\ e = d0' /\ e.s = d.s /\ e.after = d.after /\ e.owed = d.owed
                           /\ e.at = at2 /\ e.answer = answer2 /\ e.flood = flood2 /\ e.total = total2
    BY <1>1, <1>3, <1>4, <1>5, <2>2, Forward
  <2>4. ASSUME NEW u \in Tasks
        PROVE  Passes(d, e, u) /\ Speaks(e, u) /\ Stays(d, e, u) /\ (e.answer[u] = "flood" => d.answer[u] = "flood")
    <3>1. Speaks(d, u)  BY <1>2 DEF Sound
    <3>2. CASE u = t  BY <1>4, <2>2, <2>3, <3>1, <3>2 DEF Passes, Speaks, Stays
    <3>3. CASE u # t  BY <2>2, <2>3, <3>1, <3>3 DEF Passes, Speaks, Stays
    <3>. QED  BY <3>2, <3>3
  <2>5. e.flood = d.flood /\ e.total = d.total  BY <1>4, <2>3
  <2>6. UNCHANGED <<waits, doomed, executed>>  BY <1>4, <2>1
  <2>7. n2 \in {faults, faults + 1} /\ n2 \in 0 .. MaxFaults  BY <1>2, <1>4
  <2>. QED  BY <1>1, <1>3, <2>3, <2>4, <2>5, <2>6, <2>7, Hands
<1>. QED  BY <1>6, <1>7

LEMMA ReceiveKeeps ==
  ASSUME DispatcherInv, NEW t \in Tasks, Receive(t)
  PROVE  DispatcherInv'
<1>1. PICK d, w, m, x : d = d0 /\ w = waits /\ m = doomed /\ x = executed  OBVIOUS
<1>2. /\ d \in Views /\ Sound(d) /\ d.at = at /\ d.after = after /\ d.answer = answer /\ d.flood = flood
      /\ d.total = total /\ d.s = sched /\ faults \in 0 .. MaxFaults
      /\ Ordered(d, w, m, x) /\ InOrder(x) /\ m \in [Tasks -> BOOLEAN] /\ w \in [Tasks -> SUBSET Tasks]
      /\ Budget(d, faults) /\ \A c \in Chains : Members(d.s, c) \subseteq Tasks
  BY <1>1, Views0
<1>3. PICK at2, answer2, flood2, total2, n2, w2, m2 :
        /\ at2 = at' /\ answer2 = answer' /\ flood2 = flood' /\ total2 = total' /\ n2 = faults'
        /\ w2 = waits' /\ m2 = doomed'
  OBVIOUS
<1>4. /\ d.at[t] = "sent" /\ d.answer[t] # "none" /\ w2 = [w EXCEPT ![t] = {}] /\ m2 = [m EXCEPT ![t] = FALSE]
      /\ n2 = faults /\ x = executed' /\ UNCHANGED <<sched, after, owed>>
  BY <1>1, <1>2, <1>3 DEF Receive
<1>5. \/ /\ d.answer[t] = "flood" /\ flood2 = [d.flood EXCEPT ![t] = TRUE] /\ total2 = [d.total EXCEPT ![t] = @ + 1]
         /\ \/ at2 = [d.at EXCEPT ![t] = "answered"] /\ answer2 = [d.answer EXCEPT ![t] = "error"]
            \/ at2 = [d.at EXCEPT ![t] = "delayer"] /\ answer2 = [d.answer EXCEPT ![t] = "none"]
      \/ /\ d.answer[t] # "flood" /\ flood2 = d.flood /\ total2 = d.total
         /\ at2 = [d.at EXCEPT ![t] = "answered"] /\ answer2 = d.answer
  BY <1>2, <1>3 DEF Receive, Dispatch, Delay
<1>6. /\ at2 \in [Tasks -> Places] /\ answer2 \in [Tasks -> {"none", "ok", "error", "wait", "flood"}]
      /\ \A u \in Tasks : u # t => at2[u] = d.at[u] /\ answer2[u] = d.answer[u]
      /\ at2[t] \in {"answered", "delayer"} /\ (at2[t] = "delayer" => answer2[t] = "none")
      /\ (answer2[t] = "ok" <=> d.answer[t] = "ok")
      /\ answer2[t] # "flood"
  BY <1>2, <1>5, ViewFields DEF Places
<1>7. flood2 \in [Tasks -> BOOLEAN] /\ total2 \in [Tasks -> Nat]
  <2>1. d.flood \in [Tasks -> BOOLEAN] /\ d.total \in [Tasks -> Nat] /\ d.total[t] + 1 \in Nat
    <3>1. d.flood \in [Tasks -> BOOLEAN] /\ d.total \in [Tasks -> Nat]  BY <1>2, ViewFields
    <3>2. d.total[t] \in Nat  BY <3>1
    <3>. QED  BY <3>1, <3>2
  <2>. QED  BY <1>5, <2>1
<1>8. PICK e \in Views : /\ e = d0' /\ e.s = d.s /\ e.after = d.after /\ e.owed = d.owed
                         /\ e.at = at2 /\ e.answer = answer2 /\ e.flood = flood2 /\ e.total = total2
  BY <1>1, <1>3, <1>4, <1>6, <1>7, Forward
<1>9. ASSUME NEW u \in Tasks PROVE Passes(d, e, u) /\ Speaks(e, u)
  <2>1. Speaks(d, u)  BY <1>2 DEF Sound
  <2>2. CASE u = t  BY <1>4, <1>6, <1>8, <2>2 DEF Passes, Speaks
  <2>3. CASE u # t  BY <1>6, <1>8, <2>1, <2>3 DEF Passes, Speaks
  <2>. QED  BY <2>2, <2>3
<1>10. w2 \in [Tasks -> SUBSET Tasks] /\ m2 \in [Tasks -> BOOLEAN]  BY <1>2, <1>4
<1>11. Ordered(e, w2, m2, x)
  <2>1. PICK L : L = {t}  OBVIOUS
  <2>2. Marks(x, x) /\ \A u \in Tasks : Known(e, x, u)
    <3>1. x \in Seq(Executions) /\ \A u \in Tasks : Known(d, x, u)  BY <1>2 DEF Ordered, Recorded
    <3>2. ASSUME NEW u \in Tasks
          PROVE  (e.answer[u] = "ok" <=> d.answer[u] = "ok") /\ (d.at[u] # "new" => e.at[u] # "new")
      BY <1>6, <1>8
    <3>. QED  BY <3>1, <3>2, MarksItself DEF Known
  <2>3. \A u \in L : e.at[u] # "sent" /\ w2[u] = {}  BY <1>2, <1>4, <1>6, <1>8, <2>1
  <2>4. ASSUME NEW u \in Tasks, u \notin L
        PROVE  /\ e.at[u] = d.at[u] /\ e.answer[u] = d.answer[u] /\ w2[u] = w[u] \ L
               /\ (~m2[u] => ~m[u] /\ w[u] \cap L = {})
    <3>1. t \notin w[u]  BY <1>2, <1>4 DEF Ordered, Awaited
    <3>. QED  BY <1>2, <1>4, <1>6, <1>8, <2>1, <2>4, <3>1
  <2>5. e.s = d.s /\ Ordered(d, w, m, x) /\ w2 \in [Tasks -> SUBSET Tasks] /\ \A c \in Chains : Members(d.s, c) \subseteq Tasks
    BY <1>2, <1>8, <1>10
  <2>6. Leaves(d, w, m, x, L, e, w2, m2, x)  BY <2>2, <2>3, <2>4, <2>5 DEF Leaves
  <2>. QED  BY <1>2, <2>6, OrderLeft
<1>12. Budget(e, n2) /\ n2 \in 0 .. MaxFaults
  <2>1. n2 \in 0 .. MaxFaults /\ n2 \in Nat /\ n2 <= n2 /\ Budget(d, n2)  BY <1>2, <1>4, BudgetNumbers
  <2>2. CASE d.answer[t] = "flood"
    <3>1. e.flood = [d.flood EXCEPT ![t] = TRUE] /\ e.total = [d.total EXCEPT ![t] = @ + 1]  BY <1>5, <1>8, <2>2
    <3>2. e.owed = d.owed /\ e.answer[t] # "flood" /\ \A u \in Tasks : u # t => e.answer[u] = d.answer[u]
      BY <1>6, <1>8
    <3>. QED  BY <1>2, <1>8, <2>1, <2>2, <3>1, <3>2, DelayBudget
  <2>3. CASE d.answer[t] # "flood"
    <3>1. Debt(d, d)  BY <1>2, Same
    <3>2. e.flood = d.flood /\ e.total = d.total /\ e.owed = d.owed /\ e.answer = d.answer  BY <1>5, <1>8, <2>3
    <3>3. Debt(d, e)  BY <3>1, <3>2 DEF Debt
    <3>. QED  BY <1>2, <1>8, <2>1, <3>3, DebtBudget
  <2>. QED  BY <2>2, <2>3
<1>. QED  BY <1>1, <1>2, <1>3, <1>4, <1>8, <1>9, <1>10, <1>11, <1>12, Closing

(* What a lost session leaves of the executions.                             *)
AnswersGone(x, lost) == [i \in DOMAIN x |-> [x[i] EXCEPT !.lost = @ \/ x[i].query \in lost]]

LEMMA AnswersLost ==
  ASSUME NEW x \in Seq(Executions), NEW lost \in SUBSET Tasks,
         NEW y, y = AnswersGone(x, lost)
  PROVE  /\ Marks(x, y) /\ \A u \in Tasks : Ran(y, u) <=> Ran(x, u)
         /\ \A u \in Tasks : Unlost(y, u) <=> Unlost(x, u) /\ u \notin lost
<1>1. DOMAIN x = 1 .. Len(x) /\ Len(x) \in Nat /\ DOMAIN y = DOMAIN x  BY DEF AnswersGone
<1>2. ASSUME NEW i \in DOMAIN x
      PROVE  /\ y[i] \in Executions /\ y[i].query = x[i].query /\ y[i].chains = x[i].chains
             /\ y[i].lost <=> x[i].lost \/ x[i].query \in lost
  <2>1. PICK r, b : r = x[i] /\ b = (r.lost \/ r.query \in lost)  OBVIOUS
  <2>2. r \in Executions /\ b \in BOOLEAN  BY <2>1
  <2>3. y[i] = [r EXCEPT !.lost = b]  BY <2>1 DEF AnswersGone
  <2>4. y[i] \in Executions /\ y[i].query = r.query /\ y[i].chains = r.chains /\ y[i].lost = b
    BY <2>2, <2>3 DEF Executions
  <2>. QED  BY <2>1, <2>4
<1>3. y \in Seq(Executions)
  <2>1. y = [i \in 1 .. Len(x) |-> y[i]]  BY <1>1 DEF AnswersGone
  <2>2. \A i \in 1 .. Len(x) : y[i] \in Executions  BY <1>1, <1>2
  <2>3. y \in [1 .. Len(x) -> Executions]  BY <2>1, <2>2
  <2>. QED  BY <1>1, <2>3
<1>4. Marks(x, y)  BY <1>1, <1>2, <1>3 DEF Marks
<1>5. \A u \in Tasks : Ran(y, u) <=> Ran(x, u)  BY <1>4, MarksIs
<1>6. \A u \in Tasks : Unlost(y, u) <=> Unlost(x, u) /\ u \notin lost  BY <1>1, <1>2 DEF Unlost
<1>. QED  BY <1>4, <1>5, <1>6

LEMMA SessionLostKeeps ==
  ASSUME DispatcherInv, NEW lost \in SUBSET Tasks, SessionLost(lost)
  PROVE  DispatcherInv'
<1>1. PICK d, w, m, x : d = d0 /\ w = waits /\ m = doomed /\ x = executed  OBVIOUS
<1>2. /\ d \in Views /\ Sound(d) /\ d.at = at /\ d.after = after /\ d.answer = answer /\ d.flood = flood
      /\ d.total = total /\ d.s = sched /\ faults \in 0 .. MaxFaults
      /\ Ordered(d, w, m, x) /\ InOrder(x) /\ m \in [Tasks -> BOOLEAN] /\ w \in [Tasks -> SUBSET Tasks]
      /\ Budget(d, faults) /\ \A c \in Chains : Members(d.s, c) \subseteq Tasks
  BY <1>1, Views0
<1>3. PICK at2, answer2, flood2, total2, n, n2, w2, m2, y :
        /\ at2 = at' /\ answer2 = answer' /\ flood2 = flood' /\ total2 = total' /\ n = faults /\ n2 = faults'
        /\ w2 = waits' /\ m2 = doomed' /\ y = executed'
  OBVIOUS
<1>4. /\ \A u \in lost : d.at[u] = "sent"
      /\ at2 = [u \in Tasks |-> IF u \in lost THEN "session" ELSE d.at[u]]
      /\ w2 = [u \in Tasks |-> IF u \in lost THEN {} ELSE w[u] \ lost]
      /\ m2 = [u \in Tasks |-> u \notin lost /\ (m[u] \/ w[u] \cap lost # {})]
      /\ answer2 = [u \in Tasks |-> IF u \in lost THEN "none" ELSE d.answer[u]]
      /\ y = AnswersGone(x, lost)
      /\ n < MaxFaults /\ n2 = n + 1 /\ flood2 = d.flood /\ total2 = d.total
      /\ UNCHANGED <<sched, after, owed>>
  BY <1>1, <1>2, <1>3 DEF SessionLost, Fault, AnswersGone
<1>5. /\ at2 \in [Tasks -> Places] /\ \A u \in Tasks : u \notin lost => at2[u] = d.at[u]
      /\ \A u \in lost : u \in Tasks /\ at2[u] = "session"
  BY <1>2, <1>4, ViewFields DEF Places
<1>6. /\ answer2 \in [Tasks -> {"none", "ok", "error", "wait", "flood"}] /\ flood2 \in [Tasks -> BOOLEAN]
      /\ total2 \in [Tasks -> Nat]
  BY <1>2, <1>4, ViewFields
<1>7. PICK e \in Views : /\ e = d0' /\ e.s = d.s /\ e.after = d.after /\ e.owed = d.owed
                         /\ e.at = at2 /\ e.answer = answer2 /\ e.flood = flood2 /\ e.total = total2
  <2>1. d = d0 /\ at2 = at' /\ answer2 = answer' /\ flood2 = flood' /\ total2 = total'  BY <1>1, <1>3
  <2>2. UNCHANGED <<sched, after, owed>>  BY <1>4
  <2>. QED  BY <1>5, <1>6, <2>1, <2>2, Forward
<1>8. ASSUME NEW u \in Tasks PROVE Passes(d, e, u) /\ Speaks(e, u)
  <2>1. Speaks(d, u)  BY <1>2 DEF Sound
  <2>2. CASE u \in lost  BY <1>4, <1>5, <1>7, <2>2 DEF Passes, Speaks
  <2>3. CASE u \notin lost  BY <1>4, <1>5, <1>7, <2>1, <2>3 DEF Passes, Speaks
  <2>. QED  BY <2>2, <2>3
<1>9. w2 \in [Tasks -> SUBSET Tasks] /\ m2 \in [Tasks -> BOOLEAN]
  <2>1. w2 \in [Tasks -> SUBSET Tasks]  BY <1>2, <1>4
  <2>2. m2 \in [Tasks -> BOOLEAN]  BY <1>4
  <2>. QED  BY <2>1, <2>2
<1>10. Ordered(e, w2, m2, y) /\ InOrder(y)
  <2>1. Marks(x, y) /\ x \in Seq(Executions) /\ \A u \in Tasks : Known(e, y, u)
    <3>1. x \in Seq(Executions) /\ \A u \in Tasks : Known(d, x, u)  BY <1>2 DEF Ordered, Recorded
    <3>2. /\ Marks(x, y) /\ \A u \in Tasks : Ran(y, u) <=> Ran(x, u)
          /\ \A u \in Tasks : Unlost(y, u) <=> Unlost(x, u) /\ u \notin lost
      BY <1>4, <3>1, AnswersLost
    <3>3. ASSUME NEW u \in Tasks PROVE Known(e, y, u)
      <4>1. /\ e.answer[u] = "ok" <=> d.answer[u] = "ok" /\ u \notin lost
            /\ d.at[u] # "new" => e.at[u] # "new"
        BY <1>4, <1>5, <1>7
      <4>. QED  BY <3>1, <3>2, <4>1 DEF Known
    <3>. QED  BY <3>1, <3>2, <3>3
  <2>2. \A u \in lost : e.at[u] # "sent" /\ w2[u] = {}  BY <1>4, <1>5, <1>7
  <2>3. ASSUME NEW u \in Tasks, u \notin lost
        PROVE  /\ e.at[u] = d.at[u] /\ e.answer[u] = d.answer[u] /\ w2[u] = w[u] \ lost
               /\ (~m2[u] => ~m[u] /\ w[u] \cap lost = {})
    <3>1. e.at[u] = d.at[u] /\ e.answer[u] = d.answer[u]  BY <1>4, <1>5, <1>7, <2>3
    <3>2. /\ w2 = [v \in Tasks |-> IF v \in lost THEN {} ELSE w[v] \ lost]
          /\ m2 = [v \in Tasks |-> v \notin lost /\ (m[v] \/ w[v] \cap lost # {})]
      BY <1>4
    <3>3. w2[u] = w[u] \ lost  BY ONLY <2>3, <3>2, u \in Tasks
    <3>4. m2[u] <=> m[u] \/ w[u] \cap lost # {}
      <4>1. m2[u] = (u \notin lost /\ (m[u] \/ w[u] \cap lost # {}))  BY ONLY <3>2, u \in Tasks
      <4>. QED  BY ONLY <2>3, <4>1
    <3>. QED  BY <3>1, <3>3, <3>4
  <2>4. e.s = d.s /\ Ordered(d, w, m, x) /\ w2 \in [Tasks -> SUBSET Tasks] /\ \A c \in Chains : Members(d.s, c) \subseteq Tasks
    BY <1>2, <1>7, <1>9
  <2>5. Leaves(d, w, m, x, lost, e, w2, m2, y)  BY <2>1, <2>2, <2>3, <2>4 DEF Leaves
  <2>. QED  BY <1>2, <2>1, <2>5, OrderLeft, MarksIs
<1>11. n \in Nat /\ n2 \in Nat /\ n <= n2 /\ n2 \in 0 .. MaxFaults  BY <1>2, <1>3, <1>4, BudgetNumbers
<1>12. Budget(e, n2)
  <2>1. Debt(d, d)  BY <1>2, Same
  <2>2. Debt(d, e)  BY <1>4, <1>7, <2>1 DEF Debt
  <2>3. Budget(d, n)  BY <1>2, <1>3
  <2>. QED  BY <1>2, <1>7, <1>11, <2>2, <2>3, DebtBudget
<1>. QED  BY <1>1, <1>2, <1>3, <1>4, <1>7, <1>8, <1>9, <1>10, <1>11, <1>12, Closing

(* The server's answers.                                                      *)
AnswersIs(d, t, a, w, m, e, w2, m2) ==
  /\ e \in Views /\ e = d0' /\ e.s = d.s /\ e.after = d.after /\ e.owed = d.owed /\ e.flood = d.flood
  /\ e.total = d.total
  /\ \A u \in Tasks : (Passes(d, e, u) /\ Speaks(e, u)) /\ (u # t => e.answer[u] = d.answer[u])
  /\ w2 = waits' /\ m2 = doomed' /\ m2 \in [Tasks -> BOOLEAN]
  /\ Answered(d, t, a, w, m, e, w2, m2)

LEMMA Answering ==
  ASSUME DispatcherInv, NEW d, NEW w, NEW m, d = d0, w = waits, m = doomed, NEW t \in Tasks, d.at[t] = "sent",
         NEW a \in {"ok", "error", "wait", "flood"}, Answers(t, a)
  PROVE  \E e, w2, m2 : AnswersIs(d, t, a, w, m, e, w2, m2)
<1>1. /\ d \in Views /\ Sound(d) /\ d.at = at /\ d.after = after /\ d.answer = answer /\ d.flood = flood
      /\ d.total = total /\ d.s = sched
      /\ m \in [Tasks -> BOOLEAN] /\ w \in [Tasks -> SUBSET Tasks]
  BY Views0
<1>2. PICK at2, answer2, flood2, total2, w2, m2 :
        at2 = at' /\ answer2 = answer' /\ flood2 = flood' /\ total2 = total' /\ w2 = waits' /\ m2 = doomed'
  OBVIOUS
<1>3. /\ at2 = d.at /\ answer2 = [d.answer EXCEPT ![t] = a] /\ flood2 = d.flood /\ total2 = d.total
      /\ w2 = [u \in Tasks |-> w[u] \ {t}]
      /\ m2 = [u \in Tasks |-> m[u] \/ (t \in w[u] /\ a # "ok")]
  BY <1>1, <1>2 DEF Answers
<1>4. UNCHANGED <<sched, after, owed>>  BY DEF Answers
<1>5. /\ at2 \in [Tasks -> Places] /\ answer2 \in [Tasks -> {"none", "ok", "error", "wait", "flood"}]
      /\ flood2 \in [Tasks -> BOOLEAN] /\ total2 \in [Tasks -> Nat]
      /\ answer2[t] = a /\ \A u \in Tasks : u # t => answer2[u] = d.answer[u]
  BY <1>1, <1>3, ViewFields
<1>6. PICK e \in Views : /\ e = d0' /\ e.s = d.s /\ e.after = d.after /\ e.owed = d.owed
                         /\ e.at = at2 /\ e.answer = answer2 /\ e.flood = flood2 /\ e.total = total2
  BY <1>2, <1>4, <1>5, Forward
<1>7. ASSUME NEW u \in Tasks PROVE (Passes(d, e, u) /\ Speaks(e, u)) /\ (u # t => e.answer[u] = d.answer[u])
  <2>1. Speaks(d, u)  BY <1>1 DEF Sound
  <2>2. CASE u = t  BY <1>3, <1>6, <2>2 DEF Passes, Speaks
  <2>3. CASE u # t  BY <1>3, <1>5, <1>6, <2>1, <2>3 DEF Passes, Speaks
  <2>. QED  BY <2>2, <2>3
<1>8. m2 \in [Tasks -> BOOLEAN]  BY <1>3
<1>9. Answered(d, t, a, w, m, e, w2, m2)
  <2>1. w2 \in [Tasks -> SUBSET Tasks]  BY <1>1, <1>3
  <2>2. \A u \in Tasks : w2[u] = w[u] \ {t} /\ (~m2[u] => ~m[u] /\ (t \in w[u] => a = "ok"))  BY <1>3
  <2>. QED  BY <1>3, <1>5, <1>6, <2>1, <2>2 DEF Answered
<1>10. AnswersIs(d, t, a, w, m, e, w2, m2)  BY <1>2, <1>3, <1>6, <1>7, <1>8, <1>9 DEF AnswersIs
<1>. QED  BY <1>10

LEMMA ServerExecutesKeeps ==
  ASSUME DispatcherInv, NEW t \in Tasks, ServerExecutes(t)
  PROVE  DispatcherInv'
<1>1. PICK d, w, m, x, n : d = d0 /\ w = waits /\ m = doomed /\ x = executed /\ n = faults  OBVIOUS
<1>2. /\ d \in Views /\ Sound(d) /\ d.at = at /\ d.answer = answer /\ d.s = sched /\ n \in 0 .. MaxFaults
      /\ Ordered(d, w, m, x) /\ InOrder(x) /\ Budget(d, n)
  BY <1>1, Views0
<1>3. PICK x2, n2 : x2 = executed' /\ n2 = faults'  OBVIOUS
<1>4. /\ d.at[t] = "sent" /\ d.answer[t] = "none" /\ w[t] = {} /\ ~m[t] /\ x2 = Append(x, Execution(d, t))
      /\ n2 = n
  BY <1>1, <1>2, <1>3 DEF ServerExecutes, Unanswered, NoFault, Execution
<1>5. Answers(t, "ok")  BY DEF ServerExecutes
<1>6. PICK e, w2, m2 : AnswersIs(d, t, "ok", w, m, e, w2, m2)  BY <1>1, <1>4, <1>5, Answering
<1>7. Ordered(e, w2, m2, x2) /\ InOrder(x2)
  <2>1. Answered(d, t, "ok", w, m, e, w2, m2)  BY <1>6 DEF AnswersIs
  <2>. QED  BY <1>2, <1>4, <2>1, OrderExecuted
<1>8. Budget(e, n2) /\ n2 \in 0 .. MaxFaults
  <2>1. Debt(d, d)  BY <1>2, Same
  <2>2. Debt(d, e) /\ e \in Views  BY <2>1, <1>6 DEF Debt, AnswersIs, Answered
  <2>3. n2 \in Nat /\ n2 <= n2 /\ n2 \in 0 .. MaxFaults  BY <1>2, <1>4, BudgetNumbers
  <2>. QED  BY <1>2, <1>4, <2>2, <2>3, DebtBudget
<1>9. /\ e \in Views /\ e = d0' /\ e.s = d.s /\ e.after = d.after /\ \A u \in Tasks : Passes(d, e, u) /\ Speaks(e, u)
      /\ w2 = waits' /\ m2 = doomed' /\ m2 \in [Tasks -> BOOLEAN]
  BY <1>6 DEF AnswersIs
<1>. QED  BY <1>1, <1>3, <1>7, <1>8, <1>9, Closing

LEMMA ServerFails ==
  ASSUME DispatcherInv, NEW t \in Tasks, Unanswered(t), NEW a \in {"error", "wait", "flood"}, Answers(t, a),
         UNCHANGED executed, (NoFault /\ a # "flood") \/ Fault
  PROVE  DispatcherInv'
<1>1. PICK d, w, m, x, n : d = d0 /\ w = waits /\ m = doomed /\ x = executed /\ n = faults  OBVIOUS
<1>2. /\ d \in Views /\ Sound(d) /\ d.at = at /\ d.answer = answer /\ d.s = sched /\ n \in 0 .. MaxFaults
      /\ Ordered(d, w, m, x) /\ InOrder(x) /\ Budget(d, n) /\ \A c \in Chains : Members(d.s, c) \subseteq Tasks
  BY <1>1, Views0
<1>3. PICK n2 : n2 = faults'  OBVIOUS
<1>4. /\ d.at[t] = "sent" /\ d.answer[t] = "none" /\ x = executed'
      /\ (n2 = n /\ a # "flood") \/ (n < MaxFaults /\ n2 = n + 1)
  BY <1>1, <1>2, <1>3 DEF Unanswered, NoFault, Fault
<1>5. a \in {"ok", "error", "wait", "flood"} /\ a \notin {"none", "ok"}  OBVIOUS
<1>6. PICK e, w2, m2 : AnswersIs(d, t, a, w, m, e, w2, m2)  BY <1>1, <1>4, <1>5, Answering
<1>7. Ordered(e, w2, m2, x)
  <2>1. Answered(d, t, a, w, m, e, w2, m2)  BY <1>6 DEF AnswersIs
  <2>. QED  BY <1>2, <1>4, <1>5, <2>1, OrderRefused
<1>8. n2 \in 0 .. MaxFaults /\ n \in Nat /\ n2 \in Nat  BY <1>2, <1>4, BudgetNumbers
<1>9. Budget(e, n2)
  <2>1. e \in Views /\ e.owed = d.owed /\ e.flood = d.flood /\ e.total = d.total
        /\ (\A u \in Tasks : u # t => e.answer[u] = d.answer[u]) /\ e.answer[t] = a
    BY <1>6 DEF AnswersIs, Answered
  <2>2. CASE n2 = n /\ a # "flood"
    <3>1. Debt(d, d)  BY <1>2, Same
    <3>2. Debt(d, e)  BY <2>1, <2>2, <3>1 DEF Debt
    <3>3. n <= n2  BY <1>8, <2>2
    <3>. QED  BY <1>2, <1>8, <2>1, <3>2, <3>3, DebtBudget
  <2>3. CASE n2 = n + 1
    <3>1. Budget(e, n + 1)  BY <1>2, <1>8, <2>1, RefusalBudget
    <3>. QED  BY <2>3, <3>1
  <2>. QED  BY <1>4, <2>2, <2>3
<1>10. /\ e \in Views /\ e = d0' /\ e.s = d.s /\ e.after = d.after /\ \A u \in Tasks : Passes(d, e, u) /\ Speaks(e, u)
       /\ w2 = waits' /\ m2 = doomed' /\ m2 \in [Tasks -> BOOLEAN]
  BY <1>6 DEF AnswersIs
<1>. QED  BY <1>1, <1>2, <1>3, <1>4, <1>7, <1>8, <1>9, <1>10, Closing

(* Every action keeps the invariant.                                          *)
LEMMA NextKeeps ==
  ASSUME DispatcherInv, [Next]_vars
  PROVE  DispatcherInv'
<1>1. ASSUME NEW t \in Tasks, Advance(t) PROVE DispatcherInv'
  <2>1. CASE OnResult(t)  BY <2>1, OnResultKeeps
  <2>2. CASE OnResend(t)  BY <2>2, OnResendKeeps
  <2>3. CASE OwnerAccepts(t)  BY <2>3, OwnerKeeps
  <2>4. CASE SessionSend(t)  BY <2>4, SessionSendKeeps
  <2>5. CASE Receive(t)  BY <2>5, ReceiveKeeps
  <2>6. CASE DelayEnds(t)  BY <2>6, DelayEndsKeeps
  <2>7. CASE ServerExecutes(t)  BY <2>7, ServerExecutesKeeps
  <2>8. CASE ServerWaitFails(t)
    <3>1. Unanswered(t) /\ Answers(t, "wait") /\ UNCHANGED executed /\ NoFault  BY <2>8 DEF ServerWaitFails
    <3>. QED  BY <3>1, ServerFails
  <2>. QED  BY <1>1, <2>1, <2>2, <2>3, <2>4, <2>5, <2>6, <2>7, <2>8 DEF Advance
<1>2. ASSUME NEW t \in Tasks, OwnerRetries(t) PROVE DispatcherInv'  BY <1>2, OwnerKeeps
<1>3. ASSUME NEW t \in Tasks, ServerWaitTimesOut(t) PROVE DispatcherInv'
  <2>1. Unanswered(t) /\ Answers(t, "wait") /\ UNCHANGED executed /\ Fault  BY <1>3 DEF ServerWaitTimesOut
  <2>. QED  BY <2>1, ServerFails
<1>4. ASSUME NEW t \in Tasks, NEW l \in ChainLists, Send(t, l) PROVE DispatcherInv'  BY <1>4, SendKeeps
<1>5. ASSUME NEW t \in Tasks, NEW a \in {"error", "flood"}, ServerRefuses(t, a) PROVE DispatcherInv'
  <2>1. Unanswered(t) /\ Answers(t, a) /\ UNCHANGED executed /\ Fault  BY <1>5 DEF ServerRefuses
  <2>. QED  BY <2>1, ServerFails
<1>6. ASSUME NEW lost \in SUBSET Tasks, SessionLost(lost) PROVE DispatcherInv'  BY <1>6, SessionLostKeeps
<1>7. CASE UNCHANGED vars
  <2>1. PICK d, w, m, x, n : d = d0 /\ w = waits /\ m = doomed /\ x = executed /\ n = faults  OBVIOUS
  <2>2. Whole(d, w, m, x, n)  BY <2>1 DEF DispatcherInv
  <2>3. d = d0' /\ w = waits' /\ m = doomed' /\ x = executed' /\ n = faults'  BY <1>7, <2>1 DEF vars, d0
  <2>. QED  BY <2>2, <2>3 DEF DispatcherInv
<1>. QED  BY <1>1, <1>2, <1>3, <1>4, <1>5, <1>6, <1>7 DEF Next

-------------------------------------------------------------------------------
(* Initially nothing is in the scheduler and nothing has been sent.           *)
LEMMA EmptyIs ==
  ASSUME NEW s, s = EmptyScheduler
  PROVE  /\ s \in Schedulers /\ s.pending = << >>
         /\ \A t \in Tasks : s.chains[t] = << >> /\ s.state[t] = "None"
         /\ \A c \in Chains : /\ s.chain[c] = << >> /\ s.active[c] = 0 /\ s.gen[c] = 1 /\ s.limited[c] = NoTask
                              /\ Members(s, c) = {}
<1>1. << >> \in Seq(Chains) /\ << >> \in Seq(Tasks) /\ ToSet(<< >>) = {}  BY DEF ToSet
<1>2. s \in Schedulers  BY <1>1 DEF EmptyScheduler, Schedulers
<1>. QED  BY <1>1, <1>2 DEF EmptyScheduler, Members

LEMMA EmptySettled ==
  ASSUME NEW s, s = EmptyScheduler
  PROVE  Settled(s)
<1>1. /\ s \in Schedulers /\ s.pending = << >>
      /\ \A t \in Tasks : s.chains[t] = << >> /\ s.state[t] = "None"
      /\ \A c \in Chains : /\ s.chain[c] = << >> /\ s.active[c] = 0 /\ s.gen[c] = 1 /\ s.limited[c] = NoTask
                           /\ Members(s, c) = {}
  BY EmptyIs
<1>2. DOMAIN << >> = {} /\ ToSet(<< >>) = {}
  <2>1. DOMAIN << >> = {}  OBVIOUS
  <2>. QED  BY <2>1 DEF ToSet
<1>3. Joined(s)
  <2>1. IsInjective(<< >>)  BY <1>2 DEF IsInjective
  <2>2. Sorted(<< >>)  BY <1>2 DEF Sorted
  <2>3. \A t \in Tasks : ChainSet(s, t) = {}  BY <1>1, <1>2 DEF ChainSet
  <2>. QED  BY <1>1, <2>1, <2>2, <2>3 DEF Joined
<1>4. Counted(s)
  <2> SUFFICES ASSUME NEW c \in Chains PROVE s.active[c] = Cardinality(Running(s, c)) /\ s.active[c] <= Limit
    BY DEF Counted
  <2>1. Running(s, c) = {}  BY <1>1 DEF Running
  <2>2. 0 = Cardinality({}) /\ 0 <= Limit  BY FS_EmptySet, SchedulerAssumption
  <2>. QED  BY <1>1, <2>1, <2>2
<1>5. Pipelined(s)  BY <1>1 DEF Pipelined
<1>6. Listed(s)  BY <1>1, <1>2 DEF Listed
<1>7. Tended(s, {})  BY <1>1 DEF Tended, Ready
<1>. QED  BY <1>3, <1>4, <1>5, <1>6, <1>7 DEF Settled, Good

LEMMA InitHolds ==
  ASSUME Init
  PROVE  DispatcherInv
<1>1. PICK d, w, m, x, n : d = d0 /\ w = waits /\ m = doomed /\ x = executed /\ n = faults  OBVIOUS
<1>2. /\ d.s = EmptyScheduler /\ d.at = [t \in Tasks |-> "new"] /\ d.after = [t \in Tasks |-> {}]
      /\ d.answer = [t \in Tasks |-> "none"] /\ d.flood = [t \in Tasks |-> FALSE]
      /\ d.total = [t \in Tasks |-> 0] /\ d.owed = [t \in Tasks |-> 0]
      /\ w = [t \in Tasks |-> {}] /\ m = [t \in Tasks |-> FALSE] /\ x = << >> /\ n = 0
  BY <1>1 DEF Init, d0
<1>3. d = [s |-> d.s, at |-> d.at, after |-> d.after, answer |-> d.answer, flood |-> d.flood, total |-> d.total,
           owed |-> d.owed]
  BY <1>1 DEF d0
<1>4. PICK s : s = EmptyScheduler /\ s = d.s  BY <1>2
<1>5. /\ s \in Schedulers /\ s.pending = << >> /\ \A t \in Tasks : s.state[t] = "None"
      /\ \A c \in Chains : Members(s, c) = {}
  BY <1>4, EmptyIs
<1>6. Settled(s)  BY <1>4, EmptySettled
<1>7. d \in Views
  <2>1. /\ d.at \in [Tasks -> Places] /\ d.after \in [Tasks -> SUBSET Tasks]
        /\ d.answer \in [Tasks -> {"none", "ok", "error", "wait", "flood"}] /\ d.flood \in [Tasks -> BOOLEAN]
        /\ d.total \in [Tasks -> Nat] /\ d.owed \in [Tasks -> Nat]
    BY <1>2 DEF Places
  <2>. QED  BY <1>3, <1>4, <1>5, <2>1 DEF Views
<1>8. Sound(d)
  <2>1. \A t \in Tasks : d.at[t] = "new" /\ d.answer[t] = "none"  BY <1>2
  <2>2. ToSet(<< >>) = {}  BY DEF ToSet
  <2>3. Sequenced(d)  BY <2>1 DEF Sequenced
  <2>4. \A t \in Tasks : Matches(d, t) /\ Speaks(d, t)  BY <1>4, <1>5, <2>1, <2>2 DEF Matches, Speaks
  <2>. QED  BY <1>4, <1>6, <1>7, <2>1, <2>3, <2>4 DEF Sound
<1>9. Ordered(d, w, m, x)
  <2>1. Prefixed(d, x)  BY <1>4, <1>5 DEF Prefixed
  <2>2. Awaited(d, w)  BY <1>2 DEF Awaited
  <2>3. Followed(d, w, m, x)  BY <1>2 DEF Followed
  <2>4. << >> \in Seq(Executions) /\ DOMAIN << >> = {}  OBVIOUS
  <2>5. Recorded(d, x)  BY <1>2, <2>4 DEF Recorded, Known, Ran, Unlost
  <2>. QED  BY <2>1, <2>2, <2>3, <2>5 DEF Ordered
<1>10. InOrder(x)
  <2>1. DOMAIN << >> = {}  OBVIOUS
  <2>. QED  BY <1>2, <2>1 DEF InOrder
<1>11. Budget(d, n)
  <2> SUFFICES ASSUME NEW u \in Tasks
               PROVE  d.total[u] + d.owed[u] + Cardinality(Floods(d, u)) + Cardinality(Refusals(d)) <= n
    BY DEF Budget
  <2>1. Floods(d, u) = {} /\ Refusals(d) = {}  BY <1>2 DEF Floods, Refusals
  <2>2. Cardinality({}) = 0  BY FS_EmptySet
  <2>3. d.total[u] = 0 /\ d.owed[u] = 0 /\ n = 0  BY <1>2
  <2>. QED  BY <2>1, <2>2, <2>3
<1>12. n \in 0 .. MaxFaults /\ m \in [Tasks -> BOOLEAN]  BY <1>2, BudgetNumbers
<1>13. Whole(d, w, m, x, n)  BY <1>4, <1>5, <1>8, <1>9, <1>10, <1>11, <1>12 DEF Whole
<1>. QED  BY <1>1, <1>13 DEF DispatcherInv

(* The invariant holds in every reachable state.                              *)
THEOREM InvariantHolds == Spec => []DispatcherInv
<1>1. Init => DispatcherInv  BY InitHolds
<1>2. DispatcherInv /\ [Next]_vars => DispatcherInv'  BY NextKeeps
<1>. QED  BY <1>1, <1>2, PTL DEF Spec

-------------------------------------------------------------------------------
(* What it says of the state.                                                 *)
LEMMA TotalsBounded ==
  ASSUME NEW d \in Views, NEW n \in 0 .. MaxFaults, Budget(d, n)
  PROVE  d.total \in [Tasks -> 0 .. MaxFaults] /\ d.owed \in [Tasks -> 0 .. MaxFaults]
<1>1. ASSUME NEW u \in Tasks PROVE d.total[u] \in 0 .. MaxFaults /\ d.owed[u] \in 0 .. MaxFaults
  <2>1. Floods(d, u) \subseteq Tasks /\ Refusals(d) \subseteq Tasks  BY DEF Floods, Refusals
  <2>2. Cardinality(Floods(d, u)) \in Nat /\ Cardinality(Refusals(d)) \in Nat  BY <2>1, Counts
  <2>3. PICK a \in Nat, b \in Nat, f \in Nat, r \in Nat :
          a = d.total[u] /\ b = d.owed[u] /\ f = Cardinality(Floods(d, u)) /\ r = Cardinality(Refusals(d))
    BY <2>2, ViewFields
  <2>4. a + b + f + r <= n  BY <2>3 DEF Budget
  <2>5. a \in 0 .. MaxFaults /\ b \in 0 .. MaxFaults  BY <2>4, BudgetNumbers
  <2>. QED  BY <2>3, <2>5
<1>2. d.total \in [Tasks -> Nat] /\ d.owed \in [Tasks -> Nat]  BY ViewFields
<1>. QED  BY <1>1, <1>2

(* The flood waits a query has waited or owes never outnumber the faults, and *)
(* every component keeps its type (SequenceDispatcher.cpp:320-380 and         *)
(* NetQueryDelayer.cpp: total_timeout_ and total_timeout only grow by waits). *)
THEOREM TypeCorrect == Spec => []TypeOK
<1>1. ASSUME DispatcherInv PROVE TypeOK
  <2>1. PICK d, x : d = d0 /\ x = executed  OBVIOUS
  <2>2. /\ d \in Views /\ Ordered(d, waits, doomed, x) /\ Budget(d, faults) /\ faults \in 0 .. MaxFaults
        /\ doomed \in [Tasks -> BOOLEAN] /\ waits \in [Tasks -> SUBSET Tasks]
        /\ d.s = sched /\ d.at = at /\ d.after = after /\ d.answer = answer /\ d.flood = flood /\ d.total = total
        /\ d.owed = owed
    BY <1>1, <2>1, Views0
  <2>3. total \in [Tasks -> 0 .. MaxFaults] /\ owed \in [Tasks -> 0 .. MaxFaults]  BY <2>2, TotalsBounded
  <2>4. executed \in Seq([query : Tasks, chains : SUBSET Chains, lost : BOOLEAN])
    BY <2>1, <2>2 DEF Ordered, Recorded, Executions
  <2>5. /\ sched \in Schedulers /\ at \in [Tasks -> Places] /\ after \in [Tasks -> SUBSET Tasks]
        /\ answer \in [Tasks -> {"none", "ok", "error", "wait", "flood"}] /\ flood \in [Tasks -> BOOLEAN]
    BY <2>2, ViewFields
  <2>. QED  BY <2>1, <2>2, <2>3, <2>4, <2>5 DEF TypeOK
<1>. QED  BY <1>1, InvariantHolds, PTL

(* Queries of one chain are executed for the first time in the order they     *)
(* were sent, whatever is refused, delayed, paused or sent again: a query's   *)
(* references name its parents, or one of them has ended (start_next_task     *)
(* and its generation test, ChainScheduler.h:156-178 and 300-317); and a      *)
(* query is executed again only when all its answers so far were lost with a  *)
(* session (resend_query, Session.cpp:1100-1110).                             *)
THEOREM ExecutedInOrder == Spec => []ChainOrder
<1>1. DispatcherInv => ChainOrder  BY DEF DispatcherInv, Whole, InOrder, Before, ChainOrder
<1>. QED  BY <1>1, InvariantHolds, PTL

(* The scheduler's state of a task and the place of its query agree after     *)
(* every handler, and no started task is left unsent: the CHECKs of           *)
(* flush_pending_queries never fail (SequenceDispatcher.cpp:430-460).         *)
THEOREM BooksAgree == Spec => []TasksMatchQueries
<1>1. ASSUME DispatcherInv PROVE TasksMatchQueries
  <2>1. PICK d : d = d0  OBVIOUS
  <2>2. Sound(d) /\ d \in Views /\ d.s = sched /\ d.at = at  BY <1>1, <2>1, Views0
  <2>3. sched.pending = << >>  BY <1>1, <2>1, <2>2 DEF DispatcherInv, Whole
  <2>4. ASSUME NEW t \in Tasks
        PROVE  CASE sched.state[t] = "None"    -> at[t] \in {"new", "gone"}
                 [] sched.state[t] = "Pending" -> at[t] = "node"
                 [] sched.state[t] = "Paused"  -> at[t] \in {"owner", "resend", "drop"}
                 [] sched.state[t] = "Active"  -> at[t] \notin {"new", "node", "gone", "lost"}
    <3>1. Matches(d, t) /\ ToSet(d.s.pending) = {}  BY <2>2, <2>3 DEF Sound, ToSet
    <3>2. sched.state[t] \in {"None", "Pending", "Active", "Paused"}  BY <2>2, ViewFields, Fields
    <3>3. CASE sched.state[t] = "None"  BY <2>2, <3>1, <3>3 DEF Matches
    <3>4. CASE sched.state[t] = "Pending"  BY <2>2, <3>1, <3>4 DEF Matches
    <3>5. CASE sched.state[t] = "Paused"  BY <2>2, <3>1, <3>5 DEF Matches
    <3>6. CASE sched.state[t] = "Active"  BY <2>2, <3>1, <3>6 DEF Matches
    <3>. QED  BY <3>2, <3>3, <3>4, <3>5, <3>6
  <2>. QED  BY <2>3, <2>4 DEF TasksMatchQueries
<1>. QED  BY <1>1, InvariantHolds, PTL

(* active_tasks counts the active tasks of its chain, through resets, pauses  *)
(* and removals, and stays within the limit (ChainScheduler.h:168-216).       *)
THEOREM CountsAreExact == Spec => []ActiveTasksAreCounted
<1>1. ASSUME DispatcherInv PROVE ActiveTasksAreCounted
  <2>1. PICK d : d = d0  OBVIOUS
  <2>2. Counted(sched)  BY <1>1, <2>1, Views0 DEF Sound, Settled, Good
  <2>. QED  BY <2>2 DEF Counted, Running, Members, ActiveTasksAreCounted
<1>. QED  BY <1>1, InvariantHolds, PTL

(* Every task that may start has been started: whatever frees a task tries    *)
(* it, and a full chain remembers one (ChainScheduler.h:156-243).             *)
THEOREM NoneIsForgotten == Spec => []NothingWaitsInVain
<1>1. ASSUME DispatcherInv PROVE NothingWaitsInVain
  <2>1. PICK d : d = d0  OBVIOUS
  <2>2. Good(sched) /\ Tended(sched, {})  BY <1>1, <2>1, Views0 DEF Sound, Settled
  <2>3. Idle(sched)  BY <2>2, TendedIsIdle
  <2>. QED  BY <2>3 DEF Idle, NothingWaitsInVain
<1>. QED  BY <1>1, InvariantHolds, PTL
================================================================================
