---------------------- MODULE BinlogEventsProcessor_proofs ----------------------
(***************************************************************************)
(* Proofs about BinlogEventsProcessor, for any sizes of events, any number  *)
(* of ids and any threshold of the compaction.                              *)
(***************************************************************************)
EXTENDS BinlogEventsProcessor, FiniteSetTheorems, TLAPS

(* The sum of the sizes of the live events is a fold of + over the table.     *)
Plus(c, a, b) == a + b
AnyOf(s) == CHOOSE x \in s : TRUE
Sums == INSTANCE FoldTheorems WITH Op <- Plus, Pick <- AnyOf

SumOf(t) == MapThenSumSet(LAMBDA i : t[i], DOMAIN t)

LEMMA SumRemove ==
  ASSUME NEW t, IsFiniteSet(DOMAIN t), \A i \in DOMAIN t : t[i] \in Nat
  PROVE  /\ SumOf(t) \in Nat
         /\ DOMAIN t = {} => SumOf(t) = 0
         /\ \A x \in DOMAIN t : SumOf(t) = t[x] + SumOf([i \in DOMAIN t \ {x} |-> t[i]])
<1>1. \A u : SumOf(u) = Sums!FoldOf(0, 0, u)
  BY DEF SumOf, Sums!FoldOf, MapThenSumSet, MapThenFoldSet, Sums!MapThenFoldSet, Plus, AnyOf
<1>2. Sums!Picks(t)
  <2>1. \A s : s # {} => AnyOf(s) \in s  BY DEF AnyOf
  <2>2. Sums!IsFiniteSet(DOMAIN t)  BY DEF Sums!IsFiniteSet, IsFiniteSet
  <2>. QED  BY <2>1, <2>2 DEF Sums!Picks
<1>3. Sums!Commutes(0, 0, Nat)  BY DEF Sums!Commutes, Plus
<1>4. /\ Sums!FoldOf(0, 0, t) \in Nat
      /\ DOMAIN t = {} => Sums!FoldOf(0, 0, t) = 0
      /\ \A x \in DOMAIN t :
           Sums!FoldOf(0, 0, t) = Plus(0, t[x], Sums!FoldOf(0, 0, [i \in DOMAIN t \ {x} |-> t[i]]))
  BY <1>2, <1>3, Sums!FoldRemove
<1>. QED  BY <1>1, <1>4 DEF Plus

-------------------------------------------------------------------------------
(* compactify()                                                              *)

LEMMA Parity == \A id \in Nat : Alive(id * 2) /\ ~Alive(id * 2 + 1)
  BY DEF Alive

LEMMA AliveCount ==
  ASSUME NEW ids
  PROVE  /\ \A n \in Nat : AliveUpTo(ids, n) \in Nat
         /\ AliveUpTo(ids, 0) = 0
         /\ \A n \in Nat : AliveUpTo(ids, n + 1) =
              IF Alive(ids[n + 1]) THEN AliveUpTo(ids, n) + 1 ELSE AliveUpTo(ids, n)
         /\ \A m, n \in Nat : m <= n => AliveUpTo(ids, m) <= AliveUpTo(ids, n)
<1> DEFINE S(n) == {m \in 1 .. n : Alive(ids[m])}
<1>1. \A n \in Nat : IsFiniteSet(S(n)) /\ Cardinality(S(n)) \in Nat
  <2> SUFFICES ASSUME NEW n \in Nat PROVE IsFiniteSet(S(n)) /\ Cardinality(S(n)) \in Nat
    OBVIOUS
  <2>1. IsFiniteSet(1 .. n)  BY FS_Interval
  <2>. QED  BY <2>1, FS_Subset, FS_CardinalityType
<1>2. Cardinality(S(0)) = 0
  <2>1. S(0) = {}  OBVIOUS
  <2>. QED  BY <2>1, FS_EmptySet
<1>3. ASSUME NEW n \in Nat
      PROVE  Cardinality(S(n + 1)) = IF Alive(ids[n + 1]) THEN Cardinality(S(n)) + 1
                                                          ELSE Cardinality(S(n))
  <2>1. S(n + 1) = IF Alive(ids[n + 1]) THEN S(n) \cup {n + 1} ELSE S(n)
    OBVIOUS
  <2>2. n + 1 \notin S(n)  OBVIOUS
  <2>3. IsFiniteSet(S(n))  BY <1>1
  <2>. HIDE DEF S
  <2>4. Cardinality(S(n) \cup {n + 1}) = Cardinality(S(n)) + 1  BY <2>2, <2>3, FS_AddElement
  <2>. QED  BY <2>1, <2>4
<1>4. ASSUME NEW m \in Nat, NEW n \in Nat, m <= n PROVE Cardinality(S(m)) <= Cardinality(S(n))
  <2>1. S(m) \in SUBSET S(n)  BY <1>4
  <2>2. IsFiniteSet(S(n))  BY <1>1
  <2>. HIDE DEF S
  <2>. QED  BY <2>1, <2>2, FS_Subset
<1>. QED  BY <1>1, <1>2, <1>3, <1>4 DEF AliveUpTo

(* Every place up to the number of live entries has exactly one of them, and  *)
(* they keep their order.                                                    *)
Place(ids, k) == CHOOSE n \in DOMAIN ids : Alive(ids[n]) /\ AliveUpTo(ids, n) = k

LEMMA Places ==
  ASSUME NEW ids \in Seq(Nat)
  PROVE  /\ \A k \in 1 .. AliveUpTo(ids, Len(ids)) :
              /\ Place(ids, k) \in DOMAIN ids /\ Alive(ids[Place(ids, k)])
              /\ AliveUpTo(ids, Place(ids, k)) = k
         /\ \A k, l \in 1 .. AliveUpTo(ids, Len(ids)) : k < l => Place(ids, k) < Place(ids, l)
         /\ \A n \in DOMAIN ids : Alive(ids[n]) =>
              /\ AliveUpTo(ids, n) \in 1 .. AliveUpTo(ids, Len(ids))
              /\ Place(ids, AliveUpTo(ids, n)) = n
<1> DEFINE A(n) == AliveUpTo(ids, n)
           T == {n \in Nat : \A k \in 1 .. A(n) : \E m \in 1 .. n : Alive(ids[m]) /\ A(m) = k}
<1>1. /\ \A n \in Nat : A(n) \in Nat
      /\ A(0) = 0
      /\ \A n \in Nat : A(n + 1) = IF Alive(ids[n + 1]) THEN A(n) + 1 ELSE A(n)
      /\ \A m, n \in Nat : m <= n => A(m) <= A(n)
  BY AliveCount
<1>. HIDE DEF A
<1>2. 0 \in T  BY <1>1
<1>3. ASSUME NEW n \in Nat, n \in T PROVE n + 1 \in T
  <2> SUFFICES ASSUME NEW k \in 1 .. A(n + 1)
               PROVE  \E m \in 1 .. n + 1 : Alive(ids[m]) /\ A(m) = k
    OBVIOUS
  <2>1. CASE k \in 1 .. A(n)  BY <1>3, <2>1
  <2>2. CASE k \notin 1 .. A(n)
    <3>1. n + 1 \in Nat  OBVIOUS
    <3>2. PICK i \in Nat, j \in Nat : i = A(n) /\ j = A(n + 1)  BY <1>1, <3>1
    <3>3. j = IF Alive(ids[n + 1]) THEN i + 1 ELSE i  BY <1>1, <3>2
    <3>4. k \in 1 .. j /\ k \notin 1 .. i  BY <2>2, <3>2
    <3>5. Alive(ids[n + 1]) /\ k = j  BY <3>3, <3>4
    <3>. QED  BY <3>2, <3>5
  <2>. QED  BY <2>1, <2>2
<1>. HIDE DEF T
<1>4. Len(ids) \in T
  <2>1. Sums!Inductive(T)  BY <1>2, <1>3 DEF Sums!Inductive
  <2>. QED  BY <2>1, Sums!InductionOnNumbers
<1>5. DOMAIN ids = 1 .. Len(ids) /\ Len(ids) \in Nat  OBVIOUS
<1>6. ASSUME NEW k \in 1 .. A(Len(ids))
      PROVE  Place(ids, k) \in DOMAIN ids /\ Alive(ids[Place(ids, k)]) /\ A(Place(ids, k)) = k
  <2>1. \E n \in DOMAIN ids : Alive(ids[n]) /\ A(n) = k  BY <1>4, <1>5 DEF T
  <2>. QED  BY <2>1 DEF Place, A
<1>7. ASSUME NEW k \in 1 .. A(Len(ids)), NEW l \in 1 .. A(Len(ids)), k < l
      PROVE  Place(ids, k) < Place(ids, l)
  <2>1. Place(ids, k) \in Nat /\ Place(ids, l) \in Nat  BY <1>5, <1>6
  <2>2. Place(ids, l) <= Place(ids, k) => l <= k  BY <1>1, <1>6, <2>1
  <2>. QED  BY <1>7, <2>1, <2>2
<1>8. ASSUME NEW m \in DOMAIN ids, NEW n \in DOMAIN ids, m < n, Alive(ids[n]) PROVE A(m) < A(n)
  <2>1. m \in Nat /\ n - 1 \in Nat /\ m <= n - 1 /\ (n - 1) + 1 = n  BY <1>5, <1>8
  <2>2. A(n) = A(n - 1) + 1  BY <1>1, <1>8, <2>1
  <2>3. A(m) <= A(n - 1) /\ A(m) \in Nat /\ A(n - 1) \in Nat  BY <1>1, <2>1
  <2>. QED  BY <2>2, <2>3
<1>9. ASSUME NEW n \in DOMAIN ids, Alive(ids[n])
      PROVE  A(n) \in 1 .. A(Len(ids)) /\ Place(ids, A(n)) = n
  <2>1. n \in Nat /\ n - 1 \in Nat /\ (n - 1) + 1 = n /\ n <= Len(ids)  BY <1>5
  <2>2. A(n) = A(n - 1) + 1 /\ A(n - 1) \in Nat /\ A(n) <= A(Len(ids)) /\ A(Len(ids)) \in Nat
    BY <1>1, <1>5, <1>9, <2>1
  <2>3. A(n) \in 1 .. A(Len(ids))  BY <2>2
  <2>4. Place(ids, A(n)) \in DOMAIN ids /\ Alive(ids[Place(ids, A(n))]) /\ A(Place(ids, A(n))) = A(n)
    BY <1>6, <2>3
  <2>5. ~(Place(ids, A(n)) < n) /\ ~(n < Place(ids, A(n)))
    BY <1>8, <1>9, <2>2, <2>4
  <2>. QED  BY <1>5, <2>3, <2>4, <2>5
<1>. QED  BY <1>6, <1>7, <1>9 DEF A

LEMMA CompactifyIs ==
  ASSUME NEW ids, NEW evs
  PROVE  Compactify(ids, evs) =
           <<[k \in 1 .. AliveUpTo(ids, Len(ids)) |-> ids[Place(ids, k)]],
             [k \in 1 .. AliveUpTo(ids, Len(ids)) |-> evs[Place(ids, k)]]>>
  BY DEF Compactify, Place

-------------------------------------------------------------------------------
(* The vectors, as constants.  A live entry is followed by one that is larger *)
(* by two at least, so that its flag can be set.                              *)
Exact(ids, evs, tbl, last) ==
  /\ ids \in Seq(Nat) /\ evs \in Seq(Nat) /\ Len(evs) = Len(ids)
  /\ \A m, n \in 1 .. Len(ids) : m < n =>
       ids[m] < ids[n] /\ (Alive(ids[m]) => ids[m] + 1 < ids[n])
  /\ \A n \in 1 .. Len(ids) : ids[n] <= last * 2 + 1
  /\ \A n \in 1 .. Len(ids) : Alive(ids[n]) =>
       \E id \in DOMAIN tbl : ids[n] = id * 2 /\ evs[n] = tbl[id]
  /\ \A id \in DOMAIN tbl : \E n \in 1 .. Len(ids) : ids[n] = id * 2

Dead(ids) == Cardinality({n \in DOMAIN ids : ~Alive(ids[n])})

(* The history of live events.                                               *)
TableOK(tbl, last) ==
  /\ last \in Nat
  /\ DOMAIN tbl \subseteq 1 .. last
  /\ tbl \in [DOMAIN tbl -> Sizes]

IndexInv ==
  /\ TableOK(table, last_event_id)
  /\ Exact(event_ids, events, table, last_event_id)
  /\ total_events = Len(event_ids) /\ empty_events = Dead(event_ids)
  /\ total_raw_events_size = SumOf(table)
  /\ ~refused

LEMMA DeadIsNumber ==
  ASSUME NEW ids \in Seq(Nat) PROVE IsFiniteSet({n \in DOMAIN ids : ~Alive(ids[n])}) /\ Dead(ids) \in Nat
<1>1. DOMAIN ids = 1 .. Len(ids) /\ Len(ids) \in Nat  OBVIOUS
<1>2. IsFiniteSet(1 .. Len(ids))  BY <1>1, FS_Interval
<1>. QED  BY <1>1, <1>2, FS_Subset, FS_CardinalityType DEF Dead

(* A compaction keeps what is alive.                                          *)
LEMMA CompactifyKeeps ==
  ASSUME NEW ids, NEW evs, NEW tbl, NEW last \in Nat, Exact(ids, evs, tbl, last),
         DOMAIN tbl \subseteq Nat
  PROVE  /\ Exact(Compactify(ids, evs)[1], Compactify(ids, evs)[2], tbl, last)
         /\ Dead(Compactify(ids, evs)[1]) = 0
<1> DEFINE c == AliveUpTo(ids, Len(ids))
           P(k) == Place(ids, k)
           new == [k \in 1 .. c |-> ids[P(k)]]
           nev == [k \in 1 .. c |-> evs[P(k)]]
<1>1. ids \in Seq(Nat) /\ evs \in Seq(Nat) /\ Len(evs) = Len(ids) /\ Len(ids) \in Nat
      /\ DOMAIN ids = 1 .. Len(ids) /\ DOMAIN evs = 1 .. Len(ids)
  BY DEF Exact
<1>2. /\ \A k \in 1 .. c : P(k) \in 1 .. Len(ids) /\ Alive(ids[P(k)])
      /\ \A k, l \in 1 .. c : k < l => P(k) < P(l)
      /\ \A n \in 1 .. Len(ids) : Alive(ids[n]) => \E k \in 1 .. c : P(k) = n
  BY <1>1, Places
<1>3. c \in Nat  BY <1>1, AliveCount
<1>. HIDE DEF c, P
<1>4. /\ new \in Seq(Nat) /\ Len(new) = c /\ DOMAIN new = 1 .. c
      /\ nev \in Seq(Nat) /\ Len(nev) = c
      /\ \A k \in 1 .. c : new[k] = ids[P(k)] /\ nev[k] = evs[P(k)]
  <2>1. \A k \in 1 .. c : ids[P(k)] \in Nat /\ evs[P(k)] \in Nat  BY <1>1, <1>2
  <2>2. new \in [1 .. c -> Nat] /\ nev \in [1 .. c -> Nat]  BY <2>1
  <2>3. new \in Seq(Nat) /\ nev \in Seq(Nat)  BY <1>3, <2>2
  <2>4. DOMAIN new = 1 .. c /\ DOMAIN nev = 1 .. c  OBVIOUS
  <2>5. Len(new) = c /\ Len(nev) = c  BY <1>3, <2>3, <2>4
  <2>6. \A k \in 1 .. c : new[k] = ids[P(k)] /\ nev[k] = evs[P(k)]  OBVIOUS
  <2>. QED  BY <2>3, <2>4, <2>5, <2>6
<1>5. Compactify(ids, evs)[1] = new /\ Compactify(ids, evs)[2] = nev
  BY CompactifyIs DEF c, P
<1>. HIDE DEF new, nev
<1>6. ASSUME NEW m \in 1 .. c, NEW n \in 1 .. c, m < n
      PROVE  new[m] < new[n] /\ (Alive(new[m]) => new[m] + 1 < new[n])
  <2>1. PICK i \in 1 .. Len(ids), j \in 1 .. Len(ids) : i = P(m) /\ j = P(n) /\ i < j
    BY <1>2, <1>6
  <2>2. ids[i] < ids[j] /\ (Alive(ids[i]) => ids[i] + 1 < ids[j])
    BY <2>1 DEF Exact
  <2>. QED  BY <1>4, <2>1, <2>2
<1>7. \A n \in 1 .. c : new[n] <= last * 2 + 1
  BY <1>2, <1>4 DEF Exact
<1>8. ASSUME NEW n \in 1 .. c
      PROVE  \E id \in DOMAIN tbl : new[n] = id * 2 /\ nev[n] = tbl[id]
  <2>1. PICK i \in 1 .. Len(ids) : i = P(n) /\ Alive(ids[i])  BY <1>2
  <2>2. \E id \in DOMAIN tbl : ids[i] = id * 2 /\ evs[i] = tbl[id]  BY <2>1 DEF Exact
  <2>. QED  BY <1>4, <2>1, <2>2
<1>9. ASSUME NEW id \in DOMAIN tbl PROVE \E n \in 1 .. c : new[n] = id * 2
  <2>1. PICK n \in 1 .. Len(ids) : ids[n] = id * 2  BY DEF Exact
  <2>2. Alive(ids[n])  BY <2>1, Parity
  <2>. QED  BY <1>2, <1>4, <2>1, <2>2
<1>10. Dead(new) = 0
  <2>1. {n \in DOMAIN new : ~Alive(new[n])} = {}  BY <1>2, <1>4
  <2>. QED  BY <2>1, FS_EmptySet DEF Dead
<1>. QED  BY <1>4, <1>5, <1>6, <1>7, <1>8, <1>9, <1>10 DEF Exact

LEMMA SettleKeeps ==
  ASSUME NEW ids, NEW evs, NEW tbl, NEW last \in Nat, Exact(ids, evs, tbl, last),
         DOMAIN tbl \subseteq Nat, Settle(ids, evs, Len(ids), Dead(ids))
  PROVE  /\ Exact(event_ids', events', tbl, last)
         /\ total_events' = Len(event_ids') /\ empty_events' = Dead(event_ids')
<1>1. CASE event_ids' = ids /\ events' = evs /\ total_events' = Len(ids) /\ empty_events' = Dead(ids)
  BY <1>1
<1>2. CASE /\ event_ids' = Compactify(ids, evs)[1] /\ events' = Compactify(ids, evs)[2]
           /\ total_events' = Len(Compactify(ids, evs)[1]) /\ empty_events' = 0
  BY <1>2, CompactifyKeeps
<1>. QED  BY <1>1, <1>2 DEF Settle

(* What the three kinds of events do to the vectors before that.              *)
LEMMA Appended ==
  ASSUME NEW ids, NEW evs, NEW tbl, NEW last, Exact(ids, evs, tbl, last), TableOK(tbl, last),
         NEW id \in Nat, id > last, NEW size \in Nat
  PROVE  LET tbl2 == [i \in DOMAIN tbl \cup {id} |-> IF i = id THEN size ELSE tbl[i]]
         IN /\ Exact(Append(ids, id * 2), Append(evs, size), tbl2, id)
            /\ Dead(Append(ids, id * 2)) = Dead(ids)
            /\ Len(Append(ids, id * 2)) = Len(ids) + 1
<1> DEFINE tbl2 == [i \in DOMAIN tbl \cup {id} |-> IF i = id THEN size ELSE tbl[i]]
           new == Append(ids, id * 2)
           nev == Append(evs, size)
           L == Len(ids)
<1>1. /\ ids \in Seq(Nat) /\ evs \in Seq(Nat) /\ Len(evs) = L /\ L \in Nat /\ last \in Nat
      /\ \A i \in DOMAIN tbl : i \in Nat /\ i <= last /\ i # id
  BY DEF Exact, TableOK
<1>2. /\ new \in Seq(Nat) /\ nev \in Seq(Nat) /\ Len(new) = L + 1 /\ Len(nev) = L + 1
      /\ DOMAIN ids = 1 .. L /\ DOMAIN new = 1 .. L + 1
      /\ \A n \in 1 .. L : new[n] = ids[n] /\ nev[n] = evs[n]
      /\ new[L + 1] = id * 2 /\ nev[L + 1] = size
  BY <1>1
<1>3. /\ DOMAIN tbl2 = DOMAIN tbl \cup {id} /\ tbl2[id] = size
      /\ \A i \in DOMAIN tbl : tbl2[i] = tbl[i]
  BY <1>1
<1>4. Alive(id * 2)  BY Parity
<1>. HIDE DEF tbl2, new, nev, L
<1>5. \A n \in 1 .. L + 1 : n \in 1 .. L \/ n = L + 1  BY <1>1
<1>6. ASSUME NEW m \in 1 .. L + 1, NEW n \in 1 .. L + 1, m < n
      PROVE  new[m] < new[n] /\ (Alive(new[m]) => new[m] + 1 < new[n])
  <2>1. m \in 1 .. L  BY <1>1, <1>6
  <2>2. CASE n \in 1 .. L
    <3>1. ids[m] < ids[n] /\ (Alive(ids[m]) => ids[m] + 1 < ids[n])
      BY <1>6, <2>1, <2>2 DEF Exact, L
    <3>. QED  BY <1>2, <2>1, <2>2, <3>1
  <2>3. CASE n = L + 1
    <3>1. ids[m] \in Nat  BY <1>1, <1>2, <2>1
    <3>3. ids[m] <= last * 2 + 1  BY <2>1 DEF Exact, L
    <3>2. ASSUME Alive(ids[m]) PROVE ids[m] + 1 < id * 2
      <4>1. PICK i \in DOMAIN tbl : ids[m] = i * 2  BY <2>1, <3>2 DEF Exact, L
      <4>. QED  BY <1>1, <4>1
    <3>4. new[m] = ids[m] /\ new[n] = id * 2  BY <1>2, <2>1, <2>3
    <3>5. PICK x \in Nat, y \in Nat, z \in Nat : x = ids[m] /\ y = id /\ z = last  BY <1>1, <3>1
    <3>6. x <= z * 2 + 1 /\ z < y  BY <1>1, <3>3, <3>5
    <3>7. x < y * 2  BY <3>6
    <3>. QED  BY <3>2, <3>4, <3>5, <3>7
  <2>. QED  BY <1>5, <2>2, <2>3
<1>7. ASSUME NEW n \in 1 .. L + 1 PROVE new[n] <= id * 2 + 1
  <2>1. CASE n = L + 1  BY <1>2, <2>1
  <2>2. CASE n \in 1 .. L
    <3>1. ids[n] \in Nat  BY <1>1, <1>2, <2>2
    <3>2. ids[n] <= last * 2 + 1  BY <2>2 DEF Exact, L
    <3>. QED  BY <1>1, <1>2, <2>2, <3>1, <3>2
  <2>. QED  BY <1>5, <2>1, <2>2
<1>8. ASSUME NEW n \in 1 .. L + 1, Alive(new[n])
      PROVE  \E i \in DOMAIN tbl2 : new[n] = i * 2 /\ nev[n] = tbl2[i]
  <2>1. CASE n = L + 1  BY <1>2, <1>3, <2>1
  <2>2. CASE n \in 1 .. L
    <3>1. PICK i \in DOMAIN tbl : ids[n] = i * 2 /\ evs[n] = tbl[i]
      BY <1>2, <1>8, <2>2 DEF Exact, L
    <3>. QED  BY <1>2, <1>3, <2>2, <3>1
  <2>. QED  BY <1>5, <2>1, <2>2
<1>9. ASSUME NEW i \in DOMAIN tbl2 PROVE \E n \in 1 .. L + 1 : new[n] = i * 2
  <2>1. CASE i = id
    <3>1. L + 1 \in 1 .. L + 1  BY <1>1
    <3>. QED  BY <1>2, <2>1, <3>1
  <2>2. CASE i \in DOMAIN tbl
    <3>1. PICK n \in 1 .. L : ids[n] = i * 2  BY <2>2 DEF Exact, L
    <3>2. n \in 1 .. L + 1  BY <1>1
    <3>. QED  BY <1>2, <3>1, <3>2
  <2>. QED  BY <1>3, <2>1, <2>2
<1>10. Dead(new) = Dead(ids)
  <2>1. {n \in DOMAIN new : ~Alive(new[n])} = {n \in DOMAIN ids : ~Alive(ids[n])}
    <3>1. \A n \in DOMAIN new : ~Alive(new[n]) => n \in DOMAIN ids /\ ~Alive(ids[n])
      BY <1>2, <1>4, <1>5
    <3>2. \A n \in DOMAIN ids : ~Alive(ids[n]) => n \in DOMAIN new /\ ~Alive(new[n])
      BY <1>1, <1>2
    <3>. QED  BY <3>1, <3>2
  <2>. QED  BY <2>1 DEF Dead
<1>11. Exact(new, nev, tbl2, id)
  BY <1>2, <1>6, <1>7, <1>8, <1>9 DEF Exact
<1>. QED  BY <1>2, <1>10, <1>11 DEF tbl2, new, nev, L

(* Where the entry of a live event is, and that the binary search finds it.   *)
Below(ids, x) == Cardinality({n \in DOMAIN ids : ids[n] < x})

LEMMA Located ==
  ASSUME NEW ids, NEW evs, NEW tbl, NEW last, Exact(ids, evs, tbl, last), TableOK(tbl, last),
         NEW id \in DOMAIN tbl
  PROVE  \E pos \in 1 .. Len(ids) :
           /\ ids[pos] = id * 2 /\ evs[pos] = tbl[id]
           /\ Below(ids, id * 2) + 1 = pos
           /\ ids # << >> /\ Last(ids) >= id * 2
<1> DEFINE L == Len(ids)
<1>1. /\ ids \in Seq(Nat) /\ L \in Nat /\ DOMAIN ids = 1 .. L
      /\ \A i \in DOMAIN tbl : i \in Nat
  BY DEF Exact, TableOK
<1>2. PICK pos \in 1 .. L : ids[pos] = id * 2  BY DEF Exact
<1>3. \A n \in 1 .. L : ids[n] \in Nat  BY <1>1
<1>4. \A m, n \in 1 .. L : m < n => ids[m] < ids[n]  BY DEF Exact
<1>5. evs[pos] = tbl[id]
  <2>1. Alive(ids[pos])  BY <1>1, <1>2, Parity
  <2>2. PICK i \in DOMAIN tbl : ids[pos] = i * 2 /\ evs[pos] = tbl[i]  BY <2>1 DEF Exact
  <2>3. i = id  BY <1>1, <1>2, <2>2
  <2>. QED  BY <2>2, <2>3
<1>6. {n \in DOMAIN ids : ids[n] < id * 2} = 1 .. pos - 1
  <2>1. ASSUME NEW n \in 1 .. L PROVE ids[n] < id * 2 <=> n < pos
    <3>1. ids[n] \in Nat /\ ids[pos] \in Nat  BY <1>3
    <3>2. CASE n < pos  BY <1>2, <1>4, <3>2
    <3>3. CASE n = pos  BY <1>2, <3>1, <3>3
    <3>4. CASE pos < n
      <4>1. ids[pos] < ids[n]  BY <1>4, <3>4
      <4>. QED  BY <1>2, <3>1, <3>4, <4>1
    <3>. QED  BY <1>1, <3>2, <3>3, <3>4
  <2>. QED  BY <1>1, <2>1
<1>7. Below(ids, id * 2) + 1 = pos
  <2>1. pos \in Nat /\ pos >= 1  BY <1>1
  <2>2. Cardinality(1 .. pos - 1) = pos - 1  BY <2>1, FS_Interval
  <2>3. Below(ids, id * 2) = pos - 1  BY <1>6, <2>2 DEF Below
  <2>. QED  BY <2>1, <2>3
<1>8. ids # << >> /\ Last(ids) >= id * 2
  <2>1. L \in 1 .. L /\ ids[L] \in Nat  BY <1>1, <1>3
  <2>2. pos < L => ids[pos] < ids[L]  BY <1>4, <2>1
  <2>3. ids[L] >= id * 2
    <3>1. CASE pos = L  BY <1>1, <1>2, <2>1, <3>1
    <3>2. CASE pos < L  BY <1>1, <1>2, <2>1, <2>2, <3>2
    <3>3. pos <= L /\ pos \in Nat /\ L \in Nat  BY <1>1
    <3>4. pos = L \/ pos < L  BY <3>3
    <3>. QED  BY <3>1, <3>2, <3>4
  <2>. QED  BY <1>1, <2>3 DEF Last
<1>. QED  BY <1>2, <1>5, <1>7, <1>8

(* An id past the last one is past the last entry.                            *)
LEMMA PastTheLast ==
  ASSUME NEW ids, NEW evs, NEW tbl, NEW last \in Nat, Exact(ids, evs, tbl, last),
         NEW id \in Nat, id > last, ids # << >>
  PROVE  ~(Last(ids) >= id * 2)
<1>1. ids \in Seq(Nat) /\ Len(ids) \in Nat  BY DEF Exact
<1>2. Len(ids) \in 1 .. Len(ids)  BY <1>1
<1>3. ids[Len(ids)] \in Nat  BY <1>1, <1>2
<1>4. ids[Len(ids)] <= last * 2 + 1  BY <1>2 DEF Exact
<1>. QED  BY <1>3, <1>4 DEF Last

LEMMA Rewritten ==
  ASSUME NEW ids, NEW evs, NEW tbl, NEW last, Exact(ids, evs, tbl, last), TableOK(tbl, last),
         NEW id \in DOMAIN tbl, NEW pos \in 1 .. Len(ids), ids[pos] = id * 2, NEW size \in Nat
  PROVE  Exact(ids, [evs EXCEPT ![pos] = size], [tbl EXCEPT ![id] = size], last)
<1> DEFINE tbl2 == [tbl EXCEPT ![id] = size]
           nev == [evs EXCEPT ![pos] = size]
<1>1. /\ ids \in Seq(Nat) /\ evs \in Seq(Nat) /\ Len(ids) \in Nat /\ Len(evs) = Len(ids)
      /\ \A i \in DOMAIN tbl : i \in Nat
  BY DEF Exact, TableOK
<1>2. /\ nev \in Seq(Nat) /\ Len(nev) = Len(ids)
      /\ nev[pos] = size /\ \A n \in 1 .. Len(ids) : n # pos => nev[n] = evs[n]
  BY <1>1
<1>3. DOMAIN tbl2 = DOMAIN tbl /\ tbl2[id] = size /\ \A i \in DOMAIN tbl : i # id => tbl2[i] = tbl[i]
  BY DEF TableOK
<1>. HIDE DEF tbl2, nev
<1>4. ASSUME NEW n \in 1 .. Len(ids), Alive(ids[n])
      PROVE  \E i \in DOMAIN tbl2 : ids[n] = i * 2 /\ nev[n] = tbl2[i]
  <2>1. CASE n = pos  BY <1>2, <1>3, <2>1
  <2>2. CASE n # pos
    <3>1. PICK i \in DOMAIN tbl : ids[n] = i * 2 /\ evs[n] = tbl[i]  BY <1>4 DEF Exact
    <3>2. i # id
      <4>1. ids[n] # ids[pos]
        <5>1. PICK x \in Nat, y \in Nat : x = ids[n] /\ y = ids[pos]
          <6>1. PICK s : s = ids /\ s \in Seq(Nat)  BY <1>1
          <6>2. \A k \in 1 .. Len(s) : s[k] \in Nat  BY ONLY <6>1
          <6>3. ids[n] \in Nat /\ ids[pos] \in Nat  BY <6>1, <6>2
          <6>. QED  BY ONLY <6>3
        <5>2. n < pos \/ pos < n  BY <1>1, <2>2
        <5>3. ids[n] < ids[pos] \/ ids[pos] < ids[n]  BY <5>2 DEF Exact
        <5>4. x < y \/ y < x  BY <5>1, <5>3
        <5>. QED  BY <5>1, <5>4
      <4>. QED  BY <3>1, <4>1
    <3>. QED  BY <1>2, <1>3, <2>2, <3>1, <3>2
  <2>. QED  BY <2>1, <2>2
<1>5. Exact(ids, nev, tbl2, last)
  BY <1>1, <1>2, <1>3, <1>4 DEF Exact
<1>. QED  BY <1>5 DEF nev, tbl2

MarkedAt(ids, new, pos, id) ==
  /\ new \in Seq(Nat) /\ Len(new) = Len(ids) /\ new[pos] = id * 2 + 1
  /\ \A n \in 1 .. Len(ids) : n # pos => new[n] = ids[n]

ChangedAt(evs, nev, pos) ==
  /\ nev \in Seq(Nat) /\ Len(nev) = Len(evs)
  /\ \A n \in 1 .. Len(evs) : n # pos => nev[n] = evs[n]

Without(tbl, tbl2, id) ==
  DOMAIN tbl2 = DOMAIN tbl \ {id} /\ \A i \in DOMAIN tbl2 : tbl2[i] = tbl[i]

LEMMA Erased ==
  ASSUME NEW ids, NEW evs, NEW tbl, NEW last, Exact(ids, evs, tbl, last), TableOK(tbl, last),
         NEW id \in DOMAIN tbl, NEW pos \in 1 .. Len(ids), ids[pos] = id * 2,
         NEW new, MarkedAt(ids, new, pos, id), NEW nev, ChangedAt(evs, nev, pos),
         NEW tbl2, Without(tbl, tbl2, id)
  PROVE  Exact(new, nev, tbl2, last) /\ Dead(new) = Dead(ids) + 1 /\ Len(new) = Len(ids)
<1> DEFINE L == Len(ids)
<1>1. /\ ids \in Seq(Nat) /\ evs \in Seq(Nat) /\ L \in Nat /\ Len(evs) = L /\ DOMAIN ids = 1 .. L
      /\ last \in Nat /\ \A i \in DOMAIN tbl : i \in Nat /\ i <= last
  BY DEF Exact, TableOK
<1>2. /\ new \in Seq(Nat) /\ Len(new) = L /\ DOMAIN new = 1 .. L
      /\ new[pos] = id * 2 + 1 /\ \A n \in 1 .. L : n # pos => new[n] = ids[n]
  BY <1>1 DEF MarkedAt
<1>3. /\ nev \in Seq(Nat) /\ Len(nev) = L
      /\ \A n \in 1 .. L : n # pos => nev[n] = evs[n]
  BY <1>1 DEF ChangedAt
<1>4. DOMAIN tbl2 = DOMAIN tbl \ {id} /\ \A i \in DOMAIN tbl : i # id => tbl2[i] = tbl[i]
  BY DEF Without
<1>5. Alive(id * 2) /\ ~Alive(id * 2 + 1)  BY <1>1, Parity
<1>. HIDE DEF L
<1>6. \A n \in 1 .. L : ids[n] \in Nat  BY ONLY <1>1
<1>7. \A m, n \in 1 .. L : m < n => ids[m] < ids[n] /\ (Alive(ids[m]) => ids[m] + 1 < ids[n])
  BY DEF Exact, L
<1>8. pos \in 1 .. L  BY DEF L
<1>9. ASSUME NEW m \in 1 .. L, NEW n \in 1 .. L, m < n
      PROVE  new[m] < new[n] /\ (Alive(new[m]) => new[m] + 1 < new[n])
  <2>1. CASE m = pos
    <3>0. n # pos  BY <1>9, <2>1
    <3>1. new[n] = ids[n] /\ new[m] = id * 2 + 1  BY <1>2, <2>1, <3>0
    <3>2. id * 2 + 1 < ids[n]
      <4>1. Alive(ids[m]) => ids[m] + 1 < ids[n]  BY <1>7, <1>9
      <4>. QED  BY <1>5, <2>1, <4>1
    <3>3. ~Alive(new[m])  BY <1>5, <3>1
    <3>. QED  BY <3>1, <3>2, <3>3
  <2>2. CASE n = pos
    <3>1. new[m] = ids[m] /\ new[n] = id * 2 + 1 /\ ids[n] = id * 2  BY <1>1, <1>2, <1>9, <2>2
    <3>2. ids[m] < ids[n] /\ ids[m] \in Nat /\ ids[n] \in Nat  BY <1>6, <1>7, <1>9
    <3>3. PICK i \in Nat, j \in Nat : i = ids[m] /\ j = ids[n]  BY <3>2
    <3>4. i < j + 1 /\ i + 1 < j + 1  BY <3>2, <3>3
    <3>. QED  BY <3>1, <3>3, <3>4
  <2>3. CASE m # pos /\ n # pos
    <3>1. new[m] = ids[m] /\ new[n] = ids[n]  BY <1>2, <2>3
    <3>. QED  BY <1>7, <1>9, <3>1
  <2>. QED  BY <2>1, <2>2, <2>3
<1>10. ASSUME NEW n \in 1 .. L PROVE new[n] <= last * 2 + 1
  <2>1. CASE n = pos
    <3>1. id \in Nat /\ id <= last  BY <1>1
    <3>. QED  BY <1>1, <1>2, <2>1, <3>1
  <2>2. CASE n # pos
    <3>1. ids[n] <= last * 2 + 1  BY DEF Exact, L
    <3>. QED  BY <1>2, <2>2, <3>1
  <2>. QED  BY <2>1, <2>2
<1>11. ASSUME NEW n \in 1 .. L, n # pos PROVE ids[n] # id * 2
  <2>1. n < pos \/ pos < n  BY <1>1, <1>8, <1>11
  <2>2. ids[n] < ids[pos] \/ ids[pos] < ids[n]  BY <1>7, <1>8, <2>1
  <2>3. ids[n] \in Nat /\ ids[pos] \in Nat  BY <1>6, <1>8
  <2>. QED  BY <2>2, <2>3
<1>12. ASSUME NEW n \in 1 .. L, Alive(new[n])
       PROVE  \E i \in DOMAIN tbl2 : new[n] = i * 2 /\ nev[n] = tbl2[i]
  <2>1. n # pos  BY <1>2, <1>5, <1>12
  <2>2. PICK i \in DOMAIN tbl : ids[n] = i * 2 /\ evs[n] = tbl[i]
    BY <1>2, <1>12, <2>1 DEF Exact, L
  <2>3. i # id  BY <1>11, <2>1, <2>2
  <2>. QED  BY <1>2, <1>3, <1>4, <2>1, <2>2, <2>3
<1>13. ASSUME NEW i \in DOMAIN tbl2 PROVE \E n \in 1 .. L : new[n] = i * 2
  <2>1. i \in DOMAIN tbl /\ i # id  BY <1>4
  <2>2. PICK n \in 1 .. L : ids[n] = i * 2  BY <2>1 DEF Exact, L
  <2>3. n # pos  BY <1>1, <2>1, <2>2
  <2>. QED  BY <1>2, <2>2, <2>3
<1>14. Dead(new) = Dead(ids) + 1
  <2> DEFINE S == {n \in DOMAIN ids : ~Alive(ids[n])}
  <2>1. {n \in DOMAIN new : ~Alive(new[n])} = S \cup {pos}
    <3>1. \A n \in DOMAIN new : ~Alive(new[n]) => n \in S \cup {pos}  BY <1>1, <1>2
    <3>2. \A n \in S \cup {pos} : n \in DOMAIN new /\ ~Alive(new[n])  BY <1>1, <1>2, <1>5, <1>8
    <3>. QED  BY <3>1, <3>2
  <2>2. pos \notin S  BY <1>5
  <2>3. IsFiniteSet(S)  BY <1>1, DeadIsNumber
  <2>. HIDE DEF S
  <2>4. Cardinality(S \cup {pos}) = Cardinality(S) + 1  BY <2>2, <2>3, FS_AddElement
  <2>. QED  BY <2>1, <2>4 DEF Dead, S
<1>15. Exact(new, nev, tbl2, last)
  BY <1>2, <1>3, <1>9, <1>10, <1>12, <1>13 DEF Exact
<1>. QED  BY <1>2, <1>14, <1>15 DEF L

-------------------------------------------------------------------------------
(* The history of the live events, and the sum of their sizes.                *)

LEMMA TableFacts ==
  ASSUME NEW tbl, NEW last, TableOK(tbl, last)
  PROVE  /\ IsFiniteSet(DOMAIN tbl) /\ \A i \in DOMAIN tbl : tbl[i] \in Nat /\ i \in Nat /\ i <= last
         /\ SumOf(tbl) \in Nat
<1>1. last \in Nat /\ DOMAIN tbl \subseteq 1 .. last /\ tbl \in [DOMAIN tbl -> Sizes]
  BY DEF TableOK
<1>2. IsFiniteSet(DOMAIN tbl)  BY <1>1, FS_Interval, FS_Subset
<1>3. \A i \in DOMAIN tbl : tbl[i] \in Nat  BY <1>1, BinlogEventsProcessorAssumption
<1>. QED  BY <1>1, <1>2, <1>3, SumRemove

LEMMA SumRest ==
  ASSUME NEW t, IsFiniteSet(DOMAIN t), \A i \in DOMAIN t : t[i] \in Nat, NEW x \in DOMAIN t
  PROVE  SumOf(t) = t[x] + SumOf([i \in DOMAIN t \ {x} |-> t[i]])
  BY SumRemove

LEMMA TableErase ==
  ASSUME NEW tbl, NEW last, TableOK(tbl, last), NEW id \in DOMAIN tbl
  PROVE  LET rest == [i \in DOMAIN tbl \ {id} |-> tbl[i]]
         IN TableOK(rest, last) /\ SumOf(rest) = SumOf(tbl) - tbl[id]
<1> DEFINE rest == [i \in DOMAIN tbl \ {id} |-> tbl[i]]
<1>1. TableOK(rest, last)  BY DEF TableOK
<1>2. SumOf(tbl) = tbl[id] + SumOf(rest)  BY TableFacts, SumRemove
<1>3. SumOf(rest) \in Nat  BY <1>1, TableFacts
<1>4. tbl[id] \in Nat /\ SumOf(tbl) \in Nat  BY TableFacts
<1>. HIDE DEF rest
<1>5. SumOf(rest) = SumOf(tbl) - tbl[id]  BY <1>2, <1>3, <1>4
<1>. QED  BY <1>1, <1>5 DEF rest

(* A table with a value at a place of its own, new or not.                    *)
PutAt(rest, tbl2, id, size) ==
  /\ DOMAIN tbl2 = DOMAIN rest \cup {id} /\ tbl2 \in [DOMAIN tbl2 -> Sizes]
  /\ id \notin DOMAIN rest /\ tbl2[id] = size /\ \A i \in DOMAIN rest : tbl2[i] = rest[i]

LEMMA TablePut ==
  ASSUME NEW rest, NEW last \in Nat, NEW id \in Nat, 1 <= id, id <= last, NEW size \in Sizes,
         TableOK(rest, last), NEW tbl2, PutAt(rest, tbl2, id, size)
  PROVE  TableOK(tbl2, last) /\ SumOf(tbl2) = SumOf(rest) + size
<1>. USE DEF PutAt
<1>1. TableOK(tbl2, last)
  <2>1. DOMAIN tbl2 \subseteq 1 .. last  BY DEF TableOK
  <2>2. tbl2 \in [DOMAIN tbl2 -> Sizes]  BY DEF TableOK
  <2>. QED  BY <2>1, <2>2 DEF TableOK
<1>2. [i \in DOMAIN tbl2 \ {id} |-> tbl2[i]] = rest
  <2>1. rest = [i \in DOMAIN rest |-> rest[i]]  BY DEF TableOK
  <2>2. DOMAIN tbl2 \ {id} = DOMAIN rest  OBVIOUS
  <2>3. \A i \in DOMAIN rest : tbl2[i] = rest[i]  OBVIOUS
  <2>. QED  BY <2>1, <2>2, <2>3
<1>3. id \in DOMAIN tbl2 /\ tbl2[id] = size  OBVIOUS
<1>4. SumOf(tbl2) = tbl2[id] + SumOf(rest)
  <2>1. SumOf(tbl2) = tbl2[id] + SumOf([i \in DOMAIN tbl2 \ {id} |-> tbl2[i]])
    <3>1. IsFiniteSet(DOMAIN tbl2) /\ \A i \in DOMAIN tbl2 : tbl2[i] \in Nat
      BY <1>1, TableFacts
    <3>. QED  BY <1>3, <3>1, SumRest
  <2>. QED  BY <1>2, <2>1
<1>5. SumOf(rest) \in Nat /\ size \in Nat  BY TableFacts, BinlogEventsProcessorAssumption
<1>. QED  BY <1>1, <1>3, <1>4, <1>5

LEMMA TableAdd ==
  ASSUME NEW tbl, NEW last, TableOK(tbl, last), NEW id \in Nat, id > last, NEW size \in Sizes
  PROVE  LET tbl2 == [i \in DOMAIN tbl \cup {id} |-> IF i = id THEN size ELSE tbl[i]]
         IN TableOK(tbl2, id) /\ SumOf(tbl2) = SumOf(tbl) + size
<1> DEFINE tbl2 == [i \in DOMAIN tbl \cup {id} |-> IF i = id THEN size ELSE tbl[i]]
<1>1. last \in Nat /\ 1 <= id /\ id <= id  BY DEF TableOK
<1>2. TableOK(tbl, id) /\ id \notin DOMAIN tbl  BY <1>1 DEF TableOK
<1>3. PutAt(tbl, tbl2, id, size)  BY <1>2 DEF TableOK, PutAt
<1>. HIDE DEF tbl2
<1>4. TableOK(tbl2, id) /\ SumOf(tbl2) = SumOf(tbl) + size  BY <1>1, <1>2, <1>3, TablePut
<1>. QED  BY <1>4 DEF tbl2

LEMMA TableRewrite ==
  ASSUME NEW tbl, NEW last, TableOK(tbl, last), NEW id \in DOMAIN tbl, NEW size \in Sizes
  PROVE  LET tbl2 == [tbl EXCEPT ![id] = size]
         IN TableOK(tbl2, last) /\ SumOf(tbl2) = SumOf(tbl) - tbl[id] + size
<1> DEFINE rest == [i \in DOMAIN tbl \ {id} |-> tbl[i]]
           tbl2 == [tbl EXCEPT ![id] = size]
<1>1. TableOK(rest, last) /\ SumOf(rest) = SumOf(tbl) - tbl[id]  BY TableErase
<1>2. last \in Nat /\ id \in Nat /\ 1 <= id /\ id <= last  BY DEF TableOK
<1>3. PutAt(rest, tbl2, id, size)  BY DEF TableOK, PutAt
<1>. HIDE DEF rest, tbl2
<1>4. TableOK(tbl2, last) /\ SumOf(tbl2) = SumOf(rest) + size
  BY <1>1, <1>2, <1>3, TablePut
<1>. QED  BY <1>1, <1>4 DEF tbl2

-------------------------------------------------------------------------------
LEMMA IndexInvInit == Init => IndexInv
<1> SUFFICES ASSUME Init PROVE IndexInv
  OBVIOUS
<1>1. TableOK(table, last_event_id)  BY DEF Init, TableOK
<1>2. Exact(event_ids, events, table, last_event_id)  BY DEF Init, Exact
<1>3. Dead(event_ids) = 0
  <2>1. {n \in DOMAIN event_ids : ~Alive(event_ids[n])} = {}  BY DEF Init
  <2>. QED  BY <2>1, FS_EmptySet DEF Dead
<1>4. SumOf(table) = 0
  <2>1. DOMAIN table = {}  BY DEF Init
  <2>. QED  BY <1>1, <2>1, TableFacts, SumRemove
<1>. QED  BY <1>1, <1>2, <1>3, <1>4 DEF Init, IndexInv

LEMMA AddKeeps ==
  ASSUME IndexInv, NEW id \in EventIds, NEW size \in Sizes, Add(id, size)
  PROVE  IndexInv'
<1> DEFINE tbl2 == [i \in DOMAIN table \cup {id} |-> IF i = id THEN size ELSE table[i]]
<1>1. /\ TableOK(table, last_event_id) /\ last_event_id \in Nat
      /\ Exact(event_ids, events, table, last_event_id)
      /\ id \in Nat /\ id > last_event_id /\ size \in Nat /\ size # 0
  BY BinlogEventsProcessorAssumption DEF IndexInv, TableOK, Add, EventIds
<1>2. ~NotBeyondBack(id)  BY <1>1, PastTheLast DEF NotBeyondBack
<1>3. Push(id, size)  BY <1>1, <1>2 DEF Add, DoEvent
<1>4. /\ refused' = FALSE /\ last_event_id' = id /\ table' = tbl2
      /\ total_raw_events_size' = total_raw_events_size + size
      /\ Settle(Append(event_ids, id * 2), Append(events, size), total_events + 1, empty_events)
  BY <1>2, <1>3 DEF Push, Add
<1>5. /\ Exact(Append(event_ids, id * 2), Append(events, size), tbl2, id)
      /\ Dead(Append(event_ids, id * 2)) = Dead(event_ids)
      /\ Len(Append(event_ids, id * 2)) = Len(event_ids) + 1
  BY <1>1, Appended
<1>6. TableOK(tbl2, id) /\ SumOf(tbl2) = SumOf(table) + size  BY <1>1, TableAdd
<1>. HIDE DEF tbl2
<1>7. DOMAIN tbl2 \subseteq Nat  BY <1>6 DEF TableOK
<1>8. Settle(Append(event_ids, id * 2), Append(events, size),
             Len(Append(event_ids, id * 2)), Dead(Append(event_ids, id * 2)))
  BY <1>4, <1>5 DEF IndexInv
<1>9. /\ Exact(event_ids', events', tbl2, id)
      /\ total_events' = Len(event_ids') /\ empty_events' = Dead(event_ids')
  BY <1>1, <1>5, <1>7, <1>8, SettleKeeps
<1>. QED  BY <1>4, <1>6, <1>9 DEF IndexInv

(* An event of a live id replaces the entry that the binary search finds.     *)
LEMMA ReplaceLive ==
  ASSUME IndexInv, NEW id \in DOMAIN table, NEW size \in Nat, DoEvent(TRUE, id, size)
  PROVE  \E pos \in 1 .. Len(event_ids) :
           /\ event_ids[pos] = id * 2
           /\ refused' = FALSE /\ last_event_id' = last_event_id
           /\ total_raw_events_size' = total_raw_events_size - table[id] + size
           /\ Settle(IF size = 0 THEN [event_ids EXCEPT ![pos] = @ + 1] ELSE event_ids,
                     [events EXCEPT ![pos] = size],
                     total_events, IF size = 0 THEN empty_events + 1 ELSE empty_events)
<1>1. PICK pos \in 1 .. Len(event_ids) :
        /\ event_ids[pos] = id * 2 /\ events[pos] = table[id]
        /\ Below(event_ids, id * 2) + 1 = pos
        /\ event_ids # << >> /\ Last(event_ids) >= id * 2
  BY Located DEF IndexInv
<1>2. LowerBound(id * 2) = pos  BY <1>1 DEF LowerBound, Below
<1>3. NotBeyondBack(id)  BY <1>1 DEF NotBeyondBack
<1>4. Replace(id, size)  BY <1>3 DEF DoEvent
<1>5. ~(pos > Len(event_ids) \/ event_ids[pos] # id * 2)
  <2>1. Len(event_ids) \in Nat  BY DEF IndexInv, Exact
  <2>. QED  BY <1>1, <2>1
<1>. QED  BY <1>1, <1>2, <1>4, <1>5 DEF Replace

LEMMA RewriteKeeps ==
  ASSUME IndexInv, NEW id \in EventIds, NEW size \in Sizes, Rewrite(id, size)
  PROVE  IndexInv'
<1> DEFINE tbl2 == [table EXCEPT ![id] = size]
<1>1. /\ TableOK(table, last_event_id) /\ last_event_id \in Nat
      /\ Exact(event_ids, events, table, last_event_id)
      /\ id \in DOMAIN table /\ size \in Nat /\ size # 0 /\ table' = tbl2
  BY BinlogEventsProcessorAssumption DEF IndexInv, TableOK, Rewrite
<1>2. PICK pos \in 1 .. Len(event_ids) :
        /\ event_ids[pos] = id * 2
        /\ refused' = FALSE /\ last_event_id' = last_event_id
        /\ total_raw_events_size' = total_raw_events_size - table[id] + size
        /\ Settle(event_ids, [events EXCEPT ![pos] = size], total_events, empty_events)
  BY <1>1, ReplaceLive DEF Rewrite
<1>3. Exact(event_ids, [events EXCEPT ![pos] = size], tbl2, last_event_id)
  BY <1>1, <1>2, Rewritten
<1>4. TableOK(tbl2, last_event_id) /\ SumOf(tbl2) = SumOf(table) - table[id] + size
  BY <1>1, TableRewrite
<1>. HIDE DEF tbl2
<1>5. DOMAIN tbl2 \subseteq Nat  BY <1>4 DEF TableOK
<1>6. Settle(event_ids, [events EXCEPT ![pos] = size], Len(event_ids), Dead(event_ids))
  BY <1>2 DEF IndexInv
<1>7. /\ Exact(event_ids', events', tbl2, last_event_id)
      /\ total_events' = Len(event_ids') /\ empty_events' = Dead(event_ids')
  BY <1>1, <1>3, <1>5, <1>6, SettleKeeps
<1>. QED  BY <1>1, <1>2, <1>4, <1>7 DEF IndexInv

LEMMA EraseKeeps ==
  ASSUME IndexInv, NEW id \in EventIds, Erase(id)
  PROVE  IndexInv'
<1> DEFINE tbl2 == [i \in DOMAIN table \ {id} |-> table[i]]
           new(pos) == [event_ids EXCEPT ![pos] = @ + 1]
           nev(pos) == [events EXCEPT ![pos] = 0]
<1>1. /\ TableOK(table, last_event_id) /\ last_event_id \in Nat
      /\ Exact(event_ids, events, table, last_event_id)
      /\ id \in DOMAIN table /\ table' = tbl2 /\ 0 \in Nat
  BY DEF IndexInv, TableOK, Erase
<1>2. PICK pos \in 1 .. Len(event_ids) :
        /\ event_ids[pos] = id * 2
        /\ refused' = FALSE /\ last_event_id' = last_event_id
        /\ total_raw_events_size' = total_raw_events_size - table[id] + 0
        /\ Settle(new(pos), nev(pos), total_events, empty_events + 1)
  BY <1>1, ReplaceLive DEF Erase
<1>. HIDE DEF new, nev
<1>3. /\ Exact(new(pos), nev(pos), tbl2, last_event_id)
      /\ Dead(new(pos)) = Dead(event_ids) + 1
      /\ Len(new(pos)) = Len(event_ids)
  <2>1. event_ids \in Seq(Nat) /\ events \in Seq(Nat) /\ Len(events) = Len(event_ids)
    BY <1>1 DEF Exact
  <2>2. MarkedAt(event_ids, new(pos), pos, id)
    BY <1>2, <2>1 DEF new, MarkedAt
  <2>3. ChangedAt(events, nev(pos), pos)
    BY <1>2, <2>1 DEF nev, ChangedAt
  <2>4. Without(table, tbl2, id)
    BY DEF Without
  <2>. HIDE DEF tbl2
  <2>. QED  BY <1>1, <1>2, <2>2, <2>3, <2>4, Erased
<1>4. TableOK(tbl2, last_event_id) /\ SumOf(tbl2) = SumOf(table) - table[id]
  BY <1>1, TableErase
<1>5. total_raw_events_size' = SumOf(table) - table[id]
  <2>1. SumOf(table) \in Nat /\ table[id] \in Nat  BY <1>1, TableFacts
  <2>. QED  BY <1>2, <2>1 DEF IndexInv
<1>. HIDE DEF tbl2
<1>6. DOMAIN tbl2 \subseteq Nat  BY <1>4 DEF TableOK
<1>7. Settle(new(pos), nev(pos), Len(new(pos)), Dead(new(pos)))
  BY <1>2, <1>3 DEF IndexInv
<1>8. /\ Exact(event_ids', events', tbl2, last_event_id)
      /\ total_events' = Len(event_ids') /\ empty_events' = Dead(event_ids')
  BY <1>1, <1>3, <1>6, <1>7, SettleKeeps
<1>. QED  BY <1>1, <1>2, <1>4, <1>5, <1>8 DEF IndexInv

LEMMA IndexInvHolds == Spec => []IndexInv
<1>1. IndexInv /\ UNCHANGED vars => IndexInv'
  BY DEF IndexInv, vars, counter_vars
<1>2. IndexInv /\ Next => IndexInv'
  BY AddKeeps, RewriteKeeps, EraseKeeps DEF Next
<1>. QED  BY IndexInvInit, <1>1, <1>2, PTL DEF Spec

-------------------------------------------------------------------------------
(* for_each() passes exactly the live events, each with its last value and in *)
(* the order of their ids.                                                    *)
THEOREM IndexExact == Spec => []IndexIsExact
<1>1. ASSUME IndexInv PROVE IndexIsExact
  <2>1. /\ event_ids \in Seq(Nat) /\ Len(event_ids) \in Nat /\ DOMAIN event_ids = 1 .. Len(event_ids)
        /\ \A i \in DOMAIN table : i \in Nat
    BY <1>1 DEF IndexInv, Exact, TableOK
  <2>2. \A n \in 2 .. Len(event_ids) : event_ids[n - 1] < event_ids[n]
    <3> SUFFICES ASSUME NEW n \in 2 .. Len(event_ids) PROVE event_ids[n - 1] < event_ids[n]
      OBVIOUS
    <3>1. PICK m \in 1 .. Len(event_ids) : m = n - 1 /\ m < n  BY <2>1
    <3>2. n \in 1 .. Len(event_ids)  BY <2>1
    <3>. QED  BY <1>1, <3>1, <3>2 DEF IndexInv, Exact
  <2>3. {e \in Range(event_ids) : Alive(e)} = {i * 2 : i \in DOMAIN table}
    <3>1. ASSUME NEW e \in Range(event_ids), Alive(e) PROVE \E i \in DOMAIN table : e = i * 2
      <4>1. PICK n \in 1 .. Len(event_ids) : e = event_ids[n]  BY <2>1 DEF Range
      <4>. QED  BY <1>1, <3>1, <4>1 DEF IndexInv, Exact
    <3>2. ASSUME NEW i \in DOMAIN table PROVE i * 2 \in Range(event_ids) /\ Alive(i * 2)
      <4>1. \E n \in 1 .. Len(event_ids) : event_ids[n] = i * 2  BY <1>1 DEF IndexInv, Exact
      <4>2. i * 2 \in Range(event_ids)  BY <2>1, <4>1 DEF Range
      <4>. QED  BY <2>1, <4>2, Parity
    <3>. QED  BY <3>1, <3>2
  <2>4. ASSUME NEW i \in DOMAIN table PROVE events[Position(i)] = table[i]
    <3>1. PICK pos \in 1 .. Len(event_ids) : event_ids[pos] = i * 2
      BY <1>1 DEF IndexInv, Exact
    <3>2. Position(i) \in 1 .. Len(event_ids) /\ event_ids[Position(i)] = i * 2
      BY <2>1, <3>1 DEF Position
    <3>3. Alive(event_ids[Position(i)])  BY <2>1, <3>2, Parity
    <3>4. PICK j \in DOMAIN table : event_ids[Position(i)] = j * 2 /\ events[Position(i)] = table[j]
      BY <1>1, <3>2, <3>3 DEF IndexInv, Exact
    <3>5. j = i  BY <2>1, <3>2, <3>4
    <3>. QED  BY <3>4, <3>5
  <2>. QED  BY <2>2, <2>3, <2>4 DEF IndexIsExact
<1>. QED  BY <1>1, IndexInvHolds, PTL

(* The counters that decide when to compact and when to reindex count what    *)
(* the vectors hold.                                                          *)
THEOREM CountersExact == Spec => []CountersAreExact
<1>1. IndexInv => CountersAreExact
  BY DEF IndexInv, Exact, CountersAreExact, Dead, SumOf
<1>. QED  BY <1>1, IndexInvHolds, PTL

(* No event of an owner that follows the rules is refused.                    *)
THEOREM NoneRefused == Spec => []NothingIsRefused
<1>1. IndexInv => NothingIsRefused
  BY DEF IndexInv, NothingIsRefused
<1>. QED  BY <1>1, IndexInvHolds, PTL
===============================================================================
