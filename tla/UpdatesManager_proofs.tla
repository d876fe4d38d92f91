-------------------------- MODULE UpdatesManager_proofs --------------------------
(***************************************************************************)
(* Proofs about UpdatesManager, for any number of events, any counts, and  *)
(* any updates, answers and timers in any order.                           *)
(***************************************************************************)
EXTENDS UpdatesManager, TLAPS

-------------------------------------------------------------------------------
(* Updates as blocks of events Start(u) + 1 .. u.pts, and chains of blocks:   *)
(* each begins where the one before it ends, or later.                        *)
Blocks == [pts : Pts, count : Nat]
Start(u) == u.pts - u.count
Apart(u, v) == u.pts <= Start(v) \/ v.pts <= Start(u)
ApartFrom(u, S) == \A v \in S : Apart(u, v)
Chain(us) == \A i, j \in DOMAIN us : i < j => us[i].pts <= Start(us[j])

LEMMA BlockIs ==
  ASSUME NEW u \in Blocks
  PROVE  u.pts \in Int /\ u.pts >= 1 /\ u.count \in Nat /\ Start(u) \in Int /\ Start(u) <= u.pts
         /\ u.count = u.pts - Start(u) /\ u = [pts |-> u.pts, count |-> u.count]
<1>1. u.pts \in Pts /\ u.count \in Nat /\ u = [pts |-> u.pts, count |-> u.count]  BY DEF Blocks
<1>2. u.pts \in Int /\ u.pts >= 1  BY <1>1, UpdatesAssumption DEF Pts
<1>. QED  BY <1>1, <1>2 DEF Start

Sizes(c, u, n) == n + u.count
Lists(c, u, events) == events \o Events(u)
Merges(c, u, us) == Emplace(us, u)
Handles(c, u, w) == ProcessFirst(w)
Adds(view, u, d) == AddPending(d, u, view.long, u \in view.unacceptable)
Largest(s) == Max(s)

Counting == INSTANCE FoldTheorems WITH Op <- Sizes, Pick <- Largest
Listing == INSTANCE FoldTheorems WITH Op <- Lists, Pick <- Largest
Merging == INSTANCE FoldTheorems WITH Op <- Merges, Pick <- Largest
Handling == INSTANCE FoldTheorems WITH Op <- Handles, Pick <- Largest
Adding == INSTANCE FoldTheorems WITH Op <- Adds, Pick <- Largest

LEMMA LargestPicked == /\ Counting!PicksLargest /\ Listing!PicksLargest /\ Merging!PicksLargest
                       /\ Handling!PicksLargest /\ Adding!PicksLargest
<1>1. ASSUME NEW n \in Nat, NEW s \in SUBSET (1 .. n), s # {}
      PROVE  Largest(s) \in s /\ \A y \in s : Largest(s) >= y
  <2>1. \A r : Counting!Max(r) = Largest(r)  BY DEF Counting!Max, Max, Largest
  <2>. QED  BY <1>1, <2>1, Counting!MaxIs
<1>. QED  BY <1>1 DEF Counting!PicksLargest, Listing!PicksLargest, Merging!PicksLargest,
                      Handling!PicksLargest, Adding!PicksLargest

LEMMA CountAppend ==
  /\ EventCount(<< >>) = 0
  /\ \A us \in Seq(Blocks), u \in Blocks : EventCount(Append(us, u)) = EventCount(us) + u.count
<1>1. \A us : EventCount(us) = Counting!FoldOf(0, 0, us)
  BY DEF EventCount, FoldLeft, Counting!FoldOf, MapThenFoldSet, Counting!MapThenFoldSet, Sizes, Largest
<1>2. /\ Counting!FoldOf(0, 0, << >>) = 0
      /\ \A us \in Seq(Blocks), u \in Blocks :
           Counting!FoldOf(0, 0, Append(us, u)) = Sizes(0, u, Counting!FoldOf(0, 0, us))
  <2>1. Counting!PicksLargest  BY LargestPicked
  <2>. QED  BY <2>1, Counting!FoldAppend
<1>. QED  BY <1>1, <1>2 DEF Sizes

LEMMA ListAppend ==
  /\ AllEvents(<< >>) = << >>
  /\ \A us \in Seq(Blocks), u \in Blocks : AllEvents(Append(us, u)) = AllEvents(us) \o Events(u)
<1>1. \A us : AllEvents(us) = Listing!FoldOf(0, << >>, us)
  BY DEF AllEvents, FoldLeft, Listing!FoldOf, MapThenFoldSet, Listing!MapThenFoldSet, Lists, Largest
<1>2. /\ Listing!FoldOf(0, << >>, << >>) = << >>
      /\ \A us \in Seq(Blocks), u \in Blocks :
           Listing!FoldOf(0, << >>, Append(us, u)) = Lists(0, u, Listing!FoldOf(0, << >>, us))
  <2>1. Listing!PicksLargest  BY LargestPicked
  <2>. QED  BY <2>1, Listing!FoldAppend
<1>. QED  BY <1>1, <1>2 DEF Lists

MergeAll(base, us) == FoldLeft(Emplace, base, us)

LEMMA MergeAppend ==
  ASSUME NEW base
  PROVE  /\ MergeAll(base, << >>) = base
         /\ \A us \in Seq(Blocks), u \in Blocks :
              MergeAll(base, Append(us, u)) = Emplace(MergeAll(base, us), u)
<1>1. \A us : MergeAll(base, us) = Merging!FoldOf(0, base, us)
  BY DEF MergeAll, FoldLeft, Merging!FoldOf, MapThenFoldSet, Merging!MapThenFoldSet, Merges, Largest
<1>2. /\ Merging!FoldOf(0, base, << >>) = base
      /\ \A us \in Seq(Blocks), u \in Blocks :
           Merging!FoldOf(0, base, Append(us, u)) = Merges(0, u, Merging!FoldOf(0, base, us))
  <2>1. Merging!PicksLargest  BY LargestPicked
  <2>. QED  BY <2>1, Merging!FoldAppend
<1>. QED  BY <1>1, <1>2 DEF Merges

(* The two loops over postponed updates.                                      *)
Loop(w, us) == FoldLeft(LAMBDA v, u : ProcessFirst(v), w, us)
AddAgain(d, view, us) == FoldLeft(LAMBDA e, u : AddPending(e, u, view.long, u \in view.unacceptable), d, us)

LEMMA LoopAppend ==
  ASSUME NEW w
  PROVE  /\ Loop(w, << >>) = w
         /\ \A us \in Seq(Blocks), u \in Blocks : Loop(w, Append(us, u)) = ProcessFirst(Loop(w, us))
<1>1. \A us : Loop(w, us) = Handling!FoldOf(0, w, us)
  BY DEF Loop, FoldLeft, Handling!FoldOf, MapThenFoldSet, Handling!MapThenFoldSet, Handles, Largest
<1>2. /\ Handling!FoldOf(0, w, << >>) = w
      /\ \A us \in Seq(Blocks), u \in Blocks :
           Handling!FoldOf(0, w, Append(us, u)) = Handles(0, u, Handling!FoldOf(0, w, us))
  <2>1. Handling!PicksLargest  BY LargestPicked
  <2>. QED  BY <2>1, Handling!FoldAppend
<1>. QED  BY <1>1, <1>2 DEF Handles

LEMMA AddAgainAppend ==
  ASSUME NEW d, NEW view
  PROVE  /\ AddAgain(d, view, << >>) = d
         /\ \A us \in Seq(Blocks), u \in Blocks :
              AddAgain(d, view, Append(us, u)) = Adds(view, u, AddAgain(d, view, us))
<1>1. \A us : AddAgain(d, view, us) = Adding!FoldOf(view, d, us)
  BY DEF AddAgain, FoldLeft, Adding!FoldOf, MapThenFoldSet, Adding!MapThenFoldSet, Adds, Largest
<1>2. /\ Adding!FoldOf(view, d, << >>) = d
      /\ \A us \in Seq(Blocks), u \in Blocks :
           Adding!FoldOf(view, d, Append(us, u)) = Adds(view, u, Adding!FoldOf(view, d, us))
  <2>1. Adding!PicksLargest  BY LargestPicked
  <2>. QED  BY <2>1, Adding!FoldAppend
<1>. QED  BY <1>1, <1>2

-------------------------------------------------------------------------------
(* What Emplace returns.                                                      *)
LEMMA PlaceExists ==
  ASSUME NEW us \in Seq(Blocks), NEW u \in Blocks
  PROVE  /\ Place(us, u) \in 0 .. Len(us)
         /\ \A i \in 1 .. Place(us, u) : ~Before(u, us[i])
         /\ Place(us, u) < Len(us) => Before(u, us[Place(us, u) + 1])
<1> DEFINE Fits(n, m) == /\ \A i \in 1 .. n : ~Before(u, us[i])
                         /\ n < m => Before(u, us[n + 1])
           T == {m \in Nat : m <= Len(us) => \E n \in 0 .. m : Fits(n, m)}
<1>1. 0 \in T  OBVIOUS
<1>2. ASSUME NEW m \in Nat, m \in T PROVE m + 1 \in T
  <2> SUFFICES ASSUME m + 1 <= Len(us) PROVE \E n \in 0 .. m + 1 : Fits(n, m + 1)
    OBVIOUS
  <2>1. PICK n \in 0 .. m : Fits(n, m)  BY <1>2
  <2>2. CASE n < m \/ Before(u, us[m + 1])
    <3>1. Fits(n, m + 1)  BY <2>1, <2>2
    <3>. QED  BY <3>1
  <2>3. CASE n = m /\ ~Before(u, us[m + 1])
    <3>1. Fits(m + 1, m + 1)  BY <2>1, <2>3
    <3>. QED  BY <3>1
  <2>. QED  BY <2>1, <2>2, <2>3
<1>. HIDE DEF T
<1>3. Nat \subseteq T
  <2>1. Counting!Inductive(T)  BY <1>1, <1>2 DEF Counting!Inductive
  <2>. QED  BY <2>1, Counting!InductionOnNumbers
<1>4. \E n \in 0 .. Len(us) : Fits(n, Len(us))
  <2>1. Len(us) \in Nat /\ Len(us) <= Len(us)  OBVIOUS
  <2>2. Len(us) \in T  BY <1>3, <2>1
  <2>. QED  BY <2>1, <2>2 DEF T
<1>. QED  BY <1>4 DEF Place

LEMMA EmplaceIs ==
  ASSUME NEW us \in Seq(Blocks), NEW u \in Blocks
  PROVE  LET n == Place(us, u)
             es == Emplace(us, u)
         IN  /\ es \in Seq(Blocks) /\ Len(es) = Len(us) + 1
             /\ \A i \in 1 .. n : es[i] = us[i]
             /\ es[n + 1] = u
             /\ \A i \in n + 2 .. Len(es) : es[i] = us[i - 1]
             /\ es = (SubSeq(us, 1, n) \o <<u>>) \o SubSeq(us, n + 1, Len(us))
<1>1. PICK n \in 0 .. Len(us) : n = Place(us, u)  BY PlaceExists
<1>2. Emplace(us, u) = SubSeq(us, 1, n) \o <<u>> \o SubSeq(us, n + 1, Len(us))
  BY <1>1 DEF Emplace, After
<1>3. SubSeq(us, 1, n) \in Seq(Blocks) /\ <<u>> \in Seq(Blocks) /\ SubSeq(us, n + 1, Len(us)) \in Seq(Blocks)
      /\ Len(SubSeq(us, 1, n)) = n /\ Len(<<u>>) = 1 /\ Len(SubSeq(us, n + 1, Len(us))) = Len(us) - n
      /\ (\A i \in 1 .. n : SubSeq(us, 1, n)[i] = us[i]) /\ <<u>>[1] = u
      /\ \A i \in 1 .. Len(us) - n : SubSeq(us, n + 1, Len(us))[i] = us[n + i]
  OBVIOUS
<1>4. PICK a \in Seq(Blocks), b \in Seq(Blocks), c \in Seq(Blocks) :
        a = SubSeq(us, 1, n) /\ b = <<u>> /\ c = SubSeq(us, n + 1, Len(us))
  BY <1>3
<1>5. PICK es : es = (a \o b) \o c  OBVIOUS
<1>6. /\ es \in Seq(Blocks) /\ Len(es) = Len(us) + 1
      /\ \A i \in 1 .. n : es[i] = us[i]
      /\ es[n + 1] = u
      /\ \A i \in n + 2 .. Len(es) : es[i] = us[i - 1]
  <2>1. Len(a) = n /\ Len(b) = 1 /\ Len(c) = Len(us) - n /\ b[1] = u /\ Len(us) \in Nat
        /\ (\A i \in 1 .. n : a[i] = us[i]) /\ \A i \in 1 .. Len(us) - n : c[i] = us[n + i]
    BY <1>3, <1>4
  <2>2. /\ a \o b \in Seq(Blocks) /\ Len(a \o b) = n + 1
        /\ (\A i \in 1 .. n : (a \o b)[i] = a[i]) /\ (a \o b)[n + 1] = b[1]
    <3>1. Len(a \o b) = Len(a) + Len(b) /\ a \o b \in Seq(Blocks)  OBVIOUS
    <3>2. \A i \in 1 .. Len(a) + Len(b) : (a \o b)[i] = IF i <= Len(a) THEN a[i] ELSE b[i - Len(a)]
      OBVIOUS
    <3>3. \A i \in 1 .. n : i \in 1 .. n + 1 /\ i <= n  BY <2>1
    <3>4. n + 1 \in 1 .. n + 1 /\ ~(n + 1 <= n) /\ (n + 1) - n = 1  BY <2>1
    <3>. QED  BY <2>1, <3>1, <3>2, <3>3, <3>4
  <2>3. PICK f \in Seq(Blocks) : f = a \o b  BY <2>2
  <2>4. /\ es \in Seq(Blocks) /\ Len(es) = Len(us) + 1
        /\ (\A i \in 1 .. n + 1 : es[i] = f[i])
        /\ \A i \in n + 2 .. Len(us) + 1 : es[i] = c[i - (n + 1)]
    <3>1. Len(f \o c) = Len(f) + Len(c) /\ f \o c \in Seq(Blocks)  OBVIOUS
    <3>2. \A i \in 1 .. Len(f) + Len(c) : (f \o c)[i] = IF i <= Len(f) THEN f[i] ELSE c[i - Len(f)]
      OBVIOUS
    <3>3. es = f \o c /\ Len(f) = n + 1 /\ (n + 1) + (Len(us) - n) = Len(us) + 1
      BY <1>5, <2>1, <2>2, <2>3
    <3>4. \A i \in 1 .. n + 1 : i \in 1 .. Len(us) + 1 /\ i <= n + 1  BY <2>1
    <3>5. \A i \in n + 2 .. Len(us) + 1 : i \in 1 .. Len(us) + 1 /\ ~(i <= n + 1)  BY <2>1
    <3>. QED  BY <2>1, <3>1, <3>2, <3>3, <3>4, <3>5
  <2>5. ASSUME NEW i \in n + 2 .. Len(us) + 1 PROVE es[i] = us[i - 1]
    <3>1. i - (n + 1) \in 1 .. Len(us) - n /\ n + (i - (n + 1)) = i - 1  BY <2>1
    <3>. QED  BY <2>1, <2>4, <3>1
  <2>. QED  BY <2>1, <2>2, <2>3, <2>4, <2>5
<1>. QED  BY <1>1, <1>2, <1>4, <1>5, <1>6

LEMMA NotBefore ==
  ASSUME NEW u \in Blocks, NEW v \in Blocks, Apart(u, v)
  PROVE  IF Before(u, v) THEN u.pts <= Start(v) ELSE v.pts <= Start(u)
<1>1. PICK x, y, m, n : /\ x = u.pts /\ y = v.pts /\ m = u.count /\ n = v.count
                        /\ x \in Int /\ y \in Int /\ m \in Nat /\ n \in Nat
  BY BlockIs
<1>2. x <= y - n \/ y <= x - m  BY <1>1 DEF Apart, Start
<1>3. IF x < y \/ (x = y /\ n < m) THEN x <= y - n ELSE y <= x - m  BY ONLY <1>1, <1>2
<1>. QED  BY <1>1, <1>3 DEF Before, Start

(* In a chain an update that is apart from all others finds its place, and    *)
(* the chain goes on.                                                         *)
LEMMA EmplaceKeepsChain ==
  ASSUME NEW us \in Seq(Blocks), Chain(us), NEW u \in Blocks, ApartFrom(u, ToSet(us))
  PROVE  /\ Emplace(us, u) \in Seq(Blocks) /\ Emplace(us, u) # << >>
         /\ Chain(Emplace(us, u))
         /\ ToSet(Emplace(us, u)) = ToSet(us) \union {u}
         /\ us = << >> => Last(Emplace(us, u)).pts = u.pts
         /\ us # << >> => Last(Emplace(us, u)).pts = IF u.pts > Last(us).pts THEN u.pts ELSE Last(us).pts
<1>1. PICK n \in 0 .. Len(us) : n = Place(us, u)  BY PlaceExists
<1>2. PICK es \in Seq(Blocks) :
        /\ es = Emplace(us, u) /\ Len(es) = Len(us) + 1
        /\ \A i \in 1 .. n : es[i] = us[i]
        /\ es[n + 1] = u
        /\ \A i \in n + 2 .. Len(es) : es[i] = us[i - 1]
  BY <1>1, EmplaceIs
<1>3. \A i \in DOMAIN us : us[i] \in Blocks /\ Apart(u, us[i])  BY DEF ApartFrom, ToSet
<1>4. ASSUME NEW i \in 1 .. n PROVE us[i].pts <= Start(u)
  <2>1. ~Before(u, us[i]) /\ i \in DOMAIN us  BY <1>1, PlaceExists
  <2>2. us[i] \in Blocks /\ Apart(u, us[i])  BY <1>3, <2>1
  <2>. QED  BY <2>1, <2>2, NotBefore
<1>5. ASSUME NEW i \in DOMAIN us, n < i PROVE u.pts <= Start(us[i])
  <2>1. Before(u, us[n + 1]) /\ n + 1 \in DOMAIN us
    <3>1. n < Len(us) /\ n + 1 \in DOMAIN us  BY <1>5
    <3>. QED  BY <1>1, <3>1, PlaceExists
  <2>2. us[n + 1] \in Blocks /\ Apart(u, us[n + 1])  BY <1>3, <2>1
  <2>3. u.pts <= Start(us[n + 1])  BY <2>1, <2>2, NotBefore
  <2>4. n + 1 = i \/ us[n + 1].pts <= Start(us[i])  BY <1>5, <2>1 DEF Chain
  <2>5. PICK v \in Blocks, w \in Blocks : v = us[i] /\ w = us[n + 1]  BY <1>3, <2>1
  <2>6. /\ u.pts \in Int /\ Start(v) \in Int /\ w.pts \in Int /\ Start(w) \in Int
        /\ Start(w) <= w.pts /\ u.pts <= Start(w) /\ (v = w \/ w.pts <= Start(v))
    BY <2>3, <2>4, <2>5, BlockIs
  <2>7. u.pts <= Start(v)  BY ONLY <2>6
  <2>. QED  BY <2>5, <2>7
<1>6. ASSUME NEW i \in DOMAIN es, NEW j \in DOMAIN es, i < j PROVE es[i].pts <= Start(es[j])
  <2>1. CASE j <= n
    <3>1. es[i] = us[i] /\ es[j] = us[j] /\ i \in DOMAIN us /\ j \in DOMAIN us  BY <1>2, <1>6, <2>1
    <3>. QED  BY <1>6, <3>1 DEF Chain
  <2>2. CASE j = n + 1
    <3>1. es[i] = us[i] /\ es[j] = u /\ i \in 1 .. n  BY <1>2, <1>6, <2>2
    <3>. QED  BY <1>4, <3>1
  <2>3. CASE j > n + 1 /\ i <= n
    <3>1. es[i] = us[i] /\ es[j] = us[j - 1] /\ i \in DOMAIN us /\ j - 1 \in DOMAIN us /\ i < j - 1
      BY <1>2, <1>6, <2>3
    <3>. QED  BY <3>1 DEF Chain
  <2>4. CASE j > n + 1 /\ i = n + 1
    <3>1. es[i] = u /\ es[j] = us[j - 1] /\ j - 1 \in DOMAIN us /\ n < j - 1  BY <1>2, <1>6, <2>4
    <3>. QED  BY <1>5, <3>1
  <2>5. CASE j > n + 1 /\ i > n + 1
    <3>1. es[i] = us[i - 1] /\ es[j] = us[j - 1] /\ i - 1 \in DOMAIN us /\ j - 1 \in DOMAIN us
          /\ i - 1 < j - 1
      BY <1>2, <1>6, <2>5
    <3>. QED  BY <3>1 DEF Chain
  <2>. QED  BY <2>1, <2>2, <2>3, <2>4, <2>5
<1>7. ToSet(es) = ToSet(us) \union {u}
  <2>1. ASSUME NEW i \in DOMAIN es PROVE es[i] \in ToSet(us) \union {u}
    <3>1. \/ i \in DOMAIN us /\ es[i] = us[i]
          \/ i - 1 \in DOMAIN us /\ es[i] = us[i - 1]
          \/ es[i] = u
      BY <1>2
    <3>. QED  BY <3>1 DEF ToSet
  <2>2. u \in ToSet(es)
    <3>1. n + 1 \in DOMAIN es  BY <1>2
    <3>. QED  BY <1>2, <3>1 DEF ToSet
  <2>3. ASSUME NEW i \in DOMAIN us PROVE us[i] \in ToSet(es)
    <3>1. \/ i \in DOMAIN es /\ es[i] = us[i]
          \/ i + 1 \in DOMAIN es /\ es[i + 1] = us[i]
      BY <1>2
    <3>. QED  BY <3>1 DEF ToSet
  <2>. QED  BY <2>1, <2>2, <2>3 DEF ToSet
<1>8. Last(es) = es[Len(us) + 1] /\ (us # << >> => Last(us) = us[Len(us)] /\ Len(us) \in DOMAIN us)
  BY <1>2 DEF Last
<1>9. us = << >> => Last(es).pts = u.pts
  <2>1. us = << >> => n = 0 /\ Len(us) = 0  OBVIOUS
  <2>. QED  BY <1>2, <1>8, <2>1
<1>10. ASSUME us # << >> PROVE Last(es).pts = IF u.pts > Last(us).pts THEN u.pts ELSE Last(us).pts
  <2>1. Len(us) \in DOMAIN us /\ us[Len(us)] \in Blocks  BY <1>8, <1>10
  <2>2. CASE n = Len(us)
    <3>1. es[Len(us) + 1] = u /\ us[Len(us)].pts <= Start(u)  BY <1>2, <1>4, <2>1, <2>2
    <3>2. PICK v \in Blocks : v = us[Len(us)]  BY <2>1
    <3>3. PICK x, y, s : /\ x = u.pts /\ y = v.pts /\ s = Start(u)
                         /\ x \in Int /\ y \in Int /\ s \in Int /\ y <= s /\ s <= x
      BY <3>1, <3>2, BlockIs
    <3>4. x = IF x > y THEN x ELSE y  BY ONLY <3>3
    <3>. QED  BY <1>8, <1>10, <3>1, <3>2, <3>3, <3>4
  <2>3. CASE n < Len(us)
    <3>1. es[Len(us) + 1] = us[Len(us)]  BY <1>2, <2>3
    <3>2. u.pts <= Start(us[Len(us)])  BY <1>5, <2>1, <2>3
    <3>3. PICK v \in Blocks : v = us[Len(us)]  BY <2>1
    <3>4. PICK x, y, s : /\ x = u.pts /\ y = v.pts /\ s = Start(v)
                         /\ x \in Int /\ y \in Int /\ s \in Int /\ x <= s /\ s <= y
      BY <3>2, <3>3, BlockIs
    <3>5. y = IF x > y THEN x ELSE y  BY ONLY <3>4
    <3>. QED  BY <1>8, <1>10, <3>1, <3>3, <3>4, <3>5
  <2>. QED  BY <2>2, <2>3
<1>11. Chain(es) /\ es # << >>  BY <1>2, <1>6 DEF Chain
<1>. QED  BY <1>2, <1>7, <1>9, <1>10, <1>11

-------------------------------------------------------------------------------
(* How many events a chain carries: at most those from p to its end, and if   *)
(* it carries as many, its blocks touch and list them all.                    *)
End(us, p) == IF us = << >> THEN p ELSE Last(us).pts
From(us, p) == \A i \in DOMAIN us : p <= Start(us[i])
Touching(us, p) == \A i \in DOMAIN us : Start(us[i]) = IF i = 1 THEN p ELSE us[i - 1].pts
Interval(p, q) == [i \in 1 .. q - p |-> p + i]

LEMMA AppendIs ==
  ASSUME NEW us \in Seq(Blocks), NEW u \in Blocks
  PROVE  LET vs == Append(us, u) IN
         /\ vs \in Seq(Blocks) /\ Len(vs) = Len(us) + 1 /\ vs # << >>
         /\ DOMAIN us = 1 .. Len(us) /\ DOMAIN vs = 1 .. Len(us) + 1 /\ Len(us) \in Nat
         /\ \A i \in DOMAIN us : vs[i] = us[i] /\ us[i] \in Blocks /\ i \in DOMAIN vs
         /\ vs[Len(us) + 1] = u /\ Last(vs) = u /\ Len(us) + 1 \in DOMAIN vs
         /\ us # << >> => Last(us) = us[Len(us)] /\ Len(us) \in DOMAIN us
  BY DEF Last

LEMMA EndIs ==
  ASSUME NEW us \in Seq(Blocks), NEW p \in Int
  PROVE  /\ End(us, p) \in Int
         /\ us # << >> => Last(us) = us[Len(us)] /\ Len(us) \in DOMAIN us /\ Last(us) \in Blocks
         /\ us # << >> => 1 \in DOMAIN us /\ Head(us) = us[1] /\ Head(us) \in Blocks
<1>1. us # << >> => Last(us) = us[Len(us)] /\ Len(us) \in DOMAIN us /\ Last(us) \in Blocks  BY DEF Last
<1>2. us # << >> => 1 \in DOMAIN us /\ Head(us) = us[1] /\ Head(us) \in Blocks  OBVIOUS
<1>3. us # << >> => Last(us).pts \in Int  BY <1>1, BlockIs
<1>. QED  BY <1>1, <1>2, <1>3 DEF End

LEMMA ChainFront ==
  ASSUME NEW us \in Seq(Blocks), NEW u \in Blocks, Chain(Append(us, u))
  PROVE  Chain(us) /\ \A i \in DOMAIN us : us[i].pts <= Start(u)
<1>1. ASSUME NEW i \in DOMAIN us PROVE us[i].pts <= Start(u)
  <2>1. i < Len(us) + 1 /\ i \in DOMAIN Append(us, u) /\ Len(us) + 1 \in DOMAIN Append(us, u)
        /\ Append(us, u)[i] = us[i] /\ Append(us, u)[Len(us) + 1] = u
    BY AppendIs
  <2>. QED  BY <2>1 DEF Chain
<1>2. ASSUME NEW i \in DOMAIN us, NEW j \in DOMAIN us, i < j PROVE us[i].pts <= Start(us[j])
  <2>1. i \in DOMAIN Append(us, u) /\ j \in DOMAIN Append(us, u)
        /\ Append(us, u)[i] = us[i] /\ Append(us, u)[j] = us[j]
    BY AppendIs
  <2>. QED  BY <1>2, <2>1 DEF Chain
<1>. QED  BY <1>1, <1>2 DEF Chain

LEMMA FromFront ==
  ASSUME NEW us \in Seq(Blocks), NEW u \in Blocks, NEW p, From(Append(us, u), p)
  PROVE  From(us, p) /\ p <= Start(u)
<1>1. Len(us) + 1 \in DOMAIN Append(us, u) /\ Append(us, u)[Len(us) + 1] = u
      /\ \A i \in DOMAIN us : i \in DOMAIN Append(us, u) /\ Append(us, u)[i] = us[i]
  BY AppendIs
<1>. QED  BY <1>1 DEF From

LEMMA TouchingFront ==
  ASSUME NEW us \in Seq(Blocks), NEW u \in Blocks, NEW p \in Int
  PROVE  Touching(Append(us, u), p) <=> Touching(us, p) /\ Start(u) = End(us, p)
<1> DEFINE vs == Append(us, u)
<1>1. /\ DOMAIN us = 1 .. Len(us) /\ DOMAIN vs = 1 .. Len(us) + 1 /\ Len(us) \in Nat
      /\ \A i \in DOMAIN us : vs[i] = us[i]
      /\ vs[Len(us) + 1] = u
      /\ us # << >> => Last(us) = us[Len(us)] /\ Len(us) \in DOMAIN us
      /\ us = << >> => Len(us) = 0
  BY AppendIs
<1>. HIDE DEF vs
<1>2. ASSUME NEW i \in DOMAIN us
      PROVE  (IF i = 1 THEN p ELSE vs[i - 1].pts) = (IF i = 1 THEN p ELSE us[i - 1].pts)
  <2>1. i = 1 \/ i - 1 \in DOMAIN us  BY <1>1
  <2>. QED  BY <1>1, <2>1
<1>3. (IF Len(us) + 1 = 1 THEN p ELSE vs[Len(us) + 1 - 1].pts) = End(us, p)
  <2>1. CASE us = << >>  BY <1>1, <2>1 DEF End
  <2>2. CASE us # << >>
    <3>1. Len(us) + 1 # 1 /\ Len(us) + 1 - 1 = Len(us) /\ vs[Len(us)] = Last(us)  BY <1>1, <2>2
    <3>. QED  BY <2>2, <3>1 DEF End
  <2>. QED  BY <2>1, <2>2
<1>4. \A i : i \in DOMAIN vs <=> i \in DOMAIN us \/ i = Len(us) + 1  BY <1>1
<1>5. Touching(vs, p) <=>
        /\ \A i \in DOMAIN us : Start(us[i]) = IF i = 1 THEN p ELSE us[i - 1].pts
        /\ Start(u) = End(us, p)
  BY <1>1, <1>2, <1>3, <1>4 DEF Touching
<1>. QED  BY <1>5 DEF Touching, vs

CountOK(us, p) == /\ EventCount(us) \in Nat
                  /\ p <= End(us, p)
                  /\ EventCount(us) <= End(us, p) - p
                  /\ EventCount(us) = End(us, p) - p => Touching(us, p)

LEMMA CountIsBounded ==
  ASSUME NEW us \in Seq(Blocks), NEW p \in Int, Chain(us), From(us, p)
  PROVE  CountOK(us, p)
<1> DEFINE T == {vs \in Seq(Blocks) : Chain(vs) /\ From(vs, p) => CountOK(vs, p)}
<1>1. << >> \in T
  <2>1. EventCount(<< >>) = 0 /\ End(<< >>, p) = p /\ Touching(<< >>, p)
    BY CountAppend DEF End, Touching
  <2>. QED  BY <2>1 DEF CountOK
<1>2. ASSUME NEW vs \in Seq(Blocks), NEW u \in Blocks, vs \in T PROVE Append(vs, u) \in T
  <2> SUFFICES ASSUME Chain(Append(vs, u)), From(Append(vs, u), p) PROVE CountOK(Append(vs, u), p)
    OBVIOUS
  <2>1. Chain(vs) /\ From(vs, p) /\ p <= Start(u) /\ \A i \in DOMAIN vs : vs[i].pts <= Start(u)
    BY ChainFront, FromFront
  <2>2. CountOK(vs, p)  BY <1>2, <2>1
  <2>3. End(Append(vs, u), p) = u.pts  BY AppendIs DEF End
  <2>4. End(vs, p) \in Int /\ End(vs, p) <= Start(u)  BY <2>1, EndIs DEF End
  <2>5. PICK n, m, e, s, x, k :
          /\ n = EventCount(vs) /\ m = EventCount(Append(vs, u)) /\ e = End(vs, p) /\ s = Start(u)
          /\ x = u.pts /\ k = u.count
    OBVIOUS
  <2>6. /\ n \in Nat /\ k \in Nat /\ x \in Int /\ s \in Int /\ e \in Int /\ m = n + k /\ k = x - s
        /\ p \in Int /\ p <= e /\ n <= e - p /\ e <= s
    BY <2>2, <2>4, <2>5, CountAppend, BlockIs DEF CountOK
  <2>7. m \in Nat /\ p <= x /\ m <= x - p /\ (m = x - p => n = e - p /\ s = e)
    BY ONLY <2>6
  <2>. QED  BY <2>2, <2>3, <2>5, <2>7, TouchingFront DEF CountOK
<1>. HIDE DEF T
<1>3. Seq(Blocks) \subseteq T  BY <1>1, <1>2, Counting!InductionOnSequences
<1>. QED  BY <1>3 DEF T

TouchingOK(us, p) == /\ p <= End(us, p)
                     /\ EventCount(us) = End(us, p) - p
                     /\ AllEvents(us) = Interval(p, End(us, p))

LEMMA ConcatIs ==
  ASSUME NEW S, NEW a \in Seq(S), NEW b \in Seq(S)
  PROVE  /\ a \o b \in Seq(S) /\ Len(a \o b) = Len(a) + Len(b)
         /\ \A i \in 1 .. Len(a) + Len(b) : (a \o b)[i] = IF i <= Len(a) THEN a[i] ELSE b[i - Len(a)]
  OBVIOUS

LEMMA IntervalGrows ==
  ASSUME NEW p \in Int, NEW s \in Int, NEW q \in Int, p <= s, s <= q
  PROVE  Interval(p, s) \o Interval(s, q) = Interval(p, q)
<1> DEFINE a == Interval(p, s)
           b == Interval(s, q)
<1>1. /\ a \in Seq(Int) /\ b \in Seq(Int) /\ Len(a) = s - p /\ Len(b) = q - s
      /\ \A i \in 1 .. s - p : a[i] = p + i
      /\ \A i \in 1 .. q - s : b[i] = s + i
      /\ Interval(p, q) \in Seq(Int) /\ Len(Interval(p, q)) = q - p
      /\ \A i \in 1 .. q - p : Interval(p, q)[i] = p + i
  BY DEF Interval
<1>. HIDE DEF a, b
<1>2. a \o b \in Seq(Int) /\ Len(a \o b) = q - p
  <2>1. (s - p) + (q - s) = q - p  OBVIOUS
  <2>. QED  BY <1>1, <2>1, ConcatIs
<1>3. ASSUME NEW i \in 1 .. q - p PROVE (a \o b)[i] = Interval(p, q)[i]
  <2>1. (a \o b)[i] = IF i <= Len(a) THEN a[i] ELSE b[i - Len(a)]
    <3>1. Len(a) + Len(b) = q - p  BY <1>1
    <3>2. \A j \in 1 .. Len(a) + Len(b) : (a \o b)[j] = IF j <= Len(a) THEN a[j] ELSE b[j - Len(a)]
      BY <1>1, ConcatIs
    <3>. QED  BY <3>1, <3>2
  <2>2. CASE i <= s - p  BY <1>1, <2>1, <2>2
  <2>3. CASE ~(i <= s - p)
    <3>1. i - (s - p) \in 1 .. q - s /\ s + (i - (s - p)) = p + i  BY <2>3
    <3>. QED  BY <1>1, <2>1, <2>3, <3>1
  <2>. QED  BY <2>2, <2>3
<1>4. a \o b = Interval(p, q)
  <2>1. PICK c \in Seq(Int), e \in Seq(Int) : c = a \o b /\ e = Interval(p, q)  BY <1>1, <1>2
  <2>2. Len(c) = q - p /\ Len(e) = q - p /\ \A i \in 1 .. q - p : c[i] = e[i]  BY <1>1, <1>2, <1>3, <2>1
  <2>3. c = e  BY <2>2
  <2>. QED  BY <2>1, <2>3
<1>. QED  BY <1>4 DEF a, b

LEMMA EventsAre ==
  ASSUME NEW u \in Blocks
  PROVE  Events(u) = Interval(Start(u), u.pts)
<1>1. u.pts - Start(u) = u.count  BY BlockIs
<1>. QED  BY <1>1 DEF Events, Interval, Start

LEMMA TouchingListsAll ==
  ASSUME NEW us \in Seq(Blocks), NEW p \in Int, Touching(us, p)
  PROVE  TouchingOK(us, p)
<1> DEFINE T == {vs \in Seq(Blocks) : Touching(vs, p) => TouchingOK(vs, p)}
<1>1. << >> \in T
  <2>1. EventCount(<< >>) = 0 /\ End(<< >>, p) = p /\ AllEvents(<< >>) = << >> /\ Interval(p, p) = << >>
    BY CountAppend, ListAppend DEF End, Interval
  <2>. QED  BY <2>1 DEF TouchingOK
<1>2. ASSUME NEW vs \in Seq(Blocks), NEW u \in Blocks, vs \in T PROVE Append(vs, u) \in T
  <2> SUFFICES ASSUME Touching(Append(vs, u), p) PROVE TouchingOK(Append(vs, u), p)
    BY AppendIs
  <2>1. Touching(vs, p) /\ Start(u) = End(vs, p)  BY TouchingFront
  <2>2. TouchingOK(vs, p)  BY <1>2, <2>1
  <2>3. End(Append(vs, u), p) = u.pts  BY AppendIs DEF End
  <2>4. PICK n, m, s, x, k :
          /\ n = EventCount(vs) /\ m = EventCount(Append(vs, u)) /\ s = Start(u) /\ x = u.pts /\ k = u.count
    OBVIOUS
  <2>5. /\ k \in Nat /\ x \in Int /\ s \in Int /\ m = n + k /\ k = x - s
        /\ p \in Int /\ p <= s /\ n = s - p /\ s <= x
    BY <2>1, <2>2, <2>4, CountAppend, BlockIs DEF TouchingOK
  <2>6. p <= x /\ m = x - p  BY ONLY <2>5
  <2>7. AllEvents(Append(vs, u)) = Interval(p, x)
    <3>1. AllEvents(Append(vs, u)) = Interval(p, s) \o Interval(s, x)
      BY <2>1, <2>2, <2>4, ListAppend, EventsAre DEF TouchingOK
    <3>. QED  BY <2>5, <3>1, IntervalGrows
  <2>. QED  BY <2>3, <2>4, <2>6, <2>7 DEF TouchingOK
<1>. HIDE DEF T
<1>3. Seq(Blocks) \subseteq T  BY <1>1, <1>2, Counting!InductionOnSequences
<1>. QED  BY <1>3 DEF T

LEMMA CountType == ASSUME NEW us \in Seq(Blocks) PROVE EventCount(us) \in Nat
<1> DEFINE T == {vs \in Seq(Blocks) : EventCount(vs) \in Nat}
<1>1. << >> \in T  BY CountAppend
<1>2. ASSUME NEW vs \in Seq(Blocks), NEW u \in Blocks, vs \in T PROVE Append(vs, u) \in T
  <2>1. EventCount(vs) \in Nat /\ u.count \in Nat  BY <1>2, BlockIs
  <2>2. EventCount(Append(vs, u)) \in Nat  BY <2>1, CountAppend
  <2>. QED  BY <2>2, AppendIs
<1>. HIDE DEF T
<1>3. Seq(Blocks) \subseteq T  BY <1>1, <1>2, Counting!InductionOnSequences
<1>. QED  BY <1>3 DEF T

LEMMA CountConcat ==
  ASSUME NEW us \in Seq(Blocks), NEW vs \in Seq(Blocks)
  PROVE  EventCount(us \o vs) = EventCount(us) + EventCount(vs)
<1> DEFINE T == {ws \in Seq(Blocks) : EventCount(us \o ws) = EventCount(us) + EventCount(ws)}
<1>1. << >> \in T
  <2>1. us \o << >> = us  OBVIOUS
  <2>2. EventCount(us) + 0 = EventCount(us)  BY CountType
  <2>. QED  BY <2>1, <2>2, CountAppend
<1>2. ASSUME NEW ws \in Seq(Blocks), NEW u \in Blocks, ws \in T PROVE Append(ws, u) \in T
  <2>1. us \o Append(ws, u) = Append(us \o ws, u)  OBVIOUS
  <2>2. us \o ws \in Seq(Blocks)  OBVIOUS
  <2>3. EventCount(Append(us \o ws, u)) = EventCount(us \o ws) + u.count
        /\ EventCount(Append(ws, u)) = EventCount(ws) + u.count
    BY <2>2, CountAppend
  <2>4. EventCount(us \o ws) = EventCount(us) + EventCount(ws)  BY <1>2
  <2>5. PICK m \in Nat, n \in Nat, k \in Nat : m = EventCount(us) /\ n = EventCount(ws) /\ k = u.count
    BY CountType, BlockIs
  <2>6. (m + n) + k = m + (n + k)  OBVIOUS
  <2>7. EventCount(us \o Append(ws, u)) = EventCount(us) + EventCount(Append(ws, u))
    BY <2>1, <2>3, <2>4, <2>5, <2>6
  <2>. QED  BY <2>7, AppendIs
<1>. HIDE DEF T
<1>3. Seq(Blocks) \subseteq T  BY <1>1, <1>2, Counting!InductionOnSequences
<1>. QED  BY <1>3 DEF T

Splits(us, n, vs, ws) ==
  /\ vs \in Seq(Blocks) /\ ws \in Seq(Blocks) /\ vs \o ws = us
  /\ Len(vs) = n /\ Len(ws) = Len(us) - n
  /\ \A i \in 1 .. n : vs[i] = us[i]
  /\ \A i \in 1 .. Len(us) - n : ws[i] = us[n + i]
  /\ DOMAIN us = 1 .. Len(us) /\ DOMAIN vs = 1 .. n /\ DOMAIN ws = 1 .. Len(us) - n
  /\ Len(us) \in Nat /\ n \in Nat
  /\ (vs = << >> <=> n = 0) /\ (ws = << >> <=> n = Len(us))
  /\ n # 0 => Last(vs) = us[n]
  /\ n # Len(us) => Last(ws) = us[Len(us)] /\ Head(ws) = us[n + 1]

LEMMA SplitIs ==
  ASSUME NEW us \in Seq(Blocks), NEW n \in 0 .. Len(us)
  PROVE  Splits(us, n, SubSeq(us, 1, n), SubSeq(us, n + 1, Len(us)))
<1> DEFINE vs == SubSeq(us, 1, n)
           ws == SubSeq(us, n + 1, Len(us))
<1>1. /\ vs \in Seq(Blocks) /\ ws \in Seq(Blocks)
      /\ Len(vs) = n /\ Len(ws) = Len(us) - n
      /\ \A i \in 1 .. n : vs[i] = us[i]
      /\ \A i \in 1 .. Len(us) - n : ws[i] = us[n + i]
      /\ Len(us) \in Nat /\ n \in Nat
  OBVIOUS
<1>. HIDE DEF vs, ws
<1>2. DOMAIN us = 1 .. Len(us) /\ DOMAIN vs = 1 .. n /\ DOMAIN ws = 1 .. Len(us) - n  BY <1>1
<1>3. (vs = << >> <=> n = 0) /\ (ws = << >> <=> n = Len(us))  BY <1>1
<1>4. n # 0 => Last(vs) = us[n]  BY <1>1 DEF Last
<1>5. n # Len(us) => Last(ws) = us[Len(us)] /\ Head(ws) = us[n + 1]
  <2>1. n # Len(us) => /\ Len(us) - n \in 1 .. Len(us) - n /\ n + (Len(us) - n) = Len(us)
                       /\ 1 \in 1 .. Len(us) - n
    BY <1>1
  <2>. QED  BY <1>1, <1>3, <2>1 DEF Last
<1>6. vs \o ws = us
  <2>1. n + (Len(us) - n) = Len(us)  BY <1>1
  <2>2. vs \o ws \in Seq(Blocks) /\ Len(vs \o ws) = Len(us)  BY <1>1, <2>1, ConcatIs
  <2>3. \A i \in 1 .. Len(us) : (vs \o ws)[i] = IF i <= n THEN vs[i] ELSE ws[i - n]  BY <1>1, <2>1, ConcatIs
  <2>4. ASSUME NEW i \in 1 .. Len(us) PROVE (vs \o ws)[i] = us[i]
    <3>1. CASE i <= n  BY <1>1, <2>3, <3>1
    <3>2. CASE ~(i <= n)
      <4>1. i - n \in 1 .. Len(us) - n /\ n + (i - n) = i  BY <3>2
      <4>. QED  BY <1>1, <2>3, <3>2, <4>1
    <3>. QED  BY <3>1, <3>2
  <2>5. PICK f \in Seq(Blocks) : f = vs \o ws  BY <2>2
  <2>6. Len(f) = Len(us) /\ \A i \in 1 .. Len(us) : f[i] = us[i]  BY <2>2, <2>4, <2>5
  <2>7. f = us  BY <2>6
  <2>. QED  BY <2>5, <2>7
<1>7. Splits(us, n, vs, ws)  BY <1>1, <1>2, <1>3, <1>4, <1>5, <1>6 DEF Splits
<1>. QED  BY <1>7 DEF vs, ws

LEMMA EmplaceCounts ==
  ASSUME NEW us \in Seq(Blocks), NEW u \in Blocks
  PROVE  EventCount(Emplace(us, u)) = EventCount(us) + u.count
<1>1. PICK n \in 0 .. Len(us) : n = Place(us, u)  BY PlaceExists
<1>2. PICK vs, ws : vs = SubSeq(us, 1, n) /\ ws = SubSeq(us, n + 1, Len(us))  OBVIOUS
<1>3. vs \in Seq(Blocks) /\ ws \in Seq(Blocks) /\ vs \o ws = us  BY <1>2, SplitIs DEF Splits
<1>4. Emplace(us, u) = Append(vs, u) \o ws
  <2>1. Emplace(us, u) = vs \o <<u>> \o ws  BY <1>1, <1>2 DEF Emplace, After
  <2>2. vs \o <<u>> = Append(vs, u)  BY <1>3
  <2>. QED  BY <2>1, <2>2
<1>5. EventCount(Append(vs, u) \o ws) = EventCount(vs) + u.count + EventCount(ws)
  <2>1. PICK xs \in Seq(Blocks) : xs = Append(vs, u)  BY <1>3, AppendIs
  <2>2. EventCount(xs \o ws) = EventCount(xs) + EventCount(ws)  BY <1>3, <2>1, CountConcat
  <2>. QED  BY <1>3, <2>1, <2>2, CountAppend
<1>6. EventCount(us) = EventCount(vs) + EventCount(ws)  BY <1>3, CountConcat
<1>7. PICK x \in Nat, y \in Nat, k \in Nat : x = EventCount(vs) /\ y = EventCount(ws) /\ k = u.count
  BY <1>3, CountType, BlockIs
<1>8. x + k + y = x + y + k  OBVIOUS
<1>. QED  BY <1>4, <1>5, <1>6, <1>7, <1>8

-------------------------------------------------------------------------------
(* The log: applying the events from pts on keeps it in order.                *)
Logged(log, p, missed) ==
  /\ \A i, j \in DOMAIN log : i < j => log[i] < log[j]
  /\ ToSet(log) = (2 .. p) \ missed
  /\ missed \subseteq 2 .. p

LEMMA LogGrows ==
  ASSUME NEW log \in Seq(Pts), NEW p \in Pts, NEW q \in Pts, p <= q, NEW missed, Logged(log, p, missed)
  PROVE  log \o Interval(p, q) \in Seq(Pts) /\ Logged(log \o Interval(p, q), q, missed)
<1>1. PICK new \in Seq(Pts) : /\ new = Interval(p, q) /\ Len(new) = q - p
                              /\ \A i \in 1 .. q - p : new[i] = p + i
  <2>1. \A i \in 1 .. q - p : p + i \in Pts  BY UpdatesAssumption DEF Pts
  <2>2. Interval(p, q) \in Seq(Pts) /\ Len(Interval(p, q)) = q - p  BY <2>1, UpdatesAssumption DEF Interval, Pts
  <2>3. \A i \in 1 .. q - p : Interval(p, q)[i] = p + i  BY DEF Interval
  <2>. QED  BY <2>2, <2>3
<1>2. p \in Int /\ q \in Int /\ p >= 1  BY UpdatesAssumption DEF Pts
<1>3. PICK all \in Seq(Pts) : /\ all = log \o new /\ Len(all) = Len(log) + (q - p) /\ Len(log) \in Nat
                              /\ \A i \in 1 .. Len(log) : all[i] = log[i]
                              /\ \A i \in Len(log) + 1 .. Len(all) : all[i] = p + (i - Len(log))
  <2>1. /\ log \o new \in Seq(Pts) /\ Len(log \o new) = Len(log) + Len(new)
        /\ \A i \in 1 .. Len(log) + Len(new) :
             (log \o new)[i] = IF i <= Len(log) THEN log[i] ELSE new[i - Len(log)]
    BY ConcatIs
  <2>2. PICK k \in Nat, all \in Seq(Pts) : k = Len(log) /\ all = log \o new
    <3>1. Len(log) \in Nat  OBVIOUS
    <3>. QED  BY <2>1, <3>1
  <2>3. ASSUME NEW i \in 1 .. k PROVE all[i] = log[i]
    <3>1. i \in 1 .. k + Len(new) /\ i <= k  BY <1>1, <1>2
    <3>. QED  BY <2>1, <2>2, <3>1
  <2>4. ASSUME NEW i \in k + 1 .. Len(all) PROVE all[i] = p + (i - k)
    <3>1. i \in 1 .. k + Len(new) /\ ~(i <= k) /\ i - k \in 1 .. q - p  BY <1>1, <1>2, <2>1, <2>2
    <3>. QED  BY <1>1, <2>1, <2>2, <3>1
  <2>. QED  BY <1>1, <2>1, <2>2, <2>3, <2>4
<1>4. \A i \in 1 .. Len(log) : log[i] \in 2 .. p
  <2>1. \A i \in 1 .. Len(log) : log[i] \in ToSet(log)  BY DEF ToSet
  <2>. QED  BY <2>1 DEF Logged
<1>5. ASSUME NEW i \in DOMAIN all, NEW j \in DOMAIN all, i < j PROVE all[i] < all[j]
  <2>1. i \in Int /\ j \in Int /\ 1 <= i /\ j <= Len(all)  OBVIOUS
  <2>2. CASE j <= Len(log)
    <3>1. i \in 1 .. Len(log) /\ j \in 1 .. Len(log) /\ DOMAIN log = 1 .. Len(log)
      BY <1>3, <1>5, <2>1, <2>2
    <3>2. log[i] < log[j]  BY <1>5, <3>1 DEF Logged
    <3>. QED  BY <1>3, <3>1, <3>2
  <2>3. CASE i <= Len(log) /\ Len(log) < j
    <3>1. i \in 1 .. Len(log) /\ j \in Len(log) + 1 .. Len(all)  BY <1>3, <1>5, <2>1, <2>3
    <3>2. all[i] \in 2 .. p /\ all[j] = p + (j - Len(log))  BY <1>3, <1>4, <3>1
    <3>3. p < p + (j - Len(log))  BY <1>2, <1>3, <3>1
    <3>4. PICK x, y : x = all[i] /\ y = all[j]  OBVIOUS
    <3>5. x \in 2 .. p /\ p < y /\ y \in Int /\ p \in Int  BY <1>2, <1>3, <2>1, <3>2, <3>3, <3>4
    <3>6. x < y  BY ONLY <3>5
    <3>. QED  BY <3>4, <3>6
  <2>4. CASE Len(log) < i
    <3>1. i \in Len(log) + 1 .. Len(all) /\ j \in Len(log) + 1 .. Len(all)  BY <1>3, <1>5, <2>1, <2>4
    <3>2. all[i] = p + (i - Len(log)) /\ all[j] = p + (j - Len(log))  BY <1>3, <3>1
    <3>. QED  BY <1>2, <1>3, <1>5, <2>1, <3>2
  <2>. QED  BY <1>3, <2>1, <2>2, <2>3, <2>4
<1>6. ToSet(all) = ToSet(log) \union (p + 1 .. q)
  <2>1. ASSUME NEW i \in DOMAIN all PROVE all[i] \in ToSet(log) \union (p + 1 .. q)
    <3>1. CASE i <= Len(log)
      <4>1. i \in 1 .. Len(log) /\ i \in DOMAIN log  BY <1>3, <3>1
      <4>. QED  BY <1>3, <4>1 DEF ToSet
    <3>2. CASE Len(log) < i
      <4>1. i \in Len(log) + 1 .. Len(all)  BY <1>3, <3>2
      <4>2. p + (i - Len(log)) \in p + 1 .. q  BY <1>2, <1>3, <4>1
      <4>. QED  BY <1>3, <4>1, <4>2
    <3>. QED  BY <1>3, <3>1, <3>2
  <2>2. ASSUME NEW i \in DOMAIN log PROVE log[i] \in ToSet(all)
    <3>1. i \in DOMAIN all /\ i \in 1 .. Len(log)  BY <1>2, <1>3
    <3>. QED  BY <1>3, <3>1 DEF ToSet
  <2>3. ASSUME NEW x \in p + 1 .. q PROVE x \in ToSet(all)
    <3>1. PICK i : i = Len(log) + (x - p)  OBVIOUS
    <3>2. i \in Len(log) + 1 .. Len(all) /\ p + (i - Len(log)) = x /\ i \in DOMAIN all  BY <1>2, <1>3, <3>1
    <3>. QED  BY <1>3, <3>2 DEF ToSet
  <2>. QED  BY <2>1, <2>2, <2>3 DEF ToSet
<1>7. /\ ToSet(log) = (2 .. p) \ missed /\ missed \subseteq 2 .. p  BY DEF Logged
<1>8. ToSet(all) = (2 .. q) \ missed /\ missed \subseteq 2 .. q
  <2>1. 2 .. q = (2 .. p) \union (p + 1 .. q) /\ (2 .. p) \intersect (p + 1 .. q) = {}
    BY <1>2
  <2>. QED  BY <1>6, <1>7, <2>1
<1>. QED  BY <1>1, <1>3, <1>5, <1>8 DEF Logged

LEMMA LogMisses ==
  ASSUME NEW log, NEW p \in Pts, NEW q \in Pts, p <= q, NEW missed, Logged(log, p, missed)
  PROVE  Logged(log, q, missed \union (p + 1 .. q))
<1>1. p \in Int /\ q \in Int /\ p >= 1  BY UpdatesAssumption DEF Pts
<1>2. 2 .. q = (2 .. p) \union (p + 1 .. q) /\ (2 .. p) \intersect (p + 1 .. q) = {}  BY <1>1
<1>. QED  BY <1>2 DEF Logged

-------------------------------------------------------------------------------
(* Pending updates, with the accumulated pts and count.                       *)
Behind(p, us, acc, count) ==
  /\ count = EventCount(us)
  /\ acc = IF us = << >> THEN -1 ELSE Last(us).pts
  /\ \A i \in DOMAIN us : p < Start(us[i])

LEMMA NonePending == ASSUME NEW p PROVE Behind(p, << >>, -1, 0) /\ Chain(<< >>)
  BY CountAppend DEF Behind, Chain

(* An update is added to those pending.                                       *)
HeldOK(p, vs, acc, count) ==
  /\ vs \in Seq(Blocks) /\ vs # << >> /\ Chain(vs) /\ From(vs, p)
  /\ count = EventCount(vs) /\ count \in Nat
  /\ acc = Last(vs).pts /\ acc \in Pts
  /\ p <= acc - count
  /\ p = acc - count => Touching(vs, p)

LEMMA Holding ==
  ASSUME NEW p \in Int, NEW us \in Seq(Blocks), NEW acc, NEW count, Behind(p, us, acc, count), Chain(us),
         NEW u \in Blocks, ApartFrom(u, ToSet(us)), p <= Start(u)
  PROVE  HeldOK(p, Emplace(us, u), IF u.pts > acc THEN u.pts ELSE acc, count + u.count)
<1>1. PICK vs \in Seq(Blocks) :
        vs = Emplace(us, u) /\ vs # << >> /\ Chain(vs) /\ ToSet(vs) = ToSet(us) \union {u}
  BY EmplaceKeepsChain
<1>2. PICK m \in Nat : m = count + u.count /\ m = EventCount(vs)
  BY <1>1, EmplaceCounts, CountType DEF Behind
<1>3. (IF u.pts > acc THEN u.pts ELSE acc) = Last(vs).pts
  <2>1. CASE us = << >>
    <3>1. acc = -1  BY <2>1 DEF Behind
    <3>2. u.pts > -1  BY BlockIs
    <3>3. Last(vs).pts = u.pts  BY <1>1, <2>1, EmplaceKeepsChain
    <3>. QED  BY <3>1, <3>2, <3>3
  <2>2. CASE us # << >>  BY <1>1, <2>2, EmplaceKeepsChain DEF Behind
  <2>. QED  BY <2>1, <2>2
<1>4. From(vs, p)
  <2>1. ASSUME NEW v \in ToSet(vs) PROVE p <= Start(v)
    <3>1. CASE v = u  BY <3>1
    <3>2. CASE v \in ToSet(us)
      <4>1. PICK i \in DOMAIN us : us[i] = v  BY <3>2 DEF ToSet
      <4>2. p < Start(v) /\ v \in Blocks  BY <4>1 DEF Behind
      <4>. QED  BY <4>2, BlockIs
    <3>. QED  BY <1>1, <2>1, <3>1, <3>2
  <2>. QED  BY <2>1 DEF From, ToSet
<1>5. PICK x : x = Last(vs).pts /\ x \in Pts /\ x \in Int
  <2>1. Last(vs) \in Blocks  BY <1>1, EndIs
  <2>. QED  BY <2>1, BlockIs DEF Blocks
<1>6. End(vs, p) = x  BY <1>1, <1>5 DEF End
<1>7. CountOK(vs, p)  BY <1>1, <1>4, CountIsBounded
<1>8. m <= x - p /\ (m = x - p => Touching(vs, p))  BY <1>2, <1>6, <1>7 DEF CountOK
<1>9. p <= x - m /\ (p = x - m => m = x - p)  BY <1>2, <1>5, <1>8
<1>. QED  BY <1>1, <1>2, <1>3, <1>4, <1>5, <1>8, <1>9 DEF HeldOK

(* Those that follow pts are applied one by one, and the rest stays behind a  *)
(* gap.                                                                       *)
LEMMA ApplicableIs ==
  ASSUME NEW d, d.pending \in Seq(Blocks)
  PROVE  /\ Applicable(d) \in 0 .. Len(d.pending)
         /\ \A i \in 1 .. Applicable(d) : Follows(d, i)
         /\ Applicable(d) < Len(d.pending) => ~Follows(d, Applicable(d) + 1)
<1> DEFINE Fits(n, m) == /\ \A i \in 1 .. n : Follows(d, i)
                         /\ n < m => ~Follows(d, n + 1)
           T == {m \in Nat : \E n \in 0 .. m : Fits(n, m)}
<1>1. 0 \in T  OBVIOUS
<1>2. ASSUME NEW m \in Nat, m \in T PROVE m + 1 \in T
  <2>1. PICK n \in 0 .. m : Fits(n, m)  BY <1>2
  <2>2. CASE n < m \/ ~Follows(d, m + 1)
    <3>1. Fits(n, m + 1)  BY <2>1, <2>2
    <3>. QED  BY <3>1
  <2>3. CASE n = m /\ Follows(d, m + 1)
    <3>1. Fits(m + 1, m + 1)  BY <2>1, <2>3
    <3>. QED  BY <3>1
  <2>. QED  BY <2>1, <2>2, <2>3
<1>. HIDE DEF T
<1>3. Nat \subseteq T
  <2>1. Counting!Inductive(T)  BY <1>1, <1>2 DEF Counting!Inductive
  <2>. QED  BY <2>1, Counting!InductionOnNumbers
<1>4. \E n \in 0 .. Len(d.pending) : Fits(n, Len(d.pending))
  <2>1. Len(d.pending) \in Nat  OBVIOUS
  <2>2. Len(d.pending) \in T  BY <1>3, <2>1
  <2>. QED  BY <2>2 DEF T
<1>. QED  BY <1>4 DEF Applicable

AppliedOK(p, n, done, rest, acc, count) ==
  LET q == IF n = 0 THEN p ELSE Last(done).pts IN
  /\ q \in Pts /\ p <= q
  /\ AllEvents(done) = Interval(p, q)
  /\ rest \in Seq(Blocks) /\ rest # << >> /\ Chain(rest)
  /\ count - EventCount(done) \in Nat
  /\ Behind(q, rest, acc, count - EventCount(done))

LEMMA Applying ==
  ASSUME NEW d, NEW acc, NEW count, HeldOK(d.pts, d.pending, acc, count), d.pts \in Pts,
         d.pts # acc - count
  PROVE  /\ AppliedOK(d.pts, Applicable(d), SubSeq(d.pending, 1, Applicable(d)),
                      After(d.pending, Applicable(d)), acc, count)
         /\ ToSet(After(d.pending, Applicable(d))) \subseteq ToSet(d.pending)
         /\ Applicable(d) # 0 => Last(SubSeq(d.pending, 1, Applicable(d))) \in ToSet(d.pending)
<1>1. PICK p, us : /\ p = d.pts /\ us = d.pending /\ p \in Int /\ p \in Pts /\ us \in Seq(Blocks) /\ us # << >>
                   /\ Chain(us) /\ From(us, p)
                   /\ count = EventCount(us) /\ count \in Nat /\ acc = Last(us).pts /\ acc \in Pts
  BY UpdatesAssumption DEF HeldOK, Pts
<1>2. PICK n \in 0 .. Len(us) : /\ n = Applicable(d)
                                /\ \A i \in 1 .. n : Follows(d, i)
                                /\ n < Len(us) => ~Follows(d, n + 1)
  BY <1>1, ApplicableIs
<1>3. PICK done, rest : done = SubSeq(us, 1, n) /\ rest = SubSeq(us, n + 1, Len(us))  OBVIOUS
<1>4. /\ done \in Seq(Blocks) /\ rest \in Seq(Blocks) /\ done \o rest = us
      /\ \A i \in 1 .. n : done[i] = us[i]
      /\ \A i \in 1 .. Len(us) - n : rest[i] = us[n + i]
      /\ DOMAIN us = 1 .. Len(us) /\ DOMAIN done = 1 .. n /\ DOMAIN rest = 1 .. Len(us) - n
      /\ Len(us) \in Nat /\ n \in Nat
      /\ (done = << >> <=> n = 0) /\ (rest = << >> <=> n = Len(us))
      /\ n # 0 => Last(done) = us[n]
      /\ n # Len(us) => Last(rest) = us[Len(us)] /\ Head(rest) = us[n + 1]
  <2>1. Splits(us, n, done, rest)  BY <1>1, <1>3, SplitIs
  <2>. QED  BY <2>1 DEF Splits
<1>5. Touching(done, p)
  <2>1. ASSUME NEW i \in 1 .. n PROVE Start(done[i]) = IF i = 1 THEN p ELSE done[i - 1].pts
    <3>1. Start(us[i]) = IF i = 1 THEN p ELSE us[i - 1].pts  BY <1>1, <1>2 DEF Follows, Start
    <3>2. i = 1 \/ i - 1 \in 1 .. n  BY <1>4
    <3>. QED  BY <1>4, <3>1, <3>2
  <2>. QED  BY <1>4, <2>1 DEF Touching
<1>6. PICK q : /\ q = End(done, p) /\ q \in Int /\ p <= q /\ EventCount(done) = q - p
               /\ AllEvents(done) = Interval(p, q)
  BY <1>1, <1>4, <1>5, TouchingListsAll, EndIs DEF TouchingOK
<1>7. q = (IF n = 0 THEN p ELSE Last(done).pts) /\ q \in Pts
  <2>1. n # 0 => Last(done) \in Blocks  BY <1>1, <1>4, EndIs
  <2>. QED  BY <1>1, <1>4, <1>6, <2>1 DEF End, Blocks
<1>8. n # Len(us)
  <2> SUFFICES ASSUME n = Len(us) PROVE FALSE
    OBVIOUS
  <2>1. done = us  BY <1>3, <1>4
  <2>2. q = acc  BY <1>1, <1>6, <2>1 DEF End
  <2>3. count = acc - p  BY <1>1, <1>6, <2>1, <2>2
  <2>4. acc \in Int  BY <1>6, <2>2
  <2>5. p = acc - count  BY <1>1, <2>3, <2>4
  <2>. QED  BY <1>1, <2>5
<1>9. ASSUME NEW i \in DOMAIN rest, NEW j \in DOMAIN rest, i < j PROVE rest[i].pts <= Start(rest[j])
  <2>1. n + i \in DOMAIN us /\ n + j \in DOMAIN us /\ n + i < n + j  BY <1>4, <1>9
  <2>2. us[n + i].pts <= Start(us[n + j])  BY <1>1, <2>1 DEF Chain
  <2>. QED  BY <1>4, <2>2
<1>10. q < Start(us[n + 1]) /\ n + 1 \in DOMAIN us
  <2>1. n + 1 \in DOMAIN us  BY <1>4, <1>8
  <2>2. us[n + 1] \in Blocks  BY <1>1, <2>1
  <2>3. Start(us[n + 1]) \in Int  BY <2>2, BlockIs
  <2>4. ~Follows(d, n + 1)  BY <1>2, <1>4, <1>8
  <2>5. CASE n = 0
    <3>1. q = p /\ p <= Start(us[n + 1]) /\ Start(us[n + 1]) # p
      BY <1>1, <1>7, <2>1, <2>4, <2>5 DEF Follows, Start, From
    <3>. QED  BY <1>1, <2>1, <2>3, <3>1
  <2>6. CASE n # 0
    <3>1. n \in DOMAIN us /\ n < n + 1 /\ n + 1 # 1 /\ (n + 1) - 1 = n  BY <1>4, <2>1, <2>6
    <3>2. us[n].pts <= Start(us[n + 1])  BY <1>1, <2>1, <3>1 DEF Chain
    <3>3. Start(us[n + 1]) # us[n].pts  BY <1>1, <2>4, <3>1 DEF Follows, Start
    <3>4. q = us[n].pts  BY <1>4, <1>7, <2>6
    <3>. QED  BY <1>6, <2>1, <2>3, <3>2, <3>3, <3>4
  <2>. QED  BY <2>5, <2>6
<1>11. ASSUME NEW i \in DOMAIN rest PROVE q < Start(rest[i])
  <2>1. n + i \in DOMAIN us /\ rest[i] = us[n + i]  BY <1>4
  <2>2. CASE i = 1  BY <1>10, <2>1, <2>2
  <2>3. CASE i # 1
    <3>1. n + 1 < n + i  BY <1>4, <2>3
    <3>2. us[n + 1].pts <= Start(us[n + i])  BY <1>1, <1>10, <2>1, <3>1 DEF Chain
    <3>3. PICK v \in Blocks, w \in Blocks : v = us[n + 1] /\ w = us[n + i]  BY <1>1, <1>10, <2>1
    <3>4. PICK s, x, t : /\ s = Start(v) /\ x = v.pts /\ t = Start(w)
      OBVIOUS
    <3>5. s \in Int /\ x \in Int /\ t \in Int /\ s <= x /\ x <= t /\ q < s /\ q \in Int
      BY <1>6, <1>10, <3>2, <3>3, <3>4, BlockIs
    <3>6. q < t  BY ONLY <3>5
    <3>. QED  BY <2>1, <3>3, <3>4, <3>6
  <2>. QED  BY <2>2, <2>3
<1>12. EventCount(rest) = count - EventCount(done) /\ count - EventCount(done) \in Nat
  <2>1. count = EventCount(done) + EventCount(rest)  BY <1>1, <1>4, CountConcat
  <2>2. PICK a \in Nat, b \in Nat : a = EventCount(done) /\ b = EventCount(rest)  BY <1>4, CountType
  <2>. QED  BY <2>1, <2>2
<1>13. Last(rest).pts = acc /\ rest # << >>
  <2>1. Last(us) = us[Len(us)]  BY <1>1, EndIs
  <2>. QED  BY <1>1, <1>4, <1>8, <2>1
<1>14. Behind(q, rest, acc, count - EventCount(done))  BY <1>11, <1>12, <1>13 DEF Behind
<1>15. Chain(rest)  BY <1>9 DEF Chain
<1>16. AppliedOK(p, n, done, rest, acc, count)
  BY <1>4, <1>6, <1>7, <1>12, <1>13, <1>14, <1>15 DEF AppliedOK
<1>17. ToSet(rest) \subseteq ToSet(us)
  <2>1. ASSUME NEW i \in DOMAIN rest PROVE rest[i] \in ToSet(us)
    <3>1. n + i \in DOMAIN us /\ rest[i] = us[n + i]  BY <1>4
    <3>. QED  BY <3>1 DEF ToSet
  <2>. QED  BY <2>1 DEF ToSet
<1>18. n # 0 => Last(done) \in ToSet(us)
  <2>1. n # 0 => n \in DOMAIN us  BY <1>4
  <2>. QED  BY <1>4, <2>1 DEF ToSet
<1>. QED  BY <1>1, <1>2, <1>3, <1>16, <1>17, <1>18 DEF After

-------------------------------------------------------------------------------
(* What is true of the manager after every step of a handler.  Blocks stands  *)
(* for Updates, because a fetched event is an update of one event.            *)
Wide ==
  [pts : Pts, pending : Seq(Blocks), postponed : Seq(Blocks), accPts : Pts \union {-1}, accCount : Nat,
   running : BOOLEAN, gapTimer : BOOLEAN, minGapTimer : BOOLEAN, retryTimer : BOOLEAN,
   fetched : 0 .. MaxPts, minPostponed : 0 .. MaxPts, several : BOOLEAN,
   ask : SUBSET Pts, fetch : SUBSET Pts, log : Seq(Pts), missed : SUBSET Pts]

Sorted(us, vs) ==
  /\ Chain(us) /\ Chain(vs)
  /\ \A u \in ToSet(us) : ApartFrom(u, ToSet(vs))
  /\ \A u \in ToSet(us) \union ToSet(vs) : Start(u) >= 1

Good(d) ==
  /\ d \in Wide
  /\ Logged(d.log, d.pts, d.missed)
  /\ Behind(d.pts, d.pending, d.accPts, d.accCount)
  /\ Sorted(d.pending, d.postponed)

Kept(d) == ToSet(d.pending) \union ToSet(d.postponed)
Waits(d) == d.pending # << >> \/ d.postponed # << >> => d.running \/ d.gapTimer \/ d.retryTimer

(* A step of a handler that asks for nothing, and may keep the updates in K.  *)
Reaches(d, e, K) == e.pts = d.pts \/ \E v \in K : e.pts = v.pts

Steps(d, e, K) ==
  /\ Good(e) /\ Reaches(d, e, K)
  /\ e.running = d.running /\ e.ask = d.ask /\ e.fetch = d.fetch /\ d.pts <= e.pts
  /\ Kept(e) \subseteq K

LEMMA SetTimer ==
  ASSUME NEW d, Good(d), NEW long \in BOOLEAN, NEW e, e = SetPtsGapTimeout(d, long)
  PROVE  Steps(d, e, Kept(d)) /\ Waits(e) /\ e.pending = d.pending /\ e.postponed = d.postponed
         /\ e.pts = d.pts
<1>1. e \in Wide
  BY DEF Good, Wide, SetPtsGapTimeout
<1>2. /\ e.pts = d.pts /\ e.pending = d.pending /\ e.postponed = d.postponed
      /\ e.accPts = d.accPts /\ e.accCount = d.accCount /\ e.log = d.log /\ e.missed = d.missed
      /\ e.running = d.running /\ e.ask = d.ask /\ e.fetch = d.fetch /\ e.gapTimer = TRUE
  BY DEF Good, Wide, SetPtsGapTimeout
<1>3. d.pts <= d.pts  BY UpdatesAssumption DEF Good, Wide, Pts
<1>. QED  BY <1>1, <1>2, <1>3 DEF Good, Steps, Reaches, Waits, Kept

LEMMA Postponing ==
  ASSUME NEW d, Good(d), NEW u \in Blocks, Start(u) >= 1, ApartFrom(u, Kept(d)),
         NEW e, e = Postpone(d, u)
  PROVE  Steps(d, e, Kept(d) \union {u}) /\ e.pending = d.pending
         /\ e.gapTimer = d.gapTimer /\ e.retryTimer = d.retryTimer
         /\ e.pts = d.pts
<1>1. CASE e = d
  <2>1. d.pts <= d.pts  BY UpdatesAssumption DEF Good, Wide, Pts
  <2>. QED  BY <1>1, <2>1 DEF Steps, Reaches
<1>2. CASE e # d
  <2>1. PICK us : us = Emplace(d.postponed, u)  OBVIOUS
  <2>2. d.postponed \in Seq(Blocks) /\ d.pending \in Seq(Blocks)  BY DEF Good, Wide
  <2>3. us \in Seq(Blocks) /\ Chain(us) /\ ToSet(us) = ToSet(d.postponed) \union {u}
    BY <2>1, <2>2, EmplaceKeepsChain DEF Good, Sorted, Kept, ApartFrom
  <2>4. e = [d EXCEPT !.postponed = us]  BY <1>2, <2>1 DEF Postpone
  <2>5. e \in Wide  BY <2>3, <2>4 DEF Good, Wide
  <2>6. /\ e.pts = d.pts /\ e.pending = d.pending /\ e.postponed = us
        /\ e.accPts = d.accPts /\ e.accCount = d.accCount /\ e.log = d.log /\ e.missed = d.missed
        /\ e.running = d.running /\ e.ask = d.ask /\ e.fetch = d.fetch /\ e.gapTimer = d.gapTimer
        /\ e.retryTimer = d.retryTimer
    BY <2>4 DEF Good, Wide
  <2>7. ASSUME NEW v \in ToSet(d.pending) PROVE ApartFrom(v, ToSet(us))
    <3>1. Apart(v, u)  BY DEF Kept, ApartFrom, Apart
    <3>. QED  BY <2>3, <3>1 DEF Good, Sorted, ApartFrom
  <2>8. Sorted(e.pending, e.postponed)  BY <2>3, <2>6, <2>7 DEF Good, Sorted
  <2>9. d.pts <= d.pts  BY UpdatesAssumption DEF Good, Wide, Pts
  <2>. QED  BY <2>3, <2>5, <2>6, <2>8, <2>9 DEF Good, Steps, Reaches, Kept
<1>. QED  BY <1>1, <1>2

(* add_pending_pts_update.                                                    *)
AddOK(d, u, e) ==
  /\ Steps(d, e, Kept(d) \union {u})
  /\ Waits(d) => Waits(e)
  /\ d.running => e.pending = << >> /\ e.pts = d.pts

AtOnce(d, u, e) == d.postponed = << >> /\ ~d.running /\ d.pts <= Start(u) => e.postponed = << >>

LEMMA PendingAdded ==
  ASSUME NEW d, Good(d), d.running => d.pending = << >>,
         NEW u \in Blocks, ApartFrom(u, Kept(d)),
         NEW long \in BOOLEAN, NEW unacceptable \in BOOLEAN
  PROVE  /\ AddOK(d, u, AddPending(d, u, long, unacceptable))
         /\ ~unacceptable => AtOnce(d, u, AddPending(d, u, long, unacceptable))
<1>1. /\ d \in Wide /\ d.pts \in Pts /\ d.pts \in Int /\ d.pts >= 1 /\ d.pending \in Seq(Blocks)
      /\ d.postponed \in Seq(Blocks) /\ d.log \in Seq(Pts) /\ d.accCount \in Nat
      /\ d.accPts \in Pts \union {-1} /\ d.running \in BOOLEAN
  BY UpdatesAssumption DEF Good, Wide, Pts
<1>2. PICK acc, count, us : /\ acc = IF u.pts > d.accPts THEN u.pts ELSE d.accPts
                            /\ count = d.accCount + u.count
                            /\ us = Emplace(d.pending, u)
  OBVIOUS
<1>3. PICK more : more = [d EXCEPT !.accCount = count, !.accPts = acc]  OBVIOUS
<1>4. Accumulated(d, u) = more  BY <1>1, <1>2, <1>3 DEF Accumulated
<1>5. PICK held : held = [more EXCEPT !.pending = us]  OBVIOUS
<1>6. /\ more.accPts = acc /\ more.accCount = count /\ more.pending = d.pending
  BY <1>1, <1>3 DEF Wide
<1>7. PICK e : e = AddPending(d, u, long, unacceptable)  OBVIOUS
<1>. SUFFICES AddOK(d, u, e) /\ (~unacceptable => AtOnce(d, u, e))
  BY <1>7
<1>8. \/ e = d /\ (u.pts <= u.count \/ u.pts <= d.pts)
      \/ /\ ~(u.pts <= u.count \/ u.pts <= d.pts)
         /\ \/ (d.running \/ d.postponed # << >>) /\ e = Postpone(d, u)
            \/ /\ ~(d.running \/ d.postponed # << >>)
               /\ \/ (unacceptable \/ d.pts > Start(u)) /\ e = SetPtsGapTimeout(Postpone(d, u), FALSE)
                  \/ /\ ~(unacceptable \/ d.pts > Start(u))
                     /\ \/ d.pts > acc - count
                        \/ /\ d.pending = << >> /\ d.pts = acc - count
                           /\ IF u.count = 0 THEN e = more
                              ELSE e = [d EXCEPT !.log = @ \o Events(u), !.pts = acc,
                                                 !.accCount = 0, !.accPts = -1]
                        \/ d.pts = acc - count /\ e = ProcessAllPending(held)
                        \/ d.pts # acc - count /\ d.pts = Start(u) /\ e = ProcessPending(held, long)
                        \/ d.pts # Start(u) /\ e = SetPtsGapTimeout(held, long)
  BY <1>2, <1>4, <1>5, <1>6, <1>7 DEF AddPending, Start
<1>9. d.pts <= d.pts  BY <1>1
<1>10. CASE e = d
  <2>1. Steps(d, d, Kept(d) \union {u})  BY <1>9 DEF Steps, Reaches
  <2>2. d.running => d.pending = << >> /\ d.pts = d.pts  OBVIOUS
  <2>3. Waits(d) => Waits(d)  OBVIOUS
  <2>4. AddOK(d, u, d) /\ AtOnce(d, u, d)  BY <2>1, <2>2, <2>3, Zenon DEF AddOK, AtOnce
  <2>. QED  BY <1>10, <2>4
<1>11. ASSUME ~(u.pts <= u.count \/ u.pts <= d.pts)
       PROVE  Start(u) >= 1 /\ d.pts < u.pts
  <2>1. PICK x, k, s, p : x = u.pts /\ k = u.count /\ s = Start(u) /\ p = d.pts  OBVIOUS
  <2>2. x \in Int /\ k \in Int /\ p \in Int /\ s = x - k /\ ~(x <= k) /\ ~(x <= p)
    BY <1>1, <1>11, <2>1, BlockIs DEF Start
  <2>3. s >= 1 /\ p < x  BY ONLY <2>2
  <2>. QED  BY <2>1, <2>3
<1>12. CASE ~(u.pts <= u.count \/ u.pts <= d.pts) /\ (d.running \/ d.postponed # << >>) /\ e = Postpone(d, u)
  <2>1. Steps(d, e, Kept(d) \union {u}) /\ e.pending = d.pending
         /\ e.gapTimer = d.gapTimer /\ e.retryTimer = d.retryTimer /\ e.pts = d.pts
    BY <1>11, <1>12, Postponing
  <2>2. e.running = d.running  BY <2>1 DEF Steps
  <2>3. Waits(d) => Waits(e)  BY <1>12, <2>1, <2>2 DEF Waits
  <2>4. d.running => e.pending = << >> /\ e.pts = d.pts  BY <2>1
  <2>5. ~(d.postponed = << >> /\ ~d.running)  BY <1>12
  <2>6. Steps(d, e, Kept(d) \union {u})  BY <2>1
  <2>. QED  BY <2>3, <2>4, <2>5, <2>6, Zenon DEF AddOK, AtOnce
<1>13. CASE ~(u.pts <= u.count \/ u.pts <= d.pts) /\ ~(d.running \/ d.postponed # << >>)
            /\ (unacceptable \/ d.pts > Start(u)) /\ e = SetPtsGapTimeout(Postpone(d, u), FALSE)
  <2>1. PICK f : f = Postpone(d, u)  OBVIOUS
  <2>2. Steps(d, f, Kept(d) \union {u}) /\ f.pending = d.pending /\ f.pts = d.pts
    BY <1>11, <1>13, <2>1, Postponing
  <2>3. Steps(f, e, Kept(f)) /\ Waits(e) /\ e.pending = f.pending /\ e.pts = f.pts
    BY <1>13, <2>1, <2>2, SetTimer DEF Steps
  <2>4. d.pts > Start(u) => ~(d.pts <= Start(u))  BY <1>1, BlockIs
  <2>5. Steps(d, e, Kept(d) \union {u})  BY <1>9, <2>2, <2>3 DEF Steps, Reaches
  <2>6. ~(~d.running /\ ~unacceptable /\ d.pts <= Start(u))  BY <1>13, <2>4
  <2>7. ~d.running /\ Waits(e)  BY <1>13, <2>3
  <2>. QED  BY <2>5, <2>6, <2>7, Zenon DEF AddOK, AtOnce
<1>14. ASSUME ~(u.pts <= u.count \/ u.pts <= d.pts), ~(d.running \/ d.postponed # << >>),
              ~(unacceptable \/ d.pts > Start(u))
       PROVE  HeldOK(d.pts, us, acc, count)
  <2>1. d.pts <= Start(u)  BY <1>1, <1>14, BlockIs
  <2>2. ApartFrom(u, ToSet(d.pending))  BY DEF ApartFrom, Kept
  <2>. QED  BY <1>1, <1>2, <2>1, <2>2, Holding DEF Good, Sorted
<1>15. ASSUME ~(u.pts <= u.count \/ u.pts <= d.pts), ~(d.running \/ d.postponed # << >>),
              ~(unacceptable \/ d.pts > Start(u)), HeldOK(d.pts, us, acc, count)
       PROVE  AddOK(d, u, e) /\ AtOnce(d, u, e)
  <2>1. /\ us \in Seq(Blocks) /\ us # << >> /\ Chain(us) /\ From(us, d.pts) /\ count = EventCount(us)
        /\ count \in Nat /\ acc = Last(us).pts /\ acc \in Pts /\ d.pts <= acc - count
        /\ d.pts = acc - count => Touching(us, d.pts)
    BY <1>15 DEF HeldOK
  <2>2. acc \in Int /\ count \in Int  BY <2>1, UpdatesAssumption DEF Pts
  <2>3. ~(d.pts > acc - count)  BY <1>1, <2>1, <2>2
  <2>4. /\ Start(u) >= 1 /\ d.pts < u.pts /\ u.pts \in Pts /\ u.count \in Nat /\ u.pts \in Int
    BY <1>11, <1>15, BlockIs DEF Blocks
  <2>5. ToSet(us) = ToSet(d.pending) \union {u}
    BY <1>1, <1>2, EmplaceKeepsChain DEF Good, Sorted, Kept, ApartFrom
  <2>6. d.postponed = << >> /\ ToSet(<< >>) = {}  BY <1>15 DEF ToSet
  <2>7. Logged(d.log, d.pts, d.missed)  BY DEF Good
  <2>8. Last(us) \in ToSet(us)
    <3>1. Last(us) = us[Len(us)] /\ Len(us) \in DOMAIN us  BY <1>1, <2>1, EndIs
    <3>. QED  BY <3>1 DEF ToSet
  <2>9. CASE d.pending = << >> /\ d.pts = acc - count
             /\ IF u.count = 0 THEN e = more
                ELSE e = [d EXCEPT !.log = @ \o Events(u), !.pts = acc, !.accCount = 0, !.accPts = -1]
    <3>1. acc = u.pts /\ count = u.count
      <4>1. d.accPts = -1 /\ d.accCount = 0  BY <2>9, CountAppend DEF Good, Behind
      <4>2. u.pts > -1 /\ 0 + u.count = u.count  BY <1>1, <2>4
      <4>. QED  BY <1>2, <4>1, <4>2
    <3>2. d.pts = Start(u) /\ u.count # 0  BY <1>1, <2>4, <2>9, <3>1 DEF Start
    <3>3. PICK log : log = d.log \o Interval(d.pts, u.pts)  OBVIOUS
    <3>4. d.pts <= u.pts  BY <1>1, <2>4
    <3>5. log \in Seq(Pts) /\ Logged(log, u.pts, d.missed)  BY <1>1, <2>4, <2>7, <3>3, <3>4, LogGrows
    <3>6. e = [d EXCEPT !.log = log, !.pts = u.pts, !.accCount = 0, !.accPts = -1]
      BY <2>9, <3>1, <3>2, <3>3, EventsAre
    <3>7. e \in Wide  BY <1>1, <2>4, <3>5, <3>6 DEF Wide
    <3>8. /\ e.pts = u.pts /\ e.pending = << >> /\ e.postponed = << >> /\ e.accPts = -1 /\ e.accCount = 0
          /\ e.log = log /\ e.missed = d.missed /\ e.running = d.running /\ e.ask = d.ask
          /\ e.fetch = d.fetch
      BY <1>1, <2>6, <2>9, <3>6 DEF Wide
    <3>9. Good(e)  BY <2>6, <3>5, <3>7, <3>8, NonePending DEF Good, Sorted
    <3>. QED  BY <1>15, <2>6, <3>4, <3>8, <3>9 DEF AddOK, AtOnce, Steps, Reaches, Waits, Kept
  <2>10. /\ held = [d EXCEPT !.accCount = count, !.accPts = acc, !.pending = us]
        /\ held \in Wide
    BY <1>1, <1>3, <1>5, <2>1 DEF Wide
  <2>11. /\ held.pts = d.pts /\ held.pending = us /\ held.postponed = << >>
         /\ held.accPts = acc /\ held.accCount = count /\ held.log = d.log /\ held.missed = d.missed
         /\ held.running = d.running /\ held.ask = d.ask /\ held.fetch = d.fetch
    BY <1>1, <2>6, <2>10 DEF Wide
  <2>12. \A v \in ToSet(us) : Start(v) >= 1
    BY <2>4, <2>5 DEF Good, Sorted
  <2>13. CASE d.pts = acc - count /\ e = ProcessAllPending(held)
    <3>1. AllEvents(us) = Interval(d.pts, acc) /\ d.pts <= acc
      BY <1>1, <2>1, <2>13, TouchingListsAll DEF TouchingOK, End
    <3>2. PICK log : log = d.log \o Interval(d.pts, acc)  OBVIOUS
    <3>3. log \in Seq(Pts) /\ Logged(log, acc, d.missed)  BY <1>1, <2>1, <2>7, <3>1, <3>2, LogGrows
    <3>4. e = [held EXCEPT !.log = log, !.pts = acc, !.accCount = 0, !.accPts = -1, !.gapTimer = FALSE,
                           !.minGapTimer = FALSE, !.pending = << >>]
      BY <2>10, <2>11, <2>13, <3>1, <3>2 DEF ProcessAllPending, DropAllPending, Wide
    <3>5. e \in Wide
      <4>1. << >> \in Seq(Blocks) /\ 0 \in Nat /\ -1 \in Pts \union {-1} /\ FALSE \in BOOLEAN  OBVIOUS
      <4>. QED  BY <2>1, <2>10, <3>3, <3>4, <4>1 DEF Wide
    <3>6. /\ e.pts = acc /\ e.pending = << >> /\ e.postponed = << >> /\ e.accPts = -1 /\ e.accCount = 0
          /\ e.log = log /\ e.missed = d.missed /\ e.running = d.running /\ e.ask = d.ask
          /\ e.fetch = d.fetch
      BY <2>10, <2>11, <3>4 DEF Wide
    <3>7. Good(e)  BY <2>6, <3>3, <3>5, <3>6, NonePending DEF Good, Sorted
    <3>. QED  BY <1>15, <2>1, <2>5, <2>6, <2>8, <3>1, <3>6, <3>7 DEF AddOK, AtOnce, Steps, Reaches, Waits, Kept
  <2>14. CASE d.pts # Start(u) /\ e = SetPtsGapTimeout(held, long)
    <3>1. \A i \in DOMAIN us : d.pts < Start(us[i])
      <4>1. ASSUME NEW v \in ToSet(us) PROVE d.pts < Start(v)
        <5>1. CASE v = u  BY <1>1, <1>15, <2>14, <5>1, BlockIs
        <5>2. CASE v \in ToSet(d.pending)
          <6>1. PICK i \in DOMAIN d.pending : d.pending[i] = v  BY <5>2 DEF ToSet
          <6>. QED  BY <6>1 DEF Good, Behind
        <5>. QED  BY <2>5, <5>1, <5>2
      <4>. QED  BY <4>1 DEF ToSet
    <3>2. Behind(d.pts, us, acc, count)  BY <2>1, <3>1 DEF Behind
    <3>3. Good(held)  BY <2>1, <2>6, <2>7, <2>10, <2>11, <2>12, <3>2 DEF Good, Sorted, ApartFrom, Chain
    <3>4. Steps(held, e, Kept(held)) /\ Waits(e) /\ e.pending = us /\ e.postponed = << >> /\ e.pts = d.pts
      BY <2>11, <2>14, <3>3, SetTimer
    <3>. QED  BY <1>9, <1>15, <2>5, <2>6, <2>11, <3>4 DEF AddOK, AtOnce, Steps, Reaches, Kept
  <2>15. CASE d.pts # acc - count /\ d.pts = Start(u) /\ e = ProcessPending(held, long)
    <3>1. PICK n, done, rest : n = Applicable(held) /\ done = SubSeq(us, 1, n) /\ rest = After(us, n)
      OBVIOUS
    <3>2. AppliedOK(d.pts, n, done, rest, acc, count) /\ ToSet(rest) \subseteq ToSet(us)
          /\ (n # 0 => Last(done) \in ToSet(us))
      BY <1>1, <1>15, <2>11, <2>15, <3>1, Applying
    <3>3. PICK q, m : /\ q = (IF n = 0 THEN d.pts ELSE Last(done).pts) /\ m = count - EventCount(done)
                      /\ q \in Pts /\ d.pts <= q /\ AllEvents(done) = Interval(d.pts, q)
                      /\ rest \in Seq(Blocks) /\ rest # << >> /\ Chain(rest)
                      /\ m \in Nat /\ Behind(q, rest, acc, m)
      BY <3>2 DEF AppliedOK
    <3>4. PICK log : log = d.log \o Interval(d.pts, q)  OBVIOUS
    <3>5. log \in Seq(Pts) /\ Logged(log, q, d.missed)  BY <1>1, <2>7, <3>3, <3>4, LogGrows
    <3>6. PICK left : left = [held EXCEPT !.log = log, !.pts = q, !.accCount = m, !.pending = rest,
                                          !.gapTimer = @ /\ n = 0, !.minGapTimer = @ /\ n = 0]
      OBVIOUS
    <3>7. left \in Wide
      <4>1. PICK x \in BOOLEAN, y \in BOOLEAN : x = (held.gapTimer /\ n = 0) /\ y = (held.minGapTimer /\ n = 0)
        OBVIOUS
      <4>2. left = [held EXCEPT !.log = log, !.pts = q, !.accCount = m, !.pending = rest,
                                !.gapTimer = x, !.minGapTimer = y]
        BY <3>6, <4>1
      <4>3. /\ held \in Wide /\ log \in Seq(Pts) /\ q \in Pts /\ m \in Nat /\ rest \in Seq(Blocks)
        BY <2>10, <3>3, <3>5
      <4>. QED  BY <4>2, <4>3 DEF Wide
    <3>8. /\ left.pts = q /\ left.pending = rest /\ left.postponed = << >> /\ left.accPts = acc
          /\ left.accCount = m /\ left.log = log /\ left.missed = d.missed /\ left.running = d.running
          /\ left.ask = d.ask /\ left.fetch = d.fetch
      BY <2>10, <2>11, <3>6 DEF Wide
    <3>9. e = SetPtsGapTimeout(left, long)
      BY <2>10, <2>11, <2>15, <3>1, <3>3, <3>4, <3>6, <3>8 DEF ProcessPending, Wide
    <3>10. Good(left)
      BY <2>6, <2>12, <3>2, <3>3, <3>5, <3>7, <3>8 DEF Good, Sorted, ApartFrom, Chain
    <3>11. Steps(left, e, Kept(left)) /\ Waits(e) /\ e.pending = rest /\ e.postponed = << >> /\ e.pts = q
      BY <3>8, <3>9, <3>10, SetTimer
    <3>. QED  BY <1>15, <2>5, <2>6, <3>2, <3>3, <3>8, <3>11 DEF AddOK, AtOnce, Steps, Reaches, Kept
  <2>. QED  BY <1>8, <1>15, <2>3, <2>9, <2>13, <2>14, <2>15
<1>16. AddOK(d, u, e) /\ (~unacceptable => AtOnce(d, u, e))
  <2>1. CASE ~(u.pts <= u.count \/ u.pts <= d.pts) /\ ~(d.running \/ d.postponed # << >>)
             /\ ~(unacceptable \/ d.pts > Start(u))
    BY <1>14, <1>15, <2>1
  <2>2. CASE ~(u.pts <= u.count \/ u.pts <= d.pts) /\ ~(d.running \/ d.postponed # << >>)
             /\ (unacceptable \/ d.pts > Start(u))
    BY <1>8, <1>13, <2>2
  <2>3. CASE (u.pts <= u.count \/ u.pts <= d.pts) \/ d.running \/ d.postponed # << >>
    <3>1. \/ e = d
          \/ /\ e = Postpone(d, u)
             /\ ~(u.pts <= u.count \/ u.pts <= d.pts)
             /\ d.running \/ d.postponed # << >>
      <4>1. CASE u.pts <= u.count \/ u.pts <= d.pts
        <5>1. e = d  BY <1>7, <4>1 DEF AddPending
        <5>. QED  BY <5>1
      <4>2. CASE ~(u.pts <= u.count \/ u.pts <= d.pts)  BY <1>8, <2>3, <4>2
      <4>. QED  BY <4>1, <4>2
    <3>. QED  BY <1>10, <1>12, <3>1
  <2>. QED  BY <2>1, <2>2, <2>3
<1>. QED  BY <1>16

-------------------------------------------------------------------------------
(* Asking for the difference: the pending updates join the postponed ones.    *)
LEMMA AppendSet ==
  ASSUME NEW us \in Seq(Blocks), NEW u \in Blocks
  PROVE  ToSet(Append(us, u)) = ToSet(us) \union {u}
<1>1. PICK vs : vs = Append(us, u)  OBVIOUS
<1>2. /\ DOMAIN vs = DOMAIN us \union {Len(us) + 1} /\ vs[Len(us) + 1] = u
      /\ \A i \in DOMAIN us : vs[i] = us[i]
  BY <1>1, AppendIs
<1>3. ToSet(vs) = ToSet(us) \union {u}  BY <1>2 DEF ToSet
<1>. QED  BY <1>1, <1>3

MergeOK(base, us) ==
  /\ MergeAll(base, us) \in Seq(Blocks)
  /\ Chain(MergeAll(base, us))
  /\ ToSet(MergeAll(base, us)) = ToSet(base) \union ToSet(us)

LEMMA Merge ==
  ASSUME NEW base \in Seq(Blocks), Chain(base), NEW us \in Seq(Blocks), Chain(us),
         \A u \in ToSet(us) : ApartFrom(u, ToSet(base))
  PROVE  MergeOK(base, us)
<1> DEFINE T == {vs \in Seq(Blocks) :
                   Chain(vs) /\ (\A u \in ToSet(vs) : ApartFrom(u, ToSet(base))) => MergeOK(base, vs)}
<1>1. << >> \in T
  <2>1. MergeAll(base, << >>) = base /\ ToSet(<< >>) = {}  BY MergeAppend DEF ToSet
  <2>. QED  BY <2>1 DEF MergeOK
<1>2. ASSUME NEW vs \in Seq(Blocks), NEW u \in Blocks, vs \in T PROVE Append(vs, u) \in T
  <2> SUFFICES ASSUME Chain(Append(vs, u)), \A v \in ToSet(Append(vs, u)) : ApartFrom(v, ToSet(base))
               PROVE  MergeOK(base, Append(vs, u))
    BY AppendIs
  <2>1. Chain(vs) /\ (\A i \in DOMAIN vs : vs[i].pts <= Start(u))
        /\ ToSet(Append(vs, u)) = ToSet(vs) \union {u}
    BY ChainFront, AppendSet
  <2>2. MergeOK(base, vs)  BY <1>2, <2>1
  <2>3. PICK ws \in Seq(Blocks) : /\ ws = MergeAll(base, vs) /\ Chain(ws)
                                  /\ ToSet(ws) = ToSet(base) \union ToSet(vs)
    BY <2>2 DEF MergeOK
  <2>4. ApartFrom(u, ToSet(base))  BY <2>1
  <2>5. ASSUME NEW v \in ToSet(vs) PROVE Apart(u, v)
    <3>1. PICK i \in DOMAIN vs : vs[i] = v  BY DEF ToSet
    <3>. QED  BY <2>1, <3>1 DEF Apart
  <2>6. ApartFrom(u, ToSet(ws))  BY <2>3, <2>4, <2>5 DEF ApartFrom
  <2>7. Emplace(ws, u) \in Seq(Blocks) /\ Chain(Emplace(ws, u)) /\ ToSet(Emplace(ws, u)) = ToSet(ws) \union {u}
    BY <2>3, <2>6, EmplaceKeepsChain
  <2>8. MergeAll(base, Append(vs, u)) = Emplace(ws, u)  BY <2>3, MergeAppend
  <2>. QED  BY <2>1, <2>3, <2>7, <2>8 DEF MergeOK
<1>. HIDE DEF T
<1>3. Seq(Blocks) \subseteq T  BY <1>1, <1>2, Counting!InductionOnSequences
<1>. QED  BY <1>3 DEF T

Asks(d, e) ==
  /\ Good(e) /\ e.running /\ e.pending = << >>
  /\ e.ask = {e.pts} /\ e.pts = d.pts /\ e.fetch = d.fetch
  /\ Kept(e) \subseteq Kept(d)

LEMMA Asking ==
  ASSUME NEW d, Good(d), NEW recursive \in BOOLEAN
  PROVE  Asks(d, RunGetDifference(d, recursive))
<1>1. PICK both \in Seq(Blocks) : /\ both = MergeAll(d.postponed, d.pending) /\ Chain(both)
                                  /\ ToSet(both) = Kept(d)
  <2>1. d.postponed \in Seq(Blocks) /\ d.pending \in Seq(Blocks)  BY DEF Good, Wide
  <2>2. MergeOK(d.postponed, d.pending)  BY <2>1, Merge DEF Good, Sorted
  <2>. QED  BY <2>2 DEF MergeOK, Kept
<1>2. PICK least : least = (IF recursive THEN d.minPostponed ELSE 0) /\ least \in 0 .. MaxPts
  BY UpdatesAssumption DEF Good, Wide
<1>3. PICK e : e = [d EXCEPT !.accCount = 0, !.accPts = -1, !.gapTimer = FALSE, !.minGapTimer = FALSE,
                             !.pending = << >>, !.running = TRUE, !.postponed = both,
                             !.minPostponed = least, !.ask = {d.pts}]
  OBVIOUS
<1>4. e = RunGetDifference(d, recursive)
  BY <1>1, <1>2, <1>3 DEF RunGetDifference, MergeAll, DropAllPending, Good, Wide
<1>5. e \in Wide
  <2>1. << >> \in Seq(Blocks) /\ 0 \in Nat /\ -1 \in Pts \union {-1} /\ FALSE \in BOOLEAN /\ TRUE \in BOOLEAN
        /\ d \in Wide /\ {d.pts} \in SUBSET Pts
    BY DEF Good, Wide
  <2>. QED  BY <1>1, <1>2, <1>3, <2>1 DEF Wide
<1>6. /\ e.pts = d.pts /\ e.pending = << >> /\ e.postponed = both /\ e.accPts = -1 /\ e.accCount = 0
      /\ e.log = d.log /\ e.missed = d.missed /\ e.running = TRUE /\ e.ask = {d.pts} /\ e.fetch = d.fetch
  BY <1>3 DEF Good, Wide
<1>7. ToSet(<< >>) = {}  BY DEF ToSet
<1>8. Good(e)  BY <1>1, <1>5, <1>6, <1>7, NonePending DEF Good, Sorted, Kept
<1>. QED  BY <1>1, <1>4, <1>6, <1>7, <1>8 DEF Asks, Kept

-------------------------------------------------------------------------------
(* Once no difference is awaited, the postponed updates are added again.      *)
AgainOK(d, us, e) ==
  /\ Steps(d, e, ToSet(us)) /\ Waits(e)

LEMMA AddingAgain ==
  ASSUME NEW d, Good(d), ~d.running, d.pending = << >>, d.postponed = << >>,
         NEW us \in Seq(Blocks), Chain(us),
         NEW view, view.long \in BOOLEAN
  PROVE  AgainOK(d, us, AddAgain(d, view, us))
<1> DEFINE T == {vs \in Seq(Blocks) : Chain(vs) => AgainOK(d, vs, AddAgain(d, view, vs))}
<1>1. << >> \in T
  <2>1. AddAgain(d, view, << >>) = d /\ ToSet(<< >>) = {}  BY AddAgainAppend DEF ToSet
  <2>2. d.pts <= d.pts  BY UpdatesAssumption DEF Good, Wide, Pts
  <2>. QED  BY <2>1, <2>2 DEF AgainOK, Steps, Reaches, Waits, Kept
<1>2. ASSUME NEW vs \in Seq(Blocks), NEW u \in Blocks, vs \in T PROVE Append(vs, u) \in T
  <2> SUFFICES ASSUME Chain(Append(vs, u)) PROVE AgainOK(d, Append(vs, u), AddAgain(d, view, Append(vs, u)))
    BY AppendIs
  <2>1. Chain(vs) /\ (\A i \in DOMAIN vs : vs[i].pts <= Start(u))
        /\ ToSet(Append(vs, u)) = ToSet(vs) \union {u}
    BY ChainFront, AppendSet
  <2>2. PICK e : e = AddAgain(d, view, vs) /\ AgainOK(d, vs, e)  BY <1>2, <2>1
  <2>3. /\ Good(e) /\ e.running = d.running /\ e.ask = d.ask /\ e.fetch = d.fetch /\ d.pts <= e.pts
        /\ Kept(e) \subseteq ToSet(vs) /\ Waits(e)
        /\ (e.pts = d.pts \/ \E v \in ToSet(vs) : e.pts = v.pts)
    BY <2>2 DEF AgainOK, Steps, Reaches
  <2>4. ASSUME NEW v \in ToSet(vs) PROVE Apart(u, v)
    <3>1. PICK i \in DOMAIN vs : vs[i] = v  BY DEF ToSet
    <3>. QED  BY <2>1, <3>1 DEF Apart
  <2>5. ApartFrom(u, Kept(e))  BY <2>3, <2>4 DEF ApartFrom
  <2>6. PICK f : f = Adds(view, u, e)  OBVIOUS
  <2>7. AddOK(e, u, f)
    <3>1. CASE u \in view.unacceptable
      <4>1. f = AddPending(e, u, view.long, TRUE)  BY <2>6, <3>1 DEF Adds
      <4>. QED  BY <2>3, <2>5, <4>1, PendingAdded
    <3>2. CASE u \notin view.unacceptable
      <4>1. f = AddPending(e, u, view.long, FALSE)  BY <2>6, <3>2 DEF Adds, AddPending
      <4>. QED  BY <2>3, <2>5, <4>1, PendingAdded
    <3>. QED  BY <3>1, <3>2
  <2>8. AddAgain(d, view, Append(vs, u)) = f  BY <2>2, <2>6, AddAgainAppend
  <2>9. /\ Good(f) /\ f.running = e.running /\ f.ask = e.ask /\ f.fetch = e.fetch /\ e.pts <= f.pts
         /\ Kept(f) \subseteq Kept(e) \union {u} /\ Waits(f)
         /\ (f.pts = e.pts \/ \E v \in Kept(e) \union {u} : f.pts = v.pts)
    BY <2>3, <2>7 DEF AddOK, Steps, Reaches
  <2>10. d.pts <= f.pts
    <3>1. d.pts \in Int /\ e.pts \in Int /\ f.pts \in Int
      BY <2>3, <2>9, UpdatesAssumption DEF Good, Wide, Pts
    <3>. QED  BY <2>3, <2>9, <3>1
  <2>11. AgainOK(d, Append(vs, u), f)  BY <2>1, <2>3, <2>9, <2>10 DEF AgainOK, Steps, Reaches
  <2>. QED  BY <2>8, <2>11
<1>. HIDE DEF T
<1>3. Seq(Blocks) \subseteq T  BY <1>1, <1>2, Counting!InductionOnSequences
<1>. QED  BY <1>3 DEF T

LEMMA AfterDifference ==
  ASSUME NEW d, Good(d), ~d.running, d.pending = << >>, NEW view, view.long \in BOOLEAN,
         NEW e, e = AfterGetDifference(d, view)
  PROVE  Steps(d, e, Kept(d)) /\ Waits(e)
<1>1. PICK f : f = [d EXCEPT !.retryTimer = FALSE, !.postponed = << >>]  OBVIOUS
<1>2. e = AddAgain(f, view, d.postponed)  BY <1>1 DEF AfterGetDifference, AddAgain
<1>3. << >> \in Seq(Blocks) /\ FALSE \in BOOLEAN /\ d \in Wide /\ d.postponed \in Seq(Blocks) /\ Chain(d.postponed)
  BY DEF Good, Wide, Sorted
<1>4. f \in Wide  BY <1>1, <1>3 DEF Wide
<1>5. /\ f.pts = d.pts /\ f.pending = << >> /\ f.postponed = << >> /\ f.accPts = d.accPts
      /\ f.accCount = d.accCount /\ f.log = d.log /\ f.missed = d.missed /\ f.running = d.running
      /\ f.ask = d.ask /\ f.fetch = d.fetch
  BY <1>1 DEF Good, Wide
<1>6. ToSet(<< >>) = {}  BY DEF ToSet
<1>7. Good(f)  BY <1>4, <1>5, <1>6, NonePending DEF Good, Sorted
<1>8. AgainOK(f, d.postponed, e)  BY <1>2, <1>3, <1>5, <1>7, AddingAgain
<1>. QED  BY <1>5, <1>8 DEF AgainOK, Steps, Reaches, Kept

-------------------------------------------------------------------------------
(* The postponed updates while a difference comes in slices.                  *)
LoopStates(d) == [d : {e \in Wide : e.pending = << >> /\ Steps(d, e, Kept(d))}, time : Nat]

(* A run that Runs finds touches, from pts on.                                *)
RunOK(p, done, q) ==
  /\ q \in Pts /\ p <= q
  /\ AllEvents(done) = Interval(p, q)

LEMMA RunTouches ==
  ASSUME NEW d, Good(d), NEW n \in Runs(d)
  PROVE  /\ n \in 1 .. Len(d.postponed)
         /\ RunOK(d.pts, SubSeq(d.postponed, 1, n), d.postponed[n].pts)
<1>1. PICK us, p : /\ us = d.postponed /\ p = d.pts /\ us \in Seq(Blocks) /\ Chain(us) /\ p \in Int
  BY UpdatesAssumption DEF Good, Wide, Sorted, Pts
<1>2. /\ n \in 1 .. Len(us)
      /\ us[n].pts - EventCount(SubSeq(us, 1, n)) = p
      /\ \A i \in 1 .. n - 1 : p < us[i].pts - EventCount(SubSeq(us, 1, i))
  BY <1>1 DEF Runs
<1>3. n \in 0 .. Len(us) /\ n # 0 /\ n \in Int /\ Len(us) \in Nat  BY <1>1, <1>2
<1>4. PICK done, rest : done = SubSeq(us, 1, n) /\ rest = SubSeq(us, n + 1, Len(us))  OBVIOUS
<1>5. Splits(us, n, done, rest)  BY <1>1, <1>3, <1>4, SplitIs
<1>6. /\ done \in Seq(Blocks) /\ Len(done) = n /\ DOMAIN done = 1 .. n /\ DOMAIN us = 1 .. Len(us)
      /\ (\A i \in 1 .. n : done[i] = us[i]) /\ done # << >> /\ Last(done) = us[n]
  BY <1>3, <1>5 DEF Splits
<1>7. p <= Start(us[1])
  <2>1. us[1] \in Blocks /\ 1 \in DOMAIN us /\ 1 \in 1 .. Len(us)  BY <1>1, <1>2, <1>3, <1>6
  <2>2. SubSeq(us, 1, 1) = Append(<< >>, us[1])
    <3>1. Len(SubSeq(us, 1, 1)) = 1 /\ SubSeq(us, 1, 1)[1] = us[1] /\ SubSeq(us, 1, 1) \in Seq(Blocks)
      BY <1>1, <2>1
    <3>2. Append(<< >>, us[1]) = <<us[1]>>  OBVIOUS
    <3>3. PICK vs \in Seq(Blocks) : vs = SubSeq(us, 1, 1)  BY <3>1
    <3>4. PICK v : v = us[1]  OBVIOUS
    <3>5. Len(vs) = 1 /\ vs[1] = v  BY <3>1, <3>3, <3>4
    <3>6. vs = <<v>>  BY <3>5
    <3>. QED  BY <3>2, <3>3, <3>4, <3>6
  <2>3. EventCount(SubSeq(us, 1, 1)) = us[1].count
    <3>1. << >> \in Seq(Blocks) /\ 0 + us[1].count = us[1].count  BY <2>1, BlockIs
    <3>. QED  BY <2>1, <2>2, <3>1, CountAppend
  <2>4. CASE n = 1  BY <1>1, <1>2, <2>1, <2>3, <2>4 DEF Start
  <2>5. CASE n # 1
    <3>1. 1 \in 1 .. n - 1  BY <1>2, <1>3, <2>5
    <3>2. p < us[1].pts - us[1].count  BY <1>2, <2>3, <3>1
    <3>. QED  BY <1>1, <2>1, <3>2, BlockIs DEF Start
  <2>. QED  BY <2>4, <2>5
<1>8. ASSUME NEW i \in DOMAIN done PROVE p <= Start(done[i])
  <2>1. i \in DOMAIN us /\ done[i] = us[i] /\ 1 \in DOMAIN us  BY <1>2, <1>3, <1>6
  <2>2. CASE i = 1  BY <1>7, <2>1, <2>2
  <2>3. CASE i # 1
    <3>1. us[1].pts <= Start(us[i])
      <4>1. 1 < i  BY <1>6, <2>1, <2>3
      <4>. QED  BY <1>1, <2>1, <4>1 DEF Chain
    <3>2. PICK v \in Blocks, w \in Blocks : v = us[1] /\ w = us[i]  BY <1>1, <2>1
    <3>3. PICK s, x, t : s = Start(v) /\ x = v.pts /\ t = Start(w)  OBVIOUS
    <3>4. s \in Int /\ x \in Int /\ t \in Int /\ s <= x /\ x <= t /\ p <= s /\ p \in Int
      BY <1>1, <1>7, <3>1, <3>2, <3>3, BlockIs
    <3>5. p <= t  BY ONLY <3>4
    <3>. QED  BY <2>1, <3>2, <3>3, <3>5
  <2>. QED  BY <2>2, <2>3
<1>9. Chain(done)
  <2>1. ASSUME NEW i \in DOMAIN done, NEW j \in DOMAIN done, i < j PROVE done[i].pts <= Start(done[j])
    <3>1. i \in DOMAIN us /\ j \in DOMAIN us /\ done[i] = us[i] /\ done[j] = us[j]  BY <1>2, <1>3, <1>6
    <3>. QED  BY <1>1, <2>1, <3>1 DEF Chain
  <2>. QED  BY <2>1 DEF Chain
<1>10. CountOK(done, p)  BY <1>1, <1>6, <1>8, <1>9, CountIsBounded DEF From
<1>11. PICK q : q = us[n].pts /\ q = End(done, p) /\ q \in Pts /\ q \in Int
  <2>1. us[n] \in Blocks  BY <1>1, <1>2
  <2>. QED  BY <1>6, <2>1, BlockIs DEF End, Blocks
<1>12. EventCount(done) = q - p /\ EventCount(done) \in Nat
  <2>1. PICK m \in Nat : m = EventCount(done)  BY <1>6, CountType
  <2>2. q - m = p  BY <1>2, <1>4, <1>11, <2>1
  <2>3. m = q - p  BY <1>11, <2>2
  <2>. QED  BY <2>1, <2>3
<1>13. Touching(done, p)  BY <1>10, <1>11, <1>12 DEF CountOK
<1>14. RunOK(p, done, q)  BY <1>1, <1>6, <1>11, <1>13, TouchingListsAll DEF TouchingOK, RunOK
<1>. QED  BY <1>1, <1>2, <1>4, <1>11, <1>14

(* A suffix of the postponed updates stays.                                   *)
Leaves(d, log, q, n) ==
  [d EXCEPT !.log = log, !.pts = q, !.postponed = SubSeq(d.postponed, n + 1, Len(d.postponed))]

LEMMA LeavesRest ==
  ASSUME NEW d, Good(d), d.pending = << >>, NEW n \in 0 .. Len(d.postponed), NEW q \in Pts, d.pts <= q,
         q = d.pts \/ (\E v \in Kept(d) : q = v.pts), NEW log \in Seq(Pts), Logged(log, q, d.missed)
  PROVE  Leaves(d, log, q, n).pending = << >> /\ Steps(d, Leaves(d, log, q, n), Kept(d))
<1>1. PICK us, done, rest : /\ us = d.postponed /\ done = SubSeq(us, 1, n)
                            /\ rest = SubSeq(us, n + 1, Len(us)) /\ us \in Seq(Blocks)
  BY DEF Good, Wide
<1>2. Splits(us, n, done, rest)  BY <1>1, SplitIs
<1>3. /\ rest \in Seq(Blocks) /\ DOMAIN us = 1 .. Len(us) /\ DOMAIN rest = 1 .. Len(us) - n
      /\ (\A i \in 1 .. Len(us) - n : rest[i] = us[n + i]) /\ Len(us) \in Nat /\ n \in Nat
  BY <1>2 DEF Splits
<1>4. Chain(us) /\ \A v \in ToSet(us) : Start(v) >= 1  BY <1>1 DEF Good, Sorted
<1>5. Chain(rest)
  <2>1. ASSUME NEW i \in DOMAIN rest, NEW j \in DOMAIN rest, i < j PROVE rest[i].pts <= Start(rest[j])
    <3>1. n + i \in DOMAIN us /\ n + j \in DOMAIN us /\ n + i < n + j  BY <1>3, <2>1
    <3>. QED  BY <1>3, <1>4, <3>1 DEF Chain
  <2>. QED  BY <2>1 DEF Chain
<1>6. ToSet(rest) \subseteq ToSet(us)
  <2>1. ASSUME NEW i \in DOMAIN rest PROVE rest[i] \in ToSet(us)
    <3>1. n + i \in DOMAIN us /\ rest[i] = us[n + i]  BY <1>3
    <3>. QED  BY <3>1 DEF ToSet
  <2>. QED  BY <2>1 DEF ToSet
<1>7. PICK f : f = [d EXCEPT !.log = log, !.pts = q, !.postponed = rest]  OBVIOUS
<1>8. f = Leaves(d, log, q, n)  BY <1>1, <1>7 DEF Leaves
<1>9. f \in Wide  BY <1>3, <1>7 DEF Good, Wide
<1>10. /\ f.pts = q /\ f.pending = << >> /\ f.postponed = rest /\ f.accPts = d.accPts
       /\ f.accCount = d.accCount /\ f.log = log /\ f.missed = d.missed /\ f.running = d.running
       /\ f.ask = d.ask /\ f.fetch = d.fetch
  BY <1>7 DEF Good, Wide
<1>11. Behind(q, << >>, d.accPts, d.accCount)  BY DEF Good, Behind
<1>12. ToSet(<< >>) = {}  BY DEF ToSet
<1>13. Good(f)  BY <1>4, <1>5, <1>6, <1>9, <1>10, <1>11, <1>12 DEF Good, Sorted
<1>. QED  BY <1>1, <1>6, <1>8, <1>10, <1>12, <1>13 DEF Steps, Reaches, Kept

LEMMA LoopStep ==
  ASSUME NEW d, Good(d), NEW w \in LoopStates(d)
  PROVE  ProcessFirst(w) \in LoopStates(d)
<1>1. PICK c, t : /\ c = w.d /\ t = w.time /\ w = [d |-> c, time |-> t] /\ t \in Nat
                  /\ c \in Wide /\ c.pending = << >> /\ Steps(d, c, Kept(d))
  BY DEF LoopStates
<1>2. /\ Good(c) /\ c.running = d.running /\ c.ask = d.ask /\ c.fetch = d.fetch /\ d.pts <= c.pts
      /\ Kept(c) \subseteq Kept(d)
      /\ (c.pts = d.pts \/ \E v \in Kept(d) : c.pts = v.pts)
  BY <1>1 DEF Steps, Reaches
<1>3. /\ c.pts \in Pts /\ c.log \in Seq(Pts) /\ c.postponed \in Seq(Blocks) /\ c.pts <= c.pts
      /\ c.pts \in Int /\ Logged(c.log, c.pts, c.missed) /\ d.pts \in Int
  BY <1>2, UpdatesAssumption DEF Good, Wide, Pts
<1>4. ASSUME NEW f, f.pending = << >>, Steps(c, f, Kept(c)), NEW time \in Nat
      PROVE  [d |-> f, time |-> time] \in LoopStates(d)
  <2>1. Good(f) /\ f.running = c.running /\ f.ask = c.ask /\ f.fetch = c.fetch /\ c.pts <= f.pts
        /\ Kept(f) \subseteq Kept(c)
        /\ (f.pts = c.pts \/ \E v \in Kept(c) : f.pts = v.pts)
    BY <1>4 DEF Steps, Reaches
  <2>2. f.pts \in Int  BY <2>1, UpdatesAssumption DEF Good, Wide, Pts
  <2>3. d.pts <= f.pts  BY <1>2, <1>3, <2>1, <2>2
  <2>4. Steps(d, f, Kept(d))  BY <1>2, <2>1, <2>3 DEF Steps, Reaches
  <2>5. f \in Wide  BY <2>1 DEF Good
  <2>. QED  BY <1>4, <2>4, <2>5 DEF LoopStates
<1>5. CASE c.postponed = << >>
  BY <1>1, <1>5 DEF ProcessFirst
<1>6. CASE c.postponed # << >> /\ Head(c.postponed).pts <= c.pts
  <2>1. PICK f : f = [c EXCEPT !.postponed = Tail(c.postponed)]  OBVIOUS
  <2>2. ProcessFirst(w) = [d |-> f, time |-> t]  BY <1>1, <1>6, <2>1 DEF ProcessFirst
  <2>3. Tail(c.postponed) = SubSeq(c.postponed, 1 + 1, Len(c.postponed)) /\ 1 \in 0 .. Len(c.postponed)
    BY <1>3, <1>6
  <2>4. f = Leaves(c, c.log, c.pts, 1)  BY <1>1, <2>1, <2>3 DEF Wide, Leaves
  <2>5. f.pending = << >> /\ Steps(c, f, Kept(c))  BY <1>1, <1>2, <1>3, <2>3, <2>4, LeavesRest
  <2>. QED  BY <1>1, <1>4, <2>2, <2>5
<1>7. CASE c.postponed # << >> /\ ~(Head(c.postponed).pts <= c.pts) /\ (t = 0 \/ Runs(c) = {})
  <2>1. ProcessFirst(w) = [d |-> c, time |-> 0]  BY <1>1, <1>7 DEF ProcessFirst
  <2>2. Steps(c, c, Kept(c))  BY <1>2, <1>3 DEF Steps, Reaches
  <2>. QED  BY <1>1, <1>4, <2>1, <2>2
<1>8. CASE c.postponed # << >> /\ ~(Head(c.postponed).pts <= c.pts) /\ ~(t = 0 \/ Runs(c) = {})
  <2>1. PICK n : n = (CHOOSE m \in Runs(c) : TRUE) /\ n \in Runs(c)  BY <1>8
  <2>2. PICK q, done : /\ q = c.postponed[n].pts /\ done = SubSeq(c.postponed, 1, n)
                       /\ n \in 1 .. Len(c.postponed) /\ q \in Pts /\ c.pts <= q
                       /\ AllEvents(done) = Interval(c.pts, q)
    BY <1>2, <2>1, RunTouches DEF RunOK
  <2>3. PICK log : log = c.log \o Interval(c.pts, q)  OBVIOUS
  <2>4. log \in Seq(Pts) /\ Logged(log, q, c.missed)  BY <1>3, <2>2, <2>3, LogGrows
  <2>5. PICK f : f = Leaves(c, log, q, n)  OBVIOUS
  <2>6. ProcessFirst(w) = [d |-> f, time |-> t - 1]
    BY <1>1, <1>8, <2>1, <2>2, <2>3, <2>5 DEF ProcessFirst, Leaves, After
  <2>7. n \in 0 .. Len(c.postponed)  BY <1>3, <2>2
  <2>8. \E v \in Kept(c) : q = v.pts
    <3>1. n \in DOMAIN c.postponed  BY <1>3, <2>2
    <3>2. c.postponed[n] \in Kept(c)  BY <3>1 DEF Kept, ToSet
    <3>. QED  BY <2>2, <3>2
  <2>9. f.pending = << >> /\ Steps(c, f, Kept(c))  BY <1>1, <1>2, <2>2, <2>4, <2>5, <2>7, <2>8, LeavesRest
  <2>10. t - 1 \in Nat  BY <1>1, <1>8
  <2>. QED  BY <1>4, <2>6, <2>9, <2>10
<1>. QED  BY <1>5, <1>6, <1>7, <1>8

LEMMA PostponedProcessed ==
  ASSUME NEW d, Good(d), d.pending = << >>, NEW time \in Nat
  PROVE  ProcessPostponed(d, time).pending = << >> /\ Steps(d, ProcessPostponed(d, time), Kept(d))
<1>1. PICK w : w = [d |-> d, time |-> time]  OBVIOUS
<1> DEFINE T == {us \in Seq(Blocks) : Loop(w, us) \in LoopStates(d)}
<1>2. << >> \in T
  <2>1. d.pts <= d.pts /\ d \in Wide  BY UpdatesAssumption DEF Good, Wide, Pts
  <2>2. w \in LoopStates(d)  BY <1>1, <2>1 DEF LoopStates, Steps, Reaches
  <2>. QED  BY <2>2, LoopAppend
<1>3. ASSUME NEW us \in Seq(Blocks), NEW u \in Blocks, us \in T PROVE Append(us, u) \in T
  <2>1. PICK v \in LoopStates(d) : v = Loop(w, us)  BY <1>3
  <2>2. ProcessFirst(v) \in LoopStates(d)  BY LoopStep
  <2>3. Loop(w, Append(us, u)) = ProcessFirst(v)  BY <2>1, LoopAppend
  <2>. QED  BY <2>2, <2>3, AppendIs
<1>. HIDE DEF T
<1>4. Seq(Blocks) \subseteq T  BY <1>2, <1>3, Counting!InductionOnSequences
<1>5. Loop(w, d.postponed) \in LoopStates(d)
  <2>1. d.postponed \in Seq(Blocks)  BY DEF Good, Wide
  <2>. QED  BY <1>4, <2>1 DEF T
<1>6. ProcessPostponed(d, time) = Loop(w, d.postponed).d  BY <1>1 DEF ProcessPostponed, Loop
<1>. QED  BY <1>5, <1>6 DEF LoopStates

-------------------------------------------------------------------------------
(* The inductive invariant.  Managed is about the manager between handlers,   *)
(* Separate relates what it has kept to what is on the wire, and Flying says   *)
(* that one difference at a time is awaited, asked for from pts.              *)
Managed(d) ==
  /\ Good(d)
  /\ d.running => d.pending = << >>
  /\ Kept(d) \subseteq Updates

Separate(d, W, t) ==
  /\ d.pts <= t
  /\ \A u \in W \union Kept(d) : u.pts <= t /\ Start(u) >= 1
  /\ \A u \in W : ApartFrom(u, Kept(d))
  /\ \A u, v \in W : u # v => Apart(u, v)

Flying(d, asked, answered, t) ==
  /\ ~d.running => asked = {} /\ answered = {}
  /\ d.running => \/ asked = {d.pts} /\ answered = {}
                  \/ /\ asked = {}
                     /\ \E r \in Replies : answered = {r} /\ r.from = d.pts /\ d.pts <= r.to /\ r.to <= t

Sound(d, W, asked, answered, t) ==
  Managed(d) /\ Waits(d) /\ Separate(d, W, t) /\ Flying(d, asked, answered, t)

Quiet(d) == d.ask = {} /\ d.fetch = {}

Network ==
  /\ top \in Pts
  /\ wire \subseteq Updates
  /\ fetches \subseteq Pts
  /\ rare \in 0 .. MaxRare

IInv == Network /\ Quiet(um) /\ Sound(um, wire, requests, replies, top)

LEMMA UpdatesAreBlocks == Updates \subseteq Blocks
  BY UpdatesAssumption DEF Updates, Blocks

LEMMA ManagedIs ==
  ASSUME NEW d, Managed(d)
  PROVE  /\ Good(d) /\ d \in Wide /\ d.pts \in Pts /\ d.pts \in Int /\ d.pts <= d.pts /\ d.running \in BOOLEAN
         /\ d.pending \in Seq(Blocks) /\ d.postponed \in Seq(Blocks)
  BY UpdatesAssumption DEF Managed, Good, Wide, Pts

LEMMA ManagerTyped ==
  ASSUME NEW d, Managed(d)
  PROVE  d \in Managers
<1>1. d \in Wide /\ Kept(d) \subseteq Updates  BY DEF Managed, Good
<1>2. ASSUME NEW us \in Seq(Blocks), ToSet(us) \subseteq Updates PROVE us \in Seq(Updates)
  <2>1. \A i \in 1 .. Len(us) : us[i] \in Updates  BY <1>2 DEF ToSet
  <2>. QED  BY <2>1
<1>3. d.pending \in Seq(Blocks) /\ d.postponed \in Seq(Blocks)  BY <1>1 DEF Wide
<1>4. d.pending \in Seq(Updates) /\ d.postponed \in Seq(Updates)  BY <1>1, <1>2, <1>3 DEF Kept
<1>. QED  BY <1>1, <1>4 DEF Wide, Managers

LEMMA InvariantTyped == IInv => TypeOK
<1> SUFFICES ASSUME IInv PROVE TypeOK
  OBVIOUS
<1>1. um \in Managers  BY ManagerTyped DEF IInv, Sound
<1>2. um.pts \in Pts  BY ManagedIs DEF IInv, Sound
<1>3. requests \subseteq Pts /\ replies \subseteq Replies  BY <1>2 DEF IInv, Sound, Flying
<1>. QED  BY <1>1, <1>3 DEF IInv, Network, TypeOK

LEMMA InvariantLogged == IInv => AppliedOnceInOrder
  BY DEF IInv, Sound, Managed, Good, Logged, AppliedOnceInOrder

LEMMA InvariantBehind == IInv => PendingWaitsForAGap
<1> SUFFICES ASSUME IInv PROVE PendingWaitsForAGap
  OBVIOUS
<1>1. PICK us \in Seq(Blocks) : us = um.pending  BY ManagedIs DEF IInv, Sound
<1>2. /\ um.accCount = EventCount(us) /\ um.accPts = IF us = << >> THEN -1 ELSE Last(us).pts
      /\ \A i \in DOMAIN us : um.pts < Start(us[i])
      /\ um.running => us = << >>
  BY <1>1 DEF IInv, Sound, Managed, Good, Behind
<1>3. us # << >> => um.pts < Head(us).pts - Head(us).count
  <2>1. us # << >> => 1 \in DOMAIN us /\ Head(us) = us[1]  BY EndIs
  <2>. QED  BY <1>2, <2>1 DEF Start
<1>. QED  BY <1>1, <1>2, <1>3 DEF PendingWaitsForAGap

LEMMA InvariantWaits == IInv => WaitingUpdatesHaveTimer
  BY DEF IInv, Sound, Waits, WaitingUpdatesHaveTimer

-------------------------------------------------------------------------------
(* A handler that takes the updates in K from the wire.                       *)
LEMMA ReachesBound ==
  ASSUME NEW d, NEW W, NEW t, Separate(d, W, t), NEW K, K \subseteq W \union Kept(d),
         NEW e, Reaches(d, e, K)
  PROVE  e.pts <= t
<1>1. CASE e.pts = d.pts  BY <1>1 DEF Separate
<1>2. CASE \E v \in K : e.pts = v.pts  BY <1>2 DEF Separate
<1>. QED  BY <1>1, <1>2 DEF Reaches

LEMMA StepsSeparate ==
  ASSUME NEW d, NEW W, NEW t, Separate(d, W, t),
         NEW K, K \subseteq W \union Kept(d), NEW V, V \subseteq W, V \intersect K \subseteq Kept(d),
         NEW e, e.pts <= t, Kept(e) \subseteq K \union Kept(d)
  PROVE  Separate(e, V, t)
<1>1. \A u \in V \union Kept(e) : u.pts <= t /\ Start(u) >= 1  BY DEF Separate
<1>2. ASSUME NEW u \in V, NEW v \in Kept(e) PROVE Apart(u, v)
  <2>1. CASE v \in Kept(d)  BY <2>1 DEF Separate, ApartFrom
  <2>2. CASE v \notin Kept(d)
    <3>1. v \in W /\ v \in K /\ u \in W  BY <2>2
    <3>2. CASE u = v  BY <2>2, <3>1, <3>2
    <3>3. CASE u # v  BY <3>1, <3>3 DEF Separate
    <3>. QED  BY <3>2, <3>3
  <2>. QED  BY <2>1, <2>2
<1>3. \A u, v \in V : u # v => Apart(u, v)  BY DEF Separate
<1>. QED  BY <1>1, <1>2, <1>3 DEF Separate, ApartFrom

(* Handlers that set timers and other flags only.                             *)
Alike(d, e) ==
  /\ e \in Wide
  /\ e.pts = d.pts /\ e.pending = d.pending /\ e.postponed = d.postponed
  /\ e.accPts = d.accPts /\ e.accCount = d.accCount /\ e.log = d.log /\ e.missed = d.missed

LEMMA AlikeKeeps ==
  ASSUME NEW d, Managed(d), NEW W, NEW t, Separate(d, W, t), NEW e, Alike(d, e), e.running => d.running
  PROVE  Managed(e) /\ Separate(e, W, t) /\ Kept(e) = Kept(d)
<1>1. Kept(e) = Kept(d)  BY DEF Alike, Kept
<1>2. Good(e)  BY DEF Managed, Good, Alike
<1>3. Separate(e, W, t)  BY <1>1 DEF Separate, Alike
<1>. QED  BY <1>1, <1>2, <1>3 DEF Managed, Alike

(* What Becomes leaves in the manager.                                        *)
Cleared(d) == [d EXCEPT !.ask = {}, !.fetch = {}]

LEMMA ClearedIs ==
  ASSUME NEW d, NEW W, NEW asked, NEW answered, NEW t, Sound(d, W, asked, answered, t)
  PROVE  Sound(Cleared(d), W, asked, answered, t) /\ Quiet(Cleared(d))
<1>1. PICK e : e = [d EXCEPT !.ask = {}, !.fetch = {}]  OBVIOUS
<1>2. d \in Wide  BY ManagedIs DEF Sound
<1>3. /\ e \in Wide
      /\ e.pts = d.pts /\ e.pending = d.pending /\ e.postponed = d.postponed
      /\ e.accPts = d.accPts /\ e.accCount = d.accCount /\ e.log = d.log /\ e.missed = d.missed
      /\ e.running = d.running /\ e.gapTimer = d.gapTimer /\ e.retryTimer = d.retryTimer
      /\ e.ask = {} /\ e.fetch = {}
  BY <1>1, <1>2 DEF Wide
<1>4. Managed(e) /\ Separate(e, W, t)  BY <1>3, AlikeKeeps DEF Sound, Alike
<1>5. Waits(e) /\ Flying(e, asked, answered, t)  BY <1>3 DEF Sound, Waits, Flying
<1>6. Cleared(d) = e  BY <1>1 DEF Cleared
<1>. QED  BY <1>3, <1>4, <1>5, <1>6 DEF Sound, Quiet

(* An update from the wire is added.                                          *)
LEMMA UpdateAdded ==
  ASSUME NEW d, NEW W, W \subseteq Updates, NEW asked, NEW answered, NEW t,
         Sound(d, W, asked, answered, t), Quiet(d), NEW u \in W, NEW long \in BOOLEAN,
         NEW e, e = AddPending(d, u, long, FALSE)
  PROVE  Sound(e, W \ {u}, asked, answered, t) /\ Quiet(e)
<1>1. u \in Blocks /\ ApartFrom(u, Kept(d)) /\ Managed(d) /\ Good(d) /\ Separate(d, W, t)
  BY UpdatesAreBlocks DEF Sound, Separate, Managed
<1>2. AddOK(d, u, e)
  <2>1. FALSE \in BOOLEAN  OBVIOUS
  <2>2. d.running => d.pending = << >>  BY <1>1 DEF Managed
  <2>. QED  BY <1>1, <2>1, <2>2, PendingAdded
<1>3. /\ Good(e) /\ Reaches(d, e, Kept(d) \union {u})
      /\ e.running = d.running /\ e.ask = d.ask /\ e.fetch = d.fetch
      /\ Kept(e) \subseteq Kept(d) \union {u} /\ Waits(e)
      /\ d.running => e.pending = << >> /\ e.pts = d.pts
  BY <1>2 DEF AddOK, Steps, Sound
<1>4. PICK K : K = Kept(d) \union {u}  OBVIOUS
<1>5. e.pts <= t
  <2>1. K \subseteq W \union Kept(d) /\ Reaches(d, e, K)  BY <1>3, <1>4
  <2>. QED  BY <1>1, <2>1, ReachesBound
<1>6. Separate(e, W \ {u}, t)
  <2>1. /\ {u} \subseteq W \union Kept(d) /\ W \ {u} \subseteq W /\ (W \ {u}) \intersect {u} \subseteq Kept(d)
        /\ Kept(e) \subseteq {u} \union Kept(d)
    BY <1>3
  <2>. QED  BY <1>1, <1>5, <2>1, StepsSeparate
<1>7. Managed(e)  BY <1>1, <1>3 DEF Managed
<1>8. Flying(e, asked, answered, t)  BY <1>3 DEF Sound, Flying
<1>. QED  BY <1>3, <1>6, <1>7, <1>8 DEF Sound, Quiet

(* The difference is asked for.                                               *)
LEMMA DifferenceAsked ==
  ASSUME NEW d, Managed(d), Quiet(d), NEW W, NEW t, Separate(d, W, t), NEW recursive \in BOOLEAN,
         NEW e, e = RunGetDifference(d, recursive)
  PROVE  /\ Sound(e, W, e.ask, {}, t) /\ e.fetch = {} /\ e.running
<1>1. Asks(d, e)  BY Asking DEF Managed
<1>2. /\ Good(e) /\ e.running /\ e.pending = << >> /\ e.ask = {e.pts} /\ e.pts = d.pts
      /\ e.fetch = d.fetch /\ Kept(e) \subseteq Kept(d)
  BY <1>1 DEF Asks
<1>3. e.pts <= t  BY <1>2 DEF Separate
<1>4. Separate(e, W, t)
  <2>1. {} \subseteq W \union Kept(d) /\ W \subseteq W /\ W \intersect {} \subseteq Kept(d)
        /\ Kept(e) \subseteq {} \union Kept(d)
    BY <1>2
  <2>. QED  BY <1>3, <2>1, StepsSeparate
<1>. QED  BY <1>2, <1>4 DEF Sound, Managed, Waits, Flying, Quiet

LEMMA GetDifferenceIs ==
  ASSUME NEW d, Managed(d), Quiet(d), NEW W, NEW t, Separate(d, W, t),
         NEW asked, NEW answered, Flying(d, asked, answered, t),
         NEW e, e = GetDifference(d)
  PROVE  Sound(e, W, asked \union e.ask, answered, t) /\ e.fetch = {}
<1>1. CASE d.running
  <2>1. e = d  BY <1>1 DEF GetDifference
  <2>2. asked \union d.ask = asked  BY DEF Quiet
  <2>3. Waits(d)  BY <1>1 DEF Waits
  <2>. QED  BY <2>1, <2>2, <2>3 DEF Sound, Quiet
<1>2. CASE ~d.running
  <2>1. e = RunGetDifference(d, FALSE)  BY <1>2 DEF GetDifference
  <2>2. Sound(e, W, e.ask, {}, t) /\ e.fetch = {}
    <3>1. FALSE \in BOOLEAN  OBVIOUS
    <3>. QED  BY <2>1, <3>1, DifferenceAsked
  <2>3. asked = {} /\ answered = {}  BY <1>2 DEF Flying
  <2>4. asked \union e.ask = e.ask  BY <2>3
  <2>. QED  BY <2>2, <2>3, <2>4
<1>. QED  BY <1>1, <1>2

-------------------------------------------------------------------------------
(* The steps, one lemma each.  First those after which the manager's requests *)
(* are on their way.                                                          *)
LEMMA InvariantIs ==
  ASSUME IInv
  PROVE  /\ Network /\ top \in Pts /\ wire \subseteq Updates /\ fetches \subseteq Pts /\ rare \in 0 .. MaxRare
         /\ Managed(um) /\ Good(um) /\ Quiet(um) /\ Waits(um) /\ Separate(um, wire, top)
         /\ Flying(um, requests, replies, top) /\ Sound(um, wire, requests, replies, top)
  BY DEF IInv, Network, Sound, Managed

LEMMA BecomesSound ==
  ASSUME IInv, NEW d, Becomes(d), d.fetch \subseteq Pts,
         top' \in Pts, wire' \subseteq Updates, rare' \in 0 .. MaxRare,
         Sound(d, wire', requests \union d.ask, replies', top')
  PROVE  IInv'
<1>1. um' = Cleared(d) /\ requests' = requests \union d.ask /\ fetches' = fetches \union d.fetch
  BY DEF Becomes, Cleared
<1>2. Sound(Cleared(d), wire', requests \union d.ask, replies', top') /\ Quiet(Cleared(d))  BY ClearedIs
<1>3. Network'  BY <1>1, InvariantIs DEF Network
<1>. QED  BY <1>1, <1>2, <1>3 DEF IInv

LEMMA QuietAsks == ASSUME NEW d, Quiet(d), NEW asked PROVE asked \union d.ask = asked /\ d.fetch \subseteq Pts
  BY DEF Quiet

LEMMA InitInvariant == Init => IInv
<1> SUFFICES ASSUME Init PROVE IInv
  OBVIOUS
<1>1. PICK d : d = um  OBVIOUS
<1>2. /\ d.pts = 1 /\ d.pending = << >> /\ d.postponed = << >> /\ d.accPts = -1 /\ d.accCount = 0
      /\ d.running = FALSE /\ d.ask = {} /\ d.fetch = {} /\ d.log = << >> /\ d.missed = {}
  BY <1>1 DEF Init
<1>3. d \in Wide
  <2>1. /\ {1} \subseteq Pts /\ {0} \subseteq 0 .. MaxPts /\ {0} \subseteq Nat /\ {-1} \subseteq Pts \union {-1}
        /\ {<< >>} \subseteq Seq(Blocks) /\ {<< >>} \subseteq Seq(Pts) /\ {FALSE} \subseteq BOOLEAN
        /\ {{}} \subseteq SUBSET Pts
    BY UpdatesAssumption DEF Pts
  <2>. QED  BY ONLY <1>1, <2>1, Init DEF Init, Wide
<1>4. ToSet(<< >>) = {}  BY DEF ToSet
<1>5. Logged(d.log, d.pts, d.missed)  BY <1>2, <1>4 DEF Logged
<1>6. Good(d) /\ Kept(d) = {}
  BY <1>2, <1>3, <1>4, <1>5, NonePending DEF Good, Sorted, Kept
<1>7. top = 1 /\ wire = {} /\ requests = {} /\ replies = {} /\ fetches = {} /\ rare = 0  BY DEF Init
<1>8. Separate(d, wire, top)  BY <1>2, <1>6, <1>7 DEF Separate
<1>9. Network  BY <1>7, UpdatesAssumption DEF Network, Pts
<1>. QED  BY <1>1, <1>2, <1>6, <1>7, <1>8, <1>9 DEF IInv, Sound, Managed, Waits, Flying, Quiet

LEMMA TimersSet ==
  ASSUME NEW d, Managed(d), Quiet(d), NEW W, NEW asked, NEW answered, NEW t, Sound(d, W, asked, answered, t),
         NEW gap \in BOOLEAN, NEW min \in BOOLEAN, NEW retry \in BOOLEAN,
         NEW e, e = [d EXCEPT !.gapTimer = gap, !.minGapTimer = min, !.retryTimer = retry]
  PROVE  /\ Managed(e) /\ Separate(e, W, t) /\ Quiet(e) /\ Flying(e, asked, answered, t)
         /\ (d.gapTimer => gap) /\ (d.retryTimer => retry) => Waits(e)
<1>1. d \in Wide /\ Separate(d, W, t) /\ Flying(d, asked, answered, t) /\ Waits(d)
  BY ManagedIs DEF Sound
<1>2. e \in Wide  BY <1>1 DEF Wide
<1>3. /\ e.pts = d.pts /\ e.pending = d.pending /\ e.postponed = d.postponed
      /\ e.accPts = d.accPts /\ e.accCount = d.accCount /\ e.log = d.log /\ e.missed = d.missed
      /\ e.running = d.running /\ e.ask = d.ask /\ e.fetch = d.fetch
      /\ e.gapTimer = gap /\ e.retryTimer = retry
  BY <1>1 DEF Wide
<1>4. Managed(e) /\ Separate(e, W, t)  BY <1>1, <1>2, <1>3, AlikeKeeps DEF Alike
<1>. QED  BY <1>1, <1>3, <1>4 DEF Quiet, Flying, Waits

LEMMA FewerWires ==
  ASSUME NEW d, NEW W, NEW t, Separate(d, W, t), NEW V, V \subseteq W
  PROVE  Separate(d, V, t)
  BY DEF Separate

(* Updates arrive.                                                            *)
LEMMA ReceiveUpdateKeeps ==
  ASSUME IInv, NEW u \in wire, NEW long \in BOOLEAN, ReceiveUpdate(u, long)
  PROVE  IInv'
<1>1. PICK least \in 0 .. MaxPts :
        least = IF um.minPostponed = 0 \/ u.pts < um.minPostponed THEN u.pts ELSE um.minPostponed
  <2>1. um.minPostponed \in 0 .. MaxPts  BY InvariantIs DEF Good, Wide
  <2>2. u.pts \in 0 .. MaxPts  BY InvariantIs, UpdatesAssumption DEF Updates, Pts
  <2>. QED  BY <2>1, <2>2
<1>2. PICK d : d = IF um.running THEN [um EXCEPT !.minPostponed = least] ELSE um  OBVIOUS
<1>3. Sound(d, wire, requests, replies, top) /\ Quiet(d)
  <2>1. CASE ~um.running  BY <1>2, <2>1, InvariantIs
  <2>2. CASE um.running
    <3>1. um \in Wide  BY InvariantIs DEF Good
    <3>2. /\ d \in Wide /\ d.pts = um.pts /\ d.pending = um.pending /\ d.postponed = um.postponed
          /\ d.accPts = um.accPts /\ d.accCount = um.accCount /\ d.log = um.log /\ d.missed = um.missed
          /\ d.running = um.running /\ d.ask = um.ask /\ d.fetch = um.fetch
          /\ d.gapTimer = um.gapTimer /\ d.retryTimer = um.retryTimer
      BY <1>1, <1>2, <2>2, <3>1 DEF Wide
    <3>3. Managed(d) /\ Separate(d, wire, top)  BY <3>2, InvariantIs, AlikeKeeps DEF Alike
    <3>4. Waits(d) /\ Quiet(d) /\ Flying(d, requests, replies, top)
      BY <3>2, InvariantIs DEF Waits, Quiet, Flying
    <3>. QED  BY <3>3, <3>4 DEF Sound
  <2>. QED  BY <2>1, <2>2
<1>4. PICK e : e = AddPending(d, u, long, FALSE)  OBVIOUS
<1>5. /\ Becomes(e) /\ wire' = wire \ {u} /\ top' = top /\ replies' = replies /\ rare' = rare
  BY <1>1, <1>2, <1>4 DEF ReceiveUpdate
<1>6. Sound(e, wire \ {u}, requests, replies, top) /\ Quiet(e)  BY <1>3, <1>4, InvariantIs, UpdateAdded
<1>7. requests \union e.ask = requests /\ e.fetch \subseteq Pts  BY <1>6, QuietAsks
<1>8. wire' \subseteq Updates /\ top' \in Pts /\ rare' \in 0 .. MaxRare  BY <1>5, InvariantIs
<1>. QED  BY <1>5, <1>6, <1>7, <1>8, BecomesSound

LEMMA ReceiveAnswerKeeps ==
  ASSUME IInv, NEW u \in wire, NEW long \in BOOLEAN, ReceiveAnswer(u, long)
  PROVE  IInv'
<1>1. PICK e : e = AddPending(um, u, long, FALSE)  OBVIOUS
<1>2. /\ Becomes(e) /\ wire' = wire \ {u} /\ top' = top /\ replies' = replies /\ rare' = rare
  BY <1>1 DEF ReceiveAnswer
<1>3. Sound(e, wire \ {u}, requests, replies, top) /\ Quiet(e)  BY <1>1, InvariantIs, UpdateAdded
<1>4. requests \union e.ask = requests /\ e.fetch \subseteq Pts  BY <1>3, QuietAsks
<1>5. wire' \subseteq Updates /\ top' \in Pts /\ rare' \in 0 .. MaxRare  BY <1>2, InvariantIs
<1>. QED  BY <1>2, <1>3, <1>4, <1>5, BecomesSound

LEMMA ReceiveUnacceptableKeeps ==
  ASSUME IInv, NEW u \in wire, ReceiveUnacceptable(u)
  PROVE  IInv'
<1>1. PICK e : e = GetDifference(um)  OBVIOUS
<1>2. /\ Becomes(e) /\ wire' = wire \ {u} /\ top' = top /\ replies' = replies /\ rare' = rare
  BY <1>1 DEF ReceiveUnacceptable
<1>3. Separate(um, wire \ {u}, top)  BY InvariantIs, FewerWires
<1>4. Sound(e, wire \ {u}, requests \union e.ask, replies, top) /\ e.fetch = {}
  BY <1>1, <1>3, InvariantIs, GetDifferenceIs
<1>5. wire' \subseteq Updates /\ top' \in Pts /\ rare' \in 0 .. MaxRare /\ e.fetch \subseteq Pts
  BY <1>2, <1>4, InvariantIs
<1>. QED  BY <1>2, <1>4, <1>5, BecomesSound

LEMMA RareStays == ASSUME IInv, Rare PROVE rare' \in 0 .. MaxRare
  BY InvariantIs, UpdatesAssumption DEF Rare

LEMMA ReceiveUnparsedKeeps ==
  ASSUME IInv, NEW u \in wire, ReceiveUnparsed(u)
  PROVE  IInv'
<1>1. PICK e : e = [um EXCEPT !.retryTimer = TRUE]  OBVIOUS
<1>2. /\ Becomes(e) /\ wire' = wire \ {u} /\ top' = top /\ replies' = replies /\ Rare
  BY <1>1 DEF ReceiveUnparsed
<1>3. um \in Wide  BY InvariantIs DEF Good
<1>4. e = [um EXCEPT !.gapTimer = um.gapTimer, !.minGapTimer = um.minGapTimer, !.retryTimer = TRUE]
  BY <1>1, <1>3 DEF Wide
<1>5. um.gapTimer \in BOOLEAN /\ um.minGapTimer \in BOOLEAN /\ TRUE \in BOOLEAN  BY <1>3 DEF Wide
<1>6. /\ Managed(e) /\ Separate(e, wire, top) /\ Quiet(e) /\ Flying(e, requests, replies, top)
      /\ Waits(e)
  BY <1>4, <1>5, InvariantIs, TimersSet
<1>7. Sound(e, wire \ {u}, requests, replies, top)  BY <1>6, FewerWires DEF Sound
<1>8. requests \union e.ask = requests /\ e.fetch \subseteq Pts  BY <1>6, QuietAsks
<1>9. wire' \subseteq Updates /\ top' \in Pts /\ rare' \in 0 .. MaxRare  BY <1>2, InvariantIs, RareStays
<1>. QED  BY <1>2, <1>7, <1>8, <1>9, BecomesSound

(* Timers.                                                                    *)
LEMMA CheckPtsGapKeeps ==
  ASSUME IInv, CheckPtsGap
  PROVE  IInv'
<1>1. PICK d : d = [um EXCEPT !.minGapTimer = FALSE]  OBVIOUS
<1>2. um \in Wide  BY InvariantIs DEF Good
<1>3. d = [um EXCEPT !.gapTimer = um.gapTimer, !.minGapTimer = FALSE, !.retryTimer = um.retryTimer]
  BY <1>1, <1>2 DEF Wide
<1>4. um.gapTimer \in BOOLEAN /\ um.retryTimer \in BOOLEAN /\ FALSE \in BOOLEAN  BY <1>2 DEF Wide
<1>5. /\ Managed(d) /\ Separate(d, wire, top) /\ Quiet(d) /\ Flying(d, requests, replies, top)
      /\ Waits(d)
  BY <1>3, <1>4, InvariantIs, TimersSet
<1>6. /\ wire' = wire /\ top' = top /\ replies' = replies /\ rare' = rare
      /\ wire' \subseteq Updates /\ top' \in Pts /\ rare' \in 0 .. MaxRare
  BY InvariantIs DEF CheckPtsGap
<1>7. PICK p : p = um.pts + 1  OBVIOUS
<1>8. \/ Becomes(d)
      \/ /\ um.pending # << >> /\ Head(um.pending).pts = p + Head(um.pending).count
         /\ Becomes([d EXCEPT !.fetched = p, !.fetch = {p}])
  BY <1>1, <1>7 DEF CheckPtsGap
<1>9. CASE Becomes(d)
  <2>1. requests \union d.ask = requests /\ d.fetch \subseteq Pts  BY <1>5, QuietAsks
  <2>2. Sound(d, wire, requests, replies, top)  BY <1>5 DEF Sound
  <2>. QED  BY <1>6, <1>9, <2>1, <2>2, BecomesSound
<1>10. CASE /\ um.pending # << >> /\ Head(um.pending).pts = p + Head(um.pending).count
            /\ Becomes([d EXCEPT !.fetched = p, !.fetch = {p}])
  <2>1. PICK us \in Seq(Blocks) : us = um.pending  BY <1>2 DEF Wide
  <2>2. Head(us) \in Blocks /\ Head(us).pts \in Pts /\ Head(us).count \in Nat
    <3>1. us # << >> /\ Head(us) = us[1] /\ 1 \in 1 .. Len(us)  BY <1>10, <2>1
    <3>2. us[1] \in Blocks  BY <2>1, <3>1
    <3>. QED  BY <3>1, <3>2 DEF Blocks
  <2>3. PICK q, n : q = Head(us).pts /\ n = Head(us).count  OBVIOUS
  <2>4. q \in Int /\ q <= MaxPts /\ n \in Nat /\ q = p + n /\ p \in Int /\ p >= 1 /\ MaxPts \in Nat
    <3>1. um.pts \in 1 .. MaxPts  BY <1>2 DEF Wide, Pts
    <3>2. MaxPts \in Nat  BY UpdatesAssumption
    <3>3. p \in Int /\ p >= 1  BY <1>7, <3>1, <3>2
    <3>. QED  BY <1>10, <2>1, <2>2, <2>3, <3>2, <3>3 DEF Pts
  <2>5. p \in 1 .. MaxPts  BY ONLY <2>4
  <2>6. PICK e : e = [d EXCEPT !.fetched = p, !.fetch = {p}]  OBVIOUS
  <2>7. p \in Pts /\ p \in 0 .. MaxPts  BY <2>4, <2>5 DEF Pts
  <2>8. d \in Wide  BY <1>5, ManagedIs
  <2>9. /\ e \in Wide /\ e.pts = d.pts /\ e.pending = d.pending /\ e.postponed = d.postponed
        /\ e.accPts = d.accPts /\ e.accCount = d.accCount /\ e.log = d.log /\ e.missed = d.missed
        /\ e.running = d.running /\ e.ask = d.ask /\ e.fetch = {p}
        /\ e.gapTimer = d.gapTimer /\ e.retryTimer = d.retryTimer
    BY <2>6, <2>7, <2>8 DEF Wide
  <2>10. Managed(e) /\ Separate(e, wire, top)  BY <1>5, <2>9, AlikeKeeps DEF Alike
  <2>11. Sound(e, wire, requests, replies, top)  BY <1>5, <2>9, <2>10 DEF Sound, Waits, Flying
  <2>12. requests \union e.ask = requests /\ e.fetch \subseteq Pts  BY <1>5, <2>7, <2>9 DEF Quiet
  <2>. QED  BY <1>6, <1>10, <2>6, <2>11, <2>12, BecomesSound
<1>. QED  BY <1>8, <1>9, <1>10

LEMMA DifferenceKeeps ==
  ASSUME IInv, NEW d, Managed(d), Quiet(d), Separate(d, wire, top), Flying(d, requests, replies, top),
         Becomes(GetDifference(d)), UNCHANGED <<top, wire, replies, rare>>
  PROVE  IInv'
<1>1. PICK e : e = GetDifference(d)  OBVIOUS
<1>2. Sound(e, wire, requests \union e.ask, replies, top) /\ e.fetch = {}
  BY <1>1, InvariantIs, GetDifferenceIs
<1>3. /\ wire' = wire /\ replies' = replies /\ top' = top
      /\ wire' \subseteq Updates /\ top' \in Pts /\ rare' \in 0 .. MaxRare /\ e.fetch \subseteq Pts
  BY <1>2, InvariantIs
<1>. QED  BY <1>1, <1>2, <1>3, BecomesSound

LEMMA FillPtsGapKeeps ==
  ASSUME IInv, FillPtsGap
  PROVE  IInv'
<1>1. PICK d : d = [um EXCEPT !.gapTimer = FALSE]  OBVIOUS
<1>2. um \in Wide  BY InvariantIs DEF Good
<1>3. d = [um EXCEPT !.gapTimer = FALSE, !.minGapTimer = um.minGapTimer, !.retryTimer = um.retryTimer]
  BY <1>1, <1>2 DEF Wide
<1>4. um.minGapTimer \in BOOLEAN /\ um.retryTimer \in BOOLEAN /\ FALSE \in BOOLEAN  BY <1>2 DEF Wide
<1>5. Managed(d) /\ Separate(d, wire, top) /\ Quiet(d) /\ Flying(d, requests, replies, top)
  BY <1>3, <1>4, InvariantIs, TimersSet
<1>6. Becomes(GetDifference(d)) /\ UNCHANGED <<top, wire, replies, rare>>  BY <1>1 DEF FillPtsGap
<1>. QED  BY <1>5, <1>6, DifferenceKeeps

LEMMA RetryGetDifferenceKeeps ==
  ASSUME IInv, RetryGetDifference
  PROVE  IInv'
<1>1. PICK d : d = [um EXCEPT !.retryTimer = FALSE]  OBVIOUS
<1>2. um \in Wide  BY InvariantIs DEF Good
<1>3. d = [um EXCEPT !.gapTimer = um.gapTimer, !.minGapTimer = um.minGapTimer, !.retryTimer = FALSE]
  BY <1>1, <1>2 DEF Wide
<1>4. um.minGapTimer \in BOOLEAN /\ um.gapTimer \in BOOLEAN /\ FALSE \in BOOLEAN  BY <1>2 DEF Wide
<1>5. Managed(d) /\ Separate(d, wire, top) /\ Quiet(d) /\ Flying(d, requests, replies, top)
  BY <1>3, <1>4, InvariantIs, TimersSet
<1>6. Becomes(GetDifference(d)) /\ UNCHANGED <<top, wire, replies, rare>>  BY <1>1 DEF RetryGetDifference
<1>. QED  BY <1>5, <1>6, DifferenceKeeps

LEMMA PingServerKeeps ==
  ASSUME IInv, NEW other \in BOOLEAN, PingServer(other)
  PROVE  IInv'
<1>1. /\ UNCHANGED <<top, wire, replies, rare>>
      /\ Becomes(GetDifference(um)) \/ Becomes(um)
  BY DEF PingServer
<1>2. CASE Becomes(GetDifference(um))  BY <1>1, <1>2, InvariantIs, DifferenceKeeps
<1>3. CASE Becomes(um)
  <2>1. requests \union um.ask = requests /\ um.fetch \subseteq Pts  BY InvariantIs, QuietAsks
  <2>. QED  BY <1>1, <1>3, <2>1, InvariantIs, BecomesSound
<1>. QED  BY <1>1, <1>2, <1>3

LEMMA FetchFailsKeeps == ASSUME IInv, NEW p \in fetches, FetchFails(p) PROVE IInv'
  BY DEF IInv, Network, FetchFails

(* A fetched event is applied at once or not at all.                          *)
LEMMA OnGetPtsUpdateKeeps ==
  ASSUME IInv, NEW p \in fetches, NEW long \in BOOLEAN, OnGetPtsUpdate(p, long)
  PROVE  IInv'
<1>1. PICK u, us, e : /\ u = [pts |-> p, count |-> 1] /\ us = um.pending
                      /\ e = AddPending(um, u, long, FALSE)
  OBVIOUS
<1>2. /\ top' = top /\ wire' = wire /\ replies' = replies /\ requests' = requests /\ rare' = rare
      /\ fetches' = fetches \ {p} /\ Network'
  BY InvariantIs DEF OnGetPtsUpdate, Network
<1>3. CASE um' = um  BY <1>2, <1>3, InvariantIs DEF IInv
<1>4. CASE um' # um
  <2>1. /\ um.pts = p - 1 /\ ~um.running /\ um.postponed = << >> /\ us # << >>
        /\ Head(us).pts = p + Head(us).count /\ um' = e
    BY <1>1, <1>4 DEF OnGetPtsUpdate
  <2>2. us \in Seq(Blocks) /\ Chain(us) /\ Kept(um) = ToSet(us)
    <3>1. ToSet(<< >>) = {}  BY DEF ToSet
    <3>. QED  BY <1>1, <2>1, <3>1, InvariantIs DEF Good, Wide, Sorted, Kept
  <2>3. Head(us) = us[1] /\ us[1] \in Blocks /\ 1 \in DOMAIN us  BY <2>1, <2>2
  <2>4. p \in Pts /\ p \in Int /\ p >= 1  BY InvariantIs, UpdatesAssumption DEF Pts
  <2>5. PICK q, n : q = us[1].pts /\ n = us[1].count  OBVIOUS
  <2>6. q \in Int /\ n \in Nat /\ q = p + n /\ Start(us[1]) = p /\ p <= q
    <3>1. q \in Int /\ n \in Nat /\ q = p + n  BY <2>1, <2>3, <2>5, BlockIs
    <3>2. q - n = p /\ p <= q  BY <2>4, <3>1
    <3>. QED  BY <2>5, <3>1, <3>2 DEF Start
  <2>7. u \in Blocks /\ u.pts = p /\ Start(u) = um.pts /\ Start(u) < p
    <3>1. u.pts = p /\ u.count = 1  BY <1>1
    <3>2. Start(u) = p - 1  BY <3>1 DEF Start
    <3>3. p - 1 < p  BY <2>4
    <3>. QED  BY <1>1, <2>1, <2>4, <3>1, <3>2, <3>3 DEF Blocks
  <2>8. ApartFrom(u, Kept(um))
    <3>1. ASSUME NEW i \in DOMAIN us PROVE p <= Start(us[i])
      <4>1. CASE i = 1  BY <2>4, <2>6, <4>1
      <4>2. CASE i # 1
        <5>1. 1 < i  BY <2>2, <4>2
        <5>2. q <= Start(us[i])  BY <2>2, <2>3, <2>5, <3>1, <5>1 DEF Chain
        <5>3. us[i] \in Blocks  BY <2>2
        <5>4. Start(us[i]) \in Int  BY <5>3, BlockIs
        <5>. QED  BY <2>4, <2>6, <5>2, <5>4
      <4>. QED  BY <4>1, <4>2
    <3>. QED  BY <2>2, <2>7, <3>1 DEF ApartFrom, Apart, ToSet
  <2>9. AddOK(um, u, e) /\ AtOnce(um, u, e)
    <3>1. FALSE \in BOOLEAN /\ (um.running => um.pending = << >>)  BY <2>1
    <3>. QED  BY <1>1, <2>7, <2>8, <3>1, InvariantIs, PendingAdded
  <2>10. /\ Good(e) /\ Reaches(um, e, Kept(um) \union {u}) /\ e.running = um.running /\ e.ask = um.ask
         /\ e.fetch = um.fetch /\ um.pts <= e.pts /\ Kept(e) \subseteq Kept(um) \union {u} /\ Waits(e)
    BY <2>9, InvariantIs DEF AddOK, Steps
  <2>11. e.postponed = << >>
    <3>1. um.pts <= um.pts  BY <2>1, <2>4
    <3>. QED  BY <2>1, <2>7, <2>9, <3>1 DEF AtOnce
  <2>12. u \notin Kept(e)
    <3>1. Kept(e) = ToSet(e.pending)
      <4>1. ToSet(<< >>) = {}  BY DEF ToSet
      <4>. QED  BY <2>11, <4>1 DEF Kept
    <3>2. ASSUME NEW i \in DOMAIN e.pending, e.pending[i] = u PROVE FALSE
      <4>1. e.pts < Start(u)  BY <2>10, <3>2 DEF Good, Behind
      <4>2. e.pts \in Int /\ um.pts \in Int  BY <2>1, <2>4, <2>10, UpdatesAssumption DEF Good, Wide, Pts
      <4>3. PICK x, y, z : x = e.pts /\ y = um.pts /\ z = Start(u)  OBVIOUS
      <4>4. x < z /\ z = y /\ y <= x /\ x \in Int /\ y \in Int  BY <2>7, <2>10, <4>1, <4>2, <4>3
      <4>. QED  BY ONLY <4>4
    <3>. QED  BY <3>1, <3>2 DEF ToSet
  <2>13. Kept(e) \subseteq Kept(um)  BY <2>10, <2>12
  <2>14. e.pts <= top
    <3>1. us[1] \in Kept(um)  BY <2>2, <2>3 DEF ToSet
    <3>2. q <= top /\ top \in Int  BY <2>5, <3>1, InvariantIs, UpdatesAssumption DEF Separate, Pts
    <3>3. p <= top  BY <2>4, <2>6, <3>2
    <3>. QED  BY <2>7, <2>10, <3>3, InvariantIs DEF Reaches, Separate
  <2>15. Separate(e, wire, top)
    <3>1. {} \subseteq wire \union Kept(um) /\ wire \subseteq wire /\ wire \intersect {} \subseteq Kept(um)
          /\ Kept(e) \subseteq {} \union Kept(um)
      BY <2>13
    <3>. QED  BY <2>14, <3>1, InvariantIs, StepsSeparate
  <2>16. Managed(e)  BY <2>1, <2>10, <2>13, InvariantIs DEF Managed
  <2>17. Flying(e, requests, replies, top)  BY <2>1, <2>10, InvariantIs DEF Flying
  <2>18. Quiet(e)  BY <2>10, InvariantIs DEF Quiet
  <2>. QED  BY <1>2, <2>1, <2>10, <2>15, <2>16, <2>17, <2>18 DEF IInv, Sound
<1>. QED  BY <1>3, <1>4

(* The difference arrives.  Until the postponed updates are added again, the  *)
(* manager is settled: it awaits nothing and nothing is pending.              *)
Settled(d, W, t) == Managed(d) /\ ~d.running /\ d.pending = << >> /\ Quiet(d) /\ Separate(d, W, t)
Asked(d, W, t) == Sound(d, W, d.ask, {}, t) /\ d.fetch = {} /\ d.running

LEMMA StepsSettle ==
  ASSUME NEW d, NEW W, NEW t, Settled(d, W, t), NEW e, Steps(d, e, Kept(d))
  PROVE  Managed(e) /\ ~e.running /\ Quiet(e) /\ Separate(e, W, t)
<1>1. PICK K : K = Kept(d)  OBVIOUS
<1>2. Reaches(d, e, K) /\ Kept(e) \subseteq K /\ Good(e) /\ ~e.running /\ Quiet(e)
  BY <1>1 DEF Steps, Settled, Quiet
<1>3. e.pts <= t  BY <1>1, <1>2, ReachesBound DEF Settled
<1>4. Separate(e, W, t)
  <2>1. {} \subseteq W \union Kept(d) /\ W \subseteq W /\ W \intersect {} \subseteq Kept(d)
        /\ Kept(e) \subseteq {} \union Kept(d)
    BY <1>1, <1>2
  <2>. QED  BY <1>3, <2>1, StepsSeparate DEF Settled
<1>5. Kept(e) \subseteq Updates  BY <1>1, <1>2 DEF Settled, Managed
<1>. QED  BY <1>2, <1>4, <1>5 DEF Managed

LEMMA Resumed ==
  ASSUME NEW d, NEW W, NEW t, Settled(d, W, t), NEW view, view.long \in BOOLEAN,
         NEW e, e = AfterGetDifference(d, view)
  PROVE  Sound(e, W, {}, {}, t) /\ Quiet(e)
<1>1. Steps(d, e, Kept(d)) /\ Waits(e)  BY AfterDifference DEF Settled, Managed
<1>. QED  BY <1>1, StepsSettle DEF Sound, Managed, Flying

LEMMA AppliedIs ==
  ASSUME NEW d, NEW W, NEW t \in Int, Settled(d, W, t), NEW r \in Replies, r.from = d.pts,
         d.pts <= r.to, r.to <= t, NEW e, e = Applied(d, r)
  PROVE  Settled(e, W, t)
<1>1. /\ d \in Wide /\ Good(d) /\ d.pts \in Pts /\ d.pts \in Int /\ d.log \in Seq(Pts)
  BY UpdatesAssumption DEF Settled, Managed, Good, Wide, Pts
<1>2. r.to \in Pts /\ r.to \in Int  BY UpdatesAssumption DEF Replies, Pts
<1>3. PICK log \in Seq(Pts) : log = d.log \o Interval(d.pts, r.to) /\ Logged(log, r.to, d.missed)
  BY <1>1, <1>2, LogGrows DEF Good
<1>4. PICK q \in Pts : q = r.to  BY <1>2
<1>5. e = [d EXCEPT !.log = log, !.pts = q]
  <2>1. (IF r.to > d.pts THEN r.to ELSE d.pts) = q  BY <1>1, <1>2, <1>4
  <2>2. [i \in 1 .. r.to - r.from |-> r.from + i] = Interval(d.pts, r.to)  BY DEF Interval
  <2>. QED  BY <1>1, <1>3, <2>1, <2>2 DEF Applied, Wide
<1>6. e \in Wide  BY <1>1, <1>3, <1>4, <1>5 DEF Wide
<1>7. /\ e.pts = q /\ e.log = log /\ e.pending = d.pending /\ e.postponed = d.postponed
      /\ e.accPts = d.accPts /\ e.accCount = d.accCount /\ e.missed = d.missed
      /\ e.running = d.running /\ e.ask = d.ask /\ e.fetch = d.fetch
  BY <1>1, <1>3, <1>4, <1>5 DEF Wide
<1>8. Behind(e.pts, e.pending, e.accPts, e.accCount)
  BY <1>1, <1>7 DEF Settled, Good, Behind
<1>9. Good(e) /\ Kept(e) = Kept(d)  BY <1>1, <1>3, <1>4, <1>6, <1>7, <1>8 DEF Good, Kept
<1>. QED  BY <1>4, <1>7, <1>9 DEF Settled, Managed, Quiet, Separate

LEMMA AfterSliceIs ==
  ASSUME NEW d, NEW W, NEW t \in Int, Settled(d, W, t), NEW r \in Replies, r.from = d.pts,
         d.pts <= r.to, r.to <= t, NEW quiet \in BOOLEAN, NEW time \in Nat,
         NEW e, e = AfterSlice(d, r, quiet, time)
  PROVE  Settled(e, W, t) \/ Asked(e, W, t)
<1>1. PICK a : a = Applied(d, r)  OBVIOUS
<1>2. Settled(a, W, t)  BY <1>1, AppliedIs
<1>3. PICK f : f = ProcessPostponed(a, time)  OBVIOUS
<1>4. f.pending = << >> /\ Steps(a, f, Kept(a))  BY <1>2, <1>3, PostponedProcessed DEF Settled, Managed
<1>5. Settled(f, W, t)  BY <1>2, <1>4, StepsSettle DEF Settled
<1>6. e = f \/ e = RunGetDifference(f, TRUE)  BY <1>1, <1>3 DEF AfterSlice
<1>7. CASE e = RunGetDifference(f, TRUE)
  <2>1. TRUE \in BOOLEAN  OBVIOUS
  <2>. QED  BY <1>5, <1>7, <2>1, DifferenceAsked DEF Settled, Asked
<1>. QED  BY <1>5, <1>6, <1>7

LEMMA AfterTooLongIs ==
  ASSUME NEW d, NEW W, NEW t \in Int, Settled(d, W, t), NEW r \in Replies, r.from = d.pts,
         d.pts <= r.to, r.to <= t, NEW e, e = AfterTooLong(d, r)
  PROVE  Asked(e, W, t)
<1>1. /\ d \in Wide /\ Good(d) /\ d.pts \in Pts /\ d.pts \in Int /\ d.pts >= 1 /\ d.missed \in SUBSET Pts
  BY UpdatesAssumption DEF Settled, Managed, Good, Wide, Pts
<1>2. PICK q \in Pts : q = r.to /\ q \in Int  BY UpdatesAssumption DEF Replies, Pts
<1>3. PICK missed : missed = d.missed \union (d.pts + 1 .. q)  OBVIOUS
<1>4. missed \in SUBSET Pts /\ Logged(d.log, q, missed)
  <2>1. d.pts + 1 .. q \subseteq Pts  BY <1>1, <1>2, UpdatesAssumption DEF Pts
  <2>2. Logged(d.log, q, missed)  BY <1>1, <1>2, <1>3, LogMisses DEF Good
  <2>. QED  BY <1>1, <1>3, <2>1, <2>2
<1>5. PICK f : f = [d EXCEPT !.missed = missed, !.pts = q]  OBVIOUS
<1>6. e = GetDifference(f)
  <2>1. (IF r.to > d.pts THEN r.to ELSE d.pts) = q  BY <1>1, <1>2
  <2>. QED  BY <1>1, <1>2, <1>3, <1>5, <2>1 DEF AfterTooLong, Wide
<1>7. f \in Wide  BY <1>1, <1>2, <1>4, <1>5 DEF Wide
<1>8. /\ f.pts = q /\ f.log = d.log /\ f.pending = d.pending /\ f.postponed = d.postponed
      /\ f.accPts = d.accPts /\ f.accCount = d.accCount /\ f.missed = missed
      /\ f.running = d.running /\ f.ask = d.ask /\ f.fetch = d.fetch
  BY <1>1, <1>2, <1>4, <1>5 DEF Wide
<1>9. Behind(f.pts, f.pending, f.accPts, f.accCount)
  BY <1>1, <1>8 DEF Settled, Good, Behind
<1>10. Good(f) /\ Kept(f) = Kept(d)  BY <1>1, <1>4, <1>7, <1>8, <1>9 DEF Good, Kept
<1>11. Managed(f) /\ Quiet(f) /\ Separate(f, W, t) /\ ~f.running
  BY <1>2, <1>8, <1>10 DEF Settled, Managed, Quiet, Separate
<1>12. e = RunGetDifference(f, FALSE)  BY <1>6, <1>11 DEF GetDifference
<1>13. FALSE \in BOOLEAN  OBVIOUS
<1>. QED  BY <1>11, <1>12, <1>13, DifferenceAsked DEF Asked

LEMMA ReplyIs ==
  ASSUME IInv, NEW r \in replies
  PROVE  /\ r \in Replies /\ r.from = um.pts /\ um.pts <= r.to /\ r.to <= top
         /\ requests = {} /\ replies \ {r} = {} /\ um.running
  BY InvariantIs DEF Flying

LEMMA AnsweredIs ==
  ASSUME IInv, um.running, NEW retry \in BOOLEAN, um.retryTimer => retry,
         NEW e, e = [um EXCEPT !.running = FALSE, !.retryTimer = retry]
  PROVE  Settled(e, wire, top) /\ e.pts = um.pts /\ e.retryTimer = retry
<1>1. um \in Wide /\ Managed(um) /\ Quiet(um) /\ Separate(um, wire, top)  BY InvariantIs DEF Good
<1>2. e \in Wide  BY <1>1 DEF Wide
<1>3. /\ e.pts = um.pts /\ e.log = um.log /\ e.pending = um.pending /\ e.postponed = um.postponed
      /\ e.accPts = um.accPts /\ e.accCount = um.accCount /\ e.missed = um.missed
      /\ e.running = FALSE /\ e.ask = um.ask /\ e.fetch = um.fetch /\ e.retryTimer = retry
  BY <1>1 DEF Wide
<1>4. Managed(e) /\ Separate(e, wire, top)  BY <1>1, <1>2, <1>3, AlikeKeeps DEF Alike
<1>. QED  BY <1>1, <1>3, <1>4 DEF Settled, Managed, Quiet

LEMMA OnGetDifferenceKeeps ==
  ASSUME IInv, NEW r \in replies, NEW view \in [long : BOOLEAN, unacceptable : SUBSET ToSet(um.postponed)],
         NEW quiet \in BOOLEAN, NEW time \in 0 .. Len(um.postponed), OnGetDifference(r, view, quiet, time)
  PROVE  IInv'
<1>1. /\ r \in Replies /\ r.from = um.pts /\ um.pts <= r.to /\ r.to <= top
      /\ requests = {} /\ replies \ {r} = {} /\ um.running
  BY ReplyIs
<1>2. PICK d : d = [um EXCEPT !.running = FALSE]  OBVIOUS
<1>3. Settled(d, wire, top) /\ d.pts = um.pts
  <2>1. um \in Wide /\ um.retryTimer \in BOOLEAN  BY InvariantIs DEF Good, Wide
  <2>2. d = [um EXCEPT !.running = FALSE, !.retryTimer = um.retryTimer]  BY <1>2, <2>1 DEF Wide
  <2>. QED  BY <1>1, <2>1, <2>2, AnsweredIs
<1>4. top \in Int /\ time \in Nat /\ view.long \in BOOLEAN  BY InvariantIs, UpdatesAssumption DEF Pts
<1>5. PICK e : /\ e = CASE r.kind = "empty"      -> d
                        [] r.kind = "difference" -> Applied(d, r)
                        [] r.kind = "slice"      -> AfterSlice(d, r, quiet, time)
                        [] r.kind = "tooLong"    -> AfterTooLong(d, r)
  OBVIOUS
<1>6. PICK f : f = IF e.running THEN e ELSE AfterGetDifference(e, view)  OBVIOUS
<1>7. /\ Becomes(f) /\ replies' = replies \ {r} /\ top' = top /\ wire' = wire /\ rare' = rare
      /\ r.kind # "error"
  BY <1>2, <1>5, <1>6 DEF OnGetDifference
<1>8. r.kind \in {"empty", "difference", "slice", "tooLong"}  BY <1>1, <1>7 DEF Replies
<1>9. Settled(e, wire, top) \/ Asked(e, wire, top)
  <2>1. CASE r.kind = "empty"
    <3>1. e = d  BY <1>5, <2>1
    <3>. QED  BY <1>3, <3>1
  <2>2. CASE r.kind = "difference"
    <3>1. e = Applied(d, r)  BY <1>5, <2>2
    <3>. QED  BY <1>1, <1>3, <1>4, <3>1, AppliedIs
  <2>3. CASE r.kind = "slice"
    <3>1. e = AfterSlice(d, r, quiet, time)  BY <1>5, <2>3
    <3>. QED  BY <1>1, <1>3, <1>4, <3>1, AfterSliceIs
  <2>4. CASE r.kind = "tooLong"
    <3>1. e = AfterTooLong(d, r)  BY <1>5, <2>4
    <3>. QED  BY <1>1, <1>3, <1>4, <3>1, AfterTooLongIs
  <2>. QED  BY <1>8, <2>1, <2>2, <2>3, <2>4
<1>10. Sound(f, wire, f.ask, {}, top) /\ f.fetch = {}
  <2>1. CASE Settled(e, wire, top)
    <3>1. f = AfterGetDifference(e, view)  BY <1>6, <2>1 DEF Settled
    <3>2. Sound(f, wire, {}, {}, top) /\ Quiet(f)  BY <1>4, <2>1, <3>1, Resumed
    <3>. QED  BY <3>2 DEF Quiet
  <2>2. CASE Asked(e, wire, top)
    <3>1. f = e  BY <1>6, <2>2 DEF Asked
    <3>. QED  BY <2>2, <3>1 DEF Asked
  <2>. QED  BY <1>9, <2>1, <2>2
<1>11. /\ requests \union f.ask = f.ask /\ replies' = {} /\ f.fetch \subseteq Pts
       /\ top' \in Pts /\ wire' \subseteq Updates /\ rare' \in 0 .. MaxRare
  BY <1>1, <1>7, <1>10, InvariantIs
<1>. QED  BY <1>7, <1>10, <1>11, BecomesSound

LEMMA OnFailedGetDifferenceKeeps ==
  ASSUME IInv, NEW r \in replies, OnFailedGetDifference(r)
  PROVE  IInv'
<1>1. requests = {} /\ replies \ {r} = {} /\ um.running  BY ReplyIs
<1>2. PICK e : e = [um EXCEPT !.running = FALSE, !.retryTimer = TRUE]  OBVIOUS
<1>3. Settled(e, wire, top) /\ e.retryTimer = TRUE
  <2>1. TRUE \in BOOLEAN  OBVIOUS
  <2>. QED  BY <1>1, <1>2, <2>1, AnsweredIs
<1>4. Sound(e, wire, {}, {}, top) /\ Quiet(e)  BY <1>3 DEF Settled, Sound, Flying, Waits
<1>5. /\ Becomes(e) /\ replies' = {} /\ top' = top /\ wire' = wire /\ rare' = rare
      /\ top' \in Pts /\ wire' \subseteq Updates /\ rare' \in 0 .. MaxRare
  BY <1>1, <1>2, InvariantIs DEF OnFailedGetDifference
<1>6. requests \union e.ask = {} /\ e.fetch \subseteq Pts  BY <1>1, <1>4, QuietAsks
<1>. QED  BY <1>4, <1>5, <1>6, BecomesSound

(* The server.                                                                *)
LEMMA PublishKeeps ==
  ASSUME IInv, NEW n \in Counts, Publish(n)
  PROVE  IInv'
<1>1. /\ top + n \in Pts /\ top' = top + n /\ wire' = wire \union {[pts |-> top + n, count |-> n]}
      /\ um' = um /\ requests' = requests /\ replies' = replies /\ fetches' = fetches
  BY DEF Publish
<1>2. rare' \in 0 .. MaxRare  BY InvariantIs, RareStays DEF Publish
<1>3. n \in Nat /\ top \in Int /\ top >= 1  BY InvariantIs, UpdatesAssumption DEF Pts
<1>4. PICK q \in Pts, u \in Updates : q = top + n /\ u = [pts |-> q, count |-> n]
  BY <1>1 DEF Updates
<1>5. q \in Int /\ top <= q /\ q - n = top /\ u.pts = q /\ Start(u) = top
  <2>1. u.pts = q /\ u.count = n  BY <1>4
  <2>2. q - n = top /\ q \in Int /\ top <= q  BY <1>3, <1>4
  <2>. QED  BY <2>1, <2>2 DEF Start
<1>6. um.pts \in Int /\ um.pts <= top /\ Kept(um) \subseteq Updates
  BY InvariantIs, ManagedIs DEF Separate, Managed
<1>7. ASSUME NEW v \in wire \union Kept(um)
      PROVE  v.pts \in Int /\ v.pts <= top /\ Start(v) >= 1 /\ Apart(u, v) /\ Apart(v, u)
  <2>1. v \in Blocks  BY <1>6, InvariantIs, UpdatesAreBlocks
  <2>2. v.pts <= top /\ Start(v) >= 1  BY InvariantIs DEF Separate
  <2>. QED  BY <1>5, <2>1, <2>2, BlockIs DEF Apart
<1>8. Separate(um, wire \union {u}, q)
  <2>1. um.pts <= q  BY <1>3, <1>5, <1>6
  <2>2. ASSUME NEW v \in (wire \union {u}) \union Kept(um) PROVE v.pts <= q /\ Start(v) >= 1
    <3>1. CASE v = u  BY <1>3, <1>5, <3>1
    <3>2. CASE v # u  BY <1>3, <1>5, <1>7, <3>2
    <3>. QED  BY <3>1, <3>2
  <2>3. ASSUME NEW v \in wire \union {u} PROVE ApartFrom(v, Kept(um))
    <3>1. CASE v = u  BY <1>7, <3>1 DEF ApartFrom
    <3>2. CASE v # u  BY <3>2, InvariantIs DEF Separate
    <3>. QED  BY <3>1, <3>2
  <2>4. ASSUME NEW v \in wire \union {u}, NEW w \in wire \union {u}, v # w PROVE Apart(v, w)
    <3>1. CASE v = u  BY <1>7, <2>4, <3>1
    <3>2. CASE w = u  BY <1>7, <2>4, <3>2
    <3>3. CASE v # u /\ w # u  BY <2>4, <3>3, InvariantIs DEF Separate
    <3>. QED  BY <3>1, <3>2, <3>3
  <2>. QED  BY <2>1, <2>2, <2>3, <2>4 DEF Separate
<1>9. Flying(um, requests, replies, q)
  <2>1. ASSUME NEW r \in Replies, r.to <= top PROVE r.to <= q
    BY <1>3, <1>5, <2>1, UpdatesAssumption DEF Replies, Pts
  <2>. QED  BY <2>1, InvariantIs DEF Flying
<1>. QED  BY <1>1, <1>2, <1>4, <1>8, <1>9, InvariantIs DEF IInv, Network, Sound

LEMMA AnswerKeeps ==
  ASSUME IInv, NEW r \in Replies, Answer(r), r.from <= r.to, r.to <= top, rare' \in 0 .. MaxRare
  PROVE  IInv'
<1>1. /\ r.from \in requests /\ requests' = requests \ {r.from} /\ replies' = replies \union {r}
      /\ um' = um /\ top' = top /\ wire' = wire /\ fetches' = fetches
  BY DEF Answer
<1>2. requests = {um.pts} /\ replies = {} /\ um.running  BY <1>1, InvariantIs DEF Flying
<1>3. requests' = {} /\ replies' = {r} /\ r.from = um.pts  BY <1>1, <1>2
<1>4. Flying(um, requests', replies', top)  BY <1>2, <1>3 DEF Flying
<1>. QED  BY <1>1, <1>4, InvariantIs DEF IInv, Network, Sound

LEMMA ServerAnswersKeep ==
  ASSUME IInv, NEW p \in requests,
         \/ AnswerDifference(p)
         \/ \E to \in Pts : AnswerSlice(p, to)
         \/ \E kind \in {"tooLong", "error"} : AnswerFails(p, kind)
  PROVE  IInv'
<1>1. p = um.pts /\ um.pts \in Pts /\ um.pts <= top /\ top \in Pts /\ top \in Int /\ rare \in 0 .. MaxRare
      /\ um.pts \in Int
  BY InvariantIs, ManagedIs, UpdatesAssumption DEF Flying, Separate, Pts
<1>2. top <= top  BY <1>1
<1>3. CASE AnswerDifference(p)
  <2>1. PICK r : r = [kind |-> IF p = top THEN "empty" ELSE "difference", from |-> p, to |-> top]  OBVIOUS
  <2>2. r \in Replies /\ r.from = p /\ r.to = top  BY <1>1, <2>1 DEF Replies
  <2>3. Answer(r) /\ rare' = rare  BY <1>3, <2>1 DEF AnswerDifference
  <2>. QED  BY <1>1, <1>2, <2>2, <2>3, AnswerKeeps
<1>4. ASSUME NEW to \in Pts, AnswerSlice(p, to) PROVE IInv'
  <2>1. PICK r : r = [kind |-> "slice", from |-> p, to |-> to]  OBVIOUS
  <2>2. r \in Replies /\ r.from = p /\ r.to = to  BY <1>1, <2>1 DEF Replies
  <2>3. Answer(r) /\ rare' = rare /\ p < to /\ to < top  BY <1>4, <2>1 DEF AnswerSlice
  <2>4. p <= to /\ to <= top
    <3>1. to \in Int  BY UpdatesAssumption DEF Pts
    <3>. QED  BY <1>1, <2>3, <3>1
  <2>. QED  BY <1>1, <2>2, <2>3, <2>4, AnswerKeeps
<1>5. ASSUME NEW kind \in {"tooLong", "error"}, AnswerFails(p, kind) PROVE IInv'
  <2>1. PICK r : r = [kind |-> kind, from |-> p, to |-> top]  OBVIOUS
  <2>2. r \in Replies /\ r.from = p /\ r.to = top  BY <1>1, <2>1 DEF Replies
  <2>3. Answer(r) /\ rare' \in 0 .. MaxRare  BY <1>5, <2>1, RareStays DEF AnswerFails
  <2>. QED  BY <1>1, <1>2, <2>2, <2>3, AnswerKeeps
<1>. QED  BY <1>3, <1>4, <1>5

-------------------------------------------------------------------------------
LEMMA StepKeeps == IInv /\ [Next]_vars => IInv'
<1> SUFFICES ASSUME IInv, [Next]_vars PROVE IInv'
  OBVIOUS
<1>1. CASE Server
  BY <1>1, PublishKeeps, ServerAnswersKeep DEF Server
<1>2. ASSUME NEW u \in wire,
             \/ ReceiveUnacceptable(u) \/ ReceiveUnparsed(u)
             \/ \E long \in BOOLEAN : ReceiveUpdate(u, long) \/ ReceiveAnswer(u, long)
      PROVE  IInv'
  BY <1>2, ReceiveUnacceptableKeeps, ReceiveUnparsedKeeps, ReceiveUpdateKeeps, ReceiveAnswerKeeps
<1>3. CASE CheckPtsGap  BY <1>3, CheckPtsGapKeeps
<1>4. CASE FillPtsGap  BY <1>4, FillPtsGapKeeps
<1>5. CASE RetryGetDifference  BY <1>5, RetryGetDifferenceKeeps
<1>6. ASSUME NEW p \in fetches, FetchFails(p) \/ \E long \in BOOLEAN : OnGetPtsUpdate(p, long)
      PROVE  IInv'
  BY <1>6, FetchFailsKeeps, OnGetPtsUpdateKeeps
<1>7. CASE OnDifference
  BY <1>7, OnFailedGetDifferenceKeeps, OnGetDifferenceKeeps DEF OnDifference
<1>8. CASE Ping  BY <1>8, PingServerKeeps DEF Ping
<1>9. CASE UNCHANGED vars
  BY <1>9, InvariantIs DEF vars, IInv, Network
<1>. QED  BY <1>1, <1>2, <1>3, <1>4, <1>5, <1>6, <1>7, <1>8, <1>9 DEF Next

LEMMA Invariance == Spec => []IInv
<1>1. Init => IInv  BY InitInvariant
<1>2. IInv /\ [Next]_vars => IInv'  BY StepKeeps
<1>. QED  BY <1>1, <1>2, PTL DEF Spec

(* The manager, the updates it keeps, the requests and their answers stay      *)
(* what the fields of UpdatesManager may hold.                                *)
THEOREM TypeCorrect == Spec => []TypeOK
<1>1. Spec => []IInv  BY Invariance
<1>2. IInv => TypeOK  BY InvariantTyped
<1>. QED  BY <1>1, <1>2, PTL

(* Whatever is lost, delayed, reordered, answered in slices or fetched, every *)
(* event is applied once and in the server's order, and the manager's pts says *)
(* which: add_pending_pts_update and the handlers of the difference.          *)
THEOREM AppliedInOrder == Spec => []AppliedOnceInOrder
<1>1. Spec => []IInv  BY Invariance
<1>2. IInv => AppliedOnceInOrder  BY InvariantLogged
<1>. QED  BY <1>1, <1>2, PTL

(* The accumulated pts and count are those of the pending updates, which are   *)
(* behind a gap: the CHECKs of add_pending_pts_update and of                  *)
(* process_all_pending_pts_updates hold.                                      *)
THEOREM PendingBehindGap == Spec => []PendingWaitsForAGap
<1>1. Spec => []IInv  BY Invariance
<1>2. IInv => PendingWaitsForAGap  BY InvariantBehind
<1>. QED  BY <1>1, <1>2, PTL

(* While an update is kept, a difference is awaited or a timer is armed that   *)
(* asks for one.                                                              *)
THEOREM WaitingHasTimer == Spec => []WaitingUpdatesHaveTimer
<1>1. Spec => []IInv  BY Invariance
<1>2. IInv => WaitingUpdatesHaveTimer  BY InvariantWaits
<1>. QED  BY <1>1, <1>2, PTL
===============================================================================
