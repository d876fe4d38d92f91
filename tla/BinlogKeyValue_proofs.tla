------------------------- MODULE BinlogKeyValue_proofs -------------------------
(***************************************************************************)
(* Proofs about BinlogKeyValue.  The argument: all the events numbered so   *)
(* far, those that have run and those still on their way, are one sequence  *)
(* in the order of their numbers.  Its beginnings go through the tables of  *)
(* the map, because a number is taken and the map changed under one lock    *)
(* (Story); the log is a beginning of it, and every event on its way is     *)
(* where its number says (Spread).                                          *)
(***************************************************************************)
EXTENDS BinlogKeyValue, FiniteSetTheorems, TLAPS

EmptyIndex == [events |-> << >>, last |-> 0, error |-> FALSE]
AddTo(c, e, x) == Indexed(x, e)
Largest(s) == Max(s)
Indexes == INSTANCE FoldTheorems WITH Op <- AddTo, Pick <- Largest

(* The index of a log, event by event.                                        *)
LEMMA IndexAppend ==
  ASSUME NEW S
  PROVE  /\ Index(<< >>) = EmptyIndex
         /\ \A all \in Seq(S), e \in S : Index(Append(all, e)) = Indexed(Index(all), e)
<1>1. \A all : Index(all) = Indexes!FoldOf(0, EmptyIndex, all)
  BY DEF Index, EmptyIndex, FoldLeft, Indexes!FoldOf, MapThenFoldSet, Indexes!MapThenFoldSet, AddTo, Largest
<1>2. Indexes!PicksLargest
  <2>1. \A s : Indexes!Max(s) = Largest(s)  BY DEF Indexes!Max, Max, Largest
  <2>. QED  BY <2>1, Indexes!MaxIs DEF Indexes!PicksLargest
<1>3. /\ Indexes!FoldOf(0, EmptyIndex, << >>) = EmptyIndex
      /\ \A all \in Seq(S), e \in S :
           Indexes!FoldOf(0, EmptyIndex, Append(all, e)) = AddTo(0, e, Indexes!FoldOf(0, EmptyIndex, all))
  BY <1>2, Indexes!FoldAppend
<1>. QED  BY <1>1, <1>3 DEF AddTo

-------------------------------------------------------------------------------
(* An index and the map it was written for: one live event for every key,     *)
(* under the id the map has for it.                                           *)
MapOK(m) ==
  /\ m = [k \in DOMAIN m |-> m[k]]
  /\ DOMAIN m \subseteq Keys /\ IsFiniteSet(DOMAIN m)
  /\ \A k \in DOMAIN m : m[k] \in [value : Values, id : SeqNos]
  /\ \A j, k \in DOMAIN m : m[j].id = m[k].id => j = k

NoError(x) == x = [events |-> x.events, last |-> x.last, error |-> FALSE]

Agrees(x, m) ==
  /\ NoError(x)
  /\ x.last \in 0 .. MaxSeqNo
  /\ DOMAIN x.events = {m[k].id : k \in DOMAIN m}
  /\ \A k \in DOMAIN m : /\ x.events[m[k].id].key = k
                         /\ x.events[m[k].id].value = m[k].value
                         /\ m[k].id <= x.last

LEMMA LoadedAgrees ==
  ASSUME NEW m, MapOK(m), NEW x, Agrees(x, m)
  PROVE  LoadedMap(x) = m
<1> DEFINE ids(k) == {i \in DOMAIN x.events : x.events[i].key = k}
           first(k) == CHOOSE i \in ids(k) : \A j \in ids(k) : i <= j
<1>1. {x.events[i].key : i \in DOMAIN x.events} = DOMAIN m
  <2>1. \A i \in DOMAIN x.events : \E k \in DOMAIN m : i = m[k].id  BY DEF Agrees
  <2>2. \A k \in DOMAIN m : m[k].id \in DOMAIN x.events /\ x.events[m[k].id].key = k  BY DEF Agrees
  <2>3. ASSUME NEW i \in DOMAIN x.events PROVE x.events[i].key \in DOMAIN m  BY <2>1, <2>2
  <2>4. ASSUME NEW k \in DOMAIN m PROVE \E i \in DOMAIN x.events : x.events[i].key = k  BY <2>2
  <2>. QED  BY <2>3, <2>4, Zenon
<1>2. ASSUME NEW k \in DOMAIN m PROVE first(k) = m[k].id
  <2>1. ids(k) = {m[k].id}  BY DEF Agrees
  <2>2. m[k].id \in Nat  BY DEF MapOK, SeqNos
  <2>. QED  BY <2>1, <2>2
<1>3. ASSUME NEW k \in DOMAIN m
      PROVE  [value |-> x.events[first(k)].value, id |-> first(k)] = m[k]
  <2>1. m[k] \in [value : Values, id : SeqNos]  BY DEF MapOK
  <2>. HIDE DEF first
  <2>. QED  BY <1>2, <2>1 DEF Agrees
<1>4. LoadedMap(x) = [k \in DOMAIN m |-> [value |-> x.events[first(k)].value, id |-> first(k)]]
  BY <1>1 DEF LoadedMap
<1>. HIDE DEF first
<1>. QED  BY <1>3, <1>4 DEF MapOK

(* set() keeps them in agreement, with one event.                             *)
SetMap(m, k, v, id) ==
  [j \in DOMAIN m \cup {k} |-> IF j # k THEN m[j] ELSE [value |-> v, id |-> id]]
SetId(m, k, last) == IF k \in DOMAIN m THEN m[k].id ELSE last
SetEvent(m, k, v, last) ==
  Event(last, IF k \in DOMAIN m THEN "rewrite" ELSE "add", SetId(m, k, last), k, v)

LEMMA SetAgrees ==
  ASSUME NEW m, MapOK(m), NEW x, Agrees(x, m),
         NEW last \in SeqNos, x.last < last, NEW k \in Keys, NEW v \in Values,
         NEW e, e = SetEvent(m, k, v, last), NEW q, q = SetMap(m, k, v, SetId(m, k, last))
  PROVE  /\ e \in Events /\ MapOK(q)
         /\ Agrees(Indexed(x, e), q) /\ Indexed(x, e).last <= last
<1>. USE BinlogKeyValueAssumption
<1>1. SetId(m, k, last) \in SeqNos  BY DEF SetId, MapOK
<1>2. e \in Events  BY <1>1 DEF SetEvent, Event, Events
<1>3. q = [j \in DOMAIN q |-> q[j]] /\ DOMAIN q = DOMAIN m \cup {k}  BY DEF SetMap
<1>4. IsFiniteSet(DOMAIN q)  BY <1>3, FS_AddElement DEF MapOK
<1>5. /\ q[k] = [value |-> v, id |-> SetId(m, k, last)]
      /\ \A j \in DOMAIN m : j # k => q[j] = m[j]
  BY DEF SetMap
<1>6. \A j \in DOMAIN q : q[j] \in [value : Values, id : SeqNos]  BY <1>1, <1>3, <1>5 DEF MapOK
<1>7. \A j \in DOMAIN m : m[j].id \in Nat /\ m[j].id < last
  BY DEF MapOK, Agrees, SeqNos
<1>8. \A i, j \in DOMAIN q : q[i].id = q[j].id => i = j
  BY <1>3, <1>5, <1>7 DEF SetId, MapOK
<1>9. MapOK(q)  BY <1>3, <1>4, <1>6, <1>8 DEF MapOK
<1>10. CASE k \in DOMAIN m
  <2>1. e = [seq_no |-> last, type |-> "rewrite", id |-> m[k].id, key |-> k, value |-> v]
    BY <1>10 DEF SetEvent, SetId, Event
  <2>2. m[k].id \in DOMAIN x.events  BY <1>10 DEF Agrees
  <2>3. Indexed(x, e) = [x EXCEPT !.events[e.id] = e]  BY <2>1, <2>2 DEF Indexed
  <2>4. Indexed(x, e) = [events |-> [x.events EXCEPT ![m[k].id] = e], last |-> x.last, error |-> FALSE]
    <3>1. PICK E, L : x = [events |-> E, last |-> L, error |-> FALSE]  BY DEF Agrees, NoError
    <3>2. x.events = E /\ x.last = L /\ e.id = m[k].id  BY <2>1, <3>1
    <3>. QED  BY ONLY <2>3, <3>1, <3>2
  <2>5. DOMAIN Indexed(x, e).events = {q[j].id : j \in DOMAIN q}
    BY <1>3, <1>5, <1>10, <2>4 DEF Agrees, SetId
  <2>6. \A j \in DOMAIN q : /\ Indexed(x, e).events[q[j].id].key = j
                            /\ Indexed(x, e).events[q[j].id].value = q[j].value
                            /\ q[j].id <= Indexed(x, e).last
    <3>1. q[k].id = m[k].id /\ q[k].value = v  BY <1>5, <1>10 DEF SetId
    <3>2. \A j \in DOMAIN q : q[j].id = m[j].id  BY <1>3, <1>5, <1>10, <3>1
    <3>3. Indexed(x, e).events[m[k].id] = e  BY <2>2, <2>4
    <3>4. \A j \in DOMAIN m : j # k =>
            Indexed(x, e).events[m[j].id] = x.events[m[j].id] /\ m[j].id # m[k].id
      BY <1>10, <2>4 DEF MapOK, Agrees
    <3>. QED  BY <1>3, <1>5, <1>10, <2>1, <2>4, <3>1, <3>2, <3>3, <3>4 DEF Agrees
  <2>7. Indexed(x, e).last = x.last  BY <2>4
  <2>8. NoError(Indexed(x, e))  BY <2>4 DEF NoError
  <2>9. Agrees(Indexed(x, e), q)  BY <2>5, <2>6, <2>7, <2>8 DEF Agrees
  <2>. QED  BY <1>2, <1>9, <2>7, <2>9 DEF Agrees, SeqNos
<1>11. CASE k \notin DOMAIN m
  <2>1. e = [seq_no |-> last, type |-> "add", id |-> last, key |-> k, value |-> v]
    BY <1>11 DEF SetEvent, SetId, Event
  <2>2. \A i \in DOMAIN x.events : i \in Nat /\ i < last  BY <1>7 DEF Agrees
  <2>3. Indexed(x, e) = [x EXCEPT !.events = [i \in DOMAIN @ \cup {e.id} |-> IF i = e.id THEN e ELSE @[i]],
                                  !.last = e.id]
    BY <2>1, <2>2 DEF Indexed
  <2>4. Indexed(x, e) = [events |-> [i \in DOMAIN x.events \cup {last} |-> IF i = last THEN e ELSE x.events[i]],
                         last |-> last, error |-> FALSE]
    <3>1. PICK E, L : x = [events |-> E, last |-> L, error |-> FALSE]  BY DEF Agrees, NoError
    <3>2. x.events = E /\ x.last = L /\ e.id = last  BY <2>1, <3>1
    <3>3. PICK F : F = [i \in DOMAIN E \cup {last} |-> IF i = last THEN e ELSE E[i]]  OBVIOUS
    <3>4. Indexed(x, e) = [x EXCEPT !.events = F, !.last = last]  BY ONLY <2>3, <3>2, <3>3
    <3>5. Indexed(x, e) = [events |-> F, last |-> last, error |-> FALSE]  BY ONLY <3>1, <3>4
    <3>. QED  BY ONLY <3>2, <3>3, <3>5
  <2>5. q[k].id = last /\ q[k].value = v  BY <1>5, <1>11 DEF SetId
  <2>6. DOMAIN Indexed(x, e).events = {q[j].id : j \in DOMAIN q}
    BY <1>3, <1>5, <1>11, <2>4, <2>5 DEF Agrees
  <2>7. \A j \in DOMAIN m : Indexed(x, e).events[m[j].id] = x.events[m[j].id]
    BY <1>7, <2>4 DEF Agrees
  <2>8. Indexed(x, e).events[last] = e  BY <2>4
  <2>9. \A j \in DOMAIN q : /\ Indexed(x, e).events[q[j].id].key = j
                            /\ Indexed(x, e).events[q[j].id].value = q[j].value
                            /\ q[j].id <= Indexed(x, e).last
    BY <1>3, <1>5, <1>7, <1>11, <2>1, <2>4, <2>5, <2>7, <2>8 DEF Agrees, SeqNos
  <2>10. Indexed(x, e).last = last /\ last \in 0 .. MaxSeqNo /\ last <= last  BY <2>4 DEF SeqNos
  <2>11. NoError(Indexed(x, e))  BY <2>4 DEF NoError
  <2>12. Agrees(Indexed(x, e), q)  BY <2>6, <2>9, <2>10, <2>11 DEF Agrees
  <2>. QED  BY <1>2, <1>9, <2>10, <2>12
<1>. QED  BY <1>10, <1>11

(* So does the erasure of a key.                                              *)
LEMMA EraseAgrees ==
  ASSUME NEW m, MapOK(m), NEW x, Agrees(x, m),
         NEW last \in SeqNos, NEW k \in DOMAIN m,
         NEW e, e = EraseEvent(last, m[k].id), NEW q, q = Without(m, {k})
  PROVE  /\ e \in Events /\ MapOK(q)
         /\ Agrees(Indexed(x, e), q) /\ Indexed(x, e).last = x.last
<1>1. m[k].id \in SeqNos /\ m[k].id \in DOMAIN x.events  BY DEF MapOK, Agrees
<1>2. e = [seq_no |-> last, type |-> "erase", id |-> m[k].id, key |-> NoKey, value |-> NoKey]
  BY DEF EraseEvent, Event
<1>3. e \in Events  BY <1>1, <1>2 DEF Events
<1>4. q = [j \in DOMAIN q |-> q[j]] /\ DOMAIN q = DOMAIN m \ {k} /\ \A j \in DOMAIN q : q[j] = m[j]
  BY DEF Without
<1>5. IsFiniteSet(DOMAIN q)  BY <1>4, FS_RemoveElement DEF MapOK
<1>6. MapOK(q)
  <2>. HIDE DEF Without
  <2>1. /\ DOMAIN m \subseteq Keys /\ \A j \in DOMAIN m : m[j] \in [value : Values, id : SeqNos]
        /\ \A i, j \in DOMAIN m : m[i].id = m[j].id => i = j
    BY DEF MapOK
  <2>2. DOMAIN q \subseteq Keys /\ \A j \in DOMAIN q : q[j] \in [value : Values, id : SeqNos]
    BY <1>4, <2>1
  <2>3. \A i, j \in DOMAIN q : q[i].id = q[j].id => i = j  BY <1>4, <2>1
  <2>. QED  BY <1>4, <1>5, <2>2, <2>3 DEF MapOK
<1>7. Indexed(x, e) = [x EXCEPT !.events = [i \in DOMAIN @ \ {e.id} |-> @[i]]]
  BY <1>1, <1>2 DEF Indexed
<1>8. Indexed(x, e) = [events |-> [i \in DOMAIN x.events \ {m[k].id} |-> x.events[i]],
                       last |-> x.last, error |-> FALSE]
  <2>1. PICK E, L : x = [events |-> E, last |-> L, error |-> FALSE]  BY DEF Agrees, NoError
  <2>2. x.events = E /\ x.last = L /\ e.id = m[k].id  BY <1>2, <2>1
  <2>. QED  BY ONLY <1>7, <2>1, <2>2
<1>a. PICK y : y = Indexed(x, e)  OBVIOUS
<1>b. /\ \A j \in DOMAIN q : j \in DOMAIN m /\ q[j].id = m[j].id /\ q[j].value = m[j].value /\ m[j].id # m[k].id
      /\ \A j \in DOMAIN m : m[j].id # m[k].id => j \in DOMAIN q
  BY <1>4 DEF MapOK
<1>c. /\ DOMAIN y.events = DOMAIN x.events \ {m[k].id} /\ y.last = x.last
      /\ \A i \in DOMAIN y.events : y.events[i] = x.events[i]
  BY <1>8, <1>a
<1>9. DOMAIN y.events = {q[j].id : j \in DOMAIN q}
  <2>1. DOMAIN x.events = {m[j].id : j \in DOMAIN m}  BY DEF Agrees
  <2>. QED  BY ONLY <1>b, <1>c, <2>1
<1>10. \A j \in DOMAIN q : /\ y.events[q[j].id].key = j
                           /\ y.events[q[j].id].value = q[j].value
                           /\ q[j].id <= y.last
  <2> SUFFICES ASSUME NEW j \in DOMAIN q
               PROVE  y.events[q[j].id].key = j /\ y.events[q[j].id].value = q[j].value /\ q[j].id <= y.last
    OBVIOUS
  <2>1. j \in DOMAIN m /\ q[j].id = m[j].id /\ q[j].value = m[j].value  BY <1>b
  <2>2. m[j].id \in DOMAIN y.events  BY <1>9, <2>1, Zenon
  <2>3. y.events[m[j].id] = x.events[m[j].id]  BY <1>c, <2>2
  <2>4. x.events[m[j].id].key = j /\ x.events[m[j].id].value = m[j].value /\ m[j].id <= x.last
    BY <2>1 DEF Agrees
  <2>. QED  BY <1>c, <2>1, <2>3, <2>4
<1>11. Agrees(y, q)
  <2>1. NoError(y)  BY <1>8, <1>a DEF NoError
  <2>2. y.last \in 0 .. MaxSeqNo  BY <1>c DEF Agrees
  <2>. QED  BY <1>9, <1>10, <2>1, <2>2 DEF Agrees
<1>. QED  BY <1>3, <1>6, <1>a, <1>c, <1>11

-------------------------------------------------------------------------------
Prefix(seq, n) == SubSeq(seq, 1, n)

LEMMA PrefixFacts ==
  ASSUME NEW S, NEW seq \in Seq(S)
  PROVE  /\ Prefix(seq, Len(seq)) = seq
         /\ \A n \in 0 .. Len(seq) :
              /\ Prefix(seq, n) \in Seq(S) /\ Len(Prefix(seq, n)) = n
              /\ \A i \in 1 .. n : Prefix(seq, n)[i] = seq[i]
              /\ \A m \in 0 .. n : Prefix(Prefix(seq, n), m) = Prefix(seq, m)
              /\ \A x \in S : Prefix(Append(seq, x), n) = Prefix(seq, n)
              /\ \A tail \in Seq(S) : Prefix(seq \o tail, n) = Prefix(seq, n)
<1>1. Prefix(seq, Len(seq)) = seq  BY DEF Prefix
<1>2. ASSUME NEW n \in 0 .. Len(seq)
      PROVE  /\ Prefix(seq, n) \in Seq(S) /\ Len(Prefix(seq, n)) = n
             /\ \A i \in 1 .. n : Prefix(seq, n)[i] = seq[i]
             /\ \A m \in 0 .. n : Prefix(Prefix(seq, n), m) = Prefix(seq, m)
             /\ \A x \in S : Prefix(Append(seq, x), n) = Prefix(seq, n)
             /\ \A tail \in Seq(S) : Prefix(seq \o tail, n) = Prefix(seq, n)
  <2>1. /\ Prefix(seq, n) \in Seq(S) /\ Len(Prefix(seq, n)) = n
        /\ \A i \in 1 .. n : Prefix(seq, n)[i] = seq[i]
    BY DEF Prefix
  <2>2. ASSUME NEW m \in 0 .. n PROVE Prefix(Prefix(seq, n), m) = Prefix(seq, m)
    BY DEF Prefix
  <2>3. ASSUME NEW x \in S PROVE Prefix(Append(seq, x), n) = Prefix(seq, n)
    BY DEF Prefix
  <2>4. ASSUME NEW tail \in Seq(S) PROVE Prefix(seq \o tail, n) = Prefix(seq, n)
    BY DEF Prefix
  <2>. QED  BY <2>1, <2>2, <2>3, <2>4
<1>. QED  BY <1>1, <1>2

-------------------------------------------------------------------------------
(* The story of the map: hist is the tables that the beginnings of the        *)
(* sequence all of events go through, m the map at its end, last the next     *)
(* number.                                                                   *)
Reached(all, n, hist) ==
  \E q : MapOK(q) /\ Agrees(Index(Prefix(all, n)), q) /\ hist[n + 1] = Table(q)

Story(all, m, hist, last) ==
  /\ all \in Seq(Events) /\ hist \in Seq(Tables) /\ Len(hist) = Len(all) + 1
  /\ last \in 1 .. MaxSeqNo + 1
  /\ MapOK(m) /\ Agrees(Index(all), m) /\ Index(all).last < last
  /\ \A n \in 0 .. Len(all) : Reached(all, n, hist)

(* The events on their way, from the number first to next - 1, behind the     *)
(* run ones: those the log keeps (kept) and the clients' (cells).             *)
InPlace(e, all, run, first, next) ==
  e.seq_no \in first .. next - 1 /\ e = all[run + 1 + (e.seq_no - first)]

Spread(all, run, first, next, kept, cells) ==
  /\ next \in Nat /\ first \in 1 .. next /\ run \in Nat /\ Len(all) = run + (next - first)
  /\ cells \in [Clients -> Seq(Events)]
  /\ \A e \in kept : InPlace(e, all, run, first, next)
  /\ \A c \in Clients : \A i \in 1 .. Len(cells[c]) :
       /\ InPlace(cells[c][i], all, run, first, next)
       /\ \A e \in kept : e.seq_no # cells[c][i].seq_no
       /\ \A d \in Clients : \A j \in 1 .. Len(cells[d]) :
            cells[c][i].seq_no = cells[d][j].seq_no => c = d /\ i = j

Bounded == durable_events \in 0 .. Len(log) /\ crashes \in 0 .. MaxCrashes

Explained(all) ==
  /\ Story(all, map, past, last_event_id)
  /\ Spread(all, Len(log), begin, last_event_id, early, pending)
  /\ log = Prefix(all, Len(log))

IInv == Bounded /\ \E all : Explained(all)

-------------------------------------------------------------------------------
LEMMA TableType == ASSUME NEW m, MapOK(m) PROVE Table(m) \in Tables
<1>1. Table(m) \in [DOMAIN m -> Values]  BY DEF Table, MapOK
<1>. QED  BY <1>1 DEF Tables, MapOK

LEMMA StoryBegins == Story(<< >>, << >>, << << >> >>, 1)
<1> DEFINE m == << >>
<1>. USE BinlogKeyValueAssumption
<1>1. DOMAIN m = {} /\ m = [k \in {} |-> m[k]]  OBVIOUS
<1>2. MapOK(m)  BY <1>1, FS_EmptySet DEF MapOK
<1>3. Table(m) = << >>  BY <1>1 DEF Table
<1>4. Index(<< >>) = EmptyIndex  BY IndexAppend
<1>5. Agrees(EmptyIndex, m)  BY <1>1 DEF Agrees, NoError, EmptyIndex
<1>6. EmptyIndex.last = 0  BY DEF EmptyIndex
<1>7. Reached(<< >>, 0, << << >> >>)
  <2>1. Prefix(<< >>, 0) = << >>  BY DEF Prefix
  <2>. HIDE DEF m
  <2>. QED  BY <1>2, <1>3, <1>4, <1>5, <2>1 DEF Reached
<1>8. << >> \in Tables  BY <1>2, <1>3, TableType
<1>9. /\ << >> \in Seq(Events) /\ << << >> >> \in Seq(Tables) /\ Len(<< >>) = 0 /\ Len(<< << >> >>) = 1
      /\ 0 .. Len(<< >>) = {0}
  BY <1>8
<1>. QED  BY <1>2, <1>4, <1>5, <1>6, <1>7, <1>9 DEF Story

LEMMA StoryAppend ==
  ASSUME NEW all, NEW m, NEW hist, NEW last, Story(all, m, hist, last),
         NEW e \in Events, NEW q, MapOK(q), Agrees(Indexed(Index(all), e), q),
         NEW next \in 1 .. MaxSeqNo + 1, Indexed(Index(all), e).last < next
  PROVE  Story(Append(all, e), q, Append(hist, Table(q)), next)
<1> DEFINE al == Append(all, e)
           hi == Append(hist, Table(q))
<1>1. all \in Seq(Events) /\ hist \in Seq(Tables) /\ Len(hist) = Len(all) + 1 /\ Len(all) \in Nat
  BY DEF Story
<1>2. Table(q) \in Tables  BY TableType
<1>3. /\ al \in Seq(Events) /\ hi \in Seq(Tables) /\ Len(al) = Len(all) + 1 /\ Len(hi) = Len(al) + 1
      /\ hi[Len(al) + 1] = Table(q) /\ \A n \in 0 .. Len(all) : hi[n + 1] = hist[n + 1]
  BY <1>1, <1>2
<1>4. Index(al) = Indexed(Index(all), e)  BY <1>1, IndexAppend
<1>5. ASSUME NEW n \in 0 .. Len(al) PROVE Reached(al, n, hi)
  <2>1. CASE n \in 0 .. Len(all)
    <3>1. Prefix(al, n) = Prefix(all, n)  BY <1>1, <2>1, PrefixFacts
    <3>2. Reached(all, n, hist)  BY <2>1 DEF Story
    <3>3. hi[n + 1] = hist[n + 1]  BY <1>3, <2>1
    <3>. QED  BY <3>1, <3>2, <3>3 DEF Reached
  <2>2. CASE n = Len(al)
    <3>1. Prefix(al, n) = al  BY <1>3, <2>2, PrefixFacts
    <3>. QED  BY <1>3, <1>4, <2>2, <3>1 DEF Reached
  <2>. QED  BY <1>1, <1>3, <2>1, <2>2
<1>. HIDE DEF al, hi
<1>6. Story(al, q, hi, next)  BY <1>3, <1>4, <1>5 DEF Story
<1>. QED  BY <1>6 DEF al, hi

(* A batch of keys, each erased with an event of its own.                     *)
ErasedMap(m, keys, n) == Without(m, {keys[i] : i \in 1 .. n})
ErasedEvents(m, keys, last, n) == [i \in 1 .. n |-> EraseEvent(last + i - 1, m[keys[i]].id)]
ErasedTables(m, keys, n) == [i \in 1 .. n |-> Table(ErasedMap(m, keys, i))]

DifferentKeys(m, keys) ==
  keys \in Seq(DOMAIN m) /\ \A i, j \in 1 .. Len(keys) : i # j => keys[i] # keys[j]

FirstOf(f, n, g) == g = [i \in 1 .. n |-> f[i]]

LEMMA AppendLast ==
  ASSUME NEW S, NEW s \in Seq(S), NEW n \in Nat, NEW f, FirstOf(f, n + 1, f), NEW g, FirstOf(f, n, g)
  PROVE  Append(s \o g, f[n + 1]) = s \o f
<1>. USE DEF FirstOf
<1> DEFINE R == S \cup {f[i] : i \in 1 .. n + 1}
<1>1. s \in Seq(R)
  <2>1. S \subseteq R  OBVIOUS
  <2>. HIDE DEF R
  <2>. QED  BY <2>1
<1>2. /\ \A i \in 1 .. n + 1 : f[i] \in R
      /\ \A i \in 1 .. n : f[i] \in R /\ g[i] = f[i]
  OBVIOUS
<1>. HIDE DEF R
<1>3. f \in [1 .. n + 1 -> R] /\ g \in [1 .. n -> R]  BY <1>2
<1>4. f \in Seq(R) /\ Len(f) = n + 1 /\ g \in Seq(R) /\ Len(g) = n
  BY ONLY <1>3, n \in Nat
<1>5. PICK h : h = f  OBVIOUS
<1>6. Append(s \o g, h[n + 1]) = s \o h  BY ONLY <1>1, <1>2, <1>4, <1>5, n \in Nat
<1>. QED  BY <1>5, <1>6

LEMMA StoryErase ==
  ASSUME NEW all, NEW m, NEW hist, NEW last, Story(all, m, hist, last),
         NEW keys, DifferentKeys(m, keys), last + Len(keys) <= MaxSeqNo + 1
  PROVE  \A n \in 0 .. Len(keys) :
           Story(all \o ErasedEvents(m, keys, last, n), ErasedMap(m, keys, n),
                 hist \o ErasedTables(m, keys, n), last + n)
<1> DEFINE ev(n) == ErasedEvents(m, keys, last, n)
           mp(n) == ErasedMap(m, keys, n)
           tb(n) == ErasedTables(m, keys, n)
           st(n) == Story(all \o ev(n), mp(n), hist \o tb(n), last + n)
           T == {n \in Nat : n <= Len(keys) => st(n)}
<1>1. /\ all \in Seq(Events) /\ hist \in Seq(Tables) /\ last \in SeqNos \cup {MaxSeqNo + 1} /\ MapOK(m)
      /\ last \in Nat /\ MaxSeqNo \in Nat /\ keys \in Seq(DOMAIN m) /\ Len(keys) \in Nat
  BY BinlogKeyValueAssumption DEF Story, DifferentKeys, SeqNos
<1>2. 0 \in T
  <2>1. ev(0) = << >> /\ tb(0) = << >>  BY DEF ErasedEvents, ErasedTables
  <2>2. mp(0) = m
    <3>1. {keys[i] : i \in 1 .. 0} = {}  OBVIOUS
    <3>. QED  BY <1>1, <3>1 DEF ErasedMap, Without, MapOK
  <2>3. all \o << >> = all /\ hist \o << >> = hist /\ last + 0 = last  BY <1>1
  <2>4. st(0)  BY <2>1, <2>2, <2>3
  <2>. QED  BY <2>4
<1>3. ASSUME NEW n \in Nat, n \in T PROVE n + 1 \in T
  <2> SUFFICES ASSUME n + 1 <= Len(keys) PROVE st(n + 1)
    OBVIOUS
  <2> DEFINE k == keys[n + 1]
             e == EraseEvent(last + n, m[k].id)
  <2>1. st(n)  BY <1>1, <1>3
  <2>2. n + 1 \in 1 .. Len(keys) /\ k \in DOMAIN m  BY <1>1
  <2>3. k \in DOMAIN mp(n) /\ mp(n)[k] = m[k]
    BY <1>1, <2>2 DEF ErasedMap, Without, DifferentKeys
  <2>4. mp(n + 1) = Without(mp(n), {k})
    <3>1. {keys[i] : i \in 1 .. n + 1} = {keys[i] : i \in 1 .. n} \cup {k}  OBVIOUS
    <3>. QED  BY <3>1 DEF ErasedMap, Without
  <2>5. last + n \in SeqNos /\ last + n + 1 \in 1 .. MaxSeqNo + 1  BY <1>1 DEF SeqNos
  <2> DEFINE x == Index(all \o ev(n))
  <2>6. MapOK(mp(n)) /\ Agrees(x, mp(n)) /\ x.last < last + n  BY <2>1 DEF Story
  <2>7. /\ e \in Events /\ MapOK(mp(n + 1)) /\ Agrees(Indexed(x, e), mp(n + 1))
        /\ Indexed(x, e).last = x.last
    <3>. HIDE DEF x, mp, k
    <3>1. e = EraseEvent(last + n, mp(n)[k].id)  BY <2>3
    <3>. HIDE DEF e
    <3>. QED  BY <2>3, <2>4, <2>5, <2>6, <3>1, EraseAgrees
  <2>8. x.last < last + n + 1
    <3>1. x.last \in Nat  BY <2>6 DEF Agrees
    <3>. HIDE DEF x
    <3>. QED  BY <1>1, <2>6, <3>1
  <2>9. Story(Append(all \o ev(n), e), mp(n + 1), Append(hist \o tb(n), Table(mp(n + 1))), last + n + 1)
    <3>. HIDE DEF ev, mp, tb, e
    <3>. QED  BY <2>1, <2>5, <2>7, <2>8, StoryAppend DEF x
  <2>10. Append(all \o ev(n), e) = all \o ev(n + 1)
    <3>1. last + (n + 1) - 1 = last + n  BY <1>1
    <3>2. ev(n + 1)[n + 1] = e /\ FirstOf(ev(n + 1), n, ev(n)) /\ FirstOf(ev(n + 1), n + 1, ev(n + 1))
      BY <3>1 DEF ErasedEvents, FirstOf
    <3>. HIDE DEF ev, e
    <3>3. Append(all \o ev(n), ev(n + 1)[n + 1]) = all \o ev(n + 1)  BY <1>1, <3>2, AppendLast
    <3>. QED  BY <3>2, <3>3
  <2>11. Append(hist \o tb(n), Table(mp(n + 1))) = hist \o tb(n + 1)
    <3>1. /\ tb(n + 1)[n + 1] = Table(mp(n + 1))
          /\ FirstOf(tb(n + 1), n, tb(n)) /\ FirstOf(tb(n + 1), n + 1, tb(n + 1))
      BY DEF ErasedTables, FirstOf
    <3>. HIDE DEF tb, mp
    <3>2. Append(hist \o tb(n), tb(n + 1)[n + 1]) = hist \o tb(n + 1)  BY <1>1, <3>1, AppendLast
    <3>. QED  BY <3>1, <3>2
  <2>12. last + n + 1 = last + (n + 1)  BY <1>1
  <2>. HIDE DEF ev, mp, tb, e
  <2>. QED  BY <2>9, <2>10, <2>11, <2>12
<1>. HIDE DEF T
<1>4. Nat \subseteq T
  <2>1. Indexes!Inductive(T)  BY <1>2, <1>3 DEF Indexes!Inductive
  <2>. QED  BY <2>1, Indexes!InductionOnNumbers
<1>. QED  BY <1>1, <1>4 DEF T

LEMMA StoryPrefix ==
  ASSUME NEW all, NEW m, NEW hist, NEW last, Story(all, m, hist, last), NEW n \in 0 .. Len(all),
         NEW x, x = Index(Prefix(all, n)), NEW q, q = LoadedMap(x)
  PROVE  /\ Append(SubSeq(hist, 1, n), Table(q)) = SubSeq(hist, 1, n + 1)
         /\ Story(Prefix(all, n), q, SubSeq(hist, 1, n + 1), x.last + 1)
<1>1. /\ all \in Seq(Events) /\ hist \in Seq(Tables) /\ Len(hist) = Len(all) + 1 /\ Len(all) \in Nat
      /\ MaxSeqNo \in Nat
  BY BinlogKeyValueAssumption DEF Story
<1>2. MapOK(q) /\ Agrees(x, q) /\ hist[n + 1] = Table(q)
  <2>1. PICK r : MapOK(r) /\ Agrees(x, r) /\ hist[n + 1] = Table(r)  BY DEF Story, Reached
  <2>2. LoadedMap(x) = r  BY <2>1, LoadedAgrees
  <2>. QED  BY <2>1, <2>2
<1>3. Append(SubSeq(hist, 1, n), Table(q)) = SubSeq(hist, 1, n + 1)
  BY <1>1, <1>2
<1> DEFINE al == Prefix(all, n)
           hi == SubSeq(hist, 1, n + 1)
<1>4. /\ al \in Seq(Events) /\ Len(al) = n /\ Prefix(all, Len(al)) = al
      /\ \A i \in 0 .. n : Prefix(al, i) = Prefix(all, i)
  BY <1>1, PrefixFacts
<1>5. hi \in Seq(Tables) /\ Len(hi) = n + 1 /\ \A i \in 0 .. n : hi[i + 1] = hist[i + 1]
  BY <1>1
<1>6. ASSUME NEW i \in 0 .. n PROVE Reached(al, i, hi)
  <2>1. Reached(all, i, hist)  BY <1>1 DEF Story
  <2>2. Prefix(al, i) = Prefix(all, i) /\ hi[i + 1] = hist[i + 1]  BY <1>4, <1>5
  <2>. HIDE DEF al, hi
  <2>. QED  BY <2>1, <2>2 DEF Reached
<1>7. x.last \in 0 .. MaxSeqNo /\ x.last < x.last + 1 /\ x.last + 1 \in 1 .. MaxSeqNo + 1
  BY <1>1, <1>2 DEF Agrees
<1>8. x = Index(al)  OBVIOUS
<1>. HIDE DEF al, hi
<1>9. Story(al, q, hi, x.last + 1)  BY <1>2, <1>4, <1>5, <1>6, <1>7, <1>8 DEF Story
<1>. QED  BY <1>3, <1>9 DEF al, hi
-------------------------------------------------------------------------------
(* The events that run when the log has events without the number n: those    *)
(* from first on (ran), in the order of their numbers; the later ones stay.    *)
Runs(events, first, n, ran, stay) ==
  /\ \A k \in first .. n - 1 : \E e \in events : e.seq_no = k
  /\ \A e \in events : e.seq_no # n
  /\ ran = [i \in 1 .. n - first |-> CHOOSE e \in events : e.seq_no = first + i - 1]
  /\ stay = {e \in events : e.seq_no > n}

Extended(all, l, run, first, next, kept, cells) ==
  l = Prefix(all, run) /\ Len(l) = run /\ Spread(all, run, first, next, kept, cells)

LEMMA SpreadDeliver ==
  ASSUME NEW all \in Seq(Events), NEW run, NEW first, NEW next, NEW kept, NEW cells,
         Spread(all, run, first, next, kept, cells),
         NEW n \in Nat, first <= n, NEW ran, NEW stay, Runs(kept, first, n, ran, stay),
         NEW l, l = Prefix(all, run)
  PROVE  Extended(all, l \o ran, run + (n - first), n, next, stay, cells)
<1> DEFINE cnt == n - first
<1>1. /\ first \in Nat /\ first >= 1 /\ next \in Nat /\ run \in Nat /\ Len(all) = run + (next - first)
      /\ first <= next
  BY DEF Spread
<1>2. n <= next
  <2>1. CASE n = first  BY <1>1, <2>1
  <2>2. CASE n # first
    <3>1. n - 1 \in first .. n - 1  BY <1>1, <2>2
    <3>2. PICK e \in kept : e.seq_no = n - 1  BY <3>1 DEF Runs
    <3>3. n - 1 \in first .. next - 1  BY <3>2 DEF Spread, InPlace
    <3>. QED  BY <1>1, <3>3
  <2>. QED  BY <2>1, <2>2
<1>3. cnt \in Nat /\ run + cnt \in 0 .. Len(all) /\ run \in 0 .. Len(all)  BY <1>1, <1>2
<1>4. ASSUME NEW i \in 1 .. cnt PROVE ran[i] = all[run + i]
  <2>1. first + i - 1 \in first .. n - 1  BY <1>1
  <2>2. \E e \in kept : e.seq_no = first + i - 1  BY <2>1 DEF Runs
  <2>3. ran[i] \in kept /\ ran[i].seq_no = first + i - 1  BY <2>2 DEF Runs
  <2>4. ran[i] = all[run + 1 + ((first + i - 1) - first)]  BY <2>3 DEF Spread, InPlace
  <2>5. run + 1 + ((first + i - 1) - first) = run + i  BY <1>1
  <2>. QED  BY <2>4, <2>5
<1>5. ran \in Seq(Events) /\ Len(ran) = cnt
  <2>1. \A i \in 1 .. cnt : run + i \in 1 .. Len(all)  BY <1>1, <1>3
  <2>2. \A i \in 1 .. cnt : ran[i] \in Events  BY <1>4, <2>1
  <2>3. ran = [i \in 1 .. cnt |-> CHOOSE e \in kept : e.seq_no = first + i - 1]  BY DEF Runs
  <2>4. ran \in [1 .. cnt -> Events]  BY <2>2, <2>3
  <2>. HIDE DEF cnt
  <2>. QED  BY ONLY <1>3, <2>4
<1>6. l \in Seq(Events) /\ Len(l) = run /\ \A i \in 1 .. run : l[i] = all[i]
  BY <1>3, PrefixFacts
<1>7. /\ Prefix(all, run + cnt) \in Seq(Events) /\ Len(Prefix(all, run + cnt)) = run + cnt
      /\ \A i \in 1 .. run + cnt : Prefix(all, run + cnt)[i] = all[i]
  BY <1>3, PrefixFacts
<1>8. /\ l \o ran \in Seq(Events) /\ Len(l \o ran) = run + cnt
      /\ \A i \in 1 .. run + cnt : (l \o ran)[i] = all[i]
  <2>. HIDE DEF cnt
  <2>1. l \o ran \in Seq(Events) /\ Len(l \o ran) = run + cnt
    <3>1. l \in Seq(Events)  BY <1>6
    <3>2. ran \in Seq(Events)  BY <1>5
    <3>3. l \o ran \in Seq(Events) /\ Len(l \o ran) = Len(l) + Len(ran)  BY ONLY <3>1, <3>2
    <3>. QED  BY <1>5, <1>6, <3>3
  <2>2. ASSUME NEW i \in 1 .. run + cnt PROVE (l \o ran)[i] = all[i]
    <3>1. CASE i \in 1 .. run  BY <1>3, <1>5, <1>6, <3>1
    <3>2. CASE i \notin 1 .. run
      <4>1. i - run \in 1 .. cnt /\ run + (i - run) = i  BY <1>3, <3>2
      <4>2. i \in 1 .. Len(l) + Len(ran) /\ ~(i <= Len(l)) /\ i - Len(l) = i - run
        BY <1>3, <1>5, <1>6, <3>2
      <4>3. (l \o ran)[i] = ran[i - Len(l)]  BY ONLY <1>5, <1>6, <4>2
      <4>. QED  BY <1>4, <4>1, <4>2, <4>3
    <3>. QED  BY <3>1, <3>2
  <2>. QED  BY <2>1, <2>2
<1>9. l \o ran = Prefix(all, run + cnt)
  <2>1. PICK m \in Nat : m = run + cnt  BY <1>3
  <2>2. PICK a \in Seq(Events) : a = l \o ran  BY <1>8
  <2>3. PICK b \in Seq(Events) : b = Prefix(all, run + cnt)  BY <1>7
  <2>4. Len(a) = m /\ Len(b) = m /\ \A i \in 1 .. m : a[i] = b[i]
    <3>. HIDE DEF cnt
    <3>. QED  BY <1>7, <1>8, <2>1, <2>2, <2>3
  <2>5. a = b  BY ONLY <2>4, a \in Seq(Events), b \in Seq(Events), m \in Nat
  <2>. QED  BY <2>2, <2>3, <2>5
<1>10. ASSUME NEW e, InPlace(e, all, run, first, next), e.seq_no \in Nat, e.seq_no >= n
       PROVE  InPlace(e, all, run + cnt, n, next)
  <2>1. run + cnt + 1 + (e.seq_no - n) = run + 1 + (e.seq_no - first)
    <3>1. PICK k \in Nat : k = e.seq_no  BY <1>10
    <3>2. run + cnt + 1 + (k - n) = run + 1 + (k - first)  BY <1>1
    <3>. QED  BY <3>1, <3>2
  <2>2. e.seq_no \in n .. next - 1  BY <1>10 DEF InPlace
  <2>. QED  BY <1>10, <2>1, <2>2 DEF InPlace
<1>11. \A e \in kept : e.seq_no \in Nat  BY <1>1 DEF Spread, InPlace
<1>12. \A e \in stay : e \in kept /\ e.seq_no > n  BY DEF Runs
<1>13. \A e \in stay : InPlace(e, all, run + cnt, n, next)
  BY <1>10, <1>11, <1>12 DEF Spread
<1>14. ASSUME NEW c \in Clients, NEW i \in 1 .. Len(cells[c])
       PROVE  InPlace(cells[c][i], all, run + cnt, n, next)
  <2>1. InPlace(cells[c][i], all, run, first, next) /\ \A e \in kept : e.seq_no # cells[c][i].seq_no
    BY DEF Spread
  <2>2. cells[c][i].seq_no \in first .. next - 1  BY <2>1 DEF InPlace
  <2>3. cells[c][i].seq_no \notin first .. n - 1  BY <2>1 DEF Runs
  <2>4. PICK k \in first .. next - 1 : k = cells[c][i].seq_no  BY <2>2
  <2>5. k \in Nat /\ k >= n  BY <1>1, <2>3, <2>4
  <2>. QED  BY <1>10, <2>1, <2>4, <2>5
<1>15. Len(all) = run + cnt + (next - n) /\ n \in 1 .. next /\ run + cnt \in Nat  BY <1>1, <1>2
<1>16. Spread(all, run + cnt, n, next, stay, cells)
  <2>. HIDE DEF cnt
  <2>. QED  BY <1>12, <1>13, <1>14, <1>15 DEF Spread
<1>. QED  BY <1>8, <1>9, <1>16 DEF Extended

(* A client hands its first event to the log.                                 *)
LEMMA SpreadSend ==
  ASSUME NEW all, NEW run, NEW first, NEW next, NEW kept, NEW cells,
         Spread(all, run, first, next, kept, cells),
         NEW c \in Clients, cells[c] # << >>,
         NEW new, new = [cells EXCEPT ![c] = Tail(@)]
  PROVE  Spread(all, run, first, next, kept \cup {Head(cells[c])}, new)
<1>1. cells \in [Clients -> Seq(Events)]  BY DEF Spread
<1>2. /\ cells[c] \in Seq(Events) /\ Len(cells[c]) \in Nat /\ 1 \in 1 .. Len(cells[c])
      /\ Head(cells[c]) = cells[c][1]
  BY <1>1
<1>3. /\ new \in [Clients -> Seq(Events)] /\ new[c] = Tail(cells[c])
      /\ \A d \in Clients : d # c => new[d] = cells[d]
  BY <1>1, <1>2
<1>4. /\ Len(Tail(cells[c])) = Len(cells[c]) - 1
      /\ \A i \in 1 .. Len(cells[c]) - 1 : Tail(cells[c])[i] = cells[c][i + 1]
  BY <1>2
<1> DEFINE shift(d) == IF d = c THEN 1 ELSE 0
<1>5. \A d \in Clients : \A i \in 1 .. Len(new[d]) :
        i + shift(d) \in 1 .. Len(cells[d]) /\ new[d][i] = cells[d][i + shift(d)] /\ (d = c => i + shift(d) # 1)
  <2> SUFFICES ASSUME NEW d \in Clients, NEW i \in 1 .. Len(new[d])
               PROVE  /\ i + shift(d) \in 1 .. Len(cells[d]) /\ new[d][i] = cells[d][i + shift(d)]
                      /\ d = c => i + shift(d) # 1
    OBVIOUS
  <2>1. CASE d = c  BY <1>2, <1>3, <1>4, <2>1
  <2>2. CASE d # c
    <3>1. i + 0 = i  OBVIOUS
    <3>. QED  BY <1>3, <2>2, <3>1
  <2>. QED  BY <2>1, <2>2
<1>. HIDE DEF shift
<1>6. \A e \in kept \cup {Head(cells[c])} : InPlace(e, all, run, first, next)
  BY <1>2 DEF Spread
<1>7. ASSUME NEW d \in Clients, NEW i \in 1 .. Len(new[d])
      PROVE  /\ InPlace(new[d][i], all, run, first, next)
             /\ \A e \in kept \cup {Head(cells[c])} : e.seq_no # new[d][i].seq_no
             /\ \A b \in Clients : \A j \in 1 .. Len(new[b]) :
                  new[d][i].seq_no = new[b][j].seq_no => d = b /\ i = j
  <2>1. i + shift(d) \in 1 .. Len(cells[d]) /\ new[d][i] = cells[d][i + shift(d)]
    BY <1>5
  <2>2. InPlace(new[d][i], all, run, first, next) /\ \A e \in kept : e.seq_no # new[d][i].seq_no
    BY <2>1 DEF Spread
  <2>3. cells[c][1].seq_no # new[d][i].seq_no
    BY <1>2, <1>5, <2>1 DEF Spread
  <2>4. ASSUME NEW b \in Clients, NEW j \in 1 .. Len(new[b]), new[d][i].seq_no = new[b][j].seq_no
        PROVE  d = b /\ i = j
    <3>1. j + shift(b) \in 1 .. Len(cells[b]) /\ new[b][j] = cells[b][j + shift(b)]
      BY <1>5
    <3>2. d = b /\ i + shift(d) = j + shift(b)  BY <2>1, <2>4, <3>1 DEF Spread
    <3>3. i \in Nat /\ j \in Nat /\ shift(d) \in Nat  BY DEF shift
    <3>. QED  BY <3>2, <3>3
  <2>. QED  BY <1>2, <2>2, <2>3, <2>4
<1>. QED  BY <1>3, <1>6, <1>7 DEF Spread

(* New events, numbered from next on, go to a client that has none, or to the *)
(* log at once.                                                              *)
Numbered(ev, next) == \A i \in 1 .. Len(ev) : ev[i].seq_no = next + i - 1

LEMMA PlaceOf ==
  ASSUME NEW e, NEW all, NEW run, NEW first, NEW next, NEW k \in first .. next - 1,
         e.seq_no = k, e = all[run + 1 + (k - first)]
  PROVE  InPlace(e, all, run, first, next)
  BY Zenon DEF InPlace

LEMMA NewInPlace ==
  ASSUME NEW all \in Seq(Events), NEW run \in Nat, NEW next \in Nat, NEW first \in 1 .. next,
         Len(all) = run + (next - first),
         NEW ev \in Seq(Events), Numbered(ev, next)
  PROVE  /\ \A e : InPlace(e, all, run, first, next) => InPlace(e, all \o ev, run, first, next + Len(ev))
         /\ \A i \in 1 .. Len(ev) : InPlace(ev[i], all \o ev, run, first, next + Len(ev))
         /\ all \o ev \in Seq(Events) /\ Len(all \o ev) = run + (next + Len(ev) - first)
<1>1. Len(ev) \in Nat /\ Len(all) \in Nat  OBVIOUS
<1>2. ASSUME NEW e, InPlace(e, all, run, first, next)
      PROVE  InPlace(e, all \o ev, run, first, next + Len(ev))
  <2>1. PICK k \in first .. next - 1 : k = e.seq_no  BY <1>2 DEF InPlace
  <2>2. run + 1 + (k - first) \in 1 .. Len(all)  BY <2>1
  <2>3. (all \o ev)[run + 1 + (k - first)] = all[run + 1 + (k - first)]  BY <2>2
  <2>4. k \in first .. next + Len(ev) - 1  BY <1>1, <2>1
  <2>5. e = all[run + 1 + (k - first)]  BY <1>2, <2>1 DEF InPlace
  <2>6. e = (all \o ev)[run + 1 + (k - first)]  BY <2>3, <2>5
  <2>7. PICK al, top : al = all \o ev /\ top = next + Len(ev)  OBVIOUS
  <2>8. k \in first .. top - 1  BY <2>4, <2>7
  <2>a. e = al[run + 1 + (k - first)]  BY ONLY <2>6, <2>7
  <2>9. InPlace(e, al, run, first, top)  BY ONLY <2>1, <2>8, <2>a, PlaceOf
  <2>. QED  BY <2>7, <2>9
<1>3. ASSUME NEW i \in 1 .. Len(ev) PROVE InPlace(ev[i], all \o ev, run, first, next + Len(ev))
  <2>1. ev[i].seq_no = next + i - 1  BY DEF Numbered
  <2>2. run + 1 + ((next + i - 1) - first) = Len(all) + i  BY <1>1
  <2>3. (all \o ev)[Len(all) + i] = ev[i]  BY <1>1
  <2>4. next + i - 1 \in first .. next + Len(ev) - 1  BY <1>1
  <2>5. ev[i] = (all \o ev)[run + 1 + ((next + i - 1) - first)]  BY <2>2, <2>3
  <2>6. PICK al, top : al = all \o ev /\ top = next + Len(ev)  OBVIOUS
  <2>7. PICK f, k : f = ev[i] /\ k = next + i - 1  OBVIOUS
  <2>8. k \in first .. top - 1 /\ f.seq_no = k /\ f = al[run + 1 + (k - first)]
    BY <2>1, <2>4, <2>5, <2>6, <2>7
  <2>9. InPlace(f, al, run, first, top)  BY ONLY <2>8, PlaceOf
  <2>. QED  BY <2>6, <2>7, <2>9
<1>4. all \o ev \in Seq(Events) /\ Len(all \o ev) = run + (next + Len(ev) - first)  BY <1>1
<1>. QED  BY <1>2, <1>3, <1>4

LEMMA SpreadNew ==
  ASSUME NEW all \in Seq(Events), NEW run, NEW first, NEW next, NEW kept, NEW cells,
         Spread(all, run, first, next, kept, cells),
         NEW ev \in Seq(Events), Numbered(ev, next)
  PROVE  /\ \A c \in Clients : cells[c] = << >> =>
              Spread(all \o ev, run, first, next + Len(ev), kept, [cells EXCEPT ![c] = ev])
         /\ Spread(all \o ev, run, first, next + Len(ev), kept \cup {ev[i] : i \in 1 .. Len(ev)}, cells)
<1>1. /\ next \in Nat /\ first \in 1 .. next /\ run \in Nat /\ Len(all) = run + (next - first)
      /\ cells \in [Clients -> Seq(Events)] /\ Len(ev) \in Nat
  BY DEF Spread
<1> DEFINE al == all \o ev
           nx == next + Len(ev)
<1>2. /\ \A e : InPlace(e, all, run, first, next) => InPlace(e, al, run, first, nx)
      /\ \A i \in 1 .. Len(ev) : InPlace(ev[i], al, run, first, nx)
      /\ Len(al) = run + (nx - first)
  BY <1>1, NewInPlace
<1>3. \A i \in 1 .. Len(ev) : ev[i].seq_no = next + i - 1 /\ ev[i].seq_no >= next
  BY <1>1 DEF Numbered
<1>4. \A e : InPlace(e, all, run, first, next) => \A i \in 1 .. Len(ev) : e.seq_no # ev[i].seq_no
  <2> SUFFICES ASSUME NEW e, InPlace(e, all, run, first, next), NEW i \in 1 .. Len(ev) PROVE e.seq_no # ev[i].seq_no
    OBVIOUS
  <2>1. e.seq_no \in first .. next - 1  BY DEF InPlace
  <2>2. PICK k \in first .. next - 1 : k = e.seq_no  BY <2>1
  <2>3. k # next + i - 1  BY <1>1
  <2>. QED  BY <1>3, <2>2, <2>3
<1>5. first \in 1 .. nx /\ nx \in Nat  BY <1>1
<1>6. \A i, j \in 1 .. Len(ev) : ev[i].seq_no = ev[j].seq_no => i = j  BY <1>1, <1>3
<1>. HIDE DEF al, nx
<1>7. ASSUME NEW c \in Clients, cells[c] = << >>, NEW new, new = [cells EXCEPT ![c] = ev]
      PROVE  Spread(al, run, first, nx, kept, new)
  <2>1. /\ new \in [Clients -> Seq(Events)] /\ new[c] = ev
        /\ \A d \in Clients : d # c => new[d] = cells[d]
    BY <1>1, <1>7
  <2>2. \A e \in kept : InPlace(e, al, run, first, nx)  BY <1>2 DEF Spread
  <2>3. ASSUME NEW d \in Clients, NEW i \in 1 .. Len(new[d])
        PROVE  /\ InPlace(new[d][i], al, run, first, nx)
               /\ \A e \in kept : e.seq_no # new[d][i].seq_no
               /\ \A b \in Clients : \A j \in 1 .. Len(new[b]) :
                    new[d][i].seq_no = new[b][j].seq_no => d = b /\ i = j
    <3>1. CASE d = c
      <4>1. i \in 1 .. Len(ev) /\ new[d][i] = ev[i]  BY <2>1, <3>1
      <4>2. InPlace(ev[i], al, run, first, nx) /\ \A e \in kept : e.seq_no # ev[i].seq_no
        BY <1>2, <1>4, <4>1 DEF Spread
      <4>3. ASSUME NEW b \in Clients, NEW j \in 1 .. Len(new[b]), new[d][i].seq_no = new[b][j].seq_no
            PROVE  d = b /\ i = j
        <5>1. CASE b = c  BY <1>6, <2>1, <3>1, <4>1, <4>3, <5>1
        <5>2. CASE b # c
          <6>1. new[b] = cells[b]  BY <2>1, <5>2
          <6>2. InPlace(cells[b][j], all, run, first, next)  BY <4>3, <6>1 DEF Spread
          <6>. QED  BY <1>4, <4>1, <4>3, <6>1, <6>2
        <5>. QED  BY <5>1, <5>2
      <4>. QED  BY <4>1, <4>2, <4>3
    <3>2. CASE d # c
      <4>1. new[d] = cells[d]  BY <2>1, <3>2
      <4>2. InPlace(cells[d][i], all, run, first, next) /\ \A e \in kept : e.seq_no # cells[d][i].seq_no
        BY <4>1 DEF Spread
      <4>3. ASSUME NEW b \in Clients, NEW j \in 1 .. Len(new[b]), new[d][i].seq_no = new[b][j].seq_no
            PROVE  d = b /\ i = j
        <5>1. CASE b = c
          <6>1. j \in 1 .. Len(ev) /\ new[b][j] = ev[j]  BY <2>1, <4>3, <5>1
          <6>. QED  BY <1>4, <4>1, <4>2, <4>3, <6>1
        <5>2. CASE b # c
          <6>1. new[b] = cells[b]  BY <2>1, <5>2
          <6>. QED  BY <4>1, <4>3, <6>1 DEF Spread
        <5>. QED  BY <5>1, <5>2
      <4>. QED  BY <1>2, <4>1, <4>2, <4>3
    <3>. QED  BY <3>1, <3>2
  <2>. QED  BY <1>1, <1>2, <1>5, <2>1, <2>2, <2>3 DEF Spread
<1>8. ASSUME NEW new, new = kept \cup {ev[i] : i \in 1 .. Len(ev)}
      PROVE  Spread(al, run, first, nx, new, cells)
  <2>1. \A e \in new : e \in kept \/ \E i \in 1 .. Len(ev) : e = ev[i]  BY <1>8
  <2>2. \A e \in new : InPlace(e, al, run, first, nx)  BY <1>2, <2>1 DEF Spread
  <2>3. ASSUME NEW c \in Clients, NEW i \in 1 .. Len(cells[c])
        PROVE  InPlace(cells[c][i], al, run, first, nx) /\ \A e \in new : e.seq_no # cells[c][i].seq_no
    <3>1. InPlace(cells[c][i], all, run, first, next) /\ \A e \in kept : e.seq_no # cells[c][i].seq_no
      BY DEF Spread
    <3>. QED  BY <1>2, <1>4, <2>1, <3>1
  <2>. QED  BY <1>1, <1>2, <1>5, <2>2, <2>3 DEF Spread
<1>. QED  BY <1>7, <1>8 DEF al, nx

LEMMA SpreadNothing ==
  ASSUME NEW all \in Seq(Events), NEW next \in Nat, next >= 1
  PROVE  Spread(all, Len(all), next, next, {}, [c \in Clients |-> << >>])
  BY DEF Spread
-------------------------------------------------------------------------------
(* IInv is inductive                                                         *)

LEMMA InitExplained == Init => IInv
<1> SUFFICES ASSUME Init PROVE IInv
  OBVIOUS
<1>1. /\ map = << >> /\ past = << << >> >> /\ last_event_id = 1 /\ log = << >> /\ begin = 1 /\ early = {}
      /\ pending = [c \in Clients |-> << >>] /\ durable_events = 0 /\ crashes = 0
  BY DEF Init
<1>2. Story(<< >>, map, past, last_event_id)  BY <1>1, StoryBegins
<1>3. << >> \in Seq(Events) /\ Len(<< >>) = 0  OBVIOUS
<1>4. Spread(<< >>, Len(<< >>), 1, 1, {}, [c \in Clients |-> << >>])
  <2>1. PICK all \in Seq(Events) : all = << >>  BY <1>3
  <2>2. Spread(all, Len(all), 1, 1, {}, [c \in Clients |-> << >>])  BY SpreadNothing
  <2>. QED  BY <2>1, <2>2
<1>5. << >> = Prefix(<< >>, 0)  BY DEF Prefix
<1>6. Explained(<< >>)  BY <1>1, <1>2, <1>3, <1>4, <1>5 DEF Explained
<1>7. Bounded  BY <1>1, <1>3, BinlogKeyValueAssumption DEF Bounded
<1>. QED  BY <1>6, <1>7 DEF IInv

(* What follows from the explanation of a state.                              *)
LEMMA ExplainedFacts ==
  ASSUME NEW all, Explained(all)
  PROVE  /\ all \in Seq(Events) /\ Len(all) \in Nat
         /\ log \in Seq(Events) /\ Len(log) \in 0 .. Len(all)
         /\ \A n \in 0 .. Len(log) : Prefix(log, n) = Prefix(all, n)
         /\ \A tail \in Seq(Events) : log = Prefix(all \o tail, Len(log))
<1>1. all \in Seq(Events) /\ Len(all) \in Nat  BY DEF Explained, Story
<1>2. Len(log) \in 0 .. Len(all)
  <2>1. /\ last_event_id \in Nat /\ begin \in 1 .. last_event_id /\ Len(log) \in Nat
        /\ Len(all) = Len(log) + (last_event_id - begin)
    BY DEF Explained, Spread
  <2>. QED  BY <2>1
<1>3. PICK len \in 0 .. Len(all) : len = Len(log)  BY <1>2
<1>4. log = Prefix(all, len)  BY <1>3 DEF Explained
<1>5. \A n \in 0 .. len : Prefix(Prefix(all, len), n) = Prefix(all, n)  BY <1>1, PrefixFacts
<1>6. Prefix(all, len) \in Seq(Events)  BY <1>1, PrefixFacts
<1>7. \A tail \in Seq(Events) : Prefix(all \o tail, len) = Prefix(all, len)  BY <1>1, PrefixFacts
<1>. QED  BY <1>1, <1>2, <1>3, <1>4, <1>5, <1>6, <1>7

LEMMA SetExplained ==
  ASSUME IInv, NEW c \in Clients, NEW k \in Keys, NEW v \in Values, Set(c, k, v)
  PROVE  IInv'
<1>1. PICK all : Explained(all)  BY DEF IInv
<1> DEFINE e == SetEvent(map, k, v, last_event_id)
           q == SetMap(map, k, v, SetId(map, k, last_event_id))
           x == Index(all)
<1>2. /\ all \in Seq(Events) /\ Story(all, map, past, last_event_id)
      /\ Spread(all, Len(log), begin, last_event_id, early, pending)
  BY <1>1, ExplainedFacts DEF Explained
<1>3. /\ pending[c] = << >> /\ last_event_id + 1 <= MaxSeqNo + 1 /\ last_event_id' = last_event_id + 1
      /\ map' = q /\ pending' = [pending EXCEPT ![c] = <<e>>] /\ past' = Append(past, Table(q))
      /\ UNCHANGED <<early, begin, log, durable_events, crashes>>
  BY DEF Set, NextEventId, SetEvent, SetMap, SetId
<1>4. /\ last_event_id \in SeqNos /\ last_event_id + 1 \in 1 .. MaxSeqNo + 1 /\ last_event_id \in Nat
  BY <1>2, <1>3, BinlogKeyValueAssumption DEF Story, SeqNos
<1>5. MapOK(map) /\ Agrees(x, map) /\ x.last < last_event_id  BY <1>2 DEF Story
<1>. HIDE DEF x
<1>6. /\ e \in Events /\ MapOK(q) /\ Agrees(Indexed(x, e), q) /\ Indexed(x, e).last <= last_event_id
  BY <1>4, <1>5, SetAgrees
<1>7. e.seq_no = last_event_id  BY DEF SetEvent, Event
<1>. HIDE DEF e, q
<1>8. Indexed(x, e).last < last_event_id + 1
  <2>1. Indexed(x, e).last \in Nat  BY <1>6 DEF Agrees
  <2>. QED  BY <1>4, <1>6, <2>1
<1>9. Story(Append(all, e), q, Append(past, Table(q)), last_event_id + 1)
  BY <1>2, <1>4, <1>6, <1>8, StoryAppend DEF x
<1>10. /\ <<e>> \in Seq(Events) /\ Len(<<e>>) = 1 /\ all \o <<e>> = Append(all, e)
       /\ \A i \in 1 .. 1 : <<e>>[i] = e /\ last_event_id + i - 1 = last_event_id
  BY <1>2, <1>4, <1>6
<1>11. Numbered(<<e>>, last_event_id)  BY <1>7, <1>10 DEF Numbered
<1>12. Spread(all \o <<e>>, Len(log), begin, last_event_id + Len(<<e>>), early, [pending EXCEPT ![c] = <<e>>])
  BY <1>2, <1>3, <1>10, <1>11, SpreadNew
<1>13. log = Prefix(all \o <<e>>, Len(log))  BY <1>1, <1>10, ExplainedFacts
<1>a. Spread(Append(all, e), Len(log), begin, last_event_id + 1, early, [pending EXCEPT ![c] = <<e>>])
  BY <1>10, <1>12
<1>b. log = Prefix(Append(all, e), Len(log))  BY <1>10, <1>13
<1>c. PICK al : al = Append(all, e)  OBVIOUS
<1>14. Explained(al)'
  <2>1. Story(al, map', past', last_event_id')  BY <1>3, <1>9, <1>c
  <2>2. Spread(al, Len(log'), begin', last_event_id', early', pending')  BY <1>3, <1>a, <1>c
  <2>3. log' = Prefix(al, Len(log'))  BY <1>3, <1>b, <1>c
  <2>. QED  BY <2>1, <2>2, <2>3 DEF Explained
<1>15. Bounded'  BY <1>3 DEF IInv, Bounded
<1>. QED  BY <1>14, <1>15 DEF IInv

(* The keys that are erased, in the order of their events.                     *)
LEMMA KeysAreDifferent ==
  ASSUME NEW m, MapOK(m), NEW set, NEW keys \in SetToSeqs(set \cap DOMAIN m)
  PROVE  DifferentKeys(m, keys)
<1>1. IsFiniteSet(set \cap DOMAIN m)  BY FS_Subset DEF MapOK
<1>2. PICK n \in Nat : n = Cardinality(set \cap DOMAIN m)  BY <1>1, FS_CardinalityType
<1>3. /\ keys \in [1 .. n -> set \cap DOMAIN m]
      /\ \A i, j \in 1 .. n : i # j => keys[i] # keys[j]
  BY <1>2 DEF SetToSeqs
<1>4. keys \in Seq(DOMAIN m) /\ Len(keys) = n
  BY ONLY <1>3, n \in Nat
<1>. QED  BY <1>3, <1>4 DEF DifferentKeys

LEMMA EraseKeysExplained ==
  ASSUME NEW all, Explained(all), NEW keys, DifferentKeys(map, keys), EraseKeys(keys),
         NEW ev, ev = EraseEvents(keys)
  PROVE  /\ ev \in Seq(Events) /\ Len(ev) = Len(keys) /\ Numbered(ev, last_event_id)
         /\ last_event_id' = last_event_id + Len(ev)
         /\ Story(all \o ev, map', past', last_event_id')
<1> DEFINE n == Len(keys)
<1>1. /\ Story(all, map, past, last_event_id) /\ all \in Seq(Events) /\ last_event_id \in Nat /\ MapOK(map)
      /\ keys \in Seq(DOMAIN map) /\ n \in Nat /\ DOMAIN keys = 1 .. n /\ MaxSeqNo \in Nat
  BY BinlogKeyValueAssumption DEF Explained, Story, DifferentKeys
<1>2. last_event_id + n <= MaxSeqNo + 1 /\ last_event_id' = last_event_id + n
  BY DEF EraseKeys, NextEventId
<1>3. map' = ErasedMap(map, keys, n)
  <2>1. Range(keys) = {keys[i] : i \in 1 .. n}  BY <1>1 DEF Range
  <2>. QED  BY <2>1 DEF EraseKeys, ErasedMap
<1>4. past' = past \o ErasedTables(map, keys, n)
  BY <1>1 DEF EraseKeys, ErasedTables, ErasedMap
<1>5. ev = ErasedEvents(map, keys, last_event_id, n)
  BY <1>1 DEF EraseEvents, ErasedEvents
<1>. HIDE DEF n
<1>6. Story(all \o ErasedEvents(map, keys, last_event_id, n), ErasedMap(map, keys, n),
            past \o ErasedTables(map, keys, n), last_event_id + n)
  BY <1>1, <1>2, StoryErase DEF n
<1>7. \A i \in 1 .. n : ev[i] = EraseEvent(last_event_id + i - 1, map[keys[i]].id)
  BY <1>5 DEF ErasedEvents
<1>8. \A i \in 1 .. n : ev[i] \in Events /\ ev[i].seq_no = last_event_id + i - 1
  <2> SUFFICES ASSUME NEW i \in 1 .. n PROVE ev[i] \in Events /\ ev[i].seq_no = last_event_id + i - 1
    OBVIOUS
  <2>1. keys[i] \in DOMAIN map  BY <1>1
  <2>2. map[keys[i]].id \in SeqNos  BY <1>1, <2>1 DEF MapOK
  <2>3. last_event_id + i - 1 \in SeqNos  BY <1>1, <1>2 DEF SeqNos, Explained, Story
  <2>4. PICK s \in SeqNos, d \in SeqNos : s = last_event_id + i - 1 /\ d = map[keys[i]].id  BY <2>2, <2>3
  <2>5. ev[i] = [seq_no |-> s, type |-> "erase", id |-> d, key |-> NoKey, value |-> NoKey]
    BY <1>7, <2>4 DEF EraseEvent, Event
  <2>. QED  BY ONLY <2>4, <2>5 DEF Events
<1>9. ev \in Seq(Events) /\ Len(ev) = n
  <2>1. ev \in [1 .. n -> Events]  BY <1>5, <1>8 DEF ErasedEvents
  <2>. QED  BY ONLY <1>1, <2>1
<1>. QED  BY <1>2, <1>3, <1>4, <1>5, <1>6, <1>8, <1>9 DEF n, Numbered

LEMMA EraseExplained ==
  ASSUME IInv, NEW c \in Clients, NEW matching, Erase(c, matching)
  PROVE  IInv'
<1>1. PICK all : Explained(all)  BY DEF IInv
<1>2. PICK keys \in SetToSeqs(matching \cap DOMAIN map) :
        /\ pending[c] = << >> /\ EraseKeys(keys)
        /\ pending' = [pending EXCEPT ![c] = EraseEvents(keys)]
        /\ UNCHANGED <<early, begin, log, durable_events, crashes>>
  BY DEF Erase
<1>3. /\ all \in Seq(Events) /\ MapOK(map) /\ Spread(all, Len(log), begin, last_event_id, early, pending)
  BY <1>1, ExplainedFacts DEF Explained, Story
<1>4. DifferentKeys(map, keys)  BY <1>3, KeysAreDifferent
<1>5. PICK ev : ev = EraseEvents(keys)  OBVIOUS
<1>6. /\ ev \in Seq(Events) /\ Numbered(ev, last_event_id) /\ last_event_id' = last_event_id + Len(ev)
      /\ Story(all \o ev, map', past', last_event_id')
  BY <1>1, <1>2, <1>4, <1>5, EraseKeysExplained
<1>7. Spread(all \o ev, Len(log), begin, last_event_id + Len(ev), early, [pending EXCEPT ![c] = ev])
  BY <1>2, <1>3, <1>6, SpreadNew
<1>8. log = Prefix(all \o ev, Len(log))  BY <1>1, <1>6, ExplainedFacts
<1>9. Explained(all \o ev)'  BY <1>2, <1>5, <1>6, <1>7, <1>8 DEF Explained
<1>10. Bounded'  BY <1>2 DEF IInv, Bounded
<1>. QED  BY <1>9, <1>10 DEF IInv

(* The log takes events that are in their place.                              *)
LEMMA DeliverExplained ==
  ASSUME NEW all \in Seq(Events), NEW next, NEW events, NEW cells,
         Spread(all, Len(log), begin, next, early \cup events, cells),
         log = Prefix(all, Len(log)), Deliver(events)
  PROVE  /\ log' = Prefix(all, Len(log')) /\ Spread(all, Len(log'), begin', next, early', cells)
         /\ Len(log') \in Nat /\ Len(log') >= Len(log)
<1> DEFINE known == early \cup events
<1>1. PICK n \in begin .. MaxSeqNo + 1 :
        /\ \A k \in begin .. n - 1 : \E e \in known : e.seq_no = k
        /\ \A e \in known : e.seq_no # n
        /\ log' = log \o [i \in 1 .. n - begin |-> CHOOSE e \in known : e.seq_no = begin + i - 1]
        /\ early' = {e \in known : e.seq_no > n}
        /\ begin' = n
  BY DEF Deliver
<1>2. begin \in Nat /\ Len(log) \in Nat  BY DEF Spread
<1>3. n \in Nat /\ begin <= n /\ Len(log) + (n - begin) \in Nat /\ Len(log) + (n - begin) >= Len(log)
  BY <1>1, <1>2, BinlogKeyValueAssumption
<1>b. PICK stay : stay = early'  OBVIOUS
<1>4. PICK ran : ran = [i \in 1 .. n - begin |-> CHOOSE e \in known : e.seq_no = begin + i - 1]
  OBVIOUS
<1>5. Runs(known, begin, n, ran, stay)  BY <1>1, <1>4, <1>b DEF Runs
<1>6. log' = log \o ran  BY <1>1, <1>4
<1>c. PICK run \in Nat, first \in Nat : run = Len(log) /\ first = begin  BY <1>2
<1>l. PICK l : l = log  OBVIOUS
<1>d. Spread(all, run, first, next, known, cells) /\ l = Prefix(all, run)  BY <1>c, <1>l
<1>. HIDE DEF known
<1>7. /\ l \o ran = Prefix(all, run + (n - first)) /\ Len(l \o ran) = run + (n - first)
      /\ Spread(all, run + (n - first), n, next, stay, cells)
  <2>1. first <= n /\ Runs(known, first, n, ran, stay)  BY <1>3, <1>5, <1>c
  <2>2. PICK kn : kn = known  OBVIOUS
  <2>3. Spread(all, run, first, next, kn, cells) /\ Runs(kn, first, n, ran, stay)
    BY <1>d, <2>1, <2>2
  <2>4. l = Prefix(all, run) /\ first <= n /\ n \in Nat  BY <1>d, <2>1, <1>3
  <2>5. Extended(all, l \o ran, run + (n - first), n, next, stay, cells)
    BY <2>3, <2>4, SpreadDeliver
  <2>. QED  BY <2>5 DEF Extended
<1>. QED  BY <1>1, <1>3, <1>6, <1>7, <1>b, <1>c, <1>l

LEMMA EraseBatchExplained ==
  ASSUME IInv, NEW c \in Clients, NEW batch, EraseBatch(c, batch)
  PROVE  IInv'
<1>1. PICK all : Explained(all)  BY DEF IInv
<1>2. PICK keys \in SetToSeqs(batch \cap DOMAIN map) :
        /\ EraseKeys(keys) /\ Deliver(Range(EraseEvents(keys)))
        /\ UNCHANGED <<pending, durable_events, crashes>>
  BY DEF EraseBatch
<1>3. /\ all \in Seq(Events) /\ MapOK(map) /\ Spread(all, Len(log), begin, last_event_id, early, pending)
      /\ last_event_id \in Nat
  BY <1>1, ExplainedFacts, BinlogKeyValueAssumption DEF Explained, Story
<1>4. DifferentKeys(map, keys)  BY <1>3, KeysAreDifferent
<1>5. PICK ev : ev = EraseEvents(keys)  OBVIOUS
<1>6. /\ ev \in Seq(Events) /\ Numbered(ev, last_event_id) /\ last_event_id' = last_event_id + Len(ev)
      /\ Story(all \o ev, map', past', last_event_id')
  BY <1>1, <1>2, <1>4, <1>5, EraseKeysExplained
<1>7. Range(ev) = {ev[i] : i \in 1 .. Len(ev)}  BY <1>6 DEF Range
<1>8. Spread(all \o ev, Len(log), begin, last_event_id', early \cup Range(ev), pending)
  BY <1>3, <1>6, <1>7, SpreadNew
<1>9. log = Prefix(all \o ev, Len(log))  BY <1>1, <1>6, ExplainedFacts
<1>10. all \o ev \in Seq(Events)  BY <1>3, <1>6
<1>11. /\ log' = Prefix(all \o ev, Len(log'))
       /\ Spread(all \o ev, Len(log'), begin', last_event_id', early', pending)
       /\ Len(log') \in Nat /\ Len(log') >= Len(log)
  BY <1>1, <1>2, <1>5, <1>8, <1>9, <1>10, DeliverExplained
<1>12. Explained(all \o ev)'  BY <1>2, <1>6, <1>11 DEF Explained
<1>13. Bounded'  BY <1>2, <1>11 DEF IInv, Bounded
<1>. QED  BY <1>12, <1>13 DEF IInv

LEMMA SendExplained ==
  ASSUME IInv, NEW c \in Clients, Send(c)
  PROVE  IInv'
<1>1. PICK all : Explained(all)  BY DEF IInv
<1>2. /\ pending[c] # << >> /\ pending' = [pending EXCEPT ![c] = Tail(@)]
      /\ Deliver({Head(pending[c])})
      /\ UNCHANGED <<map, last_event_id, durable_events, past, crashes>>
  BY DEF Send
<1>3. /\ all \in Seq(Events) /\ Spread(all, Len(log), begin, last_event_id, early, pending)
      /\ log = Prefix(all, Len(log)) /\ Story(all, map, past, last_event_id)
  BY <1>1, ExplainedFacts DEF Explained
<1>4. Spread(all, Len(log), begin, last_event_id, early \cup {Head(pending[c])}, pending')
  BY <1>2, <1>3, SpreadSend
<1>5. /\ log' = Prefix(all, Len(log')) /\ Spread(all, Len(log'), begin', last_event_id, early', pending')
      /\ Len(log') \in Nat /\ Len(log') >= Len(log)
  BY <1>2, <1>3, <1>4, DeliverExplained
<1>6. Explained(all)'  BY <1>2, <1>3, <1>5 DEF Explained
<1>7. Bounded'  BY <1>2, <1>5 DEF IInv, Bounded
<1>. QED  BY <1>6, <1>7 DEF IInv
LEMMA SyncExplained == IInv /\ Sync => IInv'
<1> SUFFICES ASSUME IInv, Sync PROVE IInv'
  OBVIOUS
<1>1. PICK all : Explained(all)  BY DEF IInv
<1>2. Len(log) \in Nat  BY <1>1, ExplainedFacts
<1>3. /\ durable_events' = Len(log)
      /\ UNCHANGED <<map, last_event_id, pending, early, begin, log, past, crashes>>
  BY DEF Sync
<1>4. Explained(all)'  BY <1>1, <1>3 DEF Explained
<1>5. Bounded'  BY <1>2, <1>3 DEF IInv, Bounded
<1>. QED  BY <1>4, <1>5 DEF IInv

(* What a restart finds: the table that the n events left had made.           *)
LEMMA RestartFinds ==
  ASSUME NEW all, Explained(all), Bounded, Restart
  PROVE  \E n \in durable_events .. Len(log) :
           /\ n \in 0 .. Len(all) /\ n \in 0 .. Len(log)
           /\ log' = Prefix(all, n) /\ Len(log') = n /\ log' \in Seq(Events)
           /\ past' = SubSeq(past, 1, n + 1)
           /\ Story(log', map', past', last_event_id') /\ begin' = last_event_id'
<1>1. PICK n \in durable_events .. Len(log) :
        /\ log' = SubSeq(log, 1, n) /\ map' = Loads(n)
        /\ past' = Append(SubSeq(past, 1, n), Table(map'))
        /\ last_event_id' = Index(SubSeq(log, 1, n)).last + 1 /\ begin' = last_event_id'
  BY DEF Restart
<1>2. n \in 0 .. Len(log) /\ n \in 0 .. Len(all)  BY <1>1, ExplainedFacts DEF Bounded
<1>3. all \in Seq(Events) /\ Story(all, map, past, last_event_id)  BY ExplainedFacts DEF Explained
<1>4. PICK x : x = Index(Prefix(all, n))  OBVIOUS
<1>5. PICK q : q = LoadedMap(x)  OBVIOUS
<1>6. Prefix(log, n) = Prefix(all, n)  BY <1>2, ExplainedFacts
<1>7. log' = Prefix(all, n) /\ map' = q /\ last_event_id' = x.last + 1
  BY <1>1, <1>4, <1>5, <1>6 DEF Loads, Prefix
<1>8. /\ Append(SubSeq(past, 1, n), Table(q)) = SubSeq(past, 1, n + 1)
      /\ Story(Prefix(all, n), q, SubSeq(past, 1, n + 1), x.last + 1)
  BY <1>2, <1>3, <1>4, <1>5, StoryPrefix
<1>9. past' = SubSeq(past, 1, n + 1)  BY <1>1, <1>7, <1>8
<1>10. Prefix(all, n) \in Seq(Events) /\ Len(Prefix(all, n)) = n  BY <1>2, <1>3, PrefixFacts
<1>. QED  BY <1>1, <1>2, <1>7, <1>8, <1>9, <1>10

LEMMA RestartExplained == IInv /\ Restart => IInv'
<1> SUFFICES ASSUME IInv, Restart PROVE IInv'
  OBVIOUS
<1>1. PICK all : Explained(all)  BY DEF IInv
<1>2. PICK n \in durable_events .. Len(log) :
        /\ n \in 0 .. Len(all) /\ n \in 0 .. Len(log)
        /\ log' = Prefix(all, n) /\ Len(log') = n /\ log' \in Seq(Events)
        /\ Story(log', map', past', last_event_id') /\ begin' = last_event_id'
  BY <1>1, RestartFinds DEF IInv
<1>3. /\ pending' = [c \in Clients |-> << >>] /\ early' = {} /\ durable_events' = durable_events
      /\ crashes < MaxCrashes /\ crashes' = crashes + 1
  BY DEF Restart
<1>4. PICK al \in Seq(Events) : al = log'  BY <1>2
<1>5. PICK next \in Nat : next = last_event_id' /\ next >= 1  BY <1>2, BinlogKeyValueAssumption DEF Story
<1>6. Spread(al, Len(al), next, next, {}, [c \in Clients |-> << >>])  BY <1>5, SpreadNothing
<1>7. al = Prefix(al, Len(al))  BY PrefixFacts
<1>8. Explained(al)'
  <2>1. Story(al, map', past', last_event_id')  BY <1>2, <1>4
  <2>2. Spread(al, Len(log'), begin', last_event_id', early', pending')
    BY <1>2, <1>3, <1>4, <1>5, <1>6
  <2>3. log' = Prefix(al, Len(log'))  BY <1>4, <1>7
  <2>. QED  BY <2>1, <2>2, <2>3 DEF Explained
<1>9. Bounded'
  <2>1. durable_events \in 0 .. n  BY <1>2 DEF IInv, Bounded
  <2>2. crashes + 1 \in 0 .. MaxCrashes
    BY <1>3, BinlogKeyValueAssumption DEF IInv, Bounded
  <2>. QED  BY <1>2, <1>3, <2>1, <2>2 DEF Bounded
<1>. QED  BY <1>8, <1>9 DEF IInv

LEMMA NextExplained == IInv /\ [Next]_vars => IInv'
<1> SUFFICES ASSUME IInv, [Next]_vars PROVE IInv'
  OBVIOUS
<1>1. ASSUME NEW c \in Clients, NEW k \in Keys, NEW v \in Values, Set(c, k, v) PROVE IInv'
  BY <1>1, SetExplained
<1>2. ASSUME NEW c \in Clients, NEW k \in Keys, Erase(c, {k}) PROVE IInv'
  BY <1>2, EraseExplained
<1>3. ASSUME NEW c \in Clients, NEW p \in KeyPrefixes, Erase(c, p) PROVE IInv'
  BY <1>3, EraseExplained
<1>4. ASSUME NEW c \in Clients, NEW batch \in SUBSET Keys, EraseBatch(c, batch) PROVE IInv'
  BY <1>4, EraseBatchExplained
<1>5. ASSUME NEW c \in Clients, Send(c) PROVE IInv'
  BY <1>5, SendExplained
<1>6. CASE Sync  BY <1>6, SyncExplained
<1>7. CASE Restart  BY <1>7, RestartExplained
<1>8. CASE UNCHANGED vars
  <2>1. PICK all : Explained(all)  BY DEF IInv
  <2>2. Explained(all)'  BY <1>8, <2>1 DEF Explained, vars
  <2>3. Bounded'  BY <1>8 DEF IInv, Bounded, vars
  <2>. QED  BY <2>2, <2>3 DEF IInv
<1>. QED  BY <1>1, <1>2, <1>3, <1>4, <1>5, <1>6, <1>7, <1>8 DEF Next

LEMMA AlwaysExplained == Spec => []IInv
  BY InitExplained, NextExplained, PTL DEF Spec

-------------------------------------------------------------------------------
(* The state of a key-value store is of the type its fields have              *)
(* (BinlogKeyValue.h:279-282).                                               *)
THEOREM TypeCorrect == Spec => []TypeOK
<1>1. IInv => TypeOK
  <2> SUFFICES ASSUME IInv PROVE TypeOK
    OBVIOUS
  <2>1. PICK all : Explained(all)  BY DEF IInv
  <2>2. /\ all \in Seq(Events) /\ Story(all, map, past, last_event_id) /\ log \in Seq(Events)
        /\ Spread(all, Len(log), begin, last_event_id, early, pending) /\ Len(log) \in 0 .. Len(all)
    BY <2>1, ExplainedFacts DEF Explained
  <2>3. /\ DOMAIN map \subseteq Keys /\ \A k \in DOMAIN map : map[k] \in [value : Values, id : SeqNos]
        /\ last_event_id \in 1 .. MaxSeqNo + 1 /\ past \in Seq(Tables)
    BY <2>2 DEF Story, MapOK
  <2>4. /\ begin \in 1 .. MaxSeqNo + 1 /\ pending \in [Clients -> Seq(Events)]
        /\ Len(all) = Len(log) + (last_event_id - begin) /\ Len(log) \in Nat
    BY <2>2, <2>3, BinlogKeyValueAssumption DEF Spread
  <2>5. early \subseteq Events
    <3> SUFFICES ASSUME NEW e \in early PROVE e \in Events
      OBVIOUS
    <3>1. e.seq_no \in begin .. last_event_id - 1 /\ e = all[Len(log) + 1 + (e.seq_no - begin)]
      BY <2>2 DEF Spread, InPlace
    <3>2. PICK k \in begin .. last_event_id - 1 : k = e.seq_no  BY <3>1
    <3>3. Len(log) + 1 + (k - begin) \in 1 .. Len(all)
      <4>1. last_event_id \in Nat /\ begin \in Nat  BY <2>3, <2>4, BinlogKeyValueAssumption
      <4>2. PICK len \in Nat, next \in Nat, first \in Nat :
              len = Len(log) /\ next = last_event_id /\ first = begin
        BY <2>4, <4>1
      <4>3. k \in first .. next - 1 /\ Len(all) = len + (next - first)  BY <2>4, <3>2, <4>2
      <4>4. len + 1 + (k - first) \in 1 .. len + (next - first)  BY <4>3
      <4>. QED  BY <4>2, <4>3, <4>4
    <3>. QED  BY <2>2, <3>1, <3>2, <3>3
  <2>. QED  BY <2>2, <2>3, <2>4, <2>5 DEF TypeOK, IInv, Bounded
<1>. QED  BY <1>1, AlwaysExplained, PTL

(* The events that have run, by number, go through the tables the map went    *)
(* through, and no event is refused (BinlogKeyValue.h:131-195 and 252-269).   *)
THEOREM LogGoesThroughTheTables == Spec => []LogFollowsMap
<1>1. IInv => LogFollowsMap
  <2> SUFFICES ASSUME IInv PROVE LogFollowsMap
    OBVIOUS
  <2>1. PICK all : Explained(all)  BY DEF IInv
  <2>2. Len(log) \in 0 .. Len(all) /\ Len(past) = Len(all) + 1 /\ Len(all) \in Nat
    BY <2>1, ExplainedFacts DEF Explained, Story
  <2>3. ASSUME NEW n \in 0 .. Len(log)
        PROVE  ~Index(SubSeq(log, 1, n)).error /\ Table(Loads(n)) = past[n + 1]
    <3>1. SubSeq(log, 1, n) = Prefix(all, n)  BY <2>1, ExplainedFacts DEF Prefix
    <3>2. n \in 0 .. Len(all)  BY <2>2
    <3>3. PICK q : MapOK(q) /\ Agrees(Index(Prefix(all, n)), q) /\ past[n + 1] = Table(q)
      BY <2>1, <3>2 DEF Explained, Story, Reached
    <3>4. Loads(n) = q  BY <3>1, <3>3, LoadedAgrees DEF Loads
    <3>5. PICK x : x = Index(Prefix(all, n))  OBVIOUS
    <3>6. ~x.error  BY <3>3, <3>5 DEF Agrees, NoError
    <3>. QED  BY <3>1, <3>3, <3>4, <3>5, <3>6
  <2>. QED  BY <2>2, <2>3 DEF LogFollowsMap
<1>. QED  BY <1>1, AlwaysExplained, PTL

LEMMA WithoutOK == ASSUME NEW m, MapOK(m), NEW S PROVE MapOK(Without(m, S))
<1> DEFINE q == Without(m, S)
<1>1. q = [j \in DOMAIN q |-> q[j]] /\ DOMAIN q = DOMAIN m \ S /\ \A j \in DOMAIN q : q[j] = m[j]
  BY DEF Without
<1>2. IsFiniteSet(DOMAIN q)  BY <1>1, FS_Subset DEF MapOK
<1>. HIDE DEF q
<1>3. MapOK(q)  BY <1>1, <1>2 DEF MapOK
<1>. QED  BY <1>3 DEF q

LEMMA ChangesPast ==
  ASSUME IInv, IInv', NEW tail, past' = past \o tail, tail \in Seq(Tables), Len(tail) >= 1,
         UNCHANGED durable_events
  PROVE  Promise!Change
<1>1. past \in Seq(Tables)  BY DEF IInv, Explained, Story
<1>2. past \o tail \in Seq(Tables) /\ Len(past \o tail) = Len(past) + Len(tail)
      /\ SubSeq(past \o tail, 1, Len(past)) = past
  BY <1>1
<1>3. \A n \in Len(past) + 1 .. Len(past \o tail) : (past \o tail)[n] \in Tables
  BY <1>1, <1>2
<1>4. Len(past) + Len(tail) > Len(past)  BY <1>1
<1>. QED  BY <1>2, <1>3, <1>4 DEF Promise!Change
(* Whatever threads were in the middle of, a restart finds a table the map    *)
(* held, not older than what the last sync made durable: the store is a       *)
(* DurableStore of its history (Binlog.cpp:409-470).                          *)
THEOREM Recovery == Spec => RecoversToAPromisedState
<1>1. Init => Promise!Init
  <2> SUFFICES ASSUME Init PROVE Promise!Init
    OBVIOUS
  <2>1. past = << << >> >> /\ durable_events = 0  BY DEF Init
  <2>2. past[1] \in Tables  BY <2>1, InitExplained DEF IInv, Explained, Story
  <2>3. << >> \in Tables  BY <2>1, <2>2
  <2>4. durable_events + 1 = 1  BY <2>1
  <2>. QED  BY <2>1, <2>3, <2>4 DEF Promise!Init
<1>2. IInv /\ IInv' /\ [Next]_vars => [Promise!Next]_(Promise!vars)
  <2> SUFFICES ASSUME IInv, IInv', [Next]_vars PROVE [Promise!Next]_(Promise!vars)
    OBVIOUS
  <2>1. PICK all : Explained(all)  BY DEF IInv
  <2>2. /\ past \in Seq(Tables) /\ past' \in Seq(Tables) /\ Len(past) = Len(all) + 1
        /\ Len(log) \in 0 .. Len(all) /\ Len(all) \in Nat
        /\ durable_events \in 0 .. Len(log) /\ DOMAIN past = 1 .. Len(past)
    <3>1. past \in Seq(Tables) /\ Len(past) = Len(all) + 1  BY <2>1 DEF Explained, Story
    <3>2. past' \in Seq(Tables)  BY DEF IInv, Explained, Story
    <3>3. Len(log) \in 0 .. Len(all) /\ Len(all) \in Nat  BY <2>1, ExplainedFacts
    <3>4. durable_events \in 0 .. Len(log)  BY DEF IInv, Bounded
    <3>. QED  BY <3>1, <3>2, <3>3, <3>4
  <2>3. ASSUME NEW c \in Clients, NEW k \in Keys, NEW v \in Values, Set(c, k, v)
        PROVE  Promise!Change
    <3>1. past' = Append(past, Table(map')) /\ UNCHANGED durable_events  BY <2>3 DEF Set
    <3>2. Table(map') \in Tables  BY TableType DEF IInv, Explained, Story
    <3>3. <<Table(map')>> \in Seq(Tables) /\ Len(<<Table(map')>>) >= 1
          /\ past' = past \o <<Table(map')>>
      BY <2>2, <3>1, <3>2
    <3>. QED  BY <3>1, <3>3, ChangesPast
  <2>4. ASSUME NEW set, NEW keys \in SetToSeqs(set \cap DOMAIN map), keys # << >>, EraseKeys(keys),
               UNCHANGED durable_events
        PROVE  Promise!Change
    <3>1. MapOK(map)  BY <2>1 DEF Explained, Story
    <3>2. DifferentKeys(map, keys)  BY <3>1, KeysAreDifferent
    <3>3. PICK tail : tail = [n \in DOMAIN keys |-> Table(Without(map, {keys[i] : i \in 1 .. n}))]
      OBVIOUS
    <3>4. past' = past \o tail  BY <2>4, <3>3 DEF EraseKeys
    <3>5. keys \in Seq(DOMAIN map) /\ Len(keys) \in Nat /\ DOMAIN keys = 1 .. Len(keys) /\ Len(keys) >= 1
      BY <2>4, <3>2 DEF DifferentKeys
    <3>6. \A n \in 1 .. Len(keys) : tail[n] \in Tables
      <4> SUFFICES ASSUME NEW n \in 1 .. Len(keys) PROVE tail[n] \in Tables
        OBVIOUS
      <4>1. MapOK(Without(map, {keys[i] : i \in 1 .. n}))  BY <3>1, WithoutOK
      <4>. QED  BY <3>3, <3>5, <4>1, TableType
    <3>7. tail \in Seq(Tables) /\ Len(tail) = Len(keys)
      <4>1. tail \in [1 .. Len(keys) -> Tables]  BY <3>3, <3>5, <3>6
      <4>. QED  BY ONLY <3>5, <4>1
    <3>. QED  BY <2>4, <3>4, <3>5, <3>7, ChangesPast
  <2>5. ASSUME NEW c \in Clients, NEW matching, Erase(c, matching) PROVE Promise!Change
    BY <2>4, <2>5 DEF Erase
  <2>6. ASSUME NEW c \in Clients, NEW batch, EraseBatch(c, batch) PROVE Promise!Change
    BY <2>4, <2>6 DEF EraseBatch
  <2>7. ASSUME NEW c \in Clients, Send(c) PROVE UNCHANGED Promise!vars
    BY <2>7 DEF Send, Promise!vars
  <2>8. CASE Sync
    <3>1. durable_events' = Len(log) /\ past' = past  BY <2>8 DEF Sync
    <3>2. PICK n \in Nat : n = Len(log) + 1  BY <2>2
    <3>3. n \in DOMAIN past /\ n \in durable_events + 1 .. Len(past)  BY <2>2, <3>2
    <3>4. durable_events' + 1 = n  BY <3>1, <3>2
    <3>5. Promise!Persist(n)  BY <3>1, <3>3, <3>4 DEF Promise!Persist
    <3>. QED  BY <3>3, <3>5 DEF Promise!Next
  <2>9. CASE Restart
    <3>1. PICK n \in durable_events .. Len(log) : past' = SubSeq(past, 1, n + 1)
      BY <2>1, <2>9, RestartFinds DEF IInv
    <3>2. PICK m \in Nat : m = n + 1  BY <2>2, <3>1
    <3>3. m \in DOMAIN past /\ m \in durable_events + 1 .. Len(past)  BY <2>2, <3>1, <3>2
    <3>4. past' = SubSeq(past, 1, m) /\ UNCHANGED durable_events  BY <2>9, <3>1, <3>2 DEF Restart
    <3>5. Promise!Recover(m)  BY <3>3, <3>4 DEF Promise!Recover
    <3>. QED  BY <3>3, <3>5 DEF Promise!Next
  <2>10. CASE UNCHANGED vars  BY <2>10 DEF vars, Promise!vars
  <2>. QED  BY <2>3, <2>5, <2>6, <2>7, <2>8, <2>9, <2>10 DEF Next, Promise!Next
<1>. QED  BY <1>1, <1>2, AlwaysExplained, PTL DEF Spec, RecoversToAPromisedState, Promise!Spec
===============================================================================
