----------------------------- MODULE Binlog_proofs -----------------------------
(***************************************************************************)
(* Proofs about Binlog, for any values, keys, sizes and any number of      *)
(* events, crashes and changes of the key.                                 *)
(***************************************************************************)
EXTENDS Binlog, FiniteSetTheorems, TLAPS

-------------------------------------------------------------------------------
(* Loading a log, one record at a time                                        *)

AddTo(c, r, p) == ProcessorAdd(p, r)
Largest(s) == Max(s)
Loads == INSTANCE FoldTheorems WITH Op <- AddTo, Pick <- Largest

LEMMA LoadAppend ==
  ASSUME NEW S
  PROVE  /\ Load(<< >>) = EmptyProcessor
         /\ \A log \in Seq(S), r \in S : Load(Append(log, r)) = ProcessorAdd(Load(log), r)
<1>1. \A log : Load(log) = Loads!FoldOf(0, EmptyProcessor, log)
  BY DEF Load, FoldLeft, Loads!FoldOf, MapThenFoldSet, Loads!MapThenFoldSet, AddTo, Largest
<1>2. Loads!PicksLargest
  <2>1. \A s : Loads!Max(s) = Largest(s)  BY DEF Loads!Max, Max, Largest
  <2>. QED  BY <2>1, Loads!MaxIs DEF Loads!PicksLargest
<1>3. /\ Loads!FoldOf(0, EmptyProcessor, << >>) = EmptyProcessor
      /\ \A log \in Seq(S), r \in S :
           Loads!FoldOf(0, EmptyProcessor, Append(log, r)) = AddTo(0, r, Loads!FoldOf(0, EmptyProcessor, log))
  BY <1>2, Loads!FoldAppend
<1>. QED  BY <1>1, <1>3 DEF AddTo

-------------------------------------------------------------------------------
(* The records of logs in which the users have added e events, and the index  *)
(* of such a log: one record or Deleted for each id, none beyond the last.    *)
EventRecord(i) == [type : {"add", "rewrite"}, id : {i}, val : Values]
LogRecords(e) == [type : {"add", "rewrite"}, id : 1 .. e, val : Values]
                 \cup [type : {"erase"}, id : 1 .. e, val : {NoKey}]
                 \cup [type : {"key"}, id : {0}, val : Keys]

Index(ids, last, error) == [ids |-> ids, last |-> last, error |-> error]

IndexOK(p, e) ==
  /\ p = Index(p.ids, p.last, p.error)
  /\ p.ids = [i \in DOMAIN p.ids |-> p.ids[i]]
  /\ DOMAIN p.ids \subseteq 1 .. p.last
  /\ p.last \in 0 .. e
  /\ p.last # 0 => p.last \in DOMAIN p.ids
  /\ p.error \in BOOLEAN
  /\ \A i \in DOMAIN p.ids : p.ids[i] = Deleted \/ p.ids[i] \in EventRecord(i)

PutAt(ids, i, record) == [j \in DOMAIN ids \cup {i} |-> IF j = i THEN record ELSE ids[j]]

LEMMA RecordKinds ==
  ASSUME NEW e \in Nat, NEW r \in LogRecords(e)
  PROVE  /\ r.type \in {"add", "rewrite", "erase", "key"}
         /\ r.type \in {"add", "rewrite"} => r.id \in 1 .. e /\ r.val \in Values /\ r \in EventRecord(r.id)
         /\ r.type = "erase" => r.id \in 1 .. e
         /\ r.type = "key" => r.id = 0 /\ r.val \in Keys
  BY DEF LogRecords, EventRecord

LEMMA AddCases ==
  ASSUME NEW e \in Nat, NEW p, IndexOK(p, e), NEW r \in LogRecords(e)
  PROVE  LET q == ProcessorAdd(p, r) IN
         /\ r.type = "key" => q = p
         /\ r.type \in {"add", "rewrite"} /\ p.last < r.id => q = Index(PutAt(p.ids, r.id, r), r.id, p.error)
         /\ r.type = "rewrite" /\ r.id \in Alive(p.ids) => q = Index(PutAt(p.ids, r.id, r), p.last, p.error)
         /\ r.type = "erase" /\ r.id \in Alive(p.ids) => q = Index(PutAt(p.ids, r.id, Deleted), p.last, p.error)
         /\ r.type = "erase" /\ p.last < r.id => q = p
         /\ \/ r.type = "key"
            \/ r.type \in {"add", "rewrite"} /\ p.last < r.id
            \/ r.type \in {"rewrite", "erase"} /\ r.id \in Alive(p.ids)
            \/ r.type = "erase" /\ p.last < r.id
            \/ q = Index(p.ids, p.last, TRUE)
<1> DEFINE old == \E i \in DOMAIN p.ids : r.id <= i
<1>1. r.type # "key" => r.id \in 1 .. e /\ p.last \in Nat /\ (old <=> r.id <= p.last)
  BY RecordKinds DEF IndexOK
<1>2. r.type \in {"add", "rewrite", "erase", "key"}
  BY RecordKinds
<1>3. Alive(p.ids) \subseteq 1 .. p.last  BY DEF IndexOK, Alive
<1>4. p = Index(p.ids, p.last, p.error)  BY DEF IndexOK
<1>5. CASE r.type = "key"
  <2>1. ProcessorAdd(p, r) = p  BY <1>5 DEF ProcessorAdd
  <2>. QED  BY <1>5, <2>1
<1>6. CASE r.type = "erase" /\ p.last < r.id
  <2>1. ProcessorAdd(p, r) = p  BY <1>1, <1>6 DEF ProcessorAdd
  <2>2. r.id \notin Alive(p.ids)  BY <1>1, <1>3, <1>6
  <2>. QED  BY <1>6, <2>1, <2>2
<1>7. CASE r.type \in {"rewrite", "erase"} /\ r.id \in Alive(p.ids)
  <2>1. r.id <= p.last /\ ~(p.last < r.id)  BY <1>1, <1>3, <1>7
  <2>2. ProcessorAdd(p, r) = [p EXCEPT !.ids = PutAt(p.ids, r.id, IF r.type = "erase" THEN Deleted ELSE r)]
    BY <1>1, <1>7, <2>1 DEF ProcessorAdd, PutAt
  <2>. QED  BY <1>4, <1>7, <2>1, <2>2 DEF Index
<1>8. CASE r.type \in {"add", "rewrite"} /\ p.last < r.id
  <2>1. r.id \notin Alive(p.ids)  BY <1>1, <1>3, <1>8
  <2>2. ProcessorAdd(p, r) = [p EXCEPT !.ids = PutAt(p.ids, r.id, r), !.last = r.id]
    BY <1>1, <1>8, <2>1 DEF ProcessorAdd, PutAt
  <2>. QED  BY <1>4, <1>8, <2>1, <2>2 DEF Index
<1>9. CASE ~(\/ r.type = "key"
             \/ r.type \in {"add", "rewrite"} /\ p.last < r.id
             \/ r.type \in {"rewrite", "erase"} /\ r.id \in Alive(p.ids)
             \/ r.type = "erase" /\ p.last < r.id)
  <2>1. r.type # "key" /\ old  BY <1>1, <1>2, <1>9
  <2>2. ProcessorAdd(p, r) = [p EXCEPT !.error = TRUE]
    BY <1>2, <1>9, <2>1 DEF ProcessorAdd
  <2>. QED  BY <1>4, <1>9, <2>2 DEF Index
<1>. QED  BY <1>5, <1>6, <1>7, <1>8, <1>9

LEMMA AddKeepsIndex ==
  ASSUME NEW e \in Nat, NEW p, IndexOK(p, e), NEW r \in LogRecords(e)
  PROVE  IndexOK(ProcessorAdd(p, r), e) /\ (p.error => ProcessorAdd(p, r).error)
<1> DEFINE q == ProcessorAdd(p, r)
<1>1. ASSUME NEW record, NEW i \in 1 .. e, NEW last \in 0 .. e, p.last <= last, i <= last,
             last # 0 => last = i \/ last \in DOMAIN p.ids,
             record = Deleted \/ record \in EventRecord(i), q = Index(PutAt(p.ids, i, record), last, p.error)
      PROVE  IndexOK(q, e) /\ (p.error => q.error)
  <2>1. q.ids = PutAt(p.ids, i, record) /\ q.last = last /\ q.error = p.error  BY <1>1 DEF Index
  <2>2. DOMAIN q.ids = DOMAIN p.ids \cup {i} /\ q.ids[i] = record
        /\ \A j \in DOMAIN p.ids : j # i => q.ids[j] = p.ids[j]
    BY <2>1 DEF PutAt
  <2>3. q.ids = [j \in DOMAIN q.ids |-> q.ids[j]]  BY <2>1 DEF PutAt
  <2>4. DOMAIN q.ids \subseteq 1 .. q.last  BY <1>1, <2>1, <2>2 DEF IndexOK
  <2>5. \A j \in DOMAIN q.ids : q.ids[j] = Deleted \/ q.ids[j] \in EventRecord(j)
    BY <1>1, <2>2 DEF IndexOK
  <2>6. p.error \in BOOLEAN  BY DEF IndexOK
  <2>7. q = Index(q.ids, q.last, q.error)  BY <1>1, <2>1
  <2>. HIDE DEF q
  <2>. QED  BY <1>1, <2>1, <2>2, <2>3, <2>4, <2>5, <2>6, <2>7 DEF IndexOK
<1>2. IndexOK(Index(p.ids, p.last, TRUE), e)  BY DEF IndexOK, Index
<1>3. p.last \in 0 .. e /\ DOMAIN p.ids \subseteq 1 .. p.last /\ Alive(p.ids) \subseteq DOMAIN p.ids
      /\ (p.last # 0 => p.last \in DOMAIN p.ids)
  BY DEF IndexOK, Alive
<1>4. CASE r.type \in {"add", "rewrite"} /\ p.last < r.id
  <2>1. q = Index(PutAt(p.ids, r.id, r), r.id, p.error)  BY <1>4, AddCases
  <2>2. r.id \in 1 .. e /\ r \in EventRecord(r.id)  BY <1>4, RecordKinds
  <2>3. r.id \in 0 .. e /\ p.last <= r.id  BY <1>3, <1>4, <2>2
  <2>. QED  BY <1>1, <2>1, <2>2, <2>3 DEF q
<1>5. CASE r.type \in {"rewrite", "erase"} /\ r.id \in Alive(p.ids)
  <2> DEFINE record == IF r.type = "erase" THEN Deleted ELSE r
  <2>1. q = Index(PutAt(p.ids, r.id, record), p.last, p.error)  BY <1>5, AddCases
  <2>2. r.id \in 1 .. e /\ (r.type = "rewrite" => r \in EventRecord(r.id))  BY <1>5, RecordKinds
  <2>3. r.id <= p.last /\ p.last <= p.last  BY <1>3, <1>5, <2>2
  <2>. HIDE DEF record
  <2>3a. record = Deleted \/ record \in EventRecord(r.id)  BY <1>5, <2>2 DEF record
  <2>. QED  BY <1>1, <1>3, <2>1, <2>2, <2>3, <2>3a
<1>6. CASE q = p  BY <1>6
<1>7. CASE q = Index(p.ids, p.last, TRUE)  BY <1>2, <1>7 DEF Index
<1>. QED  BY <1>4, <1>5, <1>6, <1>7, AddCases

LEMMA MoreEvents ==
  ASSUME NEW e \in Nat, NEW f \in Nat, e <= f
  PROVE  /\ LogRecords(e) \subseteq LogRecords(f) /\ Seq(LogRecords(e)) \subseteq Seq(LogRecords(f))
         /\ \A p : IndexOK(p, e) => IndexOK(p, f)
<1>1. 1 .. e \subseteq 1 .. f /\ 0 .. e \subseteq 0 .. f  OBVIOUS
<1>2. LogRecords(e) \subseteq LogRecords(f)
  <2>1. [type : {"add", "rewrite"}, id : 1 .. e, val : Values]
          \subseteq [type : {"add", "rewrite"}, id : 1 .. f, val : Values]
    BY <1>1
  <2>2. [type : {"erase"}, id : 1 .. e, val : {NoKey}] \subseteq [type : {"erase"}, id : 1 .. f, val : {NoKey}]
    BY <1>1
  <2>. QED  BY <2>1, <2>2 DEF LogRecords
<1>3. \A p : IndexOK(p, e) => IndexOK(p, f)  BY <1>1 DEF IndexOK
<1>. QED  BY <1>2, <1>3

-------------------------------------------------------------------------------
(* The index of a log and of its beginnings                                   *)
LEMMA LoadIndex ==
  ASSUME NEW e \in Nat, NEW log \in Seq(LogRecords(e))
  PROVE  IndexOK(Load(log), e)
<1> DEFINE T == {l \in Seq(LogRecords(e)) : IndexOK(Load(l), e)}
<1>1. << >> \in T
  <2>1. IndexOK(EmptyProcessor, e)  BY DEF IndexOK, EmptyProcessor, Index
  <2>2. << >> \in Seq(LogRecords(e))  OBVIOUS
  <2>. QED  BY <2>1, <2>2, LoadAppend
<1>2. ASSUME NEW l \in Seq(LogRecords(e)), NEW r \in LogRecords(e), l \in T PROVE Append(l, r) \in T
  <2>1. Load(Append(l, r)) = ProcessorAdd(Load(l), r)  BY LoadAppend
  <2>2. IndexOK(Load(Append(l, r)), e)  BY <1>2, <2>1, AddKeepsIndex
  <2>3. Append(l, r) \in Seq(LogRecords(e))  OBVIOUS
  <2>. QED  BY <2>2, <2>3
<1>. HIDE DEF T
<1>3. Seq(LogRecords(e)) \subseteq T  BY <1>1, <1>2, Loads!InductionOnSequences
<1>. QED  BY <1>3 DEF T

Prefix(log, n) == SubSeq(log, 1, n)

LEMMA PrefixFacts ==
  ASSUME NEW S, NEW log \in Seq(S)
  PROVE  /\ Prefix(log, Len(log)) = log /\ Prefix(log, 0) = << >>
         /\ \A n \in 0 .. Len(log) :
              /\ Prefix(log, n) \in Seq(S) /\ Len(Prefix(log, n)) = n
              /\ \A i \in 1 .. n : Prefix(log, n)[i] = log[i]
              /\ \A m \in 0 .. n : Prefix(Prefix(log, n), m) = Prefix(log, m)
              /\ \A r \in S : Prefix(Append(log, r), n) = Prefix(log, n)
              /\ \A tail \in Seq(S) : Prefix(log \o tail, n) = Prefix(log, n)
<1>1. Prefix(log, Len(log)) = log /\ Prefix(log, 0) = << >>  BY DEF Prefix
<1>2. ASSUME NEW n \in 0 .. Len(log)
      PROVE  /\ Prefix(log, n) \in Seq(S) /\ Len(Prefix(log, n)) = n
             /\ \A i \in 1 .. n : Prefix(log, n)[i] = log[i]
             /\ \A m \in 0 .. n : Prefix(Prefix(log, n), m) = Prefix(log, m)
             /\ \A r \in S : Prefix(Append(log, r), n) = Prefix(log, n)
             /\ \A tail \in Seq(S) : Prefix(log \o tail, n) = Prefix(log, n)
  <2>1. /\ Prefix(log, n) \in Seq(S) /\ Len(Prefix(log, n)) = n
        /\ \A i \in 1 .. n : Prefix(log, n)[i] = log[i]
    BY DEF Prefix
  <2>2. ASSUME NEW m \in 0 .. n PROVE Prefix(Prefix(log, n), m) = Prefix(log, m)
    BY DEF Prefix
  <2>3. ASSUME NEW r \in S PROVE Prefix(Append(log, r), n) = Prefix(log, n)
    BY DEF Prefix
  <2>4. ASSUME NEW tail \in Seq(S) PROVE Prefix(log \o tail, n) = Prefix(log, n)
    BY DEF Prefix
  <2>. QED  BY <2>1, <2>2, <2>3, <2>4
<1>. QED  BY <1>1, <1>2

(* An error stays.                                                            *)
LEMMA PrefixNoError ==
  ASSUME NEW e \in Nat, NEW log \in Seq(LogRecords(e)), ~Load(log).error, NEW n \in 0 .. Len(log)
  PROVE  ~Load(Prefix(log, n)).error
<1> DEFINE S == LogRecords(e)
           T == {l \in Seq(S) : \A m \in 0 .. Len(l) : Load(Prefix(l, m)).error => Load(l).error}
<1>1. << >> \in T
  <2>1. << >> \in Seq(S) /\ \A m \in 0 .. Len(<< >>) : m = 0  OBVIOUS
  <2>. QED  BY <2>1, PrefixFacts
<1>2. ASSUME NEW l \in Seq(S), NEW r \in S, l \in T PROVE Append(l, r) \in T
  <2>1. Load(l).error => Load(Append(l, r)).error
    BY LoadAppend, LoadIndex, AddKeepsIndex
  <2>2. Append(l, r) \in Seq(S) /\ Len(Append(l, r)) = Len(l) + 1 /\ Len(l) \in Nat  OBVIOUS
  <2>3. ASSUME NEW m \in 0 .. Len(l) + 1, Load(Prefix(Append(l, r), m)).error
        PROVE  Load(Append(l, r)).error
    <3>1. CASE m = Len(l) + 1  BY <2>2, <2>3, <3>1, PrefixFacts
    <3>2. CASE m \in 0 .. Len(l)
      <4>1. Prefix(Append(l, r), m) = Prefix(l, m)  BY <3>2, PrefixFacts
      <4>. QED  BY <1>2, <2>1, <2>3, <3>2, <4>1
    <3>. QED  BY <2>2, <3>1, <3>2
  <2>. QED  BY <2>2, <2>3
<1>. HIDE DEF T
<1>3. Seq(S) \subseteq T  BY <1>1, <1>2, Loads!InductionOnSequences
<1>. QED  BY <1>3 DEF T

-------------------------------------------------------------------------------
(* Two indexes with the same live records, of which the first may have seen   *)
(* fewer ids: what a restart loads, and what the running program has.         *)
Same(p, q) ==
  /\ Alive(p.ids) = Alive(q.ids)
  /\ \A i \in Alive(p.ids) : p.ids[i] = q.ids[i]
  /\ p.last <= q.last
  /\ ~p.error /\ ~q.error

LEMMA SameTable == ASSUME NEW p, NEW q, Same(p, q) PROVE Table(p) = Table(q)
  BY DEF Same, Table

LEMMA AlivePut ==
  ASSUME NEW ids, NEW i, NEW record
  PROVE  LET new_ids == PutAt(ids, i, record) IN
         /\ Alive(new_ids) = IF record = Deleted THEN Alive(ids) \ {i} ELSE Alive(ids) \cup {i}
         /\ new_ids[i] = record
         /\ \A j \in Alive(ids) : j # i => new_ids[j] = ids[j]
  BY DEF PutAt, Alive

LEMMA EventIsLive ==
  ASSUME NEW i, NEW r \in EventRecord(i) PROVE r # Deleted /\ r.id = i /\ r.type \in {"add", "rewrite"}
  BY DEF EventRecord, Deleted, Record

(* What the users of the log do: add a new id, change an event that exists.   *)
IsUse(q, r) == \/ r.type = "add" /\ q.last < r.id
               \/ r.type \in {"rewrite", "erase"} /\ r.id \in Alive(q.ids)

LEMMA UseKeepsSame ==
  ASSUME NEW e \in Nat, NEW p, IndexOK(p, e), NEW q, IndexOK(q, e), Same(p, q),
         NEW r \in LogRecords(e), IsUse(q, r)
  PROVE  /\ Same(ProcessorAdd(p, r), ProcessorAdd(q, r))
         /\ ProcessorAdd(q, r).last \in {q.last, r.id}
<1>1. p.last \in Nat /\ q.last \in Nat  BY DEF IndexOK
<1>2. ASSUME NEW record, NEW l \in Nat, NEW m \in Nat, l <= m, m \in {q.last, r.id},
             ProcessorAdd(p, r) = Index(PutAt(p.ids, r.id, record), l, p.error),
             ProcessorAdd(q, r) = Index(PutAt(q.ids, r.id, record), m, q.error)
      PROVE  /\ Same(ProcessorAdd(p, r), ProcessorAdd(q, r))
             /\ ProcessorAdd(q, r).last \in {q.last, r.id}
  <2> DEFINE pp == ProcessorAdd(p, r)
             qq == ProcessorAdd(q, r)
  <2>1. /\ pp.ids = PutAt(p.ids, r.id, record) /\ pp.last = l /\ pp.error = p.error
        /\ qq.ids = PutAt(q.ids, r.id, record) /\ qq.last = m /\ qq.error = q.error
    BY <1>2 DEF Index
  <2>2. Alive(pp.ids) = Alive(qq.ids)  BY <2>1, AlivePut DEF Same
  <2>3. ASSUME NEW i \in Alive(pp.ids) PROVE pp.ids[i] = qq.ids[i]
    <3>1. CASE i = r.id  BY <2>1, <3>1, AlivePut
    <3>2. CASE i # r.id
      <4>1. i \in Alive(p.ids) /\ i \in Alive(q.ids)  BY <2>1, <2>3, <3>2, AlivePut DEF Same
      <4>. QED  BY <2>1, <3>2, <4>1, AlivePut DEF Same
    <3>. QED  BY <3>1, <3>2
  <2>4. ~pp.error /\ ~qq.error  BY <2>1 DEF Same
  <2>. QED  BY <1>2, <2>1, <2>2, <2>3, <2>4 DEF Same
<1>3. CASE r.type = "add" /\ q.last < r.id
  <2>1. r.id \in 1 .. e  BY <1>3, RecordKinds
  <2>2. p.last < r.id  BY <1>1, <1>3, <2>1 DEF Same
  <2>3. /\ ProcessorAdd(p, r) = Index(PutAt(p.ids, r.id, r), r.id, p.error)
        /\ ProcessorAdd(q, r) = Index(PutAt(q.ids, r.id, r), r.id, q.error)
    BY <1>3, <2>2, AddCases
  <2>. QED  BY <1>2, <2>1, <2>3
<1>4. CASE r.type \in {"rewrite", "erase"} /\ r.id \in Alive(q.ids)
  <2> DEFINE record == IF r.type = "erase" THEN Deleted ELSE r
  <2>1. r.id \in Alive(p.ids)  BY <1>4 DEF Same
  <2>2. /\ ProcessorAdd(p, r) = Index(PutAt(p.ids, r.id, record), p.last, p.error)
        /\ ProcessorAdd(q, r) = Index(PutAt(q.ids, r.id, record), q.last, q.error)
    BY <1>4, <2>1, AddCases
  <2>3. p.last <= q.last  BY DEF Same
  <2>. HIDE DEF record
  <2>. QED  BY <1>1, <1>2, <2>2, <2>3
<1>. QED  BY <1>3, <1>4 DEF IsUse

-------------------------------------------------------------------------------
(* A file as do_reindex() writes it: its key and live events by growing id.   *)
Events(log) == {n \in DOMAIN log : log[n].type # "key"}
Ascending(log) == \A n \in Events(log) : /\ log[n].type \in {"add", "rewrite"}
                                         /\ \A m \in DOMAIN log : m < n => log[m].id < log[n].id

Holds(p, log) ==
  /\ ~p.error
  /\ \A n \in Events(log) : log[n].id \in Alive(p.ids) /\ p.ids[log[n].id] = log[n]
  /\ \A i \in Alive(p.ids) : \E n \in Events(log) : log[n].id = i
  /\ p.last = 0 \/ \E n \in Events(log) : p.last = log[n].id

LEMMA LoadAscending ==
  ASSUME NEW e \in Nat, NEW log \in Seq(LogRecords(e)), Ascending(log)
  PROVE  Holds(Load(log), log)
<1> DEFINE S == LogRecords(e)
           T == {l \in Seq(S) : Ascending(l) => Holds(Load(l), l)}
<1>1. << >> \in T
  <2>1. << >> \in Seq(S) /\ Events(<< >>) = {}  BY DEF Events
  <2>2. Holds(EmptyProcessor, << >>)  BY <2>1 DEF Holds, EmptyProcessor, Alive
  <2>. QED  BY <2>1, <2>2, LoadAppend
<1>2. ASSUME NEW l \in Seq(S), NEW r \in S, l \in T, Ascending(Append(l, r))
      PROVE  Holds(Load(Append(l, r)), Append(l, r))
  <2> DEFINE k == Append(l, r)
             last == Len(l) + 1
  <2>1. /\ k \in Seq(S) /\ DOMAIN k = DOMAIN l \cup {last} /\ last \notin DOMAIN l /\ k[last] = r
        /\ \A n \in DOMAIN l : k[n] = l[n] /\ n < last
        /\ DOMAIN l \subseteq Nat /\ last \in Nat
    OBVIOUS
  <2>2. Load(k) = ProcessorAdd(Load(l), r) /\ IndexOK(Load(l), e)  BY LoadAppend, LoadIndex
  <2>. HIDE DEF k, last
  <2>3. Events(k) = IF r.type = "key" THEN Events(l) ELSE Events(l) \cup {last}
    BY <2>1 DEF Events
  <2>4. Events(l) \subseteq DOMAIN l  BY DEF Events
  <2>5. Ascending(l)  BY <1>2, <2>1, <2>3, <2>4 DEF Ascending, k
  <2>6. PICK p : p = Load(l) /\ Holds(p, l) /\ IndexOK(p, e)  BY <1>2, <2>2, <2>5
  <2>7. CASE r.type = "key"
    <3>1. Load(k) = p  BY <2>2, <2>6, <2>7, AddCases
    <3>2. \A n \in Events(l) : k[n] = l[n]  BY <2>1, <2>4
    <3>3. Events(k) = Events(l)  BY <2>3, <2>7
    <3>4. Holds(p, k)  BY <2>6, <3>2, <3>3 DEF Holds
    <3>. QED  BY <3>1, <3>4 DEF k
  <2>8. CASE r.type # "key"
    <3>1. last \in Events(k)  BY <2>3, <2>8
    <3>2. r.type \in {"add", "rewrite"} /\ \A m \in DOMAIN l : l[m].id < r.id
      BY <1>2, <2>1, <3>1 DEF Ascending, k
    <3>3. r.id \in 1 .. e /\ r \in EventRecord(r.id)  BY <3>2, RecordKinds
    <3>4. p.last < r.id
      <4>1. CASE p.last = 0  BY <3>3, <4>1
      <4>2. CASE p.last # 0  BY <2>4, <2>6, <3>2, <4>2 DEF Holds
      <4>. QED  BY <4>1, <4>2
    <3>5. PICK q : q = Load(k) /\ q = Index(PutAt(p.ids, r.id, r), r.id, p.error)
      BY <2>2, <2>6, <3>2, <3>4, AddCases
    <3>6. q.ids = PutAt(p.ids, r.id, r) /\ q.last = r.id /\ q.error = p.error  BY <3>5 DEF Index
    <3>7. r # Deleted  BY <3>3, EventIsLive
    <3>8. /\ Alive(q.ids) = Alive(p.ids) \cup {r.id} /\ q.ids[r.id] = r
          /\ \A j \in Alive(p.ids) : j # r.id => q.ids[j] = p.ids[j]
      BY <3>6, <3>7, AlivePut
    <3>9. ASSUME NEW n \in Events(k) PROVE k[n].id \in Alive(q.ids) /\ q.ids[k[n].id] = k[n]
      <4>1. CASE n = last  BY <2>1, <3>8, <4>1
      <4>2. CASE n # last
        <5>1. n \in Events(l) /\ n \in DOMAIN l /\ k[n] = l[n]  BY <2>1, <2>3, <2>4, <4>2
        <5>2. l[n].id < r.id  BY <3>2, <5>1
        <5>3. l[n].id \in Alive(p.ids) /\ p.ids[l[n].id] = l[n]  BY <2>6, <5>1 DEF Holds
        <5>4. l[n].id \in Nat  BY <2>6, <5>3 DEF IndexOK, Alive
        <5>. QED  BY <3>3, <3>8, <5>1, <5>2, <5>3, <5>4
      <4>. QED  BY <4>1, <4>2
    <3>10. ASSUME NEW i \in Alive(q.ids) PROVE \E n \in Events(k) : k[n].id = i
      <4>1. CASE i = r.id  BY <2>1, <3>1, <4>1
      <4>2. CASE i # r.id
        <5>1. PICK n \in Events(l) : l[n].id = i  BY <2>6, <3>8, <4>2 DEF Holds
        <5>. QED  BY <2>1, <2>3, <2>4, <5>1
      <4>. QED  BY <4>1, <4>2
    <3>11. \E n \in Events(k) : q.last = k[n].id  BY <2>1, <3>1, <3>6
    <3>12. ~q.error  BY <2>6, <3>6 DEF Holds
    <3>. QED  BY <3>5, <3>9, <3>10, <3>11, <3>12 DEF Holds, k
  <2>. QED  BY <2>7, <2>8
<1>3. \A l \in Seq(S), r \in S : l \in T => Append(l, r) \in T  BY <1>2
<1>. HIDE DEF T
<1>4. Seq(S) \subseteq T  BY <1>1, <1>3, Loads!InductionOnSequences
<1>. QED  BY <1>4 DEF T

(* The n-th of a set of numbers is the one that has n of them up to itself.   *)
UpTo(A, i) == Cardinality({j \in A : j <= i})

LEMMA UpToCounts ==
  ASSUME NEW m \in Nat, NEW A \in SUBSET (1 .. m)
  PROVE  /\ UpTo(A, 0) = 0 /\ UpTo(A, m) = Cardinality(A)
         /\ \A i \in Nat : UpTo(A, i) \in Nat
         /\ \A i \in Nat : UpTo(A, i + 1) = UpTo(A, i) + (IF i + 1 \in A THEN 1 ELSE 0)
         /\ \A i, j \in Nat : i <= j => UpTo(A, i) <= UpTo(A, j)
<1> DEFINE B(i) == {j \in A : j <= i}
<1>0. \A j \in A : j \in Nat /\ 1 <= j /\ j <= m  OBVIOUS
<1>1. IsFiniteSet(A)
  <2>1. IsFiniteSet(1 .. m)  BY FS_Interval
  <2>. QED  BY <2>1, FS_Subset
<1>2. \A i \in Nat : IsFiniteSet(B(i)) /\ Cardinality(B(i)) \in Nat
  BY <1>1, FS_Subset, FS_CardinalityType
<1>3. B(0) = {} /\ B(m) = A
  <2>1. \A j \in A : j <= m /\ ~(j <= 0)  BY <1>0
  <2>. QED  BY <2>1
<1>4. ASSUME NEW i \in Nat PROVE Cardinality(B(i + 1)) = Cardinality(B(i)) + (IF i + 1 \in A THEN 1 ELSE 0)
  <2>0. \A j \in A : j <= i + 1 <=> j <= i \/ j = i + 1  BY <1>0
  <2>1. B(i + 1) = IF i + 1 \in A THEN B(i) \cup {i + 1} ELSE B(i)
    <3>1. i + 1 <= i + 1  OBVIOUS
    <3>. QED  BY <2>0, <3>1
  <2>2. i + 1 \notin B(i)  OBVIOUS
  <2>3. IsFiniteSet(B(i)) /\ Cardinality(B(i)) \in Nat  BY <1>2
  <2>. HIDE DEF B
  <2>4. Cardinality(B(i) \cup {i + 1}) = Cardinality(B(i)) + 1  BY <2>2, <2>3, FS_AddElement
  <2>. QED  BY <2>1, <2>3, <2>4
<1>5. ASSUME NEW i \in Nat, NEW j \in Nat, i <= j PROVE Cardinality(B(i)) <= Cardinality(B(j))
  <2>0. \A k \in A : k <= i => k <= j  BY <1>0, <1>5
  <2>1. B(i) \in SUBSET B(j)  BY <2>0
  <2>2. IsFiniteSet(B(j))  BY <1>2
  <2>. HIDE DEF B
  <2>. QED  BY <2>1, <2>2, FS_Subset
<1>6. Cardinality(B(0)) = 0 /\ Cardinality(B(m)) = Cardinality(A)  BY <1>3, FS_EmptySet
<1>. QED  BY <1>2, <1>4, <1>5, <1>6 DEF UpTo

LEMMA Enumeration ==
  ASSUME NEW m \in Nat, NEW A \in SUBSET (1 .. m)
  PROVE  /\ Cardinality(A) \in Nat
         /\ \A n \in 1 .. Cardinality(A) : \E i \in A : UpTo(A, i) = n
         /\ \A i \in A : UpTo(A, i) \in 1 .. Cardinality(A)
         /\ \A i, j \in A : i < j => UpTo(A, i) < UpTo(A, j)
<1>1. /\ UpTo(A, 0) = 0 /\ UpTo(A, m) = Cardinality(A)
      /\ \A i \in Nat : UpTo(A, i) \in Nat
      /\ \A i \in Nat : UpTo(A, i + 1) = UpTo(A, i) + (IF i + 1 \in A THEN 1 ELSE 0)
      /\ \A i, j \in Nat : i <= j => UpTo(A, i) <= UpTo(A, j)
  BY UpToCounts
<1> DEFINE T == {n \in Nat : \A k \in 1 .. UpTo(A, n) : \E i \in A : UpTo(A, i) = k}
<1>2. 0 \in T  BY <1>1
<1>3. ASSUME NEW n \in Nat, n \in T PROVE n + 1 \in T
  <2> SUFFICES ASSUME NEW k \in 1 .. UpTo(A, n + 1) PROVE \E i \in A : UpTo(A, i) = k
    OBVIOUS
  <2>1. CASE k \in 1 .. UpTo(A, n)  BY <1>3, <2>1
  <2>2. CASE k \notin 1 .. UpTo(A, n)
    <3>1. PICK a \in Nat, b \in Nat : a = UpTo(A, n) /\ b = UpTo(A, n + 1)  BY <1>1
    <3>2. b = a + (IF n + 1 \in A THEN 1 ELSE 0)  BY <1>1, <3>1
    <3>3. k \in 1 .. b /\ k \notin 1 .. a  BY <2>2, <3>1
    <3>4. n + 1 \in A /\ k = b  BY <3>2, <3>3
    <3>. QED  BY <3>1, <3>4
  <2>. QED  BY <2>1, <2>2
<1>. HIDE DEF T
<1>4. m \in T
  <2>1. Loads!Inductive(T)  BY <1>2, <1>3 DEF Loads!Inductive
  <2>. QED  BY <2>1, Loads!InductionOnNumbers
<1>5. \A n \in 1 .. Cardinality(A) : \E i \in A : UpTo(A, i) = n  BY <1>1, <1>4 DEF T
<1>6. \A j \in A : j - 1 \in Nat /\ UpTo(A, j) = UpTo(A, j - 1) + 1
  <2> SUFFICES ASSUME NEW j \in A PROVE j - 1 \in Nat /\ UpTo(A, j) = UpTo(A, j - 1) + 1
    OBVIOUS
  <2>1. j - 1 \in Nat /\ (j - 1) + 1 = j  OBVIOUS
  <2>. QED  BY <1>1, <2>1
<1>7. ASSUME NEW i \in A, NEW j \in A, i < j PROVE UpTo(A, i) < UpTo(A, j)
  <2>1. i \in Nat /\ j \in Nat /\ j - 1 \in Nat /\ i <= j - 1  BY <1>7
  <2>2. PICK a \in Nat, b \in Nat, c \in Nat : a = UpTo(A, i) /\ b = UpTo(A, j - 1) /\ c = UpTo(A, j)
    BY <1>1, <2>1
  <2>3. a <= b /\ c = b + 1  BY <1>1, <1>6, <2>1, <2>2
  <2>. QED  BY <2>2, <2>3
<1>8. ASSUME NEW i \in A PROVE UpTo(A, i) \in 1 .. Cardinality(A)
  <2>1. i \in Nat /\ i <= m /\ i - 1 \in Nat  OBVIOUS
  <2>2. PICK a \in Nat, b \in Nat, c \in Nat : a = UpTo(A, i - 1) /\ b = UpTo(A, i) /\ c = UpTo(A, m)
    BY <1>1, <2>1
  <2>3. b = a + 1 /\ b <= c  BY <1>1, <1>6, <2>1, <2>2
  <2>. QED  BY <1>1, <2>2, <2>3
<1>. QED  BY <1>1, <1>5, <1>7, <1>8

Lists(log, p, e) ==
  /\ log \in Seq(LogRecords(e)) /\ Ascending(log) /\ Events(log) = DOMAIN log
  /\ \A n \in DOMAIN log : log[n].id \in Alive(p.ids) /\ log[n] = p.ids[log[n].id]
  /\ \A i \in Alive(p.ids) : \E n \in DOMAIN log : log[n].id = i
  /\ Alive(p.ids) = {} => log = << >>

LEMMA LiveRecordsAre ==
  ASSUME NEW e \in Nat, NEW p, IndexOK(p, e)
  PROVE  Lists(LiveRecords(p), p, e)
<1> DEFINE A == Alive(p.ids)
           size == Cardinality(A)
           Nth(n) == CHOOSE i \in A : UpTo(A, i) = n
           log == [n \in 1 .. size |-> p.ids[Nth(n)]]
<1>0. LiveRecords(p) = log  BY DEF LiveRecords, UpTo
<1>1. A \in SUBSET (1 .. p.last) /\ p.last \in Nat /\ p.last <= e  BY DEF IndexOK, Alive
<1>2. \A i \in A : p.ids[i] \in EventRecord(i)  BY DEF IndexOK, Alive
<1>. HIDE DEF A
<1>3. /\ size \in Nat
      /\ \A n \in 1 .. size : \E i \in A : UpTo(A, i) = n
      /\ \A i \in A : UpTo(A, i) \in 1 .. size
      /\ \A i, j \in A : i < j => UpTo(A, i) < UpTo(A, j)
  BY <1>1, Enumeration
<1>4. \A n \in 1 .. size : Nth(n) \in A /\ UpTo(A, Nth(n)) = n  BY <1>3
<1>5. \A i \in A : Nth(UpTo(A, i)) = i
  <2> SUFFICES ASSUME NEW i \in A PROVE Nth(UpTo(A, i)) = i
    OBVIOUS
  <2>1. PICK j \in A : j = Nth(UpTo(A, i)) /\ UpTo(A, j) = UpTo(A, i)  BY <1>3, <1>4
  <2>2. PICK a \in Nat, b \in Nat : a = UpTo(A, i) /\ b = UpTo(A, j)  BY <1>3, <2>1
  <2>3. ~(i < j) /\ ~(j < i)  BY <1>3, <2>1, <2>2
  <2>. QED  BY <1>1, <2>1, <2>3
<1>6. \A m, n \in 1 .. size : m < n => Nth(m) < Nth(n)
  <2> SUFFICES ASSUME NEW m \in 1 .. size, NEW n \in 1 .. size, m < n PROVE Nth(m) < Nth(n)
    OBVIOUS
  <2>1. PICK i \in A, j \in A : i = Nth(m) /\ j = Nth(n) /\ UpTo(A, i) = m /\ UpTo(A, j) = n  BY <1>4
  <2>2. i # j /\ ~(j < i)  BY <1>3, <2>1
  <2>3. i \in Nat /\ j \in Nat  BY <1>1
  <2>. QED  BY <2>1, <2>2, <2>3
<1>. HIDE DEF Nth, size
<1>7. DOMAIN log = 1 .. size /\ \A n \in 1 .. size : log[n] \in EventRecord(Nth(n)) /\ log[n].id = Nth(n)
  BY <1>2, <1>4, EventIsLive
<1>8. log \in Seq(LogRecords(e))
  <2>1. \A i \in 1 .. p.last : EventRecord(i) \subseteq LogRecords(e)  BY <1>1 DEF EventRecord, LogRecords
  <2>2. \A n \in 1 .. size : log[n] \in LogRecords(e)  BY <1>1, <1>4, <1>7, <2>1
  <2>. QED  BY <1>3, <2>2
<1>9. Events(log) = DOMAIN log /\ Ascending(log)
  <2>1. \A n \in 1 .. size : log[n].type \in {"add", "rewrite"}  BY <1>7, EventIsLive
  <2>. HIDE DEF log
  <2>2. Events(log) = DOMAIN log  BY <1>7, <2>1 DEF Events
  <2>. QED  BY <1>6, <1>7, <2>1, <2>2 DEF Ascending
<1>10. \A n \in DOMAIN log : log[n].id \in A /\ log[n] = p.ids[log[n].id]  BY <1>4, <1>7
<1>11. \A i \in A : \E n \in DOMAIN log : log[n].id = i  BY <1>3, <1>5, <1>7
<1>12. A = {} => log = << >>
  <2>1. A = {} => Cardinality(A) = 0  BY FS_EmptySet
  <2>. QED  BY <1>8, <2>1 DEF size
<1>. HIDE DEF log
<1>. QED  BY <1>0, <1>8, <1>9, <1>10, <1>11, <1>12 DEF A, Lists

-------------------------------------------------------------------------------
(* The file do_reindex() writes for the key k and the index p: it loads as p, *)
(* and its key record changes no table.                                       *)
KeyPart(k) == IF k = NoKey THEN << >> ELSE <<KeyRecord(k)>>
NewLog(k, p) == KeyPart(k) \o LiveRecords(p)

LEMMA KeyParts ==
  ASSUME NEW e \in Nat, NEW k \in AllKeys
  PROVE  /\ KeyPart(k) \in Seq(LogRecords(e)) /\ Len(KeyPart(k)) \in {0, 1}
         /\ \A n \in DOMAIN KeyPart(k) : KeyPart(k)[n] = KeyRecord(k)
         /\ k # NoKey => KeyRecord(k) \in LogRecords(e) /\ KeyPart(k) = <<KeyRecord(k)>>
         /\ KeyRecord(k).type = "key" /\ KeyRecord(k).id = 0 /\ KeyRecord(k).val = k
<1>1. KeyRecord(k).type = "key" /\ KeyRecord(k).id = 0 /\ KeyRecord(k).val = k
  BY DEF KeyRecord, Record
<1>2. k # NoKey => KeyRecord(k) \in LogRecords(e)
  BY DEF KeyRecord, Record, LogRecords, AllKeys
<1>. QED  BY <1>1, <1>2 DEF KeyPart

LEMMA LoadKey ==
  ASSUME NEW e \in Nat, NEW k \in AllKeys, NEW log \in Seq(LogRecords(e))
  PROVE  Load(KeyPart(k) \o log) = Load(log)
<1> DEFINE S == LogRecords(e)
           T == {l \in Seq(S) : Load(KeyPart(k) \o l) = Load(l)}
<1>1. << >> \in T
  <2>1. CASE k = NoKey  BY <2>1 DEF KeyPart
  <2>2. CASE k # NoKey
    <3>1. KeyPart(k) \o << >> = Append(<< >>, KeyRecord(k)) /\ << >> \in Seq(S)
      BY <2>2, KeyParts
    <3>2. KeyRecord(k) \in S /\ KeyRecord(k).type = "key"  BY <2>2, KeyParts
    <3>3. Load(Append(<< >>, KeyRecord(k))) = ProcessorAdd(EmptyProcessor, KeyRecord(k))
      BY <3>1, <3>2, LoadAppend
    <3>4. IndexOK(EmptyProcessor, e)  BY <3>1, LoadAppend, LoadIndex
    <3>5. ProcessorAdd(EmptyProcessor, KeyRecord(k)) = EmptyProcessor  BY <3>2, <3>4, AddCases
    <3>. QED  BY <3>1, <3>3, <3>5, LoadAppend
  <2>. QED  BY <2>1, <2>2
<1>2. ASSUME NEW l \in Seq(S), NEW r \in S, l \in T PROVE Append(l, r) \in T
  <2>1. PICK part \in Seq(S) : part = KeyPart(k)  BY KeyParts
  <2>2. part \o Append(l, r) = Append(part \o l, r) /\ part \o l \in Seq(S) /\ Append(l, r) \in Seq(S)
    OBVIOUS
  <2>. QED  BY <1>2, <2>1, <2>2, LoadAppend
<1>. HIDE DEF T
<1>3. Seq(S) \subseteq T  BY <1>1, <1>2, Loads!InductionOnSequences
<1>. QED  BY <1>3 DEF T

LEMMA NewLogLoads ==
  ASSUME NEW e \in Nat, NEW p, IndexOK(p, e), ~p.error, NEW k \in AllKeys
  PROVE  /\ NewLog(k, p) \in Seq(LogRecords(e))
         /\ Same(Load(NewLog(k, p)), p)
         /\ FileKey(NewLog(k, p)) \in {k, NoKey}
<1>0. Lists(LiveRecords(p), p, e)  BY LiveRecordsAre
<1> DEFINE live == LiveRecords(p)
<1>. HIDE DEF live
<1>1. /\ live \in Seq(LogRecords(e))
      /\ Ascending(live) /\ Events(live) = DOMAIN live
      /\ \A n \in DOMAIN live : live[n].id \in Alive(p.ids) /\ live[n] = p.ids[live[n].id]
      /\ \A i \in Alive(p.ids) : \E n \in DOMAIN live : live[n].id = i
  BY <1>0 DEF Lists, live
<1>2. NewLog(k, p) \in Seq(LogRecords(e)) /\ Load(NewLog(k, p)) = Load(live)
  <2>1. KeyPart(k) \in Seq(LogRecords(e))  BY KeyParts
  <2>. QED  BY <1>1, <2>1, LoadKey DEF NewLog, live
<1>3. PICK q : q = Load(live) /\ Holds(q, live)  BY <1>1, LoadAscending
<1>4. Alive(q.ids) = Alive(p.ids)
  <2>1. \A i \in Alive(q.ids) : i \in Alive(p.ids)  BY <1>1, <1>3 DEF Holds
  <2>2. \A i \in Alive(p.ids) : i \in Alive(q.ids)  BY <1>1, <1>3 DEF Holds
  <2>. QED  BY <2>1, <2>2
<1>5. ASSUME NEW i \in Alive(q.ids) PROVE q.ids[i] = p.ids[i]
  <2>1. PICK n \in DOMAIN live : live[n].id = i  BY <1>1, <1>4, <1>5
  <2>. QED  BY <1>1, <1>3, <2>1 DEF Holds
<1>6. q.last <= p.last
  <2>1. Alive(p.ids) \subseteq 1 .. p.last /\ p.last \in Nat  BY DEF IndexOK, Alive
  <2>. QED  BY <1>1, <1>3, <2>1 DEF Holds
<1>7. Same(Load(NewLog(k, p)), p)  BY <1>2, <1>3, <1>4, <1>5, <1>6 DEF Same, Holds
<1>8. FileKey(NewLog(k, p)) \in {k, NoKey}
  <2>1. CASE k = NoKey
    <3>1. NewLog(k, p) = live  BY <1>1, <2>1 DEF NewLog, KeyPart, live
    <3>2. live # << >> => 1 \in DOMAIN live  OBVIOUS
    <3>3. live # << >> => live[1].type # "key"  BY <1>1, <3>2 DEF Events
    <3>. QED  BY <2>1, <3>1, <3>3 DEF FileKey
  <2>2. CASE k # NoKey
    <3>1. NewLog(k, p) = <<KeyRecord(k)>> \o live  BY <2>2, KeyParts DEF NewLog, live
    <3>2. NewLog(k, p)[1] = KeyRecord(k)  BY <1>1, <3>1
    <3>. QED  BY <3>2, KeyParts DEF FileKey
  <2>. QED  BY <2>1, <2>2
<1>. QED  BY <1>2, <1>7, <1>8

-------------------------------------------------------------------------------
(* The beginnings of a log from a length on, each with its table at a place   *)
(* of the history that may still be gone back to, the places in order.        *)
TableAfter(log, n) == Table(Load(Prefix(log, n)))

Traces(h, log, from, hist, d) ==
  /\ h \in [from .. Len(log) -> d .. Len(hist)]
  /\ \A n \in from .. Len(log) : hist[h[n]] = TableAfter(log, n)
  /\ \A m, n \in from .. Len(log) : m <= n => h[m] <= h[n]

Traced(log, from, hist, d) ==
  \E h \in [from .. Len(log) -> d .. Len(hist)] : Traces(h, log, from, hist, d)

LEMMA TracedPrefix ==
  ASSUME NEW S, NEW log \in Seq(S), NEW from \in Nat, NEW hist, NEW d, Traced(log, from, hist, d),
         NEW n \in from .. Len(log), NEW m \in from .. n
  PROVE  Traced(Prefix(log, n), m, hist, d)
<1>1. PICK h : Traces(h, log, from, hist, d)  BY DEF Traced
<1> DEFINE g == [i \in m .. n |-> h[i]]
           front == Prefix(log, n)
<1>2. Len(front) = n /\ \A i \in m .. n : TableAfter(front, i) = TableAfter(log, i)
  BY PrefixFacts DEF TableAfter
<1>3. m .. n \subseteq from .. Len(log) /\ n \in Nat  OBVIOUS
<1>4. Traces(g, front, m, hist, d)  BY <1>1, <1>2, <1>3 DEF Traces
<1>. QED  BY <1>4 DEF Traced, Traces

LEMMA TracedPresent ==
  ASSUME NEW S, NEW log \in Seq(S), NEW T, NEW hist \in Seq(T), NEW d \in 1 .. Len(hist),
         hist[Len(hist)] = Table(Load(log))
  PROVE  Traced(log, Len(log), hist, d)
<1> DEFINE n == Len(log)
           g == [i \in n .. n |-> Len(hist)]
<1>1. TableAfter(log, n) = hist[Len(hist)] /\ n \in Nat  BY PrefixFacts DEF TableAfter
<1>2. n .. n = {n} /\ Len(hist) \in d .. Len(hist)  BY <1>1
<1>3. Traces(g, log, n, hist, d)  BY <1>1, <1>2 DEF Traces
<1>. QED  BY <1>3 DEF Traced, Traces

LEMMA TracedAppend ==
  ASSUME NEW S, NEW log \in Seq(S), NEW from \in 0 .. Len(log), NEW T, NEW hist \in Seq(T),
         NEW d \in 1 .. Len(hist), Traced(log, from, hist, d),
         NEW r \in S, NEW t \in T, t = Table(Load(Append(log, r)))
  PROVE  Traced(Append(log, r), from, Append(hist, t), d)
<1>1. PICK h : Traces(h, log, from, hist, d)  BY DEF Traced
<1> DEFINE n == Len(log) + 1
           new_log == Append(log, r)
           new_hist == Append(hist, t)
           g == [i \in from .. n |-> IF i = n THEN Len(hist) + 1 ELSE h[i]]
<1>2. /\ new_log \in Seq(S) /\ Len(new_log) = n /\ n \in Nat /\ n \in from .. n
      /\ from .. n = (from .. Len(log)) \cup {n} /\ n \notin from .. Len(log)
      /\ \A i \in from .. Len(log) : i < n /\ i \in 0 .. Len(log)
  OBVIOUS
<1>3. /\ Len(new_hist) = Len(hist) + 1 /\ Len(hist) \in Nat /\ new_hist[Len(hist) + 1] = t
      /\ \A i \in d .. Len(hist) : new_hist[i] = hist[i] /\ i <= Len(hist) + 1 /\ i \in d .. Len(hist) + 1
      /\ Len(hist) + 1 \in d .. Len(hist) + 1
  OBVIOUS
<1>4. TableAfter(new_log, n) = t  BY <1>2, PrefixFacts DEF TableAfter
<1>5. \A i \in from .. Len(log) : TableAfter(new_log, i) = TableAfter(log, i)
  BY <1>2, PrefixFacts DEF TableAfter
<1>6. \A i \in from .. Len(log) : h[i] \in d .. Len(hist) /\ hist[h[i]] = TableAfter(log, i)
  BY <1>1 DEF Traces
<1>. HIDE DEF n, new_log, new_hist
<1>7. g \in [from .. n -> d .. Len(new_hist)]  BY <1>2, <1>3, <1>6
<1>8. \A i \in from .. n : new_hist[g[i]] = TableAfter(new_log, i)
  BY <1>2, <1>3, <1>4, <1>5, <1>6
<1>9. ASSUME NEW i \in from .. n, NEW j \in from .. n, i <= j PROVE g[i] <= g[j]
  <2>0. /\ g[n] = Len(hist) + 1
        /\ \A k \in from .. Len(log) : g[k] = h[k] /\ g[k] <= Len(hist) + 1
    <3>1. g[n] = Len(hist) + 1  BY <1>2
    <3>2. ASSUME NEW k \in from .. Len(log) PROVE g[k] = h[k] /\ g[k] <= Len(hist) + 1
      <4>1. g[k] = h[k]  BY <1>2
      <4>2. h[k] <= Len(hist) + 1  BY <1>3, <1>6
      <4>. QED  BY <4>1, <4>2
    <3>. QED  BY <3>1, <3>2
  <2>. HIDE DEF g
  <2>1. CASE j = n
    <3>1. Len(hist) + 1 <= Len(hist) + 1  BY <1>3
    <3>. QED  BY <1>2, <2>0, <2>1, <3>1
  <2>2. CASE j # n
    <3>1. j \in from .. Len(log) /\ j < n  BY <1>2, <2>2
    <3>2. i # n  BY <1>2, <1>9, <3>1
    <3>3. i \in from .. Len(log)  BY <1>2, <3>2
    <3>. QED  BY <1>1, <1>9, <2>0, <3>1, <3>3 DEF Traces
  <2>. QED  BY <2>1, <2>2
<1>. HIDE DEF g
<1>10. Traces(g, new_log, from, new_hist, d)  BY <1>2, <1>7, <1>8, <1>9 DEF Traces
<1>. QED  BY <1>10 DEF Traced, Traces, new_log, new_hist

LEMMA TracedLonger ==
  ASSUME NEW log, NEW from, NEW T, NEW hist \in Seq(T), NEW more \in Seq(T), NEW d \in Nat \ {0},
         Traced(log, from, hist, d)
  PROVE  Traced(log, from, hist \o more, d)
<1>1. PICK h : Traces(h, log, from, hist, d)  BY DEF Traced
<1>2. \A i \in d .. Len(hist) : (hist \o more)[i] = hist[i] /\ i \in d .. Len(hist \o more)
  OBVIOUS
<1>3. Traces(h, log, from, hist \o more, d)  BY <1>1, <1>2 DEF Traces
<1>. QED  BY <1>3 DEF Traced, Traces

(* Going back to the last state with the table that is loaded.                *)
LEMMA CutSequence ==
  ASSUME NEW T, NEW s \in Seq(T), NEW n \in 1 .. Len(s)
  PROVE  SubSeq(s, 1, n) \in Seq(T) /\ Len(SubSeq(s, 1, n)) = n /\ \A i \in 1 .. n : SubSeq(s, 1, n)[i] = s[i]
  OBVIOUS

LEMMA TracedCut ==
  ASSUME NEW S, NEW log \in Seq(S), NEW from \in 0 .. Len(log), NEW T, NEW hist \in Seq(T),
         NEW d \in 1 .. Len(hist), Traced(log, from, hist, d),
         NEW same, \A n : n \in same <=> n \in d .. Len(hist) /\ hist[n] = Table(Load(log)),
         NEW last, last = Max(same)
  PROVE  /\ same # {} /\ last \in same
         /\ SubSeq(hist, 1, last) \in Seq(T) /\ Len(SubSeq(hist, 1, last)) = last
         /\ SubSeq(hist, 1, last)[last] = Table(Load(log))
         /\ Traced(log, from, SubSeq(hist, 1, last), d)
<1> DEFINE cut == SubSeq(hist, 1, last)
<1>1. PICK h : Traces(h, log, from, hist, d)  BY DEF Traced
<1>2. Len(log) \in from .. Len(log) /\ Len(log) \in Nat  OBVIOUS
<1>3. h[Len(log)] \in same
  <2>1. TableAfter(log, Len(log)) = Table(Load(log))  BY PrefixFacts DEF TableAfter
  <2>. QED  BY <1>1, <1>2, <2>1 DEF Traces
<1>4. last \in same /\ \A n \in same : last >= n
  <2>1. same \in SUBSET (1 .. Len(hist)) /\ Len(hist) \in Nat  OBVIOUS
  <2>2. \A s : Loads!Max(s) = Max(s)  BY DEF Loads!Max, Max
  <2>. QED  BY <1>3, <2>1, <2>2, Loads!MaxIs
<1>5. last \in d .. Len(hist) /\ last \in 1 .. Len(hist) /\ hist[last] = Table(Load(log))
  BY <1>4
<1>6. h[Len(log)] <= last  BY <1>3, <1>4
<1>7. cut \in Seq(T) /\ Len(cut) = last /\ \A n \in 1 .. last : cut[n] = hist[n]
  BY <1>5, CutSequence
<1>. HIDE DEF cut
<1>8. \A i \in from .. Len(log) : h[i] \in d .. last /\ h[i] \in 1 .. last
  <2> SUFFICES ASSUME NEW i \in from .. Len(log) PROVE h[i] \in d .. last /\ h[i] \in 1 .. last
    OBVIOUS
  <2>1. i <= Len(log)  OBVIOUS
  <2>2. h[i] <= h[Len(log)] /\ h[i] \in d .. Len(hist) /\ h[Len(log)] \in d .. Len(hist)
    BY <1>1, <1>2, <2>1 DEF Traces
  <2>. QED  BY <1>5, <1>6, <2>2
<1>9. h \in [from .. Len(log) -> d .. last]  BY <1>1, <1>8 DEF Traces
<1>10. Traces(h, log, from, cut, d)  BY <1>1, <1>7, <1>8, <1>9 DEF Traces
<1>11. Traced(log, from, cut, d)  BY <1>10 DEF Traced, Traces
<1>12. cut[last] = Table(Load(log))  BY <1>5, <1>7
<1>. QED  BY <1>3, <1>4, <1>7, <1>11, <1>12 DEF cut

-------------------------------------------------------------------------------
(* The tables that the beginnings of a rewritten file have                    *)
LEMMA TableType ==
  ASSUME NEW e \in 0 .. MaxEvents, NEW p, IndexOK(p, e)
  PROVE  Table(p) \in Tables
<1>1. MaxEvents \in Nat  BY BinlogAssumption
<1>2. Alive(p.ids) \in SUBSET Ids  BY <1>1 DEF IndexOK, Alive, Ids
<1>3. \A i \in Alive(p.ids) : p.ids[i].val \in Values  BY DEF IndexOK, Alive, EventRecord
<1>4. Table(p) \in [Alive(p.ids) -> Values]  BY <1>3 DEF Table
<1>. QED  BY <1>2, <1>4 DEF Tables

LEMMA EmptyTable ==
  /\ Table(EmptyProcessor) = << >> /\ Alive(EmptyProcessor.ids) = {} /\ << >> \in Tables
  /\ \A p : Alive(p.ids) = {} => Table(p) = << >>
<1>1. \A p : Alive(p.ids) = {} => Table(p) = << >>  BY DEF Table
<1>2. Alive(EmptyProcessor.ids) = {}  BY DEF EmptyProcessor, Alive
<1>3. << >> \in [{} -> Values]  OBVIOUS
<1>4. {} \in SUBSET Ids  OBVIOUS
<1>5. << >> \in Tables  BY <1>3, <1>4 DEF Tables
<1>. QED  BY <1>1, <1>2, <1>5

LEMMA NewLogTables ==
  ASSUME NEW e \in Nat, NEW p, IndexOK(p, e), NEW k \in AllKeys
  PROVE  LET live == LiveRecords(p)
             size == Len(KeyPart(k))
         IN /\ live \in Seq(LogRecords(e)) /\ size \in {0, 1}
            /\ Len(NewLog(k, p)) = size + Len(live)
            /\ TableAfter(NewLog(k, p), 0) = TableAfter(live, 0)
            /\ \A m \in 0 .. Len(live) : TableAfter(NewLog(k, p), m + size) = TableAfter(live, m)
<1> DEFINE live == LiveRecords(p)
           part == KeyPart(k)
           size == Len(part)
           S == LogRecords(e)
<1>1. live \in Seq(S)  BY LiveRecordsAre DEF Lists
<1>2. part \in Seq(S) /\ size \in {0, 1}  BY KeyParts
<1>3. NewLog(k, p) = part \o live  BY DEF NewLog
<1>. HIDE DEF live, part
<1>4. Len(part \o live) = size + Len(live)  BY <1>1, <1>2
<1>5. TableAfter(part \o live, 0) = TableAfter(live, 0)
  <2>1. Prefix(part \o live, 0) = << >> /\ Prefix(live, 0) = << >>  BY DEF Prefix
  <2>. QED  BY <2>1 DEF TableAfter
<1>6. ASSUME NEW m \in 0 .. Len(live)
      PROVE  TableAfter(part \o live, m + size) = TableAfter(live, m)
  <2>1. Prefix(part \o live, m + size) = part \o Prefix(live, m)
    BY <1>1, <1>2 DEF Prefix
  <2>2. Prefix(live, m) \in Seq(S)  BY <1>1, PrefixFacts
  <2>. QED  BY <2>1, <2>2, LoadKey DEF TableAfter, part
<1>. QED  BY <1>1, <1>2, <1>3, <1>4, <1>5, <1>6 DEF live, part

(* What the history becomes when the sync of the new file is skipped.         *)
Extends(later, hist) == \E more \in Seq(Tables) : later = hist \o more
Later(hist, p) == IF Alive(p.ids) # {} THEN hist \o << << >> >> \o TablesOf(LiveRecords(p)) ELSE hist

LEMMA LaterHistory ==
  ASSUME NEW e \in 0 .. MaxEvents, NEW p, IndexOK(p, e), NEW hist \in Seq(Tables)
  PROVE  LET later == Later(hist, p)
             live == LiveRecords(p)
         IN /\ later \in Seq(Tables)
            /\ SubSeq(later, 1, Len(hist)) = hist /\ Extends(later, hist)
            /\ Alive(p.ids) = {} => later = hist /\ live = << >>
            /\ Alive(p.ids) # {} =>
                 /\ Len(later) = Len(hist) + 1 + Len(live)
                 /\ \A m \in 0 .. Len(live) : later[Len(hist) + 1 + m] = TableAfter(live, m)
<1> DEFINE live == LiveRecords(p)
           tables == TablesOf(live)
<1>1. MaxEvents \in Nat /\ e \in Nat  BY BinlogAssumption
<1>2. live \in Seq(LogRecords(e)) /\ (Alive(p.ids) = {} => live = << >>)  BY <1>1, LiveRecordsAre DEF Lists
<1>. HIDE DEF live
<1>3. \A m \in 0 .. Len(live) : TableAfter(live, m) \in Tables
  <2> SUFFICES ASSUME NEW m \in 0 .. Len(live) PROVE TableAfter(live, m) \in Tables
    OBVIOUS
  <2>1. Prefix(live, m) \in Seq(LogRecords(e))  BY <1>2, PrefixFacts
  <2>2. IndexOK(Load(Prefix(live, m)), e)  BY <1>1, <2>1, LoadIndex
  <2>. QED  BY <2>2, TableType DEF TableAfter
<1>4. tables \in Seq(Tables) /\ Len(tables) = Len(live) /\ \A m \in 1 .. Len(live) : tables[m] = TableAfter(live, m)
  <2>1. tables = [n \in DOMAIN live |-> TableAfter(live, n)]  BY DEF TablesOf, TableAfter, Prefix
  <2>2. DOMAIN live = 1 .. Len(live) /\ Len(live) \in Nat  BY <1>2
  <2>. HIDE DEF tables
  <2>3. /\ tables \in [1 .. Len(live) -> Tables]
        /\ \A m \in 1 .. Len(live) : tables[m] = TableAfter(live, m)
    BY <1>3, <2>1, <2>2
  <2>. QED  BY <2>2, <2>3
<1>5. TableAfter(live, 0) = << >>
  <2>1. Prefix(live, 0) = << >>  BY DEF Prefix
  <2>. QED  BY <2>1, LoadAppend, EmptyTable DEF TableAfter
<1>. HIDE DEF tables
<1> DEFINE longer == hist \o << << >> >> \o tables
<1>6. << << >> >> \in Seq(Tables)  BY EmptyTable
<1>7. longer \in Seq(Tables) /\ Len(longer) = Len(hist) + 1 + Len(live) /\ SubSeq(longer, 1, Len(hist)) = hist
  <2>1. Len(longer) = Len(hist) + 1 + Len(live)  BY <1>4, <1>6
  <2>2. longer \in Seq(Tables) /\ SubSeq(longer, 1, Len(hist)) = hist  BY <1>4, <1>6
  <2>. QED  BY <2>1, <2>2
<1>8. ASSUME NEW m \in 0 .. Len(live) PROVE longer[Len(hist) + 1 + m] = TableAfter(live, m)
  <2>1. CASE m = 0  BY <1>4, <1>5, <2>1
  <2>2. CASE m # 0
    <3>1. m \in 1 .. Len(tables)  BY <1>2, <1>4, <2>2
    <3>2. longer[Len(hist) + 1 + m] = tables[m]  BY <1>4, <3>1
    <3>. QED  BY <1>4, <3>1, <3>2
  <2>. QED  BY <2>1, <2>2
<1>9. SubSeq(hist, 1, Len(hist)) = hist /\ Extends(hist, hist)
  <2> DEFINE more == << >>
  <2>1. more \in Seq(Tables) /\ hist = hist \o more  OBVIOUS
  <2>2. SubSeq(hist, 1, Len(hist)) = hist  OBVIOUS
  <2>. HIDE DEF more
  <2>. QED  BY <2>1, <2>2, Zenon DEF Extends
<1>10. Extends(longer, hist)
  <2> DEFINE more == << << >> >> \o tables
  <2>1. more \in Seq(Tables) /\ longer = hist \o more  BY <1>4, <1>6
  <2>. HIDE DEF more, longer
  <2>. QED  BY <2>1, Zenon DEF Extends
<1>. HIDE DEF longer
<1>. QED  BY <1>2, <1>7, <1>8, <1>9, <1>10 DEF Later, longer, tables, live

LEMMA TracedNewLog ==
  ASSUME NEW e \in 0 .. MaxEvents, NEW p, IndexOK(p, e), ~p.error, NEW k \in AllKeys,
         NEW hist \in Seq(Tables), NEW d \in 1 .. Len(hist), hist[Len(hist)] = Table(p)
  PROVE  LET later == Later(hist, p)
         IN /\ later \in Seq(Tables) /\ Len(hist) <= Len(later)
            /\ later[Len(later)] = Table(p)
            /\ Traced(NewLog(k, p), 0, later, d)
<1> DEFINE later == Later(hist, p)
           live == LiveRecords(p)
           log == NewLog(k, p)
           size == Len(KeyPart(k))
<1>1. e \in Nat  BY BinlogAssumption
<1>2. /\ live \in Seq(LogRecords(e)) /\ size \in {0, 1} /\ Len(log) = size + Len(live)
      /\ TableAfter(log, 0) = TableAfter(live, 0)
      /\ \A m \in 0 .. Len(live) : TableAfter(log, m + size) = TableAfter(live, m)
  BY <1>1, NewLogTables
<1>3. /\ later \in Seq(Tables)
      /\ Alive(p.ids) = {} => later = hist /\ live = << >>
      /\ Alive(p.ids) # {} =>
           /\ Len(later) = Len(hist) + 1 + Len(live)
           /\ \A m \in 0 .. Len(live) : later[Len(hist) + 1 + m] = TableAfter(live, m)
  BY LaterHistory
<1>4. TableAfter(log, Len(log)) = Table(p)
  <2>1. log \in Seq(LogRecords(e)) /\ Same(Load(log), p)  BY <1>1, NewLogLoads
  <2>. HIDE DEF log
  <2>. QED  BY <2>1, PrefixFacts, SameTable DEF TableAfter
<1>. HIDE DEF later, live, log, size
<1>5. Len(live) \in Nat /\ Len(hist) \in Nat  BY <1>2
<1>6. CASE Alive(p.ids) = {}
  <2> DEFINE h == [n \in 0 .. Len(log) |-> Len(hist)]
  <2>1. Len(live) = 0 /\ Len(log) = size /\ later = hist  BY <1>2, <1>3, <1>6
  <2>2. TableAfter(log, 0) = TableAfter(log, Len(log))
    <3>1. 0 \in 0 .. Len(live) /\ 0 + size = size  BY <1>2, <2>1
    <3>2. TableAfter(log, size) = TableAfter(live, 0)  BY <1>2, <3>1
    <3>. QED  BY <1>2, <2>1, <3>2
  <2>3. \A n \in 0 .. Len(log) : n = 0 \/ n = Len(log)  BY <1>2, <2>1
  <2>4. \A n \in 0 .. Len(log) : hist[Len(hist)] = TableAfter(log, n)  BY <1>4, <2>2, <2>3
  <2>5. Len(hist) \in d .. Len(hist) /\ Len(hist) <= Len(hist)  BY <1>5
  <2>6. Traces(h, log, 0, hist, d)  BY <2>4, <2>5 DEF Traces
  <2>7. Traced(log, 0, later, d)  BY <2>1, <2>6 DEF Traced, Traces
  <2>. QED  BY <1>3, <2>1, <2>5, <2>7 DEF later, log
<1>7. CASE Alive(p.ids) # {}
  <2> DEFINE Past(n) == IF n >= size THEN n - size ELSE 0
             h == [n \in 0 .. Len(log) |-> Len(hist) + 1 + Past(n)]
  <2>1. /\ Len(later) = Len(hist) + 1 + Len(live)
        /\ \A m \in 0 .. Len(live) : later[Len(hist) + 1 + m] = TableAfter(live, m)
    BY <1>3, <1>7
  <2>2. \A n \in 0 .. Len(log) : Past(n) \in 0 .. Len(live) /\ (n >= size => n = Past(n) + size)
                                 /\ (~(n >= size) => n = 0 /\ Past(n) = 0)
    BY <1>2, <1>5
  <2>3. \A m, n \in 0 .. Len(log) : m <= n => Past(m) <= Past(n)
    BY <1>2, <1>5
  <2>4. \A n \in 0 .. Len(log) : TableAfter(log, n) = TableAfter(live, Past(n))
    <3> SUFFICES ASSUME NEW n \in 0 .. Len(log) PROVE TableAfter(log, n) = TableAfter(live, Past(n))
      OBVIOUS
    <3>1. CASE n >= size
      <4>1. Past(n) \in 0 .. Len(live) /\ n = Past(n) + size  BY <2>2, <3>1
      <4>. HIDE DEF Past
      <4>2. TableAfter(log, Past(n) + size) = TableAfter(live, Past(n))  BY <1>2, <4>1
      <4>. QED  BY <4>1, <4>2
    <3>2. CASE ~(n >= size)
      <4>1. n = 0 /\ Past(n) = 0  BY <2>2, <3>2
      <4>. HIDE DEF Past
      <4>. QED  BY <1>2, <4>1
    <3>. QED  BY <3>1, <3>2
  <2>. HIDE DEF Past
  <2>5. h \in [0 .. Len(log) -> d .. Len(later)]
    <3>1. \A m \in 0 .. Len(live) : Len(hist) + 1 + m \in d .. Len(hist) + 1 + Len(live)
      BY <1>5
    <3>. QED  BY <2>1, <2>2, <3>1
  <2>6. \A n \in 0 .. Len(log) : later[h[n]] = TableAfter(log, n)  BY <2>1, <2>2, <2>4
  <2>7. \A m, n \in 0 .. Len(log) : m <= n => h[m] <= h[n]
    <3> SUFFICES ASSUME NEW m \in 0 .. Len(log), NEW n \in 0 .. Len(log), m <= n PROVE h[m] <= h[n]
      OBVIOUS
    <3>1. PICK a \in 0 .. Len(live), b \in 0 .. Len(live) : a = Past(m) /\ b = Past(n)  BY <2>2
    <3>2. a <= b  BY <2>3, <3>1
    <3>. QED  BY <1>5, <3>1, <3>2
  <2>8. Traces(h, log, 0, later, d)  BY <2>5, <2>6, <2>7 DEF Traces
  <2>9. Traced(log, 0, later, d)  BY <2>8 DEF Traced, Traces
  <2>10. later[Len(later)] = Table(p)
    <3>1. Len(live) \in 0 .. Len(live) /\ Len(live) + size = Len(log)  BY <1>2, <1>5
    <3>2. TableAfter(log, Len(log)) = TableAfter(live, Len(live))  BY <1>2, <3>1
    <3>. QED  BY <1>4, <2>1, <3>1, <3>2
  <2>11. Len(hist) <= Len(later)  BY <1>5, <2>1
  <2>. QED  BY <1>3, <2>9, <2>10, <2>11 DEF later, log
<1>. QED  BY <1>6, <1>7

-------------------------------------------------------------------------------
(* The inductive invariant.  FileOK: the file can be read to its end.         *)
FileOK(f, e) ==
  /\ f \in [exists : BOOLEAN, log : Seq(LogRecords(e)), synced : Nat, torn : BOOLEAN]
  /\ f.synced <= Len(f.log)
  /\ ~f.exists => f.log = << >>
  /\ ~Load(f.log).error

Typed ==
  /\ FileOK(main, events) /\ FileOK(new, events)
  /\ buffer \in Seq(LogRecords(events)) /\ \A n \in DOMAIN buffer : buffer[n].type # "key"
  /\ IndexOK(processor, events) /\ ~processor.error
  /\ state \in {"Closed", "Run"} \cup ReindexSteps
  /\ need_sync \in BOOLEAN /\ db_key \in AllKeys /\ was_empty \in BOOLEAN
  /\ past \in Seq(Tables) /\ durable \in 1 .. Len(past)
  /\ unaware \in BOOLEAN /\ keys \subseteq AllKeys
  /\ events \in 0 .. MaxEvents

KnownKeys ==
  /\ FileKey(main.log) \in keys \cup {NoKey} /\ FileKey(new.log) \in keys \cup {NoKey}
  /\ state # "Closed" => db_key \in keys

(* The history ends with the table of the program.                            *)
Present == state # "Closed" => past[Len(past)] = Table(processor)

(* Between two steps: a restart would load what the program has, once the     *)
(* buffer is written, and every beginning of the log that a crash can leave   *)
(* has a table of the history.                                                *)
Running ==
  state \in {"Run", "Reindex"} =>
    /\ main.exists
    /\ Same(Load(main.log \o buffer), processor)
    /\ Traced(main.log \o buffer, main.synced, past, durable)
    /\ need_sync \/ unaware \/ main.synced = Len(main.log)

Buffered == state \notin {"Run", "Reindex"} => buffer = << >>

(* do_reindex(), while the old file is there and once the new one is written. *)
OldFile ==
  state \in {"Write", "Barrier", "Unlink"} =>
    main.exists /\ Traced(main.log, main.synced, past, durable)

NewFile ==
  /\ state = "Write" => new.exists /\ new.log = << >>
  /\ state \in {"Barrier", "Unlink", "Rename"} => new.exists /\ new.log = NewLog(db_key, processor)
  /\ state \in {"Unlink", "Rename"} =>
       /\ Traced(new.log, new.synced, past, durable)
       /\ unaware \/ new.synced = Len(new.log)
  /\ state = "Rename" => ~main.exists

Left == state = "Closed" => Traced(Restored.log, Restored.synced, past, durable)

IInv == Typed /\ KnownKeys /\ Present /\ Running /\ Buffered /\ OldFile /\ NewFile /\ Left

HistoryStep == Promise!Next \/ UNCHANGED <<past, durable>>

-------------------------------------------------------------------------------
(* Files                                                                      *)
LEMMA FileKeys ==
  ASSUME NEW S, NEW log \in Seq(S)
  PROVE  /\ \A n \in 0 .. Len(log) : FileKey(Prefix(log, n)) \in {FileKey(log), NoKey}
         /\ \A tail \in Seq(S) : (\A n \in DOMAIN tail : tail[n].type # "key")
              => FileKey(log \o tail) \in {FileKey(log), NoKey}
<1>1. ASSUME NEW n \in 0 .. Len(log) PROVE FileKey(Prefix(log, n)) \in {FileKey(log), NoKey}
  <2>1. Prefix(log, n) # << >> => log # << >> /\ Prefix(log, n)[1] = log[1]
    BY DEF Prefix
  <2>. QED  BY <2>1 DEF FileKey
<1>2. ASSUME NEW tail \in Seq(S), \A n \in DOMAIN tail : tail[n].type # "key"
      PROVE  FileKey(log \o tail) \in {FileKey(log), NoKey}
  <2>1. CASE log = << >>
    <3>1. log \o tail = tail /\ (tail # << >> => 1 \in DOMAIN tail)  BY <2>1
    <3>. QED  BY <1>2, <3>1 DEF FileKey
  <2>2. CASE log # << >>
    <3>1. (log \o tail)[1] = log[1] /\ log \o tail # << >>  BY <2>2
    <3>. QED  BY <2>2, <3>1 DEF FileKey
  <2>. QED  BY <2>1, <2>2
<1>. QED  BY <1>1, <1>2

LEMMA EmptyFiles ==
  ASSUME NEW e \in Nat
  PROVE  /\ FileOK(NoFile, e) /\ FileOK(EmptyFile, e)
         /\ NoFile.log = << >> /\ EmptyFile.log = << >> /\ NoFile.synced = 0 /\ EmptyFile.synced = 0
         /\ ~NoFile.exists /\ EmptyFile.exists
         /\ FileKey(<< >>) = NoKey
<1>1. ~Load(<< >>).error  BY LoadAppend DEF EmptyProcessor
<1>2. /\ NoFile.log = << >> /\ EmptyFile.log = << >> /\ NoFile.synced = 0 /\ EmptyFile.synced = 0
      /\ ~NoFile.exists /\ EmptyFile.exists
  BY DEF NoFile, EmptyFile
<1>3. << >> \in Seq(LogRecords(e)) /\ Len(<< >>) = 0  OBVIOUS
<1>4. NoFile \in [exists : BOOLEAN, log : Seq(LogRecords(e)), synced : Nat, torn : BOOLEAN]
  BY <1>3 DEF NoFile
<1>5. EmptyFile \in [exists : BOOLEAN, log : Seq(LogRecords(e)), synced : Nat, torn : BOOLEAN]
  BY <1>3 DEF NoFile, EmptyFile
<1>6. FileOK(NoFile, e) /\ FileOK(EmptyFile, e)  BY <1>1, <1>2, <1>3, <1>4, <1>5 DEF FileOK
<1>7. FileKey(<< >>) = NoKey  BY DEF FileKey
<1>. QED  BY <1>2, <1>6, <1>7

Crashed(f, g) ==
  \E n \in f.synced .. Len(f.log), torn, lost \in BOOLEAN : g = AfterCrash(f, n, torn, lost)

LEMMA CrashedFile ==
  ASSUME NEW e \in Nat, NEW f, FileOK(f, e), NEW g, Crashed(f, g)
  PROVE  /\ FileOK(g, e) /\ g.exists = f.exists
         /\ FileKey(g.log) \in {FileKey(f.log), NoKey}
         /\ \A hist, d : Traced(f.log, f.synced, hist, d) => Traced(g.log, g.synced, hist, d)
<1>0. PICK n \in f.synced .. Len(f.log), torn \in BOOLEAN, lost \in BOOLEAN :
        g = AfterCrash(f, n, torn, lost)
  BY DEF Crashed
<1>1. /\ f.log \in Seq(LogRecords(e)) /\ f.synced \in Nat /\ Len(f.log) \in Nat /\ n \in 0 .. Len(f.log)
      /\ f.exists \in BOOLEAN
  BY DEF FileOK
<1>2. /\ g = [exists |-> f.exists, log |-> Prefix(f.log, n),
              synced |-> IF lost THEN n ELSE f.synced, torn |-> torn]
  <2>1. f = [exists |-> f.exists, log |-> f.log, synced |-> f.synced, torn |-> f.torn]
    BY DEF FileOK
  <2>2. g = [f EXCEPT !.log = Prefix(f.log, n), !.synced = IF lost THEN n ELSE f.synced, !.torn = torn]
    BY <1>0 DEF AfterCrash, Prefix
  <2>. QED  BY <2>1, <2>2
<1>3. Prefix(f.log, n) \in Seq(LogRecords(e)) /\ Len(Prefix(f.log, n)) = n  BY <1>1, PrefixFacts
<1>4. g.synced \in f.synced .. n /\ g.synced \in Nat  BY <1>1, <1>2
<1>5. ~Load(g.log).error  BY <1>1, <1>2, PrefixNoError DEF FileOK
<1>6. ~f.exists => Prefix(f.log, n) = << >>  BY <1>1 DEF FileOK, Prefix
<1>7. FileOK(g, e)  BY <1>1, <1>2, <1>3, <1>4, <1>5, <1>6 DEF FileOK
<1>8. FileKey(g.log) \in {FileKey(f.log), NoKey}  BY <1>1, <1>2, FileKeys
<1>9. ASSUME NEW hist, NEW d, Traced(f.log, f.synced, hist, d) PROVE Traced(g.log, g.synced, hist, d)
  BY <1>1, <1>2, <1>4, <1>9, TracedPrefix
<1>. QED  BY <1>2, <1>7, <1>8, <1>9

-------------------------------------------------------------------------------
(* The steps                                                                  *)
LEMMA RestoredFile ==
  ASSUME IInv
  PROVE  /\ FileOK(Restored, events) /\ Restored.exists
         /\ Restored.log \in Seq(LogRecords(events)) /\ Restored.synced \in 0 .. Len(Restored.log)
         /\ FileKey(Restored.log) \in keys \cup {NoKey}
         /\ IndexOK(Load(Restored.log), events) /\ ~Load(Restored.log).error
<1>1. events \in Nat /\ FileOK(main, events) /\ FileOK(new, events)
  BY BinlogAssumption DEF IInv, Typed
<1>2. FileOK(Restored, events) /\ Restored.exists  BY <1>1, EmptyFiles DEF Restored
<1>3. FileKey(Restored.log) \in keys \cup {NoKey}
  BY <1>1, EmptyFiles DEF Restored, IInv, KnownKeys
<1>4. Restored.log \in Seq(LogRecords(events)) /\ Restored.synced \in 0 .. Len(Restored.log)
      /\ ~Load(Restored.log).error
  <2>. HIDE DEF Restored
  <2>. QED  BY <1>2 DEF FileOK
<1>5. IndexOK(Load(Restored.log), events)  BY <1>1, <1>4, LoadIndex
<1>. QED  BY <1>2, <1>3, <1>4, <1>5

LEMMA WrongPasswordStep ==
  ASSUME IInv, NEW k \in AllKeys, NEW old_k \in AllKeys, WrongPassword(k, old_k)
  PROVE  IInv' /\ HistoryStep
<1>1. /\ state = "Closed" /\ main' = Restored /\ new' = (IF main.exists THEN new ELSE NoFile)
      /\ UNCHANGED <<buffer, processor, state, need_sync, db_key, was_empty, past, durable, unaware, keys,
                     events>>
  BY DEF WrongPassword, history_vars, bound_vars
<1>2. /\ FileOK(Restored, events) /\ Restored.exists /\ FileKey(Restored.log) \in keys \cup {NoKey}
  BY RestoredFile
<1>3. events \in Nat  BY BinlogAssumption DEF IInv, Typed
<1>4. Restored' = Restored
  <2>1. Restored' = IF main'.exists THEN main' ELSE IF new'.exists THEN new' ELSE EmptyFile
    BY DEF Restored
  <2>. QED  BY <1>1, <1>2, <2>1
<1>5. FileOK(new', events) /\ FileKey(new'.log) \in keys \cup {NoKey}
  BY <1>1, <1>3, EmptyFiles DEF IInv, Typed, KnownKeys
<1>6. Typed'  BY <1>1, <1>2, <1>5 DEF IInv, Typed
<1>7. KnownKeys'  BY <1>1, <1>2, <1>5 DEF IInv, KnownKeys
<1>8. Left'  BY <1>1, <1>4 DEF IInv, Left
<1>9. Present' /\ Running' /\ OldFile' /\ NewFile' /\ Buffered'
  BY <1>1 DEF IInv, Present, Running, OldFile, NewFile, Buffered
<1>. QED  BY <1>1, <1>6, <1>7, <1>8, <1>9 DEF IInv, HistoryStep

LEMMA SameItself == ASSUME NEW e \in Nat, NEW p, IndexOK(p, e), ~p.error PROVE Same(p, p)
  BY DEF Same, IndexOK

LEMMA OpenStep ==
  ASSUME IInv, NEW k \in AllKeys, NEW old_k \in AllKeys, Open(k, old_k)
  PROVE  IInv' /\ HistoryStep
<1> DEFINE f == Restored
           p == Load(f.log)
           same == {n \in durable .. Len(past) : past[n] = Table(p)}
           last == Max(same)
<1>1. /\ f.log \in Seq(LogRecords(events)) /\ f.synced \in 0 .. Len(f.log) /\ FileOK(f, events) /\ f.exists
      /\ FileKey(f.log) \in keys \cup {NoKey} /\ IndexOK(p, events) /\ ~p.error
  BY RestoredFile
<1>2. events \in Nat /\ past \in Seq(Tables) /\ durable \in 1 .. Len(past)
  BY BinlogAssumption DEF IInv, Typed
<1>3. /\ state = "Closed" /\ main' = [f EXCEPT !.torn = FALSE]
      /\ new' = (IF main.exists THEN new ELSE NoFile)
      /\ processor' = p /\ state' \in {"Run", "Reindex"}
      /\ past' = Recovered(Table(p))
      /\ unaware' = (f.synced < Len(f.log))
      /\ db_key' = k /\ keys' = keys \cup {k}
      /\ UNCHANGED <<buffer, need_sync, was_empty, durable, events>>
  BY <1>1 DEF Open, bound_vars
<1>4. Traced(f.log, f.synced, past, durable)  BY <1>3 DEF IInv, Left
<1>5. buffer = << >>  BY <1>3 DEF IInv, Buffered
<1>5a. /\ \A n : n \in same <=> n \in durable .. Len(past) /\ past[n] = Table(Load(f.log))
       /\ last = Max(same)
  OBVIOUS
<1>. HIDE DEF same, last, f
<1>6. /\ same # {} /\ last \in same /\ SubSeq(past, 1, last) \in Seq(Tables)
      /\ Len(SubSeq(past, 1, last)) = last /\ SubSeq(past, 1, last)[last] = Table(p)
      /\ Traced(f.log, f.synced, SubSeq(past, 1, last), durable)
  BY <1>1, <1>2, <1>4, <1>5a, TracedCut
<1>7. past' = SubSeq(past, 1, last)  BY <1>3, <1>6 DEF Recovered, same, last
<1>8. last \in durable .. Len(past) /\ last \in DOMAIN past /\ durable \in 1 .. last
  <2>1. last \in durable .. Len(past)  BY <1>5a, <1>6
  <2>. QED  BY <1>2, <2>1
<1>. HIDE DEF p
<1>9. f = [exists |-> f.exists, log |-> f.log, synced |-> f.synced, torn |-> f.torn]
  BY <1>1 DEF FileOK
<1>10. main'.exists /\ main'.log = f.log /\ main'.synced = f.synced /\ FileOK(main', events)
  <2>1. main' = [exists |-> f.exists, log |-> f.log, synced |-> f.synced, torn |-> FALSE]
    BY <1>3, <1>9
  <2>2. FileOK([exists |-> f.exists, log |-> f.log, synced |-> f.synced, torn |-> FALSE], events)
    BY <1>1, <1>9 DEF FileOK
  <2>. QED  BY <1>1, <2>1, <2>2
<1>11. FileOK(new', events) /\ FileKey(new'.log) \in keys \cup {NoKey}
  BY <1>2, <1>3, EmptyFiles DEF IInv, Typed, KnownKeys
<1>12. Typed'
  <2>1. past' \in Seq(Tables) /\ durable' \in 1 .. Len(past')  BY <1>3, <1>6, <1>7, <1>8
  <2>2. unaware' \in BOOLEAN  BY <1>3
  <2>3. FileOK(main', events') /\ FileOK(new', events')  BY <1>3, <1>10, <1>11
  <2>4. IndexOK(processor', events') /\ ~processor'.error  BY <1>1, <1>3
  <2>5. keys' \subseteq AllKeys /\ db_key' \in AllKeys  BY <1>3 DEF IInv, Typed
  <2>. QED  BY <1>3, <2>1, <2>2, <2>3, <2>4, <2>5 DEF IInv, Typed, ReindexSteps
<1>13. KnownKeys'  BY <1>1, <1>3, <1>10, <1>11 DEF KnownKeys
<1>14. Present'  BY <1>3, <1>6, <1>7 DEF Present
<1>15. Running'
  <2>1. main'.log \o buffer' = f.log  BY <1>1, <1>3, <1>5, <1>10
  <2>2. Same(p, p)  BY <1>1, <1>2, SameItself
  <2>3. Same(Load(main'.log \o buffer'), processor')  BY <1>3, <2>1, <2>2 DEF p
  <2>4. Traced(main'.log \o buffer', main'.synced, past', durable')  BY <1>3, <1>6, <1>7, <1>10, <2>1
  <2>5. unaware' \/ main'.synced = Len(main'.log)
    <3>1. CASE f.synced < Len(f.log)
      <4>1. unaware'  BY <1>3, <3>1
      <4>. QED  BY <4>1
    <3>2. CASE ~(f.synced < Len(f.log))
      <4>1. f.synced = Len(f.log)  BY <1>1, <3>2
      <4>. QED  BY <1>10, <4>1
    <3>. QED  BY <3>1, <3>2
  <2>. QED  BY <1>10, <2>3, <2>4, <2>5 DEF Running
<1>16. Buffered' /\ OldFile' /\ NewFile' /\ Left'  BY <1>3 DEF Buffered, OldFile, NewFile, Left
<1>17. HistoryStep
  <2>1. Promise!Recover(last)  BY <1>3, <1>7, <1>8 DEF Promise!Recover
  <2>. QED  BY <1>8, <2>1 DEF HistoryStep, Promise!Next
<1>. QED  BY <1>12, <1>13, <1>14, <1>15, <1>16, <1>17 DEF IInv

(* What holds while the program runs                                          *)
LEMMA RunningFacts ==
  ASSUME IInv, state \in {"Run", "Reindex"}
  PROVE  /\ events \in Nat /\ main.exists /\ main.log \in Seq(LogRecords(events))
         /\ main.synced \in 0 .. Len(main.log) /\ buffer \in Seq(LogRecords(events))
         /\ main = [exists |-> main.exists, log |-> main.log, synced |-> main.synced, torn |-> main.torn]
         /\ main.torn \in BOOLEAN
         /\ main.log \o buffer \in Seq(LogRecords(events))
         /\ ~Load(main.log \o buffer).error
         /\ past \in Seq(Tables) /\ durable \in 1 .. Len(past)
         /\ past[Len(past)] = Table(Load(main.log \o buffer))
         /\ FileKey(main.log \o buffer) \in keys \cup {NoKey}
<1>1. events \in Nat /\ FileOK(main, events) /\ buffer \in Seq(LogRecords(events))
      /\ past \in Seq(Tables) /\ durable \in 1 .. Len(past) /\ \A n \in DOMAIN buffer : buffer[n].type # "key"
  BY BinlogAssumption DEF IInv, Typed
<1>2. /\ main.log \in Seq(LogRecords(events)) /\ main.synced \in 0 .. Len(main.log) /\ main.torn \in BOOLEAN
      /\ main = [exists |-> main.exists, log |-> main.log, synced |-> main.synced, torn |-> main.torn]
  BY <1>1 DEF FileOK
<1>3. main.exists /\ Same(Load(main.log \o buffer), processor)  BY DEF IInv, Running
<1>4. main.log \o buffer \in Seq(LogRecords(events))  BY <1>1, <1>2
<1>5. ~Load(main.log \o buffer).error  BY <1>3 DEF Same
<1>6. past[Len(past)] = Table(Load(main.log \o buffer))  BY <1>3, SameTable DEF IInv, Present
<1>7. FileKey(main.log \o buffer) \in keys \cup {NoKey}
  BY <1>1, <1>2, FileKeys DEF IInv, KnownKeys
<1>. QED  BY <1>1, <1>2, <1>3, <1>4, <1>5, <1>6, <1>7

(* A record with the fields of a file, and that record with two of them       *)
(* replaced: the equation of the definition stays hidden, because the provers *)
(* rewrite with it without end                                                *)
IsFile(f) == f = [exists |-> f.exists, log |-> f.log, synced |-> f.synced, torn |-> f.torn]

LEMMA FileWith ==
  ASSUME NEW f, IsFile(f), NEW log, NEW synced
  PROVE  [f EXCEPT !.log = log, !.synced = synced]
           = [exists |-> f.exists, log |-> log, synced |-> synced, torn |-> f.torn]
<1> DEFINE g == [f EXCEPT !.log = log, !.synced = synced]
<1>1. /\ DOMAIN f = {"exists", "log", "synced", "torn"}
      /\ g = [x \in DOMAIN f |-> IF x = "synced" THEN synced ELSE IF x = "log" THEN log ELSE f[x]]
  BY DEF IsFile
<1>. HIDE DEF g
<1>2. /\ DOMAIN g = {"exists", "log", "synced", "torn"}
      /\ g["exists"] = f.exists /\ g["log"] = log /\ g["synced"] = synced /\ g["torn"] = f.torn
      /\ g = [x \in DOMAIN g |-> g[x]]
  BY <1>1
<1>3. g = [exists |-> f.exists, log |-> log, synced |-> synced, torn |-> f.torn]
  BY <1>2
<1>. QED  BY <1>3 DEF g

(* The file with the buffer written to it                                     *)
LEMMA WrittenFile ==
  ASSUME IInv, state \in {"Run", "Reindex"}, NEW synced \in 0 .. Len(main.log \o buffer)
  PROVE  LET f == [main EXCEPT !.log = main.log \o buffer, !.synced = synced] IN
         /\ FileOK(f, events) /\ f.exists /\ f.log = main.log \o buffer /\ f.synced = synced
<1>1. /\ main = [exists |-> main.exists, log |-> main.log, synced |-> main.synced, torn |-> main.torn]
      /\ main.log \o buffer \in Seq(LogRecords(events)) /\ ~Load(main.log \o buffer).error
      /\ main.exists /\ main.torn \in BOOLEAN
  BY RunningFacts
<1> DEFINE log == main.log \o buffer
<1>2. synced \in 0 .. Len(log)  OBVIOUS
<1>3. main.exists \in BOOLEAN  BY DEF IInv, Typed, FileOK
<1>. HIDE DEF log
<1>4. [main EXCEPT !.log = log, !.synced = synced]
        = [exists |-> main.exists, log |-> log, synced |-> synced, torn |-> main.torn]
  <2>1. IsFile(main)  BY <1>1 DEF IsFile
  <2>. QED  BY ONLY <2>1, FileWith
<1>5. FileOK([exists |-> main.exists, log |-> log, synced |-> synced, torn |-> main.torn], events)
  BY <1>1, <1>2, <1>3 DEF FileOK, log
<1>6. [main EXCEPT !.log = log, !.synced = synced].exists = main.exists
      /\ [main EXCEPT !.log = log, !.synced = synced].log = log
      /\ [main EXCEPT !.log = log, !.synced = synced].synced = synced
  BY <1>4
<1>. QED  BY <1>1, <1>4, <1>5, <1>6 DEF log

(* The parts of the invariant that steps of a running program do not touch    *)
LEMMA StillRunning ==
  ASSUME IInv, state \in {"Run", "Reindex"}, state' = "Run",
         UNCHANGED <<new, processor, db_key, was_empty, past, keys, events>>,
         FileOK(main', events), main'.exists, main'.log \o buffer' = main.log \o buffer,
         buffer' \in {buffer, << >>}, main'.log = main.log \/ main'.log = main.log \o buffer,
         need_sync' \in BOOLEAN, unaware' \in BOOLEAN, durable' \in 1 .. Len(past),
         Traced(main.log \o buffer, main'.synced, past, durable'),
         need_sync' \/ unaware' \/ main'.synced = Len(main'.log)
  PROVE  IInv'
<1>1. buffer' \in Seq(LogRecords(events)) /\ \A n \in DOMAIN buffer' : buffer'[n].type # "key"
  <2>1. CASE buffer' = buffer  BY <2>1 DEF IInv, Typed
  <2>2. CASE buffer' = << >>  BY <2>2
  <2>. QED  BY <2>1, <2>2
<1>2. Typed'  BY <1>1 DEF IInv, Typed
<1>3. FileKey(main'.log) \in keys \cup {NoKey}  BY RunningFacts DEF IInv, KnownKeys
<1>4. KnownKeys'  BY <1>3 DEF IInv, KnownKeys
<1>5. Present'  BY DEF IInv, Present
<1>6. Running'
  <2>1. Same(Load(main'.log \o buffer'), processor')  BY DEF IInv, Running
  <2>2. Traced(main'.log \o buffer', main'.synced, past', durable')  OBVIOUS
  <2>. QED  BY <2>1, <2>2 DEF Running
<1>7. Buffered' /\ OldFile' /\ NewFile' /\ Left'  BY DEF Buffered, OldFile, NewFile, Left
<1>. QED  BY <1>2, <1>4, <1>5, <1>6, <1>7 DEF IInv

LEMMA FlushStep == ASSUME IInv, Flush PROVE IInv' /\ HistoryStep
<1>1. /\ state = "Run" /\ state' = "Run" /\ main' = [main EXCEPT !.log = main.log \o buffer]
      /\ need_sync' = (need_sync \/ buffer # << >>) /\ buffer' = << >>
      /\ UNCHANGED <<new, processor, db_key, was_empty, past, durable, unaware, keys, events>>
  BY DEF Flush, WriteBuffer, history_vars, bound_vars
<1>2. /\ main.synced \in 0 .. Len(main.log) /\ buffer \in Seq(LogRecords(events))
      /\ main.log \in Seq(LogRecords(events)) /\ durable \in 1 .. Len(past)
      /\ main = [exists |-> main.exists, log |-> main.log, synced |-> main.synced, torn |-> main.torn]
  BY <1>1, RunningFacts
<1>3. main.synced \in 0 .. Len(main.log \o buffer)  BY <1>2
<1>4. main' = [main EXCEPT !.log = main.log \o buffer, !.synced = main.synced]  BY <1>1, <1>2
<1>5. FileOK(main', events) /\ main'.exists /\ main'.log = main.log \o buffer /\ main'.synced = main.synced
  BY <1>1, <1>3, <1>4, WrittenFile
<1>6. main'.log \o buffer' = main.log \o buffer  BY <1>1, <1>2, <1>5
<1>7. Traced(main.log \o buffer, main'.synced, past, durable')  BY <1>1, <1>5 DEF IInv, Running
<1>8. need_sync \/ unaware \/ main.synced = Len(main.log)  BY <1>1 DEF IInv, Running
<1>9. need_sync' \/ unaware' \/ main'.synced = Len(main'.log)
  <2>1. CASE buffer = << >>
    <3>1. main.log \o buffer = main.log  BY <1>2, <2>1
    <3>. QED  BY <1>1, <1>5, <1>8, <3>1
  <2>2. CASE buffer # << >>  BY <1>1, <2>2
  <2>. QED  BY <2>1, <2>2
<1>10. need_sync' \in BOOLEAN /\ unaware' \in BOOLEAN  BY <1>1 DEF IInv, Typed
<1>11. IInv'  BY <1>1, <1>2, <1>5, <1>6, <1>7, <1>9, <1>10, StillRunning
<1>. QED  BY <1>1, <1>11 DEF HistoryStep

(* sync(), which keeps a part of the history that ends with the present       *)
LEMMA SyncFacts ==
  ASSUME IInv, state = "Run", SyncFile, UNCHANGED past
  PROVE  /\ FileOK(main', events) /\ main'.exists /\ main'.log = main.log \o buffer /\ buffer' = << >>
         /\ need_sync' \in BOOLEAN /\ unaware' \in BOOLEAN /\ durable' \in 1 .. Len(past)
         /\ Traced(main.log \o buffer, main'.synced, past, durable')
         /\ unaware' \/ main'.synced = Len(main'.log)
         /\ HistoryStep
<1> DEFINE written == main.log \o buffer
           sync == need_sync \/ buffer # << >>
           synced == IF sync THEN Len(written) ELSE main.synced
<1>1. /\ main' = [main EXCEPT !.log = written, !.synced = synced]
      /\ need_sync' = FALSE /\ buffer' = << >>
      /\ unaware' = (unaware /\ ~sync)
      /\ durable' = IF unaware' THEN durable ELSE Len(past)
  BY DEF SyncFile
<1>2. /\ main.synced \in 0 .. Len(main.log) /\ buffer \in Seq(LogRecords(events))
      /\ main.log \in Seq(LogRecords(events)) /\ written \in Seq(LogRecords(events))
      /\ past \in Seq(Tables) /\ durable \in 1 .. Len(past)
      /\ past[Len(past)] = Table(Load(written))
  BY RunningFacts
<1>3. /\ Traced(written, main.synced, past, durable)
      /\ need_sync \/ unaware \/ main.synced = Len(main.log)
  BY DEF IInv, Running
<1>4. Len(written) \in Nat /\ main.synced <= Len(written) /\ (buffer = << >> => written = main.log)
  BY <1>2
<1>5. synced \in 0 .. Len(written)  BY <1>2, <1>4
<1>6. FileOK(main', events) /\ main'.exists /\ main'.log = written /\ main'.synced = synced
  BY <1>1, <1>5, WrittenFile
<1>7. Len(past) \in 1 .. Len(past) /\ Len(past) \in DOMAIN past /\ Len(past) \in durable .. Len(past)
  BY <1>2
<1>. HIDE DEF written
<1>8. unaware' \in BOOLEAN /\ need_sync' \in BOOLEAN  BY <1>1 DEF IInv, Typed
<1>9. CASE sync
  <2>1. ~unaware' /\ synced = Len(written) /\ durable' = Len(past)  BY <1>1, <1>9
  <2>2. Traced(written, synced, past, Len(past))  BY <1>2, <1>7, <2>1, TracedPresent
  <2>3. Promise!Persist(Len(past))  BY <1>7, <2>1 DEF Promise!Persist
  <2>4. HistoryStep  BY <1>7, <2>3 DEF HistoryStep, Promise!Next
  <2>. QED  BY <1>1, <1>6, <1>7, <1>8, <2>1, <2>2, <2>4 DEF written
<1>10. CASE ~sync /\ unaware
  <2>1. unaware' /\ synced = main.synced /\ durable' = durable  BY <1>1, <1>10
  <2>2. HistoryStep  BY <2>1 DEF HistoryStep
  <2>. QED  BY <1>1, <1>2, <1>3, <1>6, <1>8, <2>1, <2>2 DEF written
<1>11. CASE ~sync /\ ~unaware
  <2>1. ~unaware' /\ synced = main.synced /\ durable' = Len(past) /\ written = main.log
    BY <1>1, <1>4, <1>11
  <2>2. synced = Len(written)  BY <1>3, <1>11, <2>1
  <2>3. Traced(written, synced, past, Len(past))  BY <1>2, <1>7, <2>2, TracedPresent
  <2>4. Promise!Persist(Len(past))  BY <1>7, <2>1 DEF Promise!Persist
  <2>5. HistoryStep  BY <1>7, <2>4 DEF HistoryStep, Promise!Next
  <2>. QED  BY <1>1, <1>6, <1>7, <1>8, <2>1, <2>2, <2>3, <2>5 DEF written
<1>. QED  BY <1>9, <1>10, <1>11

LEMMA SyncStep == ASSUME IInv, Sync PROVE IInv' /\ HistoryStep
<1>1. /\ state = "Run" /\ state' = "Run" /\ SyncFile
      /\ UNCHANGED <<new, processor, db_key, was_empty, past, keys, events>>
  BY DEF Sync, bound_vars
<1>2. /\ FileOK(main', events) /\ main'.exists /\ main'.log = main.log \o buffer /\ buffer' = << >>
      /\ need_sync' \in BOOLEAN /\ unaware' \in BOOLEAN /\ durable' \in 1 .. Len(past)
      /\ Traced(main.log \o buffer, main'.synced, past, durable')
      /\ unaware' \/ main'.synced = Len(main'.log)
      /\ HistoryStep
  BY <1>1, SyncFacts
<1>3. main'.log \o buffer' = main.log \o buffer
  <2>1. main.log \o buffer \in Seq(LogRecords(events))  BY <1>1, RunningFacts
  <2>. HIDE DEF IInv
  <2>2. \A s \in Seq(LogRecords(events)) : s \o << >> = s  OBVIOUS
  <2>. QED  BY <1>2, <2>1, <2>2
<1>4. IInv'  BY <1>1, <1>2, <1>3, StillRunning
<1>. QED  BY <1>2, <1>4

LEMMA CloseStep == ASSUME IInv, Close PROVE IInv' /\ HistoryStep
<1>1. /\ state = "Run" /\ state' = "Closed" /\ SyncFile /\ processor' = EmptyProcessor
      /\ UNCHANGED <<new, db_key, was_empty, past, keys, events>>
  BY DEF Close, bound_vars
<1>2. /\ FileOK(main', events) /\ main'.exists /\ main'.log = main.log \o buffer /\ buffer' = << >>
      /\ need_sync' \in BOOLEAN /\ unaware' \in BOOLEAN /\ durable' \in 1 .. Len(past)
      /\ Traced(main.log \o buffer, main'.synced, past, durable')
      /\ HistoryStep
  BY <1>1, SyncFacts
<1>3. IndexOK(EmptyProcessor, events) /\ ~EmptyProcessor.error
  <2>1. << >> \in Seq(LogRecords(events)) /\ events \in Nat  BY <1>1, RunningFacts
  <2>2. IndexOK(EmptyProcessor, events)  BY <2>1, LoadAppend, LoadIndex
  <2>. QED  BY <2>2 DEF EmptyProcessor
<1>4. Typed'
  <2>1. << >> \in Seq(LogRecords(events)) /\ DOMAIN << >> = {}  OBVIOUS
  <2>. QED  BY <1>1, <1>2, <1>3, <2>1 DEF IInv, Typed
<1>5. KnownKeys'
  <2>1. FileKey(main'.log) \in keys \cup {NoKey}  BY <1>1, <1>2, RunningFacts
  <2>. QED  BY <1>1, <2>1 DEF IInv, KnownKeys
<1>6. Left'
  <2>1. Restored' = main'  BY <1>2 DEF Restored
  <2>. QED  BY <1>1, <1>2, <2>1 DEF Left
<1>7. Present' /\ Running' /\ Buffered' /\ OldFile' /\ NewFile'
  BY <1>1, <1>2 DEF Present, Running, Buffered, OldFile, NewFile
<1>. QED  BY <1>2, <1>4, <1>5, <1>6, <1>7 DEF IInv

Appends(S, a, b, r) ==
  /\ a \o b \in Seq(S) /\ Append(a \o b, r) \in Seq(S) /\ Append(b, r) \in Seq(S)
  /\ Append(b, r) # << >> /\ a \o Append(b, r) = Append(a \o b, r)
  /\ Append(a \o b, r) \o << >> = Append(a \o b, r)
  /\ Len(a) <= Len(a \o b) /\ Len(a \o b) <= Len(Append(a \o b, r))

LEMMA AppendFacts ==
  ASSUME NEW S, NEW a \in Seq(S), NEW b \in Seq(S), NEW r \in S
  PROVE  Appends(S, a, b, r)
<1>1. a \o b \in Seq(S) /\ Append(b, r) \in Seq(S) /\ <<r>> \in Seq(S)  OBVIOUS
<1>2. a \o Append(b, r) = Append(a \o b, r)  OBVIOUS
<1>3. ASSUME NEW c \in Seq(S)
      PROVE  /\ Append(c, r) \in Seq(S) /\ Append(c, r) # << >> /\ Append(c, r) \o << >> = Append(c, r)
             /\ Len(c) <= Len(Append(c, r)) /\ Append(c, r) = c \o <<r>>
  <2>1. Append(c, r) \in Seq(S) /\ Len(c) <= Len(Append(c, r)) /\ Append(c, r) # << >>
    <3>1. Append(c, r) \in Seq(S) /\ Len(Append(c, r)) = Len(c) + 1 /\ Len(c) \in Nat  OBVIOUS
    <3>2. Len(<< >>) = 0 /\ Len(c) + 1 # 0 /\ Len(c) <= Len(c) + 1  BY <3>1
    <3> DEFINE d == Append(c, r)
    <3>. HIDE DEF d
    <3>3. d # << >>  BY <3>1, <3>2 DEF d
    <3>. QED  BY <3>1, <3>2, <3>3 DEF d
  <2>2. \A d \in Seq(S) : d \o << >> = d  OBVIOUS
  <2>3. Append(c, r) = c \o <<r>>  OBVIOUS
  <2>. QED  BY <2>1, <2>2, <2>3
<1>4. Len(a) <= Len(a \o b)  OBVIOUS
<1>. QED  BY <1>1, <1>2, <1>3, <1>4 DEF Appends

LEMMA OneMore ==
  ASSUME NEW S, NEW a \in Seq(S), NEW r \in S
  PROVE  <<r>> \in Seq(S) /\ Append(a, r) = a \o <<r>> /\ DOMAIN <<r>> = {1} /\ <<r>>[1] = r
  OBVIOUS

LEMMA AddEventStep ==
  ASSUME IInv, NEW r \in LogRecords(events + 1), IsUse(processor, r), r.type # "key", AddEvent(r)
  PROVE  IInv' /\ HistoryStep
<1> DEFINE e == events + 1
           whole == main.log \o buffer
           p == ProcessorAdd(processor, r)
           q == ProcessorAdd(Load(whole), r)
           records == Append(buffer, r)
<1>1. /\ state = "Run" /\ events < MaxEvents /\ events' = events + 1 /\ processor' = p
      /\ state' \in {"Run", "Reindex", "Failed"} /\ (state' = "Failed" <=> p.error)
      /\ past' = Append(past, Table(p))
      /\ UNCHANGED <<new, db_key, was_empty, durable, unaware, keys>>
  BY DEF AddEvent
<1>2. \/ /\ main' = [main EXCEPT !.log = main.log \o records] /\ buffer' = << >>
         /\ need_sync' = (need_sync \/ records # << >>)
      \/ main' = main /\ buffer' = records /\ need_sync' = need_sync
  BY DEF AddEvent, WriteBuffer
<1>3. /\ events \in Nat /\ main.exists /\ main.log \in Seq(LogRecords(events))
      /\ main.synced \in 0 .. Len(main.log) /\ buffer \in Seq(LogRecords(events))
      /\ main = [exists |-> main.exists, log |-> main.log, synced |-> main.synced, torn |-> main.torn]
      /\ main.torn \in BOOLEAN
      /\ whole \in Seq(LogRecords(events))
      /\ past \in Seq(Tables) /\ durable \in 1 .. Len(past)
      /\ FileKey(whole) \in keys \cup {NoKey}
  BY <1>1, RunningFacts
<1>4. e \in 0 .. MaxEvents /\ e \in Nat /\ events <= e
  BY <1>1, <1>3, BinlogAssumption DEF IInv, Typed
<1>5. LogRecords(events) \subseteq LogRecords(e) /\ Seq(LogRecords(events)) \subseteq Seq(LogRecords(e))
      /\ \A i : IndexOK(i, events) => IndexOK(i, e)
  BY <1>3, <1>4, MoreEvents
<1>6. Same(Load(whole), processor) /\ Traced(whole, main.synced, past, durable)
      /\ (need_sync \/ unaware \/ main.synced = Len(main.log))
  BY <1>1 DEF IInv, Running
<1>7. IndexOK(Load(whole), e) /\ IndexOK(processor, e)
  BY <1>3, <1>5, LoadIndex DEF IInv, Typed
<1>. HIDE DEF whole, p, q
<1>8. Same(q, p) /\ ~p.error /\ ~q.error
  <2>1. Same(q, p)  BY <1>4, <1>6, <1>7, UseKeepsSame DEF p, q
  <2>. QED  BY <2>1 DEF Same
<1>9. IndexOK(p, e)  BY <1>4, <1>7, AddKeepsIndex DEF p
<1>10. Table(p) \in Tables  BY <1>4, <1>9, TableType
<1>11. state' \in {"Run", "Reindex"}  BY <1>1, <1>8
<1>12. /\ whole \in Seq(LogRecords(e)) /\ Append(whole, r) \in Seq(LogRecords(e))
       /\ main.synced \in 0 .. Len(whole) /\ records \in Seq(LogRecords(e)) /\ records # << >>
       /\ buffer \in Seq(LogRecords(e)) /\ main.log \in Seq(LogRecords(e))
       /\ main.log \o records = Append(whole, r)
       /\ Append(whole, r) \o << >> = Append(whole, r)
       /\ main.synced <= Len(Append(whole, r))
  <2>1. buffer \in Seq(LogRecords(e)) /\ main.log \in Seq(LogRecords(e))  BY <1>3, <1>5
  <2>2. main.synced <= Len(main.log) /\ main.synced \in Nat /\ Len(main.log) \in Nat  BY <1>3
  <2>3. /\ whole \in Seq(LogRecords(e)) /\ Append(whole, r) \in Seq(LogRecords(e))
        /\ records \in Seq(LogRecords(e)) /\ records # << >> /\ main.log \o records = Append(whole, r)
        /\ Append(whole, r) \o << >> = Append(whole, r)
        /\ Len(main.log) <= Len(whole) /\ Len(whole) <= Len(Append(whole, r))
    <3>1. PICK S : S = LogRecords(e)  OBVIOUS
    <3>2. PICK x : x = r /\ x \in S  BY <3>1
    <3>3. PICK a, b : a = main.log /\ b = buffer /\ a \in Seq(S) /\ b \in Seq(S)  BY <2>1, <3>1
    <3>4. Appends(S, a, b, x)  BY ONLY <3>2, <3>3, AppendFacts
    <3>. QED  BY <3>1, <3>2, <3>3, <3>4 DEF whole, Appends
  <2>4. Len(whole) \in Nat /\ Len(Append(whole, r)) \in Nat  BY <2>3
  <2>5. main.synced \in 0 .. Len(whole) /\ main.synced <= Len(Append(whole, r))
    BY <2>2, <2>3, <2>4
  <2>. QED  BY <2>1, <2>3, <2>5
<1>13. Load(Append(whole, r)) = q  BY <1>12, LoadAppend DEF q
<1>14. Table(q) = Table(p)  BY <1>8, SameTable
<1>15. Traced(Append(whole, r), main.synced, past', durable)
  BY <1>1, <1>3, <1>6, <1>10, <1>12, <1>13, <1>14, TracedAppend
<1>16. /\ main' = [exists |-> main.exists, log |-> main'.log, synced |-> main.synced, torn |-> main.torn]
       /\ \/ main'.log = Append(whole, r) /\ buffer' = << >> /\ need_sync' = TRUE
          \/ main'.log = main.log /\ buffer' = records /\ need_sync' = need_sync
  <2>1. CASE main' = main /\ buffer' = records /\ need_sync' = need_sync  BY <1>3, <2>1
  <2>2. CASE /\ main' = [main EXCEPT !.log = main.log \o records] /\ buffer' = << >>
             /\ need_sync' = (need_sync \/ records # << >>)
    <3>1. main' = [main EXCEPT !.log = Append(whole, r)]  BY <1>12, <2>2
    <3>2. main' = [main EXCEPT !.log = Append(whole, r), !.synced = main.synced]  BY <1>3, <3>1
    <3>3. main' = [exists |-> main.exists, log |-> Append(whole, r), synced |-> main.synced,
                   torn |-> main.torn]
      <4>1. IsFile(main)  BY <1>3 DEF IsFile
      <4>2. [main EXCEPT !.log = Append(whole, r), !.synced = main.synced]
              = [exists |-> main.exists, log |-> Append(whole, r), synced |-> main.synced,
                 torn |-> main.torn]
        BY ONLY <4>1, FileWith
      <4>. QED  BY ONLY <3>2, <4>2
    <3>4. need_sync' = TRUE  BY <1>12, <2>2
    <3>5. main'.log = Append(whole, r)  BY <3>3
    <3>. QED  BY <2>2, <3>3, <3>4, <3>5
  <2>. QED  BY <1>2, <2>1, <2>2
<1>. HIDE DEF records
<1>17. main'.exists /\ main'.synced = main.synced /\ main'.torn \in BOOLEAN  BY <1>3, <1>16
<1>18. main'.log \o buffer' = Append(whole, r)  BY <1>12, <1>16
<1>19. FileOK(main', e)
  <2>1. main'.log \in Seq(LogRecords(e)) /\ main.synced <= Len(main'.log)
    <3>1. CASE main'.log = Append(whole, r)  BY <1>12, <3>1
    <3>2. CASE main'.log = main.log  BY <1>3, <1>12, <3>2
    <3>. QED  BY <1>16, <3>1, <3>2
  <2>2. ~Load(main'.log).error  BY <1>8, <1>13, <1>16 DEF IInv, Typed, FileOK
  <2>3. main'.exists \in BOOLEAN  BY <1>16 DEF IInv, Typed, FileOK
  <2>4. main.synced \in Nat  BY <1>3
  <2>5. main' \in [exists : BOOLEAN, log : Seq(LogRecords(e)), synced : Nat, torn : BOOLEAN]
    BY <1>16, <1>17, <2>1, <2>3, <2>4
  <2>. QED  BY <1>17, <2>1, <2>2, <2>5 DEF FileOK
<1>20. FileOK(new, e)  BY <1>5 DEF IInv, Typed, FileOK
<1>21. Typed'
  <2>1. buffer' \in Seq(LogRecords(e)) /\ \A n \in DOMAIN buffer' : buffer'[n].type # "key"
    <3>1. CASE buffer' = << >>  BY <3>1
    <3>2. CASE buffer' = Append(buffer, r)
      <4>1. \A n \in DOMAIN buffer : buffer[n].type # "key"  BY DEF IInv, Typed
      <4>2. \A n \in DOMAIN Append(buffer, r) : \/ n \in DOMAIN buffer /\ Append(buffer, r)[n] = buffer[n]
                                                \/ Append(buffer, r)[n] = r
        BY <1>12
      <4>. QED  BY <1>12, <3>2, <4>1, <4>2 DEF records
    <3>. QED  BY <1>16, <3>1, <3>2 DEF records
  <2>2. past' \in Seq(Tables) /\ durable' \in 1 .. Len(past')  BY <1>1, <1>3, <1>10
  <2>3. need_sync' \in BOOLEAN  BY <1>16 DEF IInv, Typed
  <2>4. FileOK(main', events') /\ FileOK(new', events') /\ IndexOK(processor', events') /\ ~processor'.error
        /\ events' \in 0 .. MaxEvents
    BY <1>1, <1>4, <1>8, <1>9, <1>19, <1>20
  <2>5. buffer' \in Seq(LogRecords(events'))  BY <1>1, <2>1
  <2>. QED  BY <1>1, <1>11, <2>1, <2>2, <2>3, <2>4, <2>5 DEF IInv, Typed, ReindexSteps
<1>22. KnownKeys'
  <2>1. FileKey(Append(whole, r)) \in keys \cup {NoKey}
    <3>0. /\ <<r>> \in Seq(LogRecords(e)) /\ Append(whole, r) = whole \o <<r>>
          /\ DOMAIN <<r>> = {1} /\ <<r>>[1] = r
      BY <1>12, OneMore
    <3>1. PICK tail \in Seq(LogRecords(e)) : Append(whole, r) = whole \o tail /\ DOMAIN tail = {1} /\ tail[1] = r
      BY <3>0, Zenon
    <3>2. \A n \in DOMAIN tail : tail[n].type # "key"  BY <3>1
    <3>3. FileKey(whole \o tail) \in {FileKey(whole), NoKey}  BY <1>12, <3>1, <3>2, FileKeys
    <3>. QED  BY <1>3, <3>1, <3>3
  <2>2. FileKey(main'.log) \in keys \cup {NoKey}  BY <1>16, <2>1 DEF IInv, KnownKeys
  <2>. QED  BY <1>1, <2>2 DEF IInv, KnownKeys
<1>23. Present'
  <2>1. past'[Len(past')] = Table(p)  BY <1>1, <1>3
  <2>. QED  BY <1>1, <2>1 DEF Present
<1>24. Running'
  <2>1. Same(Load(main'.log \o buffer'), processor')  BY <1>1, <1>8, <1>13, <1>18
  <2>2. Traced(main'.log \o buffer', main'.synced, past', durable')  BY <1>1, <1>15, <1>17, <1>18
  <2>3. need_sync' \/ unaware' \/ main'.synced = Len(main'.log)  BY <1>1, <1>6, <1>16, <1>17
  <2>. QED  BY <1>17, <2>1, <2>2, <2>3 DEF Running
<1>25. Buffered' /\ OldFile' /\ NewFile' /\ Left'  BY <1>11 DEF Buffered, OldFile, NewFile, Left
<1>26. HistoryStep
  <2>1. past' \in Seq(Tables) /\ Len(past') = Len(past) + 1 /\ Len(past) \in Nat
        /\ SubSeq(past', 1, Len(past)) = past /\ past'[Len(past) + 1] = Table(p)
    BY <1>1, <1>3, <1>10
  <2>2. \A n \in Len(past) + 1 .. Len(past') : past'[n] \in Tables  BY <2>1
  <2>3. Promise!Change  BY <1>1, <2>1, <2>2 DEF Promise!Change
  <2>. QED  BY <2>3 DEF HistoryStep, Promise!Next
<1>. QED  BY <1>21, <1>22, <1>23, <1>24, <1>25, <1>26 DEF IInv

LEMMA UseStep ==
  ASSUME IInv,
         \/ \E v \in Values : Add(v)
         \/ \E i \in Ids, v \in Values : Rewrite(i, v)
         \/ \E i \in Ids : Erase(i)
  PROVE  IInv' /\ HistoryStep
<1>1. events \in Nat /\ processor.last \in 0 .. events /\ Alive(processor.ids) \subseteq 1 .. processor.last
  BY BinlogAssumption DEF IInv, Typed, IndexOK, Alive
<1>2. 1 .. processor.last \subseteq 1 .. events + 1 /\ processor.last + 1 \in 1 .. events + 1
      /\ processor.last < processor.last + 1
  BY <1>1
<1>3. ASSUME NEW v \in Values, Add(v) PROVE IInv' /\ HistoryStep
  <2> DEFINE r == Record("add", processor.last + 1, v)
  <2>1. r \in LogRecords(events + 1) /\ IsUse(processor, r) /\ r.type # "key"
    BY <1>2 DEF Record, LogRecords, IsUse
  <2>2. AddEvent(r)  BY <1>3 DEF Add
  <2>. QED  BY <2>1, <2>2, AddEventStep
<1>4. ASSUME NEW i \in Ids, NEW v \in Values, Rewrite(i, v) PROVE IInv' /\ HistoryStep
  <2> DEFINE r == Record("rewrite", i, v)
  <2>1. AddEvent(r) /\ i \in Alive(processor.ids)  BY <1>4 DEF Rewrite
  <2>2. r \in LogRecords(events + 1) /\ IsUse(processor, r) /\ r.type # "key"
    BY <1>1, <1>2, <2>1 DEF Record, LogRecords, IsUse
  <2>. QED  BY <2>1, <2>2, AddEventStep
<1>5. ASSUME NEW i \in Ids, Erase(i) PROVE IInv' /\ HistoryStep
  <2> DEFINE r == Record("erase", i, NoKey)
  <2>1. AddEvent(r) /\ i \in Alive(processor.ids)  BY <1>5 DEF Erase
  <2>2. r \in LogRecords(events + 1) /\ IsUse(processor, r) /\ r.type # "key"
    BY <1>1, <1>2, <2>1 DEF Record, LogRecords, IsUse
  <2>. QED  BY <2>1, <2>2, AddEventStep
<1>. QED  BY <1>3, <1>4, <1>5

(* do_reindex()                                                              *)
LEMMA ChangeKeyStep == ASSUME IInv, NEW k \in AllKeys, ChangeKey(k) PROVE IInv' /\ HistoryStep
<1>1. /\ state = "Run" /\ state' = "Reindex" /\ db_key' = k /\ keys' = keys \cup {k}
      /\ UNCHANGED <<main, new, buffer, processor, need_sync, was_empty, past, durable, unaware, events>>
  BY DEF ChangeKey, disk_vars
<1>2. Typed'  BY <1>1 DEF IInv, Typed, ReindexSteps
<1>3. KnownKeys'  BY <1>1 DEF IInv, KnownKeys
<1>4. Present' /\ Running' /\ Buffered' /\ OldFile' /\ NewFile' /\ Left'
  BY <1>1 DEF IInv, Present, Running, Buffered, OldFile, NewFile, Left
<1>. QED  BY <1>1, <1>2, <1>3, <1>4 DEF IInv, HistoryStep

LEMMA ReindexCannotOpenStep == ASSUME IInv, ReindexCannotOpen PROVE IInv' /\ HistoryStep
<1>1. /\ state = "Reindex" /\ state' = "Run"
      /\ UNCHANGED <<main, new, buffer, processor, need_sync, db_key, was_empty, past, durable, unaware, keys,
                     events>>
  BY DEF ReindexCannotOpen, ReindexStep, disk_vars, bound_vars
<1>2. Typed'  BY <1>1 DEF IInv, Typed
<1>3. KnownKeys'  BY <1>1 DEF IInv, KnownKeys
<1>4. Present' /\ Running' /\ Buffered' /\ OldFile' /\ NewFile' /\ Left'
  BY <1>1 DEF IInv, Present, Running, Buffered, OldFile, NewFile, Left
<1>. QED  BY <1>1, <1>2, <1>3, <1>4 DEF IInv, HistoryStep

(* The old file alone is as good as with the buffer.                          *)
LEMMA OldFileTraced ==
  ASSUME IInv, state \in {"Run", "Reindex", "Write", "Barrier", "Unlink"}
  PROVE  main.exists /\ Traced(main.log, main.synced, past, durable)
<1>1. CASE state \in {"Run", "Reindex"}
  <2>1. /\ main.log \in Seq(LogRecords(events)) /\ buffer \in Seq(LogRecords(events))
        /\ main.synced \in 0 .. Len(main.log) /\ main.log \o buffer \in Seq(LogRecords(events)) /\ main.exists
    BY <1>1, RunningFacts
  <2>2. Traced(main.log \o buffer, main.synced, past, durable)  BY <1>1 DEF IInv, Running
  <2>3. Len(main.log) \in main.synced .. Len(main.log \o buffer) /\ main.synced \in main.synced .. Len(main.log)
        /\ main.synced \in Nat /\ Len(main.log) \in 0 .. Len(main.log)
    BY <2>1
  <2>4. Prefix(main.log \o buffer, Len(main.log)) = main.log
    <3>1. PICK a \in Seq(LogRecords(events)), b \in Seq(LogRecords(events)) : a = main.log /\ b = buffer
      BY <2>1
    <3>2. Prefix(a \o b, Len(a)) = a  BY ONLY <3>1, PrefixFacts
    <3>. QED  BY <3>1, <3>2
  <2>5. Traced(Prefix(main.log \o buffer, Len(main.log)), main.synced, past, durable)
    BY <2>1, <2>2, <2>3, TracedPrefix
  <2>. QED  BY <2>1, <2>4, <2>5
<1>2. CASE state \in {"Write", "Barrier", "Unlink"}  BY <1>2 DEF IInv, OldFile
<1>. QED  BY <1>1, <1>2

LEMMA ReindexOpenStep == ASSUME IInv, ReindexOpen PROVE IInv' /\ HistoryStep
<1>1. /\ state = "Reindex" /\ state' = "Write" /\ new' = EmptyFile /\ buffer' = << >>
      /\ was_empty' = (main.log = << >>)
      /\ UNCHANGED <<main, processor, need_sync, db_key, past, durable, unaware, keys, events>>
  BY DEF ReindexOpen, ReindexStep, bound_vars
<1>2. events \in Nat  BY <1>1, RunningFacts
<1>3. FileOK(EmptyFile, events) /\ EmptyFile.exists /\ EmptyFile.log = << >> /\ FileKey(EmptyFile.log) = NoKey
  BY <1>2, EmptyFiles
<1>4. Typed'
  <2>1. << >> \in Seq(LogRecords(events)) /\ DOMAIN << >> = {}  OBVIOUS
  <2>. QED  BY <1>1, <1>3, <2>1 DEF IInv, Typed, ReindexSteps
<1>5. KnownKeys'  BY <1>1, <1>3 DEF IInv, KnownKeys
<1>6. OldFile'
  <2>1. main.exists /\ Traced(main.log, main.synced, past, durable)  BY <1>1, OldFileTraced
  <2>. QED  BY <1>1, <2>1 DEF OldFile
<1>7. Present' /\ Running' /\ Buffered' /\ NewFile' /\ Left'
  BY <1>1, <1>3 DEF IInv, Present, Running, Buffered, NewFile, Left
<1>. QED  BY <1>1, <1>4, <1>5, <1>6, <1>7 DEF IInv, HistoryStep

LEMMA ReindexWriteStep == ASSUME IInv, ReindexWrite PROVE IInv' /\ HistoryStep
<1> DEFINE log == NewLog(db_key, processor)
<1>1. /\ state = "Write" /\ state' = "Barrier"
      /\ new' = [new EXCEPT !.log = new.log \o (IF db_key = NoKey THEN << >> ELSE <<KeyRecord(db_key)>>)
                                            \o LiveRecords(processor)]
      /\ UNCHANGED <<main, buffer, processor, need_sync, db_key, was_empty, past, durable, unaware, keys, events>>
  BY DEF ReindexWrite, ReindexStep, bound_vars
<1>2. /\ events \in Nat /\ FileOK(new, events) /\ IndexOK(processor, events) /\ ~processor.error
      /\ db_key \in AllKeys
  BY BinlogAssumption DEF IInv, Typed
<1>3. new.exists /\ new.log = << >>  BY <1>1 DEF IInv, NewFile
<1>4. log \in Seq(LogRecords(events)) /\ Same(Load(log), processor) /\ FileKey(log) \in {db_key, NoKey}
  BY <1>2, NewLogLoads
<1>5. new.log \o (IF db_key = NoKey THEN << >> ELSE <<KeyRecord(db_key)>>) \o LiveRecords(processor) = log
  <2>1. KeyPart(db_key) \in Seq(LogRecords(events))  BY <1>2, KeyParts
  <2>2. << >> \o KeyPart(db_key) = KeyPart(db_key)  BY <2>1
  <2>. QED  BY <1>3, <2>2 DEF NewLog, KeyPart
<1>. HIDE DEF log
<1>6. /\ new = [exists |-> new.exists, log |-> new.log, synced |-> new.synced, torn |-> new.torn]
      /\ new.exists \in BOOLEAN /\ new.torn \in BOOLEAN /\ new.synced \in Nat /\ new.synced <= Len(new.log)
  BY <1>2 DEF FileOK
<1>7. new' = [exists |-> new.exists, log |-> log, synced |-> new.synced, torn |-> new.torn]
  <2>1. new' = [new EXCEPT !.log = log, !.synced = new.synced]  BY <1>1, <1>5, <1>6
  <2>2. IsFile(new)  BY <1>6 DEF IsFile
  <2>3. [new EXCEPT !.log = log, !.synced = new.synced]
          = [exists |-> new.exists, log |-> log, synced |-> new.synced, torn |-> new.torn]
    BY ONLY <2>2, FileWith
  <2>. QED  BY ONLY <2>1, <2>3
<1>8. new'.exists /\ new'.log = log /\ FileOK(new', events)
  <2>1. new.synced = 0 /\ new.synced <= Len(log)  BY <1>3, <1>4, <1>6
  <2>2. ~Load(log).error  BY <1>4 DEF Same
  <2>. QED  BY <1>3, <1>4, <1>6, <1>7, <2>1, <2>2 DEF FileOK
<1>9. Typed'  BY <1>1, <1>8 DEF IInv, Typed, ReindexSteps
<1>10. KnownKeys'
  <2>1. db_key \in keys  BY <1>1 DEF IInv, KnownKeys
  <2>2. FileKey(new'.log) \in keys \cup {NoKey}  BY <1>4, <1>8, <2>1
  <2>. QED  BY <1>1, <2>1, <2>2 DEF IInv, KnownKeys
<1>11. NewFile'  BY <1>1, <1>8 DEF NewFile, log
<1>12. Present' /\ Running' /\ Buffered' /\ OldFile' /\ Left'
  BY <1>1 DEF IInv, Present, Running, Buffered, OldFile, Left
<1>. QED  BY <1>1, <1>9, <1>10, <1>11, <1>12 DEF IInv, HistoryStep

LEMMA ReindexBarrierStep == ASSUME IInv, ReindexBarrier PROVE IInv' /\ HistoryStep
<1> DEFINE log == NewLog(db_key, processor)
           synced == IF was_empty THEN new.synced ELSE Len(new.log)
<1>1. /\ state = "Barrier" /\ state' = "Unlink" /\ new' = [new EXCEPT !.synced = synced]
      /\ need_sync' = FALSE /\ unaware' = (was_empty /\ new.log # << >>)
      /\ past' = (IF was_empty THEN Later(past, processor) ELSE past)
      /\ UNCHANGED <<main, buffer, processor, db_key, was_empty, durable, keys, events>>
  BY DEF ReindexBarrier, ReindexStep, bound_vars, Later
<1>2. /\ events \in Nat /\ events \in 0 .. MaxEvents /\ FileOK(new, events)
      /\ IndexOK(processor, events) /\ ~processor.error
      /\ db_key \in AllKeys /\ past \in Seq(Tables) /\ durable \in 1 .. Len(past) /\ was_empty \in BOOLEAN
  BY BinlogAssumption DEF IInv, Typed
<1>3. new.exists /\ new.log = log /\ past[Len(past)] = Table(processor)
      /\ main.exists /\ Traced(main.log, main.synced, past, durable)
  BY <1>1 DEF IInv, NewFile, Present, OldFile
<1>4. log \in Seq(LogRecords(events)) /\ Same(Load(log), processor)  BY <1>2, NewLogLoads
<1>5. /\ new = [exists |-> new.exists, log |-> new.log, synced |-> new.synced, torn |-> new.torn]
      /\ new.exists \in BOOLEAN /\ new.torn \in BOOLEAN /\ new.synced \in Nat /\ new.synced <= Len(new.log)
  BY <1>2 DEF FileOK
<1>6. PICK later : later = Later(past, processor)  OBVIOUS
<1>6a. /\ later \in Seq(Tables) /\ Len(past) <= Len(later)
       /\ later[Len(later)] = Table(processor)
       /\ Traced(log, 0, later, durable)
  BY <1>2, <1>3, <1>6, TracedNewLog
<1>6b. /\ SubSeq(later, 1, Len(past)) = past /\ Extends(later, past)
       /\ Alive(processor.ids) = {} => later = past
       /\ Alive(processor.ids) # {} => Len(later) = Len(past) + 1 + Len(LiveRecords(processor))
  BY <1>2, <1>6, LaterHistory
<1>6c. Len(LiveRecords(processor)) \in Nat  BY <1>2, LiveRecordsAre DEF Lists
<1>. HIDE DEF log, synced
<1>7. synced \in Nat /\ synced <= Len(log) /\ Len(log) \in Nat /\ (~was_empty => synced = Len(log))
  BY <1>3, <1>4, <1>5 DEF synced
<1>8. new' = [exists |-> new.exists, log |-> log, synced |-> synced, torn |-> new.torn]
  <2>1. new' = [new EXCEPT !.log = log, !.synced = synced]  BY <1>1, <1>3, <1>5
  <2>2. IsFile(new)  BY <1>5 DEF IsFile
  <2>3. [new EXCEPT !.log = log, !.synced = synced]
          = [exists |-> new.exists, log |-> log, synced |-> synced, torn |-> new.torn]
    BY ONLY <2>2, FileWith
  <2>. QED  BY ONLY <2>1, <2>3
<1>9. new'.exists /\ new'.log = log /\ new'.synced = synced /\ FileOK(new', events)
  <2>1. ~Load(log).error  BY <1>4 DEF Same
  <2>. QED  BY <1>3, <1>4, <1>5, <1>7, <1>8, <2>1 DEF FileOK
<1>10. /\ past' \in Seq(Tables) /\ durable \in 1 .. Len(past') /\ past'[Len(past')] = Table(processor)
       /\ Traced(log, synced, past', durable) /\ Traced(main.log, main.synced, past', durable)
  <2>1. CASE was_empty
    <3>1. past' = later  BY <1>1, <1>6, <2>1
    <3>2. past' \in Seq(Tables) /\ past'[Len(past')] = Table(processor) /\ Traced(log, 0, past', durable)
          /\ Len(past) <= Len(past')
      BY <1>6a, <3>1
    <3>3. Len(log) \in 0 .. Len(log) /\ synced \in 0 .. Len(log) /\ Prefix(log, Len(log)) = log /\ 0 \in Nat
      BY <1>4, <1>7, PrefixFacts
    <3>4. Traced(log, synced, past', durable)
      <4>1. Traced(Prefix(log, Len(log)), synced, past', durable)  BY <1>4, <3>2, <3>3, TracedPrefix
      <4>. QED  BY <3>3, <4>1
    <3>5. Traced(main.log, main.synced, past', durable)
      <4>1. PICK more \in Seq(Tables) : past' = past \o more  BY <1>6b, <3>1 DEF Extends
      <4>2. durable \in Nat \ {0}  BY <1>2
      <4>. QED  BY <1>2, <1>3, <4>1, <4>2, TracedLonger
    <3>. QED  BY <1>2, <3>2, <3>4, <3>5
  <2>2. CASE ~was_empty
    <3>1. past' = past /\ synced = Len(log)  BY <1>1, <1>7, <2>2
    <3>2. past[Len(past)] = Table(Load(log))  BY <1>3, <1>4, SameTable
    <3>3. Traced(log, Len(log), past, durable)  BY <1>2, <1>4, <3>2, TracedPresent
    <3>. QED  BY <1>2, <1>3, <3>1, <3>3
  <2>. QED  BY <1>2, <2>1, <2>2
<1>11. unaware' \in BOOLEAN /\ (unaware' \/ synced = Len(log))
  <2>1. CASE ~was_empty  BY <1>1, <1>7, <2>1
  <2>2. CASE was_empty /\ log # << >>  BY <1>1, <1>3, <2>2
  <2>3. CASE was_empty /\ log = << >>
    <3>1. Len(log) = 0  BY <2>3
    <3>. QED  BY <1>1, <1>3, <1>7, <2>3, <3>1
  <2>. QED  BY <1>2, <2>1, <2>2, <2>3
<1>12. Typed'  BY <1>1, <1>9, <1>10, <1>11 DEF IInv, Typed, ReindexSteps
<1>13. KnownKeys'  BY <1>1, <1>3, <1>9 DEF IInv, KnownKeys
<1>14. Present'  BY <1>1, <1>10 DEF Present
<1>15. OldFile'  BY <1>1, <1>3, <1>10 DEF OldFile
<1>16. NewFile'  BY <1>1, <1>9, <1>10, <1>11 DEF NewFile, log
<1>17. Running' /\ Buffered' /\ Left'  BY <1>1 DEF IInv, Running, Buffered, Left
<1>18. HistoryStep
  <2>1. CASE was_empty /\ Alive(processor.ids) # {}
    <3>1. past' = later  BY <1>1, <1>6, <2>1
    <3>2. /\ past' \in Seq(Tables) /\ SubSeq(past', 1, Len(past)) = past
          /\ Len(past') = Len(past) + 1 + Len(LiveRecords(processor))
      BY <1>6a, <1>6b, <2>1, <3>1
    <3>3. Len(past') > Len(past) /\ Len(past) \in Nat
      <4>1. Len(past) \in Nat  BY <1>2
      <4>2. PICK a \in Nat, b \in Nat : a = Len(past) /\ b = Len(LiveRecords(processor))
        BY <1>6c, <4>1
      <4>3. Len(past') = a + 1 + b  BY <3>2, <4>2
      <4>. QED  BY <4>2, <4>3
    <3>4. \A n \in Len(past) + 1 .. Len(past') : past'[n] \in Tables  BY <3>2, <3>3
    <3>5. Promise!Change  BY <1>1, <3>2, <3>3, <3>4 DEF Promise!Change
    <3>. QED  BY <3>5 DEF HistoryStep, Promise!Next
  <2>2. CASE ~(was_empty /\ Alive(processor.ids) # {})
    <3>1. past' = past  BY <1>1, <1>6, <1>6b, <2>2
    <3>. QED  BY <1>1, <3>1 DEF HistoryStep
  <2>. QED  BY <2>1, <2>2
<1>. QED  BY <1>12, <1>13, <1>14, <1>15, <1>16, <1>17, <1>18 DEF IInv

(* The old file is gone: a restart finds the new one.                         *)
LEMMA ReindexUnlinkStep == ASSUME IInv, ReindexUnlink PROVE IInv' /\ HistoryStep
<1>1. /\ state = "Unlink" /\ state' = "Rename" /\ main' = NoFile
      /\ UNCHANGED <<new, buffer, processor, need_sync, db_key, was_empty, past, durable, unaware, keys, events>>
  BY DEF ReindexUnlink, ReindexStep, bound_vars
<1>2. FileOK(NoFile, events) /\ ~NoFile.exists /\ FileKey(NoFile.log) = NoKey
  BY BinlogAssumption, EmptyFiles DEF IInv, Typed
<1>3. Typed'  BY <1>1, <1>2 DEF IInv, Typed, ReindexSteps
<1>4. KnownKeys'  BY <1>1, <1>2 DEF IInv, KnownKeys
<1>5. NewFile'  BY <1>1, <1>2 DEF IInv, NewFile
<1>6. Present' /\ Running' /\ Buffered' /\ OldFile' /\ Left'
  BY <1>1 DEF IInv, Present, Running, Buffered, OldFile, Left
<1>. QED  BY <1>1, <1>3, <1>4, <1>5, <1>6 DEF IInv, HistoryStep

(* The new file takes its name: it loads as the index that wrote it.          *)
LEMMA ReindexRenameStep == ASSUME IInv, ReindexRename PROVE IInv' /\ HistoryStep
<1> DEFINE log == NewLog(db_key, processor)
<1>1. /\ state = "Rename" /\ state' = "Run" /\ main' = new /\ new' = NoFile
      /\ keys' = {db_key} /\ was_empty' = FALSE
      /\ UNCHANGED <<buffer, processor, need_sync, db_key, past, durable, unaware, events>>
  BY DEF ReindexRename, ReindexStep, bound_vars
<1>2. /\ events \in Nat /\ IndexOK(processor, events) /\ ~processor.error /\ db_key \in AllKeys
  BY BinlogAssumption DEF IInv, Typed
<1>3. FileOK(NoFile, events) /\ FileKey(NoFile.log) = NoKey  BY <1>2, EmptyFiles
<1>4. log \in Seq(LogRecords(events)) /\ Same(Load(log), processor) /\ FileKey(log) \in {db_key, NoKey}
  BY <1>2, NewLogLoads
<1>5. /\ new.exists /\ new.log = log /\ Traced(new.log, new.synced, past, durable)
      /\ unaware \/ new.synced = Len(new.log)
  BY <1>1 DEF IInv, NewFile
<1>6. buffer = << >>  BY <1>1 DEF IInv, Buffered
<1>. HIDE DEF log
<1>7. Typed'  BY <1>1, <1>2, <1>3 DEF IInv, Typed
<1>8. KnownKeys'  BY <1>1, <1>3, <1>4, <1>5 DEF KnownKeys
<1>9. Running'
  <2>1. main'.log \o buffer' = log  BY <1>1, <1>4, <1>5, <1>6
  <2>. QED  BY <1>1, <1>4, <1>5, <2>1 DEF Running
<1>10. Present' /\ Buffered' /\ OldFile' /\ NewFile' /\ Left'
  BY <1>1, <1>6 DEF IInv, Present, Buffered, OldFile, NewFile, Left
<1>. QED  BY <1>1, <1>7, <1>8, <1>9, <1>10 DEF IInv, HistoryStep

(* A crash leaves beginnings of both files, of which a restart opens one.     *)
LEMMA CrashStep == ASSUME IInv, Crash PROVE IInv' /\ HistoryStep
<1>1. PICK n \in main.synced .. Len(main.log), m \in new.synced .. Len(new.log),
           torn_main \in BOOLEAN, torn_new \in BOOLEAN, lost \in BOOLEAN :
        /\ main' = AfterCrash(main, n, torn_main, lost)
        /\ new' = AfterCrash(new, m, torn_new, lost)
  BY DEF Crash
<1>2. /\ state' = "Closed" /\ buffer' = << >> /\ processor' = EmptyProcessor
      /\ need_sync' = FALSE /\ was_empty' = FALSE
      /\ UNCHANGED <<db_key, past, durable, unaware, keys, events>>
  BY DEF Crash, history_vars
<1>3. events \in Nat /\ FileOK(main, events) /\ FileOK(new, events)
  BY BinlogAssumption DEF IInv, Typed
<1>4. /\ FileOK(main', events) /\ main'.exists = main.exists
      /\ FileKey(main'.log) \in {FileKey(main.log), NoKey}
      /\ Traced(main.log, main.synced, past, durable) => Traced(main'.log, main'.synced, past, durable)
  <2>1. PICK g : g = main' /\ Crashed(main, g)  BY <1>1 DEF Crashed
  <2>2. FileOK(g, events) /\ g.exists = main.exists /\ FileKey(g.log) \in {FileKey(main.log), NoKey}
        /\ \A hist, d : Traced(main.log, main.synced, hist, d) => Traced(g.log, g.synced, hist, d)
    BY <1>3, <2>1, CrashedFile
  <2>. QED  BY <2>1, <2>2
<1>5. /\ FileOK(new', events) /\ new'.exists = new.exists
      /\ FileKey(new'.log) \in {FileKey(new.log), NoKey}
      /\ Traced(new.log, new.synced, past, durable) => Traced(new'.log, new'.synced, past, durable)
  <2>1. PICK g : g = new' /\ Crashed(new, g)  BY <1>1 DEF Crashed
  <2>2. FileOK(g, events) /\ g.exists = new.exists /\ FileKey(g.log) \in {FileKey(new.log), NoKey}
        /\ \A hist, d : Traced(new.log, new.synced, hist, d) => Traced(g.log, g.synced, hist, d)
    BY <1>3, <2>1, CrashedFile
  <2>. QED  BY <2>1, <2>2
<1>6. IndexOK(EmptyProcessor, events) /\ ~EmptyProcessor.error
  <2>1. << >> \in Seq(LogRecords(events))  OBVIOUS
  <2>2. IndexOK(EmptyProcessor, events)  BY <1>3, <2>1, LoadAppend, LoadIndex
  <2>. QED  BY <2>2 DEF EmptyProcessor
<1>7. Typed'
  <2>1. << >> \in Seq(LogRecords(events)) /\ DOMAIN << >> = {}  OBVIOUS
  <2>. QED  BY <1>2, <1>4, <1>5, <1>6, <2>1 DEF IInv, Typed
<1>8. KnownKeys'  BY <1>2, <1>4, <1>5 DEF IInv, KnownKeys
<1>9. Left'
  <2>1. Restored' = IF main'.exists THEN main' ELSE IF new'.exists THEN new' ELSE EmptyFile
    BY DEF Restored
  <2>2. CASE state \in {"Run", "Reindex", "Write", "Barrier", "Unlink"}
    <3>1. main.exists /\ Traced(main.log, main.synced, past, durable)  BY <2>2, OldFileTraced
    <3>2. Restored' = main'  BY <1>4, <2>1, <3>1
    <3>. QED  BY <1>2, <1>4, <3>1, <3>2 DEF Left
  <2>3. CASE state = "Rename"
    <3>1. ~main.exists /\ new.exists /\ Traced(new.log, new.synced, past, durable)
      BY <2>3 DEF IInv, NewFile
    <3>2. Restored' = new'  BY <1>4, <1>5, <2>1, <3>1
    <3>. QED  BY <1>2, <1>5, <3>1, <3>2 DEF Left
  <2>4. CASE state = "Closed"
    <3>1. Traced(Restored.log, Restored.synced, past, durable)  BY <2>4 DEF IInv, Left
    <3>2. CASE main.exists
      <4>1. Restored = main /\ Restored' = main'  BY <1>4, <2>1, <3>2 DEF Restored
      <4>. QED  BY <1>2, <1>4, <3>1, <4>1 DEF Left
    <3>3. CASE ~main.exists /\ new.exists
      <4>1. Restored = new /\ Restored' = new'  BY <1>4, <1>5, <2>1, <3>3 DEF Restored
      <4>. QED  BY <1>2, <1>5, <3>1, <4>1 DEF Left
    <3>4. CASE ~main.exists /\ ~new.exists
      <4>1. Restored = EmptyFile /\ Restored' = EmptyFile  BY <1>4, <1>5, <2>1, <3>4 DEF Restored
      <4>. QED  BY <1>2, <3>1, <4>1 DEF Left
    <3>. QED  BY <3>2, <3>3, <3>4
  <2>. QED  BY <2>2, <2>3, <2>4 DEF IInv, Typed, ReindexSteps
<1>10. Present' /\ Running' /\ Buffered' /\ OldFile' /\ NewFile'
  BY <1>2 DEF Present, Running, Buffered, OldFile, NewFile
<1>. QED  BY <1>2, <1>7, <1>8, <1>9, <1>10 DEF IInv, HistoryStep

-------------------------------------------------------------------------------
(* The specification                                                          *)
LEMMA InitIInv == Init => IInv
<1> SUFFICES ASSUME Init PROVE IInv
  OBVIOUS
<1>1. /\ main = NoFile /\ new = NoFile /\ buffer = << >> /\ processor = EmptyProcessor /\ state = "Closed"
      /\ need_sync = FALSE /\ db_key = NoKey /\ was_empty = FALSE
      /\ past = << << >> >> /\ durable = 1 /\ unaware = FALSE /\ keys = {} /\ events = 0
  BY DEF Init
<1>2. events \in Nat /\ events \in 0 .. MaxEvents  BY <1>1, BinlogAssumption
<1>3. /\ FileOK(NoFile, events) /\ NoFile.log = << >> /\ NoFile.synced = 0 /\ ~NoFile.exists
      /\ EmptyFile.log = << >> /\ EmptyFile.synced = 0 /\ FileKey(<< >>) = NoKey
  BY <1>2, EmptyFiles
<1>4. << >> \in Seq(LogRecords(events)) /\ DOMAIN << >> = {}  OBVIOUS
<1>5. IndexOK(EmptyProcessor, events) /\ ~EmptyProcessor.error
  <2>1. IndexOK(EmptyProcessor, events)  BY <1>2, <1>4, LoadAppend, LoadIndex
  <2>. QED  BY <2>1 DEF EmptyProcessor
<1>6. << >> \in Tables  BY EmptyTable
<1>7. past \in Seq(Tables) /\ Len(past) = 1 /\ past[1] = << >> /\ durable \in 1 .. Len(past)
  BY <1>1, <1>6
<1>8. Typed  BY <1>1, <1>2, <1>3, <1>4, <1>5, <1>7 DEF Typed, AllKeys
<1>9. KnownKeys  BY <1>1, <1>3 DEF KnownKeys
<1>10. Left
  <2>1. Restored.log = << >> /\ Restored.synced = 0  BY <1>1, <1>3 DEF Restored
  <2>2. Table(Load(<< >>)) = << >>  BY LoadAppend, EmptyTable
  <2>3. past[Len(past)] = Table(Load(<< >>)) /\ durable \in 1 .. Len(past)  BY <1>7, <2>2
  <2>4. Traced(<< >>, Len(<< >>), past, durable)  BY <1>4, <1>7, <2>3, TracedPresent
  <2>5. Len(<< >>) = 0  OBVIOUS
  <2>. QED  BY <2>1, <2>4, <2>5 DEF Left
<1>11. Present /\ Running /\ Buffered /\ OldFile /\ NewFile
  BY <1>1 DEF Present, Running, Buffered, OldFile, NewFile
<1>. QED  BY <1>8, <1>9, <1>10, <1>11 DEF IInv

LEMMA EveryStep == IInv /\ [Next]_vars => IInv' /\ HistoryStep
<1> SUFFICES ASSUME IInv, [Next]_vars PROVE IInv' /\ HistoryStep
  OBVIOUS
<1>1. CASE UNCHANGED vars
  <2>1. UNCHANGED <<main, new, buffer, processor, state, need_sync, db_key, was_empty, past, durable, unaware,
                    keys, events>>
    BY <1>1 DEF vars, disk_vars, history_vars, bound_vars
  <2>2. Typed' /\ KnownKeys'  BY <2>1 DEF IInv, Typed, KnownKeys
  <2>3. Left'
    <3>1. Restored' = Restored  BY <2>1 DEF Restored
    <3>. QED  BY <2>1, <3>1 DEF IInv, Left
  <2>4. Present' /\ Running' /\ Buffered' /\ OldFile' /\ NewFile'
    BY <2>1 DEF IInv, Present, Running, Buffered, OldFile, NewFile
  <2>. QED  BY <2>1, <2>2, <2>3, <2>4 DEF IInv, HistoryStep
<1>2. CASE \E k, old_k \in AllKeys : WrongPassword(k, old_k) \/ Open(k, old_k)
  BY <1>2, WrongPasswordStep, OpenStep
<1>3. CASE Flush \/ Sync \/ Close  BY <1>3, FlushStep, SyncStep, CloseStep
<1>4. CASE \/ \E v \in Values : Add(v) \/ \E i \in Ids : Rewrite(i, v)
           \/ \E i \in Ids : Erase(i)
  BY <1>4, UseStep
<1>5. CASE \E k \in AllKeys : ChangeKey(k)  BY <1>5, ChangeKeyStep
<1>6. CASE ReindexCannotOpen \/ ReindexOpen \/ ReindexWrite
  BY <1>6, ReindexCannotOpenStep, ReindexOpenStep, ReindexWriteStep
<1>7. CASE ReindexBarrier \/ ReindexUnlink \/ ReindexRename
  BY <1>7, ReindexBarrierStep, ReindexUnlinkStep, ReindexRenameStep
<1>8. CASE Crash  BY <1>8, CrashStep
<1>. QED  BY <1>1, <1>2, <1>3, <1>4, <1>5, <1>6, <1>7, <1>8 DEF Next

LEMMA Invariance == Spec => []IInv
<1>. USE DEF Spec
<1>. QED  BY InitIInv, EveryStep, PTL

(* The variables stay in their types, whatever the crashes.                   *)
THEOREM TypeCorrect == Spec => []TypeOK
<1>1. ASSUME IInv PROVE TypeOK
  <2>1. events \in Nat /\ MaxEvents \in Nat /\ events <= MaxEvents
    BY <1>1, BinlogAssumption DEF IInv, Typed
  <2>2. LogRecords(events) \subseteq Records
    <3>1. ASSUME NEW r \in LogRecords(events) PROVE r \in Records
      <4>1. \A i \in 1 .. events : i \in 0 .. MaxEvents  BY <2>1
      <4>2. 0 \in 0 .. MaxEvents  BY <2>1
      <4>. QED  BY <3>1, <4>1, <4>2 DEF LogRecords, Records, AllKeys
    <3>. QED  BY <3>1
  <2>3. ASSUME NEW f, FileOK(f, events) PROVE f \in Files /\ f.synced <= Len(f.log)
    BY <2>2, <2>3 DEF FileOK, Files
  <2>4. buffer \in Seq(Records)  BY <1>1, <2>2 DEF IInv, Typed
  <2>5. /\ DOMAIN processor.ids \subseteq Ids /\ \A i \in DOMAIN processor.ids : processor.ids[i] \in Records
        /\ processor.last \in 0 .. MaxEvents /\ processor.error \in BOOLEAN
    <3>1. IndexOK(processor, events)  BY <1>1 DEF IInv, Typed
    <3>2. processor.last \in 0 .. MaxEvents  BY <2>1, <3>1 DEF IndexOK
    <3>3. \A i \in 1 .. processor.last : i \in Ids /\ i \in 0 .. MaxEvents  BY <2>1, <3>2 DEF Ids
    <3>4. DOMAIN processor.ids \subseteq 1 .. processor.last /\ processor.error \in BOOLEAN
          /\ \A i \in DOMAIN processor.ids : processor.ids[i] = Deleted \/ processor.ids[i] \in EventRecord(i)
      BY <3>1 DEF IndexOK
    <3>5. Deleted \in Records  BY <2>1 DEF Deleted, Record, Records, AllKeys
    <3>6. ASSUME NEW i \in 1 .. processor.last PROVE EventRecord(i) \subseteq Records
      BY <3>3 DEF EventRecord, Records
    <3>. QED  BY <3>2, <3>3, <3>4, <3>5, <3>6
  <2>6. FileOK(main, events) /\ FileOK(new, events)  BY <1>1 DEF IInv, Typed
  <2>7. \A f \in {main, new} : f \in Files /\ f.synced <= Len(f.log)  BY <2>3, <2>6
  <2>8. /\ state \in {"Closed", "Run", "Failed"} \cup ReindexSteps
        /\ need_sync \in BOOLEAN /\ db_key \in AllKeys /\ was_empty \in BOOLEAN
        /\ past \in Seq(Tables) /\ unaware \in BOOLEAN /\ keys \subseteq AllKeys
    BY <1>1 DEF IInv, Typed
  <2>9. durable \in Nat \ {0}  BY <1>1 DEF IInv, Typed
  <2>. QED  BY <2>4, <2>5, <2>7, <2>8, <2>9 DEF TypeOK
<1>. QED  BY <1>1, Invariance, PTL

(* What a restart would load is what the running program has.                 *)
THEOREM LoadReproduces == Spec => []LoadReproducesLive
<1>1. ASSUME IInv PROVE LoadReproducesLive
  <2>1. state \in {"Run", "Reindex"} => Same(Load(main.log \o buffer), processor)
    BY <1>1 DEF IInv, Running
  <2>. QED  BY <2>1, SameTable DEF LoadReproducesLive, Same
<1>. QED  BY <1>1, Invariance, PTL

(* The index refuses no event the users add and no log a crash leaves.        *)
THEOREM NothingIsFatal == Spec => []NeverFatal
<1>1. IInv => NeverFatal  BY DEF IInv, Typed, NeverFatal, ReindexSteps
<1>. QED  BY <1>1, Invariance, PTL

(* After a crash the file opens with one of the keys in use.                  *)
THEOREM KeyStaysKnown == Spec => []KeyIsKnown
<1>1. IInv => KeyIsKnown  BY RestoredFile DEF KeyIsKnown
<1>. QED  BY <1>1, Invariance, PTL

(* The log is a durable store: each step adds states to the history, keeps a  *)
(* part of it for good, goes back to a state of it, or leaves it alone.       *)
THEOREM Durability == Spec => RecoversToAPromisedState
<1>1. Init => Promise!Init
  BY EmptyTable DEF Init, Promise!Init
<1>2. IInv /\ [Next]_vars => [Promise!Next]_(Promise!vars)
  BY EveryStep DEF HistoryStep, Promise!vars
<1>. QED  BY <1>1, <1>2, Invariance, PTL DEF Spec, RecoversToAPromisedState, Promise!Spec

===============================================================================
