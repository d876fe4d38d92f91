--------------------------- MODULE UpdatesManager ---------------------------
(***************************************************************************)
(* The order of updates in UpdatesManager (telegram/UpdatesManager.cpp).   *)
(* The server numbers its updates by pts; an update with pts and pts_count *)
(* carries the events pts - pts_count + 1 .. pts.  Updates are pushed and  *)
(* may be delayed, reordered or lost.  The manager applies an update that  *)
(* follows its pts, keeps one beyond a gap in pending_pts_updates_ and     *)
(* arms two timers: the first fetches a gap of one event, the second asks  *)
(* for the difference.  While a difference is awaited, and after one has   *)
(* failed, updates are kept in postponed_pts_updates_.                     *)
(*                                                                         *)
(* um is the state of the actor; its handlers are operators on it.  The    *)
(* rest is the network and the server.                                     *)
(***************************************************************************)
EXTENDS Integers, Sequences, FiniteSets, SequencesExt

CONSTANTS MaxPts,     \* bound: the events the server has
          Counts,     \* values of pts_count; 0 is an answer whose events a difference brings
          RunLimit,   \* GAP_TIMEOUT_UPDATE_COUNT, as process_postponed_pts_updates uses it
          MaxRare     \* bound: failed and too long differences, updates that were not parsed,
                      \* answers of count 0

ASSUME UpdatesAssumption ==
  /\ MaxPts \in Nat \ {0}
  /\ Counts \subseteq Nat
  /\ RunLimit \in Nat \ {0}
  /\ MaxRare \in Nat

VARIABLES um,        \* the UpdatesManager
          top,       \* server: pts of its last event
          wire,      \* updates that may still arrive
          requests,  \* getDifference requests on their way, by pts
          replies,   \* answers to them
          fetches,   \* getDifference requests for one event, or their answers, by the event's pts
          rare

vars == <<um, top, wire, requests, replies, fetches, rare>>

Pts == 1 .. MaxPts
Updates == [pts : Pts, count : Counts]
Replies == [kind : {"empty", "difference", "slice", "tooLong", "error"}, from : Pts, to : Pts]

Managers ==
  [pts : Pts,
   pending : Seq(Updates),                 \* pending_pts_updates_
   postponed : Seq(Updates),               \* postponed_pts_updates_
   accPts : Pts \union {-1},               \* accumulated_pts_
   accCount : Nat,                         \* accumulated_pts_count_
   running : BOOLEAN,                      \* running_get_difference_
   gapTimer : BOOLEAN,                     \* pts_gap_timeout_
   minGapTimer : BOOLEAN,                  \* min_pts_gap_timeout_
   retryTimer : BOOLEAN,                   \* retry_timeout_
   fetched : 0 .. MaxPts,                  \* last_fetched_pts_
   minPostponed : 0 .. MaxPts,             \* min_postponed_update_pts_
   several : BOOLEAN,                      \* the option session_count is above 1
   ask : SUBSET Pts, fetch : SUBSET Pts,   \* requests the handler sends
   log : Seq(Pts),                         \* history: events in the order they were applied
   missed : SUBSET Pts]                    \* history: events left out by differenceTooLong

TypeOK ==
  /\ um \in Managers
  /\ top \in Pts
  /\ wire \subseteq Updates
  /\ requests \subseteq Pts
  /\ replies \subseteq Replies
  /\ fetches \subseteq Pts
  /\ rare \in 0 .. MaxRare

Rare == rare < MaxRare /\ rare' = rare + 1

-----------------------------------------------------------------------------
(* Multisets of updates, ordered by pts and, for one pts, the larger count  *)
(* first.                                                                   *)

Before(u, v) == u.pts < v.pts \/ (u.pts = v.pts /\ v.count < u.count)

\* Mutant: updates are kept in the order they came.
EmplaceLast(us, u) == Append(us, u)

After(us, n) == SubSeq(us, n + 1, Len(us))

\* How many of them, from the first on, an update does not come before.
Place(us, u) ==
  CHOOSE n \in 0 .. Len(us) :
     /\ \A i \in 1 .. n : ~Before(u, us[i])
     /\ n < Len(us) => Before(u, us[n + 1])

Emplace(us, u) == SubSeq(us, 1, Place(us, u)) \o <<u>> \o After(us, Place(us, u))

EventCount(us) == FoldLeft(LAMBDA n, u : n + u.count, 0, us)
Events(u) == [i \in 1 .. u.count |-> u.pts - u.count + i]
AllEvents(us) == FoldLeft(LAMBDA events, u : events \o Events(u), <<>>, us)

-----------------------------------------------------------------------------
(* Steps the handlers are made of.  Whether the time left to wait is long   *)
(* (above 2 * MIN_UNFILLED_GAP_TIME) is a parameter.                        *)

\* Mutant: the timer is armed only for a gap that may be fetched.
SetLongGapTimeout(d, long) == [d EXCEPT !.gapTimer = @ \/ long, !.minGapTimer = @ \/ long]

SetPtsGapTimeout(d, long) == [d EXCEPT !.gapTimer = TRUE, !.minGapTimer = @ \/ long]

DropAllPending(d) ==
  [d EXCEPT !.accCount = 0, !.accPts = -1, !.gapTimer = FALSE, !.minGapTimer = FALSE,
            !.pending = <<>>]

Postpone(d, u) ==
  IF u.count > 1 /\ ~d.several THEN d ELSE [d EXCEPT !.postponed = Emplace(@, u)]

\* Mutant: the accumulated pts is dropped before it is used.
ProcessAllAfterDrop(d) ==
  LET e == DropAllPending(d) IN [e EXCEPT !.log = @ \o AllEvents(d.pending), !.pts = e.accPts]

ProcessAllPending(d) ==
  DropAllPending([d EXCEPT !.log = @ \o AllEvents(d.pending), !.pts = d.accPts])

\* The pending updates from the first on that follow one another.
Follows(d, i) ==
  d.pending[i].pts - d.pending[i].count = IF i = 1 THEN d.pts ELSE d.pending[i - 1].pts
Applicable(d) ==
  CHOOSE n \in 0 .. Len(d.pending) :
     /\ \A i \in 1 .. n : Follows(d, i)
     /\ n < Len(d.pending) => ~Follows(d, n + 1)

\* Mutant: the accumulated count keeps what has been applied.
ProcessPendingKeepsCount(d, long) ==
  LET n    == Applicable(d)
      done == SubSeq(d.pending, 1, n)
      left == [d EXCEPT !.log = @ \o AllEvents(done),
                        !.pts = IF n = 0 THEN @ ELSE Last(done).pts,
                        !.pending = After(@, n)]
  IN  IF left.pending = <<>> THEN left ELSE SetPtsGapTimeout(left, long)

ProcessPending(d, long) ==
  LET n    == Applicable(d)
      done == SubSeq(d.pending, 1, n)
      left == [d EXCEPT !.log = @ \o AllEvents(done),
                        !.pts = IF n = 0 THEN @ ELSE Last(done).pts,
                        !.accCount = @ - EventCount(done),
                        !.pending = After(@, n),
                        !.gapTimer = @ /\ n = 0,
                        !.minGapTimer = @ /\ n = 0]
  IN  IF left.pending = <<>> THEN left ELSE SetPtsGapTimeout(left, long)

\* process_postponed_pts_updates: outdated updates are skipped, and runs that
\* together follow pts applied, time permitting.
Runs(d) ==
  LET Fits(n) == d.postponed[n].pts - EventCount(SubSeq(d.postponed, 1, n))
  IN  {n \in 1 .. Len(d.postponed) :
         n <= RunLimit /\ Fits(n) = d.pts /\ \A i \in 1 .. n - 1 : d.pts < Fits(i)}

ProcessFirst(w) ==
  IF w.d.postponed = <<>> THEN w
  ELSE IF Head(w.d.postponed).pts <= w.d.pts THEN [w EXCEPT !.d.postponed = Tail(@)]
  ELSE IF w.time = 0 \/ Runs(w.d) = {} THEN [w EXCEPT !.time = 0]
  ELSE LET n == CHOOSE n \in Runs(w.d) : TRUE
       IN  [d |-> [w.d EXCEPT !.log = @ \o AllEvents(SubSeq(w.d.postponed, 1, n)),
                              !.pts = w.d.postponed[n].pts,
                              !.postponed = After(@, n)],
            time |-> w.time - 1]

ProcessPostponed(d, time) ==
  FoldLeft(LAMBDA w, u : ProcessFirst(w), [d |-> d, time |-> time], d.postponed).d

-----------------------------------------------------------------------------
(* add_pending_pts_update; again is AFTER_GET_DIFFERENCE_SOURCE, and        *)
(* unacceptable what is_acceptable_update says of such an update.           *)

Accumulated(d, u) ==
  [d EXCEPT !.accCount = @ + u.count, !.accPts = IF u.pts > @ THEN u.pts ELSE @]

AddPending(d, u, long, unacceptable) ==
  LET more == Accumulated(d, u)
      low  == more.accPts - more.accCount
      held == [more EXCEPT !.pending = Emplace(@, u)]
  IN  IF u.pts <= u.count \/ u.pts <= d.pts THEN d
      ELSE IF d.running \/ d.postponed # <<>> THEN Postpone(d, u)
      ELSE IF unacceptable \/ d.pts > u.pts - u.count THEN SetPtsGapTimeout(Postpone(d, u), FALSE)
      ELSE IF d.pts > low THEN SetPtsGapTimeout(Postpone(more, u), FALSE)
      ELSE IF d.pending = <<>> /\ d.pts = low /\ ~d.gapTimer
      THEN IF u.count = 0 THEN more
           ELSE [d EXCEPT !.log = @ \o Events(u), !.pts = more.accPts, !.accCount = 0, !.accPts = -1]
      ELSE IF d.pts = low THEN ProcessAllPending(held)
      ELSE IF d.pts = u.pts - u.count THEN ProcessPending(held, long)
      ELSE SetPtsGapTimeout(held, long)

-----------------------------------------------------------------------------
(* Asking for the difference.                                               *)

RunGetDifference(d, recursive) ==
  LET both == FoldLeft(Emplace, d.postponed, d.pending)
  IN  [DropAllPending(d) EXCEPT !.running = TRUE,
                                !.postponed = both,
                                !.minPostponed = IF recursive THEN @ ELSE 0,
                                !.ask = {d.pts}]

GetDifference(d) == IF d.running THEN d ELSE RunGetDifference(d, FALSE)

\* after_get_difference; view is how the time left and the updates look then.
AfterGetDifference(d, view) ==
  FoldLeft(LAMBDA e, u : AddPending(e, u, view.long, u \in view.unacceptable),
           [d EXCEPT !.retryTimer = FALSE, !.postponed = <<>>], d.postponed)

\* process_get_difference_updates and set_pts: what is in the difference is
\* applied, whatever pts is.
Applied(d, r) ==
  [d EXCEPT !.log = @ \o [i \in 1 .. r.to - r.from |-> r.from + i],
            !.pts = IF r.to > @ THEN r.to ELSE @]

\* differenceSlice: the updates that came meanwhile may make the rest of the
\* difference unnecessary.  quiet: neither date nor qts has changed.
AfterSlice(d, r, quiet, time) ==
  LET e == ProcessPostponed(Applied(d, r), time)
  IN  IF quiet /\ (e.pts = d.pts \/ (e.minPostponed # 0 /\ e.pts >= e.minPostponed))
      THEN e ELSE RunGetDifference(e, TRUE)

\* differenceTooLong.
AfterTooLong(d, r) ==
  GetDifference([d EXCEPT !.missed = @ \union (d.pts + 1 .. r.to),
                          !.pts = IF r.to > @ THEN r.to ELSE @])

-----------------------------------------------------------------------------
Becomes(d) ==
  /\ um' = [d EXCEPT !.ask = {}, !.fetch = {}]
  /\ requests' = requests \union d.ask
  /\ fetches' = fetches \union d.fetch

Init ==
  /\ um \in [pts : {1}, pending : {<<>>}, postponed : {<<>>}, accPts : {-1}, accCount : {0},
             running : {FALSE}, gapTimer : {FALSE}, minGapTimer : {FALSE}, retryTimer : {FALSE},
             fetched : {0}, minPostponed : {0}, several : BOOLEAN, ask : {{}}, fetch : {{}},
             log : {<<>>}, missed : {{}}]
  /\ top = 1
  /\ wire = {} /\ requests = {} /\ replies = {} /\ fetches = {}
  /\ rare = 0

(* Updates that arrive: on_pending_updates, and the answers to the user's   *)
(* own requests, which carry pts and pts_count too; on_get_affected_history *)
(* makes the count 0 where the events themselves are wanted.                *)

ReceiveUpdate(u, long) ==
  /\ u \in wire
  /\ wire' = wire \ {u}
  /\ LET least == IF um.minPostponed = 0 \/ u.pts < um.minPostponed THEN u.pts ELSE um.minPostponed
         d     == IF um.running THEN [um EXCEPT !.minPostponed = least] ELSE um
     IN  Becomes(AddPending(d, u, long, FALSE))
  /\ UNCHANGED <<top, replies, rare>>

ReceiveAnswer(u, long) ==
  /\ u \in wire
  /\ wire' = wire \ {u}
  /\ Becomes(AddPending(um, u, long, FALSE))
  /\ UNCHANGED <<top, replies, rare>>

ReceiveUnacceptable(u) ==
  /\ u \in wire /\ ~um.running
  /\ wire' = wire \ {u}
  /\ Becomes(GetDifference(um))
  /\ UNCHANGED <<top, replies, rare>>

\* Td::on_update of updates that could not be parsed.
ReceiveUnparsed(u) ==
  /\ u \in wire /\ Rare
  /\ wire' = wire \ {u}
  /\ Becomes([um EXCEPT !.retryTimer = TRUE])
  /\ UNCHANGED <<top, replies>>

\* repair_pts_gap, on min_pts_gap_timeout_: a gap of one event is fetched once.
CheckPtsGap ==
  /\ um.minGapTimer
  /\ LET d == [um EXCEPT !.minGapTimer = FALSE]
         p == um.pts + 1
     IN  IF /\ ~um.running /\ um.postponed = <<>> /\ um.pending # <<>>
            /\ Head(um.pending).pts = p + Head(um.pending).count
            /\ um.fetched # p
         THEN Becomes([d EXCEPT !.fetched = p, !.fetch = {p}])
         ELSE Becomes(d)
  /\ UNCHANGED <<top, wire, replies, rare>>

FillPtsGap ==
  /\ um.gapTimer
  /\ Becomes(GetDifference([um EXCEPT !.gapTimer = FALSE]))
  /\ UNCHANGED <<top, wire, replies, rare>>

RetryGetDifference ==
  /\ um.retryTimer
  /\ Becomes(GetDifference([um EXCEPT !.retryTimer = FALSE]))
  /\ UNCHANGED <<top, wire, replies, rare>>

\* on_get_pts_update: the answer may be late.
OnGetPtsUpdate(p, long) ==
  /\ p \in fetches
  /\ fetches' = fetches \ {p}
  /\ um' = IF \/ um.pts # p - 1 \/ um.running \/ um.postponed # <<>> \/ um.pending = <<>>
              \/ Head(um.pending).pts > p + 1
              \/ Head(um.pending).pts # p + Head(um.pending).count
           THEN um ELSE AddPending(um, [pts |-> p, count |-> 1], long, FALSE)
  /\ UNCHANGED <<top, wire, requests, replies, rare>>

FetchFails(p) ==
  /\ p \in fetches
  /\ fetches' = fetches \ {p}
  /\ UNCHANGED <<um, top, wire, requests, replies, rare>>

OnGetDifference(r, view, quiet, time) ==
  /\ r \in replies /\ r.kind # "error"
  /\ replies' = replies \ {r}
  /\ LET d == [um EXCEPT !.running = FALSE]
         e == CASE r.kind = "empty"      -> d
                [] r.kind = "difference" -> Applied(d, r)
                [] r.kind = "slice"      -> AfterSlice(d, r, quiet, time)
                [] r.kind = "tooLong"    -> AfterTooLong(d, r)
     IN  Becomes(IF e.running THEN e ELSE AfterGetDifference(e, view))
  /\ UNCHANGED <<top, wire, rare>>

\* Mutant: a failed request is taken for one that is still running.
FailedKeepsRunning(r) ==
  /\ r \in replies /\ r.kind = "error"
  /\ replies' = replies \ {r}
  /\ Becomes([um EXCEPT !.retryTimer = TRUE])
  /\ UNCHANGED <<top, wire, rare>>

OnFailedGetDifference(r) ==
  /\ r \in replies /\ r.kind = "error"
  /\ replies' = replies \ {r}
  /\ Becomes([um EXCEPT !.running = FALSE, !.retryTimer = TRUE])
  /\ UNCHANGED <<top, wire, rare>>

\* ping_server, on an alarm of Td every few minutes, with the pong that ends it.
\* other: the ping failed, or seq_ is behind.
PingServer(other) ==
  /\ Becomes(IF other \/ top > um.pts THEN GetDifference(um) ELSE um)
  /\ UNCHANGED <<top, wire, replies, rare>>

-----------------------------------------------------------------------------
(* The server.  A difference has single events, so a slice may end inside   *)
(* of what was pushed as one update.                                        *)

Publish(n) ==
  /\ top + n \in Pts
  /\ top' = top + n
  /\ wire' = wire \union {[pts |-> top + n, count |-> n]}
  /\ IF n = 0 THEN Rare ELSE UNCHANGED rare
  /\ UNCHANGED <<um, requests, replies, fetches>>

Answer(r) ==
  /\ r.from \in requests
  /\ requests' = requests \ {r.from}
  /\ replies' = replies \union {r}
  /\ UNCHANGED <<um, top, wire, fetches>>

AnswerDifference(p) ==
  /\ Answer([kind |-> IF p = top THEN "empty" ELSE "difference", from |-> p, to |-> top])
  /\ UNCHANGED rare

AnswerSlice(p, to) ==
  /\ p < to /\ to < top
  /\ Answer([kind |-> "slice", from |-> p, to |-> to])
  /\ UNCHANGED rare

AnswerFails(p, kind) ==
  /\ Rare
  /\ Answer([kind |-> kind, from |-> p, to |-> top])

-----------------------------------------------------------------------------
Server == \/ \E n \in Counts : Publish(n)
          \/ \E p \in requests : \/ AnswerDifference(p)
                                 \/ \E to \in Pts : AnswerSlice(p, to)
                                 \/ \E kind \in {"tooLong", "error"} : AnswerFails(p, kind)

OnDifference ==
  \E r \in replies :
     \/ OnFailedGetDifference(r)
     \/ \E view \in [long : BOOLEAN, unacceptable : SUBSET ToSet(um.postponed)],
           quiet \in BOOLEAN, time \in 0 .. Len(um.postponed) : OnGetDifference(r, view, quiet, time)

Ping == \E other \in BOOLEAN : PingServer(other)

Next == \/ Server
        \/ \E u \in wire : \/ ReceiveUnacceptable(u) \/ ReceiveUnparsed(u)
                           \/ \E long \in BOOLEAN : ReceiveUpdate(u, long) \/ ReceiveAnswer(u, long)
        \/ CheckPtsGap \/ FillPtsGap \/ RetryGetDifference
        \/ \E p \in fetches : FetchFails(p) \/ \E long \in BOOLEAN : OnGetPtsUpdate(p, long)
        \/ OnDifference \/ Ping

Spec == Init /\ [][Next]_vars

\* What goes on by itself: timers fire, the server answers, its answer arrives,
\* and a ping finds out that the manager is behind.
Work == \/ FillPtsGap \/ RetryGetDifference \/ OnDifference \/ PingServer(FALSE)
        \/ \E p \in requests : AnswerDifference(p) \/ \E to \in Pts : AnswerSlice(p, to)

CanWork == \/ um.gapTimer \/ um.retryTimer \/ requests # {} \/ replies # {}
           \/ ~um.running /\ top > um.pts

\* WF_vars(Work), with CanWork for ENABLED.  Nothing makes an update arrive:
\* each may be lost.
FairSpec == /\ Spec
            /\ []<>~CanWork \/ []<><<Work>>_vars
-----------------------------------------------------------------------------
\* Every event is applied once and in the server's order, up to the manager's
\* pts, whether it comes in an update, in a difference or is fetched; only a
\* differenceTooLong leaves some out (what the tests of pts in
\* add_pending_pts_update, UpdatesManager.cpp:2800-2931, are for).
AppliedOnceInOrder ==
  /\ \A i, j \in DOMAIN um.log : i < j => um.log[i] < um.log[j]
  /\ ToSet(um.log) = (2 .. um.pts) \ um.missed

\* A pending update is behind a gap, and the accumulated pts and count
\* describe exactly the pending updates (the CHECKs at UpdatesManager.cpp:2929,
\* 3224 and 3225); none is pending when a difference arrives (the CHECKs of
\* process_pts_update, 2794 and 2795).
PendingWaitsForAGap ==
  /\ um.accCount = EventCount(um.pending)
  /\ um.accPts = IF um.pending = <<>> THEN -1 ELSE Last(um.pending).pts
  /\ um.pending # <<>> => /\ ~um.running
                          /\ um.pts < Head(um.pending).pts - Head(um.pending).count

\* An update that is kept is not forgotten: a difference is awaited, or a timer
\* that asks for one is armed (set_pts_gap_timeout and schedule_get_difference,
\* UpdatesManager.cpp:3370 and 1279).
WaitingUpdatesHaveTimer ==
  um.pending # <<>> \/ um.postponed # <<>> => um.running \/ um.gapTimer \/ um.retryTimer

\* The manager gets to the server's pts, whatever was lost (fill_gap, the retry
\* of a failed request and on_server_pong, UpdatesManager.cpp:431, 1279, 1793).
CatchesUp == <>[](um.pts = top)
=============================================================================
