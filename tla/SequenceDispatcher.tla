------------------------- MODULE SequenceDispatcher -------------------------
(***************************************************************************)
(* MultiSequenceDispatcherImpl (telegram/SequenceDispatcher.cpp): the      *)
(* actor that orders the network queries of a chain.  It owns a            *)
(* ChainScheduler, hands what the scheduler starts to a session with       *)
(* references to the predecessors it must be invoked after, and decides    *)
(* what to do with each result: finish, send again, or ask the query's     *)
(* owner.  Around it: the session that turns references into message       *)
(* identifiers (net/Session.cpp), the delayer that keeps queries refused   *)
(* by flood control (net/NetQueryDelayer.cpp), the owner that may ask for  *)
(* a query to be sent again, and the server.                               *)
(***************************************************************************)
EXTENDS ChainScheduler

CONSTANTS ChainLists,    \* the chain lists a query may be sent with
          SessionOf,     \* session_rand: the session is chosen by the first chain
          Resendable,    \* queries whose sender may answer on_result_resendable with a resend
          TimeoutLimit,  \* total_timeout_limit_, in flood waits of one unit
          MaxFaults      \* bound: refusals, lost sessions and requests to send again

ASSUME DispatcherAssumption ==
  /\ ChainLists \subseteq Seq(Chains)
  /\ \A l \in ChainLists : l # <<>> /\ IsInjective(l)
  /\ DOMAIN SessionOf = Chains
  /\ TimeoutLimit \in Nat /\ MaxFaults \in Nat
  /\ Tasks \subseteq Nat     \* queries are named in the order they are sent

VARIABLES sched,     \* scheduler_
          at,        \* who holds the query
          after,     \* invoke_after_ of the query
          answer,    \* its result, at the server until the session has it
          waits,     \* server: messages the query's message is still invoked after
          doomed,    \* server: a message it was invoked after has failed
          flood,     \* last_timeout_ is not 0
          total,     \* total_timeout_ of the query
          owed,      \* total_timeout of the node
          executed,  \* history: what the server has executed, in order; "lost": the
                     \* answer was lost with a session, and the query is sent again
          faults

vars == <<sched, at, after, answer, waits, doomed, flood, total, owed, executed, faults>>

Places == {"new", "node", "session", "sent", "delayer", "answered", "owner", "resend", "drop", "gone",
           "lost"}     \* "lost": CHECK(!node.net_query.empty()) has failed

TypeOK ==
  /\ sched \in Schedulers
  /\ at \in [Tasks -> Places]
  /\ after \in [Tasks -> SUBSET Tasks]
  /\ answer \in [Tasks -> {"none", "ok", "error", "wait", "flood"}]
  /\ waits \in [Tasks -> SUBSET Tasks]
  /\ doomed \in [Tasks -> BOOLEAN]
  /\ flood \in [Tasks -> BOOLEAN]
  /\ total \in [Tasks -> 0 .. MaxFaults]
  /\ owed \in [Tasks -> 0 .. MaxFaults]
  /\ executed \in Seq([query : Tasks, chains : SUBSET Chains, lost : BOOLEAN])
  /\ faults \in 0 .. MaxFaults

Init ==
  /\ sched = EmptyScheduler
  /\ at = [t \in Tasks |-> "new"]
  /\ after = [t \in Tasks |-> {}]
  /\ answer = [t \in Tasks |-> "none"]
  /\ waits = [t \in Tasks |-> {}]
  /\ doomed = [t \in Tasks |-> FALSE]
  /\ flood = [t \in Tasks |-> FALSE]
  /\ total = [t \in Tasks |-> 0]
  /\ owed = [t \in Tasks |-> 0]
  /\ executed = <<>>
  /\ faults = 0

Fault == faults < MaxFaults /\ faults' = faults + 1
NoFault == UNCHANGED faults

-----------------------------------------------------------------------------
(* The dispatcher.  Its handlers work on d, the part of the state it owns. *)

d0 == [s |-> sched, at |-> at, after |-> after, answer |-> answer,
       flood |-> flood, total |-> total, owed |-> owed]

Becomes(d) ==
  /\ sched' = d.s /\ at' = d.at /\ after' = d.after /\ answer' = d.answer
  /\ flood' = d.flood /\ total' = d.total /\ owed' = d.owed
  /\ UNCHANGED <<waits, doomed, executed>>

\* loop, flush_pending_queries: everything the scheduler has started is sent.
Flush(d) ==
  LET out == ToSet(d.s.pending)
  IN  [d EXCEPT !.s.pending = <<>>,
                !.at    = [t \in Tasks |-> IF t \notin out THEN @[t]
                                           ELSE IF @[t] = "node" THEN "session" ELSE "lost"],
                !.after = [t \in Tasks |-> IF t \in out THEN ToSet(Parents(d.s, t)) ELSE @[t]],
                !.flood = [t \in Tasks |-> @[t] /\ t \notin out]]

\* Mutant: what a node owes is charged again and again.
ChargedAgain(d, t) == IF d.at[t] = "node" THEN [d EXCEPT !.total[t] = @ + d.owed[t]] ELSE d

\* check_timeout: the waits a query owes are charged when its node holds it.
Charged(d, t) ==
  IF d.at[t] = "node" THEN [d EXCEPT !.total[t] = @ + d.owed[t], !.owed[t] = 0] ELSE d
TimedOut(d, t) == d.at[t] = "node" /\ d.owed[t] > 0 /\ d.total[t] + d.owed[t] > TimeoutLimit

Finish(d, t) == Flush([d EXCEPT !.s = FinishTask(d.s, t), !.at[t] = "gone", !.after[t] = {},
                                !.owed[t] = 0, !.flood[t] = FALSE])

\* try_resend: without a callback the query goes to Td and its task ends.
TryResend(d, t) == IF t \in Resendable THEN [d EXCEPT !.at[t] = "owner"] ELSE Finish(d, t)

Expire(d, t) ==
  TryResend([Charged(d, t) EXCEPT !.s = PauseTask(d.s, t), !.answer[t] = "error"], t)

\* do_resend.
DoResend(d, t) ==
  LET held == [d EXCEPT !.at[t] = "node", !.answer[t] = "none"]
  IN  IF TimedOut(held, t) THEN Expire(held, t)
      ELSE [Charged(held, t) EXCEPT !.s = ResetTask(d.s, t)]

\* A flood wait of a query is charged to what follows it in its chains; the
\* query itself, which is among its dependents, is not at its node.
Charge(d, u) == IF TimedOut(d, u) THEN Expire(d, u) ELSE Charged(d, u)

ChargeDependents(d, t) ==
  LET late  == Dependents(d.s, t)
      owing == [d EXCEPT !.flood[t] = FALSE,
                         !.owed = [u \in Tasks |-> IF u \in ToSet(late) \ {t} THEN @[u] + 1 ELSE @[u]]]
  IN  IF d.flood[t] THEN FoldLeft(Charge, owing, late) ELSE d

Send(t, l) ==
  /\ at[t] = "new"
  /\ \A u \in Tasks : u < t => at[u] # "new"
  /\ Becomes(Flush([d0 EXCEPT !.s = CreateTask(sched, t, l), !.at[t] = "node"]))
  /\ NoFault

OnResult(t) ==
  /\ at[t] = "answered"
  /\ LET d == ChargeDependents(d0, t)
     IN  Becomes(IF answer[t] = "wait" THEN Flush(DoResend(d, t)) ELSE TryResend(d, t))
  /\ NoFault

OnResend(t) ==
  /\ at[t] \in {"resend", "drop"}
  /\ Becomes(IF at[t] = "drop" THEN Finish(d0, t) ELSE Flush(DoResend(d0, t)))
  /\ NoFault

-----------------------------------------------------------------------------
(* The owner of a query that came with a callback. *)

OwnerAccepts(t) ==
  /\ at[t] = "owner"
  /\ at' = [at EXCEPT ![t] = "drop"]
  /\ UNCHANGED <<sched, after, answer, waits, doomed, flood, total, owed, executed, faults>>

OwnerRetries(t) ==
  /\ at[t] = "owner" /\ answer[t] = "error"
  /\ Fault
  /\ at' = [at EXCEPT ![t] = "resend"]
  /\ UNCHANGED <<sched, after, answer, waits, doomed, flood, total, owed, executed>>

-----------------------------------------------------------------------------
(* The sessions. *)

Session(t) == SessionOf[Head(sched.chains[t])]

\* A predecessor has a message identifier in this session.
Referenced(t, p) == at[p] = "sent" /\ Session(p) = Session(t)

SessionSend(t) ==
  /\ at[t] = "session"
  /\ IF \A p \in after[t] : Referenced(t, p)
     THEN /\ at' = [at EXCEPT ![t] = "sent"]
          /\ waits' = [waits EXCEPT ![t] = {p \in after[t] : answer[p] = "none"}]
          /\ doomed' = [doomed EXCEPT ![t] = \E p \in after[t] : answer[p] \notin {"none", "ok"}]
          /\ UNCHANGED answer
     ELSE /\ at' = [at EXCEPT ![t] = "answered"]
          /\ answer' = [answer EXCEPT ![t] = "wait"]
          /\ UNCHANGED <<waits, doomed>>
  /\ UNCHANGED <<sched, after, flood, total, owed, executed, faults>>

\* NetQueryDelayer::delay: the query waits, or has waited too long and fails.
Delay(t) ==
  /\ flood' = [flood EXCEPT ![t] = TRUE]
  /\ total' = [total EXCEPT ![t] = @ + 1]
  /\ IF total[t] + 1 > TimeoutLimit
     THEN /\ at' = [at EXCEPT ![t] = "answered"]
          /\ answer' = [answer EXCEPT ![t] = "error"]
     ELSE /\ at' = [at EXCEPT ![t] = "delayer"]
          /\ answer' = [answer EXCEPT ![t] = "none"]

\* NetQueryDispatcher::dispatch of a result.
Dispatch(t) ==
  IF answer[t] = "flood" THEN Delay(t)
  ELSE /\ at' = [at EXCEPT ![t] = "answered"]
       /\ UNCHANGED <<answer, flood, total>>

\* A result reaches the session.
Receive(t) ==
  /\ at[t] = "sent" /\ answer[t] # "none"
  /\ waits' = [waits EXCEPT ![t] = {}]
  /\ doomed' = [doomed EXCEPT ![t] = FALSE]
  /\ Dispatch(t)
  /\ UNCHANGED <<sched, after, owed, executed, faults>>

\* NetQueryDelayer::on_slot_event.
DelayEnds(t) ==
  /\ at[t] = "delayer"
  /\ IF after[t] = {}
     THEN at' = [at EXCEPT ![t] = "session"] /\ UNCHANGED answer
     ELSE at' = [at EXCEPT ![t] = "answered"] /\ answer' = [answer EXCEPT ![t] = "wait"]
  /\ UNCHANGED <<sched, after, waits, doomed, flood, total, owed, executed, faults>>

\* on_new_session_created: messages before the first one the new session of
\* the server knows are sent again, executed or not, their answers with them;
\* what was invoked after them fails.
SessionLost(lost) ==
  /\ lost # {} /\ Fault
  /\ \A t \in lost : at[t] = "sent"
  /\ \A t, u \in lost : Session(t) = Session(u)
  /\ at' = [t \in Tasks |-> IF t \in lost THEN "session" ELSE at[t]]
  /\ waits' = [t \in Tasks |-> IF t \in lost THEN {} ELSE waits[t] \ lost]
  /\ doomed' = [t \in Tasks |-> t \notin lost /\ (doomed[t] \/ waits[t] \cap lost # {})]
  /\ answer' = [t \in Tasks |-> IF t \in lost THEN "none" ELSE answer[t]]
  /\ executed' = [i \in DOMAIN executed |->
                    [executed[i] EXCEPT !.lost = @ \/ executed[i].query \in lost]]
  /\ UNCHANGED <<sched, after, flood, total, owed>>

-----------------------------------------------------------------------------
(* The server: a message is executed after those it is invoked after, and  *)
(* fails with MSG_WAIT_FAILED when one of them has.                        *)

Unanswered(t) == at[t] = "sent" /\ answer[t] = "none"

Answers(t, a) ==
  /\ answer' = [answer EXCEPT ![t] = a]
  /\ waits' = [u \in Tasks |-> waits[u] \ {t}]
  /\ doomed' = [u \in Tasks |-> doomed[u] \/ (t \in waits[u] /\ a # "ok")]
  /\ UNCHANGED <<sched, at, after, flood, total, owed>>

ServerExecutes(t) ==
  /\ Unanswered(t) /\ waits[t] = {} /\ ~doomed[t]
  /\ executed' = Append(executed, [query |-> t, chains |-> ChainSet(sched, t), lost |-> FALSE])
  /\ Answers(t, "ok") /\ NoFault

ServerRefuses(t, a) ==
  /\ Unanswered(t) /\ waits[t] = {} /\ ~doomed[t] /\ Fault
  /\ Answers(t, a) /\ UNCHANGED executed

ServerWaitFails(t) ==
  /\ Unanswered(t) /\ doomed[t]
  /\ Answers(t, "wait") /\ UNCHANGED executed /\ NoFault

ServerWaitTimesOut(t) ==
  /\ Unanswered(t) /\ waits[t] # {} /\ Fault
  /\ Answers(t, "wait") /\ UNCHANGED executed

-----------------------------------------------------------------------------
Advance(t) == \/ OnResult(t) \/ OnResend(t) \/ OwnerAccepts(t)
              \/ SessionSend(t) \/ Receive(t) \/ DelayEnds(t)
              \/ ServerExecutes(t) \/ ServerWaitFails(t)

Next == \/ \E t \in Tasks : \/ Advance(t) \/ OwnerRetries(t) \/ ServerWaitTimesOut(t)
                            \/ \E l \in ChainLists : Send(t, l)
                            \/ \E a \in {"error", "flood"} : ServerRefuses(t, a)
        \/ \E lost \in SUBSET Tasks : SessionLost(lost)

Spec == Init /\ [][Next]_vars

\* Advance(t) is possible: unless its task waits for others to start, or its
\* message for others to be executed, somebody has work to do with the query.
CanAdvance(t) == \/ at[t] \notin {"new", "node", "sent", "gone", "lost"}
                 \/ at[t] = "sent" /\ (answer[t] # "none" \/ waits[t] = {} \/ doomed[t])

\* WF_vars(\E t \in Tasks : Advance(t)), with CanAdvance for ENABLED: something
\* goes on as long as something can: actors run, timers fire, the server
\* answers.  No query in particular is favoured, and none needs it.
FairSpec == /\ Spec
            /\ \/ []<>(\A t \in Tasks : ~CanAdvance(t))
               \/ []<><<\E t \in Tasks : Advance(t)>>_vars
-----------------------------------------------------------------------------
\* Queries of one chain are executed for the first time in the order they were
\* sent, whatever is refused, sent again, delayed or lost on the way, and one is
\* executed again only after the answers to all its executions before were lost
\* with a session (the generation test of try_start_task, ChainScheduler.h:156-178,
\* the parents start_next_task returns, 300-317, and resend_query,
\* Session.cpp:1100-1110, which cannot tell what the server has executed).
ChainOrder ==
  \A i, j \in DOMAIN executed : i < j =>
     /\ executed[i].query = executed[j].query => executed[i].lost
     /\ executed[i].chains \cap executed[j].chains # {} /\ executed[j].query < executed[i].query
        => \E k \in 1 .. i - 1 : executed[k].query = executed[j].query

\* The dispatcher's books agree with where the queries are: a pending task's
\* node holds its query, an active task's query is out, and no handler leaves
\* a started task unsent (CHECK(!node.net_query.empty()) at
\* SequenceDispatcher.cpp:441 and the CHECKs that a task exists).
TasksMatchQueries ==
  /\ sched.pending = <<>>
  /\ \A t \in Tasks :
       CASE sched.state[t] = "None"    -> at[t] \in {"new", "gone"}
         [] sched.state[t] = "Pending" -> at[t] = "node"
         [] sched.state[t] = "Paused"  -> at[t] \in {"owner", "resend", "drop"}
         [] sched.state[t] = "Active"  -> at[t] \notin {"new", "node", "gone", "lost"}

\* active_tasks of a chain counts its active tasks, across resets, pauses and
\* the chain's removal, and never passes the limit (ChainScheduler.h:168-171,
\* 184 and 208-216).
ActiveTasksAreCounted ==
  \A c \in Chains :
     /\ sched.active[c] = Cardinality({t \in ToSet(sched.chain[c]) : sched.state[t] = "Active"})
     /\ sched.active[c] <= Limit

\* No task that could start is left waiting: every change that frees a task (a
\* parent started again, finished or paused, room in a chain) tries it
\* (inactivate_task and finish_chain_task, ChainScheduler.h:203-243).
NothingWaitsInVain == \A t \in Tasks : ~CanStart(sched, t)

\* Every query that is sent ends: its sender gets an answer, although it may
\* be paused, delayed, sent again or charged with others' flood waits
\* (MultiSequenceDispatcherImpl::on_result, SequenceDispatcher.cpp:342-380).
EveryQueryEnds == <>[](\A t \in Tasks : at[t] \in {"new", "gone"})
=============================================================================
