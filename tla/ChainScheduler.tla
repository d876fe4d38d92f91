--------------------------- MODULE ChainScheduler ---------------------------
(***************************************************************************)
(* ChainScheduler (tdutils/td/utils/ChainScheduler.h) keeps tasks in       *)
(* chains.  A task belongs to one or more chains and may start when its    *)
(* predecessor in each of them has been started in the chain's current     *)
(* generation, so that a chain is pipelined; a failed task opens a new     *)
(* generation, and what follows it waits until it is started again.        *)
(*                                                                         *)
(* A scheduler is a value, and every public function of the class an       *)
(* operator from scheduler to scheduler: the component that owns one keeps *)
(* it in a variable.  The limit of 10 active tasks per chain is Limit.     *)
(***************************************************************************)
EXTENDS Naturals, Sequences, FiniteSets, SequencesExt

CONSTANTS Tasks,    \* task identifiers a run uses; a Container never reuses one
          Chains,   \* chain identifiers it uses
          Limit,    \* active tasks of a chain at which no further one starts
          NoTask

ASSUME SchedulerAssumption ==
  /\ IsFiniteSet(Tasks) /\ IsFiniteSet(Chains)
  /\ NoTask \notin Tasks
  /\ Limit \in Nat \ {0}

Schedulers ==
  [chains  : [Tasks -> Seq(Chains)],           \* Task::chains
   state   : [Tasks -> {"None", "Pending", "Active", "Paused"}],
   node    : [Tasks -> [Chains -> Nat]],       \* ChainNode::generation
   chain   : [Chains -> Seq(Tasks)],           \* ChainInfo::chain
   active  : [Chains -> Nat],                  \* ChainInfo::active_tasks
   gen     : [Chains -> Nat],                  \* ChainInfo::generation
   limited : [Chains -> Tasks \union {NoTask}],\* limited_tasks_
   pending : Seq(Tasks)]                       \* pending_tasks_

EmptyScheduler ==
  [chains  |-> [t \in Tasks |-> <<>>],
   state   |-> [t \in Tasks |-> "None"],
   node    |-> [t \in Tasks |-> [c \in Chains |-> 0]],
   chain   |-> [c \in Chains |-> <<>>],
   active  |-> [c \in Chains |-> 0],
   gen     |-> [c \in Chains |-> 1],
   limited |-> [c \in Chains |-> NoTask],
   pending |-> <<>>]

ChainSet(s, t) == ToSet(s.chains[t])
Place(s, t, c) == CHOOSE i \in 1 .. Len(s.chain[c]) : s.chain[c][i] = t

\* Chain::get_parent and get_child, as sequences of at most one task.
At(s, c, i) == IF i \in DOMAIN s.chain[c] THEN <<s.chain[c][i]>> ELSE <<>>
Parent(s, t, c) == At(s, c, Place(s, t, c) - 1)
Child(s, t, c) == At(s, c, Place(s, t, c) + 1)

\* Mutant: a query is invoked after its predecessor in its first chain only.
FirstParent(s, t) == Parent(s, t, s.chains[t][1])

\* for_each_child, and the parents start_next_task returns: in chain order.
Children(s, t) == FlattenSeq([i \in 1 .. Len(s.chains[t]) |-> Child(s, t, s.chains[t][i])])
Parents(s, t) == FlattenSeq([i \in 1 .. Len(s.chains[t]) |-> Parent(s, t, s.chains[t][i])])

\* for_each_dependent: everything behind the task in one of its chains.
Dependents(s, t) ==
  LET Behind(c) == SubSeq(s.chain[c], Place(s, t, c), Len(s.chain[c]))
      all       == FlattenSeq([i \in 1 .. Len(s.chains[t]) |-> Behind(s.chains[t][i])])
      First(i)  == \A j \in 1 .. i - 1 : all[j] # all[i]
  IN  FlattenSeq([i \in 1 .. Len(all) |-> IF First(i) THEN <<all[i]>> ELSE <<>>])

-----------------------------------------------------------------------------
\* The parent, if there is one, runs in the chain's current generation.
ParentStarted(s, t, c) == \A p \in ToSet(Parent(s, t, c)) : s.node[p][c] = s.gen[c]
HasRoom(s, c) == s.active[c] < Limit
Refuses(s, t, c) == ~ParentStarted(s, t, c) \/ ~HasRoom(s, c)

CanStart(s, t) == /\ s.state[t] = "Pending"
                  /\ \A c \in ChainSet(s, t) : ~Refuses(s, t, c)

\* do_start_task, without the children.
Started(s, t) ==
  [s EXCEPT !.state[t] = "Active",
            !.node[t]  = [c \in Chains |-> IF c \in ChainSet(s, t) THEN s.gen[c] ELSE @[c]],
            !.active   = [c \in Chains |-> IF c \in ChainSet(s, t) THEN @[c] + 1 ELSE @[c]],
            !.pending  = Append(@, t)]

\* The first chain of a pending task that refuses it remembers the task when
\* what it lacks is room.
Refused(s, t) ==
  LET stop == SelectInSeq(s.chains[t], LAMBDA c : Refuses(s, t, c))
      c    == s.chains[t][stop]
  IN  IF s.state[t] = "Pending" /\ ParentStarted(s, t, c) THEN [s EXCEPT !.limited[c] = t] ELSE s

\* try_start_task on the first of a list; a task that starts tries its children
\* before the rest of the list.
TryFirst(w) ==
  LET s == w.s
      t == Head(w.todo)
  IN  IF w.todo = <<>> THEN w
      ELSE IF CanStart(s, t) THEN [s |-> Started(s, t), todo |-> Children(s, t) \o Tail(w.todo)]
      ELSE [s |-> Refused(s, t), todo |-> Tail(w.todo)]

\* A task starts at most once, so the list is used up after so many steps.
TryStart(s, list) ==
  LET steps == Len(list) + Cardinality(Tasks) * Cardinality(Chains)
  IN  FoldLeft(LAMBDA w, n : TryFirst(w), [s |-> s, todo |-> list], [n \in 1 .. steps |-> n]).s

-----------------------------------------------------------------------------
CreateTask(s, t, chains) ==
  LET joined == [s EXCEPT !.chains[t] = chains,
                          !.state[t]  = "Pending",
                          !.node[t]   = [c \in Chains |-> 0],
                          !.chain     = [c \in Chains |-> IF c \in ToSet(chains)
                                                          THEN Append(@[c], t) ELSE @[c]]]
  IN  TryStart(joined, <<t>>)

\* Mutants of inactivate_task: the count goes down whatever the state was, and
\* a failure does not open a generation.
InactivatedTwice(s, t, failed) ==
  [s EXCEPT !.state[t] = "Pending",
            !.active   = [c \in Chains |-> IF c \in ChainSet(s, t) /\ @[c] > 0 THEN @[c] - 1 ELSE @[c]],
            !.gen      = [c \in Chains |-> IF c \in ChainSet(s, t) /\ failed THEN @[c] + 1 ELSE @[c]],
            !.limited  = [c \in Chains |-> IF c \in ChainSet(s, t) THEN NoTask ELSE @[c]]]
InactivatedQuietly(s, t, failed) ==
  [s EXCEPT !.state[t] = "Pending",
            !.active   = [c \in Chains |-> IF c \in ChainSet(s, t) THEN @[c] - 1 ELSE @[c]],
            !.limited  = [c \in Chains |-> IF c \in ChainSet(s, t) THEN NoTask ELSE @[c]]]

\* inactivate_task: what it does to the scheduler, and the tasks it hands to
\* try_start_task_later.
Inactivated(s, t, failed) ==
  LET mine      == ChainSet(s, t)
      wasActive == s.state[t] = "Active"
  IN  [s EXCEPT !.state[t] = "Pending",
                !.active   = [c \in Chains |-> IF c \in mine /\ wasActive THEN @[c] - 1 ELSE @[c]],
                !.gen      = [c \in Chains |-> IF c \in mine /\ wasActive /\ failed /\ s.node[t][c] >= @[c]
                                               THEN s.node[t][c] + 1 ELSE @[c]],
                !.limited  = [c \in Chains |-> IF c \in mine THEN NoTask ELSE @[c]]]

Other(t, u) == IF u \in {t, NoTask} THEN <<>> ELSE <<u>>

\* Mutant: the task that lacked room is forgotten.
StartFirstLater(s, t) ==
  LET Freed(c) == Other(t, Head(s.chain[c]))
  IN  FlattenSeq([i \in 1 .. Len(s.chains[t]) |-> Freed(s.chains[t][i])])

StartLater(s, t) ==
  LET Freed(c) == Other(t, s.limited[c]) \o Other(t, Head(s.chain[c]))
  IN  FlattenSeq([i \in 1 .. Len(s.chains[t]) |-> Freed(s.chains[t][i])])

FinishTask(s, t) ==
  LET off  == Inactivated(s, t, FALSE)
      left == [c \in Chains |-> IF c \in ChainSet(s, t) THEN RemoveAt(s.chain[c], Place(s, t, c))
                                ELSE s.chain[c]]
      gone(c) == c \in ChainSet(s, t) /\ left[c] = <<>>   \* chains_.erase
  IN  TryStart([off EXCEPT !.state[t]  = "None",
                           !.chains[t] = <<>>,
                           !.node[t]   = [c \in Chains |-> 0],
                           !.chain     = left,
                           !.active    = [c \in Chains |-> IF gone(c) THEN 0 ELSE @[c]],
                           !.gen       = [c \in Chains |-> IF gone(c) THEN 1 ELSE @[c]]],
               StartLater(s, t) \o Children(s, t))

ResetTask(s, t) == TryStart(Inactivated(s, t, TRUE), StartLater(s, t) \o <<t>>)

\* Mutant: pause_task leaves the task pending.
PauseLeavesPending(s, t) == TryStart(Inactivated(s, t, TRUE), StartLater(s, t))

PauseTask(s, t) == TryStart([Inactivated(s, t, TRUE) EXCEPT !.state[t] = "Paused"], StartLater(s, t))
=============================================================================
