# tdlib-control in TLA+

`tdlib-control` is a Java service (`src/tdlib-control-api`) that logs phone
numbers in to Telegram and runs commands on them, on top of a copy of TDLib
(`src/td`), a C++ client library made of actors. This directory models the parts
that carry state across threads, crashes and lost or reordered messages: the
ordering and durability of TDLib's binary log, the key-value store on top of it,
the chains of queries sent to the server, the order of the updates that come from
it, and the Java service's actuators and chat lists.

Below, `td/` stands for `src/td/`, and Java files are named without their
directories.

## The system

| Part | State it keeps | Operations | What is hard |
|---|---|---|---|
| `OrderedEventsProcessor` (tdutils) | a window of early events: vector, `offset_`, `begin_`, `end_` | `add`, `clear`, the two `*_seq_no` bounds | numbers arrive in any order; the window moves and is cut while events wait |
| `ConcurrentBinlog`, `BinlogActor` (tddb) | an atomic counter; the processor above; two lists of promises, three flags, one timer | `add_raw_event`, `erase_batch`, `force_sync`, `force_flush`, `change_key`, `close`, `timeout_expired` | numbers are taken on any thread and sent later; lazy, forced and delayed syncs share a timer |
| `Binlog` (tddb) | `<path>`, `<path>.new`, a write buffer, `need_sync_`, the key, the index | `init`/`load_binlog`, `add_event`, `flush`, `sync`, `do_reindex`, `change_key`, `close` | a crash between any two system calls, torn records, two files, keys |
| `BinlogEventsProcessor` (tddb) | two parallel vectors and four counters | `add_event`, `for_each`, `compactify` | marks, binary search and compaction must agree |
| `BinlogKeyValue` (tddb) | a map from key to value and event id, under a lock | `set`, `erase`, `erase_batch`, `erase_by_prefix`, `force_sync`, loading | events leave after the lock is left, so they cross |
| `Actuator`, `ActuatorManager` (Java) | the map of numbers; per actuator: client, last state, flags, code, command queue | `pushPhone`, `pushCode`, `pushCommand`, `close`, `run`, update handlers | HTTP threads, a pool, the receiver thread of all clients, one lock and unlocked fields |
| `Client` (Java, JNI) | handlers, the native client | `create`, `send`, receiver loop | the native client runs before its owner has it |
| chat list of `Actuator` (Java) | `chats`, `mainChatList`, `haveFullMainChatList` | update handlers, `setChatPositions`, `getMainChatList` | two orders of monitors; maps that outlive a session |
| actor scheduler, promises (tdactor) | actors, mailboxes, timeouts | `send`, migration, `MultiPromise` | messages to an actor that changes threads |
| `SqliteKeyValueAsync`, `TQueue`, SQLite wrappers (tddb) | write buffers, queues | `set`, `erase`, `flush`; `push`, `forget` | promises of batched transactions; ids and expiry |
| `ChainScheduler` (tdutils) | chains of tasks with a generation and a count each, tasks that lack room | `create_task`, `start_next_task`, `finish_task`, `reset_task`, `pause_task` | tasks are pipelined behind others that may fail later; several chains at once |
| `MultiSequenceDispatcherImpl`, `Session`, `NetQueryDelayer` (td) | the scheduler, a node per query; message identifiers; delayed queries | `send`, `on_result`, `on_resend`; sending, results, a lost session; a delay | a query refers to predecessors that have been answered, delayed or moved meanwhile |
| `UpdatesManager` (td) | pts, pending and postponed updates, accumulators, three timers, the running request | `on_get_updates`, `add_pending_pts_update`, `get_difference`, `on_get_difference`, timers, ping | updates are lost and cross with differences; slices end inside updates |
| MTProto connections, messages, files (td) | acks, containers, the client's objects, parts | sending, domain logic, downloading | loss and reordering in the network |
| `ApiController` (Java), networking, TL compiler, generated API, vendored SQLite | - | - | I/O, generated code |

Interactions. `BinlogKeyValue` and other users take a number from
`ConcurrentBinlog::next_event_id` and later send the event to `BinlogActor`; the
actor puts events in order with an `OrderedEventsProcessor` and passes them to
`Binlog`, which keeps a `BinlogEventsProcessor` of the live events and writes
the file. After a restart `Binlog::init` replays the file into the map of the
user. Requests to the server that belong to a chain go through
`MultiSequenceDispatcherImpl`, which hands them to a session with references to their
predecessors and gets every result back; the server's answers and pushed updates meet
in `UpdatesManager`. In the Java service a request calls `ActuatorManager`, which starts
`Actuator.run` on a pool; the run creates a `Client`, whose one receiver thread
calls the update handlers of every actuator.

What makes each part correct, and hence what the modules state:

* the processor runs each event once, in order, as soon as it can, and its two
  bounds are exact (`force_sync` decides by them);
* a promise is completed only after what it covers is on the disk, every promise
  is completed, and no timer is lost;
* after any crash the log opens, with a key in use, and gives a table it held, at
  or after the last one promised;
* the index holds exactly the live events and refuses no legal one;
* the log goes through the tables the map went through;
* the server first executes the queries of a chain in order, executes one again only
  when its answer was lost, and every query gets an answer, whatever is refused,
  delayed or lost;
* every event of the server is applied once, in order, and the client catches up;
* the flag that `run` tests ends with the session, a login wakes its run up, a quit
  ends it, an actuator leaves the map only when it is closed, one number has one
  actuator;
* the list holds the chats at their positions, and the monitors do not deadlock.

## Modules

Each module says at its head which files it models. `PROJECT.json` maps every
definition to its lines. Operators introduced by a comment `Mutant:` are not part
of a model: each is a plausible bug, and putting it in the place of the definition
it resembles breaks a property.

**`OrderedDelivery`** is the promise of the header's comment ("Process states in
order defined by their SeqNo"): the numbers delivered are at every moment the
longest run without a gap of those that arrived.
**`OrderedEventsProcessor`** is `OrderedEventsProcessor.h` with the vector of
slots: `RunNow` and `Store` are the two branches of `add`, `DrainStopsAt` and
`Drained` its loop, `Settle` the lines after the loop up to `try_compactify`; its
variables are named as in the class (`offset_`, `begin_`, `end_`, `data_array_`). A slot holds the number of its event, so handing out the wrong slot shows in
`delivered`. It implements `OrderedDelivery` (`DeliversInOrder`).

**`ConcurrentBinlog`** is `ConcurrentBinlog.{h,cpp}`. Threads take one or two
numbers (`TakeIds`) and send events in that order (`SendAdd`), with other threads'
messages between; `Receive...` are the handlers of the actor, `Timeout...` its
timer. The processor is used by its promise, so it is the next number and the set
of early events. The file is known by what was written, flushed and made durable,
with `need_sync_`, and by what `do_reindex` decides by: whether the file has a byte
(`file_empty`), whether there is a key (`keyed`) and whether an event is live
(`index_empty`). With neither, a reindex leaves a file without a byte, and the next one
skips the sync: `skipped` remembers up to where that happened. `Opened` says what the
log may be like at the start. `holding`, `covers`, `issued` and `done` say what callers
may expect.

**`Binlog`** is `Binlog.cpp` with its two files, one system call a step. Files
are sequences of records; the key record that starts an encrypted file is one.
`Open` is `init` with `load_binlog`; `AddEvent` includes the flush of a full buffer
and the decision to reindex; `Reindex...` are the system calls of `do_reindex`;
`Crash` may come at any step, cuts each file anywhere behind its synced part and
may leave a torn record. **`DurableStore`** is the abstract promise: a history of
states with a part that no crash undoes. `Binlog` implements it with its index's
table, `BinlogKeyValue` with its map (`RecoversToAPromisedState` in each).

Where the sync of the new file is skipped, the history goes through all beginnings of
that file, so that it says what a crash can leave there. A torn record of `<path>.new`
matters only when that file would be read, that is, when the old one is gone.

**`BinlogEventsProcessor`** is the index in the form of its vectors: doubled ids
with the deletion mark in the lowest bit, lower bound, compaction, counters.
`Binlog` and `BinlogKeyValue` use it as a function from ids to events.

**`BinlogKeyValue`** is `BinlogKeyValue.h`: a locked section is one step that
changes the map and takes numbers; the events wait in `pending` and are sent one
by one, except those of an `erase_batch`, which go as one message under the lock.
`Restart` replays a prefix of the log, as `init` does.

**`ChainScheduler`** is `ChainScheduler.h`: a scheduler is a record, and each public
function an operator from scheduler to scheduler, with everything it starts on the
way: `TryFirst` tries the first of a list of tasks and puts the children of one that
starts in front of the rest, and `TryStart`, which repeats it until the list is used up,
is the recursion of the code.
**`SequenceDispatcher`** is the actor that owns one, `MultiSequenceDispatcherImpl`,
with what is around it: the session that turns references into message identifiers
(`SessionSend`, `Receive`, `SessionLost`), the delayer, and as external parts the
owner that may ask for a query again and the server. `at` says who holds each query;
a handler works on the record `d0` and writes it back at its end. `executed` is the
history of the server; a lost session sends again whatever is not confirmed, executed or
not, and marks the executions whose answer it took with it. All queries are of one constructor, a flood wait is one unit
of time, and the sessions send what they hold in any order.

**`UpdatesManager`** is the pts part of `UpdatesManager.cpp`. `um` is the state of the
actor and its handlers are operators on it: `AddPending` is `add_pending_pts_update`
with its early returns in order, `RunGetDifference` and `OnGetDifference` the request
and its four kinds of answers, `CheckPtsGap`, `FillPtsGap` and `RetryGetDifference`
the timers. `log` holds the events in the order they were applied, `missed` those
that a `differenceTooLong` leaves out. The server numbers the events and pushes them
in updates that may be lost or arrive in any order.

**`Actuators`** is `Actuator.java`, `ActuatorManager.java` and the part of
`Client.java` they need. `pc` is where `run()` is; `threads` are calls of `code`,
`command` and `close` on other threads, cut where they leave the lock; `Receive...`
are the cases of `onAuthorizationStateUpdated` on the receiver thread, which pauses
where it signals (`Signal`) and where it creates a client (`Recreate`). TDLib is
external: it reports states, answers requests, and gives an error for one that
does not fit; an error repeats the last action, as `AuthorizationRequestHandler`
does. Clients are numbered in the order of their creation (`Owner` is the actuator of
each), and an actuator may have several: `onAuthorizationStateUpdated` creates one when
the state is `Closed`, and what an earlier one still reports is handled like the
reports of the last.

**`ChatList`** is the main chat list. The receiver thread is cut between taking the
monitor of a chat and that of the list, the thread of `run()` between the
monitor of the list and those of the chats.

`MC...` modules extend these and give symmetry sets and constants that are not
simple values.

## Runs

| Run | Bounds | What it shows |
|---|---|---|
| `ordered_events` | numbers 2..9, compaction from 2 consumed slots on | over every order of arrival: the window is exact (`WindowHoldsEarlyArrivals`), so are its bounds (`FinishedNumbersAreExact`), and it refines `OrderedDelivery` |
| `binlog_actor` | 2 threads, 2 numbers, 1 `force_sync`, 1 change of key; at the start a file with events and no key | completed promises are durable and `close` loses nothing, except what a reindex of an empty file left unsynced (`DonePromiseOutlivesPowerLoss`, `CloseLosesNothing`); waiting work has its timer; delayed syncs wait for a stored event and for no less than they cover; promises are completed unless the log is closed; written events reach the file |
| `binlog_actor_empty_file` | as `binlog_actor` | violation of `DonePromiseIsDurable`, see Findings |
| `binlog_crashes` | 2 values, 1 key and none, 3 events, 2 crashes, 1 change of key | replaying gives the live table, no event or file is refused, the file opens with a known key, `DurableStore` is implemented |
| `binlog_index` | ids up to 7, sizes 1 and 2, compaction from 4 entries on | the vectors hold the live events, the counters count them, no legal event is refused |
| `binlog_key_value` | 2 threads, 2 keys with one prefix, 2 values, 5 numbers, 1 restart | the log goes through the tables of the map (`LogFollowsMap`), `DurableStore` is implemented |
| `actuators` | 1 number, 2 actuators, 1 call of a user, 2 clients | `FlagEndsWithSession`, `RemovedActuatorIsClosed`, and with fairness `AuthorizedRunWakesUp`, and `QuitEndsSession` for a quit that finds `run` past its await |
| `actuators_repeat` | 1 number, 2 actuators, 2 calls, 3 clients | violation, see Findings |
| `chat_list` | 2 chats, orders 1 and 2, 2 sessions, 2 commands | every chat with a position is in the list (`ListHasEveryChat`); up to the first log out the list is exact |
| `chat_list_locks` | 1 session, 1 command | violation, see Findings |
| `query_chains` | 3 queries on chain 1, chain 2 or both, 2 sessions, at most 2 active in a chain, a limit of 1 flood wait, 2 faults | queries of a chain are first executed in order, and again only after their answer was lost (`ChainOrder`), the scheduler and the dispatcher agree (`TasksMatchQueries`, `ActiveTasksAreCounted`), nothing that could start waits, and with fairness every query ends |
| `updates` | 3 events after the first pts, in updates of 0, 1 or 2, 1 rare fault | events are applied once and in order, pending updates are behind a gap and counted, kept updates have a timer, and with fairness the client catches up |

Why the bounds suffice. Eight numbers give windows with gaps before, inside and
behind a stored run, a vector that is cut with events still behind the cut, and one
whose window empties and moves without being cut. Two numbers and one `force_sync`
give a sync delayed behind a gap, a timer that serves both, a key changed between
them, and an event that erases the last live one, with a reindex after it that empties
the file and the change of key that follows; the proofs cover every number of events. Three events
make the file long enough to be reindexed after a rewrite or an erase, with
`ReindexMin = 1` and `FlushMax = 2` so that a reindex meets a buffer in use; the
second crash can come while the first recovery reindexes. Seven ids reach
compaction twice. Five numbers allow a set, a change of it and an erase of both keys
by two threads in any order. Two actuators of a number are enough for one to
replace the other, two clients for one to follow another after a log out, two chats
for an order between them. Three queries give a chain with a middle, a query that
joins two chains, and one that lacks room; two faults a query that fails while its
successor is out and fails again when it is sent again, or loses its session behind a
flood wait. Three events give a gap, a stored update behind it, and a slice that ends
inside an update of two. Larger instances of the last passed outside the runs: four
events with two faults (411,175 states, safety) or one (143,140 states, with liveness).

Constants of the code are scaled down and named: `CompactMin` (5, 10),
`FlushMax` (16 KB), `ReindexMin` and `ReindexRate` (the last of the pairs of
`need_reindex`), `Limit` (10 active tasks), `TimeoutLimit` (seconds of flood waits);
`RunLimit` keeps its value, 20. `MaxPts`, `MaxRare` and `MaxFaults` bound the runs
only. Values, threads and keys are interchangeable, and symmetry is used
in runs without liveness only.

`CHECK_DEADLOCK FALSE` stands where the bounds of the run stop the system (numbers,
calls, clients or commands used up) or where it may end (the log is closed, an index
has refused an event), or all queries have ended and the client is up to date.
`ordered_events` and `binlog_crashes` are checked for deadlock.

Fairness. In `ConcurrentBinlog` a thread that took a number sends its event (no
code path returns in between), an actor with messages is run, and an armed timer
expires; no fairness is assumed of callers. In `Actuators` every thread goes on, and
TDLib closes a client it has begun to close; no fairness is assumed of users, of
codes that arrive or of logins that succeed. TDLib's part is one assumption about all
clients: as long as some client is closing, one of them gets on with it. In `ChatList` the holder of a monitor
goes on when what it waits for is free. In `SequenceDispatcher` something goes on as
long as something can: actors run, timers fire, the server answers what it has; sends,
faults and requests to send again are free. In `UpdatesManager` armed timers fire,
requests are answered (a fault is rare, so not for ever) and the periodic ping finds
out that the client is behind; nothing makes a pushed update arrive. Both are weak
fairness of one action, written with `CanAdvance` and `CanWork` for its enabling
condition, which TLC evaluates faster than `ENABLED`.

What is assumed of the environment: a lost session may take any of the sent queries of
one session with it (the code takes those with the smallest message identifiers, of all
its queries); `unlink` and `rename` survive a crash in their
order; a message is handled by one actor at a time, and the messages of one thread
arrive in the order sent; time is abstracted, so a timer may expire at any step.

## Findings

1. `binlog_actor_empty_file`, `Binlog.cpp:664`. `do_reindex` skips the sync of the
   new file when the *old* one was empty and clears `need_sync_`. If events are in the
   buffer when the key of such a log is changed, the next `force_sync` completes its
   promise without a sync. A file is empty when it is new, and again after a reindex
   that has neither a key nor a live event to write (595-599, 655-660), so this can
   befall any log that has been without a key. In the run the file has events at the start:
   an event erases the last live one, a reindex leaves a file without a byte, another event
   waits in the buffer, and the change of key takes it over unsynced. `binlog_actor` shows that nothing else
   breaks the promise: what a completed promise covers is durable or was taken over by
   a reindex of an empty file (`DonePromiseOutlivesPowerLoss`); and a log that keeps a
   key and was not empty when opened is safe (`DurableWithKey`).
   `Binlog` has the same code; its history variable `unaware` marks states where
   the program takes unsynced data for synced, and its promises start after them.
   A power loss then leaves any beginning of the new file, which has an event for
   each live id in the order of the ids: a table the program never held.
2. `actuators_repeat`, `ActuatorManager.java:24`. Two requests for one number can
   both pass the test for a number that is logged in, as the number enters the map
   later and on another thread.
3. `chat_list_locks`, `Actuator.java:542`. `getMainChatList` takes the monitor of
   the list and then those of chats, the update handlers the other way round: both
   threads can wait for ever.

Other behaviour the models have and no property denies: after a log out the list of
chats keeps entries of the old session, so `ListHasEveryChat` holds always and
`FirstSessionIsExact` only before it, and an `assert` of `setChatPositions` could fail;
with one session, an update of two events that comes while a difference is awaited is
dropped (`UpdatesManager.cpp:2935`), and after a switch back from the difference the
client is behind until the next update or ping; a change of key that cannot
open `<path>.new` is reported as done (`ReindexCannotOpen`); a code that arrives during
the last sleep of its wait is taken for a timeout (`CodeTimeout`); a quit before the
login is seen by nobody, and one between the login and `run`'s test of
`haveAuthorization` clears that flag, so that `run`, which has tested `needQuit` already,
awaits a login for ever and the number stays in the map (`QuitEndsSession` is about a quit
that finds `run` past its await); `run` does not test `haveAuthorization` while it waits in
`take()`, so that a command queued after the session is taken and sent to a closed
client (`RunTake`); an error that arrives after `Closed` repeats that state's
action and creates another client beside the one created for it, and both run
(one actuator, two calls and three clients suffice). Therefore an actuator whose
flag is set has a client in a session, but not always its last one: this is what
`FlagEndsWithSession` says, of the flag and not of the commands that run. The hazards in `PROJECT.json` name them with their lines.

## Proofs

Eight modules hold theorems. All safety invariants and all three refinements that the
passing runs check are proved; liveness is only model-checked.

`ConcurrentBinlog_proofs` begins with the actor (below) and ends with the processor it
uses, `OrderedEventsProcessor`, for every `First`, `MaxSeqNo` and `CompactMin` under
`ProcessorAssumption` (natural numbers, `First` positive, since 0 stands for an empty
slot). The two do not share a variable: the names of the processor's specification start
with `Window`.

| Theorem | Statement |
|---|---|
| `WindowTyped` | `WindowSpec => []WindowTypeOK` |
| `WindowIsExact` | `WindowSpec => []WindowHoldsEarlyArrivals` |
| `FinishedNumbers` | `WindowSpec => []FinishedNumbersAreExact` |
| `DeliversAsPromised` | `WindowSpec => DeliversInOrder`, that is `OrderedDelivery!Spec` |

The properties are not inductive: that no stale event is left outside the window
depends on the payload of each slot, on the vector being long enough for the window,
and on the largest number having arrived. The inductive invariant `WindowInv` has these
parts:

* `WindowBounds`: `First <= offset <= begin <= end`, types;
* `SlotsAreExact`: a flagged slot holds its own number, lies strictly between
  `begin` and `end` and has arrived; every arrived number not yet run is in its slot;
  a non-empty window fits into the vector and ends with an arrived number;
* `PrefixDelivered`: all before `begin` arrived and were delivered in order, `begin`
  did not arrive.

`StoreStep` and `RunNowStep` show that the two branches of `add` preserve it. The
second rests on `DrainFacts` (what the loop passes has arrived and what it stops at
has not) and `RunExtends` (the delivered sequence grows by exactly those numbers), and
treats the cut of the vector and the move of an empty window as cases. For the
refinement, the witness of `OrderedDelivery!Arrive` is the new `begin`.

The theorems about the actor hold for any set of threads and any number of events,
syncs and changes of key, under
`ConcurrentBinlogAssumption` (the bounds are natural numbers):

| Theorem | Statement |
|---|---|
| `TypeCorrect` | `Spec => []TypeOK` |
| `NoWakeupIsLost` | `Spec => []WaitingWorkHasTimer` |
| `OrderAlways` | `Spec => []OrderInv` |
| `DelayedSyncsAreReleased` | `Spec => []DelayedSyncsAwaitStoredEvents` |
| `DonePromisesSurvive` | `Spec => []DonePromiseOutlivesPowerLoss` |
| `DurableUnlessEmptied` | `Spec /\ []~file_empty => []DonePromiseIsDurable` |
| `DurableWithKey` | `Spec /\ ~file_empty /\ []keyed => []DonePromiseIsDurable` |
| `NumbersAlways` | `Spec => []NumbersInv` |
| `CloseIsOrderly` | `Spec => []CloseLosesNothing` |

`DonePromiseOutlivesPowerLoss` and `CloseLosesNothing` except what a reindex of an empty
file took over (`n <= skipped`); finding 1 is that case. The two theorems between them say
when there is none: while the file is not empty nothing is skipped, and a log with a key
stays so, since a reindex writes at least the record of its encryption. The argument goes in layers, each of
which uses those before it:

* `Typed`: `TypeOK`, and every message in the mailbox and every stored event was
  really sent, every waiting promise really issued.
* `TimerInv`: `WaitingWorkHasTimer`, with `LogIsBehind` (only numbers below `begin`
  are in the log or flushed), without which a flush could leave something unwritten.
* `OrderInv`: a number is held by one thread and used once (`NumbersAreFresh`), hence
  what an issued promise covers does not change (`CoversAreFixed`); what a `force_sync`
  covers has run, is stored, or lies before it in the mailbox
  (`SyncsFollowTheirEvents`), so that when the actor takes it, either all of it has run
  or the largest stored number is at or above it; hence a promise of the next sync is
  for events that have run (`PromisesAreCovered`). `StillReached` is the step: to take
  a message loses nothing, because its event runs or is stored.
* `DurableInv`: `need_sync_` is exact (`NeedSyncIsExact`: without it, all that is
  flushed is durable or skipped) and the property itself. `SyncIsExact` says that after a
  sync or a reindex all of the log is durable or skipped; `AddIsExact` that
  adding events, with the flush and the reindex it may cause, takes nothing back: the
  new numbers are at or above `begin`, those a completed promise covers below it.

* `NumbersInv`: a number that was taken and has not
  run is held by its thread, in the mailbox, or stored (`NumbersAreSomewhere`); none is
  beyond the counter; nothing follows `close` in the mailbox and no thread holds a
  number then (`CloseIsLast`). So when the actor takes `close`, its last message, the
  number `begin` would have to be held, posted or stored if it had been taken, and it
  is none of these: all has run (`AllHasRun`). `StoppedIsDurable` adds, from
  `SyncIsExact`, that the sync of `close` reached everything written.

`Binlog_proofs` holds for any values, keys and sizes and any number of events, crashes
and changes of the key, under `BinlogAssumption`:

| Theorem | Statement |
|---|---|
| `TypeCorrect` | `Spec => []TypeOK` |
| `LoadReproduces` | `Spec => []LoadReproducesLive` |
| `NothingIsFatal` | `Spec => []NeverFatal` |
| `KeyStaysKnown` | `Spec => []KeyIsKnown` |
| `Durability` | `Spec => RecoversToAPromisedState`, that is `DurableStore!Spec` |

A crash leaves any beginning of the file behind its synced part, so an invariant about
the whole file is not enough: every beginning that a crash can leave must have its
table in the history, and the next crash must not go back before what this one left.
`Traced(log, from, hist, d)` says this: an order-preserving map takes the lengths of
`log` from `from` on to indexes of `hist` from `d` on, and the index loaded from a
beginning has the table at its index. `IInv` then follows `do_reindex`:

* `Typed`, `KnownKeys`, `Present` (the history ends with the program's table) and
  `Buffered` (the buffer is empty from the moment `do_reindex` writes);
* `Running`: file and buffer load to the program's index (`Same`: the same records,
  the ids seen may be fewer) and are traced from the synced part on;
* `OldFile`: until it is unlinked the old file is still traced, although the program
  goes on with the new one; `NewFile`: the new file is `NewLog`, the key and one event
  for each live id, and is traced from the moment it counts; after the unlink a crash
  may only find this one;
* `Left`: what a crash has left, in whichever of the two files will be read.

The lemmas about logs (`LoadAppend`, `LoadIndex`, `PrefixNoError`, `NewLogLoads` and those
on `Same`) are inductions over the log and over the ids.

`BinlogEventsProcessor_proofs` holds for any ids, sizes and threshold:

| Theorem | Statement |
|---|---|
| `IndexExact` | `Spec => []IndexIsExact` |
| `CountersExact` | `Spec => []CountersAreExact` |
| `NoneRefused` | `Spec => []NothingIsRefused` |

`IndexInv` says where each live id is in the sorted vectors, that every other entry is
marked, and what the counters count. The lower bound is unique in a sorted vector; a
compaction is an order-preserving renumbering of what is not marked
(`CompactifyKeeps`); the sum of sizes is a fold over the live events, from which one
element is taken or to which one is added (`FoldRemove`).

`BinlogKeyValue_proofs` holds for any threads, keys, prefixes and values:

| Theorem | Statement |
|---|---|
| `TypeCorrect` | `Spec => []TypeOK` |
| `LogGoesThroughTheTables` | `Spec => []LogFollowsMap` |
| `Recovery` | `Spec => RecoversToAPromisedState`, that is `DurableStore!Spec` |

`LogFollowsMap` speaks of the events that have run; what makes it hold are the events
that have not. `IInv` says that there is one sequence `all` of all events numbered so
far, in the order of their numbers, with two parts:

* `Story`: the beginnings of `all` go through the tables of `past`, one event for each
  change, and its index agrees with the map, ids included (`Agrees`), so that the next
  rewrite or erase finds its event. `SetAgrees`, `EraseAgrees` and `StoryErase` (by
  induction over the keys of a batch) are its steps.
* `Spread`: the log is a beginning of `all`, and every event that a thread has not sent,
  or that the log keeps because it came early, stands in `all` where its number says,
  and only once. `SpreadDeliver` shows that what runs is the next piece of `all`.

`Actuators_proofs` holds for any numbers of phones, actuators, calls and clients:

| Theorem | Statement |
|---|---|
| `TypeCorrect` | `Spec => []TypeOK` |
| `FlagIsTheSession` | `Spec => []FlagEndsWithSession` |
| `RemovedIsClosed` | `Spec => []RemovedActuatorIsClosed` |

`SessionInv`: a `Ready` that waits in the queue of a client is followed by the `Closing`
of its session, unless that goes on (`Covered`); an actuator whose flag is set, or that was
last told `Ready`, owns a client that is in a session or has such a `Closing` in its
queue. `MapInv`:
actuators start in the order of their numbers, and an actuator outside the map has asked
to quit, is being closed, or gave its place to a later one.

It also holds the proofs about `ChatList`, for any chats, orders, sessions and commands:
`EveryChatIsListed` and `ListIsExactInFirstSession` state the two invariants of its run. `Inv` adds that the
receiver thread works on a chat that is in the map (`ChatsAreKnown`), and that in the
first session the map has no other chats than those the client announced
(`OnlyAnnounced`), so that announcing one cannot forget a position that is in the list.

`UpdatesManager_proofs` holds for any number of events, any counts, and updates, answers
and timers in any order, under `UpdatesAssumption`:

| Theorem | Statement |
|---|---|
| `TypeCorrect` | `Spec => []TypeOK` |
| `AppliedInOrder` | `Spec => []AppliedOnceInOrder` |
| `PendingBehindGap` | `Spec => []PendingWaitsForAGap` |
| `WaitingHasTimer` | `Spec => []WaitingUpdatesHaveTimer` |

An update is a block of events, from `pts - pts_count` to `pts`; the server's blocks
never overlap (`Apart`). The code never compares two updates: it compares numbers, the
accumulated count above all. The argument for it is `CountIsBounded`: blocks in a row
that begin at or above `pts` count at most the events between `pts` and the end of the
last, and exactly so many if and only if each touches the next. So `accumulated_pts -
accumulated_pts_count = pts` means that no event is missing (`TouchingListsAll`), and a
run of postponed updates that adds up is one without a hole (`RunTouches`). The invariant:

* `Good`: pending and postponed updates are chains of blocks, apart from each other; the
  pending ones begin above `pts`, and the accumulators are theirs (`Behind`); the log is
  the events up to `pts` in order, without those missed (`Logged`).
* `Separate`: what is on the wire is apart from all that is kept, and nothing is above the
  server's pts. Without it an update could arrive that overlaps one already applied.
* `Flying`: one difference at a time is awaited, asked for from `pts`, and its answer
  continues there; without it an old answer would be applied again.
* `Waits`, which is `WaitingUpdatesHaveTimer`.

`Steps` is what every part of a handler keeps, so that the loops over postponed updates
(`AddingAgain`, `PostponedProcessed`) are inductions over the list with it, and the
lemmas for the handlers (`UpdateAdded`, `GetDifferenceIs`, `AppliedIs`, `Resumed`) put
the parts together. A fetched event is no update of the server's and may be part of one
that is on the wire; that it is applied at once or dropped (`AtOnce`) keeps it out of the
lists.

`SequenceDispatcher_proofs` holds for any finite sets of queries, chains and sessions, any
limits and any number of faults, under `SchedulerAssumption` and `DispatcherAssumption`
(a query is in at least one chain and in none twice; queries are numbered in the order in
which they are sent):

| Theorem | Statement |
|---|---|
| `TypeCorrect` | `Spec => []TypeOK` |
| `ExecutedInOrder` | `Spec => []ChainOrder` |
| `BooksAgree` | `Spec => []TasksMatchQueries` |
| `CountsAreExact` | `Spec => []ActiveTasksAreCounted` |
| `NoneIsForgotten` | `Spec => []NothingWaitsInVain` |

`InvariantHolds` is `Spec => []DispatcherInv`. A handler changes the record `d` in
several stages, between which parts of the state are out of step, so the invariant
is about such a record and not about the variables:

* `Good`, what holds of the scheduler at every moment between two starts: `Joined` (a chain
  holds exactly its tasks, sorted), `Counted` (the counts), `Pipelined` (a task started in
  the current generation of a chain is active, and all before it have started in this
  generation), `Listed` (what is remembered or to be sent exists). `Pipelined` is what the
  generation test is for: the code looks at the parent only.
* `Tended(s, T)`: a task whose parents have all started is among those to be tried, `T`, or a
  full chain remembers it. `inactivate_task` stops at the first chain that refuses a task, so
  "no task can start" is not kept by the steps; that each such task is tried or remembered
  is. It is kept by every trial (`Trial`), and at the end `T` is empty, which gives
  `NothingWaitsInVain` (`TendedIsIdle`).
* `Sound`: `Matches` (a task's state and its query's place), `Speaks` (who may hold a
  result), and `Refers`: a query that is out refers to its parents, or refers to one that has
  ended. A parent that is reset or paused opens a generation, but what follows it may be out
  already; it still refers to it.
* `Ordered`, the server's side: an executed query is preceded by executed ones, also while it
  is on its way again (`Prefixed`); what the server keeps waiting waits for a message that is
  out (`Awaited`); a sent query that has not failed waits for its parent or all before it are
  executed (`Followed`); a result is at hand for exactly the queries with an execution whose
  answer was not lost, and each entry of the history stands behind those before it in its
  chains (`Recorded`). Hence the query executed next is behind all of its chains that
  precede it, or has been executed and lost its answer (`OrderExecuted`).
* `Budget`: what a query has waited, what it owes, the flood waits of others and the
  refusals on the way are together at most the number of faults. `TypeOK` needs this and
  nothing simpler will do: charging a wait to those behind moves it.

`Tried` shows that `TryStart` comes to an end in the number of steps it is given: a trial
takes one task from the list, or starts one for good and adds at most one child for each
of its chains. It and the loop of `ChargeDependents` are inductions over a fold.

`FoldTheorems` is a library: what `MapThenFoldSet`, on which the folds of the community
modules rest, returns for a set without one of its elements, and for a sequence with one
more (`FoldRemove`, `FoldAppend`). Its
operator and choice are CONSTANTS, the operator with a value it may depend on, and a proof module makes an INSTANCE with its
own, because a theorem cannot take an operator as a parameter here. For the same reason
induction over numbers and over sequences is stated with sets (`InductionOnNumbers`,
`InductionOnSequences`), from the well-foundedness of `<` on the natural numbers.

Model-checked only: liveness (`EveryQueryEnds`, `CatchesUp` and the other temporal
properties of the runs), which needs fairness and so is out of the prover's reach; and the
three violations, which are behaviours. Nothing is proved about operators declared
`RECURSIVE`, as no module declares one: the models use folds.

## Not modelled

* `close_and_destroy` and `clear`: they delete a file and make a new object. The
  events buffer of `Binlog` is switched off in `init`. Failures that are fatal by
  design (a write that fails) end the program.
* `ConcurrentBinlog`: `erase_batch` is a row of single messages; in `BinlogKeyValue`,
  where it matters, it is one. `lazy_sync` is an event without data, as in the code.
* `Actuators`: waiting for a password and for names, which works as for a code; the
  states that read from the console; `closeAll` of the shutdown hook; commands that
  send a request and keep no state. Two tasks that wait for one code are one flag.
* `ChatList`: other fields of chats and other maps are copies of what an update has.
* After a restart, what `sync` says of events that were loaded and not synced
  (`unaware`): the code makes no sync for them before the first write.
* `SequenceDispatcher`: of a query's way, the migration of error 303, the 202 Resend of
  a session that closes, `stop_flag`, `dispatch_ttl` and cancellation; a connection that
  closes, whose queries come back with an error and are delayed, as a flood wait is;
  `tear_down`; the older dispatchers in the same file; queries of
  several constructors in one chain; the reuse of a query's slot behind a stale
  reference; containers, acknowledgements and keys of a session.
* `UpdatesManager`: qts, seq and channel pts, which have buffers and timers of their own;
  `PtsManager` and restarts; the maximal pts and `updatePtsChanged`, which start over with
  `init_state`; bots, which postpone nothing; the retry for invalid polls. A ping and its
  pong are one step.
* The greater part of the repository: SQLite and the other vendored code (more than a
  third of the lines), generated code, and the managers of messages, contacts, stickers
  and the like, which keep fields in step with the server and have little state of
  their own that several actors race for. What is modelled is a small share of the
  lines for this reason.
* Generated code, vendored code, the network, SQLite, logging.

## Plan

1. Done: the log and its store, the Java service, query chains with their session and
   delayer, the order of updates by pts.
2. Done: theorems for every invariant of the log, its store, its index, the Java service
   and its chat lists, the updates and the query chains, and for the three refinements.
3. Further components: `SqliteKeyValueAsync` (write buffer, its timer, promises of a
   transaction), `TQueue` over a log, `MultiPromise`, sending to an actor that migrates
   (`Scheduler`), acknowledgement and containers of `SessionConnection`, qts and seq,
   `PartsManager`.
4. Composition of the processor with the actor: `ConcurrentBinlog` with an
   `OrderedEventsProcessor` in place of its set of early events.
