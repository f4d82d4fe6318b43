# Myscelium Core in TLA+

Myscelium Core is a command bus written in Rust (`src/OxidizedMyscelium`). One
*host* and many *clients* exchange commands over TCP. A client asks for a
function of another node (a client or the host); the host relays the command,
the target runs a registered callback, and the answer travels back. A client
always speaks first: it sends a command, or a ping (C206) to fetch what waits for
it in the host, and reads one reply.

This directory holds TLA+ modules of the parts of the bus whose correctness
depends on the order of steps, TLC configurations that check them on small
instances, and theorems that TLAPS has checked for instances of any size.
All paths below are relative to `src/OxidizedMyscelium/src`.

## Inventory

| component | state | operations | who calls it |
|---|---|---|---|
| enhanced buffer (`common/enhanced_buffer`) | two SQLite tables per process: *up* (`ClientCommandsTosend`) and *down* (`ClientCommandsReceived`) | schedule, list, get by parity id, check, remove by id or by parity id, clear old rows | every other component; the tables are the only queue between threads |
| host connections (`socket_host/socket_host.rs`, `command_handler.rs`) | one thread per TCP connection, the stream, `client_key` | read a request, check the whitelist, drive the synchronisation, answer a ping, redirect, queue for the host, redirect a response, handle a disconnect | the accept loop, under `catch_unwind` |
| task table (`socket_host/task_manager`) | `TASKS_MANAGER`: node -> parity id -> task with its origin | add, get origin, remove | host connections |
| network map (`common/structs/available_commands.rs`) | `HOST_COMMAND_PATTERNS`: a node per client with status, handlers and the network it knows | get, add or update, change status, compare known networks | host connections, host transposer, `sync_verifier` |
| sync controller (`socket_host/sync_controller`, `functions/sync_analiser.rs`, `socket_host/scheduler.rs`) | `CLIENTS_SYNC_CONTROLLER`: per client synchronised or not, attempts, time of the last offer | offer the network, count attempts, mark, reinitialise, `sync_verifier` | host connections, host transposer |
| reactive activator (`common/structs/reactive_activator.rs`) | `thread_handle` | `start` | whoever inserts a row of the down table |
| host transposer (`socket_host/transposer.rs`, `transposer_functions`) | its listing of the down table | process a row, queue the result, direct functions | the activator's thread |
| client send loop (`socket_client/socket_client.rs`, `lib.rs`) | stream, `CLIENT_IS_RUNNING`, `CLIENT_IS_CONNECTED` | connect, send row by row, ping, take the reply in, reconnect or stop | a thread that `initialize_socket_client` spawns |
| client transposer (`socket_client/transposer.rs`, `functions/direct_functions.rs`) | its listing of the down table | process a row, queue the answer, learn the network | the activator's thread |
| client states manager (`socket_client/states_manager`) | the one row of the table `ClientStates` | load, insert, update, delete | setup, client transposer, `set_client_callbacks`, `client_send` |
| client scheduler, response watcher | none of their own | check and schedule a command, wait for a response | users of the library |
| client manager (`common/client_manager`) | the host's whitelist in SQLite, table `Clients` | create, look up, note the last contact, update, delete | host connections, host transposer, start of the host, `registry_new_client` |
| connection pool (`common/sql_pool`) | a vector of SQLite connections per database, five of them | take, give back, exchange the whole pool | every query, through `with_connection!` |
| lockers, callbacks | a map of closures | `smart_lock`, `call` | transposers |
| thread pool (`common/custom_thread_pool`) | workers, a channel of jobs | execute, join, stop | nobody: `CONNECTION_HANDLER_POOL` is declared and never read |

The path of a command: `schedule` inserts it in the up table of the sender; the
send loop sends it; `handle_connection` files a task (target, parity id, origin)
and inserts the command in the host's up table for the target, or in the host's
down table when the host is the target; a ping of the target takes it out again;
the target's down table, activator and transposer run the callback; the answer
goes into the target's up table, and the host sends it to the origin found in
the task table, by the next ping of the sender.

What is hard about it: three processes and a dozen threads share tables, maps
and two locks, with no transaction over more than one statement; a row is
deleted before the message it becomes is delivered; a sender repeats what was
not confirmed; copies of the network map are judged after their lock is released;
threads come and go with the work. `PROJECT.json` lists the hazards line by line.

What makes each component correct:

* *relay* (buffers, connections, tasks): a command reaches its target and its
  answer reaches the sender, never another node; at most once; in order between
  two nodes; it is always somewhere until it has ended.
* *activator*: one transposer at a time, every row handled once, none forgotten.
* *client session*: one thread at most sends, it does not keep a connection that it
  lost, a stop ends it, and a client that calls itself ready is known to the host.
* *network map and sync controller*: the threads do not block one another, a node
  that is on line can be used, the offers come to rest.
* *client manager*: who was taken off the whitelist does not come back by a copy that a
  thread kept, nor does a change go that was made; the host can be started on its table.
* *down table and pool*: a response that somebody waits for is there until its time is
  over, no wait is for ever, and no connection gets lost.

## Modules

| module | what it models |
|---|---|
| `EnhancedBuffer` | the SQL statements on the two tables, as operators on sets of rows |
| `HostRelay` | clients, connections, host: a command on its way, with faults and restarts |
| `CommandPromise` | abstract: what the bus promises about one command |
| `ReactiveActivator` | producers, `start()`, the loop of the thread, `condition()` |
| `NodeSync` | network map, sync controller and their two locks, thread by thread |
| `ClientSession` | the life of a client process: setup, starts and stops, flags, persisted state |
| `Whitelist` | the clients' table of the host, query by query, and who reads it and writes it back |
| `DownTable` | the down table of a client, query by query: pool, receiver, transposer, waiting threads, setup |
| `MCHostRelay`, `MCNodeSync`, `MCWhitelist` | instances for TLC |
| `HostRelayProofs` | theorems: types, every message is at home |
| `HostRelayOnceProofs` | theorems: a command is in one place at a time, so that nothing happens twice |
| `HostRelayPromiseProofs` | theorems: `HostRelay` implements `CommandPromise`; nothing vanishes, origins, order |
| `ReactiveActivatorProofs`, `NodeSyncProofs`, `ClientSessionProofs`, `WhitelistProofs`, `DownTableProofs` | theorems about the other components |

### HostRelay

State: `clientUp`, `clientDown`, `hostUp`, `hostDown` are the tables, `nextId` their
AUTOINCREMENT counters, `batch` the rest of the listing that a client is sending, `alive`
says whether its transposer has panicked and `holds` is the response that it has yet to queue,
`tasks` the task table, `status` the node statuses, `link` the exchange that is in
progress between a client and its connection thread, `orphans` and `late` the host
threads whose client is gone and the requests they have still to read. `order`,
`runs`, `answers` and `closed` are history: who asked whom for what, how often
handlers ran, and how a command ended other than by an answer.

One action is one turn of a loop in the code: `ClientSend` and the `Receive*`
actions are the send loop; `HandlePing`, `HandleRedirect`, `HandleHostCommand`,
`HandleResponse` and `HandlerPanic` are an iteration of `handle_connection`;
`ProcessFunction`, `ProcessResponse` and `HostProcess` are `process()` on one row. The client's
`process()` deletes the row of a command before it inserts the response
(`socket_client/transposer.rs:369-372`): the insert is an action of its own, `QueueAnswer`, and
`TransposerPanic` or `ClientRestart` may come first. `Forward` and `Refuse` are the outcomes of
`redirect_commands_processing`, and `host_commands_processing` refuses as well.
`Break` is a connection that fails in an exchange, `NoticeDisconnect` the host's
late discovery of it, `ClientRestart` and `HostRestart` new processes with empty
tables, `ClientExpire` and `HostExpire` the removal of rows older than 240 s.

Abstractions: a command is its parity id, kind and target; a parity id is never
given twice (16 random digits, checked against the table). Listings are in the
order of the ids; the transposer's sort by priority is abstracted to any order. A
request is one step up to the reply on its way: races between two threads of the host within a
request are left to a later module. A redirected command is in its target's table from that
step on, and its confirmation in `link` with phase "reply"; what may fail between the two
(`Break`, `HostRestart`, the target answering first) does so in that state. Why the host refuses
something (node not on line, handler missing, response target not reachable) is a free choice,
except that nothing is forwarded to a node that is not on line. `Connect`, `Resync` and
`Synced` stand for the synchronisation, which `NodeSync` models. The handler of a response returns
nothing. Two pings that one client left unread in two dead connections count as one.

### ReactiveActivator

A row stands for its producer, and for the thread that its `start()` spawns. `List`,
`Process`, `Condition` and `Clear` are the steps of that thread. `Collected` is what
`condition()` counts: all rows in the host, those with `auto_collect` in a client.
`Failing` are rows of a client whose callback returns an error (they stay), `Panic`
is an `unwrap` that fails inside `process()`.

### NodeSync

`nodes` and `known` are the network map, `sync` is the sync controller,
`patternsLock` and `controllerLock` say who holds what; `pc` is where each
connection thread and the transposer is. A step is what happens between two
`lock()` calls; a lock that is taken and released within one step is only tested.
`verdicts` is what a thread in `sync_verifier` has still to write, computed from the
copy it took in `Snapshot`. `passes` counts the calls of
`handle_client_disconnect` to come: the error branch makes one and the end of the
function another. `offers` and `registrations` are the messages that carry a
synchronisation through the relay. An attempt is due when none was made or
30 s have passed, which is a free choice.

### ClientSession

State: `process` is how far `setup_socket_client` has come; `running` and `connected`
are the two flags; `main` is the call of `initialize_socket_client` that has not
returned. Each call spawns a thread, and the thread may outlive the call: `pc`, `stream` and
`batch` are per call. The calls are numbered in their order, so that TLC does not check
the same calls under two names. `stored` is the row of `ClientStates`; the transposer
(`learning`, `learnCopy`) and `set_client_callbacks` (`settingCallbacks`,
`callbackCopy`) load it, change their copy and write the whole row back, each under a lock of its
own; `overlap` (history) says that one loaded the row while the other had yet to write.
`client_send` accepts a command when the row says `Ready`; `schedule` reads it once more after
`is_client_ready`, and the second reading is the one that counts. The row and the two tables live
in a file that `Crash` leaves.

`Connect`, `List`, `Ping`, `Send`, `LeaveBatch`, `SeeStop` and `Close` are the steps of
the thread, one exchange with the host at a time; `LoadState` to `RemoveOffer` are the
statements of `handle_direct_function` and of the transposer around it.

Abstractions: `is_ready`, `is_sync`, `is_connected` and the network map change together
(`learned`). The 30 s of the reconnect timer are a free choice. A stream that was
reset fails with another error when it is used again, as on Linux. Rows leave a
batch in any order (their order is in `HostRelay`), and a registration that
is queued twice is one row. Other instances of the library are threads of the process (set up
with `is_main_process` off); like its own users they send commands and set callbacks at any
time. Their setup drops the two command tables (`lib.rs:575`): that is in `DownTable`, and left
out here, where the setup runs once per process. Left out as well: a message above the size limit,
whose error (`ConnectionClosed`) is retried on the same stream for ever, and
`CLIENT_IS_SYNC`, which nothing reads.

### Whitelist

`rows` is the table, which outlives the process; `known` is what `load_allowed_clients`
copied from it into the network map, the sync controller and the task table, all at once
and for the last time. A query is a step, except that `registry_new_client` looks for the key and
chooses an id in one, and one thread calls it. Between two of them a thread holds what it
read: `hand` is one client (about to be inserted, touched, updated, removed or saved), `todo`
the rest of the list that `sync_verifier` walks through. `edit_client` writes a whole row
`WHERE ID = ?` and inserts nothing; `save_into_db` inserts and fails when the id is there;
one after the other, as `change_sync_to` and `save_into_db` stand in `sync_verifier` and in
`update_client_commands_ref`, they bring back what was removed.

`Accept` to `Disconnect` are a connection thread as far as it touches the table,
`ListClients` to `SaveClient` are `sync_verifier`, `LoadRegistered` to `RemoveClient` the
direct functions of the transposer, `registry_new_client` and `InsertNew` a user thread.
`revoked`, `acknowledged`, `granted` and `doubled` are history: which keys were taken away
while no thread held a copy, which updates were made while no thread was about to
overwrite them, which keys were given out since the start, and whether one was given out
while it was in use.

Abstractions: name, rights, contact times and `Syncronized` are one value of `Data`; an id is
drawn from those that are free at that moment. In the code the locks of the network
map and of the sync controller keep some threads from meeting inside `sync_verifier`; the module
lets them interleave everywhere, which can only add behaviour, and all its properties are
safety properties. Whether a client is on
line (`SkipClient` or `EditClient`) is a free choice that `NodeSync` narrows. Requests that do
not parse, and `get_registered_commands`, which only reads, are left out.

### DownTable

`idle`, `lost` and `holds` are the pool: connections in it, connections that a panic closed,
threads that have one. `table`, `rows`, `nextId` are the table of the pool's file;
`setups` counts the calls of `setup_socket_client`, each of which exchanges the pool
(`set_new_path_to_buffer_db`) and drops and creates the table, whatever other threads are
doing. A query is `get_connection`, which does not wait but panics, and then the query with
`release_connection`; a connection goes back to the pool of that moment. `Receive`, `Check`
and `Insert` are `buffer_down_schedule`; `Activate` to `RemoveRow` are the transposer's listing,
its deletions and its clearing of old rows; `Watch` to `Judge` are `watch_response`, which
tests its deadline before it looks at what it found.

Abstractions: a waiting thread is its parity id; the 240 s of a row and the deadline of a
waiting thread are free choices; a callback is a free choice between a deletion, one more
deletion of the same row, and none. A pool has five connections in the code, from
`NUM_WORKERS`, read before any user can call
`set_socket_host_max_connections`; a receiver, a transposer and four waiting threads can
therefore meet an empty pool.

## Runs

| run | instance | shows |
|---|---|---|
| `relay_order` | 2 clients, 2 parity ids, 1 fault, symmetric | `TypeOK`, `RoutedHome`, `InOrder`, `NeverTakenForDuplicate`, `NothingVanishes`, `TaskRemembered` |
| `relay_faults` | 2 clients, 1 parity id, 3 faults, panics of a transposer among them | `AtMostOnce`; `HostRelay` implements `CommandPromise` |
| `relay_live` | 2 clients, 2 parity ids, no fault, fair | `Arrives` |
| `activator_client` | 3 rows, 2 of them collected, 1 failing, panics, fair | `OneTransposer`, `HandledOnce`, `HandleIsLive`, `Drains` |
| `activator_host` | 3 rows, no failure, fair | violation of `ScheduledIsProcessed` |
| `sync_locks` | 2 clients with one connection each, 2 attempts, 1 disconnect | `OnlyAttemptsDeadlock`, `OnlineHasHandlers` |
| `sync_settles` | 2 clients, 4 attempts, no disconnect, fair | `Converges` |
| `sync_freeze` | 2 clients, 2 attempts | violation of `NoDeadlock` |
| `sync_reconnect` | 2 clients, 1 disconnect | violation of `OfflineSyncsAgain` |
| `session` | 2 starts, a command, an offer, callbacks set once per process, 1 break, 1 crash, host reachable, fair | `TypeOK`, `OneLoop`, `ReadyRegisters`, `StateKept`, `Reconnects`, `StopEnds` |
| `whitelist` | 2 keys, 2 ids, 2 values of the other columns, 1 connection, transposer and registrar, symmetric | `TypeOK`, `RevokedStaysOut`, `UpdatesKept`, `UnknownIsGranted`, `StartsAgain` |
| `down_table` | pool of 2, 4 threads, 2 commands, 3 setups, fair | `TypeOK`, `OneRow`, `DiesOnlyCrowded`, `AwaitedStays`, `WatchEnds` |

Bounds, and why they are enough to be interesting. Two clients and the host give
every kind of pair (client to client, client to host) and both directions at once.
Two parity ids let commands overtake each other, meet in one table and wait behind
one another; one suffices for the promise about a single command, and leaves room
for three faults: a broken exchange, a restart, a panic of a transposer and an expired row in
any order.
Faults are counted by `MaxFaults`; `ClientRestart` is not counted because a client
stops only after a fault, a refusal or a failed handler. In the activator three producers
are needed for a thread that ends, its successor, and a row that arrives between
them. In `NodeSync` the attempts (10 in the code) are at most 2 or 4, so that the
last one and the half of them are reached; `MaxDisconnects` counts connections that
end. In `ClientSession` two starts are the thread of an earlier start and its successor;
one broken connection leaves a thread to repeat, reconnect or stop; a crash makes a second
process that finds the file of the first; one call of `set_client_callbacks` in each process
(`MaxCalls`) comes at any moment, while the transposer works on the offer too. In `Whitelist`
two ids and two keys let a client be removed and its key or its id be given to another while a thread still has the
first; one connection, the transposer and the registrar are all the kinds of threads that
write, and starts and requests are not bounded at all. In `DownTable` four threads share two
connections, so that the pool runs empty; with `MaxSetups` = 3 a pool is exchanged under
threads that use it, twice; two rows per table (`MaxId`) are a command and a
response, or two responses, and a new table gives the same two ids again.

`CHECK_DEADLOCK FALSE` is set where the system may stop: the activator after its
last row, `NodeSync` because of the very deadlocks it is about, a client session
whose starts are used up, and a `DownTable` in which all threads have panicked.

### Fairness

`HostRelay`'s `FairSpec` is weakly fair for what runs in a loop while a connection
lives: the send loop, the replies, the connection thread, and connecting. Users,
faults and expiry have no fairness, and neither have the transposers:
`ReactiveActivator` shows that they may sleep for ever, and `Arrives` therefore ends
where a row waits for one; only one that has a response in hand is awake and queues it (`QueueAnswer`). In `ReactiveActivator` running threads are scheduled and a producer
that inserted its row calls `start()`. In `NodeSync` locks are contended, so the
steps that need one are strongly fair (parking_lot's mutex is eventually fair);
`SF(Lookup(t, TRUE))` is the assumption that a client which is offered the network again
and again answers.

In `ClientSession` the threads are scheduled (`FairSpec`: one weak fairness condition per
thread, on whatever it can do next but connecting); `ReachableSpec` adds a strongly fair
`Connect`, that is a host that accepts a client that tries again and again. The transposer,
the users and the faults have no fairness.

In `DownTable` a thread in `watch_response` is scheduled, and its time passes; nothing else is
fair, so that it need not be given an answer, and the table may be taken away under it.
`Whitelist` has no liveness property.

### What the violations are

1. `activator_host`: a lost wake-up. A row that arrives after `condition()` and
   before the handle is cleared waits for the next row.
2. `sync_freeze`: `update_client_sync_attempt` holds the sync controller when it
   calls `handle_client_disconnect`, which locks it again; and it takes the two locks
   in the opposite order of the disconnect.
3. `sync_reconnect`: a verdict from a stale copy, or the second half of a
   registration, marks a client as synchronised after its disconnect
   reinitialised it; it is then never offered the network again.

One remark in the code is not what the code does, and no run is about a violation. The TODO at
`socket_host/transposer_functions/handle_direct_function.rs:204-208` says of
`update_client_commands_ref` that the "trigerring client remais without sync", that the last
client that connects "remains without an update about the other nodes", and that a delay mechanism is
needed. `sync_settles` has this case: both clients register, one of them last. What the last
one was offered may indeed be older than the other's registration, a state on the way. But each
registration ends in `sync_verifier`, which compares what every node on line knows with the
network map, the triggering client included (`sync_analiser.rs:59`), and marks it as not
synchronised when they differ; its next request then brings another offer. A client that is asked
again keeps its status, until half of its attempts are used, so that the others do not see it go
off line. `Converges` holds under that condition, and under the fairness that a client answers its
offers; past half of the attempts the module does not promise that it settles (see the hazard at
`socket_host.rs:666`). Whether the network that a client was sent has also been stored by it is
not part of `known`, which is the host's record of what it sent (`SendNetwork`).

The modules contain more that a reader of the code may not expect, visible in the text of an
action and without a run of its own:

* The transposer (`LoadState`, `Persist`) and `set_client_callbacks` (`LoadCallbacks`,
  `SaveCallbacks`) write back whole rows from their copies, under two locks
  (`socket_client/functions/direct_functions.rs:82`, `lib.rs:435`), and callbacks may be set at
  any time: when the two overlap one loses the change of the other. The run has these
  steps, and `StateKept` says that an overlap is the only way; without its `~overlap` TLC finds
  the lost update.
* A client's transposer that panics after it has removed a command and before it has queued
  the response, or whose process ends there, loses the response of a handler that has run
  (`TransposerPanic`, `ClientRestart`). `NothingVanishes` allows "lost" for such causes only.
* A client that a thread has a copy of when it is removed may come back
  (`EditClient` finds no row, `SaveClient` inserts it), and an update may be undone by the
  last contact of a request that began before it (`Touch`). `RevokedStaysOut` and
  `UpdatesKept` say that this is the only way.
* `add_client` and `update_client` accept a key that is in use, and the next start of the host
  panics over it (`load_allowed_clients`); so does the first start on an empty table.
* A client that was added after the start is admitted by the whitelist and unknown to
  the network map; its request ends the connection and the thread panics in
  `handle_client_disconnect` (`Disconnect`), as does every later `sync_verifier` (`UnknownClient`).
* `watch_response` reports "no answer" for an answer that it found after the deadline;
  with a time of 0 it never answers (`Judge`).
* A row whose callback returns an empty list is never deleted, and is handled again and
  again (`LeaveRow`).
* While another instance is set up in a process, the threads of the first panic over the
  missing table, and the transposer deletes rows of the new table by ids of the old one
  (`Broken`, `RemoveRow` when `stale`).
* `update_task_table` removes a task on a condition that is never true for what is sent
  back, so that `tasks` keeps the task of an answered command (`HandleResponse`).
* `client_send` takes the persisted `is_ready` and `is_sync` for "the client runs". Nothing
  sets them back, and a stopped client accepts commands (`client_send`).
* An error of `connect` other than ConnectionRefused, and a second start in one process, end
  the thread by a panic and leave `CLIENT_IS_RUNNING` on (`ConnectPanics`, `SetHandler`).
* The loop that makes the first connection does not look at `CLIENT_IS_RUNNING`: a client
  that is stopped before it goes on trying (`Connect` from "connect"). `StopEnds` is
  therefore about the loop after it.

## Proofs

Checked by TLAPS for all values of the constants that satisfy the assumptions
`NamesAssumption`, `RowsAssumption`, `ThreadsAssumption`, `SessionAssumption`,
`WhitelistAssumption` and `DownTableAssumption`.

* `HostRelayProofs!TypeCorrect` and `Routed`. `TypeOK` is inductive only with
  `LateCounted` (each unread request belongs to a thread that has not ended, so that
  `orphans` never falls below zero). `RoutedHome` is a conjunction over every place
  a message may be and is inductive given `TypeOK`: the essential
  step is `HandleResponse`, where the origin comes from the task table alone and
  `TasksAtHome` says that it is the true sender. `first_of` is shown to return a row
  of its listing, one with the least id, by well-foundedness of the naturals (`FirstOfIsLeast`).
* `HostRelayOnceProofs!RunsOnce` and `NoneTakenForDuplicate`, from the invariant `Once`. A
  message is not one variable: a command is a row of its sender, then a request, a row of the
  host, a reply, a row of the target, and the same way back. `In(k, n, p)` says that `p` is
  in the place `k` of node `n`. `OneCopy`: it is in at most one; `WhereRuns`: which half
  of the way that place belongs to, and hence whether its handler has run. Each action has a lemma
  that says what it can add to the places (`GrowsBy`), and what it must leave for it. The
  difficulty is what is in two tables and still only one copy: a sender keeps its row until it
  is confirmed, and a thread of a dead connection may hold the same command
  unread. `Live` does not count such a row, and `LateApart` says why that is right: the
  client has stopped, and drops the row when it is started again. `AtClient`
  collects such facts about one client, `Distinct` and `Counted` those about history.
* `HostRelayPromiseProofs` has four theorems, each with a layer of its own over `Once`
  (which is proved first, so that a step may use it before and after):
  * `PromiseKept`: `HostRelay` implements the safety part of `CommandPromise`, for each
    parity id; every step is a step of the abstract specification or a stutter. A command whose
    end is recorded must stay ended: nothing is left of it but confirmations (`Quiet`,
    `Ends`).
  * `NothingLost`: what is neither answered nor ended is in a table, in a reply, or in the hands
    of a transposer between its delete and its insert (the place "answering"; what a transposer
    holds is nowhere else, `HeldApart`). While nothing has failed and no `Failure` has stopped
    a client, no command is recorded as lost (`Calm`). A row
    that a confirmation is about to remove does not count (`Kept`), since it may be
    gone in the next step; and a confirmation that waits in the host is about a
    command that has ended (`Muted`).
  * `OriginRemembered`: while nothing has failed, whatever travels to or from its target
    has its task filed (`TasksFiled`), so that `get_node_task_origin(..).unwrap()`
    finds one.
  * `KeptInOrder`: the rows of a client have rising ids, a listing leaves no older row out,
    and what was sent and is not confirmed is still in the up table (`Orderly`). So a
    sender that still has a command has not sent a later one for the same target
    (`SenderOrder`), the host's rows for a client rise as well (`QueueOrder`), and while
    the earlier command is in the host the later one has not reached the target
    (`TargetOrder`). `Straight` is all of this.
* `ReactiveActivatorProofs!AtMostOneTransposer` and `EachRowOnce`. The strengthening:
  whoever is alive owns the handle, even after its loop; the unprocessed rest of a
  listing is still in the table; a row in the table has not been handled.
  `HandleHasThread` follows from the same strengthening: the handle is that of a thread which
  is alive, or of one that panicked. `ActivatorTypeCorrect` is its first part.
* `NodeSyncProofs!SyncTypeCorrect`, `DeadlockNeedsAttempt` and `OnlineIsRegistered`.
  The locks are held exactly at certain places of the program text
  (`LocksWhereTaken`); everything that may yet put a node on line or call it
  synchronised is about a client that has registered (`RegisteredBefore`); a thread
  in the middle of a disconnect has a pass left (`PassesLeft`).
* `ClientSessionProofs!SessionTypeCorrect`, `LoopIsAlone` and `ReadyHasRegistration`. One
  thread is in its loop because whoever is past the handler of Ctrl-C has set it, alone
  (`HandlerFirst`). A ready client has its registration because the transposer holds the
  offer in the down table as long as it works on it (`OfferInHand`) and every copy of the row that
  says "learned" is backed by the row or by the same evidence (`CopiesAreBacked`).
* `ClientSessionProofs!StateIsKept`: a copy that was loaded when nobody else had one, and has
  been alone since, is the row (`CopiesAreRows`), so that writing it back takes nothing away;
  the threads of the client never write the row (`ThreadsLeaveState`). It needs `NoState`
  not to be a state of a client (`SessionAssumption`): a missing row is not a row.
* `WhitelistProofs!WhitelistTypeCorrect`, `RevokedStaysOutAlways`, `UpdatesAreKept`,
  `HostStartsAgain` and `OnlyGrantedAreUnknown`, from the one invariant `WInv`. All that a
  step writes or copies comes from `Sources`, the rows with the copies that threads
  hold, except for what the three ways to give out a client make up; so in every other step the
  sources only shrink. A revoked key has no source (`NoTrace`), two sources with one key
  have one id unless a key was given out twice (`OneId`), nothing but itself is to be
  written over an acknowledged row (`Kept`), and every source was loaded at the start or
  given out since (`Accounted`).
* `DownTableProofs!DownTableTypeCorrect`, `PanicsOnlyCrowded`, `AwaitedResponsesStay` and
  `EachParityOneRow`. Connections are counted: the idle ones, those in use and those that a
  panic closed are at least a pool (`NoneLost`; more when a pool was exchanged
  while some were out). Without a table only the installer works (`Prepared`). What the
  transposer has listed has in this table the ids that it listed (`Listed`). A parity id that
  the receiver has checked is not in the table until it inserts it (`Fresh`), and
  no id of one table is given twice.

Every invariant and action property that a passing run checks is also stated by a theorem.
Only model-checked is liveness (`Arrives`, `Drains`, `Converges`, `Reconnects`, `StopEnds`,
`WatchEnds`): fairness and ENABLED are beyond the prover. The three violations are
TLC's counterexamples. The invariants of the proofs about `HostRelay` (`Once`, `Ends`,
`Kept`, `Muted`, `TasksFiled`, `Straight`) have also been checked by TLC, with 2 clients and either
2 parity ids and no fault or 1 parity id and 2 faults, to see that they hold
before they are proved to be inductive.

## Not modelled

Loggers and the history file (output), converters and verifiers (data), the
procedural macros (compile time), the channel and permissions managers, the
availability controller and the thread pool (called by nothing), what callbacks do (not in
the source), and the size limits of messages. Of the parts that are modelled: two
connections of one client inside the host at one time, so that `OneRow` is about a client, which
has one thread that inserts, and not about a host, which has one per connection; results
of handlers that are lists, and of the host's handlers that go to a third node; the retry of a busy
database; priorities. `PROJECT.json` says for each component what is left out.

## Plan

Done: `EnhancedBuffer`, `HostRelay` with `CommandPromise`, `ReactiveActivator`,
`NodeSync`, `ClientSession`, `Whitelist`, `DownTable`, and a theorem for each of their
safety properties. Next, in this order:

1. `HostPipeline`: two connections of one client inside the host, statement by statement on
   the two tables (check and insert of `buffer_down_schedule`, list and delete of
   `get_response`), to see which of the atomic steps of `HostRelay` may be split.
2. In `HostRelay`, results of the host's handlers that are lists or are redirected.
3. Proofs of what the liveness properties rest on: that a step in progress stays possible
   until it is taken (the safety half of `Drains` and `StopEnds`), and that each exchange in
   `HostRelay` moves its command one place on.
