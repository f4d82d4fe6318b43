--------------------------- MODULE ReactiveActivator --------------------------
(***************************************************************************)
(* The thread that runs the transposer exists only while there is work.    *)
(* Whoever puts a row in the down table then calls start(), which spawns   *)
(* the thread unless there is one; the thread repeats action() until       *)
(* condition() finds the table empty, and then clears its handle.          *)
(*                                                                         *)
(* action() is initialize_socket_host_transposer: it lists the table and   *)
(* runs process() on every row of the listing.  A row stands for one       *)
(* producer (a connection thread of the host, the receive loop of a        *)
(* client), and the thread that its start() spawned bears its name.        *)
(***************************************************************************)
EXTENDS Naturals

CONSTANTS
    Rows,        \* rows that will be scheduled
    Collected,   \* the rows condition() counts: in the host all of them, in a
                 \* client those with auto_collect
    Failing,     \* rows of a client whose callback returns an error
    MayPanic,    \* whether process() may panic in this instance
    NoThread     \* thread_handle is None

ASSUME RowsAssumption ==
    /\ Collected \subseteq Rows
    /\ Failing \subseteq Rows
    /\ MayPanic \in BOOLEAN
    /\ NoThread \notin Rows

VARIABLES
    table,     \* ClientCommandsReceived
    producer,  \* per row: what its producer does next
    handle,    \* thread_handle
    worker,    \* per thread: what it does next
    schedule,  \* per thread: the part of its listing it has not processed
    handled    \* per row: how often its handler ran to the end (history)
vars == <<table, producer, handle, worker, schedule, handled>>

ProducerSteps == {"schedule", "start", "done"}
WorkerSteps   == {"none", "list", "process", "condition", "clear", "ended", "panicked"}

TypeOK ==
    /\ table \in SUBSET Rows
    /\ producer \in [Rows -> ProducerSteps]
    /\ handle \in Rows \cup {NoThread}
    /\ worker \in [Rows -> WorkerSteps]
    /\ schedule \in [Rows -> SUBSET Rows]
    /\ handled \in [Rows -> Nat]

Init ==
    /\ table = {}
    /\ producer = [r \in Rows |-> "schedule"]
    /\ handle = NoThread
    /\ worker = [r \in Rows |-> "none"]
    /\ schedule = [r \in Rows |-> {}]
    /\ handled = [r \in Rows |-> 0]
-------------------------------------------------------------------------------
\* buffer_down_schedule: the insert, before start() is called.
Schedule(r) ==
    /\ producer[r] = "schedule"
    /\ table' = table \cup {r}
    /\ producer' = [producer EXCEPT ![r] = "start"]
    /\ UNCHANGED <<handle, worker, schedule, handled>>

\* Mutant: start() without the test for a running thread.
StartAnother(r) ==
    /\ producer[r] = "start"
    /\ producer' = [producer EXCEPT ![r] = "done"]
    /\ handle' = r
    /\ worker' = [worker EXCEPT ![r] = "list"]
    /\ UNCHANGED <<table, schedule, handled>>

\* start(), under the mutex of thread_handle.
Start(r) ==
    /\ producer[r] = "start"
    /\ producer' = [producer EXCEPT ![r] = "done"]
    /\ IF handle = NoThread
       THEN /\ handle' = r
            /\ worker' = [worker EXCEPT ![r] = "list"]
       ELSE UNCHANGED <<handle, worker>>
    /\ UNCHANGED <<table, schedule, handled>>

\* Mutant: with nothing there the thread waits for a row.
ListOrWait(t) ==
    /\ worker[t] = "list"
    /\ schedule' = [schedule EXCEPT ![t] = table]
    /\ worker' = [worker EXCEPT ![t] = IF table = {} THEN "waiting" ELSE "process"]
    /\ UNCHANGED <<table, producer, handle, handled>>

\* action(): buffer_down_list_schedule.  With nothing there it returns.
List(t) ==
    /\ worker[t] = "list"
    /\ schedule' = [schedule EXCEPT ![t] = table]
    /\ worker' = [worker EXCEPT ![t] = IF table = {} THEN "condition" ELSE "process"]
    /\ UNCHANGED <<table, producer, handle, handled>>

\* process() of one row of the listing; the row is removed when its handler has
\* run, and stays when a client's callback fails.
Process(t, r) ==
    /\ worker[t] = "process"
    /\ r \in schedule[t]
    /\ schedule' = [schedule EXCEPT ![t] = @ \ {r}]
    /\ worker' = [worker EXCEPT ![t] = IF schedule[t] = {r} THEN "condition" ELSE "process"]
    /\ IF r \in Failing
       THEN UNCHANGED <<table, handled>>
       ELSE /\ table' = table \ {r}
            /\ handled' = [handled EXCEPT ![r] = @ + 1]
    /\ UNCHANGED <<producer, handle>>

\* process() unwraps what is not there: the thread is gone, its handle stays.
Panic(t) ==
    /\ MayPanic
    /\ worker[t] = "process"
    /\ worker' = [worker EXCEPT ![t] = "panicked"]
    /\ UNCHANGED <<table, producer, handle, schedule, handled>>

\* Mutant: the loop ends after one action().
ConditionOnce(t) ==
    /\ worker[t] = "condition"
    /\ worker' = [worker EXCEPT ![t] = "clear"]
    /\ UNCHANGED <<table, producer, handle, schedule, handled>>

\* condition(): a listing of its own.
Condition(t) ==
    /\ worker[t] = "condition"
    /\ worker' = [worker EXCEPT ![t] = IF table \cap Collected = {} THEN "clear" ELSE "list"]
    /\ UNCHANGED <<table, producer, handle, schedule, handled>>

\* Mutant: the thread ends and leaves its handle set.
EndOnly(t) ==
    /\ worker[t] = "clear"
    /\ worker' = [worker EXCEPT ![t] = "ended"]
    /\ UNCHANGED <<table, producer, handle, schedule, handled>>

\* The thread clears its handle, under the mutex, and ends.
Clear(t) ==
    /\ worker[t] = "clear"
    /\ handle' = NoThread
    /\ worker' = [worker EXCEPT ![t] = "ended"]
    /\ UNCHANGED <<table, producer, schedule, handled>>

Next ==
    \/ \E r \in Rows : Schedule(r)
    \/ \E r \in Rows : Start(r)
    \/ \E t \in Rows : List(t)
    \/ \E t, r \in Rows : Process(t, r)
    \/ \E t \in Rows : Panic(t)
    \/ \E t \in Rows : Condition(t)
    \/ \E t \in Rows : Clear(t)

Spec == Init /\ [][Next]_vars

\* Threads that run are scheduled, and a producer that has inserted its row
\* calls start(); when, and whether, another row comes is up to the clients.
FairSpec ==
    /\ Spec
    /\ \A r \in Rows : WF_vars(Start(r))
    /\ \A t \in Rows :
         /\ WF_vars(List(t) \/ Condition(t) \/ Clear(t))
         /\ \A r \in Rows : WF_vars(Process(t, r))
-------------------------------------------------------------------------------
Alive(t) == worker[t] \in {"list", "process", "condition", "clear"}

\* start() never lets a second transposer run beside the first: a thread that
\* has left its loop but not yet cleared its handle counts as running.
OneTransposer == \A t, u \in Rows : Alive(t) /\ Alive(u) => t = u

\* No handler runs twice for the same row, although every listing is a snapshot
\* that other producers and a former thread may have made stale.
HandledOnce == \A r \in Rows : handled[r] <= 1

\* A handle that is set has a thread that will clear it, so that a later
\* start() can spawn another, unless that thread panicked.
HandleIsLive ==
    handle # NoThread => Alive(handle) \/ worker[handle] = "panicked"

\* A thread about to list, or about to evaluate condition(), handles every row
\* that is there, unless its callback fails or the thread panics on the way.
\* (In a client only a row with auto_collect keeps the thread in its loop.)
Drains ==
    \A r \in Rows \ Failing :
        (r \in table /\ \E t \in Rows : \/ worker[t] = "list"
                                        \/ worker[t] = "condition" /\ r \in Collected)
            ~> (r \notin table \/ \E t \in Rows : worker[t] = "panicked")

\* handle_common_function "schedules the command for processing": a row whose
\* producer has called start() is handled.
ScheduledIsProcessed ==
    \A r \in Rows : r \in table /\ producer[r] = "done" ~> r \notin table
===============================================================================
