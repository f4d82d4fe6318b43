------------------------------- MODULE DownTable -------------------------------
(***************************************************************************)
(* The down table of a client process and the threads that share it        *)
(* through a pool of connections: the loop that inserts what it receives   *)
(* (buffer_down_schedule), the transposer, user threads that wait for a    *)
(* response (watch_response), and one that sets up another instance of the *)
(* client in the process, with a new pool and a new table.                 *)
(*                                                                         *)
(* Each query is two steps, as in with_connection!: a connection is taken, *)
(* then the query runs and the connection goes back.  A thread that finds  *)
(* the pool empty, or the table missing, panics; in the second case its    *)
(* connection is closed.  Which rows the activator counts before it calls  *)
(* the transposer is the subject of ReactiveActivator.                     *)
(***************************************************************************)
EXTENDS Naturals, FiniteSets

CONSTANTS
    Watchers,       \* user threads; each stands for the parity id that it waits for
    Commands,       \* parity ids of the rows that the transposer handles
    Receiver, Transposer, Installer,
    Size,           \* NUM_WORKERS, the connections of a pool
    MaxSetups,      \* bound on the setups of an instance
    MaxId           \* bound on the rows inserted into one table

ASSUME DownTableAssumption ==
    /\ Size \in Nat \ {0} /\ MaxSetups \in Nat /\ MaxId \in Nat
    /\ IsFiniteSet(Watchers)
    /\ Watchers \cap Commands = {}
    /\ Receiver # Transposer /\ Transposer # Installer /\ Receiver # Installer
    /\ {Receiver, Transposer, Installer} \cap Watchers = {}

Threads == Watchers \cup {Receiver, Transposer, Installer}
Parity  == Watchers \cup Commands
Row     == [id : Nat, parity : Parity, old : BOOLEAN]

\* A thread at one of these panics when the table is missing.
Selects == {"look", "check", "insert", "list", "old"}
\* A thread at one of these takes a connection.
Queries == Selects \cup {"process", "purge", "drop"}
Steps   == Queries \cup {"idle", "found", "missing", "answered", "late", "create", "panicked"}

VARIABLES
    setups,         \* how often an instance was set up
    idle,           \* connections in the pool
    lost,           \* connections closed by a panic since the pool was made (history)
    holds,          \* the threads that have a connection
    table,          \* the table exists
    rows,           \* of the table
    nextId,         \* AUTOINCREMENT
    pc,             \* what each thread does next
    arriving,       \* the parity id that the Receiver inserts, if any
    work,           \* the ids that the transposer listed and has yet to come to
    expired,        \* the watchers whose time is over
    stale           \* the table was made anew since the transposer listed it (history)

vars == <<setups, idle, lost, holds, table, rows, nextId, pc, arriving, work, expired, stale>>
pool == <<setups, idle, lost, holds>>
down == <<table, rows, nextId>>

TypeOK ==
    /\ setups \in Nat /\ idle \in Nat /\ lost \in Nat
    /\ holds \in SUBSET Threads
    /\ table \in BOOLEAN
    /\ rows \in SUBSET Row /\ nextId \in Nat \ {0}
    /\ pc \in [Threads -> Steps]
    /\ arriving \in SUBSET Parity
    /\ work \in SUBSET Nat
    /\ expired \in SUBSET Watchers
    /\ stale \in BOOLEAN

\* The pool is empty before the first setup.
Init ==
    /\ setups = 0 /\ idle = 0 /\ lost = 0 /\ holds = {}
    /\ table = FALSE /\ rows = {} /\ nextId = 1
    /\ pc = [t \in Threads |-> "idle"]
    /\ arriving = {} /\ work = {} /\ expired = {}
    /\ stale = FALSE

Ids(some)     == {r.id : r \in some}
At(t, step)   == pc[t] = step
Goto(t, step) == pc' = [pc EXCEPT ![t] = step]
Waiting(p)    == p \in {r.parity : r \in rows}

\* A client that sends and waits was set up once, to the end.
Installed == setups > 1 \/ (setups = 1 /\ At(Installer, "idle"))
-------------------------------------------------------------------------------
(* The pool.                                                               *)

\* Mutant: the empty pool is not noticed.
GetUnchecked(t) ==
    /\ pc[t] \in Queries /\ t \notin holds
    /\ idle' = idle - 1 /\ holds' = holds \cup {t}
    /\ UNCHANGED <<setups, lost, down, pc, arriving, work, expired, stale>>

\* get_connection does not wait.
get_connection(t) ==
    /\ pc[t] \in Queries /\ t \notin holds
    /\ IF idle = 0
       THEN Goto(t, "panicked") /\ UNCHANGED <<idle, holds>>
       ELSE idle' = idle - 1 /\ holds' = holds \cup {t} /\ UNCHANGED pc
    /\ UNCHANGED <<setups, lost, down, arriving, work, expired, stale>>

\* Mutant: the connection is not given back.
ForgetConnection(t) ==
    /\ t \in holds /\ holds' = holds \ {t}
    /\ UNCHANGED <<setups, lost, idle>>

\* The connection goes to the pool of now, whichever it was taken from.
release_connection(t) ==
    /\ t \in holds /\ holds' = holds \ {t}
    /\ idle' = idle + 1
    /\ UNCHANGED <<setups, lost>>

\* The query cannot be prepared: the panic closes the connection.
Broken(t) ==
    /\ pc[t] \in Selects /\ t \in holds /\ ~table
    /\ holds' = holds \ {t} /\ lost' = lost + 1
    /\ Goto(t, "panicked")
    /\ UNCHANGED <<setups, idle, down, arriving, work, expired, stale>>
-------------------------------------------------------------------------------
(* setup_socket_client: buffer_down_initialize_table.                      *)

\* The connections that are in use stay so; those of the old pool are closed.
set_new_path_to_buffer_db ==
    /\ At(Installer, "idle") /\ setups < MaxSetups
    /\ setups' = setups + 1
    /\ idle' = Size /\ lost' = 0
    /\ Goto(Installer, "drop")
    /\ UNCHANGED <<holds, down, arriving, work, expired, stale>>

\* With the table goes its counter of ids.
DropTable ==
    /\ At(Installer, "drop") /\ Installer \in holds
    /\ table' = FALSE /\ rows' = {} /\ nextId' = 1
    /\ stale' = (work # {})
    /\ Goto(Installer, "create")
    /\ UNCHANGED <<pool, arriving, work, expired>>

CreateTable ==
    /\ At(Installer, "create") /\ release_connection(Installer)
    /\ table' = TRUE
    /\ Goto(Installer, "idle")
    /\ UNCHANGED <<rows, nextId, arriving, work, expired, stale>>
-------------------------------------------------------------------------------
(* The loop of the client receives a command or a response.                *)

Receive(p) ==
    /\ At(Receiver, "idle") /\ Installed /\ nextId <= MaxId
    /\ arriving' = {p}
    /\ Goto(Receiver, "check")
    /\ UNCHANGED <<pool, down, work, expired, stale>>

\* Mutant: whatever is in the table, the row is inserted.
CheckNothing ==
    /\ At(Receiver, "check") /\ release_connection(Receiver) /\ table
    /\ Goto(Receiver, "insert")
    /\ UNCHANGED <<down, arriving, work, expired, stale>>

\* check_if_parity_id_is_registred: a parity id that is in the table is ignored.
Check ==
    /\ At(Receiver, "check") /\ release_connection(Receiver) /\ table
    /\ IF \E p \in arriving : Waiting(p)
       THEN arriving' = {} /\ Goto(Receiver, "idle")
       ELSE UNCHANGED arriving /\ Goto(Receiver, "insert")
    /\ UNCHANGED <<down, work, expired, stale>>

Insert ==
    /\ At(Receiver, "insert") /\ release_connection(Receiver) /\ table
    /\ rows' = rows \cup {[id |-> nextId, parity |-> p, old |-> FALSE] : p \in arriving}
    /\ nextId' = nextId + 1
    /\ arriving' = {}
    /\ Goto(Receiver, "idle")
    /\ UNCHANGED <<table, work, expired, stale>>

\* A row is in the table for 240 seconds.
Age(r) ==
    /\ r \in rows /\ ~r.old
    /\ rows' = (rows \ {r}) \cup {[r EXCEPT !.old = TRUE]}
    /\ UNCHANGED <<pool, table, nextId, pc, arriving, work, expired, stale>>
-------------------------------------------------------------------------------
(* initialize_socket_client_transposer.                                    *)

Activate ==
    /\ At(Transposer, "idle") /\ Installed
    /\ Goto(Transposer, "list")
    /\ UNCHANGED <<pool, down, arriving, work, expired, stale>>

\* Mutant: responses that are waited for are not left out.
WholeSchedule == rows

\* What the transposer leaves in the table are responses without auto_collect.
Schedule == {r \in rows : r.parity \in Commands}

\* With nothing to process it clears old data.
List ==
    /\ At(Transposer, "list") /\ release_connection(Transposer) /\ table
    /\ work' = Ids(Schedule)
    /\ Goto(Transposer, IF Schedule = {} THEN "old" ELSE "process")
    /\ stale' = FALSE
    /\ UNCHANGED <<down, arriving, expired>>

\* buffer_down_clear_old_commands.
ListOld ==
    /\ At(Transposer, "old") /\ release_connection(Transposer) /\ table
    /\ work' = Ids({r \in rows : r.old})
    /\ Goto(Transposer, IF work' = {} THEN "idle" ELSE "purge")
    /\ stale' = FALSE
    /\ UNCHANGED <<down, arriving, expired>>

\* Next row, or again the same, once for each command of a List.
GoOn(left) ==
    /\ work' = left
    /\ IF left = {} THEN Goto(Transposer, "idle") ELSE UNCHANGED pc
    /\ stale' = (stale /\ left # {})

\* An error of the conversion or of the callback leaves the row; so does an
\* empty List.
LeaveRow(id) ==
    /\ At(Transposer, "process") /\ Transposer \notin holds /\ id \in work
    /\ GoOn(work \ {id})
    /\ UNCHANGED <<pool, down, arriving, expired>>

\* buffer_down_remove_schedule_by_id; a missing table is an error, printed.
RemoveRow(id) ==
    /\ pc[Transposer] \in {"process", "purge"} /\ id \in work
    /\ release_connection(Transposer)
    /\ rows' = {r \in rows : r.id # id}
    /\ \/ GoOn(work \ {id})
       \/ At(Transposer, "process") /\ GoOn(work)
    /\ UNCHANGED <<table, nextId, arriving, expired>>
-------------------------------------------------------------------------------
(* watch_response.                                                         *)

Watch(w) ==
    /\ pc[w] \in {"idle", "answered", "late"} /\ Installed
    /\ Goto(w, "look")
    /\ UNCHANGED <<pool, down, arriving, work, expired, stale>>

\* The row stays in the table.
Look(w) ==
    /\ At(w, "look") /\ release_connection(w) /\ table
    /\ Goto(w, IF Waiting(w) THEN "found" ELSE "missing")
    /\ UNCHANGED <<down, arriving, work, expired, stale>>

\* Mutant: the deadline is tested for a response only.
JudgeFound(w) ==
    /\ pc[w] \in {"found", "missing"}
    /\ Goto(w, IF At(w, "missing") THEN "look"
               ELSE IF w \in expired THEN "late" ELSE "answered")
    /\ expired' = (IF At(w, "missing") THEN expired ELSE expired \ {w})
    /\ UNCHANGED <<pool, down, arriving, work, stale>>

\* The deadline comes first.
Judge(w) ==
    /\ pc[w] \in {"found", "missing"}
    /\ Goto(w, IF w \in expired THEN "late"
               ELSE IF At(w, "found") THEN "answered" ELSE "look")
    /\ expired' = expired \ {w}
    /\ UNCHANGED <<pool, down, arriving, work, stale>>

Expire(w) ==
    /\ pc[w] \in {"look", "found", "missing"} /\ w \notin expired
    /\ expired' = expired \cup {w}
    /\ UNCHANGED <<pool, down, pc, arriving, work, stale>>
-------------------------------------------------------------------------------
WatchStep(w) == get_connection(w) \/ Broken(w) \/ Look(w) \/ Judge(w)

Next ==
    \/ set_new_path_to_buffer_db \/ DropTable \/ CreateTable
    \/ Check \/ Insert \/ \E p \in Parity : Receive(p)
    \/ \E r \in rows : Age(r)
    \/ Activate \/ List \/ ListOld
    \/ \E id \in work : LeaveRow(id) \/ RemoveRow(id)
    \/ \E t \in Threads : get_connection(t) \/ Broken(t)
    \/ \E w \in Watchers : Watch(w) \/ Look(w) \/ Judge(w) \/ Expire(w)

Spec == Init /\ [][Next]_vars

\* A thread that waits is not suspended for ever, and its time passes.
FairSpec == Spec /\ \A w \in Watchers : WF_vars(WatchStep(w)) /\ WF_vars(Expire(w))
-------------------------------------------------------------------------------
\* A thread panics for want of a connection only when all those of a pool are in
\* use by others, or were closed by panics since the last setup: none gets lost on
\* the way, although they are given back to another pool than they came from when
\* an instance is set up.  And it panics for want of the table only while another
\* instance is being set up.
DiesOnlyCrowded ==
    [][\A t \in Threads :
          At(t, "panicked")' /\ ~At(t, "panicked") =>
              IF t \in holds THEN At(Installer, "create")
                             ELSE Cardinality(holds) + lost >= Size]_vars

\* No parity id is in the table twice, although check and insert are two queries:
\* the client has one thread that inserts.  (A host has one for each connection.)
OneRow == \A r, q \in rows : r.parity = q.parity => r = q

\* A response that a user thread waits for is not taken away by the transposer
\* for 240 seconds, unless the table is made anew, or was since the transposer
\* listed it: the new table gives the same ids again, to other rows.
AwaitedStays ==
    [][\A r \in rows :
          r.parity \in Watchers /\ ~Waiting(r.parity)' =>
              r.old \/ At(Installer, "drop") \/ stale]_vars

\* Whoever waits for a response gets it, or an error when the time is over, or
\* panics; it does not wait for ever, whatever becomes of the table.
WatchEnds ==
    \A w \in Watchers :
        pc[w] \in {"look", "found", "missing"} ~> pc[w] \in {"answered", "late", "panicked"}
===============================================================================
