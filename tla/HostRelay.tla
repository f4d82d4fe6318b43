------------------------------ MODULE HostRelay -------------------------------
(***************************************************************************)
(* A command travelling through the bus: the up and down tables of every   *)
(* client and of the host, the request/reply exchange of each client with  *)
(* its connection thread in the host (handle_connection), the host's task  *)
(* table that remembers who asked for what, and the transposers that run   *)
(* the handlers.  Clients, connections and the host may fail.              *)
(*                                                                         *)
(* One request is handled in one step, up to the reply on its way: what is *)
(* queued for a target is in its table while the sender still waits for    *)
(* the confirmation, and either may fail then.  The races between several  *)
(* threads of the host inside a request are not the subject of this        *)
(* module.                                                                 *)
(***************************************************************************)
EXTENDS EnhancedBuffer, FiniteSets

CONSTANTS
    Clients,      \* client keys of the whitelist, all of them nodes of the map
    Parities,     \* parity ids: one per command, random 16 digit strings
    Host,         \* CommandTarget::Host
    Origin,       \* CommandTarget::Origin
    NoParity,     \* "itisaspecialcase", the parity id of a ping
    MaxFaults     \* bound: broken connections, host restarts, panics of a
                  \* client's transposer, and expired rows

ASSUME NamesAssumption ==
    /\ Host \notin Clients /\ Origin \notin Clients /\ Host # Origin
    /\ NoParity \notin Parities
    /\ MaxFaults \in Nat

Targets  == Clients \cup {Host, Origin}
Statuses == {"NotImplemented", "Offline", "NotSyncYet", "Online"}

\* What a command is by mode, type and status, as far as its handling differs.
\* A ping (C206) and its answer (C207) carry no command.
Kinds == {"Function", "Response", "Failure", "C210"}
Ping  == [kind |-> "C206", parity |-> NoParity, target |-> Host]
Pong  == [kind |-> "C207", parity |-> NoParity, target |-> Origin]

UpRow   == [id : Nat, client : Clients, parity : Parities, kind : Kinds, target : Targets]
DownRow == [client : Clients, parity : Parities, kind : {"Function", "Response"}]
Message == [kind : Kinds, parity : Parities, target : Targets] \cup {Ping, Pong}
Task    == [parity : Parities, origin : Clients]
Link    == [phase : {"closed", "idle", "request", "reply"},
            request : Message, reply : Message]
Order   == [from : Clients \cup {Host}, to : Clients \cup {Host}, after : SUBSET Parities]
\* The parity id of a command that nobody has scheduled yet.
NoOrder == [from |-> Host, to |-> Host, after |-> {}]

\* How a command can end other than by an answer: the handler returned nothing
\* (C210), the host refused the command, the host's handler failed, the host
\* refused to redirect the response, or the command or its response was dropped.
Endings == {"muted", "refused", "failed", "undelivered", "lost"}

VARIABLES
    \* the client processes
    clientUp, clientDown,  \* their two tables
    batch,                 \* the listing the send loop is working through
    running,               \* CLIENT_IS_RUNNING
    alive,                 \* the transposer has not panicked
    holds,                 \* the response that the transposer has yet to queue
    \* the host process
    hostUp, hostDown,      \* its two tables
    nextId,                \* next AUTOINCREMENT id of each up table
    tasks,                 \* TASKS_MANAGER: per node, parity id -> origin
    status,                \* NodeStatus of each client in HOST_COMMAND_PATTERNS
    \* the connections
    link,                  \* per client: the exchange in progress
    orphans,               \* host threads whose peer is gone, not yet noticed
    late,                  \* requests these threads have yet to read
    faults,                \* what MaxFaults bounds, so far
    \* history, read by no action
    order,                 \* who scheduled a parity id, for whom, after which others
    runs, answers,         \* how often the handler / the response handler ran
    closed                 \* how a command ended without an answer

client_vars  == <<clientUp, clientDown, batch, running, alive, holds>>
host_vars    == <<hostUp, hostDown, tasks, status>>
fault_vars   == <<orphans, late, faults>>
history_vars == <<order, runs, answers, closed>>
vars == <<clientUp, clientDown, batch, running, alive, holds, hostUp, hostDown, nextId,
          tasks, status, link, orphans, late, faults, order, runs, answers, closed>>

\* With no exchange in progress, request and reply mean nothing.
Closed == [phase |-> "closed", request |-> Pong, reply |-> Pong]
Idle   == [phase |-> "idle", request |-> Pong, reply |-> Pong]

AsMessage(row)  == [kind |-> row.kind, parity |-> row.parity, target |-> row.target]
Confirmation(p) == [kind |-> "C210", parity |-> p, target |-> Origin]
Refusal(p)      == [kind |-> "Failure", parity |-> p, target |-> Origin]

TypeOK ==
    /\ clientUp \in [Clients -> SUBSET UpRow]
    /\ clientDown \in [Clients -> SUBSET DownRow]
    /\ batch \in [Clients -> SUBSET UpRow]
    /\ running \in [Clients -> BOOLEAN]
    /\ alive \in [Clients -> BOOLEAN]
    /\ holds \in [Clients -> SUBSET Parities]
    /\ hostUp \in SUBSET UpRow
    /\ hostDown \in SUBSET DownRow
    /\ nextId \in [Clients \cup {Host} -> Nat]
    /\ tasks \in [Clients \cup {Host} -> SUBSET Task]
    /\ status \in [Clients -> Statuses]
    /\ link \in [Clients -> Link]
    /\ orphans \in [Clients -> Nat]
    /\ late \in [Clients -> SUBSET Message]
    /\ faults \in Nat
    /\ order \in [Parities -> Order]
    /\ runs \in [Parities -> Nat]
    /\ answers \in [Parities -> Nat]
    /\ closed \in [Parities -> SUBSET Endings]

Init ==
    /\ clientUp = [c \in Clients |-> {}]
    /\ clientDown = [c \in Clients |-> {}]
    /\ batch = [c \in Clients |-> {}]
    /\ running = [c \in Clients |-> TRUE]
    /\ alive = [c \in Clients |-> TRUE]
    /\ holds = [c \in Clients |-> {}]
    /\ hostUp = {}
    /\ hostDown = {}
    /\ nextId = [n \in Clients \cup {Host} |-> 1]
    /\ tasks = [n \in Clients \cup {Host} |-> {}]
    /\ status = [c \in Clients |-> "NotImplemented"]
    /\ link = [c \in Clients |-> Closed]
    /\ orphans = [c \in Clients |-> 0]
    /\ late = [c \in Clients |-> {}]
    /\ faults = 0
    /\ order = [p \in Parities |-> NoOrder]
    /\ runs = [p \in Parities |-> 0]
    /\ answers = [p \in Parities |-> 0]
    /\ closed = [p \in Parities |-> {}]

Scheduled(p) == order[p] # NoOrder

\* Rows of a table, as the parity ids they stand for.
ParitiesOf(table) == {r.parity : r \in table}

\* What a reply that is never read takes with it: a row that has already left
\* the host's table.
LostWith(message) ==
    IF message.kind \in {"Function", "Response", "Failure"} THEN {message.parity} ELSE {}

End(parities, ending) ==
    closed' = [p \in Parities |-> IF p \in parities THEN closed[p] \cup {ending}
                                  ELSE closed[p]]
-------------------------------------------------------------------------------
(* The client.                                                             *)

\* scheduler::schedule: a user of client c gives a command a fresh parity id
\* and puts it in the up table.
Schedule(c, p, target) ==
    /\ ~Scheduled(p)
    /\ target # c
    /\ clientUp' = [clientUp EXCEPT ![c] = buffer_up_schedule(@,
           [id |-> nextId[c], client |-> c, parity |-> p,
            kind |-> "Function", target |-> target])]
    /\ nextId' = [nextId EXCEPT ![c] = @ + 1]
    /\ order' = [order EXCEPT ![p] = [from |-> c, to |-> target,
           after |-> {q \in Parities : order[q].from = c /\ order[q].to = target}]]
    /\ UNCHANGED <<clientDown, batch, running, alive, holds, host_vars, link, fault_vars,
                   runs, answers, closed>>

\* One turn of the loop of initialize_client: the next row of the listing, a
\* new listing when that is used up, a ping when the table is empty.
ClientSend(c) ==
    LET listing == IF batch[c] # {} THEN batch[c] ELSE clientUp[c]
        request == IF listing = {} THEN Ping ELSE AsMessage(first_of(listing))
    IN  /\ running[c]
        /\ link[c].phase = "idle"
        /\ link' = [link EXCEPT ![c] =
               [phase |-> "request", request |-> request, reply |-> Pong]]
        /\ batch' = [batch EXCEPT ![c] =
               IF listing = {} THEN {} ELSE listing \ {first_of(listing)}]
        /\ UNCHANGED <<clientUp, clientDown, running, alive, holds, host_vars, nextId,
                       fault_vars, history_vars>>

\* The client gives up: it leaves the loop and drops its stream.
Stop(c) ==
    /\ running' = [running EXCEPT ![c] = FALSE]
    /\ batch' = [batch EXCEPT ![c] = {}]
    /\ link' = [link EXCEPT ![c] = Closed]
    /\ orphans' = [orphans EXCEPT ![c] = @ + 1]

\* A Failure: the row is taken out of the up table when it was sent as a
\* command (not when a ping brings it), and the client stops.
ReceiveFailure(c) ==
    LET sent == link[c].request.kind
        p    == link[c].reply.parity
    IN  /\ link[c].phase = "reply"
        /\ link[c].reply.kind = "Failure"
        /\ clientUp' = [clientUp EXCEPT ![c] =
               IF sent = "C206" THEN @
               ELSE buffer_up_remove_schedule_by_parity_id(@, c, p)]
        /\ Stop(c)
        /\ End({p}, CASE sent = "C206" -> "failed" [] sent = "Function" -> "refused"
                      [] OTHER -> "undelivered")
        /\ UNCHANGED <<clientDown, alive, holds, host_vars, nextId, late, faults, order, runs,
                       answers>>

\* A confirmation: the up table is cleared of the parity id.
ReceiveConfirmation(c) ==
    /\ link[c].phase = "reply"
    /\ link[c].reply.kind = "C210"
    /\ clientUp' = [clientUp EXCEPT ![c] =
           buffer_up_remove_schedule_by_parity_id(@, c, link[c].reply.parity)]
    /\ link' = [link EXCEPT ![c] = Idle]
    /\ UNCHANGED <<clientDown, batch, running, alive, holds, host_vars, nextId, fault_vars,
                   history_vars>>

ReceivePong(c) ==
    /\ link[c].phase = "reply"
    /\ link[c].reply.kind = "C207"
    /\ link' = [link EXCEPT ![c] = Idle]
    /\ UNCHANGED <<client_vars, host_vars, nextId, fault_vars, history_vars>>

\* A command or a response: it goes to the down table, for the transposer.
ReceiveCommand(c) ==
    LET reply == link[c].reply
    IN  /\ link[c].phase = "reply"
        /\ reply.kind \in {"Function", "Response"}
        /\ clientDown' = [clientDown EXCEPT ![c] = buffer_down_schedule(@,
               [client |-> c, parity |-> reply.parity, kind |-> reply.kind])]
        /\ link' = [link EXCEPT ![c] = Idle]
        /\ UNCHANGED <<clientUp, batch, running, alive, holds, host_vars, nextId, fault_vars,
                       history_vars>>

\* The transposer of c, one thread, is not inside process().
Free(c) == alive[c] /\ holds[c] = {}

\* process() throws the row away when its parity id is in the up table: it
\* takes the command for one that is already answered.
Discard(row) == End({row.parity}, "lost") /\ UNCHANGED <<runs, answers>>

\* process() runs the handler of a command.  A handler returns instructions,
\* which go back to the origin, or nothing.  The row leaves the down table now;
\* the response is in no table until QueueAnswer.  (A handler that fails leaves
\* the row where it is: no step.)
ProcessFunction(c, row, responds) ==
    /\ Free(c)
    /\ row \in clientDown[c]
    /\ row.kind = "Function"
    /\ clientDown' = [clientDown EXCEPT ![c] = @ \ {row}]
    /\ IF ~check_if_parity_id_is_registered(clientUp[c], row.parity, c)
       THEN Discard(row) /\ UNCHANGED holds
       ELSE /\ runs' = [runs EXCEPT ![row.parity] = @ + 1]
            /\ IF responds
               THEN holds' = [holds EXCEPT ![c] = {row.parity}] /\ UNCHANGED closed
               ELSE End({row.parity}, "muted") /\ UNCHANGED holds
            /\ UNCHANGED answers
    /\ UNCHANGED <<clientUp, batch, running, alive, host_vars, nextId, link, fault_vars, order>>

\* Mutant: the response is built and forgotten.
ForgetAnswer(c) ==
    /\ holds[c] # {}
    /\ holds' = [holds EXCEPT ![c] = {}]
    /\ UNCHANGED <<clientUp, clientDown, batch, running, alive, host_vars, nextId, link,
                   fault_vars, history_vars>>

\* buffer_up_schedule at the end of process(): the response joins the up table.
QueueAnswer(c) ==
    /\ \E p \in holds[c] :
         clientUp' = [clientUp EXCEPT ![c] = buffer_up_schedule(@,
             [id |-> nextId[c], client |-> c, parity |-> p,
              kind |-> "Response", target |-> Origin])]
    /\ nextId' = [nextId EXCEPT ![c] = @ + 1]
    /\ holds' = [holds EXCEPT ![c] = {}]
    /\ UNCHANGED <<clientDown, batch, running, alive, host_vars, link, fault_vars,
                   history_vars>>

\* process() runs the response handler; its result is nothing.
ProcessResponse(c, row) ==
    /\ Free(c)
    /\ row \in clientDown[c]
    /\ row.kind = "Response"
    /\ clientDown' = [clientDown EXCEPT ![c] = @ \ {row}]
    /\ IF ~check_if_parity_id_is_registered(clientUp[c], row.parity, c)
       THEN Discard(row)
       ELSE /\ answers' = [answers EXCEPT ![row.parity] = @ + 1]
            /\ UNCHANGED <<runs, closed>>
    /\ UNCHANGED <<clientUp, batch, running, alive, holds, host_vars, nextId, link, fault_vars,
                   order>>

\* A query or a lookup of the transposer is unwrapped and fails: the thread ends
\* with what it holds.  The handle in the activator stays set, so no other
\* thread takes its place.
TransposerPanic(c) ==
    /\ faults < MaxFaults
    /\ faults' = faults + 1
    /\ alive[c]
    /\ alive' = [alive EXCEPT ![c] = FALSE]
    /\ holds' = [holds EXCEPT ![c] = {}]
    /\ End(holds[c], "lost")
    /\ UNCHANGED <<clientUp, clientDown, batch, running, host_vars, nextId, link, orphans,
                   late, order, runs, answers>>

\* clear_old_data: with nothing to process, rows older than 240 s go, from both
\* tables.  Responses that a user collects are not the transposer's to process;
\* which ones they are is left open.
ClientExpire(c, row) ==
    /\ faults < MaxFaults
    /\ faults' = faults + 1
    /\ Free(c)
    /\ \A r \in clientDown[c] : r.kind = "Response"
    /\ row \in clientUp[c] \cup clientDown[c]
    /\ clientUp' = [clientUp EXCEPT ![c] = @ \ {row}]
    /\ clientDown' = [clientDown EXCEPT ![c] = @ \ {row}]
    /\ End({row.parity}, "lost")
    /\ UNCHANGED <<batch, running, alive, holds, host_vars, nextId, link, orphans, late,
                   order, runs, answers>>
-------------------------------------------------------------------------------
(* The host: one iteration of handle_connection.  The request is that of   *)
(* the open connection of c, or one that a thread finds in the buffer of a *)
(* connection that c has already given up.                                 *)

Exchanges(c) ==
    {[live |-> TRUE, request |-> m] :
        m \in {n \in {link[c].request} : link[c].phase = "request"}}
    \cup {[live |-> FALSE, request |-> m] : m \in late[c]}

\* The reply reaches the client, or nobody: then closed records what it held.
Reply(c, x, message) ==
    IF x.live
    THEN /\ link' = [link EXCEPT ![c] =
                [phase |-> "reply", request |-> @.request, reply |-> message]]
         /\ UNCHANGED <<late, closed>>
    ELSE /\ late' = [late EXCEPT ![c] = @ \ {x.request}]
         /\ End(LostWith(message), "lost")
         /\ UNCHANGED link

\* handle_special_functions, C206: the oldest row waiting for c leaves the
\* table before it is sent.
HandlePing(c, x) ==
    LET waiting == buffer_up_list_schedule_fo_client_id(hostUp, c)
    IN  /\ x.request.kind = "C206"
        /\ IF waiting = {}
           THEN Reply(c, x, Pong) /\ UNCHANGED hostUp
           ELSE /\ Reply(c, x, AsMessage(first_of(waiting)))
                /\ hostUp' = buffer_up_remove_schedule_by_parity_id(
                                 hostUp, c, first_of(waiting).parity)
        /\ UNCHANGED <<client_vars, hostDown, tasks, status, nextId, orphans, faults,
                       order, runs, answers>>

\* get_response: the waiting row with this parity id, or a confirmation.
GetResponse(c, x, p) ==
    LET found == buffer_up_get_scheduled_by_parity_id(hostUp, c, p)
    IN  /\ Reply(c, x, IF found = {} THEN Confirmation(p) ELSE AsMessage(first_of(found)))
        /\ hostUp' = buffer_up_remove_schedule_by_parity_id(hostUp, c, p)
        /\ UNCHANGED nextId

\* A Failure goes back: the target is not ready, it has no such handler, or the
\* response target is not one that can be answered to.
Refuse(c, x) == Reply(c, x, Refusal(x.request.parity)) /\ UNCHANGED <<hostUp, nextId>>

\* Mutant: the sender gets its confirmation, the target gets nothing.
ForwardUnqueued(c, x, target) ==
    /\ status[target] = "Online"
    /\ Reply(c, x, Confirmation(x.request.parity))
    /\ UNCHANGED <<hostUp, nextId>>

\* redirect_commands_processing finds nothing to refuse: the message is queued
\* for the target, and the confirmation is on its way to the sender, who keeps
\* its row until it has read it.
Forward(c, x, target) ==
    LET p == x.request.parity
    IN  /\ status[target] = "Online"
        /\ Reply(c, x, Confirmation(p))
        /\ hostUp' = buffer_up_schedule(hostUp, [id |-> nextId[Host],
               client |-> target, parity |-> p, kind |-> x.request.kind,
               target |-> Origin])
        /\ nextId' = [nextId EXCEPT ![Host] = @ + 1]

\* Mutants: the task is filed under the sender; the target is taken for the origin.
AddTaskToSender(c, p, target) ==
    tasks' = [tasks EXCEPT ![c] = @ \cup {[parity |-> p, origin |-> c]}]
AddTaskFromTarget(c, p, target) ==
    tasks' = [tasks EXCEPT ![target] = @ \cup
                  {[parity |-> p, origin |-> IF target = Host THEN c ELSE target]}]

\* update_task_table(command, incoming): the task goes to the node that is
\* the target, with the sender as its origin.
AddTask(c, p, target) ==
    tasks' = [tasks EXCEPT ![target] = @ \cup {[parity |-> p, origin |-> c]}]

\* A command for another client.
HandleRedirect(c, x) ==
    LET p      == x.request.parity
        target == x.request.target
    IN  /\ x.request.kind = "Function"
        /\ target \in Clients
        /\ AddTask(c, p, target)
        /\ hostDown' = buffer_down_remove_schedule_by_parity_id(hostDown, c, p)
        /\ IF check_if_parity_id_is_registered(hostUp, p, target)
           THEN Refuse(c, x) \/ Forward(c, x, target)
           ELSE GetResponse(c, x, p)
        /\ UNCHANGED <<client_vars, status, orphans, faults, order, runs, answers>>

\* A command for the host itself (host_commands_processing).  An unknown handler
\* is refused before the duplicate check, a response target after it.
HandleHostCommand(c, x) ==
    LET p == x.request.parity
    IN  /\ x.request.kind = "Function"
        /\ x.request.target = Host
        /\ AddTask(c, p, Host)
        /\ \/ Refuse(c, x) /\ UNCHANGED hostDown
           \/ /\ check_if_parity_id_is_registered(hostUp, p, c)
              /\ hostDown' = buffer_down_schedule(hostDown,
                     [client |-> c, parity |-> p, kind |-> "Function"])
              /\ Reply(c, x, Confirmation(p))
              /\ UNCHANGED <<hostUp, nextId>>
           \/ /\ ~check_if_parity_id_is_registered(hostUp, p, c)
              /\ GetResponse(c, x, p)
              /\ UNCHANGED hostDown
        /\ UNCHANGED <<client_vars, status, orphans, faults, order, runs, answers>>

\* get_node_task_origin: the origin of the task of node c with parity id p.
TaskOrigins(c, p) == {t.origin : t \in {u \in tasks[c] : u.parity = p}}

\* A response: it goes to the origin of the task, and when that is refused the
\* task is removed and the responder gets the Failure.
HandleResponse(c, x) ==
    LET p == x.request.parity
    IN  /\ x.request.kind = "Response"
        /\ \E origin \in TaskOrigins(c, p) :
             /\ hostDown' = buffer_down_remove_schedule_by_parity_id(hostDown, c, p)
             /\ IF check_if_parity_id_is_registered(hostUp, p, origin)
                THEN \/ Forward(c, x, origin) /\ UNCHANGED tasks
                     \/ /\ Refuse(c, x)
                        /\ tasks' = [tasks EXCEPT ![c] = {t \in @ : t.parity # p}]
                ELSE GetResponse(c, x, p) /\ UNCHANGED tasks
        /\ UNCHANGED <<client_vars, status, orphans, faults, order, runs, answers>>

\* No task: get_node_task_origin(..).unwrap() panics, the thread ends without
\* a reply and without handle_client_disconnect; the client reads the end of
\* the stream and stops.
HandlerPanic(c, x) ==
    /\ x.request.kind = "Response"
    /\ TaskOrigins(c, x.request.parity) = {}
    /\ IF x.live
       THEN /\ running' = [running EXCEPT ![c] = FALSE]
            /\ batch' = [batch EXCEPT ![c] = {}]
            /\ link' = [link EXCEPT ![c] = Closed]
            /\ UNCHANGED <<orphans, late>>
       ELSE /\ orphans' = [orphans EXCEPT ![c] = @ - 1]
            /\ late' = [late EXCEPT ![c] = @ \ {x.request}]
            /\ UNCHANGED <<running, batch, link>>
    /\ UNCHANGED <<clientUp, clientDown, alive, holds, host_vars, nextId, faults, history_vars>>

\* The transposer takes a row of the down table.  A handler returns
\* instructions, nothing (C210) or an error; its result is queued for the
\* sender before the row is removed (schedule_up_commands).  One step: until
\* the row is removed only its owner looks at it.
HostProcess(row, outcome) ==
    /\ row \in hostDown
    /\ hostDown' = hostDown \ {row}
    /\ IF ~check_if_parity_id_is_registered(hostUp, row.parity, row.client)
       THEN UNCHANGED <<hostUp, nextId, runs, closed>>
       ELSE /\ hostUp' = buffer_up_schedule(hostUp, [id |-> nextId[Host],
                   client |-> row.client, parity |-> row.parity,
                   kind |-> outcome, target |-> Origin])
            /\ nextId' = [nextId EXCEPT ![Host] = @ + 1]
            /\ runs' = [runs EXCEPT ![row.parity] = @ + 1]
            /\ IF outcome = "C210" THEN End({row.parity}, "muted") ELSE UNCHANGED closed
    /\ UNCHANGED <<client_vars, tasks, status, link, fault_vars, order, answers>>

\* clear_old_data of the host's transposer.
HostExpire(row) ==
    /\ faults < MaxFaults
    /\ faults' = faults + 1
    /\ hostDown = {}
    /\ row \in hostUp
    /\ hostUp' = hostUp \ {row}
    /\ End({row.parity}, "lost")
    /\ UNCHANGED <<client_vars, hostDown, tasks, status, nextId, link, orphans, late,
                   order, runs, answers>>
-------------------------------------------------------------------------------
(* Connections, failures and restarts.                                     *)

\* connect and verify_connection (C202).  The first request of a client whose
\* node is not there starts its synchronisation (update_client_sync_attempt).
Connect(c) ==
    /\ running[c]
    /\ link[c].phase = "closed"
    /\ link' = [link EXCEPT ![c] = Idle]
    /\ status' = [status EXCEPT ![c] = IF @ = "Online" THEN @ ELSE "NotSyncYet"]
    /\ UNCHANGED <<client_vars, hostUp, hostDown, tasks, nextId, fault_vars, history_vars>>

\* A request of a client starts the synchronisation again: the node was marked
\* Offline under its feet, or has left half of its attempts unanswered.
Resync(c) ==
    /\ Exchanges(c) # {}
    /\ status[c] # "NotSyncYet"
    /\ status' = [status EXCEPT ![c] = "NotSyncYet"]
    /\ UNCHANGED <<client_vars, hostUp, hostDown, tasks, nextId, link, fault_vars,
                   history_vars>>

\* The transposer registers the handlers of the client (the direct function
\* update_client_commands_ref), whatever has become of its connection since.
Synced(c) ==
    /\ status[c] \in {"NotSyncYet", "Offline"}
    /\ status' = [status EXCEPT ![c] = "Online"]
    /\ UNCHANGED <<client_vars, hostUp, hostDown, tasks, nextId, link, fault_vars,
                   history_vars>>

\* The connection breaks during an exchange: the request may still reach the
\* host, a reply is lost.  Only a ping that was reset lets the client connect
\* again; any other error, and the 15 s timeout, stops it.
Break(c, stops, arrives) ==
    /\ faults < MaxFaults
    /\ faults' = faults + 1
    /\ link[c].phase \in {"request", "reply"}
    /\ link[c].request.kind # "C206" => stops
    /\ arrives => link[c].phase = "request" /\ link[c].request \notin late[c]
    /\ late' = [late EXCEPT ![c] = IF arrives THEN @ \cup {link[c].request} ELSE @]
    /\ IF stops
       THEN Stop(c)
       ELSE /\ link' = [link EXCEPT ![c] = Closed]
            /\ orphans' = [orphans EXCEPT ![c] = @ + 1]
            /\ UNCHANGED <<running, batch>>
    /\ End(LostWith(link[c].reply), "lost")
    /\ UNCHANGED <<clientUp, clientDown, alive, holds, host_vars, nextId, order, runs, answers>>

\* Mutant: handled once more for a connection that was already closed.
NoticeDisconnectAgain(c) ==
    /\ orphans' = [orphans EXCEPT ![c] = @ - 1]
    /\ status' = [status EXCEPT ![c] = "Offline"]
    /\ UNCHANGED <<client_vars, hostUp, hostDown, tasks, nextId, link, late, faults,
                   history_vars>>

\* The thread of a dead connection has nothing left to read and gets its read
\* error: handle_client_disconnect.
NoticeDisconnect(c) ==
    /\ orphans[c] > Cardinality(late[c])
    /\ orphans' = [orphans EXCEPT ![c] = @ - 1]
    /\ status' = [status EXCEPT ![c] = "Offline"]
    /\ UNCHANGED <<client_vars, hostUp, hostDown, tasks, nextId, link, late, faults,
                   history_vars>>

\* A stopped client is started again, in a new process: its tables are dropped
\* and recreated, and what the old transposer held is gone.
ClientRestart(c) ==
    /\ ~running[c]
    /\ running' = [running EXCEPT ![c] = TRUE]
    /\ clientUp' = [clientUp EXCEPT ![c] = {}]
    /\ clientDown' = [clientDown EXCEPT ![c] = {}]
    /\ nextId' = [nextId EXCEPT ![c] = 1]
    /\ alive' = [alive EXCEPT ![c] = TRUE]
    /\ holds' = [holds EXCEPT ![c] = {}]
    /\ End(ParitiesOf(clientUp[c]) \cup ParitiesOf(clientDown[c]) \cup holds[c], "lost")
    /\ UNCHANGED <<batch, host_vars, link, fault_vars, order, runs, answers>>

\* The host is started again: tables and task table are new and every open
\* connection is gone.  A client survives it when its next or current request
\* is a ping, and connects again.
HostRestart(survivors) ==
    /\ faults < MaxFaults
    /\ faults' = faults + 1
    /\ \A c \in survivors :
         /\ running[c]
         /\ link[c].request.kind \in {"C206", "C207"}
         /\ link[c].phase = "idle" => clientUp[c] = {} /\ batch[c] = {}
    /\ \A c \in Clients : running[c] /\ link[c].phase = "closed" => c \in survivors
    /\ running' = [c \in Clients |-> c \in survivors]
    /\ batch' = [c \in Clients |-> IF c \in survivors THEN batch[c] ELSE {}]
    /\ link' = [c \in Clients |-> Closed]
    /\ orphans' = [c \in Clients |-> 0]
    /\ late' = [c \in Clients |-> {}]
    /\ hostUp' = {}
    /\ hostDown' = {}
    /\ nextId' = [nextId EXCEPT ![Host] = 1]
    /\ tasks' = [n \in Clients \cup {Host} |-> {}]
    /\ status' = [c \in Clients |-> "NotImplemented"]
    /\ End(ParitiesOf(hostUp) \cup ParitiesOf(hostDown)
           \cup (UNION {LostWith(link[c].reply) : c \in Clients})
           \cup (UNION {ParitiesOf(late[c]) \cap Parities : c \in Clients}), "lost")
    /\ UNCHANGED <<clientUp, clientDown, alive, holds, order, runs, answers>>
-------------------------------------------------------------------------------
ClientNext(c) ==
    \/ \E p \in Parities, target \in Clients \cup {Host} : Schedule(c, p, target)
    \/ ClientSend(c)
    \/ ReceiveFailure(c)
    \/ ReceiveConfirmation(c)
    \/ ReceivePong(c)
    \/ ReceiveCommand(c)
    \/ \E row \in clientDown[c], responds \in BOOLEAN : ProcessFunction(c, row, responds)
    \/ QueueAnswer(c)
    \/ \E row \in clientDown[c] : ProcessResponse(c, row)
    \/ TransposerPanic(c)
    \/ \E row \in clientUp[c] \cup clientDown[c] : ClientExpire(c, row)

ConnectionNext(c) ==
    \/ \E x \in Exchanges(c) : HandlePing(c, x)
    \/ \E x \in Exchanges(c) : HandleRedirect(c, x)
    \/ \E x \in Exchanges(c) : HandleHostCommand(c, x)
    \/ \E x \in Exchanges(c) : HandleResponse(c, x)
    \/ \E x \in Exchanges(c) : HandlerPanic(c, x)
    \/ Connect(c)
    \/ Resync(c)
    \/ Synced(c)
    \/ \E stops, arrives \in BOOLEAN : Break(c, stops, arrives)
    \/ NoticeDisconnect(c)
    \/ ClientRestart(c)

HostNext ==
    \/ \E row \in hostDown, outcome \in {"Response", "C210", "Failure"} :
         HostProcess(row, outcome)
    \/ \E row \in hostUp : HostExpire(row)
    \/ \E survivors \in SUBSET Clients : HostRestart(survivors)

Next ==
    \/ \E c \in Clients : ClientNext(c) \/ ConnectionNext(c)
    \/ HostNext

Spec == Init /\ [][Next]_vars
-------------------------------------------------------------------------------
(* Safety.                                                                 *)

\* Where a command, its response and its outcome may be: with the client that
\* asked and with the one that was asked, nobody else.
ClientRowAtHome(c, row) ==
    IF row.kind = "Function"
    THEN order[row.parity].from = c /\ order[row.parity].to = row.target
    ELSE order[row.parity].to = c /\ row.kind = "Response" /\ row.target = Origin

RequestAtHome(c, m) == m.kind = "C206" \/ ClientRowAtHome(c, m)

DeliveryAtHome(c, m) ==
    IF m.kind = "Function" THEN order[m.parity].to = c ELSE order[m.parity].from = c

UpAtHome   == \A c \in Clients : \A row \in clientUp[c] \cup batch[c] : ClientRowAtHome(c, row)
DownAtHome == \A c \in Clients : \A row \in clientDown[c] : DeliveryAtHome(c, row)
RequestsAtHome ==
    \A c \in Clients :
        /\ \A m \in late[c] : RequestAtHome(c, m)
        /\ link[c].phase \in {"request", "reply"} => RequestAtHome(c, link[c].request)
RepliesAtHome ==
    \A c \in Clients :
        link[c].phase = "reply" /\ link[c].reply.kind \in {"Function", "Response"}
            => DeliveryAtHome(c, link[c].reply)
HostAtHome ==
    /\ \A row \in hostUp : DeliveryAtHome(row.client, row)
    /\ \A row \in hostDown : order[row.parity].from = row.client /\ order[row.parity].to = Host
HoldsAtHome == \A c \in Clients : \A p \in holds[c] : order[p].to = c
TasksAtHome ==
    \A n \in Clients \cup {Host} : \A t \in tasks[n] :
        order[t.parity].to = n /\ order[t.parity].from = t.origin

\* Every command reaches the client it is addressed to and no other, and what
\* comes back reaches the client that asked: the origin that the task table
\* gives back (get_node_task_origin) is the sender, whatever connections were
\* lost and whoever was restarted in between.
RoutedHome ==
    /\ UpAtHome /\ DownAtHome /\ HoldsAtHome
    /\ RequestsAtHome /\ RepliesAtHome
    /\ HostAtHome /\ TasksAtHome

\* No handler runs a command twice and no command is answered twice, although
\* the client keeps its row until it is confirmed, the host queues before it
\* confirms, and either side may die in between.
AtMostOnce ==
    \A p \in Parities : runs[p] <= 1 /\ answers[p] <= runs[p]

\* "already have a response!" / CommandAlreadyProcessed: both transposers and
\* handle_connection take a parity id that is in the up table for a command
\* that is already answered, and drop it.  They never drop a live one that way.
NeverTakenForDuplicate ==
    /\ \A c \in Clients : \A row \in clientDown[c] :
         check_if_parity_id_is_registered(clientUp[c], row.parity, c)
    /\ \A row \in hostDown :
         check_if_parity_id_is_registered(hostUp, row.parity, row.client)
    /\ \A c \in Clients : \A x \in Exchanges(c) :
         x.request.kind = "Function" =>
             \A n \in Clients : check_if_parity_id_is_registered(hostUp, x.request.parity, n)

\* The places that hold parity id p in some form.
Held(p) ==
    \/ \E c \in Clients :
         \/ p \in ParitiesOf(clientUp[c]) \cup ParitiesOf(clientDown[c])
         \/ p \in holds[c]
         \/ link[c].phase = "reply" /\ p \in LostWith(link[c].reply)
    \/ p \in ParitiesOf(hostUp) \cup ParitiesOf(hostDown)

\* Nothing has failed, and the host has turned down no command, no response and
\* no result: nobody had a reason to stop.
Untroubled ==
    /\ faults = 0
    /\ \A p \in Parities : closed[p] \cap {"refused", "failed", "undelivered"} = {}

\* A command that was scheduled is answered, or has one of the five endings, or
\* is in a table, in a reply, or in the hands of a transposer that has removed
\* the command and not yet queued its response.  A command is dropped ("lost")
\* only after a fault, or after a Failure that stopped some client: the restart
\* of that client drops its tables and what its transposer holds.
NothingVanishes ==
    \A p \in Parities :
        /\ Scheduled(p) => answers[p] > 0 \/ closed[p] # {} \/ Held(p)
        /\ "lost" \in closed[p] => ~Untroubled

\* How far a command has come: 1 the host has it, 2 its target has it.
AtHost(p)    == \E row \in hostUp : row.parity = p /\ row.kind = "Function"
AtTarget(p)  ==
    \/ runs[p] > 0
    \/ \E row \in hostDown : row.parity = p
    \/ \E c \in Clients :
         \/ \E row \in clientDown[c] : row.parity = p /\ row.kind = "Function"
         \/ link[c].phase = "reply" /\ link[c].reply.parity = p
              /\ link[c].reply.kind = "Function"
AtSender(p) ==
    \/ \E row \in clientUp[order[p].from] : row.parity = p /\ row.kind = "Function"
    \/ \E m \in late[order[p].from] : m.parity = p /\ m.kind = "Function"

\* Commands of one client for one target arrive in the order they were
\* scheduled: the listing is sent row by row and each row is confirmed before
\* the next, and a ping takes the oldest row.  Only a command that was dropped
\* on the way may come after one that was scheduled later.
InOrder ==
    \A q \in Parities : \A p \in order[q].after :
        closed[p] = {} =>
            /\ AtSender(p) => ~AtHost(q) /\ ~AtTarget(q)
            /\ AtHost(p) => ~AtTarget(q)

\* A response never finds its task gone: the host remembers who asked until
\* the response has been redirected.  (Only a restart of the host forgets.)
TaskRemembered ==
    faults = 0 =>
        \A c \in Clients : \A x \in Exchanges(c) :
            x.request.kind = "Response" => TaskOrigins(c, x.request.parity) # {}

\* HostRelay keeps the promise of CommandPromise.
Promise == INSTANCE CommandPromise WITH Nodes <- Clients \cup {Host}
Promised == Promise!Spec
-------------------------------------------------------------------------------
(* Liveness.                                                               *)

\* The threads that run in a loop for as long as the connection lives: the
\* send loop of a client and its connection thread in the host.  No user has
\* to schedule anything, no row has to grow old, nothing has to fail, and a
\* transposer may sleep (ReactiveActivator says when it is woken), so those
\* actions have no fairness; one that holds a response is awake.
ThreadsOf(c) ==
    /\ WF_vars(ClientSend(c))
    /\ WF_vars(ReceiveFailure(c) \/ ReceiveConfirmation(c) \/ ReceivePong(c)
               \/ ReceiveCommand(c))
    /\ WF_vars(\E x \in Exchanges(c) :
                   \/ HandlePing(c, x) \/ HandleRedirect(c, x)
                   \/ HandleHostCommand(c, x) \/ HandleResponse(c, x)
                   \/ HandlerPanic(c, x))
    /\ WF_vars(Connect(c))
    /\ WF_vars(QueueAnswer(c))

FairSpec == Spec /\ \A c \in Clients : ThreadsOf(c)

\* A command and its response are only ever where a transposer, a failed
\* client or an ending accounts for them.
Stopped == \E c \in Clients : ~running[c]
Awaits(p, kind) ==
    \/ \E row \in hostDown : row.parity = p /\ row.kind = kind
    \/ \E c \in Clients : \E row \in clientDown[c] : row.parity = p /\ row.kind = kind

\* While every client stays up, a command that was scheduled arrives at its
\* target, and the result of one that ran arrives at its sender: none waits
\* for ever behind the pings, the confirmations and the other commands that
\* share its connections.
Arrives ==
    \A p \in Parities :
        /\ Scheduled(p) ~> runs[p] > 0 \/ Awaits(p, "Function") \/ closed[p] # {} \/ Stopped
        /\ runs[p] > 0 ~> answers[p] > 0 \/ Awaits(p, "Response") \/ closed[p] # {} \/ Stopped
===============================================================================
