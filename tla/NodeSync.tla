------------------------------- MODULE NodeSync -------------------------------
(***************************************************************************)
(* How the host keeps its network map and its sync controller, and the two *)
(* locks that guard them: HOST_COMMAND_PATTERNS (the nodes) and            *)
(* CLIENTS_SYNC_CONTROLLER.  Connection threads offer the network to their *)
(* client and count the attempts (update_client_sync_attempt), or take the *)
(* client off line (handle_client_disconnect); the transposer registers    *)
(* what a client answers (update_client_commands_ref); the last two run    *)
(* sync_verifier.  A step is what a thread does between two lock()s, as    *)
(* far as the locks cannot tell it from a longer one.                      *)
(***************************************************************************)
EXTENDS Naturals

CONSTANTS
    Clients,
    Connections,    \* connection threads of the host
    Owner,          \* the client at the other end of each
    Transposer,     \* the thread of the host's transposer
    Free,           \* the holder of a lock nobody holds
    MaxAttempts,    \* max_sync_attempts: 10 in the code
    MaxDisconnects  \* bound: connections that end

ASSUME ThreadsAssumption ==
    /\ Owner \in [Connections -> Clients]
    /\ Transposer \notin Connections
    /\ Free \notin Connections \cup {Transposer}
    /\ MaxAttempts \in Nat /\ MaxAttempts >= 2
    /\ MaxDisconnects \in Nat

Threads  == Connections \cup {Transposer}
Statuses == {"NotImplemented", "NotSyncYet", "Online", "Offline"}

\* What another node sees of a node: its status, and handlers or none.
NodeView == [status : Statuses, handlers : BOOLEAN]
\* known_network: None, or Some(the views of the other nodes).
Networks(c) == [Clients \ {c} -> NodeView]
\* The sync controller's Client; requested: last_sync_request is not -1.
Sync      == [synced : BOOLEAN, attempts : 0..MaxAttempts, requested : BOOLEAN]
NotSynced == [synced |-> FALSE, attempts |-> 0, requested |-> FALSE]

ConnectionSteps ==
    {"none", "read", "send", "attempt", "attempt_nodes", "attempt_count",
     "already", "max_nodes", "max_reset", "lookup", "gone_nodes", "gone_reset",
     "snapshot", "verify", "ended"}
TransposerSteps == {"idle", "registered", "snapshot", "verify"}

VARIABLES
    nodes,          \* HOST_COMMAND_PATTERNS: the node of every client
    known,          \* known_network of every node
    sync,           \* CLIENTS_SYNC_CONTROLLER
    patternsLock, controllerLock,  \* who holds the two locks
    pc,             \* what each thread does next
    passes,         \* per connection: calls of handle_client_disconnect to come
    verdicts,       \* per thread in sync_verifier: what it has yet to write
    registering,    \* the client, if any, whose registration the transposer runs
    offers,         \* clients with update_available_host_commands on the way
    registrations,  \* clients with a registration in the host's down table
    disconnects     \* connections that ended so far

data  == <<nodes, known, sync>>
locks == <<patternsLock, controllerLock>>
queues == <<offers, registrations>>
vars  == <<nodes, known, sync, patternsLock, controllerLock, pc, passes, verdicts,
           registering, offers, registrations, disconnects>>

TypeOK ==
    /\ nodes \in [Clients -> NodeView]
    /\ known \in [Clients -> SUBSET UNION {Networks(c) : c \in Clients}]
    /\ sync \in [Clients -> Sync]
    /\ patternsLock \in Threads \cup {Free}
    /\ controllerLock \in Threads \cup {Free}
    /\ pc \in [Threads -> ConnectionSteps \cup TransposerSteps]
    /\ passes \in [Connections -> 0..2]
    /\ verdicts \in [Threads -> SUBSET [client : Clients, synced : BOOLEAN]]
    /\ registering \in SUBSET Clients
    /\ offers \in SUBSET Clients
    /\ registrations \in SUBSET Clients
    /\ disconnects \in 0..MaxDisconnects

\* setup: the nodes are partially initialised, the controllers populated.
Init ==
    /\ nodes = [c \in Clients |-> [status |-> "NotImplemented", handlers |-> FALSE]]
    /\ known = [c \in Clients |-> {}]
    /\ sync = [c \in Clients |-> NotSynced]
    /\ patternsLock = Free /\ controllerLock = Free
    /\ pc = [t \in Threads |-> IF t = Transposer THEN "idle" ELSE "none"]
    /\ passes = [t \in Connections |-> 0]
    /\ verdicts = [t \in Threads |-> {}]
    /\ registering = {}
    /\ offers = {} /\ registrations = {}
    /\ disconnects = 0

\* get_all_nodes_except_node_with_key
Others(c) == [d \in Clients \ {c} |-> nodes[d]]

At(t, step)   == pc[t] = step
Goto(t, step) == pc' = [pc EXCEPT ![t] = step]
-------------------------------------------------------------------------------
(* handle_connection, up to the processing of the command.                 *)

Accept(t) ==
    /\ At(t, "none")
    /\ Goto(t, "read")
    /\ UNCHANGED <<data, locks, passes, verdicts, registering, queues, disconnects>>

\* The read fails: handle_client_disconnect in the error branch, and once more
\* after the loop.
ReadError(t) ==
    /\ At(t, "read")
    /\ disconnects < MaxDisconnects
    /\ disconnects' = disconnects + 1
    /\ passes' = [passes EXCEPT ![t] = 2]
    /\ Goto(t, "gone_nodes")
    /\ UNCHANGED <<data, locks, verdicts, registering, queues>>

\* A request is read, then get_sync_status and get_last_sync.  Another attempt
\* is due when there was none, or when the last one is more than 30 s old.
GetSyncStatus(t, isOld) ==
    /\ At(t, "read")
    /\ controllerLock = Free
    /\ isOld => sync[Owner[t]].requested
    /\ LET due == ~sync[Owner[t]].requested \/ isOld
       IN  Goto(t, IF ~sync[Owner[t]].synced /\ due THEN "send" ELSE "lookup")
    /\ UNCHANGED <<data, locks, passes, verdicts, registering, queues, disconnects>>

\* Mutant: the client is taken to know the network without being told.
SendNothing(t) ==
    /\ At(t, "send")
    /\ patternsLock = Free
    /\ known' = [known EXCEPT ![Owner[t]] = {Others(Owner[t])}]
    /\ Goto(t, "attempt")
    /\ UNCHANGED <<nodes, sync, locks, passes, verdicts, registering, queues, disconnects>>

\* send_network_available_commands: the client is taken to know the network
\* from the moment the offer is queued for it.
SendNetwork(t) ==
    /\ At(t, "send")
    /\ patternsLock = Free
    /\ known' = [known EXCEPT ![Owner[t]] = {Others(Owner[t])}]
    /\ offers' = offers \cup {Owner[t]}
    /\ Goto(t, "attempt")
    /\ UNCHANGED <<nodes, sync, locks, passes, verdicts, registering, registrations,
                   disconnects>>

\* update_client_sync_attempt: CLIENTS_SYNC_CONTROLLER until the end.
Attempt(t) ==
    /\ At(t, "attempt")
    /\ controllerLock = Free
    /\ controllerLock' = t
    /\ Goto(t, "attempt_nodes")
    /\ UNCHANGED <<data, patternsLock, passes, verdicts, registering, queues, disconnects>>

\* The inner block, with HOST_COMMAND_PATTERNS as well.
AttemptNodes(t) ==
    LET c == Owner[t]
    IN  /\ At(t, "attempt_nodes")
        /\ patternsLock = Free
        /\ nodes' = [nodes EXCEPT ![c].status =
               IF \/ sync[c].attempts >= MaxAttempts \div 2
                  \/ @ \in {"NotImplemented", "Offline"}
               THEN "NotSyncYet" ELSE @]
        /\ Goto(t, "attempt_count")
        /\ UNCHANGED <<known, sync, locks, passes, verdicts, registering, queues,
                       disconnects>>

\* Mutant: the attempts are counted, and never too many.
AttemptCountOnly(t) ==
    /\ At(t, "attempt_count")
    /\ sync' = [sync EXCEPT ![Owner[t]].requested = TRUE, ![Owner[t]].attempts = @ + 1]
    /\ controllerLock' = Free
    /\ Goto(t, "lookup")
    /\ UNCHANGED <<nodes, known, patternsLock, passes, verdicts, registering, queues,
                   disconnects>>

\* Clients::update_client_sync_attempt.  One attempt more; or the client has
\* become synchronised meanwhile; or the attempts are used up, and the client
\* is disconnected by a thread that still holds the controller.
AttemptCount(t) ==
    LET c == Owner[t]
    IN  /\ At(t, "attempt_count")
        /\ \/ /\ sync[c].synced
              /\ Goto(t, "already")
              /\ UNCHANGED <<sync, controllerLock>>
           \/ /\ ~sync[c].synced
              /\ sync[c].attempts = MaxAttempts
              /\ sync' = [sync EXCEPT ![c].requested = TRUE]
              /\ Goto(t, "max_nodes")
              /\ UNCHANGED controllerLock
           \/ /\ ~sync[c].synced
              /\ sync[c].attempts < MaxAttempts
              /\ sync' = [sync EXCEPT ![c].requested = TRUE, ![c].attempts = @ + 1]
              /\ controllerLock' = Free
              /\ Goto(t, "lookup")
        /\ UNCHANGED <<nodes, known, patternsLock, passes, verdicts, registering, queues,
                       disconnects>>

\* ClientAlreadySync: the node is put on line.
AlreadySync(t) ==
    /\ At(t, "already")
    /\ patternsLock = Free
    /\ nodes' = [nodes EXCEPT ![Owner[t]].status = "Online"]
    /\ controllerLock' = Free
    /\ Goto(t, "lookup")
    /\ UNCHANGED <<known, sync, patternsLock, passes, verdicts, registering, queues,
                   disconnects>>

\* The command is looked up in the patterns and processed.  Of the commands
\* only one matters here: the answer to an offer, which goes to the down table.
Lookup(t, registers) ==
    /\ At(t, "lookup")
    /\ patternsLock = Free
    /\ registers => Owner[t] \in offers
    /\ offers' = IF registers THEN offers \ {Owner[t]} ELSE offers
    /\ registrations' = IF registers THEN registrations \cup {Owner[t]} ELSE registrations
    /\ Goto(t, "read")
    /\ UNCHANGED <<data, locks, passes, verdicts, registering, disconnects>>
-------------------------------------------------------------------------------
(* handle_client_disconnect.                                               *)

\* Mutant: the controller is locked with the patterns, too early.
GoneNodesAndController(t) ==
    /\ pc[t] \in {"gone_nodes", "max_nodes"}
    /\ patternsLock = Free /\ controllerLock = Free
    /\ patternsLock' = t /\ controllerLock' = t
    /\ Goto(t, IF At(t, "gone_nodes") THEN "gone_reset" ELSE "max_reset")
    /\ UNCHANGED <<data, passes, verdicts, registering, queues, disconnects>>

\* change_client_node_status_and_stream(Offline): first the patterns ...
GoneNodes(t) ==
    /\ pc[t] \in {"gone_nodes", "max_nodes"}
    /\ patternsLock = Free
    /\ patternsLock' = t
    /\ Goto(t, IF At(t, "gone_nodes") THEN "gone_reset" ELSE "max_reset")
    /\ UNCHANGED <<data, controllerLock, passes, verdicts, registering, queues, disconnects>>

\* ... then the controller, to reinitialize() the client.
GoneReset(t) ==
    LET c == Owner[t]
    IN  /\ pc[t] \in {"gone_reset", "max_reset"}
        /\ controllerLock = Free
        /\ sync' = [sync EXCEPT ![c] = NotSynced]
        /\ nodes' = [nodes EXCEPT ![c].status = "Offline"]
        /\ patternsLock' = Free
        /\ passes' = [passes EXCEPT ![t] = @ - 1]
        /\ Goto(t, "snapshot")
        /\ UNCHANGED <<known, controllerLock, verdicts, registering, queues, disconnects>>
-------------------------------------------------------------------------------
(* sync_verifier.                                                          *)

\* network_know_differ: the known network is not the one of all other nodes.
KnowsNetwork(c) == known[c] = {Others(c)}

\* Mutant: only nodes that are off line are skipped.
VerdictsOnAll ==
    {[client |-> c, synced |-> KnowsNetwork(c)] :
        c \in {d \in Clients : nodes[d].status \notin {"NotImplemented", "Offline"}}}

\* What a copy of the network map says about the nodes that are on line.
Verdicts ==
    {[client |-> c, synced |-> KnowsNetwork(c)] :
        c \in {d \in Clients : nodes[d].status = "Online"}}

\* After sync_verifier: the disconnect may be handled a second time; the
\* transposer has processed its row.
After(t) ==
    IF t = Transposer THEN "idle"
    ELSE IF passes[t] > 0 THEN "gone_nodes" ELSE "ended"

\* The copy is taken, and the lock released.
Snapshot(t) ==
    /\ At(t, "snapshot")
    /\ patternsLock = Free
    /\ verdicts' = [verdicts EXCEPT ![t] = Verdicts]
    /\ Goto(t, IF Verdicts = {} THEN After(t) ELSE "verify")
    /\ UNCHANGED <<data, locks, passes, registering, queues, disconnects>>

Synced(s, new) ==
    IF new THEN [synced |-> TRUE, attempts |-> 0, requested |-> FALSE]
    ELSE [s EXCEPT !.synced = FALSE]

\* update_sync_status of one client after the other.
Verify(t, v) ==
    /\ At(t, "verify")
    /\ v \in verdicts[t]
    /\ controllerLock = Free
    /\ sync' = [sync EXCEPT ![v.client] = Synced(@, v.synced)]
    /\ verdicts' = [verdicts EXCEPT ![t] = @ \ {v}]
    /\ Goto(t, IF verdicts[t] = {v} THEN After(t) ELSE "verify")
    /\ UNCHANGED <<nodes, known, locks, passes, registering, queues, disconnects>>
-------------------------------------------------------------------------------
(* update_client_commands_ref, in the transposer.                          *)

Register(c) ==
    /\ At(Transposer, "idle")
    /\ c \in registrations
    /\ patternsLock = Free
    /\ nodes' = [nodes EXCEPT ![c] = [status |-> "Online", handlers |-> TRUE]]
    /\ registrations' = registrations \ {c}
    /\ registering' = {c}
    /\ Goto(Transposer, "registered")
    /\ UNCHANGED <<known, sync, locks, passes, verdicts, offers, disconnects>>

RegisterSync ==
    /\ At(Transposer, "registered")
    /\ controllerLock = Free
    /\ sync' = [c \in Clients |-> IF c \in registering THEN Synced(sync[c], TRUE) ELSE sync[c]]
    /\ registering' = {}
    /\ Goto(Transposer, "snapshot")
    /\ UNCHANGED <<nodes, known, locks, passes, verdicts, queues, disconnects>>
-------------------------------------------------------------------------------
RequestStep(t) ==
    \/ \E isOld \in BOOLEAN : GetSyncStatus(t, isOld)
    \/ SendNetwork(t)
    \/ Attempt(t)
    \/ AttemptNodes(t)
    \/ AttemptCount(t)
    \/ AlreadySync(t)
    \/ \E registers \in BOOLEAN : Lookup(t, registers)

DisconnectStep(t) == GoneNodes(t) \/ GoneReset(t)

VerifierStep(t) == Snapshot(t) \/ \E v \in verdicts[t] : Verify(t, v)

RegisterStep == RegisterSync \/ \E c \in Clients : Register(c)

Next ==
    \/ \E t \in Connections :
         Accept(t) \/ ReadError(t) \/ RequestStep(t) \/ DisconnectStep(t)
    \/ \E t \in Threads : VerifierStep(t)
    \/ RegisterStep

Spec == Init /\ [][Next]_vars

\* Every client connects and keeps sending (it pings when it has nothing to
\* send), the threads of the host run, and a client that is offered the network
\* again and again answers.
FairSpec ==
    /\ Spec
    /\ \A t \in Connections :
         /\ WF_vars(Accept(t))
         /\ SF_vars(RequestStep(t))
         /\ SF_vars(Lookup(t, TRUE))
    /\ SF_vars(VerifierStep(Transposer))
    /\ SF_vars(RegisterStep)
-------------------------------------------------------------------------------
\* The lock a thread needs for its next step, unless it has it for certain.
WantsPatterns(t) ==
    pc[t] \in {"send", "attempt_nodes", "already", "lookup", "gone_nodes", "max_nodes",
               "snapshot"}
WantsController(t) ==
    pc[t] \in {"attempt", "gone_reset", "max_reset", "verify", "registered"}

\* t waits for u: the locks are not reentrant, so u may be t itself.
WaitsFor(t, u) ==
    \/ WantsPatterns(t) /\ patternsLock = u
    \/ WantsController(t) /\ controllerLock = u

\* With two locks, a circle of waiting threads has one or two members.
Deadlocked(t, u) == WaitsFor(t, u) /\ WaitsFor(u, t)

InAttempt(t) ==
    pc[t] \in {"attempt_nodes", "attempt_count", "already", "max_nodes", "max_reset"}

\* update_client_sync_attempt is the only function that asks for the patterns
\* while it holds the controller: no deadlock of the host's threads is without
\* a thread that is inside it.
OnlyAttemptsDeadlock ==
    \A t, u \in Threads : Deadlocked(t, u) => InAttempt(t) \/ InAttempt(u)

\* A node that is Online has its handlers, which redirects to it look up,
\* although two other paths than its registration put a node on line or mark it
\* as synchronised: ClientAlreadySync, and the verdicts of sync_verifier.
OnlineHasHandlers ==
    \A c \in Clients : nodes[c].status = "Online" => nodes[c].handlers

\* "This function auto handles the error of max attempt reached too" and
\* disconnects the client (update_client_sync_attempt): the threads of the host
\* go on.
NoDeadlock == \A t, u \in Threads : ~Deadlocked(t, u)

\* No thread is between two of its writes to the nodes and the controller.
Quiet ==
    \A t \in Threads : pc[t] \in {"none", "read", "lookup", "ended", "idle"}

\* "Reinitialize the status of the client that disconnects, so when it
\* reconnects the First sync can occur naturally"
\* (change_client_node_status_and_stream): a node that is Offline is one whose
\* client will be offered the network.
OfflineSyncsAgain ==
    Quiet => \A c \in Clients : nodes[c].status = "Offline" => ~sync[c].synced

\* The network as it should be: all that are connected are on line, and every
\* one of them knows all others.
Settled ==
    \A c \in Clients : nodes[c].status = "Online" /\ sync[c].synced /\ KnowsNetwork(c)

\* As long as no client leaves half of its attempts unanswered and none is
\* disconnected, the network comes to rest: whoever registers makes the others
\* learn of it, by their being marked as not synchronised, and their registering
\* again does not go on for ever.  The last client to register is among them.
\* A TODO of handle_direct_function (lines 204-208) says that it "remains without
\* an update about the other nodes", its last offer being older than their own
\* registrations.  That is a state on the way: each of those registrations ends
\* in a sync_verifier, which finds what this client knows to be out of date and
\* has the network offered to it again (KnowsNetwork, in Verdicts).
Converges ==
    [](\A c \in Clients : sync[c].attempts < MaxAttempts \div 2) => <>[]Settled
===============================================================================
