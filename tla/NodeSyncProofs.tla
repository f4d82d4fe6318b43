---------------------------- MODULE NodeSyncProofs ----------------------------
(***************************************************************************)
(* For any number of clients, connections and attempts: the state of the   *)
(* host's synchronisation is well typed, no deadlock of its threads is     *)
(* without update_client_sync_attempt, and a node that is on line has its  *)
(* handlers.                                                               *)
(***************************************************************************)
EXTENDS NodeSync, TLAPS

\* Each lock is held at these places of the program text and nowhere else.
LocksWhereTaken ==
    \A t \in Threads :
        /\ controllerLock = t <=> InAttempt(t)
        /\ patternsLock = t <=> pc[t] \in {"gone_reset", "max_reset"}

\* Whatever may yet put a node on line, or make it one that is taken to be
\* synchronised, is about a client that has registered.
RegisteredBefore ==
    /\ \A c \in Clients :
         \/ nodes[c].status = "Online" \/ sync[c].synced \/ c \in registering
         => nodes[c].handlers
    /\ \A t \in Threads : \A v \in verdicts[t] : v.synced => nodes[v.client].handlers
    /\ \A t \in Connections : pc[t] = "already" => nodes[Owner[t]].handlers

\* What a thread in the middle of handle_client_disconnect has left to do.
PassesLeft ==
    \A t \in Connections :
        pc[t] \in {"gone_nodes", "gone_reset"} => passes[t] > 0

IInv == TypeOK /\ PassesLeft /\ LocksWhereTaken /\ RegisteredBefore

\* A change of status keeps a network map well typed, and every handler.
LEMMA StatusChange ==
  ASSUME NEW f \in [Clients -> NodeView], NEW c \in Clients, NEW s \in Statuses
  PROVE  LET g == [f EXCEPT ![c].status = s]
         IN  /\ g \in [Clients -> NodeView]
             /\ \A d \in Clients : g[d].handlers = f[d].handlers
             /\ g[c].status = s
             /\ \A d \in Clients \ {c} : g[d] = f[d]
  BY DEF NodeView, Statuses

\* What a client is taken to know when it is offered the network.
LEMMA OthersType ==
  ASSUME nodes \in [Clients -> NodeView], NEW c \in Clients
  PROVE  {Others(c)} \in SUBSET UNION {Networks(d) : d \in Clients}
  <1>1. Others(c) \in Networks(c)
    BY DEF Others, Networks
  <1>2. Networks(c) \in {Networks(d) : d \in Clients}
    OBVIOUS
  <1> QED
    BY <1>1, <1>2

\* update_sync_status keeps the entry of a client well typed.
LEMMA SyncedType ==
  ASSUME NEW s \in Sync, NEW new \in BOOLEAN
  PROVE  Synced(s, new) \in Sync /\ Synced(s, new).synced = new
  <1>1. [synced |-> TRUE, attempts |-> 0, requested |-> FALSE] \in Sync
    BY ThreadsAssumption DEF Sync
  <1>2. [s EXCEPT !.synced = FALSE] \in Sync
    BY DEF Sync
  <1>3. [s EXCEPT !.synced = FALSE].synced = FALSE
    BY DEF Sync
  <1>4. CASE new = TRUE
    BY <1>1, <1>4 DEF Synced
  <1>5. CASE new = FALSE
    BY <1>2, <1>3, <1>5 DEF Synced
  <1> QED
    BY <1>4, <1>5

LEMMA RequestedType ==
  ASSUME NEW s \in Sync
  PROVE  [s EXCEPT !.requested = TRUE] \in Sync
BY DEF Sync

\* Every verdict is about a client, and only about one that is on line.
LEMMA VerdictsType ==
  /\ Verdicts \in SUBSET [client : Clients, synced : BOOLEAN]
  /\ \A v \in Verdicts : nodes[v.client].status = "Online"
  <1>1. \A c \in Clients : KnowsNetwork(c) \in BOOLEAN
    BY DEF KnowsNetwork
  <1> QED
    BY <1>1 DEF Verdicts

\* Every step of a thread keeps the state well typed.
LEMMA TypeStep == IInv /\ [Next]_vars => (TypeOK /\ PassesLeft)'
  <1> SUFFICES ASSUME IInv, [Next]_vars PROVE (TypeOK /\ PassesLeft)'
    OBVIOUS
  <1> USE ThreadsAssumption DEF IInv, TypeOK, PassesLeft, LocksWhereTaken, InAttempt, Threads, ConnectionSteps, TransposerSteps, data, locks, queues, At, Goto, After
  <1>1. ASSUME NEW t \in Connections, Accept(t) PROVE (TypeOK /\ PassesLeft)'
    BY <1>1 DEF Accept
  <1>2. ASSUME NEW t \in Connections, ReadError(t) PROVE (TypeOK /\ PassesLeft)'
    BY <1>2 DEF ReadError
  <1>3. ASSUME NEW t \in Connections, NEW isOld \in BOOLEAN, GetSyncStatus(t, isOld) PROVE (TypeOK /\ PassesLeft)'
    BY <1>3 DEF GetSyncStatus
  <1>4. ASSUME NEW t \in Connections, SendNetwork(t) PROVE (TypeOK /\ PassesLeft)'
    <2>1. known' \in [Clients -> SUBSET UNION {Networks(d) : d \in Clients}]
      BY <1>4, OthersType DEF SendNetwork
    <2> QED
      BY <1>4, <2>1 DEF SendNetwork
  <1>5. ASSUME NEW t \in Connections, Attempt(t) PROVE (TypeOK /\ PassesLeft)'
    BY <1>5 DEF Attempt
  <1>6. ASSUME NEW t \in Connections, AttemptNodes(t) PROVE (TypeOK /\ PassesLeft)'
    <2>1. PICK s \in Statuses : nodes' = [nodes EXCEPT ![Owner[t]].status = s]
      BY <1>6 DEF AttemptNodes, NodeView, Statuses
    <2>2. nodes' \in [Clients -> NodeView]
      BY <2>1, StatusChange
    <2> QED
      BY <1>6, <2>2 DEF AttemptNodes
  <1>7. ASSUME NEW t \in Connections, AttemptCount(t) PROVE (TypeOK /\ PassesLeft)'
    <2>1. sync' \in [Clients -> Sync]
      <3> DEFINE c == Owner[t]
      <3>1. CASE UNCHANGED sync
        BY <3>1
      <3>2. CASE sync' = [sync EXCEPT ![c].requested = TRUE]
        <4>1. [sync[c] EXCEPT !.requested = TRUE] \in Sync
          BY RequestedType
        <4> QED
          BY <3>2, <4>1
      <3>3. CASE /\ sync[c].attempts < MaxAttempts
                 /\ sync' = [sync EXCEPT ![c].requested = TRUE, ![c].attempts = @ + 1]
        <4>1. sync[c].attempts + 1 \in 0..MaxAttempts
          BY <3>3 DEF Sync
        <4> QED
          BY <3>3, <4>1 DEF Sync
      <3> QED
        BY <1>7, <3>1, <3>2, <3>3 DEF AttemptCount
    <2> QED
      BY <1>7, <2>1 DEF AttemptCount
  <1>8. ASSUME NEW t \in Connections, AlreadySync(t) PROVE (TypeOK /\ PassesLeft)'
    <2>1. nodes' \in [Clients -> NodeView]
      <3>1. nodes' = [nodes EXCEPT ![Owner[t]].status = "Online"]
        BY <1>8 DEF AlreadySync
      <3>2. Owner[t] \in Clients /\ "Online" \in Statuses
        BY DEF Statuses
      <3>3. nodes \in [Clients -> NodeView]
        OBVIOUS
      <3> HIDE DEF IInv, TypeOK, PassesLeft, LocksWhereTaken
      <3> QED
        BY <3>1, <3>2, <3>3, StatusChange
    <2> QED
      BY <1>8, <2>1 DEF AlreadySync
  <1>9. ASSUME NEW t \in Connections, NEW registers \in BOOLEAN, Lookup(t, registers) PROVE (TypeOK /\ PassesLeft)'
    BY <1>9 DEF Lookup
  <1>10. ASSUME NEW t \in Connections, GoneNodes(t) PROVE (TypeOK /\ PassesLeft)'
    BY <1>10 DEF GoneNodes
  <1>11. ASSUME NEW t \in Connections, GoneReset(t) PROVE (TypeOK /\ PassesLeft)'
    <2>1. nodes' \in [Clients -> NodeView]
      <3>1. nodes' = [nodes EXCEPT ![Owner[t]].status = "Offline"]
        BY <1>11 DEF GoneReset
      <3>2. Owner[t] \in Clients /\ "Offline" \in Statuses
        BY DEF Statuses
      <3>3. nodes \in [Clients -> NodeView]
        OBVIOUS
      <3> HIDE DEF IInv, TypeOK, PassesLeft, LocksWhereTaken
      <3> QED
        BY <3>1, <3>2, <3>3, StatusChange
    <2>2. sync' \in [Clients -> Sync]
      BY <1>11 DEF GoneReset, NotSynced, Sync
    <2>3. At(t, "gone_reset") /\ passes[t] - 1 \in 0..2
      BY <1>11 DEF GoneReset
    <2>4. passes' \in [Connections -> 0..2]
      BY <1>11, <2>3 DEF GoneReset
    <2>5. PassesLeft'
      BY <1>11, <2>3 DEF GoneReset
    <2>6. patternsLock' \in Threads \cup {Free}
          /\ pc' \in [Threads -> ConnectionSteps \cup TransposerSteps]
      BY <1>11 DEF GoneReset
    <2>7. UNCHANGED <<known, controllerLock, verdicts, registering, queues, disconnects>>
      BY <1>11 DEF GoneReset
    <2>8. TypeOK'
      BY <2>1, <2>2, <2>4, <2>6, <2>7
    <2> QED
      BY <2>5, <2>8
  <1>12. ASSUME NEW t \in Threads, Snapshot(t) PROVE (TypeOK /\ PassesLeft)'
    <2>1. verdicts' \in [Threads -> SUBSET [client : Clients, synced : BOOLEAN]]
      BY <1>12, VerdictsType DEF Snapshot
    <2>2. pc' \in [Threads -> ConnectionSteps \cup TransposerSteps]
      BY <1>12 DEF Snapshot
    <2>3. PassesLeft'
      BY <1>12 DEF Snapshot
    <2> QED
      BY <1>12, <2>1, <2>2, <2>3 DEF Snapshot
  <1>13. ASSUME NEW t \in Threads, NEW v \in verdicts[t], Verify(t, v) PROVE (TypeOK /\ PassesLeft)'
    <2>1. sync' \in [Clients -> Sync]
      BY <1>13, SyncedType DEF Verify
    <2> QED
      BY <1>13, <2>1 DEF Verify
  <1>14. ASSUME RegisterSync PROVE (TypeOK /\ PassesLeft)'
    <2>1. sync' \in [Clients -> Sync]
      BY <1>14, SyncedType DEF RegisterSync
    <2> QED
      BY <1>14, <2>1 DEF RegisterSync
  <1>15. ASSUME NEW c \in Clients, Register(c) PROVE (TypeOK /\ PassesLeft)'
    <2>1. nodes' \in [Clients -> NodeView]
      BY <1>15 DEF Register, NodeView, Statuses
    <2> QED
      BY <1>15, <2>1 DEF Register
  <1>16. CASE UNCHANGED vars
    BY <1>16 DEF vars, data, locks, queues
  <1> HIDE DEF IInv, TypeOK, PassesLeft, LocksWhereTaken, InAttempt, Threads, ConnectionSteps,
               TransposerSteps, At, Goto, After
  <1> QED
    BY <1>1, <1>2, <1>3, <1>4, <1>5, <1>6, <1>7, <1>8, <1>9, <1>10, <1>11, <1>12, <1>13, <1>14, <1>15, <1>16
    DEF Next, RequestStep, DisconnectStep, VerifierStep, RegisterStep

\* Every step keeps the locks where they are taken.
LEMMA LocksStep == IInv /\ [Next]_vars => LocksWhereTaken'
  <1> SUFFICES ASSUME IInv, [Next]_vars PROVE LocksWhereTaken'
    OBVIOUS
  <1> USE ThreadsAssumption DEF IInv, TypeOK, LocksWhereTaken, InAttempt, Threads, ConnectionSteps, TransposerSteps, data, locks, queues, At, Goto, After
  <1>1. ASSUME NEW t \in Connections, Accept(t) PROVE LocksWhereTaken'
    BY <1>1 DEF Accept
  <1>2. ASSUME NEW t \in Connections, ReadError(t) PROVE LocksWhereTaken'
    BY <1>2 DEF ReadError
  <1>3. ASSUME NEW t \in Connections, NEW isOld \in BOOLEAN, GetSyncStatus(t, isOld) PROVE LocksWhereTaken'
    BY <1>3 DEF GetSyncStatus
  <1>4. ASSUME NEW t \in Connections, SendNetwork(t) PROVE LocksWhereTaken'
    BY <1>4 DEF SendNetwork
  <1>5. ASSUME NEW t \in Connections, Attempt(t) PROVE LocksWhereTaken'
    BY <1>5 DEF Attempt
  <1>6. ASSUME NEW t \in Connections, AttemptNodes(t) PROVE LocksWhereTaken'
    BY <1>6 DEF AttemptNodes
  <1>7. ASSUME NEW t \in Connections, AttemptCount(t) PROVE LocksWhereTaken'
    BY <1>7 DEF AttemptCount
  <1>8. ASSUME NEW t \in Connections, AlreadySync(t) PROVE LocksWhereTaken'
    BY <1>8 DEF AlreadySync
  <1>9. ASSUME NEW t \in Connections, NEW registers \in BOOLEAN, Lookup(t, registers) PROVE LocksWhereTaken'
    BY <1>9 DEF Lookup
  <1>10. ASSUME NEW t \in Connections, GoneNodes(t) PROVE LocksWhereTaken'
    BY <1>10 DEF GoneNodes
  <1>11. ASSUME NEW t \in Connections, GoneReset(t) PROVE LocksWhereTaken'
    BY <1>11 DEF GoneReset
  <1>12. ASSUME NEW t \in Threads, Snapshot(t) PROVE LocksWhereTaken'
    BY <1>12 DEF Snapshot
  <1>13. ASSUME NEW t \in Threads, NEW v \in verdicts[t], Verify(t, v) PROVE LocksWhereTaken'
    BY <1>13 DEF Verify
  <1>14. ASSUME RegisterSync PROVE LocksWhereTaken'
    BY <1>14 DEF RegisterSync
  <1>15. ASSUME NEW c \in Clients, Register(c) PROVE LocksWhereTaken'
    BY <1>15 DEF Register
  <1>16. CASE UNCHANGED vars
    BY <1>16 DEF vars, data, locks, queues
  <1> QED
    BY <1>1, <1>2, <1>3, <1>4, <1>5, <1>6, <1>7, <1>8, <1>9, <1>10, <1>11, <1>12, <1>13, <1>14, <1>15, <1>16
    DEF Next, RequestStep, DisconnectStep, VerifierStep, RegisterStep

\* Every step keeps the nodes on line, and the candidates, registered.
LEMMA RegisteredStep == IInv /\ [Next]_vars => RegisteredBefore'
  <1> SUFFICES ASSUME IInv, [Next]_vars PROVE RegisteredBefore'
    OBVIOUS
  <1> USE ThreadsAssumption DEF IInv, TypeOK, RegisteredBefore, Threads, ConnectionSteps, TransposerSteps, data, locks, queues, At, Goto, After
  <1>1. ASSUME NEW t \in Connections, Accept(t) PROVE RegisteredBefore'
    BY <1>1 DEF Accept
  <1>2. ASSUME NEW t \in Connections, ReadError(t) PROVE RegisteredBefore'
    BY <1>2 DEF ReadError
  <1>3. ASSUME NEW t \in Connections, NEW isOld \in BOOLEAN, GetSyncStatus(t, isOld) PROVE RegisteredBefore'
    BY <1>3 DEF GetSyncStatus
  <1>4. ASSUME NEW t \in Connections, SendNetwork(t) PROVE RegisteredBefore'
    BY <1>4 DEF SendNetwork
  <1>5. ASSUME NEW t \in Connections, Attempt(t) PROVE RegisteredBefore'
    BY <1>5 DEF Attempt
  <1>6. ASSUME NEW t \in Connections, AttemptNodes(t) PROVE RegisteredBefore'
    BY <1>6 DEF AttemptNodes
  <1>7. ASSUME NEW t \in Connections, AttemptCount(t) PROVE RegisteredBefore'
    <2> DEFINE c == Owner[t]
    <2>1. \A d \in Clients : sync'[d].synced = sync[d].synced
      BY <1>7 DEF AttemptCount, Sync
    <2>2. pc'[t] = "already" => nodes[c].handlers
      BY <1>7 DEF AttemptCount
    <2> QED
      BY <1>7, <2>1, <2>2 DEF AttemptCount
  <1>8. ASSUME NEW t \in Connections, AlreadySync(t) PROVE RegisteredBefore'
    BY <1>8 DEF AlreadySync
  <1>9. ASSUME NEW t \in Connections, NEW registers \in BOOLEAN, Lookup(t, registers) PROVE RegisteredBefore'
    BY <1>9 DEF Lookup
  <1>10. ASSUME NEW t \in Connections, GoneNodes(t) PROVE RegisteredBefore'
    BY <1>10 DEF GoneNodes
  <1>11. ASSUME NEW t \in Connections, GoneReset(t) PROVE RegisteredBefore'
    <2> DEFINE c == Owner[t]
    <2>1. nodes' = [nodes EXCEPT ![c].status = "Offline"]
      BY <1>11 DEF GoneReset
    <2>2. /\ \A d \in Clients : nodes'[d].handlers = nodes[d].handlers
          /\ nodes'[c].status = "Offline"
          /\ \A d \in Clients \ {c} : nodes'[d] = nodes[d]
      BY <2>1, StatusChange DEF Statuses
    <2>3. /\ sync'[c].synced = FALSE
          /\ \A d \in Clients \ {c} : sync'[d] = sync[d]
      BY <1>11 DEF GoneReset, NotSynced, Sync
    <2>4. UNCHANGED <<verdicts, registering>> /\ pc' = [pc EXCEPT ![t] = "snapshot"]
      BY <1>11 DEF GoneReset
    <2> QED
      BY <2>2, <2>3, <2>4
  <1>12. ASSUME NEW t \in Threads, Snapshot(t) PROVE RegisteredBefore'
    <2>1. \A u \in Threads : \A v \in verdicts'[u] : v.synced => nodes[v.client].handlers
      BY <1>12, VerdictsType DEF Snapshot
    <2>2. \A u \in Connections : pc'[u] = "already" => pc[u] = "already"
      BY <1>12 DEF Snapshot
    <2> QED
      BY <1>12, <2>1, <2>2 DEF Snapshot
  <1>13. ASSUME NEW t \in Threads, NEW v \in verdicts[t], Verify(t, v) PROVE RegisteredBefore'
    <2>1. /\ sync'[v.client].synced = v.synced
          /\ \A d \in Clients \ {v.client} : sync'[d] = sync[d]
      BY <1>13, SyncedType DEF Verify
    <2>2. \A u \in Connections : pc'[u] = "already" => pc[u] = "already"
      BY <1>13 DEF Verify
    <2>3. \A u \in Threads : verdicts'[u] \subseteq verdicts[u]
      BY <1>13 DEF Verify
    <2>4. UNCHANGED <<nodes, registering>>
      BY <1>13 DEF Verify
    <2>5. \A d \in Clients : sync'[d].synced => nodes[d].handlers
      BY <2>1
    <2> QED
      BY <2>2, <2>3, <2>4, <2>5
  <1>14. ASSUME RegisterSync PROVE RegisteredBefore'
    BY <1>14 DEF RegisterSync
  <1>15. ASSUME NEW c \in Clients, Register(c) PROVE RegisteredBefore'
    BY <1>15 DEF Register
  <1>16. CASE UNCHANGED vars
    BY <1>16 DEF vars, data, locks, queues
  <1> QED
    BY <1>1, <1>2, <1>3, <1>4, <1>5, <1>6, <1>7, <1>8, <1>9, <1>10, <1>11, <1>12, <1>13, <1>14, <1>15, <1>16
    DEF Next, RequestStep, DisconnectStep, VerifierStep, RegisterStep

\* The initial state: every node partially initialised, no lock held.
LEMMA IInvInit == Init => IInv
  <1> SUFFICES ASSUME Init PROVE IInv
    OBVIOUS
  <1> USE ThreadsAssumption DEF Init
  <1>1. TypeOK
    <2>1. nodes \in [Clients -> NodeView]
      BY DEF NodeView, Statuses
    <2>2. sync \in [Clients -> Sync]
      BY DEF Sync, NotSynced
    <2>3. pc \in [Threads -> ConnectionSteps \cup TransposerSteps]
      BY DEF ConnectionSteps, TransposerSteps
    <2>4. passes \in [Connections -> 0..2] /\ disconnects \in 0..MaxDisconnects
      OBVIOUS
    <2> QED
      BY <2>1, <2>2, <2>3, <2>4 DEF TypeOK
  <1>2. PassesLeft /\ LocksWhereTaken
    BY DEF PassesLeft, LocksWhereTaken, InAttempt, Threads
  <1>3. RegisteredBefore
    BY DEF RegisteredBefore, NotSynced, Threads
  <1> QED
    BY <1>1, <1>2, <1>3 DEF IInv

\* The invariant holds of every behaviour of the host's threads.
LEMMA Invariant == Spec => []IInv
  <1>1. IInv /\ [Next]_vars => IInv'
    BY TypeStep, LocksStep, RegisteredStep DEF IInv
  <1> QED
    BY IInvInit, <1>1, PTL DEF Spec

\* The nodes, the sync controller and the threads stay what they are, and no
\* client is counted more than max_sync_attempts attempts.
THEOREM SyncTypeCorrect == Spec => []TypeOK
  <1>1. IInv => TypeOK
    BY DEF IInv
  <1> QED
    BY Invariant, <1>1, PTL

\* However many connections there are: without a thread in
\* update_client_sync_attempt no thread of the host waits for ever for one of
\* the two locks.  All other functions take them one at a time or the patterns
\* first.
THEOREM DeadlockNeedsAttempt == Spec => []OnlyAttemptsDeadlock
  <1>1. IInv => OnlyAttemptsDeadlock
    <2> SUFFICES ASSUME IInv, NEW t \in Threads, NEW u \in Threads, Deadlocked(t, u)
                 PROVE  InAttempt(t) \/ InAttempt(u)
      BY DEF OnlyAttemptsDeadlock
    <2>1. CASE controllerLock = t \/ controllerLock = u
      BY <2>1 DEF IInv, LocksWhereTaken
    <2>2. CASE patternsLock = t /\ patternsLock = u
      BY <2>2 DEF IInv, LocksWhereTaken, Deadlocked, WaitsFor, WantsPatterns,
                  WantsController
    <2> QED
      BY <2>1, <2>2 DEF Deadlocked, WaitsFor
  <1> QED
    BY Invariant, <1>1, PTL

\* A node that is on line has registered its handlers, whichever of the three
\* paths put it there.
THEOREM OnlineIsRegistered == Spec => []OnlineHasHandlers
  <1>1. IInv => OnlineHasHandlers
    BY DEF IInv, RegisteredBefore, OnlineHasHandlers
  <1> QED
    BY Invariant, <1>1, PTL
===============================================================================
