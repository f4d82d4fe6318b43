--------------------------- MODULE HostRelayProofs ----------------------------
(***************************************************************************)
(* TypeOK and RoutedHome hold in every reachable state of HostRelay, for   *)
(* any number of clients, parity ids and faults.                           *)
(***************************************************************************)
EXTENDS HostRelay, FiniteSetTheorems, WellFoundedInduction, TLAPS

-------------------------------------------------------------------------------
(* The listings.                                                           *)

\* first_of returns the oldest row of the listing: among the ids of a table that is
\* not empty there is a smallest one.
LEMMA FirstOfIsLeast ==
    ASSUME NEW rows \in SUBSET UpRow, rows # {}
    PROVE  first_of(rows) \in rows /\ \A s \in rows : first_of(rows).id <= s.id
<1> DEFINE ids == {r.id : r \in rows}
<1>1. ids \in SUBSET Nat /\ ids # {}
  BY DEF UpRow
<1>2. \E i \in ids : \A j \in ids : ~(<<j, i>> \in OpToRel(<, Nat))
  BY <1>1, NatLessThanWellFounded, WFMin
<1>3. PICK i \in ids : \A j \in ids : ~(<<j, i>> \in OpToRel(<, Nat))
  BY <1>2
<1>4. \A j \in ids : i <= j
  <2> TAKE j \in ids
  <2>1. i \in Nat /\ j \in Nat
    BY <1>1
  <2>2. ~(j < i)
    BY <1>3, <2>1 DEF OpToRel
  <2> HIDE DEF ids
  <2> QED BY <2>1, <2>2
<1>5. \E r \in rows : \A s \in rows : r.id <= s.id
  BY <1>4
<1> QED BY <1>5 DEF first_of

LEMMA FirstOfIsARow ==
    ASSUME NEW rows \in SUBSET UpRow, rows # {}
    PROVE  first_of(rows) \in rows
BY FirstOfIsLeast
-------------------------------------------------------------------------------
(* Type correctness.                                                       *)

\* Every request that a dead connection still holds has a thread to read it.
LateCounted ==
    \A c \in Clients : IsFiniteSet(late[c]) /\ Cardinality(late[c]) <= orphans[c]

LEMMA MessageTypes ==
    /\ Ping \in Message /\ Pong \in Message
    /\ Idle \in Link /\ Closed \in Link
    /\ \A row \in UpRow : AsMessage(row) \in Message
    /\ \A p \in Parities : Confirmation(p) \in Message /\ Refusal(p) \in Message
BY DEF Message, Ping, Pong, Idle, Closed, Link, UpRow, AsMessage, Confirmation, Refusal,
       Kinds, Targets

LEMMA EndType ==
    ASSUME TypeOK, NEW parities, NEW ending \in Endings, End(parities, ending)
    PROVE  closed' \in [Parities -> SUBSET Endings]
BY DEF TypeOK, End

LEMMA ReplyType ==
    ASSUME TypeOK, NEW c \in Clients, NEW x, NEW message \in Message, Reply(c, x, message)
    PROVE  /\ link' \in [Clients -> Link]
           /\ late' \in [Clients -> SUBSET Message]
           /\ closed' \in [Parities -> SUBSET Endings]
<1>1. CASE x.live
  <2>1. /\ UNCHANGED <<late, closed>>
        /\ link' = [link EXCEPT ![c] =
               [phase |-> "reply", request |-> link[c].request, reply |-> message]]
    BY <1>1 DEF Reply
  <2>2. [phase |-> "reply", request |-> link[c].request, reply |-> message] \in Link
    BY DEF TypeOK, Link
  <2> QED BY <2>1, <2>2 DEF TypeOK
<1>2. CASE ~x.live
  <2>1. closed' \in [Parities -> SUBSET Endings]
    BY <1>2, EndType DEF Reply, Endings
  <2> QED BY <1>2, <2>1 DEF Reply, TypeOK
<1> QED BY <1>1, <1>2

\* What handle_connection reads is a request the client has sent.
LEMMA ExchangeType ==
    ASSUME TypeOK, NEW c \in Clients, NEW x \in Exchanges(c)
    PROVE  /\ x.request \in Message
           /\ x.request.kind \in {"Function", "Response"} =>
                x.request.parity \in Parities /\ x.request.target \in Targets
<1>1. x.request \in Message
  BY DEF Exchanges, TypeOK, Link
<1> QED BY <1>1 DEF Message, Ping, Pong

LEMMA ClientTypeStep ==
    ASSUME TypeOK, NEW c \in Clients, ClientNext(c)
    PROVE  TypeOK'
<1> USE DEF TypeOK
<1>1. ASSUME NEW p \in Parities, NEW target \in Clients \cup {Host}, Schedule(c, p, target)
      PROVE  TypeOK'
  BY <1>1 DEF Schedule, UpRow, Kinds, Targets, Order, buffer_up_schedule, host_vars, fault_vars
<1>2. CASE ClientSend(c)
  <2> DEFINE listing == IF batch[c] # {} THEN batch[c] ELSE clientUp[c]
             request == IF listing = {} THEN Ping ELSE AsMessage(first_of(listing))
  <2>1. listing \in SUBSET UpRow
    OBVIOUS
  <2>2. request \in Message
    BY <2>1, FirstOfIsARow, MessageTypes
  <2>3. link' \in [Clients -> Link]
    BY <1>2, <2>2, MessageTypes DEF ClientSend, Link
  <2>4. batch' \in [Clients -> SUBSET UpRow]
    BY <1>2, <2>1 DEF ClientSend
  <2> QED BY <1>2, <2>3, <2>4 DEF ClientSend, host_vars, fault_vars, history_vars
<1>3. CASE ReceiveFailure(c)
  <2>1. closed' \in [Parities -> SUBSET Endings]
    BY <1>3, EndType DEF ReceiveFailure, Endings
  <2> QED BY <1>3, <2>1, MessageTypes
          DEF ReceiveFailure, Stop, buffer_up_remove_schedule_by_parity_id, host_vars
<1>4. CASE ReceiveConfirmation(c)
  BY <1>4, MessageTypes
     DEF ReceiveConfirmation, buffer_up_remove_schedule_by_parity_id, host_vars, fault_vars,
         history_vars
<1>5. CASE ReceivePong(c)
  BY <1>5, MessageTypes DEF ReceivePong, client_vars, host_vars, fault_vars, history_vars
<1>6. CASE ReceiveCommand(c)
  <2>1. link[c].reply \in Message
    BY DEF Link
  <2>2. [client |-> c, parity |-> link[c].reply.parity, kind |-> link[c].reply.kind] \in DownRow
    BY <1>6, <2>1 DEF ReceiveCommand, Message, Ping, Pong, DownRow
  <2> QED BY <1>6, <2>2, MessageTypes
          DEF ReceiveCommand, buffer_down_schedule, host_vars, fault_vars, history_vars
<1>7. ASSUME NEW row \in clientDown[c], NEW responds \in BOOLEAN,
             ProcessFunction(c, row, responds)
      PROVE  TypeOK'
  <2>1. row.parity \in Parities
    BY DEF DownRow
  <2>2. closed' \in [Parities -> SUBSET Endings]
    BY <1>7, EndType DEF ProcessFunction, Discard, Endings
  <2>3. runs' \in [Parities -> Nat] /\ holds' \in [Clients -> SUBSET Parities]
    BY <1>7, <2>1 DEF ProcessFunction, Discard
  <2>4. clientDown' \in [Clients -> SUBSET DownRow] /\ answers' = answers
    BY <1>7 DEF ProcessFunction, Discard
  <2> QED BY <1>7, <2>2, <2>3, <2>4 DEF ProcessFunction, host_vars, fault_vars
<1>8. CASE QueueAnswer(c)
  <2>1. \A p \in holds[c] : [id |-> nextId[c], client |-> c, parity |-> p,
                             kind |-> "Response", target |-> Origin] \in UpRow
    BY DEF UpRow, Kinds, Targets
  <2>2. clientUp' \in [Clients -> SUBSET UpRow]
    BY <1>8, <2>1 DEF QueueAnswer, buffer_up_schedule
  <2>3. nextId' \in [Clients \cup {Host} -> Nat] /\ holds' \in [Clients -> SUBSET Parities]
    BY <1>8 DEF QueueAnswer
  <2> QED BY <1>8, <2>2, <2>3 DEF QueueAnswer, host_vars, fault_vars, history_vars
<1>9. ASSUME NEW row \in clientDown[c], ProcessResponse(c, row)
      PROVE  TypeOK'
  <2>1. row.parity \in Parities
    BY DEF DownRow
  <2>2. closed' \in [Parities -> SUBSET Endings]
    BY <1>9, EndType DEF ProcessResponse, Discard, Endings
  <2> QED BY <1>9, <2>1, <2>2 DEF ProcessResponse, Discard, host_vars, fault_vars
<1>10. CASE TransposerPanic(c)
  <2>1. closed' \in [Parities -> SUBSET Endings]
    BY <1>10, EndType DEF TransposerPanic, Endings
  <2> QED BY <1>10, <2>1 DEF TransposerPanic, host_vars
<1>11. ASSUME NEW row \in clientUp[c] \cup clientDown[c], ClientExpire(c, row)
      PROVE  TypeOK'
  <2>1. closed' \in [Parities -> SUBSET Endings]
    BY <1>11, EndType DEF ClientExpire, Endings
  <2> QED BY <1>11, <2>1 DEF ClientExpire, host_vars
<1> QED BY <1>1, <1>2, <1>3, <1>4, <1>5, <1>6, <1>7, <1>8, <1>9, <1>10, <1>11 DEF ClientNext

\* get_response and redirect_commands_processing keep the types, whatever the
\* request.
LEMMA AnswerTypes ==
    ASSUME TypeOK, NEW c \in Clients, NEW x \in Exchanges(c),
           x.request.kind \in {"Function", "Response"},
           \/ GetResponse(c, x, x.request.parity)
           \/ Refuse(c, x)
           \/ \E target \in Clients : Forward(c, x, target)
    PROVE  /\ link' \in [Clients -> Link]
           /\ late' \in [Clients -> SUBSET Message]
           /\ closed' \in [Parities -> SUBSET Endings]
           /\ hostUp' \in SUBSET UpRow
           /\ nextId' \in [Clients \cup {Host} -> Nat]
<1> DEFINE p == x.request.parity
<1>1. p \in Parities /\ Confirmation(p) \in Message /\ Refusal(p) \in Message
  BY ExchangeType, MessageTypes
<1>2. CASE GetResponse(c, x, p)
  <2> DEFINE found == buffer_up_get_scheduled_by_parity_id(hostUp, c, p)
  <2>1. found \in SUBSET UpRow
    BY DEF TypeOK, buffer_up_get_scheduled_by_parity_id
  <2>2. (IF found = {} THEN Confirmation(p) ELSE AsMessage(first_of(found))) \in Message
    BY <2>1, <1>1, FirstOfIsARow, MessageTypes
  <2> QED BY <1>2, <2>2, ReplyType
          DEF GetResponse, TypeOK, buffer_up_remove_schedule_by_parity_id
<1>3. CASE Refuse(c, x)
  BY <1>1, <1>3, ReplyType DEF Refuse, TypeOK
<1>4. ASSUME NEW target \in Clients, Forward(c, x, target)
      PROVE  /\ link' \in [Clients -> Link]
             /\ late' \in [Clients -> SUBSET Message]
             /\ closed' \in [Parities -> SUBSET Endings]
             /\ hostUp' \in SUBSET UpRow
             /\ nextId' \in [Clients \cup {Host} -> Nat]
  <2>1. [id |-> nextId[Host], client |-> target, parity |-> p, kind |-> x.request.kind,
         target |-> Origin] \in UpRow
    BY <1>1 DEF TypeOK, UpRow, Kinds, Targets
  <2> QED BY <1>1, <1>4, <2>1, ReplyType DEF Forward, TypeOK, buffer_up_schedule
<1> QED BY <1>2, <1>3, <1>4

LEMMA ConnectionTypeStep ==
    ASSUME TypeOK, LateCounted, NEW c \in Clients, ConnectionNext(c)
    PROVE  TypeOK'
<1> USE DEF TypeOK
<1>1. ASSUME NEW x \in Exchanges(c), HandlePing(c, x)
      PROVE  TypeOK'
  <2> DEFINE waiting == buffer_up_list_schedule_fo_client_id(hostUp, c)
  <2>1. waiting \in SUBSET UpRow
    BY DEF buffer_up_list_schedule_fo_client_id
  <2>2. waiting # {} => AsMessage(first_of(waiting)) \in Message
    BY <2>1, FirstOfIsARow, MessageTypes
  <2>3. /\ link' \in [Clients -> Link]
        /\ late' \in [Clients -> SUBSET Message]
        /\ closed' \in [Parities -> SUBSET Endings]
    BY <1>1, <2>2, ReplyType, MessageTypes DEF HandlePing
  <2> QED BY <1>1, <2>3 DEF HandlePing, buffer_up_remove_schedule_by_parity_id, client_vars
<1>2. ASSUME NEW x \in Exchanges(c), HandleRedirect(c, x)
      PROVE  TypeOK'
  <2>1. x.request.parity \in Parities /\ x.request.target \in Clients
    BY <1>2, ExchangeType DEF HandleRedirect
  <2>2. /\ link' \in [Clients -> Link]
        /\ late' \in [Clients -> SUBSET Message]
        /\ closed' \in [Parities -> SUBSET Endings]
        /\ hostUp' \in SUBSET UpRow
        /\ nextId' \in [Clients \cup {Host} -> Nat]
    BY <1>2, <2>1, AnswerTypes DEF HandleRedirect
  <2>3. tasks' \in [Clients \cup {Host} -> SUBSET Task]
    BY <1>2, <2>1 DEF HandleRedirect, AddTask, Task
  <2> QED BY <1>2, <2>2, <2>3
          DEF HandleRedirect, buffer_down_remove_schedule_by_parity_id, client_vars
<1>3. ASSUME NEW x \in Exchanges(c), HandleHostCommand(c, x)
      PROVE  TypeOK'
  <2> DEFINE p == x.request.parity
  <2>1. p \in Parities
    BY <1>3, ExchangeType DEF HandleHostCommand
  <2>2. tasks' \in [Clients \cup {Host} -> SUBSET Task]
    BY <1>3, <2>1 DEF HandleHostCommand, AddTask, Task
  <2>3. hostDown' \in SUBSET DownRow
    BY <1>3, <2>1 DEF HandleHostCommand, buffer_down_schedule, DownRow
  <2>4. /\ link' \in [Clients -> Link]
        /\ late' \in [Clients -> SUBSET Message]
        /\ closed' \in [Parities -> SUBSET Endings]
        /\ hostUp' \in SUBSET UpRow
        /\ nextId' \in [Clients \cup {Host} -> Nat]
    <3>1. CASE Refuse(c, x) \/ GetResponse(c, x, p)
      BY <1>3, <3>1, AnswerTypes DEF HandleHostCommand
    <3>2. CASE Reply(c, x, Confirmation(p)) /\ UNCHANGED <<hostUp, nextId>>
      BY <2>1, <3>2, ReplyType, MessageTypes
    <3> QED BY <1>3, <3>1, <3>2 DEF HandleHostCommand
  <2> QED BY <1>3, <2>2, <2>3, <2>4 DEF HandleHostCommand, client_vars
<1>4. ASSUME NEW x \in Exchanges(c), HandleResponse(c, x)
      PROVE  TypeOK'
  <2>1. PICK origin \in TaskOrigins(c, x.request.parity) :
          /\ hostDown' = buffer_down_remove_schedule_by_parity_id(hostDown, c, x.request.parity)
          /\ IF check_if_parity_id_is_registered(hostUp, x.request.parity, origin)
             THEN \/ Forward(c, x, origin) /\ UNCHANGED tasks
                  \/ /\ Refuse(c, x)
                     /\ tasks' = [tasks EXCEPT ![c] = {t \in @ : t.parity # x.request.parity}]
             ELSE GetResponse(c, x, x.request.parity) /\ UNCHANGED tasks
    BY <1>4 DEF HandleResponse
  <2>2. origin \in Clients
    BY DEF TaskOrigins, Task
  <2>3. /\ link' \in [Clients -> Link]
        /\ late' \in [Clients -> SUBSET Message]
        /\ closed' \in [Parities -> SUBSET Endings]
        /\ hostUp' \in SUBSET UpRow
        /\ nextId' \in [Clients \cup {Host} -> Nat]
    BY <1>4, <2>1, <2>2, AnswerTypes DEF HandleResponse
  <2>4. tasks' \in [Clients \cup {Host} -> SUBSET Task]
    BY <2>1
  <2>5. hostDown' \in SUBSET DownRow
    BY <2>1 DEF buffer_down_remove_schedule_by_parity_id
  <2> QED BY <1>4, <2>3, <2>4, <2>5 DEF HandleResponse, client_vars
<1>5. ASSUME NEW x \in Exchanges(c), HandlerPanic(c, x)
      PROVE  TypeOK'
  <2>1. CASE x.live
    <3>1. /\ running' = [running EXCEPT ![c] = FALSE]
          /\ batch' = [batch EXCEPT ![c] = {}]
          /\ link' = [link EXCEPT ![c] = Closed]
          /\ UNCHANGED <<clientUp, clientDown, alive, holds, host_vars, nextId, orphans,
                         late, faults, history_vars>>
      BY <1>5, <2>1 DEF HandlerPanic
    <3>2. Closed \in Link
      BY MessageTypes
    <3> QED BY <3>1, <3>2 DEF host_vars, history_vars
  <2>2. CASE ~x.live
    <3>1. x.request \in late[c]
      BY <2>2 DEF Exchanges
    <3>2. Cardinality(late[c]) \in Nat /\ Cardinality(late[c]) # 0
      BY <3>1, FS_CardinalityType, FS_EmptySet DEF LateCounted
    <3>3. orphans[c] - 1 \in Nat
      BY <3>2 DEF LateCounted
    <3> QED BY <1>5, <2>2, <3>3 DEF HandlerPanic, host_vars, history_vars
  <2> QED BY <2>1, <2>2
<1>6. CASE Connect(c)
  BY <1>6, MessageTypes DEF Connect, Statuses, client_vars, fault_vars, history_vars
<1>7. CASE Resync(c)
  BY <1>7 DEF Resync, Statuses, client_vars, fault_vars, history_vars
<1>8. CASE Synced(c)
  BY <1>8 DEF Synced, Statuses, client_vars, fault_vars, history_vars
<1>9. ASSUME NEW stops \in BOOLEAN, NEW arrives \in BOOLEAN, Break(c, stops, arrives)
      PROVE  TypeOK'
  <2>1. closed' \in [Parities -> SUBSET Endings]
    BY <1>9, EndType DEF Break, Endings
  <2>2. link[c].request \in Message
    BY DEF Link
  <2>3. late' \in [Clients -> SUBSET Message]
    BY <1>9, <2>2 DEF Break
  <2>4. /\ running' \in [Clients -> BOOLEAN]
        /\ batch' \in [Clients -> SUBSET UpRow]
        /\ link' \in [Clients -> Link]
        /\ orphans' \in [Clients -> Nat]
    <3>1. CASE stops
      <4>1. Stop(c)
        BY <1>9, <3>1 DEF Break
      <4> QED BY <4>1, MessageTypes DEF Stop
    <3>2. CASE ~stops
      <4>1. /\ link' = [link EXCEPT ![c] = Closed]
            /\ orphans' = [orphans EXCEPT ![c] = @ + 1]
            /\ UNCHANGED <<running, batch>>
        BY <1>9, <3>2 DEF Break
      <4> QED BY <4>1, MessageTypes
    <3> QED BY <3>1, <3>2
  <2>5. /\ faults' \in Nat
        /\ UNCHANGED <<clientUp, clientDown, alive, holds, hostUp, hostDown, tasks, status,
                       nextId, order, runs, answers>>
    BY <1>9 DEF Break, host_vars
  <2> QED BY <2>1, <2>3, <2>4, <2>5
<1>10. CASE NoticeDisconnect(c)
  <2>1. Cardinality(late[c]) \in Nat
    BY FS_CardinalityType DEF LateCounted
  <2>2. orphans[c] - 1 \in Nat
    BY <1>10, <2>1 DEF NoticeDisconnect
  <2> QED BY <1>10, <2>2 DEF NoticeDisconnect, Statuses, client_vars, history_vars
<1>11. CASE ClientRestart(c)
  <2>1. closed' \in [Parities -> SUBSET Endings]
    BY <1>11, EndType DEF ClientRestart, Endings
  <2> QED BY <1>11, <2>1 DEF ClientRestart, host_vars, fault_vars
<1> QED BY <1>1, <1>2, <1>3, <1>4, <1>5, <1>6, <1>7, <1>8, <1>9, <1>10, <1>11
        DEF ConnectionNext

LEMMA HostTypeStep ==
    ASSUME TypeOK, HostNext
    PROVE  TypeOK'
<1> USE DEF TypeOK
<1>1. ASSUME NEW row \in hostDown, NEW outcome \in {"Response", "C210", "Failure"},
             HostProcess(row, outcome)
      PROVE  TypeOK'
  <2>1. row.parity \in Parities /\ row.client \in Clients
    BY DEF DownRow
  <2>2. closed' \in [Parities -> SUBSET Endings]
    BY <1>1, EndType DEF HostProcess, Endings
  <2>3. [id |-> nextId[Host], client |-> row.client, parity |-> row.parity,
         kind |-> outcome, target |-> Origin] \in UpRow
    BY <2>1 DEF UpRow, Kinds, Targets
  <2>4. hostUp' \in SUBSET UpRow /\ hostDown' \in SUBSET DownRow
    BY <1>1, <2>3 DEF HostProcess, buffer_up_schedule
  <2>5. nextId' \in [Clients \cup {Host} -> Nat]
    <3>1. \/ UNCHANGED nextId
          \/ nextId' = [nextId EXCEPT ![Host] = @ + 1]
      BY <1>1 DEF HostProcess
    <3> QED BY <3>1
  <2>6. runs' \in [Parities -> Nat]
    <3>1. UNCHANGED runs \/ runs' = [runs EXCEPT ![row.parity] = @ + 1]
      BY <1>1 DEF HostProcess
    <3> QED BY <3>1
  <2> QED BY <1>1, <2>2, <2>4, <2>5, <2>6 DEF HostProcess, client_vars, fault_vars
<1>2. ASSUME NEW row \in hostUp, HostExpire(row)
      PROVE  TypeOK'
  <2>1. closed' \in [Parities -> SUBSET Endings]
    BY <1>2, EndType DEF HostExpire, Endings
  <2> QED BY <1>2, <2>1 DEF HostExpire, client_vars
<1>3. ASSUME NEW survivors \in SUBSET Clients, HostRestart(survivors)
      PROVE  TypeOK'
  <2>1. closed' \in [Parities -> SUBSET Endings]
    BY <1>3, EndType DEF HostRestart, Endings
  <2>2. /\ running' \in [Clients -> BOOLEAN]
        /\ batch' \in [Clients -> SUBSET UpRow]
        /\ link' \in [Clients -> Link]
        /\ orphans' \in [Clients -> Nat]
        /\ late' \in [Clients -> SUBSET Message]
    BY <1>3, MessageTypes DEF HostRestart
  <2>3. /\ hostUp' \in SUBSET UpRow
        /\ hostDown' \in SUBSET DownRow
        /\ nextId' \in [Clients \cup {Host} -> Nat]
        /\ tasks' \in [Clients \cup {Host} -> SUBSET Task]
        /\ status' \in [Clients -> Statuses]
        /\ faults' \in Nat
    BY <1>3 DEF HostRestart, Statuses
  <2> QED BY <1>3, <2>1, <2>2, <2>3 DEF HostRestart
<1> QED BY <1>1, <1>2, <1>3 DEF HostNext

\* Threads and the requests they have yet to read come and go together.
LEMMA ReplyCounted ==
    ASSUME TypeOK, LateCounted, NEW c \in Clients, NEW x, NEW message,
           Reply(c, x, message), UNCHANGED orphans
    PROVE  LateCounted'
<1>1. CASE x.live
  BY <1>1 DEF Reply, LateCounted
<1>2. CASE ~x.live
  <2>1. late' = [late EXCEPT ![c] = @ \ {x.request}]
    BY <1>2 DEF Reply
  <2>2. IsFiniteSet(late[c] \ {x.request}) /\
        Cardinality(late[c] \ {x.request}) <= Cardinality(late[c])
    BY FS_Subset DEF LateCounted
  <2>3. /\ Cardinality(late[c]) \in Nat
        /\ Cardinality(late[c] \ {x.request}) \in Nat
    BY <2>2, FS_CardinalityType DEF LateCounted
  <2>4. IsFiniteSet(late'[c]) /\ Cardinality(late'[c]) <= orphans'[c]
    BY <2>1, <2>2, <2>3 DEF TypeOK, LateCounted
  <2>5. \A d \in Clients \ {c} : late'[d] = late[d] /\ orphans'[d] = orphans[d]
    BY <2>1 DEF TypeOK
  <2> QED BY <2>4, <2>5 DEF LateCounted
<1> QED BY <1>1, <1>2

LEMMA LateCountedStep ==
    ASSUME TypeOK, LateCounted, [Next]_vars
    PROVE  LateCounted'
<1>1. ASSUME NEW c \in Clients, ClientNext(c)
      PROVE  LateCounted'
  <2>1. CASE ReceiveFailure(c)
    <3>1. /\ late' = late
          /\ orphans' = [orphans EXCEPT ![c] = @ + 1]
      BY <2>1 DEF ReceiveFailure, Stop
    <3>2. \A d \in Clients : Cardinality(late[d]) \in Nat
      BY FS_CardinalityType DEF LateCounted
    <3> QED BY <3>1, <3>2 DEF TypeOK, LateCounted
  <2>2. CASE ~ReceiveFailure(c)
    <3>1. UNCHANGED <<late, orphans>>
      BY <1>1, <2>2
         DEF ClientNext, Schedule, ClientSend, ReceiveConfirmation, ReceivePong, ReceiveCommand,
             ProcessFunction, QueueAnswer, ProcessResponse, TransposerPanic, ClientExpire,
             fault_vars
    <3> QED BY <3>1 DEF LateCounted
  <2> QED BY <2>1, <2>2
<1>2. ASSUME NEW c \in Clients, ConnectionNext(c)
      PROVE  LateCounted'
  <2> USE FS_CardinalityType DEF LateCounted
  <2>1. ASSUME NEW x \in Exchanges(c),
               \/ HandlePing(c, x) \/ HandleRedirect(c, x)
               \/ HandleHostCommand(c, x) \/ HandleResponse(c, x)
        PROVE  LateCounted'
    <3>1. UNCHANGED orphans /\ \E message : Reply(c, x, message)
      BY <2>1
         DEF HandlePing, HandleRedirect, HandleHostCommand, HandleResponse, GetResponse, Refuse,
             Forward
    <3> QED BY <3>1, ReplyCounted
  <2>2. ASSUME NEW x \in Exchanges(c), HandlerPanic(c, x)
        PROVE  LateCounted'
    <3>1. CASE x.live
      BY <2>2, <3>1 DEF HandlerPanic
    <3>2. CASE ~x.live
      <4>1. x.request \in late[c]
        BY <3>2 DEF Exchanges
      <4>2. /\ IsFiniteSet(late[c] \ {x.request})
            /\ Cardinality(late[c] \ {x.request}) = Cardinality(late[c]) - 1
        BY <4>1, FS_RemoveElement
      <4>3. /\ late' = [late EXCEPT ![c] = @ \ {x.request}]
            /\ orphans' = [orphans EXCEPT ![c] = @ - 1]
        BY <2>2, <3>2 DEF HandlerPanic
      <4>4. IsFiniteSet(late'[c]) /\ Cardinality(late'[c]) <= orphans'[c]
        BY <4>2, <4>3 DEF TypeOK
      <4>5. \A d \in Clients \ {c} : late'[d] = late[d] /\ orphans'[d] = orphans[d]
        BY <4>3 DEF TypeOK
      <4> QED BY <4>4, <4>5
    <3> QED BY <3>1, <3>2
  <2>3. ASSUME NEW stops \in BOOLEAN, NEW arrives \in BOOLEAN, Break(c, stops, arrives)
        PROVE  LateCounted'
    <3>1. orphans' = [orphans EXCEPT ![c] = @ + 1]
      BY <2>3 DEF Break, Stop
    <3>2. /\ IsFiniteSet(late[c] \cup {link[c].request})
          /\ Cardinality(late[c] \cup {link[c].request}) <= Cardinality(late[c]) + 1
      <4>1. IsFiniteSet(late[c]) /\ Cardinality(late[c]) \in Nat
        OBVIOUS
      <4> HIDE DEF LateCounted
      <4>2. /\ IsFiniteSet(late[c] \cup {link[c].request})
            /\ Cardinality(late[c] \cup {link[c].request}) =
                 IF link[c].request \in late[c] THEN Cardinality(late[c])
                 ELSE Cardinality(late[c]) + 1
        BY <4>1, FS_AddElement, Zenon
      <4> QED BY <4>1, <4>2
    <3>3. late' = [late EXCEPT ![c] = IF arrives THEN @ \cup {link[c].request} ELSE @]
      BY <2>3 DEF Break
    <3>4. IsFiniteSet(late'[c]) /\ Cardinality(late'[c]) <= Cardinality(late[c]) + 1
      BY <3>2, <3>3 DEF TypeOK
    <3>5. Cardinality(late'[c]) <= orphans'[c]
      BY <3>1, <3>4 DEF TypeOK
    <3>6. \A d \in Clients \ {c} : late'[d] = late[d] /\ orphans'[d] = orphans[d]
      BY <3>1, <3>3 DEF TypeOK
    <3> QED BY <3>4, <3>5, <3>6
  <2>4. CASE NoticeDisconnect(c)
    <3>1. /\ orphans[c] > Cardinality(late[c])
          /\ orphans' = [orphans EXCEPT ![c] = @ - 1]
          /\ late' = late
      BY <2>4 DEF NoticeDisconnect
    <3> QED BY <3>1 DEF TypeOK
  <2>5. CASE Connect(c) \/ Resync(c) \/ Synced(c) \/ ClientRestart(c)
    BY <2>5 DEF Connect, Resync, Synced, ClientRestart, fault_vars
  <2> QED BY <1>2, <2>1, <2>2, <2>3, <2>4, <2>5 DEF ConnectionNext
<1>3. CASE HostNext
  <2>1. ASSUME NEW survivors \in SUBSET Clients, HostRestart(survivors)
        PROVE  LateCounted'
    BY <2>1, FS_EmptySet DEF HostRestart, LateCounted
  <2>2. ASSUME NEW row \in hostDown, NEW outcome, HostProcess(row, outcome)
        PROVE  LateCounted'
    BY <2>2 DEF HostProcess, LateCounted, fault_vars
  <2>3. ASSUME NEW row \in hostUp, HostExpire(row)
        PROVE  LateCounted'
    BY <2>3 DEF HostExpire, LateCounted
  <2> QED BY <1>3, <2>1, <2>2, <2>3 DEF HostNext
<1>4. CASE UNCHANGED vars
  BY <1>4 DEF vars, LateCounted
<1> QED BY <1>1, <1>2, <1>3, <1>4 DEF Next

LEMMA TypeStep ==
    ASSUME TypeOK, LateCounted, [Next]_vars
    PROVE  TypeOK'
<1>1. CASE UNCHANGED vars
  BY <1>1 DEF vars, TypeOK
<1> QED BY <1>1, ClientTypeStep, ConnectionTypeStep, HostTypeStep DEF Next

LEMMA TypeInit == Init => TypeOK /\ LateCounted
BY MessageTypes, FS_EmptySet DEF Init, TypeOK, LateCounted, NoOrder, Order, Statuses

\* Every variable keeps its type, the number of threads that wait for the end
\* of a dead connection included: none is taken off twice.
THEOREM TypeCorrect == Spec => []TypeOK
<1>1. Init => TypeOK /\ LateCounted
  BY TypeInit
<1>2. TypeOK /\ LateCounted /\ [Next]_vars => (TypeOK /\ LateCounted)'
  BY TypeStep, LateCountedStep
<1> QED BY <1>1, <1>2, PTL DEF Spec
-------------------------------------------------------------------------------
(* Routing.                                                                *)

\* Nothing in the system has a parity id that nobody has scheduled, so the
\* order of a new command says nothing about what is already there.
LEMMA ScheduleRoutes ==
    ASSUME TypeOK, RoutedHome, NEW c \in Clients, NEW p \in Parities,
           NEW target \in Clients \cup {Host}, Schedule(c, p, target)
    PROVE  RoutedHome'
<1>1. order[p].from = Host /\ order[p].to = Host
  BY DEF Schedule, Scheduled, NoOrder
<1>2. \A q \in Parities \ {p} : order'[q] = order[q]
  BY DEF Schedule, TypeOK
<1>3. order'[p].from = c /\ order'[p].to = target
  BY DEF Schedule, TypeOK
<1>4. Host \notin Clients
  BY NamesAssumption
<1>5. UpAtHome'
  <2> SUFFICES ASSUME NEW d \in Clients, NEW row \in clientUp'[d] \cup batch'[d]
               PROVE  ClientRowAtHome(d, row)'
    BY DEF UpAtHome
  <2>1. CASE row \in clientUp[d] \cup batch[d]
    <3>1. ClientRowAtHome(d, row) /\ row \in UpRow
      BY <2>1 DEF RoutedHome, UpAtHome, TypeOK
    <3>2. row.parity \in Parities \ {p}
      BY <3>1, <1>1, <1>4 DEF ClientRowAtHome, UpRow
    <3> QED BY <3>1, <3>2, <1>2 DEF ClientRowAtHome
  <2>2. CASE row \notin clientUp[d] \cup batch[d]
    <3>1. d = c /\ row = [id |-> nextId[c], client |-> c, parity |-> p,
                          kind |-> "Function", target |-> target]
      BY <2>2 DEF Schedule, TypeOK, buffer_up_schedule
    <3> QED BY <3>1, <1>3 DEF ClientRowAtHome
  <2> QED BY <2>1, <2>2
<1>6. DownAtHome'
  <2> SUFFICES ASSUME NEW d \in Clients, NEW row \in clientDown[d]
               PROVE  DeliveryAtHome(d, row)'
    BY DEF DownAtHome, Schedule
  <2>1. DeliveryAtHome(d, row) /\ row \in DownRow
    BY DEF RoutedHome, DownAtHome, TypeOK
  <2>2. row.parity \in Parities \ {p}
    BY <2>1, <1>1, <1>4 DEF DeliveryAtHome, DownRow
  <2> QED BY <2>1, <2>2, <1>2 DEF DeliveryAtHome
<1>7. HoldsAtHome'
  <2> SUFFICES ASSUME NEW d \in Clients, NEW q \in holds[d]
               PROVE  order'[q].to = d
    BY DEF HoldsAtHome, Schedule
  <2>1. order[q].to = d /\ q \in Parities
    BY DEF RoutedHome, HoldsAtHome, TypeOK
  <2> QED BY <2>1, <1>1, <1>2, <1>4
<1>8. RequestsAtHome'
  <2>1. ASSUME NEW d \in Clients, NEW m \in Message, RequestAtHome(d, m)
        PROVE  RequestAtHome(d, m)'
    <3>1. CASE m.kind = "C206"
      BY <3>1 DEF RequestAtHome
    <3>2. CASE m.kind # "C206"
      <4>1. ClientRowAtHome(d, m)
        BY <2>1, <3>2 DEF RequestAtHome
      <4>2. m.parity \in Parities \ {p}
        BY <4>1, <1>1, <1>4 DEF ClientRowAtHome, Message, Ping, Pong
      <4> QED BY <4>1, <4>2, <1>2 DEF ClientRowAtHome, RequestAtHome
    <3> QED BY <3>1, <3>2
  <2>2. UNCHANGED <<late, link>>
    BY DEF Schedule, fault_vars
  <2>3. \A d \in Clients : link[d].request \in Message /\ late[d] \in SUBSET Message
    BY DEF TypeOK, Link
  <2> QED BY <2>1, <2>2, <2>3 DEF RoutedHome, RequestsAtHome
<1>9. RepliesAtHome'
  <2> SUFFICES ASSUME NEW d \in Clients, link[d].phase = "reply",
                      link[d].reply.kind \in {"Function", "Response"}
               PROVE  DeliveryAtHome(d, link[d].reply)'
    BY DEF RepliesAtHome, Schedule
  <2>1. DeliveryAtHome(d, link[d].reply) /\ link[d].reply \in Message
    BY DEF RoutedHome, RepliesAtHome, TypeOK, Link
  <2>2. link[d].reply.parity \in Parities \ {p}
    BY <2>1, <1>1, <1>4 DEF DeliveryAtHome, Message, Ping, Pong
  <2>3. link' = link
    BY DEF Schedule
  <2> QED BY <2>1, <2>2, <2>3, <1>2 DEF DeliveryAtHome
<1>10. HostAtHome'
  <2>1. UNCHANGED <<hostUp, hostDown>>
    BY DEF Schedule, host_vars
  <2>2. ASSUME NEW row \in hostUp
        PROVE  DeliveryAtHome(row.client, row)'
    <3>1. DeliveryAtHome(row.client, row) /\ row \in UpRow
      BY DEF RoutedHome, HostAtHome, TypeOK
    <3>2. row.parity \in Parities \ {p}
      BY <3>1, <1>1, <1>4 DEF DeliveryAtHome, UpRow
    <3> QED BY <3>1, <3>2, <1>2 DEF DeliveryAtHome
  <2>3. ASSUME NEW row \in hostDown
        PROVE  order'[row.parity].from = row.client /\ order'[row.parity].to = Host
    <3>1. order[row.parity].from = row.client /\ order[row.parity].to = Host /\ row \in DownRow
      BY DEF RoutedHome, HostAtHome, TypeOK
    <3>2. row.parity \in Parities \ {p}
      BY <3>1, <1>1, <1>4 DEF DownRow
    <3> QED BY <3>1, <3>2, <1>2
  <2> QED BY <2>1, <2>2, <2>3 DEF HostAtHome
<1>11. TasksAtHome'
  <2> SUFFICES ASSUME NEW n \in Clients \cup {Host}, NEW t \in tasks[n]
               PROVE  order'[t.parity].to = n /\ order'[t.parity].from = t.origin
    BY DEF TasksAtHome, Schedule, host_vars
  <2>1. order[t.parity].to = n /\ order[t.parity].from = t.origin /\ t \in Task
    BY DEF RoutedHome, TasksAtHome, TypeOK
  <2>2. t.parity \in Parities \ {p}
    BY <2>1, <1>1, <1>4 DEF Task
  <2> QED BY <2>1, <2>2, <1>2
<1> QED BY <1>5, <1>6, <1>7, <1>8, <1>9, <1>10, <1>11 DEF RoutedHome

\* What is at home stays so while the orders do not change.
LEMMA HomeStays ==
    ASSUME UNCHANGED order, NEW c \in Clients, NEW m
    PROVE  /\ RequestAtHome(c, m) => RequestAtHome(c, m)'
           /\ DeliveryAtHome(c, m) => DeliveryAtHome(c, m)'
BY DEF RequestAtHome, ClientRowAtHome, DeliveryAtHome

\* Steps that bring nothing new to a table, a connection or the task table.
LEMMA RemovalRoutes ==
    ASSUME RoutedHome, UNCHANGED order,
           \A c \in Clients : /\ clientUp'[c] \cup batch'[c] \subseteq clientUp[c] \cup batch[c]
                              /\ clientDown'[c] \subseteq clientDown[c]
                              /\ holds'[c] \subseteq holds[c]
                              /\ late'[c] \subseteq late[c]
                              /\ link'[c] \in {link[c], Idle, Closed},
           hostUp' \subseteq hostUp, hostDown' \subseteq hostDown,
           \A n \in Clients \cup {Host} : tasks'[n] \subseteq tasks[n]
    PROVE  RoutedHome'
<1>1. UpAtHome' /\ DownAtHome' /\ HoldsAtHome' /\ HostAtHome' /\ TasksAtHome'
  BY DEF RoutedHome, UpAtHome, DownAtHome, HoldsAtHome, HostAtHome, TasksAtHome,
         ClientRowAtHome, DeliveryAtHome
<1>2. RequestsAtHome' /\ RepliesAtHome'
  BY DEF RoutedHome, RequestsAtHome, RepliesAtHome, RequestAtHome, ClientRowAtHome,
         DeliveryAtHome, Idle, Closed
<1> QED BY <1>1, <1>2 DEF RoutedHome

LEMMA ClientRoutes ==
    ASSUME TypeOK, RoutedHome, NEW c \in Clients, ClientNext(c)
    PROVE  RoutedHome'
<1>1. ASSUME NEW p \in Parities, NEW target \in Clients \cup {Host}, Schedule(c, p, target)
      PROVE  RoutedHome'
  BY <1>1, ScheduleRoutes
<1>2. CASE ClientSend(c)
  <2> DEFINE listing == IF batch[c] # {} THEN batch[c] ELSE clientUp[c]
             request == IF listing = {} THEN Ping ELSE AsMessage(first_of(listing))
  <2>1. listing \in SUBSET (clientUp[c] \cup batch[c]) /\ listing \in SUBSET UpRow
    BY DEF TypeOK
  <2>2. RequestAtHome(c, request)
    <3>1. CASE listing = {}
      BY <3>1 DEF RequestAtHome, Ping
    <3>2. CASE listing # {}
      <4>1. ClientRowAtHome(c, first_of(listing))
        BY <2>1, <3>2, FirstOfIsARow DEF RoutedHome, UpAtHome
      <4> QED BY <3>2, <4>1 DEF RequestAtHome, ClientRowAtHome, AsMessage
    <3> QED BY <3>1, <3>2
  <2>3. /\ UNCHANGED <<clientUp, clientDown, holds, late, hostUp, hostDown, tasks, order>>
        /\ link' = [link EXCEPT ![c] =
               [phase |-> "request", request |-> request, reply |-> Pong]]
        /\ batch' = [batch EXCEPT ![c] =
               IF listing = {} THEN {} ELSE listing \ {first_of(listing)}]
    BY <1>2 DEF ClientSend, host_vars, fault_vars, history_vars
  <2>4. UpAtHome'
    <3>1. \A d \in Clients : clientUp'[d] \cup batch'[d] \subseteq clientUp[d] \cup batch[d]
      BY <2>1, <2>3 DEF TypeOK
    <3> QED BY <2>3, <3>1 DEF RoutedHome, UpAtHome, ClientRowAtHome
  <2>5. RequestsAtHome' /\ RepliesAtHome'
    <3>1. /\ link'[c] = [phase |-> "request", request |-> request, reply |-> Pong]
          /\ \A d \in Clients \ {c} : link'[d] = link[d]
      BY <2>3 DEF TypeOK
    <3> HIDE DEF request
    <3> QED BY <2>2, <2>3, <3>1, HomeStays DEF RoutedHome, RequestsAtHome, RepliesAtHome
  <2> QED BY <2>3, <2>4, <2>5
          DEF RoutedHome, DownAtHome, HoldsAtHome, HostAtHome, TasksAtHome, DeliveryAtHome
<1>3. CASE ReceiveFailure(c) \/ ReceiveConfirmation(c) \/ ReceivePong(c)
  BY <1>3, RemovalRoutes
     DEF ReceiveFailure, ReceiveConfirmation, ReceivePong, Stop, TypeOK,
         buffer_up_remove_schedule_by_parity_id, client_vars, host_vars, fault_vars, history_vars
<1>4. CASE ReceiveCommand(c)
  <2> DEFINE reply == link[c].reply
             row == [client |-> c, parity |-> reply.parity, kind |-> reply.kind]
  <2>1. DeliveryAtHome(c, row)
    BY <1>4 DEF ReceiveCommand, RoutedHome, RepliesAtHome, DeliveryAtHome
  <2>2. /\ UNCHANGED <<clientUp, batch, holds, late, hostUp, hostDown, tasks, order>>
        /\ link' = [link EXCEPT ![c] = Idle]
        /\ clientDown' = [clientDown EXCEPT ![c] = buffer_down_schedule(@, row)]
    BY <1>4 DEF ReceiveCommand, host_vars, fault_vars, history_vars
  <2>3. DownAtHome'
    <3>1. /\ clientDown'[c] \subseteq clientDown[c] \cup {row}
          /\ \A d \in Clients \ {c} : clientDown'[d] = clientDown[d]
      BY <2>2 DEF TypeOK, buffer_down_schedule
    <3> HIDE DEF row
    <3> QED BY <2>1, <2>2, <3>1 DEF RoutedHome, DownAtHome, DeliveryAtHome
  <2>4. RequestsAtHome' /\ RepliesAtHome'
    <3>1. \A d \in Clients : link'[d] \in {link[d], Idle}
      BY <2>2 DEF TypeOK
    <3>2. \A d \in Clients : link'[d] = link[d] \/ link'[d].phase = "idle"
      BY <3>1 DEF Idle
    <3> QED BY <2>2, <3>2, HomeStays DEF RoutedHome, RequestsAtHome, RepliesAtHome
  <2> QED BY <2>2, <2>3, <2>4
          DEF RoutedHome, UpAtHome, HoldsAtHome, HostAtHome, TasksAtHome, ClientRowAtHome,
              DeliveryAtHome
<1>5. ASSUME NEW row \in clientDown[c], NEW responds \in BOOLEAN,
             ProcessFunction(c, row, responds)
      PROVE  RoutedHome'
  <2>1. order[row.parity].to = c
    BY <1>5 DEF ProcessFunction, RoutedHome, DownAtHome, DeliveryAtHome
  <2>2. /\ UNCHANGED <<clientUp, batch, link, late, hostUp, hostDown, tasks, order>>
        /\ clientDown' = [clientDown EXCEPT ![c] = @ \ {row}]
    BY <1>5 DEF ProcessFunction, host_vars, fault_vars
  <2>3. holds' = holds \/ holds' = [holds EXCEPT ![c] = {row.parity}]
    BY <1>5 DEF ProcessFunction
  <2>4. HoldsAtHome'
    BY <2>1, <2>2, <2>3 DEF RoutedHome, HoldsAtHome, TypeOK
  <2>5. DownAtHome'
    BY <2>2 DEF RoutedHome, DownAtHome, DeliveryAtHome, TypeOK
  <2> QED BY <2>2, <2>4, <2>5
          DEF RoutedHome, UpAtHome, RequestsAtHome, RepliesAtHome, HostAtHome, TasksAtHome,
              RequestAtHome, ClientRowAtHome, DeliveryAtHome
<1>6. CASE QueueAnswer(c)
  <2>1. PICK p \in holds[c] :
          clientUp' = [clientUp EXCEPT ![c] = buffer_up_schedule(@,
              [id |-> nextId[c], client |-> c, parity |-> p,
               kind |-> "Response", target |-> Origin])]
    BY <1>6 DEF QueueAnswer
  <2> DEFINE response == [id |-> nextId[c], client |-> c, parity |-> p,
                          kind |-> "Response", target |-> Origin]
  <2>2. ClientRowAtHome(c, response)
    BY DEF RoutedHome, HoldsAtHome, ClientRowAtHome
  <2>3. /\ UNCHANGED <<clientDown, batch, link, late, hostUp, hostDown, tasks, order>>
        /\ \A d \in Clients : holds'[d] \subseteq holds[d]
    BY <1>6 DEF QueueAnswer, TypeOK, host_vars, fault_vars, history_vars
  <2>4. /\ clientUp'[c] \subseteq clientUp[c] \cup {response}
        /\ \A d \in Clients \ {c} : clientUp'[d] = clientUp[d]
    BY <2>1 DEF TypeOK, buffer_up_schedule
  <2>5. UpAtHome'
    <3> HIDE DEF response
    <3> QED BY <2>2, <2>3, <2>4 DEF RoutedHome, UpAtHome, ClientRowAtHome
  <2> QED BY <2>3, <2>5
          DEF RoutedHome, DownAtHome, HoldsAtHome, RequestsAtHome, RepliesAtHome, HostAtHome,
              TasksAtHome, RequestAtHome, ClientRowAtHome, DeliveryAtHome
<1>7. ASSUME NEW row \in clientDown[c], ProcessResponse(c, row)
      PROVE  RoutedHome'
  BY <1>7, RemovalRoutes DEF ProcessResponse, TypeOK, host_vars, fault_vars
<1>8. CASE TransposerPanic(c)
  BY <1>8, RemovalRoutes DEF TransposerPanic, TypeOK, host_vars
<1>9. ASSUME NEW row \in clientUp[c] \cup clientDown[c], ClientExpire(c, row)
      PROVE  RoutedHome'
  BY <1>9, RemovalRoutes DEF ClientExpire, TypeOK, host_vars
<1> QED BY <1>1, <1>2, <1>3, <1>4, <1>5, <1>6, <1>7, <1>8, <1>9 DEF ClientNext

\* What a thread of the host reads was sent by its client.
LEMMA ExchangeAtHome ==
    ASSUME RoutedHome, NEW c \in Clients, NEW x \in Exchanges(c)
    PROVE  RequestAtHome(c, x.request)
BY DEF Exchanges, RoutedHome, RequestsAtHome

\* A reply at home leaves every exchange at home.
LEMMA ReplyRoutes ==
    ASSUME TypeOK, RoutedHome, NEW c \in Clients, NEW x \in Exchanges(c), NEW message,
           Reply(c, x, message), UNCHANGED order,
           message.kind \in {"Function", "Response"} => DeliveryAtHome(c, message)
    PROVE  RequestsAtHome' /\ RepliesAtHome'
<1>1. CASE x.live
  <2>1. late' = late /\ \A d \in Clients \ {c} : link'[d] = link[d]
    BY <1>1 DEF Reply, TypeOK
  <2>2. link'[c] = [phase |-> "reply", request |-> link[c].request, reply |-> message]
    BY <1>1 DEF Reply, TypeOK
  <2>3. link[c].request = x.request \/ x.request \in late[c]
    BY DEF Exchanges
  <2>4. RequestAtHome(c, link[c].request)
    BY <1>1, ExchangeAtHome DEF Exchanges, RoutedHome, RequestsAtHome, TypeOK
  <2>5. RequestsAtHome'
    <3>1. \A d \in Clients \ {c} : link'[d].phase = link[d].phase
                                    /\ link'[d].request = link[d].request
      BY <2>1
    <3>2. link'[c].request = link[c].request
      BY <2>2
    <3> QED BY <2>1, <2>4, <3>1, <3>2, HomeStays DEF RoutedHome, RequestsAtHome
  <2>6. RepliesAtHome'
    BY <2>1, <2>2, HomeStays DEF RoutedHome, RepliesAtHome
  <2> QED BY <2>5, <2>6
<1>2. CASE ~x.live
  <2>1. link' = link /\ \A d \in Clients : late'[d] \subseteq late[d]
    BY <1>2 DEF Reply, TypeOK
  <2> QED BY <2>1, HomeStays DEF RoutedHome, RequestsAtHome, RepliesAtHome
<1> QED BY <1>1, <1>2

\* get_response hands out a row of the sender itself.
LEMMA GetResponseRoutes ==
    ASSUME TypeOK, RoutedHome, NEW c \in Clients, NEW x \in Exchanges(c), NEW p \in Parities,
           GetResponse(c, x, p), UNCHANGED order
    PROVE  RequestsAtHome' /\ RepliesAtHome' /\ hostUp' \subseteq hostUp
<1> DEFINE found == buffer_up_get_scheduled_by_parity_id(hostUp, c, p)
           message == IF found = {} THEN Confirmation(p) ELSE AsMessage(first_of(found))
<1>1. found \in SUBSET hostUp /\ found \in SUBSET UpRow /\ \A r \in found : r.client = c
  BY DEF TypeOK, buffer_up_get_scheduled_by_parity_id
<1>2. message.kind \in {"Function", "Response"} => DeliveryAtHome(c, message)
  <2>1. CASE found = {}
    BY <2>1 DEF Confirmation
  <2>2. CASE found # {}
    <3>1. first_of(found) \in found
      BY <1>1, <2>2, FirstOfIsARow
    <3>2. DeliveryAtHome(c, first_of(found))
      BY <1>1, <3>1 DEF RoutedHome, HostAtHome
    <3> QED BY <2>2, <3>2 DEF DeliveryAtHome, AsMessage
  <2> QED BY <2>1, <2>2
<1>3. Reply(c, x, message) /\ hostUp' \subseteq hostUp
  BY DEF GetResponse, buffer_up_remove_schedule_by_parity_id
<1> HIDE DEF message
<1> QED BY <1>2, <1>3, ReplyRoutes

\* redirect_commands_processing queues one row, at home if the target is the
\* one addressed, or none.
LEMMA RedirectRoutes ==
    ASSUME TypeOK, RoutedHome, NEW c \in Clients, NEW x \in Exchanges(c),
           NEW target \in Clients, Refuse(c, x) \/ Forward(c, x, target), UNCHANGED order,
           DeliveryAtHome(target, x.request)
    PROVE  /\ RequestsAtHome' /\ RepliesAtHome'
           /\ \A row \in hostUp' : row \in hostUp \/ DeliveryAtHome(row.client, row)
<1> DEFINE p == x.request.parity
           row == [id |-> nextId[Host], client |-> target, parity |-> p,
                   kind |-> x.request.kind, target |-> Origin]
<1>1. Reply(c, x, Confirmation(p)) \/ Reply(c, x, Refusal(p))
  BY DEF Refuse, Forward
<1>2. RequestsAtHome' /\ RepliesAtHome'
  BY <1>1, ReplyRoutes DEF Confirmation, Refusal
<1>3. hostUp' \subseteq hostUp \cup {row}
  BY DEF Refuse, Forward, buffer_up_schedule
<1>4. DeliveryAtHome(row.client, row)
  BY DEF DeliveryAtHome
<1> HIDE DEF row
<1> QED BY <1>2, <1>3, <1>4

LEMMA HandlerRoutes ==
    ASSUME TypeOK, RoutedHome, NEW c \in Clients, NEW x \in Exchanges(c),
           \/ HandlePing(c, x) \/ HandleRedirect(c, x)
           \/ HandleHostCommand(c, x) \/ HandleResponse(c, x)
    PROVE  RoutedHome'
<1> DEFINE p == x.request.parity
<1>1. UNCHANGED <<clientUp, clientDown, batch, holds, order>>
  BY DEF HandlePing, HandleRedirect, HandleHostCommand, HandleResponse, client_vars
<1>2. UpAtHome' /\ DownAtHome' /\ HoldsAtHome'
  BY <1>1 DEF RoutedHome, UpAtHome, DownAtHome, HoldsAtHome, ClientRowAtHome, DeliveryAtHome
<1>3. CASE HandlePing(c, x)
  <2> DEFINE waiting == buffer_up_list_schedule_fo_client_id(hostUp, c)
             message == IF waiting = {} THEN Pong ELSE AsMessage(first_of(waiting))
  <2>1. waiting \in SUBSET hostUp /\ waiting \in SUBSET UpRow /\ \A r \in waiting : r.client = c
    BY DEF TypeOK, buffer_up_list_schedule_fo_client_id
  <2>2. message.kind \in {"Function", "Response"} => DeliveryAtHome(c, message)
    <3>1. CASE waiting = {}
      BY <3>1 DEF Pong
    <3>2. CASE waiting # {}
      <4>1. first_of(waiting) \in waiting
        BY <2>1, <3>2, FirstOfIsARow
      <4>2. DeliveryAtHome(c, first_of(waiting))
        BY <2>1, <4>1 DEF RoutedHome, HostAtHome
      <4> QED BY <3>2, <4>2 DEF DeliveryAtHome, AsMessage
    <3> QED BY <3>1, <3>2
  <2>3. Reply(c, x, message) /\ hostUp' \subseteq hostUp /\ UNCHANGED <<hostDown, tasks>>
    BY <1>3 DEF HandlePing, buffer_up_remove_schedule_by_parity_id
  <2> HIDE DEF message
  <2>4. RequestsAtHome' /\ RepliesAtHome'
    BY <1>1, <2>2, <2>3, ReplyRoutes
  <2> QED BY <1>1, <1>2, <2>3, <2>4 DEF RoutedHome, HostAtHome, TasksAtHome, DeliveryAtHome
<1>4. CASE HandleRedirect(c, x)
  <2> DEFINE target == x.request.target
  <2>1. p \in Parities /\ target \in Clients /\ x.request.kind = "Function"
    BY <1>4, ExchangeType DEF HandleRedirect
  <2>2. order[p].from = c /\ order[p].to = target
    BY <2>1, ExchangeAtHome DEF RequestAtHome, ClientRowAtHome
  <2>3. tasks' = [tasks EXCEPT ![target] = @ \cup {[parity |-> p, origin |-> c]}]
    BY <1>4 DEF HandleRedirect, AddTask
  <2>4. TasksAtHome'
    BY <1>1, <2>1, <2>2, <2>3 DEF RoutedHome, TasksAtHome, TypeOK
  <2>5. DeliveryAtHome(target, x.request)
    BY <2>1, <2>2 DEF DeliveryAtHome
  <2>6. GetResponse(c, x, p) \/ Refuse(c, x) \/ Forward(c, x, target)
    BY <1>4 DEF HandleRedirect
  <2>7. /\ RequestsAtHome' /\ RepliesAtHome'
        /\ \A row \in hostUp' : row \in hostUp \/ DeliveryAtHome(row.client, row)
    BY <1>1, <2>1, <2>5, <2>6, GetResponseRoutes, RedirectRoutes
  <2>8. hostDown' \subseteq hostDown
    BY <1>4 DEF HandleRedirect, buffer_down_remove_schedule_by_parity_id
  <2>9. HostAtHome'
    BY <1>1, <2>7, <2>8 DEF RoutedHome, HostAtHome, DeliveryAtHome
  <2> QED BY <1>2, <2>4, <2>7, <2>9 DEF RoutedHome
<1>5. CASE HandleHostCommand(c, x)
  <2>1. p \in Parities /\ x.request.kind = "Function" /\ x.request.target = Host
    BY <1>5, ExchangeType DEF HandleHostCommand
  <2>2. order[p].from = c /\ order[p].to = Host
    BY <2>1, ExchangeAtHome DEF RequestAtHome, ClientRowAtHome
  <2>3. tasks' = [tasks EXCEPT ![Host] = @ \cup {[parity |-> p, origin |-> c]}]
    BY <1>5 DEF HandleHostCommand, AddTask
  <2>4. TasksAtHome'
    BY <1>1, <2>2, <2>3 DEF RoutedHome, TasksAtHome, TypeOK
  <2>5. \/ /\ hostDown' \subseteq hostDown \cup {[client |-> c, parity |-> p, kind |-> "Function"]}
           /\ Reply(c, x, Confirmation(p)) \/ Reply(c, x, Refusal(p))
           /\ UNCHANGED hostUp
        \/ GetResponse(c, x, p) /\ UNCHANGED hostDown
    BY <1>5 DEF HandleHostCommand, Refuse, buffer_down_schedule
  <2>6. RequestsAtHome' /\ RepliesAtHome' /\ hostUp' \subseteq hostUp
    BY <1>1, <2>1, <2>5, GetResponseRoutes, ReplyRoutes DEF Confirmation, Refusal
  <2>7. HostAtHome'
    BY <1>1, <2>2, <2>5, <2>6 DEF RoutedHome, HostAtHome, DeliveryAtHome
  <2> QED BY <1>2, <2>4, <2>6, <2>7 DEF RoutedHome
<1>6. CASE HandleResponse(c, x)
  <2>1. p \in Parities /\ x.request.kind = "Response"
    BY <1>6, ExchangeType DEF HandleResponse
  <2>2. PICK origin \in TaskOrigins(c, p) :
          /\ Refuse(c, x) \/ Forward(c, x, origin) \/ GetResponse(c, x, p)
          /\ hostDown' \subseteq hostDown
          /\ \A n \in Clients \cup {Host} : tasks'[n] \subseteq tasks[n]
    BY <1>6 DEF HandleResponse, TypeOK, buffer_down_remove_schedule_by_parity_id
  <2>3. origin \in Clients /\ order[p].from = origin
    BY DEF TaskOrigins, Task, TypeOK, RoutedHome, TasksAtHome
  <2>4. DeliveryAtHome(origin, x.request)
    BY <2>1, <2>3 DEF DeliveryAtHome
  <2>5. /\ RequestsAtHome' /\ RepliesAtHome'
        /\ \A row \in hostUp' : row \in hostUp \/ DeliveryAtHome(row.client, row)
    BY <1>1, <2>1, <2>2, <2>3, <2>4, GetResponseRoutes, RedirectRoutes
  <2>6. HostAtHome' /\ TasksAtHome'
    BY <1>1, <2>2, <2>5 DEF RoutedHome, HostAtHome, TasksAtHome, DeliveryAtHome
  <2> QED BY <1>2, <2>5, <2>6 DEF RoutedHome
<1> QED BY <1>3, <1>4, <1>5, <1>6

LEMMA ConnectionRoutes ==
    ASSUME TypeOK, RoutedHome, NEW c \in Clients, ConnectionNext(c)
    PROVE  RoutedHome'
<1>1. ASSUME NEW x \in Exchanges(c), HandlerPanic(c, x)
      PROVE  RoutedHome'
  <2>1. UNCHANGED <<clientUp, clientDown, holds, hostUp, hostDown, tasks, order>>
    BY <1>1 DEF HandlerPanic, host_vars, history_vars
  <2>2. \A d \in Clients : /\ batch'[d] \in {batch[d], {}}
                           /\ late'[d] \subseteq late[d]
                           /\ link'[d] \in {link[d], Closed}
    BY <1>1 DEF HandlerPanic, TypeOK
  <2> QED BY <2>1, <2>2, RemovalRoutes
<1>2. CASE Connect(c) \/ Resync(c) \/ Synced(c) \/ NoticeDisconnect(c) \/ ClientRestart(c)
  BY <1>2, RemovalRoutes
     DEF Connect, Resync, Synced, NoticeDisconnect, ClientRestart, TypeOK, client_vars, host_vars,
         fault_vars, history_vars
<1>3. ASSUME NEW stops \in BOOLEAN, NEW arrives \in BOOLEAN, Break(c, stops, arrives)
      PROVE  RoutedHome'
  <2>1. /\ link[c].phase \in {"request", "reply"}
        /\ UNCHANGED <<clientUp, clientDown, holds, hostUp, hostDown, tasks, order>>
    BY <1>3 DEF Break, host_vars
  <2>2. \A d \in Clients : batch'[d] \in {batch[d], {}} /\ link'[d] \in {link[d], Closed}
    BY <1>3 DEF Break, Stop, TypeOK
  <2>3. /\ \A d \in Clients \ {c} : late'[d] = late[d]
        /\ late'[c] \subseteq late[c] \cup {link[c].request}
    BY <1>3 DEF Break, TypeOK
  <2>4. RequestAtHome(c, link[c].request)
    BY <2>1 DEF RoutedHome, RequestsAtHome
  <2>5. \A d \in Clients : \A m \in late'[d] : RequestAtHome(d, m)
    BY <2>3, <2>4 DEF RoutedHome, RequestsAtHome
  <2>6. \A d \in Clients : link'[d] = link[d] \/ link'[d].phase = "closed"
    BY <2>2 DEF Closed
  <2>7. RequestsAtHome' /\ RepliesAtHome'
    BY <2>1, <2>5, <2>6, HomeStays DEF RoutedHome, RequestsAtHome, RepliesAtHome
  <2> QED BY <2>1, <2>2, <2>7
          DEF RoutedHome, UpAtHome, DownAtHome, HoldsAtHome, HostAtHome, TasksAtHome,
              ClientRowAtHome, DeliveryAtHome
<1>4. ASSUME NEW x \in Exchanges(c),
             \/ HandlePing(c, x) \/ HandleRedirect(c, x)
             \/ HandleHostCommand(c, x) \/ HandleResponse(c, x)
      PROVE  RoutedHome'
  BY <1>4, HandlerRoutes
<1> QED BY <1>1, <1>2, <1>3, <1>4 DEF ConnectionNext

LEMMA HostRoutes ==
    ASSUME TypeOK, RoutedHome, HostNext
    PROVE  RoutedHome'
<1>1. ASSUME NEW row \in hostDown, NEW outcome \in {"Response", "C210", "Failure"},
             HostProcess(row, outcome)
      PROVE  RoutedHome'
  <2> DEFINE result == [id |-> nextId[Host], client |-> row.client, parity |-> row.parity,
                        kind |-> outcome, target |-> Origin]
  <2>1. DeliveryAtHome(result.client, result)
    BY DEF RoutedHome, HostAtHome, DeliveryAtHome
  <2>2. /\ hostUp' \subseteq hostUp \cup {result}
        /\ hostDown' \subseteq hostDown
        /\ UNCHANGED <<clientUp, clientDown, batch, holds, link, late, tasks, order>>
    BY <1>1 DEF HostProcess, buffer_up_schedule, client_vars, fault_vars
  <2>3. HostAtHome'
    <3> HIDE DEF result
    <3> QED BY <2>1, <2>2 DEF RoutedHome, HostAtHome, DeliveryAtHome
  <2> QED BY <2>2, <2>3
          DEF RoutedHome, UpAtHome, DownAtHome, HoldsAtHome, RequestsAtHome, RepliesAtHome,
              TasksAtHome, RequestAtHome, ClientRowAtHome, DeliveryAtHome
<1>2. ASSUME NEW row \in hostUp, HostExpire(row)
      PROVE  RoutedHome'
  BY <1>2, RemovalRoutes DEF HostExpire, client_vars
<1>3. ASSUME NEW survivors \in SUBSET Clients, HostRestart(survivors)
      PROVE  RoutedHome'
  BY <1>3, RemovalRoutes DEF HostRestart
<1> QED BY <1>1, <1>2, <1>3 DEF HostNext

LEMMA RoutedStep ==
    ASSUME TypeOK, RoutedHome, [Next]_vars
    PROVE  RoutedHome'
<1>1. CASE UNCHANGED vars
  BY <1>1, RemovalRoutes DEF vars
<1> QED BY <1>1, ClientRoutes, ConnectionRoutes, HostRoutes DEF Next

\* A command and its response never leave the two nodes they concern: whatever
\* the number of clients and commands, and whatever breaks.
THEOREM Routed == Spec => []RoutedHome
<1>1. Init => RoutedHome
  BY DEF Init, RoutedHome, UpAtHome, DownAtHome, HoldsAtHome, RequestsAtHome, RepliesAtHome,
         HostAtHome, TasksAtHome, Closed
<1>2. TypeOK /\ RoutedHome /\ [Next]_vars => RoutedHome'
  BY RoutedStep
<1> QED BY <1>1, <1>2, TypeCorrect, PTL DEF Spec
===============================================================================
