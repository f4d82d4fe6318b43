-------------------------- MODULE HostRelayOnceProofs --------------------------
(***************************************************************************)
(* A command is in one place at a time.  For any number of clients, parity *)
(* ids and faults: no handler runs twice and no answer is taken twice, and *)
(* nothing that waits is mistaken for a duplicate.                         *)
(*                                                                         *)
(* A place is a kind of place and a node (In).  On its way out a command   *)
(* is with its sender (sending, refused) or with its target (queued,       *)
(* coming, arrived) and has not run; on its way back it is with the same   *)
(* nodes the other way round, has run and was not answered (WhereRuns).    *)
(* It turns back in the hands of the target's transposer (answering).      *)
(* What a client still has in its up table after the host has handled it   *)
(* is no place of the command: the client waits for the confirmation, or   *)
(* has stopped and drops the row when it is started again (Live).          *)
(***************************************************************************)
EXTENDS HostRelayProofs

Nodes  == Clients \cup {Host}
Places == {"sending", "refused", "queued", "coming", "arrived", "answering"}

RowsOf(c) == clientUp[c] \cup batch[c]

\* Client c has asked the host about p, and has not yet read its reply.
Exchanging(c, p) == link[c].phase \in {"request", "reply"} /\ link[c].request.parity = p

\* Client c will send its row with p, now or after what is in progress.
Live(c, p) ==
    /\ running[c]
    /\ \E row \in RowsOf(c) : row.parity = p
    /\ ~(link[c].phase = "reply" /\ link[c].request.parity = p)

Asked(c, p) == link[c].phase = "request" /\ link[c].request.parity = p
Late(c, p)  == \E m \in late[c] : m.parity = p

\* The host has yet to handle p as a request of c.
Sending(c, p) == Live(c, p) \/ Asked(c, p) \/ Late(c, p)

\* The host did not take p from c: c is about to read that.
Refused(c, p) ==
    /\ link[c].phase = "reply" /\ link[c].request.kind # "C206"
    /\ link[c].request.parity = p /\ link[c].reply.kind = "Failure"

\* p waits in the host for a ping of n; is the reply to such a ping; is in the
\* down table of n.
Queued(n, p)  == \E row \in hostUp : row.client = n /\ row.parity = p
Coming(n, p)  ==
    /\ link[n].phase = "reply" /\ link[n].request.kind = "C206"
    /\ link[n].reply.parity = p
Arrived(n, p) ==
    IF n = Host THEN \E row \in hostDown : row.parity = p
    ELSE \E row \in clientDown[n] : row.parity = p

\* The transposer of n has run the handler and yet to queue the response.
Answering(n, p) == n \in Clients /\ p \in holds[n]

In(k, n, p) ==
    \/ n \in Clients /\ k = "sending" /\ Sending(n, p)
    \/ n \in Clients /\ k = "refused" /\ Refused(n, p)
    \/ n \in Clients /\ k = "coming" /\ Coming(n, p)
    \/ k = "queued" /\ Queued(n, p)
    \/ k = "arrived" /\ Arrived(n, p)
    \/ k = "answering" /\ Answering(n, p)

\* The place is one of the way out.
Outward(k, n, p) ==
    n = IF k \in {"sending", "refused", "answering"} THEN order[p].from ELSE order[p].to
-------------------------------------------------------------------------------
(* The inductive invariant.                                                *)

\* A client that stopped has no listing and no connection.  The rest of a listing
\* does not hold what is being sent.  A request that is not a ping gets a
\* confirmation or a refusal.  A client has one row with a parity id.
Shape(c) ==
    /\ ~running[c] => batch[c] = {} /\ link[c].phase = "closed"
    /\ link[c].phase # "reply" => link[c].reply = Pong
    /\ link[c].phase \in {"request", "reply"} =>
          \A row \in batch[c] : row.parity # link[c].request.parity
    /\ link[c].phase = "reply" /\ link[c].request.kind # "C206" =>
          link[c].reply \in {Confirmation(link[c].request.parity),
                             Refusal(link[c].request.parity)}
    /\ \A row \in RowsOf(c) \cup clientDown[c] : row.client = c
    /\ \A r, s \in RowsOf(c) : r.parity = s.parity => r = s

\* What a ping fetches is for the client that sent it.
Fetched(c) ==
    link[c].phase = "reply" /\ link[c].request.kind = "C206" =>
        \/ link[c].reply = Pong
        \/ link[c].reply.parity \in Parities /\ DeliveryAtHome(c, link[c].reply)

\* A response is written when the handler has run.
Written(c) ==
    /\ \A row \in RowsOf(c) : row.kind = "Response" => runs[row.parity] = 1
    /\ \A m \in late[c] : m.kind = "Response" => runs[m.parity] = 1
    /\ link[c].phase \in {"request", "reply"} /\ link[c].request.kind = "Response"
          => runs[link[c].request.parity] = 1

\* What a dead connection still holds is not sent again: the client stopped, and
\* drops its row when it is started.
LateApart(c) ==
    \A p \in Parities :
        Late(c, p) =>
            /\ ~Exchanging(c, p)
            /\ \A row \in batch[c] : row.parity # p
            /\ running[c] => \A row \in clientUp[c] : row.parity # p

\* What the transposer has to process is not in the up table.
NotBoth(c) ==
    \A row \in clientDown[c] : \A r \in clientUp[c] : r.parity # row.parity

\* What the transposer has yet to queue is one response, which is not in the up
\* table and not under way.
HeldApart(c) ==
    \A p \in holds[c] :
        /\ holds[c] = {p}
        /\ ~Exchanging(c, p)
        /\ \A row \in RowsOf(c) : row.parity # p

AtClient(c) ==
    /\ Shape(c) /\ Fetched(c) /\ Written(c)
    /\ LateApart(c) /\ NotBoth(c) /\ HeldApart(c)

\* Nothing is known of a parity id that nobody has scheduled, and nobody commands
\* itself.
Distinct ==
    \A p \in Parities :
        IF Scheduled(p) THEN order[p].from \in Clients /\ order[p].from # order[p].to
        ELSE runs[p] = 0 /\ answers[p] = 0 /\ closed[p] = {}

Functions == \A row \in hostDown : row.kind = "Function"

Counted == \A p \in Parities : runs[p] \in {0, 1} /\ answers[p] \in {0, runs[p]}

OneCopy ==
    \A p \in Parities : \A k, l \in Places : \A m, n \in Nodes :
        In(k, m, p) /\ In(l, n, p) => k = l /\ m = n

WhereRuns ==
    \A p \in Parities : \A k \in Places : \A n \in Nodes :
        In(k, n, p) => IF Outward(k, n, p) THEN runs[p] = 0
                       ELSE runs[p] = 1 /\ answers[p] = 0

Once ==
    /\ TypeOK /\ RoutedHome
    /\ \A c \in Clients : AtClient(c)
    /\ Distinct /\ Functions /\ Counted
    /\ OneCopy /\ WhereRuns
-------------------------------------------------------------------------------
(* Whose the rows, the requests and the places are.                        *)

LEMMA MessageParity ==
    ASSUME NEW m \in Message
    PROVE  /\ m.kind = "C206" => m = Ping /\ m.parity = NoParity
           /\ m.kind = "C207" => m = Pong /\ m.parity = NoParity
           /\ m.kind \notin {"C206", "C207"} =>
                 /\ m.parity \in Parities /\ m.kind \in Kinds /\ m.target \in Targets
                 /\ m = [kind |-> m.kind, parity |-> m.parity, target |-> m.target]
           /\ m.parity \in Parities => m.kind \notin {"C206", "C207"}
BY NamesAssumption DEF Message, Ping, Pong, Kinds

\* A row, or a request: c asked for it, or was asked.
OwnCommand(c, m)  ==
    m.kind = "Function" /\ order[m.parity].from = c /\ order[m.parity].to = m.target
OwnResponse(c, m) == m.kind = "Response" /\ order[m.parity].to = c /\ m.target = Origin

LEMMA RowAt ==
    ASSUME TypeOK, RoutedHome, NEW c \in Clients, NEW row \in RowsOf(c)
    PROVE  row \in UpRow /\ row.parity \in Parities /\ (OwnCommand(c, row) \/ OwnResponse(c, row))
<1>1. row \in UpRow
  BY DEF TypeOK, RowsOf
<1>2. ClientRowAtHome(c, row)
  BY DEF RoutedHome, UpAtHome, RowsOf
<1> QED BY <1>1, <1>2 DEF ClientRowAtHome, UpRow, OwnCommand, OwnResponse

LEMMA RequestAt ==
    ASSUME TypeOK, RoutedHome, NEW c \in Clients, NEW m,
           m \in late[c] \/ (link[c].phase \in {"request", "reply"} /\ m = link[c].request)
    PROVE  /\ m \in Message
           /\ m # Ping => m.parity \in Parities /\ (OwnCommand(c, m) \/ OwnResponse(c, m))
           /\ m.kind = "C206" <=> m = Ping
           /\ m.parity \in Parities <=> m # Ping
<1>1. m \in Message
  BY DEF TypeOK, Link
<1>2. RequestAtHome(c, m)
  BY DEF RoutedHome, RequestsAtHome
<1>3. m = Ping \/ (m.kind # "C206" /\ ClientRowAtHome(c, m))
  BY <1>1, <1>2, MessageParity DEF RequestAtHome
<1>4. m.kind # "C206" /\ ClientRowAtHome(c, m) => OwnCommand(c, m) \/ OwnResponse(c, m)
  BY DEF ClientRowAtHome, OwnCommand, OwnResponse
<1>5. OwnCommand(c, m) \/ OwnResponse(c, m) => m.kind \notin {"C206", "C207"}
  BY DEF OwnCommand, OwnResponse
<1>6. Ping.kind = "C206" /\ Ping.parity \notin Parities
  BY NamesAssumption DEF Ping
<1> QED BY <1>1, <1>3, <1>4, <1>5, <1>6, MessageParity

\* A node has a copy of what was scheduled, because it asked for it or was asked.
LEMMA PlaceAt ==
    ASSUME TypeOK, RoutedHome, \A c \in Clients : Fetched(c), NEW k, NEW n \in Nodes, NEW p \in Parities, In(k, n, p)
    PROVE  Scheduled(p)
<1>0. Host \notin Clients
  BY NamesAssumption
<1>1. ASSUME n \in Clients, Sending(n, p) \/ Refused(n, p)
      PROVE  Scheduled(p)
  <2>1. ASSUME Live(n, p)
        PROVE  n \in {order[p].from, order[p].to}
    BY <1>1, <2>1, RowAt DEF Live, OwnCommand, OwnResponse
  <2>2. ASSUME NEW m, m.parity = p,
               m \in late[n] \/ (link[n].phase \in {"request", "reply"} /\ m = link[n].request)
        PROVE  n \in {order[p].from, order[p].to}
    <3>1. m # Ping
      BY NamesAssumption, <2>2 DEF Ping
    <3> QED BY <1>1, <2>2, <3>1, RequestAt DEF OwnCommand, OwnResponse
  <2>3. n \in {order[p].from, order[p].to}
    BY <1>1, <2>1, <2>2 DEF Sending, Refused, Asked, Late
  <2> QED BY <1>0, <1>1, <2>3 DEF Scheduled, NoOrder
<1>2. ASSUME Queued(n, p)
      PROVE  Scheduled(p)
  BY <1>0, <1>2
     DEF Queued, TypeOK, UpRow, RoutedHome, HostAtHome, DeliveryAtHome, Scheduled, NoOrder
<1>3. ASSUME n \in Clients, Coming(n, p)
      PROVE  Scheduled(p)
  <2>2. link[n].reply # Pong
    BY <1>3, NamesAssumption DEF Coming, Pong
  <2> QED BY <1>0, <1>3, <2>2 DEF Coming, Fetched, DeliveryAtHome, Scheduled, NoOrder
<1>4. ASSUME Arrived(n, p), n = Host
      PROVE  Scheduled(p)
  BY <1>0, <1>4 DEF Arrived, RoutedHome, HostAtHome, Scheduled, NoOrder, TypeOK, DownRow
<1>5. ASSUME Arrived(n, p), n \in Clients
      PROVE  Scheduled(p)
  BY <1>0, <1>5 DEF Arrived, RoutedHome, DownAtHome, DeliveryAtHome, Scheduled, NoOrder
<1>6. ASSUME Answering(n, p)
      PROVE  Scheduled(p)
  BY <1>0, <1>6 DEF Answering, RoutedHome, HoldsAtHome, Scheduled, NoOrder
<1> QED BY <1>1, <1>2, <1>3, <1>4, <1>5, <1>6 DEF In, Nodes
-------------------------------------------------------------------------------
(* What the steps do to the places.                                        *)

\* No parity id comes to a place where it is not, but p perhaps to l of m.
GrowsBy(l, m, p) ==
    \A k \in Places : \A n \in Nodes : \A q \in Parities :
        In(k, n, q)' => In(k, n, q) \/ (k = l /\ n = m /\ q = p)

\* The same of the two places that a client's connection makes, and of the tables
\* and the transposers.
SendsNoMore(c, l, m, p) ==
    \A q \in Parities :
        /\ Sending(c, q)' => Sending(c, q) \/ ("sending" = l /\ c = m /\ q = p)
        /\ Refused(c, q)' => Refused(c, q) \/ ("refused" = l /\ c = m /\ q = p)
        /\ Coming(c, q)' => Coming(c, q) \/ ("coming" = l /\ c = m /\ q = p)

HoldsNoMore(l, m, p) ==
    \A n \in Nodes : \A q \in Parities :
        /\ Queued(n, q)' => Queued(n, q) \/ ("queued" = l /\ n = m /\ q = p)
        /\ Arrived(n, q)' => Arrived(n, q) \/ ("arrived" = l /\ n = m /\ q = p)
        /\ Answering(n, q)' => Answering(n, q) \/ ("answering" = l /\ n = m /\ q = p)

LEMMA Growth ==
    ASSUME NEW l, NEW m, NEW p, \A c \in Clients : SendsNoMore(c, l, m, p), HoldsNoMore(l, m, p)
    PROVE  GrowsBy(l, m, p)
<1> SUFFICES ASSUME NEW k \in Places, NEW n \in Nodes, NEW q \in Parities, In(k, n, q)',
                    ~(k = l /\ n = m /\ q = p)
             PROVE  In(k, n, q)
  BY DEF GrowsBy
<1>1. CASE n \in Clients /\ k = "sending" /\ Sending(n, q)'
  BY <1>1 DEF SendsNoMore, In
<1>2. CASE n \in Clients /\ k = "refused" /\ Refused(n, q)'
  BY <1>2 DEF SendsNoMore, In
<1>3. CASE n \in Clients /\ k = "coming" /\ Coming(n, q)'
  BY <1>3 DEF SendsNoMore, In
<1>4. CASE k = "queued" /\ Queued(n, q)'
  BY <1>4 DEF HoldsNoMore, In
<1>5. CASE k = "arrived" /\ Arrived(n, q)'
  BY <1>5 DEF HoldsNoMore, In
<1>6. CASE k = "answering" /\ Answering(n, q)'
  BY <1>6 DEF HoldsNoMore, In
<1> QED BY <1>1, <1>2, <1>3, <1>4, <1>5, <1>6 DEF In

LEMMA Untouched ==
    ASSUME NEW c \in Clients, NEW l, NEW m, NEW p,
           running'[c] = running[c], clientUp'[c] \subseteq clientUp[c], batch'[c] = batch[c],
           link'[c] = link[c], late'[c] = late[c]
    PROVE  SendsNoMore(c, l, m, p)
BY DEF SendsNoMore, Sending, Refused, Coming, Live, Asked, Late, RowsOf

\* A client without a connection sends what it still has to, and nobody answers.
LEMMA Disconnected ==
    ASSUME NEW c \in Clients, NEW l, NEW m, NEW p,
           link'[c].phase \in {"closed", "idle"},
           \A q \in Parities : Live(c, q)' => Live(c, q),
           \A q \in Parities : Late(c, q)' => Sending(c, q)
    PROVE  SendsNoMore(c, l, m, p)
BY DEF SendsNoMore, Sending, Refused, Coming, Asked

LEMMA TablesShrink ==
    ASSUME NEW l, NEW m, NEW p, hostUp' \subseteq hostUp, hostDown' \subseteq hostDown,
           \A n \in Clients : clientDown'[n] \subseteq clientDown[n] /\ holds'[n] \subseteq holds[n]
    PROVE  HoldsNoMore(l, m, p)
BY DEF HoldsNoMore, Queued, Arrived, Answering, Nodes

\* A client that stopped has nothing to send.
LEMMA StopEffect ==
    ASSUME NEW c \in Clients, NEW l, NEW m, NEW p, running'[c] = FALSE,
           link'[c].phase = "closed", \A q \in Parities : Late(c, q)' => Sending(c, q)
    PROVE  SendsNoMore(c, l, m, p)
BY Disconnected DEF Live

LEMMA ClientSendEffect ==
    ASSUME Once, NEW c \in Clients, ClientSend(c), NEW m, NEW p
    PROVE  GrowsBy("none", m, p)
<1> DEFINE listing == IF batch[c] # {} THEN batch[c] ELSE clientUp[c]
           request == IF listing = {} THEN Ping ELSE AsMessage(first_of(listing))
<1>1. listing \subseteq RowsOf(c) /\ listing \in SUBSET UpRow
  BY DEF Once, TypeOK, RowsOf
<1>2. /\ running[c] /\ link[c].phase = "idle"
      /\ UNCHANGED <<clientUp, clientDown, running, holds, hostUp, hostDown, late>>
      /\ link' = [link EXCEPT ![c] =
             [phase |-> "request", request |-> request, reply |-> Pong]]
      /\ batch' = [batch EXCEPT ![c] =
             IF listing = {} THEN {} ELSE listing \ {first_of(listing)}]
  BY DEF ClientSend, host_vars, fault_vars
<1>3. /\ link'[c].phase = "request" /\ link'[c].request = request
      /\ batch'[c] \subseteq listing
  BY <1>2 DEF Once, TypeOK
<1>4. ASSUME NEW q \in Parities, Sending(c, q)'
      PROVE  Sending(c, q)
  <2>1. CASE Live(c, q)'
    BY <1>1, <1>2, <1>3, <2>1 DEF Sending, Live, RowsOf
  <2>2. CASE Asked(c, q)'
    <3>1. request.parity = q
      BY <1>3, <2>2 DEF Asked
    <3>2. listing # {}
      BY <3>1, NamesAssumption DEF Ping
    <3>3. first_of(listing) \in RowsOf(c) /\ first_of(listing).parity = q
      BY <1>1, <3>1, <3>2, FirstOfIsARow DEF AsMessage
    <3> HIDE DEF request, listing
    <3> QED BY <1>2, <3>3 DEF Sending, Live
  <2>3. CASE Late(c, q)'
    BY <1>2, <2>3 DEF Sending, Late
  <2> QED BY <1>4, <2>1, <2>2, <2>3 DEF Sending
<1>5. SendsNoMore(c, "none", m, p)
  BY <1>3, <1>4 DEF SendsNoMore, Refused, Coming
<1>6. \A n \in Clients \ {c} : SendsNoMore(n, "none", m, p)
  BY <1>2, Untouched DEF Once, TypeOK
<1> QED BY <1>2, <1>5, <1>6, TablesShrink, Growth

\* What c has read it does not send again.
LEMMA ReceiveFailureEffect ==
    ASSUME Once, NEW c \in Clients, ReceiveFailure(c), NEW m, NEW p
    PROVE  GrowsBy("none", m, p) /\ \A q \in Parities : ~In("refused", c, q)'
<1>1. /\ running' = [running EXCEPT ![c] = FALSE]
      /\ batch' = [batch EXCEPT ![c] = {}]
      /\ link' = [link EXCEPT ![c] = Closed]
      /\ UNCHANGED <<clientDown, holds, hostUp, hostDown, late>>
      /\ \A n \in Clients \ {c} : clientUp'[n] = clientUp[n]
  BY DEF ReceiveFailure, Stop, host_vars, Once, TypeOK
<1>2. running'[c] = FALSE /\ link'[c].phase = "closed"
  BY <1>1 DEF Once, TypeOK, Closed
<1>3. SendsNoMore(c, "none", m, p)
  BY <1>1, <1>2, StopEffect DEF Late, Sending
<1>4. \A n \in Clients \ {c} : SendsNoMore(n, "none", m, p)
  BY <1>1, Untouched DEF Once, TypeOK
<1> QED BY <1>1, <1>2, <1>3, <1>4, TablesShrink, Growth DEF In, Refused

\* A reply to a request that is not a ping is about that request.
LEMMA ConfirmationEffect ==
    ASSUME Once, NEW c \in Clients, ReceiveConfirmation(c), NEW m, NEW p
    PROVE  GrowsBy("none", m, p)
<1> DEFINE r == link[c].reply.parity
<1>1. /\ link[c].phase = "reply" /\ link[c].reply.kind = "C210"
      /\ link' = [link EXCEPT ![c] = Idle]
      /\ clientUp' = [clientUp EXCEPT ![c] = buffer_up_remove_schedule_by_parity_id(@, c, r)]
      /\ UNCHANGED <<running, batch, clientDown, holds, hostUp, hostDown, late>>
  BY DEF ReceiveConfirmation, host_vars, fault_vars
<1>2. link'[c].phase = "idle"
  BY <1>1 DEF Once, TypeOK, Idle
<1>3. \A row \in clientUp'[c] : row \in clientUp[c] /\ row.parity # r
  BY <1>1 DEF Once, TypeOK, AtClient, Shape, RowsOf, buffer_up_remove_schedule_by_parity_id
<1>4. ASSUME NEW q \in Parities, Live(c, q)'
      PROVE  Live(c, q)
  <2>1. running[c] /\ \E row \in RowsOf(c) : row.parity = q
    BY <1>1, <1>3, <1>4 DEF Live, RowsOf
  <2>2. ASSUME link[c].request.parity = q
        PROVE  FALSE
    <3>1. link[c].request.kind # "C206"
      BY <1>1, <2>2, RequestAt DEF Once
    <3>2. r = q
      BY <1>1, <2>2, <3>1 DEF Once, AtClient, Shape, Confirmation, Refusal
    <3>3. \A row \in batch[c] : row.parity # q
      BY <1>1, <2>2 DEF Once, AtClient, Shape
    <3> QED BY <1>1, <1>3, <1>4, <3>2, <3>3 DEF Live, RowsOf
  <2> QED BY <2>1, <2>2 DEF Live
<1>5. SendsNoMore(c, "none", m, p)
  BY <1>1, <1>2, <1>4, Disconnected DEF Late, Sending
<1>6. \A n \in Clients \ {c} : SendsNoMore(n, "none", m, p)
  BY <1>1, Untouched DEF Once, TypeOK
<1> QED BY <1>1, <1>5, <1>6, TablesShrink, Growth

LEMMA PongEffect ==
    ASSUME Once, NEW c \in Clients, ReceivePong(c), NEW m, NEW p
    PROVE  GrowsBy("none", m, p)
<1>1. /\ link[c].phase = "reply" /\ link[c].reply.kind = "C207"
      /\ link' = [link EXCEPT ![c] = Idle]
      /\ UNCHANGED <<clientUp, running, batch, clientDown, holds, hostUp, hostDown, late>>
  BY DEF ReceivePong, client_vars, host_vars, fault_vars
<1>2. link'[c].phase = "idle"
  BY <1>1 DEF Once, TypeOK, Idle
<1>3. ASSUME NEW q \in Parities, link[c].request.parity = q
      PROVE  FALSE
  <2>1. link[c].request.kind # "C206"
    BY <1>1, <1>3, RequestAt DEF Once
  <2> QED BY <1>1, <2>1 DEF Once, AtClient, Shape, Confirmation, Refusal
<1>4. SendsNoMore(c, "none", m, p)
  BY <1>1, <1>2, <1>3, Disconnected DEF Late, Live, Sending, RowsOf
<1>5. \A n \in Clients \ {c} : SendsNoMore(n, "none", m, p)
  BY <1>1, Untouched DEF Once, TypeOK
<1> QED BY <1>1, <1>4, <1>5, TablesShrink, Growth

\* A command or a response comes with a ping only, and goes to the down table.
LEMMA CommandEffect ==
    ASSUME Once, NEW c \in Clients, ReceiveCommand(c), NEW p, p = link[c].reply.parity
    PROVE  /\ p \in Parities /\ In("coming", c, p) /\ ~In("coming", c, p)'
           /\ GrowsBy("arrived", c, p)
<1> DEFINE row == [client |-> c, parity |-> p, kind |-> link[c].reply.kind]
<1>0. c # Host
  BY NamesAssumption
<1>1. /\ link[c].phase = "reply" /\ link[c].reply.kind \in {"Function", "Response"}
      /\ link' = [link EXCEPT ![c] = Idle]
      /\ clientDown' = [clientDown EXCEPT ![c] = buffer_down_schedule(@, row)]
      /\ UNCHANGED <<clientUp, running, batch, holds, hostUp, hostDown, late>>
  BY DEF ReceiveCommand, host_vars, fault_vars
<1>2. link'[c].phase = "idle"
  BY <1>1 DEF Once, TypeOK, Idle
<1>3. link[c].request.kind = "C206"
  BY <1>1 DEF Once, AtClient, Shape, Confirmation, Refusal
<1>4. p \in Parities /\ link[c].request.parity \notin Parities
  BY <1>1, <1>3, RequestAt, MessageParity DEF Once, TypeOK, Link
<1>5. SendsNoMore(c, "arrived", c, p)
  <2>1. \A q \in Parities : Live(c, q)' => Live(c, q)
    BY <1>1, <1>4 DEF Live, RowsOf
  <2>2. \A q \in Parities : Late(c, q)' => Sending(c, q)
    BY <1>1 DEF Late, Sending
  <2> QED BY <1>2, <2>1, <2>2, Disconnected
<1>6. \A n \in Clients \ {c} : SendsNoMore(n, "arrived", c, p)
  BY <1>1, Untouched DEF Once, TypeOK
<1>7. HoldsNoMore("arrived", c, p)
  <2>1. /\ clientDown'[c] \subseteq clientDown[c] \cup {row}
        /\ \A n \in Clients \ {c} : clientDown'[n] = clientDown[n]
    BY <1>1 DEF Once, TypeOK, buffer_down_schedule
  <2>2. row.parity = p
    OBVIOUS
  <2> HIDE DEF row
  <2> QED BY <1>1, <2>1, <2>2, Zenon DEF HoldsNoMore, Queued, Arrived, Answering, Nodes
<1>8. In("coming", c, p) /\ ~In("coming", c, p)'
  BY <1>1, <1>2, <1>3 DEF In, Coming
<1> QED BY <1>4, <1>5, <1>6, <1>7, <1>8, Growth

\* The transposer of c takes its only row with that parity id.
LEMMA TakenDown ==
    ASSUME Once, NEW c \in Clients, NEW row \in clientDown[c],
           clientDown' = [clientDown EXCEPT ![c] = @ \ {row}]
    PROVE  /\ row.parity \in Parities
           /\ In("arrived", c, row.parity) /\ ~In("arrived", c, row.parity)'
           /\ row.kind = "Function" => order[row.parity].to = c /\ order[row.parity].from # c
           /\ row.kind = "Response" => order[row.parity].from = c /\ order[row.parity].to # c
<1>0. c # Host
  BY NamesAssumption
<1>1. row \in DownRow /\ row.parity \in Parities /\ row.kind \in {"Function", "Response"}
  BY DEF Once, TypeOK, DownRow
<1>2. In("arrived", c, row.parity)
  BY <1>0 DEF In, Arrived
<1>3. Scheduled(row.parity)
  BY <1>1, <1>2, PlaceAt DEF Once, AtClient, Nodes
<1>4. order[row.parity].from # order[row.parity].to
  BY <1>1, <1>3 DEF Once, Distinct
<1>5. \A d \in clientDown[c] :
          IF d.kind = "Function" THEN order[d.parity].to = c ELSE order[d.parity].from = c
  BY DEF Once, RoutedHome, DownAtHome, DeliveryAtHome
<1>6. ASSUME NEW d \in clientDown[c], d.parity = row.parity
      PROVE  d = row
  <2>1. d \in DownRow /\ d.client = c /\ row.client = c
    BY DEF Once, TypeOK, AtClient, Shape
  <2> QED BY <1>1, <1>4, <1>5, <1>6, <2>1 DEF DownRow
<1>7. clientDown'[c] = clientDown[c] \ {row}
  BY DEF Once, TypeOK
<1>8. ~In("arrived", c, row.parity)'
  BY <1>0, <1>6, <1>7 DEF In, Arrived
<1> QED BY <1>1, <1>2, <1>4, <1>5, <1>8

\* The other clients.
LEMMA Elsewhere ==
    ASSUME NEW c \in Clients, AtClient(c), TypeOK,
           clientUp'[c] = clientUp[c], clientDown'[c] = clientDown[c], batch'[c] = batch[c],
           running'[c] = running[c], link'[c] = link[c], late'[c] = late[c],
           holds'[c] = holds[c],
           \A p \in Parities : runs[p] = 1 => runs'[p] = 1,
           \A p \in Parities : Scheduled(p) => order'[p] = order[p]
    PROVE  AtClient(c)'
<1>1. Shape(c)' /\ LateApart(c)' /\ NotBoth(c)' /\ HeldApart(c)'
  BY DEF AtClient, Shape, LateApart, NotBoth, HeldApart, RowsOf, Late, Exchanging
<1>2. Fetched(c)'
  <2>1. Host \notin Clients
    BY NamesAssumption
  <2>2. ASSUME NEW m, m.parity \in Parities, DeliveryAtHome(c, m)
        PROVE  DeliveryAtHome(c, m)'
    BY <2>1, <2>2 DEF DeliveryAtHome, Scheduled, NoOrder
  <2> QED BY <2>2 DEF AtClient, Fetched
<1>3. Written(c)'
  <2>1. \A row \in RowsOf(c) : row.parity \in Parities
    BY DEF RowsOf, TypeOK, UpRow
  <2>2. \A m \in late[c] \cup {link[c].request} : m.kind = "Response" => m.parity \in Parities
    BY MessageParity DEF TypeOK, Link
  <2> QED BY <2>1, <2>2 DEF AtClient, Written, RowsOf
<1> QED BY <1>1, <1>2, <1>3 DEF AtClient

\* Places change by one parity id leaving all its places but one.
LEMMA Placed ==
    ASSUME Once, NEW l, NEW n, NEW p \in Parities, GrowsBy(l, n, p),
           \A k \in Places : \A m \in Nodes : In(k, m, p)' => k = l /\ m = n,
           \A q \in Parities \ {p} :
               order'[q] = order[q] /\ runs'[q] = runs[q] /\ answers'[q] = answers[q],
           In(l, n, p)' => IF Outward(l, n, p)' THEN runs'[p] = 0
                           ELSE runs'[p] = 1 /\ answers'[p] = 0
    PROVE  OneCopy' /\ WhereRuns'
<1>1. OneCopy'
  <2> SUFFICES ASSUME NEW q \in Parities, NEW k \in Places, NEW j \in Places,
                      NEW m \in Nodes, NEW o \in Nodes, In(k, m, q)', In(j, o, q)'
               PROVE  k = j /\ m = o
    BY DEF OneCopy, Nodes
  <2>1. CASE q = p
    BY <2>1
  <2>2. CASE q # p
    BY <2>2 DEF GrowsBy, Once, OneCopy
  <2> QED BY <2>1, <2>2
<1>2. WhereRuns'
  <2> SUFFICES ASSUME NEW q \in Parities, NEW k \in Places, NEW m \in Nodes, In(k, m, q)'
               PROVE  IF Outward(k, m, q)' THEN runs'[q] = 0 ELSE runs'[q] = 1 /\ answers'[q] = 0
    BY DEF WhereRuns, Nodes
  <2>1. CASE q = p
    BY <2>1
  <2>2. CASE q # p
    <3>1. In(k, m, q)
      BY <2>2 DEF GrowsBy
    <3>2. Outward(k, m, q)' = Outward(k, m, q)
      BY <2>2 DEF Outward
    <3> QED BY <2>2, <3>1, <3>2 DEF Once, WhereRuns
  <2> QED BY <2>1, <2>2
<1> QED BY <1>1, <1>2

\* Nothing comes to a new place.
LEMMA Dropped ==
    ASSUME Once, NEW n, NEW p, GrowsBy("none", n, p), UNCHANGED <<order, runs, answers>>
    PROVE  OneCopy' /\ WhereRuns'
<1>1. \A k \in Places : \A m \in Nodes : \A q \in Parities : In(k, m, q)' => In(k, m, q)
  BY DEF GrowsBy, Places
<1>2. OneCopy'
  BY <1>1 DEF Once, OneCopy, Nodes
<1>3. \A k, m, q : Outward(k, m, q)' = Outward(k, m, q)
  BY DEF Outward
<1>4. WhereRuns'
  BY <1>1, <1>3 DEF Once, WhereRuns, Nodes
<1> QED BY <1>2, <1>4

\* The invariant but for the types and the routes.
Copies ==
    /\ \A c \in Clients : AtClient(c)
    /\ Distinct /\ Functions /\ Counted
    /\ OneCopy /\ WhereRuns

\* A step that schedules nothing and changes nothing of what nobody has scheduled.
LEMMA StaysDistinct ==
    ASSUME Distinct, UNCHANGED order,
           \A p \in Parities : ~Scheduled(p) =>
               runs'[p] = runs[p] /\ answers'[p] = answers[p] /\ closed'[p] = closed[p]
    PROVE  Distinct'
BY DEF Distinct, Scheduled

LEMMA Ended ==
    ASSUME NEW parities, NEW ending, End(parities, ending),
           \A q \in Parities : q \in parities => Scheduled(q)
    PROVE  \A q \in Parities : ~Scheduled(q) => closed'[q] = closed[q]
BY DEF End

\* Whatever is in the two tables of a client has been scheduled.
LEMMA RowInTables ==
    ASSUME Once, NEW c \in Clients, NEW q,
           q \in ParitiesOf(clientUp[c]) \cup ParitiesOf(clientDown[c])
    PROVE  Scheduled(q)
<1>1. Host \notin Clients
  BY NamesAssumption
<1>2. CASE q \in ParitiesOf(clientUp[c])
  BY <1>1, <1>2, RowAt
     DEF ParitiesOf, Once, RowsOf, OwnCommand, OwnResponse, Scheduled, NoOrder
<1>3. CASE q \in ParitiesOf(clientDown[c])
  <2>1. q \in Parities /\ In("arrived", c, q)
    BY <1>1, <1>3 DEF ParitiesOf, In, Arrived, Once, TypeOK, DownRow
  <2> QED BY <2>1, PlaceAt DEF Once, AtClient, Nodes
<1> QED BY <1>2, <1>3
-------------------------------------------------------------------------------
(* The steps of the client.                                                *)

LEMMA ClientSendStep ==
    ASSUME Once, NEW c \in Clients, ClientSend(c)
    PROVE  Copies'
<1> DEFINE listing == IF batch[c] # {} THEN batch[c] ELSE clientUp[c]
           request == IF listing = {} THEN Ping ELSE AsMessage(first_of(listing))
<1>1. /\ UNCHANGED <<clientUp, clientDown, running, holds, hostUp, hostDown, late, order,
                     runs, answers, closed>>
      /\ \A d \in Clients \ {c} : link'[d] = link[d] /\ batch'[d] = batch[d]
      /\ link'[c] = [phase |-> "request", request |-> request, reply |-> Pong]
      /\ batch'[c] = IF listing = {} THEN {} ELSE listing \ {first_of(listing)}
      /\ running[c]
  BY DEF ClientSend, host_vars, fault_vars, history_vars, Once, TypeOK
<1>2. \A d \in Clients \ {c} : AtClient(d)'
  BY <1>1, Elsewhere DEF Once
<1>3. listing \subseteq RowsOf(c) /\ listing \in SUBSET UpRow
  BY DEF Once, TypeOK, RowsOf
<1>4. /\ listing = {} => request = Ping
      /\ listing # {} => /\ first_of(listing) \in listing
                         /\ request.kind = first_of(listing).kind
                         /\ request.parity = first_of(listing).parity
  BY <1>3, FirstOfIsARow DEF AsMessage
<1> HIDE DEF request
<1>5. RowsOf(c)' \subseteq RowsOf(c)
  BY <1>1, <1>3 DEF RowsOf
<1>6. batch'[c] \subseteq listing
  BY <1>1
<1>7. \A row \in batch'[c] : row.parity # request.parity
  BY <1>1, <1>3, <1>4 DEF Once, AtClient, Shape
<1>8. Shape(c)'
  BY <1>1, <1>5, <1>7 DEF Once, AtClient, Shape
<1>9. Fetched(c)' /\ NotBoth(c)'
  BY <1>1 DEF Fetched, NotBoth, Once, AtClient
<1> HIDE DEF listing
<1>10. Written(c)'
  BY <1>1, <1>3, <1>4, <1>5 DEF Once, AtClient, Written, Ping
<1>11. LateApart(c)'
  <2>1. ASSUME NEW p \in Parities, Late(c, p)
        PROVE  \A row \in RowsOf(c) : row.parity # p
    BY <1>1, <2>1 DEF Once, AtClient, LateApart, RowsOf
  <2>2. request.parity \in Parities => \E row \in RowsOf(c) : row.parity = request.parity
    BY <1>3, <1>4, NamesAssumption DEF Ping
  <2> QED BY <1>1, <1>5, <2>1, <2>2 DEF LateApart, Late, Exchanging, RowsOf
<1>12. HeldApart(c)'
  <2>1. ASSUME NEW p \in holds[c]
        PROVE  /\ p \in Parities /\ holds[c] = {p}
               /\ \A row \in RowsOf(c) : row.parity # p
    BY <2>1 DEF Once, TypeOK, AtClient, HeldApart
  <2>2. request.parity \in Parities => \E row \in RowsOf(c) : row.parity = request.parity
    BY <1>3, <1>4, NamesAssumption DEF Ping
  <2> QED BY <1>1, <1>5, <2>1, <2>2 DEF HeldApart, Exchanging
<1>13. Distinct' /\ Functions' /\ Counted'
  BY <1>1, StaysDistinct DEF Once, Functions, Counted
<1>14. OneCopy' /\ WhereRuns'
  BY <1>1, ClientSendEffect, Dropped
<1> QED BY <1>2, <1>8, <1>9, <1>10, <1>11, <1>12, <1>13, <1>14 DEF Copies, AtClient

LEMMA ReceiveFailureStep ==
    ASSUME Once, NEW c \in Clients, ReceiveFailure(c)
    PROVE  Copies'
<1> DEFINE p == link[c].reply.parity
<1>1. /\ UNCHANGED <<clientDown, holds, hostUp, hostDown, late, order, runs, answers>>
      /\ \A d \in Clients \ {c} : /\ link'[d] = link[d] /\ batch'[d] = batch[d]
                                  /\ running'[d] = running[d] /\ clientUp'[d] = clientUp[d]
      /\ link'[c] = Closed /\ batch'[c] = {} /\ ~running'[c]
      /\ clientUp'[c] \subseteq clientUp[c]
      /\ \E ending : End({p}, ending)
  BY DEF ReceiveFailure, Stop, host_vars, Once, TypeOK, buffer_up_remove_schedule_by_parity_id
<1>2. \A d \in Clients \ {c} : AtClient(d)'
  BY <1>1, Elsewhere DEF Once
<1>3. AtClient(c)'
  BY <1>1 DEF Once, AtClient, Shape, Fetched, Written, LateApart, NotBoth, HeldApart, RowsOf,
              Late, Exchanging, Closed
<1>4. p \in Parities => Scheduled(p)
  <2> SUFFICES ASSUME p \in Parities
               PROVE  \E k \in Places : In(k, c, p)
    BY PlaceAt DEF Once, AtClient, Nodes
  <2>1. link[c].phase = "reply" /\ link[c].reply.kind = "Failure"
    BY DEF ReceiveFailure
  <2>2. CASE link[c].request.kind = "C206"
    BY <2>1, <2>2 DEF In, Coming, Places
  <2>3. CASE link[c].request.kind # "C206"
    BY <2>1, <2>3
       DEF In, Refused, Places, Once, AtClient, Shape, Confirmation, Refusal
  <2> QED BY <2>2, <2>3
<1>5. \A q \in Parities : ~Scheduled(q) => closed'[q] = closed[q]
  BY <1>1, <1>4, Ended
<1>6. Distinct' /\ Functions' /\ Counted'
  BY <1>1, <1>5, StaysDistinct DEF Once, Functions, Counted
<1>7. OneCopy' /\ WhereRuns'
  BY <1>1, ReceiveFailureEffect, Dropped
<1> QED BY <1>2, <1>3, <1>6, <1>7 DEF Copies

LEMMA ReceiveReplyStep ==
    ASSUME Once, NEW c \in Clients, ReceiveConfirmation(c) \/ ReceivePong(c)
    PROVE  Copies'
<1>1. /\ UNCHANGED <<clientDown, batch, running, holds, hostUp, hostDown, late, order, runs,
                     answers, closed>>
      /\ \A d \in Clients \ {c} : link'[d] = link[d] /\ clientUp'[d] = clientUp[d]
      /\ link'[c] = Idle
      /\ clientUp'[c] \subseteq clientUp[c]
      /\ link[c].phase = "reply"
  BY DEF ReceiveConfirmation, ReceivePong, client_vars, host_vars, fault_vars, history_vars,
         Once, TypeOK, buffer_up_remove_schedule_by_parity_id
<1>2. \A d \in Clients \ {c} : AtClient(d)'
  BY <1>1, Elsewhere DEF Once
<1>3. AtClient(c)'
  BY <1>1 DEF Once, AtClient, Shape, Fetched, Written, LateApart, NotBoth, HeldApart, RowsOf,
              Late, Exchanging, Idle
<1>4. Distinct' /\ Functions' /\ Counted'
  BY <1>1, StaysDistinct DEF Once, Functions, Counted
<1>5. OneCopy' /\ WhereRuns'
  BY <1>1, ConfirmationEffect, PongEffect, Dropped
<1> QED BY <1>2, <1>3, <1>4, <1>5 DEF Copies

LEMMA Moved ==
    ASSUME Once, NEW k \in Places, NEW m \in Nodes, NEW l, NEW n, NEW p \in Parities,
           In(k, m, p), ~In(k, m, p)', GrowsBy(l, n, p), UNCHANGED order,
           \A q \in Parities \ {p} : runs'[q] = runs[q] /\ answers'[q] = answers[q],
           In(l, n, p)' => IF Outward(l, n, p) THEN runs'[p] = 0
                           ELSE runs'[p] = 1 /\ answers'[p] = 0
    PROVE  OneCopy' /\ WhereRuns'
<1>1. ASSUME NEW j \in Places, NEW o \in Nodes, In(j, o, p)'
      PROVE  j = l /\ o = n
  BY <1>1 DEF GrowsBy, Once, OneCopy
<1>2. Outward(l, n, p)' = Outward(l, n, p)
  BY DEF Outward
<1> QED BY <1>1, <1>2, Placed

\* A message that goes on to a place of the same way.
LEMMA Carried ==
    ASSUME Once, NEW k \in Places, NEW m \in Nodes, NEW l, NEW n, NEW p \in Parities,
           In(k, m, p), ~In(k, m, p)', GrowsBy(l, n, p), UNCHANGED <<order, runs, answers>>,
           Outward(k, m, p) = Outward(l, n, p)
    PROVE  OneCopy' /\ WhereRuns'
<1>1. IF Outward(l, n, p) THEN runs'[p] = 0 ELSE runs'[p] = 1 /\ answers'[p] = 0
  BY DEF Once, WhereRuns
<1> QED BY <1>1, Moved

LEMMA ReceiveCommandStep ==
    ASSUME Once, NEW c \in Clients, ReceiveCommand(c)
    PROVE  Copies'
<1> SUFFICES ASSUME NEW p, p = link[c].reply.parity
             PROVE  Copies'
  OBVIOUS
<1> DEFINE row == [client |-> c, parity |-> p, kind |-> link[c].reply.kind]
<1>1. /\ UNCHANGED <<clientUp, batch, running, holds, hostUp, hostDown, late, order, runs,
                     answers, closed>>
      /\ \A d \in Clients \ {c} : link'[d] = link[d] /\ clientDown'[d] = clientDown[d]
      /\ link'[c] = Idle
      /\ clientDown'[c] \subseteq clientDown[c] \cup {row}
      /\ link[c].phase = "reply" /\ link[c].reply.kind \in {"Function", "Response"}
  BY DEF ReceiveCommand, host_vars, fault_vars, history_vars, Once, TypeOK, buffer_down_schedule
<1>2. \A d \in Clients \ {c} : AtClient(d)'
  BY <1>1, Elsewhere DEF Once
<1>3. p \in Parities /\ In("coming", c, p) /\ ~In("coming", c, p)' /\ GrowsBy("arrived", c, p)
  BY CommandEffect
<1>4. ~In("sending", c, p)
  BY <1>3 DEF Once, OneCopy, Places, Nodes
<1>5. \A r \in clientUp[c] : r.parity # p
  <2>1. link[c].request.parity # p
    <3>1. link[c].request.kind = "C206"
      BY <1>1 DEF Once, AtClient, Shape, Confirmation, Refusal
    <3> QED BY <1>1, <1>3, <3>1, RequestAt DEF Once
  <2>2. running[c]
    BY <1>1 DEF Once, AtClient, Shape
  <2> QED BY <1>4, <2>1, <2>2 DEF In, Sending, Live, RowsOf
<1>6. NotBoth(c)'
  <2>1. row.parity = p
    OBVIOUS
  <2> HIDE DEF row
  <2> QED BY <1>1, <1>5, <2>1 DEF Once, AtClient, NotBoth
<1>7. Shape(c)'
  <2>1. row.client = c
    OBVIOUS
  <2> HIDE DEF row
  <2> QED BY <1>1, <2>1 DEF Once, AtClient, Shape, RowsOf, Idle
<1>8. Fetched(c)' /\ Written(c)' /\ LateApart(c)' /\ HeldApart(c)'
  BY <1>1 DEF Once, AtClient, Fetched, Written, LateApart, HeldApart, RowsOf, Late, Exchanging,
              Idle
<1>9. Distinct' /\ Functions' /\ Counted'
  BY <1>1, StaysDistinct DEF Once, Functions, Counted
<1>10. OneCopy' /\ WhereRuns'
  <2>1. Outward("coming", c, p) = Outward("arrived", c, p)
    BY DEF Outward
  <2>2. "coming" \in Places /\ c \in Nodes
    BY DEF Places, Nodes
  <2> QED BY <1>1, <1>3, <2>1, <2>2, Carried
<1> QED BY <1>2, <1>6, <1>7, <1>8, <1>9, <1>10 DEF Copies, AtClient

\* A command that waits in the down table is not taken for a duplicate: its handler
\* runs, for the first time.
Ran(c, row, responds) ==
    /\ row.parity \in Parities
    /\ runs[row.parity] = 0 /\ answers[row.parity] = 0
    /\ runs' = [runs EXCEPT ![row.parity] = 1]
    /\ clientDown' = [clientDown EXCEPT ![c] = @ \ {row}]
    /\ holds[c] = {}
    /\ IF responds
       THEN holds' = [holds EXCEPT ![c] = {row.parity}] /\ UNCHANGED closed
       ELSE End({row.parity}, "muted") /\ UNCHANGED holds
    /\ UNCHANGED <<answers, clientUp, nextId, batch, running, alive, hostUp, hostDown, tasks,
                   status, link, orphans, late, faults, order>>

LEMMA ProcessFunctionEffect ==
    ASSUME Once, NEW c \in Clients, NEW row \in clientDown[c], NEW responds \in BOOLEAN,
           ProcessFunction(c, row, responds)
    PROVE  Ran(c, row, responds)
<1>1. check_if_parity_id_is_registered(clientUp[c], row.parity, c)
  BY DEF check_if_parity_id_is_registered, Once, AtClient, NotBoth
<1>2. row.parity \in Parities /\ order[row.parity].to = c /\ In("arrived", c, row.parity)
  BY TakenDown DEF ProcessFunction
<1>3. runs[row.parity] = 0
  BY <1>2 DEF Once, WhereRuns, Outward, Places, Nodes
<1>4. answers[row.parity] = 0
  BY <1>2, <1>3 DEF Once, Counted
<1> QED BY <1>1, <1>2, <1>3, <1>4
        DEF Ran, ProcessFunction, Free, host_vars, fault_vars

LEMMA ProcessFunctionStep ==
    ASSUME Once, NEW c \in Clients, NEW row \in clientDown[c], NEW responds \in BOOLEAN,
           ProcessFunction(c, row, responds)
    PROVE  /\ Copies'
           /\ In("arrived", c, row.parity) /\ ~In("arrived", c, row.parity)'
           /\ GrowsBy("answering", c, row.parity)
<1> DEFINE p == row.parity
<1>1. /\ p \in Parities /\ runs[p] = 0 /\ answers[p] = 0 /\ runs' = [runs EXCEPT ![p] = 1]
      /\ UNCHANGED <<answers, clientUp, batch, running, hostUp, hostDown, link, late, order>>
      /\ clientDown' = [clientDown EXCEPT ![c] = @ \ {row}]
      /\ clientDown'[c] \subseteq clientDown[c] /\ holds'[c] \subseteq {p}
      /\ \A d \in Clients \ {c} : clientDown'[d] = clientDown[d] /\ holds'[d] = holds[d]
      /\ closed' = closed \/ End({p}, "muted")
      /\ runs'[p] = 1 /\ \A q \in Parities \ {p} : runs'[q] = runs[q]
  <2>1. TypeOK /\ Ran(c, row, responds)
    BY ProcessFunctionEffect DEF Once
  <2> QED BY <2>1 DEF TypeOK, Ran
<1>2. /\ In("arrived", c, p) /\ ~In("arrived", c, p)'
      /\ order[p].to = c /\ order[p].from # c
  BY <1>1, TakenDown DEF ProcessFunction
<1>3. Scheduled(p)
  BY <1>1, <1>2, PlaceAt DEF Nodes, Once, AtClient
<1> HIDE DEF p
<1>4. \A r \in RowsOf(c) : r.parity # p
  BY <1>1, <1>2, RowAt DEF Once, AtClient, Written, OwnCommand, OwnResponse
<1>5. ~Exchanging(c, p)
  <2> SUFFICES ASSUME Exchanging(c, p)
               PROVE  FALSE
    OBVIOUS
  <2>1. OwnCommand(c, link[c].request) \/ OwnResponse(c, link[c].request)
    BY <1>1, RequestAt DEF Once, Exchanging
  <2> QED BY <1>1, <1>2, <2>1 DEF Once, AtClient, Written, Exchanging, OwnCommand, OwnResponse
<1>6. AtClient(c)'
  <2>1. Shape(c)' /\ LateApart(c)' /\ NotBoth(c)'
    BY <1>1 DEF Once, AtClient, Shape, LateApart, NotBoth, RowsOf, Late, Exchanging
  <2>2. Fetched(c)'
    BY <1>1 DEF Once, AtClient, Fetched, DeliveryAtHome
  <2>3. Written(c)'
    <3>1. ASSUME NEW q, runs[q] = 1, q \in Parities
          PROVE  runs'[q] = 1
      BY <1>1, <3>1
    <3>2. \A m \in late[c] \cup {link[c].request} :
              m.kind = "Response" => m.parity \in Parities
      BY MessageParity DEF Once, TypeOK, Link
    <3>3. \A r \in RowsOf(c) : r.parity \in Parities
      BY DEF Once, TypeOK, RowsOf, UpRow
    <3> QED BY <1>1, <3>1, <3>2, <3>3 DEF Once, AtClient, Written, RowsOf
  <2>4. HeldApart(c)'
    BY <1>1, <1>4, <1>5 DEF HeldApart, RowsOf, Exchanging
  <2> QED BY <2>1, <2>2, <2>3, <2>4 DEF AtClient
<1>7. \A d \in Clients \ {c} : AtClient(d)'
  BY <1>1, Elsewhere DEF Once
<1>8. Functions' /\ Counted'
  BY <1>1 DEF Once, Functions, Counted, TypeOK
<1>9. Distinct'
  <2>1. \A q \in Parities : ~Scheduled(q) => closed'[q] = closed[q]
    BY <1>1, <1>3, Ended
  <2> QED BY <1>1, <1>3, <2>1, StaysDistinct DEF Once
<1>10. GrowsBy("answering", c, p)
  <2>1. \A n \in Clients : SendsNoMore(n, "answering", c, p)
    BY <1>1, Untouched
  <2>2. HoldsNoMore("answering", c, p)
    BY <1>1, <1>2 DEF HoldsNoMore, Queued, Arrived, Answering, Nodes
  <2> QED BY <2>1, <2>2, Growth
<1>11. OneCopy' /\ WhereRuns'
  <2>1. ~Outward("answering", c, p) /\ answers'[p] = 0
    BY <1>1, <1>2 DEF Outward
  <2>2. "arrived" \in Places /\ c \in Nodes
    BY DEF Places, Nodes
  <2> QED BY <1>1, <1>2, <1>10, <2>1, <2>2, Moved
<1> QED BY <1>2, <1>6, <1>7, <1>8, <1>9, <1>10, <1>11 DEF Copies, p

\* What the transposer holds goes to the up table, and becomes a row of its own there.
LEMMA QueueAnswerStep ==
    ASSUME Once, NEW c \in Clients, QueueAnswer(c)
    PROVE  /\ Copies'
           /\ \E p \in holds[c] :
                /\ In("answering", c, p) /\ ~In("answering", c, p)'
                /\ GrowsBy("sending", c, p)
<1> SUFFICES ASSUME NEW p \in holds[c],
                    clientUp' = [clientUp EXCEPT ![c] = buffer_up_schedule(@,
                        [id |-> nextId[c], client |-> c, parity |-> p,
                         kind |-> "Response", target |-> Origin])]
             PROVE  /\ Copies'
                    /\ In("answering", c, p) /\ ~In("answering", c, p)'
                    /\ GrowsBy("sending", c, p)
  BY DEF QueueAnswer
<1> DEFINE response == [id |-> nextId[c], client |-> c, parity |-> p,
                        kind |-> "Response", target |-> Origin]
<1>1. /\ UNCHANGED <<clientDown, batch, running, hostUp, hostDown, link, late, order, runs,
                     answers, closed>>
      /\ clientUp'[c] = clientUp[c] \cup {response}
      /\ holds'[c] = {}
      /\ \A d \in Clients \ {c} : clientUp'[d] = clientUp[d] /\ holds'[d] = holds[d]
      /\ p \in Parities
  BY DEF QueueAnswer, host_vars, fault_vars, history_vars, buffer_up_schedule, Once, TypeOK
<1>2. response.parity = p /\ response.kind = "Response" /\ response.client = c
  OBVIOUS
<1> HIDE DEF response
<1>3. In("answering", c, p) /\ ~In("answering", c, p)'
  BY <1>1 DEF In, Answering
<1>4. /\ ~In("sending", c, p) /\ ~In("arrived", c, p) /\ ~Exchanging(c, p)
      /\ \A r \in RowsOf(c) : r.parity # p
      /\ order[p].to = c /\ order[p].from # c
  <2>1. order[p].to = c
    BY DEF Once, RoutedHome, HoldsAtHome
  <2>2. Scheduled(p)
    BY <1>1, <1>3, PlaceAt DEF Nodes, Once, AtClient
  <2> QED BY <1>1, <1>3, <2>1, <2>2
          DEF Once, OneCopy, Places, Nodes, AtClient, HeldApart, Distinct
<1>5. runs[p] = 1 /\ answers[p] = 0
  <2>1. "answering" \in Places /\ c \in Nodes /\ ~Outward("answering", c, p)
    BY <1>4 DEF Outward, Places, Nodes
  <2> QED BY <1>1, <1>3, <2>1 DEF Once, WhereRuns
<1>6. RowsOf(c)' = RowsOf(c) \cup {response}
  BY <1>1 DEF RowsOf
<1>7. AtClient(c)'
  <2>1. Shape(c)'
    BY <1>1, <1>2, <1>4, <1>6 DEF Once, AtClient, Shape
  <2>2. Fetched(c)'
    BY <1>1 DEF Once, AtClient, Fetched, DeliveryAtHome
  <2>3. Written(c)'
    BY <1>1, <1>2, <1>5, <1>6 DEF Once, AtClient, Written
  <2>4. LateApart(c)'
    BY <1>1, <1>2, <1>4 DEF Once, AtClient, LateApart, Late, Exchanging, In, Sending
  <2>5. NotBoth(c)'
    <3>1. \A d \in clientDown[c] : d.parity # p
      BY <1>4, NamesAssumption DEF In, Arrived
    <3> QED BY <1>1, <1>2, <3>1 DEF Once, AtClient, NotBoth
  <2>6. HeldApart(c)'
    BY <1>1 DEF HeldApart
  <2> QED BY <2>1, <2>2, <2>3, <2>4, <2>5, <2>6 DEF AtClient
<1>8. \A d \in Clients \ {c} : AtClient(d)'
  BY <1>1, Elsewhere DEF Once
<1>9. Distinct' /\ Functions' /\ Counted'
  BY <1>1, StaysDistinct DEF Once, Functions, Counted
<1>10. GrowsBy("sending", c, p)
  <2>1. SendsNoMore(c, "sending", c, p)
    BY <1>1, <1>2, <1>6 DEF SendsNoMore, Sending, Live, Asked, Late, Refused, Coming
  <2>2. \A n \in Clients \ {c} : SendsNoMore(n, "sending", c, p)
    BY <1>1, Untouched
  <2>3. HoldsNoMore("sending", c, p)
    BY <1>1, TablesShrink
  <2> QED BY <2>1, <2>2, <2>3, Growth
<1>11. OneCopy' /\ WhereRuns'
  <2>1. "answering" \in Places /\ c \in Nodes
        /\ Outward("answering", c, p) = Outward("sending", c, p)
    BY DEF Places, Nodes, Outward
  <2> QED BY <1>1, <1>3, <1>10, <2>1, Carried
<1> QED BY <1>3, <1>7, <1>8, <1>9, <1>10, <1>11 DEF Copies

\* What a transposer holds when it ends has been scheduled.
LEMMA TransposerPanicStep ==
    ASSUME Once, NEW c \in Clients, TransposerPanic(c)
    PROVE  Copies' /\ GrowsBy("none", c, c)
<1>1. /\ UNCHANGED <<clientUp, clientDown, batch, running, hostUp, hostDown, link, late, order,
                     runs, answers>>
      /\ holds'[c] = {} /\ \A d \in Clients \ {c} : holds'[d] = holds[d]
      /\ End(holds[c], "lost")
  BY DEF TransposerPanic, host_vars, Once, TypeOK
<1>2. \A d \in Clients \ {c} : AtClient(d)'
  BY <1>1, Elsewhere DEF Once
<1>3. AtClient(c)'
  BY <1>1 DEF Once, AtClient, Shape, Fetched, Written, LateApart, NotBoth, HeldApart, RowsOf,
              Late, Exchanging, DeliveryAtHome
<1>4. \A q \in Parities : q \in holds[c] => Scheduled(q)
  BY PlaceAt DEF In, Answering, Nodes, Once, AtClient
<1>5. \A q \in Parities : ~Scheduled(q) => closed'[q] = closed[q]
  BY <1>1, <1>4, Ended
<1>6. Distinct' /\ Functions' /\ Counted'
  BY <1>1, <1>5, StaysDistinct DEF Once, Functions, Counted
<1>7. GrowsBy("none", c, c)
  <2>1. \A n \in Clients : SendsNoMore(n, "none", c, c)
    BY <1>1, Untouched
  <2>2. HoldsNoMore("none", c, c)
    BY <1>1, TablesShrink
  <2> QED BY <2>1, <2>2, Growth
<1>8. OneCopy' /\ WhereRuns'
  BY <1>1, <1>7, Dropped
<1> QED BY <1>2, <1>3, <1>6, <1>7, <1>8 DEF Copies

\* A response that waits in the down table is taken by the response handler, for the
\* first time.
Taken(c, row) ==
    /\ row.parity \in Parities /\ Scheduled(row.parity)
    /\ runs[row.parity] = 1 /\ answers[row.parity] = 0
    /\ answers' = [answers EXCEPT ![row.parity] = 1]
    /\ clientDown' = [clientDown EXCEPT ![c] = @ \ {row}]
    /\ UNCHANGED <<clientUp, batch, running, alive, holds, hostUp, hostDown, tasks, status,
                   nextId, link, orphans, late, faults, order, runs, closed>>

LEMMA ProcessResponseEffect ==
    ASSUME Once, NEW c \in Clients, NEW row \in clientDown[c], ProcessResponse(c, row)
    PROVE  Taken(c, row)
<1>1. check_if_parity_id_is_registered(clientUp[c], row.parity, c)
  BY DEF check_if_parity_id_is_registered, Once, AtClient, NotBoth
<1>2. /\ row.parity \in Parities /\ In("arrived", c, row.parity)
      /\ order[row.parity].from = c /\ order[row.parity].to # c
  BY TakenDown DEF ProcessResponse
<1>3. "arrived" \in Places /\ c \in Nodes /\ ~Outward("arrived", c, row.parity)
  BY <1>2 DEF Outward, Places, Nodes
<1>4. runs[row.parity] = 1 /\ answers[row.parity] = 0
  BY <1>2, <1>3 DEF Once, WhereRuns
<1>5. Scheduled(row.parity)
  BY <1>2, <1>3, PlaceAt DEF Once, AtClient
<1> QED BY <1>1, <1>2, <1>4, <1>5 DEF Taken, ProcessResponse, host_vars, fault_vars

LEMMA ProcessResponseStep ==
    ASSUME Once, NEW c \in Clients, NEW row \in clientDown[c], ProcessResponse(c, row)
    PROVE  /\ Copies'
           /\ In("arrived", c, row.parity) /\ ~In("arrived", c, row.parity)'
           /\ GrowsBy("none", c, row.parity)
<1> DEFINE p == row.parity
<1>1. Taken(c, row) /\ TypeOK
  BY ProcessResponseEffect DEF Once
<1>2. /\ p \in Parities /\ Scheduled(p) /\ runs[p] = 1
      /\ UNCHANGED <<clientUp, batch, running, holds, hostUp, hostDown, link, late, order, runs,
                     closed>>
      /\ \A d \in Clients \ {c} : clientDown'[d] = clientDown[d]
      /\ clientDown'[c] \subseteq clientDown[c]
      /\ answers'[p] = 1 /\ \A q \in Parities \ {p} : answers'[q] = answers[q]
  BY <1>1 DEF Taken, TypeOK
<1>3. In("arrived", c, p) /\ ~In("arrived", c, p)'
  BY <1>1, TakenDown DEF Taken
<1>4. AtClient(c)'
  BY <1>2 DEF Once, AtClient, Shape, Fetched, Written, LateApart, NotBoth, HeldApart, RowsOf,
              Late, Exchanging, DeliveryAtHome
<1>5. \A d \in Clients \ {c} : AtClient(d)'
  BY <1>2, Elsewhere DEF Once
<1>6. Distinct' /\ Functions' /\ Counted'
  BY <1>2, StaysDistinct DEF Once, Functions, Counted
<1>7. GrowsBy("none", c, p)
  <2>1. \A n \in Clients : SendsNoMore(n, "none", c, p)
    BY <1>2, Untouched
  <2>2. HoldsNoMore("none", c, p)
    BY <1>2, TablesShrink
  <2> QED BY <2>1, <2>2, Growth
<1>8. OneCopy' /\ WhereRuns'
  <2>1. "arrived" \in Places /\ c \in Nodes /\ ~In("none", c, p)'
    BY DEF Places, Nodes, In
  <2> HIDE DEF p
  <2> QED BY <1>2, <1>3, <1>7, <2>1, Moved
<1> QED BY <1>3, <1>4, <1>5, <1>6, <1>7, <1>8 DEF Copies

LEMMA ClientExpireStep ==
    ASSUME Once, NEW c \in Clients, NEW row \in clientUp[c] \cup clientDown[c],
           ClientExpire(c, row)
    PROVE  Copies' /\ GrowsBy("none", c, c)
<1>1. /\ UNCHANGED <<batch, running, holds, hostUp, hostDown, link, late, order, runs, answers>>
      /\ \A d \in Clients \ {c} : clientUp'[d] = clientUp[d] /\ clientDown'[d] = clientDown[d]
      /\ clientUp'[c] \subseteq clientUp[c] /\ clientDown'[c] \subseteq clientDown[c]
      /\ End({row.parity}, "lost")
  BY DEF ClientExpire, host_vars, Once, TypeOK
<1>2. \A d \in Clients \ {c} : AtClient(d)'
  BY <1>1, Elsewhere DEF Once
<1>3. AtClient(c)'
  BY <1>1 DEF Once, AtClient, Shape, Fetched, Written, LateApart, NotBoth, HeldApart, RowsOf,
              Late, Exchanging, DeliveryAtHome
<1>4. Scheduled(row.parity)
  BY RowInTables DEF Once, ParitiesOf
<1>5. \A q \in Parities : ~Scheduled(q) => closed'[q] = closed[q]
  BY <1>1, <1>4, Ended
<1>6. Distinct' /\ Functions' /\ Counted'
  BY <1>1, <1>5, StaysDistinct DEF Once, Functions, Counted
<1>7. GrowsBy("none", c, c)
  <2>1. \A n \in Clients : SendsNoMore(n, "none", c, c)
    BY <1>1, Untouched
  <2>2. HoldsNoMore("none", c, c)
    BY <1>1, TablesShrink
  <2> QED BY <2>1, <2>2, Growth
<1>8. OneCopy' /\ WhereRuns'
  BY <1>1, <1>7, Dropped
<1> QED BY <1>2, <1>3, <1>6, <1>7, <1>8 DEF Copies

\* Nothing is anywhere of a parity id that nobody has scheduled.
LEMMA ScheduleStep ==
    ASSUME Once, NEW c \in Clients, NEW p \in Parities, NEW target \in Clients \cup {Host},
           Schedule(c, p, target)
    PROVE  Copies' /\ GrowsBy("sending", c, p)
<1> DEFINE row == [id |-> nextId[c], client |-> c, parity |-> p,
                   kind |-> "Function", target |-> target]
<1>0. Host \notin Clients
  BY NamesAssumption
<1>1. /\ UNCHANGED <<clientDown, batch, running, holds, hostUp, hostDown, link, late, runs,
                     answers, closed>>
      /\ \A d \in Clients \ {c} : clientUp'[d] = clientUp[d]
      /\ clientUp'[c] = clientUp[c] \cup {row}
      /\ ~Scheduled(p) /\ target # c
      /\ order'[p].from = c /\ order'[p].to = target
      /\ \A q \in Parities \ {p} : order'[q] = order[q]
  BY DEF Schedule, host_vars, fault_vars, Once, TypeOK, buffer_up_schedule
<1>2. row.client = c /\ row.parity = p /\ row.kind = "Function"
  OBVIOUS
<1>3. \A k, n : n \in Nodes => ~In(k, n, p)
  BY <1>1, PlaceAt DEF Once, AtClient
<1>4. \A n \in Clients : \A r \in RowsOf(n) : r.parity # p
  BY <1>0, <1>1, RowAt DEF Once, OwnCommand, OwnResponse, Scheduled, NoOrder
<1>5. runs[p] = 0 /\ answers[p] = 0 /\ closed[p] = {}
  BY <1>1 DEF Once, Distinct
<1> HIDE DEF row
<1>6. RowsOf(c)' = RowsOf(c) \cup {row}
  BY <1>1 DEF RowsOf
<1>7. ASSUME NEW q \in Parities, Scheduled(q)
      PROVE  order'[q] = order[q]
  BY <1>1, <1>7
<1>8. \A d \in Clients \ {c} : AtClient(d)'
  BY <1>1, <1>7, Elsewhere DEF Once
<1>9. AtClient(c)'
  <2>1. Shape(c)'
    BY <1>1, <1>2, <1>4, <1>6 DEF Once, AtClient, Shape
  <2>2. Fetched(c)'
    <3>1. ASSUME NEW m, m.parity \in Parities, DeliveryAtHome(c, m)
          PROVE  DeliveryAtHome(c, m)'
      BY <1>0, <1>7, <3>1 DEF DeliveryAtHome, Scheduled, NoOrder
    <3> QED BY <1>1, <3>1 DEF Once, AtClient, Fetched
  <2>3. Written(c)'
    BY <1>1, <1>2, <1>6 DEF Once, AtClient, Written
  <2>4. ~Late(c, p)
    BY <1>3 DEF In, Sending, Nodes
  <2>5. LateApart(c)'
    BY <1>1, <1>2, <2>4 DEF Once, AtClient, LateApart, Late, Exchanging
  <2>6. \A d \in clientDown[c] : d.parity # p
    BY <1>0, <1>3 DEF In, Arrived, Nodes
  <2>7. NotBoth(c)'
    BY <1>1, <1>2, <2>6 DEF Once, AtClient, NotBoth
  <2>8. HeldApart(c)'
    <3>1. p \notin holds[c]
      BY <1>3 DEF In, Answering, Nodes
    <3> QED BY <1>1, <1>2, <1>6, <3>1 DEF Once, AtClient, HeldApart, Exchanging
  <2> QED BY <2>1, <2>2, <2>3, <2>5, <2>7, <2>8 DEF AtClient
<1>10. Functions' /\ Counted'
  BY <1>1 DEF Once, Functions, Counted
<1>11. Distinct'
  <2> SUFFICES ASSUME NEW q \in Parities
               PROVE  IF Scheduled(q)' THEN order'[q].from \in Clients /\ order'[q].from # order'[q].to
                      ELSE runs'[q] = 0 /\ answers'[q] = 0 /\ closed'[q] = {}
    BY DEF Distinct
  <2>1. CASE q = p
    BY <1>1, <1>5, <2>1
  <2>2. CASE q # p
    BY <1>1, <2>2 DEF Once, Distinct, Scheduled
  <2> QED BY <2>1, <2>2
<1>12. GrowsBy("sending", c, p)
  <2>1. SendsNoMore(c, "sending", c, p)
    BY <1>1, <1>2, <1>6 DEF SendsNoMore, Sending, Live, Asked, Late, Refused, Coming
  <2>2. \A n \in Clients \ {c} : SendsNoMore(n, "sending", c, p)
    BY <1>1, Untouched
  <2>3. HoldsNoMore("sending", c, p)
    BY <1>1, TablesShrink
  <2> QED BY <2>1, <2>2, <2>3, Growth
<1>13. OneCopy' /\ WhereRuns'
  <2>1. \A k \in Places : \A m \in Nodes : In(k, m, p)' => k = "sending" /\ m = c
    BY <1>3, <1>12 DEF GrowsBy
  <2>2. Outward("sending", c, p)'
    BY <1>1 DEF Outward
  <2> QED BY <1>1, <1>5, <1>12, <2>1, <2>2, Placed
<1> QED BY <1>8, <1>9, <1>10, <1>11, <1>12, <1>13 DEF Copies
-------------------------------------------------------------------------------
(* The steps of the host for a request.                                    *)

LEMMA RequestSent ==
    ASSUME Once, NEW c \in Clients, NEW x \in Exchanges(c),
           x.request.kind \in {"Function", "Response"}
    PROVE  /\ x.request.parity \in Parities /\ Scheduled(x.request.parity)
           /\ In("sending", c, x.request.parity)
           /\ OwnCommand(c, x.request) \/ OwnResponse(c, x.request)
<1>1. x.request \in late[c] \/ (link[c].phase = "request" /\ x.request = link[c].request)
  BY DEF Exchanges
<1>2. /\ x.request.parity \in Parities
      /\ OwnCommand(c, x.request) \/ OwnResponse(c, x.request)
  BY <1>1, RequestAt DEF Once
<1>3. In("sending", c, x.request.parity)
  BY <1>1 DEF In, Sending, Asked, Late
<1> QED BY <1>2, <1>3, PlaceAt DEF Once, AtClient, Nodes

\* Two requests of a client with one parity id are the same.
LEMMA SameRequest ==
    ASSUME Once, NEW c \in Clients, NEW m \in late[c], NEW o \in late[c],
           m.parity = o.parity, m.parity \in Parities
    PROVE  m = o
<1>0. Host \notin Clients
  BY NamesAssumption
<1>1. m \in Message /\ o \in Message /\ m # Ping /\ o # Ping
  BY RequestAt DEF Once
<1>2. /\ OwnCommand(c, m) \/ OwnResponse(c, m)
      /\ OwnCommand(c, o) \/ OwnResponse(c, o)
  BY <1>1, RequestAt DEF Once
<1>3. order[m.parity].from # order[m.parity].to
  <2>1. In("sending", c, m.parity)
    BY DEF In, Sending, Late
  <2> QED BY <2>1, PlaceAt DEF Once, AtClient, Distinct, Nodes
<1>4. m.kind = o.kind /\ m.target = o.target
  BY <1>2, <1>3 DEF OwnCommand, OwnResponse
<1> QED BY <1>1, <1>4, MessageParity

\* A request that was answered is no longer on its way, and the reply is what the
\* client reads next.
LEMMA ReplyEffect ==
    ASSUME Once, NEW c \in Clients, NEW x \in Exchanges(c), NEW message,
           Reply(c, x, message), UNCHANGED client_vars
    PROVE  /\ \A n \in Clients \ {c} : link'[n] = link[n] /\ late'[n] = late[n]
           /\ \A q \in Parities :
                 /\ Sending(c, q)' => Sending(c, q) /\ q # x.request.parity
                 /\ Refused(c, q)' =>
                       \/ Refused(c, q)
                       \/ q = x.request.parity /\ x.request.kind # "C206"
                            /\ message.kind = "Failure"
                 /\ Coming(c, q)' =>
                       \/ Coming(c, q)
                       \/ q = message.parity /\ x.request.kind = "C206"
<1>1. UNCHANGED <<clientUp, batch, running>>
  BY DEF client_vars
<1>2. CASE x.live
  <2>1. link[c].phase = "request" /\ link[c].request = x.request
    BY <1>2 DEF Exchanges
  <2>2. /\ link'[c] = [phase |-> "reply", request |-> x.request, reply |-> message]
        /\ late' = late
        /\ \A n \in Clients \ {c} : link'[n] = link[n]
    BY <1>2, <2>1 DEF Reply, Once, TypeOK
  <2>3. ASSUME NEW q \in Parities, Sending(c, q)'
        PROVE  Sending(c, q) /\ q # x.request.parity
    <3>1. CASE Live(c, q)'
      BY <1>1, <2>1, <2>2, <3>1 DEF Sending, Live, RowsOf
    <3>2. CASE Late(c, q)'
      BY <2>1, <2>2, <3>2 DEF Sending, Late, Once, AtClient, LateApart, Exchanging
    <3> QED BY <2>2, <2>3, <3>1, <3>2 DEF Sending, Asked
  <2> QED BY <2>2, <2>3 DEF Refused, Coming
<1>3. CASE ~x.live
  <2>1. x.request \in late[c]
    BY <1>3 DEF Exchanges
  <2>2. /\ link' = link /\ late'[c] = late[c] \ {x.request}
        /\ \A n \in Clients \ {c} : late'[n] = late[n]
    BY <1>3 DEF Reply, Once, TypeOK
  <2>3. ASSUME NEW q \in Parities, Sending(c, q)'
        PROVE  Sending(c, q) /\ q # x.request.parity
    <3>1. CASE Live(c, q)' \/ Asked(c, q)'
      <4>1. Live(c, q) \/ Asked(c, q)
        BY <1>1, <2>2, <3>1 DEF Live, Asked, RowsOf
      <4>2. ~Late(c, q)
        BY <4>1 DEF Once, AtClient, LateApart, Live, Asked, Exchanging, RowsOf
      <4> QED BY <2>1, <4>1, <4>2 DEF Sending, Late
    <3>2. CASE Late(c, q)'
      BY <2>1, <2>2, <3>2, SameRequest DEF Sending, Late
    <3> QED BY <2>3, <3>1, <3>2 DEF Sending
  <2> QED BY <2>2, <2>3 DEF Refused, Coming
<1> QED BY <1>2, <1>3

LEMMA ReplyAtClient ==
    ASSUME Once, NEW c \in Clients, NEW x \in Exchanges(c), NEW message,
           Reply(c, x, message), UNCHANGED <<client_vars, order, runs>>,
           x.request.kind # "C206" =>
               message \in {Confirmation(x.request.parity), Refusal(x.request.parity)},
           x.request.kind = "C206" =>
               message = Pong \/ (message.parity \in Parities /\ DeliveryAtHome(c, message))
    PROVE  \A d \in Clients : AtClient(d)'
<1>1. UNCHANGED <<clientUp, clientDown, batch, running, holds, order, runs>>
  BY DEF client_vars
<1>2. CASE x.live
  <2>1. link[c].phase = "request" /\ link[c].request = x.request
    BY <1>2 DEF Exchanges
  <2>2. /\ link'[c] = [phase |-> "reply", request |-> x.request, reply |-> message]
        /\ late' = late
        /\ \A n \in Clients \ {c} : link'[n] = link[n]
    BY <1>2, <2>1 DEF Reply, Once, TypeOK
  <2>3. Shape(c)'
    BY <1>1, <2>1, <2>2 DEF Once, AtClient, Shape, RowsOf
  <2>4. Fetched(c)'
    BY <1>1, <2>2 DEF Fetched, DeliveryAtHome
  <2>5. Written(c)' /\ LateApart(c)' /\ NotBoth(c)' /\ HeldApart(c)'
    BY <1>1, <2>1, <2>2
       DEF Once, AtClient, Written, LateApart, NotBoth, HeldApart, RowsOf, Late, Exchanging
  <2>6. \A d \in Clients \ {c} : AtClient(d)'
    BY <1>1, <2>2, Elsewhere DEF Once
  <2> QED BY <2>3, <2>4, <2>5, <2>6 DEF AtClient
<1>3. CASE ~x.live
  <2>1. /\ link' = link /\ late'[c] \subseteq late[c]
        /\ \A n \in Clients \ {c} : late'[n] = late[n]
    BY <1>3 DEF Reply, Once, TypeOK
  <2>2. AtClient(c)'
    BY <1>1, <2>1 DEF Once, AtClient, Shape, Fetched, Written, LateApart, NotBoth, HeldApart,
                      RowsOf, Late, Exchanging, DeliveryAtHome
  <2>3. \A d \in Clients \ {c} : AtClient(d)'
    BY <1>1, <2>1, Elsewhere DEF Once
  <2> QED BY <2>2, <2>3
<1> QED BY <1>2, <1>3

\* What is lost with a reply has been scheduled.
LEMMA ReplyDistinct ==
    ASSUME Once, NEW c \in Clients, NEW x \in Exchanges(c), NEW message,
           Reply(c, x, message), UNCHANGED <<order, runs, answers>>,
           message.parity \in Parities => Scheduled(message.parity)
    PROVE  Distinct'
<1>1. closed' = closed \/ End(LostWith(message), "lost")
  BY DEF Reply
<1>2. \A q \in Parities : q \in LostWith(message) => Scheduled(q)
  BY DEF LostWith
<1>3. \A q \in Parities : ~Scheduled(q) => closed'[q] = closed[q]
  BY <1>1, <1>2, Ended
<1> QED BY <1>3, StaysDistinct DEF Once

LEMMA PingReply ==
    ASSUME TypeOK, NEW c \in Clients, NEW x \in Exchanges(c), HandlePing(c, x)
    PROVE  \/ Reply(c, x, Pong) /\ UNCHANGED hostUp
           \/ \E row \in hostUp :
                /\ row.client = c
                /\ Reply(c, x, AsMessage(row))
                /\ hostUp' = {r \in hostUp : ~(r.client = c /\ r.parity = row.parity)}
<1> DEFINE waiting == buffer_up_list_schedule_fo_client_id(hostUp, c)
<1>1. waiting \in SUBSET hostUp /\ waiting \in SUBSET UpRow /\ \A r \in waiting : r.client = c
  BY DEF TypeOK, buffer_up_list_schedule_fo_client_id
<1>2. waiting # {} => first_of(waiting) \in waiting
  BY <1>1, FirstOfIsARow
<1>3. IF waiting = {}
      THEN Reply(c, x, Pong) /\ UNCHANGED hostUp
      ELSE /\ Reply(c, x, AsMessage(first_of(waiting)))
           /\ hostUp' = {r \in hostUp : ~(r.client = c /\ r.parity = first_of(waiting).parity)}
  BY DEF HandlePing, buffer_up_remove_schedule_by_parity_id
<1> HIDE DEF waiting
<1> QED BY <1>1, <1>2, <1>3

\* The reply of a ping takes the row out of the table and to the client.
LEMMA PingStep ==
    ASSUME Once, NEW c \in Clients, NEW x \in Exchanges(c), HandlePing(c, x)
    PROVE  /\ Copies'
           /\ \/ Reply(c, x, Pong) /\ UNCHANGED hostUp /\ GrowsBy("none", c, c)
              \/ \E row \in hostUp :
                   /\ row.client = c
                   /\ Reply(c, x, AsMessage(row))
                   /\ hostUp' = {r \in hostUp : ~(r.client = c /\ r.parity = row.parity)}
                   /\ In("queued", c, row.parity) /\ ~In("queued", c, row.parity)'
                   /\ GrowsBy("coming", c, row.parity)
<1>1. /\ UNCHANGED <<client_vars, clientUp, clientDown, batch, running, holds, hostDown, order,
                     runs, answers>>
      /\ x.request.kind = "C206"
  BY DEF HandlePing, client_vars
<1>2. Functions' /\ Counted'
  BY <1>1 DEF Once, Functions, Counted
<1>3. CASE Reply(c, x, Pong) /\ UNCHANGED hostUp
  <2>1. Pong.parity \notin Parities /\ Pong.kind = "C207"
    BY NamesAssumption DEF Pong
  <2>2. (\A d \in Clients : AtClient(d)') /\ Distinct'
    BY <1>1, <1>3, <2>1, ReplyAtClient, ReplyDistinct
  <2>3. GrowsBy("none", c, c)
    <3>1. SendsNoMore(c, "none", c, c)
      BY <1>1, <1>3, <2>1, ReplyEffect DEF SendsNoMore
    <3>2. \A n \in Clients \ {c} : SendsNoMore(n, "none", c, c)
      BY <1>1, <1>3, ReplyEffect, Untouched
    <3>3. HoldsNoMore("none", c, c)
      BY <1>1, <1>3, TablesShrink
    <3> QED BY <3>1, <3>2, <3>3, Growth
  <2> QED BY <1>1, <1>2, <1>3, <2>2, <2>3, Dropped DEF Copies
<1>4. ASSUME NEW row \in hostUp, row.client = c, Reply(c, x, AsMessage(row)),
             hostUp' = {r \in hostUp : ~(r.client = c /\ r.parity = row.parity)}
      PROVE  Copies' /\ In("queued", c, row.parity) /\ ~In("queued", c, row.parity)'
             /\ GrowsBy("coming", c, row.parity)
  <2> DEFINE p == row.parity
             message == AsMessage(row)
  <2>1. p \in Parities /\ In("queued", c, p) /\ ~In("queued", c, p)'
    BY <1>4 DEF In, Queued, Once, TypeOK, UpRow
  <2>2. Scheduled(p)
    BY <2>1, PlaceAt DEF Once, AtClient, Nodes
  <2>3. DeliveryAtHome(c, message) /\ message.parity = p
    BY <1>4 DEF Once, RoutedHome, HostAtHome, DeliveryAtHome, AsMessage
  <2> HIDE DEF p, message
  <2>4. Reply(c, x, message)
    BY <1>4 DEF message
  <2>5. (\A d \in Clients : AtClient(d)') /\ Distinct'
    BY <1>1, <2>1, <2>2, <2>3, <2>4, ReplyAtClient, ReplyDistinct
  <2>6. GrowsBy("coming", c, p)
    <3>1. SendsNoMore(c, "coming", c, p)
      BY <1>1, <2>3, <2>4, ReplyEffect DEF SendsNoMore
    <3>2. \A n \in Clients \ {c} : SendsNoMore(n, "coming", c, p)
      BY <1>1, <2>4, ReplyEffect, Untouched
    <3>3. HoldsNoMore("coming", c, p)
      BY <1>1, <1>4, TablesShrink
    <3> QED BY <3>1, <3>2, <3>3, Growth
  <2>7. "queued" \in Places /\ c \in Nodes /\ Outward("queued", c, p) = Outward("coming", c, p)
    BY DEF Places, Nodes, Outward
  <2>8. OneCopy' /\ WhereRuns'
    BY <1>1, <2>1, <2>6, <2>7, Carried
  <2> QED BY <1>2, <2>1, <2>5, <2>6, <2>8 DEF Copies, p
<1> QED BY <1>3, <1>4, PingReply DEF Once

\* What a client sends is not waiting in the host's tables: it is never taken for a
\* command that is already answered.
LEMMA NotQueued ==
    ASSUME Once, NEW c \in Clients, NEW x \in Exchanges(c),
           x.request.kind \in {"Function", "Response"}, NEW n \in Clients
    PROVE  check_if_parity_id_is_registered(hostUp, x.request.parity, n)
<1>1. x.request.parity \in Parities /\ In("sending", c, x.request.parity)
  BY RequestSent
<1>2. ~In("queued", n, x.request.parity)
  BY <1>1 DEF Once, OneCopy, Places, Nodes
<1> QED BY <1>2 DEF check_if_parity_id_is_registered, In, Queued

LEMMA NotArrived ==
    ASSUME Once, NEW c \in Clients, NEW x \in Exchanges(c),
           x.request.kind \in {"Function", "Response"}
    PROVE  \A row \in hostDown : row.parity # x.request.parity
<1>1. x.request.parity \in Parities /\ In("sending", c, x.request.parity)
  BY RequestSent
<1>2. ~In("arrived", Host, x.request.parity)
  BY <1>1 DEF Once, OneCopy, Places, Nodes
<1> QED BY <1>2, NamesAssumption DEF In, Arrived

\* A request that is refused is with the client that sent it until it reads that.
LEMMA RefuseStep ==
    ASSUME Once, NEW c \in Clients, NEW x \in Exchanges(c),
           x.request.kind \in {"Function", "Response"}, Refuse(c, x), hostDown' = hostDown,
           UNCHANGED <<client_vars, order, runs, answers>>
    PROVE  /\ Copies'
           /\ In("sending", c, x.request.parity) /\ ~In("sending", c, x.request.parity)'
           /\ GrowsBy("refused", c, x.request.parity)
<1> DEFINE p == x.request.parity
<1>1. p \in Parities /\ Scheduled(p) /\ In("sending", c, p) /\ x.request.kind # "C206"
  BY RequestSent
<1>2. UNCHANGED <<clientUp, clientDown, batch, running, holds, hostUp>> /\ Reply(c, x, Refusal(p))
  BY DEF Refuse, client_vars
<1>3. Refusal(p).parity = p /\ Refusal(p).kind = "Failure"
  BY DEF Refusal
<1> HIDE DEF p
<1>4. (\A d \in Clients : AtClient(d)') /\ Distinct'
  BY <1>1, <1>2, <1>3, ReplyAtClient, ReplyDistinct DEF p
<1>5. Functions' /\ Counted'
  BY DEF Once, Functions, Counted
<1>6. ~In("sending", c, p)'
  BY <1>1, <1>2, ReplyEffect, NamesAssumption DEF In, p
<1>7. GrowsBy("refused", c, p)
  <2>1. SendsNoMore(c, "refused", c, p)
    BY <1>1, <1>2, <1>3, ReplyEffect DEF SendsNoMore, p
  <2>2. \A n \in Clients \ {c} : SendsNoMore(n, "refused", c, p)
    BY <1>2, ReplyEffect, Untouched
  <2>3. HoldsNoMore("refused", c, p)
    BY <1>2, TablesShrink
  <2> QED BY <2>1, <2>2, <2>3, Growth
<1>8. OneCopy' /\ WhereRuns'
  <2>1. /\ "sending" \in Places /\ c \in Nodes
        /\ Outward("sending", c, p) = Outward("refused", c, p)
    BY DEF Places, Nodes, Outward
  <2> QED BY <1>1, <1>6, <1>7, <2>1, Carried
<1> QED BY <1>1, <1>4, <1>5, <1>6, <1>7, <1>8 DEF Copies, p

\* A request that is forwarded waits in the host for the other side.
LEMMA ForwardStep ==
    ASSUME Once, NEW c \in Clients, NEW x \in Exchanges(c),
           x.request.kind \in {"Function", "Response"}, NEW target \in Clients,
           Forward(c, x, target), hostDown' = hostDown,
           UNCHANGED <<client_vars, order, runs, answers>>,
           target = IF x.request.kind = "Function" THEN order[x.request.parity].to
                    ELSE order[x.request.parity].from
    PROVE  /\ Copies'
           /\ In("sending", c, x.request.parity) /\ ~In("sending", c, x.request.parity)'
           /\ GrowsBy("queued", target, x.request.parity)
<1> DEFINE p   == x.request.parity
           row == [id |-> nextId[Host], client |-> target, parity |-> p,
                   kind |-> x.request.kind, target |-> Origin]
<1>1. /\ p \in Parities /\ Scheduled(p) /\ In("sending", c, p)
      /\ OwnCommand(c, x.request) \/ OwnResponse(c, x.request)
  BY RequestSent
<1>2. order[p].from # order[p].to /\ x.request.kind # "C206"
  BY <1>1 DEF Once, Distinct
<1>3. /\ UNCHANGED <<clientUp, clientDown, batch, running, holds>>
      /\ Reply(c, x, Confirmation(p)) /\ hostUp' = hostUp \cup {row}
  BY DEF Forward, client_vars, buffer_up_schedule
<1>4. row.client = target /\ row.parity = p
  OBVIOUS
<1>5. Confirmation(p).parity = p /\ Confirmation(p).kind = "C210"
  BY DEF Confirmation
<1> HIDE DEF row, p
<1>6. (\A d \in Clients : AtClient(d)') /\ Distinct'
  BY <1>1, <1>2, <1>3, <1>5, ReplyAtClient, ReplyDistinct DEF p
<1>7. Functions' /\ Counted'
  BY DEF Once, Functions, Counted
<1>8. ~In("sending", c, p)'
  BY <1>1, <1>3, ReplyEffect, NamesAssumption DEF In, p
<1>9. GrowsBy("queued", target, p)
  <2>1. SendsNoMore(c, "queued", target, p)
    BY <1>2, <1>3, <1>5, ReplyEffect DEF SendsNoMore
  <2>2. \A n \in Clients \ {c} : SendsNoMore(n, "queued", target, p)
    BY <1>3, ReplyEffect, Untouched
  <2>3. HoldsNoMore("queued", target, p)
    BY <1>3, <1>4 DEF HoldsNoMore, Queued, Arrived, Answering
  <2> QED BY <2>1, <2>2, <2>3, Growth
<1>10. OneCopy' /\ WhereRuns'
  <2>1. "sending" \in Places /\ c \in Nodes
    BY DEF Places, Nodes
  <2>2. Outward("sending", c, p) = Outward("queued", target, p)
    BY <1>1, <1>2 DEF Outward, OwnCommand, OwnResponse, p
  <2> QED BY <1>1, <1>8, <1>9, <2>1, <2>2, Carried
<1> QED BY <1>1, <1>6, <1>7, <1>8, <1>9, <1>10 DEF Copies, p

\* A command for another client, and a response, are refused or forwarded.
LEMMA RedirectRequest ==
    ASSUME Once, NEW c \in Clients, NEW x \in Exchanges(c), HandleRedirect(c, x)
    PROVE  /\ x.request.kind = "Function" /\ x.request.target \in Clients
           /\ order[x.request.parity].to = x.request.target
           /\ Refuse(c, x) \/ Forward(c, x, x.request.target)
           /\ hostDown' = hostDown
           /\ AddTask(c, x.request.parity, x.request.target)
           /\ UNCHANGED <<client_vars, status, orphans, faults, order, runs, answers>>
<1>1. check_if_parity_id_is_registered(hostUp, x.request.parity, x.request.target)
  BY NotQueued DEF HandleRedirect
<1>2. OwnCommand(c, x.request)
  BY RequestSent DEF HandleRedirect, OwnCommand, OwnResponse
<1>3. hostDown' = hostDown
  BY NotArrived DEF HandleRedirect, buffer_down_remove_schedule_by_parity_id
<1> QED BY <1>1, <1>2, <1>3 DEF HandleRedirect, OwnCommand

LEMMA ResponseRequest ==
    ASSUME Once, NEW c \in Clients, NEW x \in Exchanges(c), HandleResponse(c, x)
    PROVE  /\ x.request.kind = "Response"
           /\ order[x.request.parity].from \in Clients
           /\ \/ Forward(c, x, order[x.request.parity].from) /\ UNCHANGED tasks
              \/ /\ Refuse(c, x)
                 /\ tasks' = [tasks EXCEPT ![c] = {t \in @ : t.parity # x.request.parity}]
           /\ hostDown' = hostDown
           /\ UNCHANGED <<client_vars, status, orphans, faults, order, runs, answers>>
<1> DEFINE p == x.request.parity
<1>1. PICK origin \in TaskOrigins(c, p) :
        /\ hostDown' = buffer_down_remove_schedule_by_parity_id(hostDown, c, p)
        /\ IF check_if_parity_id_is_registered(hostUp, p, origin)
           THEN \/ Forward(c, x, origin) /\ UNCHANGED tasks
                \/ /\ Refuse(c, x)
                   /\ tasks' = [tasks EXCEPT ![c] = {t \in @ : t.parity # p}]
           ELSE GetResponse(c, x, p) /\ UNCHANGED tasks
  BY DEF HandleResponse
<1>2. origin \in Clients /\ order[p].from = origin
  BY DEF TaskOrigins, Task, Once, TypeOK, RoutedHome, TasksAtHome
<1>3. x.request.kind = "Response"
  BY DEF HandleResponse
<1>4. check_if_parity_id_is_registered(hostUp, p, origin)
  BY <1>2, <1>3, NotQueued
<1>5. hostDown' = hostDown
  BY <1>1, <1>3, NotArrived DEF buffer_down_remove_schedule_by_parity_id
<1> QED BY <1>1, <1>2, <1>3, <1>4, <1>5 DEF HandleResponse

LEMMA RedirectStep ==
    ASSUME Once, NEW c \in Clients, NEW x \in Exchanges(c),
           HandleRedirect(c, x) \/ HandleResponse(c, x)
    PROVE  Copies'
<1>1. CASE HandleRedirect(c, x)
  BY <1>1, RedirectRequest, RefuseStep, ForwardStep
<1>2. CASE HandleResponse(c, x)
  BY <1>2, ResponseRequest, RefuseStep, ForwardStep
<1> QED BY <1>1, <1>2

\* A command for the host goes to its down table, or is refused.
HostTakes(c, x) ==
    /\ hostDown' \subseteq hostDown \cup
           {[client |-> c, parity |-> x.request.parity, kind |-> "Function"]}
    /\ \E d \in hostDown' : d.parity = x.request.parity
    /\ hostDown \subseteq hostDown'
    /\ Reply(c, x, Confirmation(x.request.parity))
    /\ UNCHANGED <<hostUp, nextId>>

LEMMA HostCommandRequest ==
    ASSUME Once, NEW c \in Clients, NEW x \in Exchanges(c), HandleHostCommand(c, x)
    PROVE  /\ x.request.kind = "Function" /\ x.request.target = Host
           /\ order[x.request.parity].from = c /\ order[x.request.parity].to = Host
           /\ (Refuse(c, x) /\ hostDown' = hostDown) \/ HostTakes(c, x)
           /\ AddTask(c, x.request.parity, Host)
           /\ UNCHANGED <<client_vars, status, orphans, faults, order, runs, answers>>
<1>1. check_if_parity_id_is_registered(hostUp, x.request.parity, c)
  BY NotQueued DEF HandleHostCommand
<1> DEFINE row == [client |-> c, parity |-> x.request.parity, kind |-> "Function"]
<1>2. /\ x.request.kind = "Function" /\ x.request.target = Host
      /\ AddTask(c, x.request.parity, Host)
      /\ UNCHANGED <<client_vars, status, orphans, faults, order, runs, answers>>
      /\ \/ Refuse(c, x) /\ hostDown' = hostDown
         \/ /\ hostDown' = buffer_down_schedule(hostDown, row)
            /\ Reply(c, x, Confirmation(x.request.parity))
            /\ UNCHANGED <<hostUp, nextId>>
  BY <1>1 DEF HandleHostCommand
<1>3. row.parity = x.request.parity
  OBVIOUS
<1>4. ASSUME hostDown' = buffer_down_schedule(hostDown, row)
      PROVE  /\ hostDown' \subseteq hostDown \cup {row} /\ hostDown \subseteq hostDown'
             /\ \E d \in hostDown' : d.parity = x.request.parity
  <2> HIDE DEF row
  <2> QED BY <1>3, <1>4 DEF buffer_down_schedule
<1>5. order[x.request.parity].from = c /\ order[x.request.parity].to = Host
  BY <1>2, RequestSent DEF OwnCommand, OwnResponse
<1> QED BY <1>2, <1>4, <1>5 DEF HostTakes

LEMMA HostTakesStep ==
    ASSUME Once, NEW c \in Clients, NEW x \in Exchanges(c), HandleHostCommand(c, x),
           HostTakes(c, x)
    PROVE  /\ Copies'
           /\ In("sending", c, x.request.parity) /\ ~In("sending", c, x.request.parity)'
           /\ GrowsBy("arrived", Host, x.request.parity)
<1> DEFINE p   == x.request.parity
           row == [client |-> c, parity |-> p, kind |-> "Function"]
<1>1. /\ UNCHANGED <<client_vars, clientUp, clientDown, batch, running, holds, hostUp, order,
                     runs, answers>>
      /\ hostDown' \subseteq hostDown \cup {row}
      /\ Reply(c, x, Confirmation(p))
      /\ x.request.kind = "Function"
  BY HostCommandRequest DEF HostTakes, client_vars
<1>2. row.parity = p /\ row.kind = "Function"
  OBVIOUS
<1>3. p \in Parities /\ Scheduled(p) /\ In("sending", c, p) /\ order[p].to = Host
      /\ order[p].from = c
  BY <1>1, RequestSent, HostCommandRequest
<1>4. Confirmation(p).parity = p /\ Confirmation(p).kind = "C210"
  BY DEF Confirmation
<1>5. (\A d \in Clients : AtClient(d)') /\ Distinct'
  BY <1>1, <1>3, <1>4, ReplyAtClient, ReplyDistinct
<1> HIDE DEF row, p
<1>6. Functions' /\ Counted'
  BY <1>1, <1>2 DEF Once, Functions, Counted
<1>7. ~In("sending", c, p)'
  BY <1>1, <1>3, ReplyEffect DEF In, p
<1>8. GrowsBy("arrived", Host, p)
  <2>1. SendsNoMore(c, "arrived", Host, p)
    BY <1>1, <1>4, ReplyEffect DEF SendsNoMore
  <2>2. \A n \in Clients \ {c} : SendsNoMore(n, "arrived", Host, p)
    BY <1>1, ReplyEffect, Untouched
  <2>3. HoldsNoMore("arrived", Host, p)
    BY <1>1, <1>2 DEF HoldsNoMore, Queued, Arrived, Answering
  <2> QED BY <2>1, <2>2, <2>3, Growth
<1>9. /\ "sending" \in Places /\ c \in Nodes
      /\ Outward("sending", c, p) = Outward("arrived", Host, p)
  BY <1>3 DEF Places, Nodes, Outward
<1>10. OneCopy' /\ WhereRuns'
  BY <1>1, <1>3, <1>7, <1>8, <1>9, Carried DEF p
<1> QED BY <1>3, <1>5, <1>6, <1>7, <1>8, <1>10 DEF Copies, p

LEMMA HostCommandStep ==
    ASSUME Once, NEW c \in Clients, NEW x \in Exchanges(c), HandleHostCommand(c, x)
    PROVE  Copies'
BY HostCommandRequest, HostTakesStep, RefuseStep
-------------------------------------------------------------------------------
(* Failures, restarts and the host's transposer.                           *)

\* Connect, Resync, Synced, NoticeDisconnect: no message moves.
LEMMA NothingMoves ==
    ASSUME Once, NEW c \in Clients,
           Connect(c) \/ Resync(c) \/ Synced(c) \/ NoticeDisconnect(c)
    PROVE  Copies' /\ GrowsBy("none", c, c)
<1>1. /\ UNCHANGED <<clientUp, clientDown, batch, running, holds, hostUp, hostDown, late, order,
                     runs, answers, closed>>
      /\ \A d \in Clients \ {c} : link'[d] = link[d]
      /\ link'[c] = link[c] \/ (link'[c] = Idle /\ link[c].phase = "closed" /\ running[c])
  BY DEF Connect, Resync, Synced, NoticeDisconnect, client_vars, fault_vars, history_vars, Once,
         TypeOK
<1>2. \A d \in Clients \ {c} : AtClient(d)'
  BY <1>1, Elsewhere DEF Once
<1>3. AtClient(c)'
  <2>1. CASE link'[c] = link[c]
    BY <1>1, <2>1, Elsewhere DEF Once
  <2>2. CASE link'[c] = Idle /\ link[c].phase = "closed" /\ running[c]
    BY <1>1, <2>2 DEF Once, AtClient, Shape, Fetched, Written, LateApart, NotBoth, HeldApart,
                      RowsOf, Late, Exchanging, Idle
  <2> QED BY <1>1, <2>1, <2>2
<1>4. Distinct' /\ Functions' /\ Counted'
  BY <1>1, StaysDistinct DEF Once, Functions, Counted
<1>5. GrowsBy("none", c, c)
  <2>1. SendsNoMore(c, "none", c, c)
    BY <1>1 DEF SendsNoMore, Sending, Live, Asked, Late, Refused, Coming, RowsOf, Idle
  <2>2. \A n \in Clients \ {c} : SendsNoMore(n, "none", c, c)
    BY <1>1, Untouched
  <2> QED BY <1>1, <2>1, <2>2, TablesShrink, Growth
<1>6. OneCopy' /\ WhereRuns'
  BY <1>1, <1>5, Dropped
<1> QED BY <1>2, <1>3, <1>4, <1>5, <1>6 DEF Copies

\* What a client that loses its connection may still have sent, a thread of the
\* host finds.
LEMMA CutOff ==
    ASSUME Once, NEW c \in Clients,
           UNCHANGED <<clientUp, clientDown, holds, hostUp, hostDown, order, runs, answers>>,
           \A q \in Parities : ~Scheduled(q) => closed'[q] = closed[q],
           \A d \in Clients \ {c} : /\ link'[d] = link[d] /\ batch'[d] = batch[d]
                                    /\ running'[d] = running[d] /\ late'[d] = late[d],
           \/ /\ link'[c] = link[c] /\ batch'[c] = batch[c] /\ running'[c] = running[c]
              /\ late'[c] \subseteq late[c]
           \/ /\ link[c].phase \in {"request", "reply"}
              /\ link'[c] = Closed
              /\ late'[c] \subseteq late[c] \cup {link[c].request}
              /\ late'[c] \subseteq late[c] \/ link[c].phase = "request"
              /\ \/ batch'[c] = {} /\ ~running'[c]
                 \/ /\ link[c].request.kind = "C206"
                    /\ batch'[c] = batch[c] /\ running'[c] = running[c]
    PROVE  Copies' /\ GrowsBy("none", c, c)
<1>1. \A d \in Clients \ {c} : AtClient(d)'
  BY Elsewhere DEF Once
<1>2. Distinct' /\ Functions' /\ Counted'
  BY StaysDistinct DEF Once, Functions, Counted
<1>3. AtClient(c)' /\ SendsNoMore(c, "none", c, c)
  <2>1. CASE /\ link'[c] = link[c] /\ batch'[c] = batch[c] /\ running'[c] = running[c]
             /\ late'[c] \subseteq late[c]
    <3>1. AtClient(c)'
      BY <2>1 DEF Once, AtClient, Shape, Fetched, Written, LateApart, NotBoth, HeldApart, RowsOf,
                  Late, Exchanging, DeliveryAtHome
    <3>2. SendsNoMore(c, "none", c, c)
      BY <2>1 DEF SendsNoMore, Sending, Live, Asked, Late, Refused, Coming, RowsOf
    <3> QED BY <3>1, <3>2
  <2>2. CASE /\ link[c].phase \in {"request", "reply"}
             /\ link'[c] = Closed
             /\ late'[c] \subseteq late[c] \cup {link[c].request}
             /\ late'[c] \subseteq late[c] \/ link[c].phase = "request"
             /\ \/ batch'[c] = {} /\ ~running'[c]
                \/ /\ link[c].request.kind = "C206"
                   /\ batch'[c] = batch[c] /\ running'[c] = running[c]
    <3>1. link[c].request.kind = "C206" => link[c].request.parity \notin Parities
      BY <2>2, RequestAt DEF Once
    <3>2. running[c] /\ Closed.phase = "closed" /\ Closed.reply = Pong
      BY <2>2 DEF Once, AtClient, Shape, Closed
    <3>3. /\ link'[c].phase = "closed" /\ link'[c].reply = Pong
          /\ batch'[c] \subseteq batch[c] /\ ~running'[c] => batch'[c] = {}
          /\ RowsOf(c)' \subseteq RowsOf(c)
      BY <2>2, <3>2 DEF RowsOf
    <3>4. Shape(c)' /\ Fetched(c)' /\ NotBoth(c)' /\ Written(c)' /\ HeldApart(c)'
      <4>1. Shape(c)'
        BY <3>3 DEF Once, AtClient, Shape
      <4>2. Fetched(c)' /\ NotBoth(c)'
        BY <3>3 DEF Once, AtClient, Fetched, NotBoth
      <4>3. Written(c)'
        BY <2>2, <3>3 DEF Once, AtClient, Written
      <4>4. HeldApart(c)'
        BY <3>3 DEF Once, AtClient, HeldApart, Exchanging
      <4> QED BY <4>1, <4>2, <4>3, <4>4
    <3>5. LateApart(c)'
      <4> SUFFICES ASSUME NEW q \in Parities, Late(c, q)'
                   PROVE  /\ \A row \in batch'[c] : row.parity # q
                          /\ running'[c] => \A row \in clientUp[c] : row.parity # q
        BY <3>3 DEF LateApart, Exchanging
      <4>1. CASE Late(c, q)
        BY <2>2, <3>2, <3>3, <4>1 DEF Once, AtClient, LateApart
      <4>2. CASE ~Late(c, q)
        <5>1. link[c].request.parity = q
          BY <2>2, <4>2 DEF Late
        <5> QED BY <2>2, <3>1, <5>1
      <4> QED BY <4>1, <4>2
    <3>6. \A q \in Parities : Live(c, q)' => Live(c, q)
      BY <2>2, <3>1, <3>2 DEF Live, RowsOf
    <3>7. \A q \in Parities : Late(c, q)' => Sending(c, q)
      BY <2>2 DEF Late, Sending, Asked
    <3>8. SendsNoMore(c, "none", c, c)
      BY <2>2, <3>2, <3>6, <3>7, Disconnected
    <3> QED BY <3>4, <3>5, <3>8 DEF AtClient
  <2> QED BY <2>1, <2>2
<1>4. \A n \in Clients \ {c} : SendsNoMore(n, "none", c, c)
  BY Untouched
<1>5. GrowsBy("none", c, c)
  BY <1>3, <1>4, TablesShrink, Growth
<1>6. OneCopy' /\ WhereRuns'
  BY <1>5, Dropped
<1> QED BY <1>1, <1>2, <1>3, <1>5, <1>6 DEF Copies

\* A reply to be read holds something that was scheduled.
LEMMA HeldByReply ==
    ASSUME Once, NEW c \in Clients, NEW p \in Parities, p \in LostWith(link[c].reply)
    PROVE  Scheduled(p) /\ link[c].phase = "reply" /\ (In("coming", c, p) \/ In("refused", c, p))
<1>1. link[c].reply.parity = p /\ link[c].reply.kind \in {"Function", "Response", "Failure"}
  BY DEF LostWith
<1>2. link[c].phase = "reply"
  BY <1>1 DEF Once, AtClient, Shape, Pong
<1>3. CASE link[c].request.kind = "C206"
  BY <1>1, <1>2, <1>3, PlaceAt DEF In, Coming, Nodes, Once, AtClient
<1>4. CASE link[c].request.kind # "C206"
  <2>1. Refused(c, p)
    BY <1>1, <1>2, <1>4 DEF Refused, Once, AtClient, Shape, Confirmation, Refusal
  <2> QED BY <1>2, <2>1, PlaceAt DEF In, Nodes, Once, AtClient
<1> QED BY <1>3, <1>4

LEMMA PanicStep ==
    ASSUME Once, NEW c \in Clients, NEW x \in Exchanges(c), HandlerPanic(c, x)
    PROVE  Copies' /\ GrowsBy("none", c, c)
<1>1. UNCHANGED <<clientUp, clientDown, holds, hostUp, hostDown, order, runs, answers, closed>>
  BY DEF HandlerPanic, host_vars, history_vars
<1>2. CASE x.live
  BY <1>1, <1>2, CutOff DEF HandlerPanic, Exchanges, Once, TypeOK
<1>3. CASE ~x.live
  BY <1>1, <1>3, CutOff DEF HandlerPanic, Once, TypeOK
<1> QED BY <1>2, <1>3

LEMMA BreakStep ==
    ASSUME Once, NEW c \in Clients, NEW stops \in BOOLEAN, NEW arrives \in BOOLEAN,
           Break(c, stops, arrives)
    PROVE  Copies' /\ GrowsBy("none", c, c)
<1>1. /\ UNCHANGED <<clientUp, clientDown, holds, hostUp, hostDown, order, runs, answers>>
      /\ End(LostWith(link[c].reply), "lost")
      /\ link[c].phase \in {"request", "reply"}
  BY DEF Break, host_vars
<1>2. \A q \in Parities : ~Scheduled(q) => closed'[q] = closed[q]
  BY <1>1, HeldByReply, Ended
<1>3. \A d \in Clients \ {c} : /\ link'[d] = link[d] /\ batch'[d] = batch[d]
                               /\ running'[d] = running[d] /\ late'[d] = late[d]
  BY DEF Break, Stop, Once, TypeOK
<1>4. /\ link'[c] = Closed
      /\ \/ batch'[c] = {} /\ ~running'[c]
         \/ /\ link[c].request.kind = "C206"
            /\ batch'[c] = batch[c] /\ running'[c] = running[c]
  BY DEF Break, Stop, Once, TypeOK
<1>5. /\ late'[c] \subseteq late[c] \cup {link[c].request}
      /\ late'[c] \subseteq late[c] \/ link[c].phase = "request"
  BY DEF Break, Once, TypeOK
<1> QED BY <1>1, <1>2, <1>3, <1>4, <1>5, CutOff

LEMMA ClientRestartStep ==
    ASSUME Once, NEW c \in Clients, ClientRestart(c)
    PROVE  Copies' /\ GrowsBy("none", c, c)
<1>1. /\ UNCHANGED <<batch, hostUp, hostDown, link, late, order, runs, answers>>
      /\ \A d \in Clients \ {c} : /\ clientUp'[d] = clientUp[d] /\ clientDown'[d] = clientDown[d]
                                  /\ running'[d] = running[d]
      /\ \A d \in Clients \ {c} : holds'[d] = holds[d]
      /\ clientUp'[c] = {} /\ clientDown'[c] = {} /\ holds'[c] = {} /\ ~running[c]
      /\ End(ParitiesOf(clientUp[c]) \cup ParitiesOf(clientDown[c]) \cup holds[c], "lost")
  BY DEF ClientRestart, host_vars, fault_vars, Once, TypeOK
<1>2. batch[c] = {} /\ link[c].phase = "closed"
  BY <1>1 DEF Once, AtClient, Shape
<1>3. \A d \in Clients \ {c} : AtClient(d)'
  BY <1>1, Elsewhere DEF Once
<1>4. AtClient(c)'
  BY <1>1, <1>2 DEF Once, AtClient, Shape, Fetched, Written, LateApart, NotBoth, HeldApart,
                    RowsOf, Late, Exchanging
<1>5. ASSUME NEW q \in Parities,
             q \in ParitiesOf(clientUp[c]) \cup ParitiesOf(clientDown[c]) \cup holds[c]
      PROVE  Scheduled(q)
  <2>1. q \in holds[c] => Scheduled(q)
    BY PlaceAt DEF In, Answering, Nodes, Once, AtClient
  <2> QED BY <1>5, <2>1, RowInTables
<1>6. \A q \in Parities : ~Scheduled(q) => closed'[q] = closed[q]
  BY <1>1, <1>5, Ended
<1>7. Distinct' /\ Functions' /\ Counted'
  BY <1>1, <1>6, StaysDistinct DEF Once, Functions, Counted
<1>8. GrowsBy("none", c, c)
  <2>1. SendsNoMore(c, "none", c, c)
    BY <1>1, <1>2 DEF SendsNoMore, Sending, Live, Asked, Late, Refused, Coming, RowsOf
  <2>2. \A n \in Clients \ {c} : SendsNoMore(n, "none", c, c)
    BY <1>1, Untouched
  <2>3. HoldsNoMore("none", c, c)
    BY <1>1, TablesShrink
  <2> QED BY <2>1, <2>2, <2>3, Growth
<1>9. OneCopy' /\ WhereRuns'
  BY <1>1, <1>8, Dropped
<1> QED BY <1>3, <1>4, <1>7, <1>8, <1>9 DEF Copies

\* Whatever a restart of the host takes with it has been scheduled.
LEMMA HostRestartLoses ==
    ASSUME Once, NEW survivors \in SUBSET Clients, HostRestart(survivors)
    PROVE  /\ \A q \in Parities : ~Scheduled(q) => closed'[q] = closed[q]
           /\ \A p \in Parities : closed'[p] \in {closed[p], closed[p] \cup {"lost"}}
<1>0. Host \notin Clients
  BY NamesAssumption
<1> DEFINE held == ParitiesOf(hostUp) \cup ParitiesOf(hostDown)
                   \cup (UNION {LostWith(link[c].reply) : c \in Clients})
                   \cup (UNION {ParitiesOf(late[c]) \cap Parities : c \in Clients})
<1>1. End(held, "lost")
  BY DEF HostRestart
<1>2. ASSUME NEW q \in Parities, q \in held
      PROVE  Scheduled(q)
  <2>1. CASE q \in ParitiesOf(hostUp)
    <3>1. PICK row \in hostUp : row.parity = q
      BY <2>1 DEF ParitiesOf
    <3>2. row.client \in Clients /\ DeliveryAtHome(row.client, row)
      BY DEF Once, RoutedHome, HostAtHome, TypeOK, UpRow
    <3>3. order[q].from \in Clients \/ order[q].to \in Clients
      BY <3>1, <3>2 DEF DeliveryAtHome
    <3> QED BY <1>0, <3>3 DEF Scheduled, NoOrder
  <2>2. CASE q \in ParitiesOf(hostDown)
    BY <1>0, <2>2 DEF ParitiesOf, Once, RoutedHome, HostAtHome, TypeOK, DownRow, Scheduled, NoOrder
  <2>3. CASE q \in UNION {LostWith(link[c].reply) : c \in Clients}
    BY <2>3, HeldByReply
  <2>4. CASE q \in UNION {ParitiesOf(late[c]) \cap Parities : c \in Clients}
    <3>1. PICK c \in Clients : q \in ParitiesOf(late[c])
      BY <2>4
    <3>2. In("sending", c, q)
      BY <3>1 DEF ParitiesOf, In, Sending, Late
    <3> QED BY <3>2, PlaceAt DEF Once, AtClient, Nodes
  <2> QED BY <1>2, <2>1, <2>2, <2>3, <2>4
<1> HIDE DEF held
<1>3. \A q \in Parities : ~Scheduled(q) => closed'[q] = closed[q]
  BY <1>1, <1>2, Ended
<1> QED BY <1>1, <1>3 DEF End

LEMMA HostRestartStep ==
    ASSUME Once, NEW survivors \in SUBSET Clients, HostRestart(survivors)
    PROVE  Copies' /\ GrowsBy("none", Host, Host)
<1>1. /\ UNCHANGED <<clientUp, clientDown, holds, order, runs, answers>>
      /\ hostUp' = {} /\ hostDown' = {}
      /\ \A c \in survivors : running[c]
      /\ \A c \in Clients :
           /\ running'[c] = (c \in survivors)
           /\ batch'[c] = IF c \in survivors THEN batch[c] ELSE {}
           /\ link'[c] = Closed /\ late'[c] = {}
      /\ \A c \in survivors : link[c].request.kind \in {"C206", "C207"}
  BY DEF HostRestart
<1>2. Closed.phase = "closed" /\ Closed.reply = Pong
  BY DEF Closed
<1>3. \A c \in Clients : AtClient(c)'
  <2> TAKE c \in Clients
  <2>1. RowsOf(c)' \subseteq RowsOf(c) /\ (~running'[c] => batch'[c] = {})
    BY <1>1 DEF RowsOf
  <2>2. Shape(c)'
    BY <1>1, <1>2, <2>1 DEF Once, AtClient, Shape
  <2>3. Fetched(c)' /\ NotBoth(c)'
    BY <1>1, <1>2 DEF Once, AtClient, Fetched, NotBoth
  <2>4. Written(c)' /\ LateApart(c)' /\ HeldApart(c)'
    BY <1>1, <1>2, <2>1
       DEF Once, AtClient, Written, LateApart, HeldApart, Late, Exchanging
  <2> QED BY <2>2, <2>3, <2>4 DEF AtClient
<1>4. Distinct' /\ Functions' /\ Counted'
  BY <1>1, HostRestartLoses, StaysDistinct DEF Once, Functions, Counted
<1>5. \A c \in Clients : SendsNoMore(c, "none", Host, Host)
  <2> TAKE c \in Clients
  <2>1. ASSUME NEW q \in Parities, Live(c, q)'
        PROVE  Live(c, q)
    <3>1. c \in survivors /\ running[c] /\ \E row \in RowsOf(c) : row.parity = q
      BY <1>1, <2>1 DEF Live, RowsOf
    <3>2. ASSUME link[c].phase = "reply", link[c].request.parity = q
          PROVE  FALSE
      <4>1. link[c].request \in Message
        BY DEF Once, TypeOK, Link
      <4> QED BY <1>1, <3>1, <3>2, <4>1, MessageParity, NamesAssumption
    <3> QED BY <3>1, <3>2 DEF Live
  <2> QED BY <1>1, <1>2, <2>1, Disconnected DEF Late
<1>6. GrowsBy("none", Host, Host)
  BY <1>1, <1>5, TablesShrink, Growth
<1>7. OneCopy' /\ WhereRuns'
  BY <1>1, <1>6, Dropped
<1> QED BY <1>3, <1>4, <1>6, <1>7 DEF Copies

LEMMA HostExpireStep ==
    ASSUME Once, NEW row \in hostUp, HostExpire(row)
    PROVE  Copies' /\ GrowsBy("none", Host, Host)
<1>1. /\ UNCHANGED <<clientUp, clientDown, batch, running, holds, hostDown, link, late, order,
                     runs, answers>>
      /\ hostUp' \subseteq hostUp
      /\ End({row.parity}, "lost")
  BY DEF HostExpire, client_vars
<1>2. Scheduled(row.parity)
  BY NamesAssumption DEF Once, RoutedHome, HostAtHome, DeliveryAtHome, TypeOK, UpRow,
                         Scheduled, NoOrder
<1>3. \A q \in Parities : ~Scheduled(q) => closed'[q] = closed[q]
  BY <1>1, <1>2, Ended
<1>4. \A c \in Clients : AtClient(c)'
  BY <1>1, Elsewhere DEF Once
<1>5. Distinct' /\ Functions' /\ Counted'
  BY <1>1, <1>3, StaysDistinct DEF Once, Functions, Counted
<1>6. GrowsBy("none", Host, Host)
  <2>1. \A n \in Clients : SendsNoMore(n, "none", Host, Host)
    BY <1>1, Untouched
  <2> QED BY <1>1, <2>1, TablesShrink, Growth
<1> QED BY <1>1, <1>4, <1>5, <1>6, Dropped DEF Copies

\* The transposer of the host never takes a command for a duplicate: it runs the
\* handler, for the first time, and queues what comes of it.
HostRan(row, outcome) ==
    /\ row.parity \in Parities /\ row.client \in Clients
    /\ order[row.parity].from = row.client /\ order[row.parity].to = Host
    /\ runs[row.parity] = 0 /\ answers[row.parity] = 0
    /\ runs' = [runs EXCEPT ![row.parity] = 1]
    /\ hostDown' = hostDown \ {row}
    /\ hostUp' = hostUp \cup {[id |-> nextId[Host], client |-> row.client,
                               parity |-> row.parity, kind |-> outcome, target |-> Origin]}
    /\ nextId' = [nextId EXCEPT ![Host] = @ + 1]
    /\ IF outcome = "C210" THEN End({row.parity}, "muted") ELSE UNCHANGED closed
    /\ UNCHANGED <<client_vars, tasks, status, link, orphans, late, faults, order, answers>>

LEMMA HostProcessEffect ==
    ASSUME Once, NEW row \in hostDown, NEW outcome, HostProcess(row, outcome)
    PROVE  HostRan(row, outcome)
<1>1. /\ row.parity \in Parities /\ row.client \in Clients
      /\ order[row.parity].from = row.client /\ order[row.parity].to = Host
  BY DEF Once, TypeOK, DownRow, RoutedHome, HostAtHome
<1>2. In("arrived", Host, row.parity) /\ Outward("arrived", Host, row.parity)
  BY <1>1, NamesAssumption DEF In, Arrived, Outward
<1>3. runs[row.parity] = 0
  BY <1>1, <1>2 DEF Once, WhereRuns, Places, Nodes
<1>4. answers[row.parity] = 0
  BY <1>1, <1>3 DEF Once, Counted
<1>5. check_if_parity_id_is_registered(hostUp, row.parity, row.client)
  <2>1. ~In("queued", row.client, row.parity)
    BY <1>1, <1>2 DEF Once, OneCopy, Places, Nodes
  <2> QED BY <2>1 DEF In, Queued, check_if_parity_id_is_registered
<1> QED BY <1>1, <1>3, <1>4, <1>5 DEF HostRan, HostProcess, buffer_up_schedule, fault_vars

LEMMA HostProcessStep ==
    ASSUME Once, NEW row \in hostDown, NEW outcome, HostProcess(row, outcome)
    PROVE  /\ Copies'
           /\ In("arrived", Host, row.parity) /\ ~In("arrived", Host, row.parity)'
           /\ GrowsBy("queued", row.client, row.parity)
<1> DEFINE p == row.parity
           result == [id |-> nextId[Host], client |-> row.client, parity |-> p,
                      kind |-> outcome, target |-> Origin]
<1>1. HostRan(row, outcome) /\ TypeOK
  BY HostProcessEffect DEF Once
<1>2. /\ p \in Parities /\ runs[p] = 0 /\ answers[p] = 0 /\ runs' = [runs EXCEPT ![p] = 1]
      /\ order[p].to = Host /\ order[p].from = row.client /\ row.client \in Clients
      /\ hostDown' = hostDown \ {row}
      /\ hostUp' = hostUp \cup {result}
      /\ closed' = closed \/ End({p}, "muted")
      /\ UNCHANGED <<clientUp, clientDown, batch, running, holds, link, late, order, answers>>
  BY <1>1 DEF HostRan, client_vars
<1>3. result.client = row.client /\ result.parity = p
  OBVIOUS
<1> HIDE DEF result
<1>4. runs'[p] = 1 /\ \A q \in Parities \ {p} : runs'[q] = runs[q]
  BY <1>1, <1>2 DEF TypeOK
<1>5. \A q \in Parities : runs[q] = 1 => runs'[q] = 1
  BY <1>2, <1>4
<1>6. \A c \in Clients : AtClient(c)'
  BY <1>1, <1>2, <1>5, Elsewhere DEF Once
<1>7. Functions' /\ Counted'
  BY <1>2, <1>4 DEF Once, Functions, Counted
<1>8. In("arrived", Host, p) /\ ~In("arrived", Host, p)' /\ Scheduled(p)
  <2>1. In("arrived", Host, p)
    BY NamesAssumption DEF In, Arrived
  <2>2. ASSUME NEW d \in hostDown, d.parity = p
        PROVE  d = row
    BY <1>2, <2>2 DEF Once, TypeOK, DownRow, Functions, RoutedHome, HostAtHome
  <2>3. ~In("arrived", Host, p)'
    BY <1>2, <2>2, NamesAssumption DEF In, Arrived
  <2> QED BY <1>2, <2>1, <2>3, PlaceAt DEF Once, AtClient, Nodes
<1>9. Distinct'
  <2>1. \A q \in Parities : ~Scheduled(q) => closed'[q] = closed[q]
    BY <1>2, <1>8, Ended
  <2> QED BY <1>2, <1>4, <1>8, <2>1, StaysDistinct DEF Once
<1>10. GrowsBy("queued", row.client, p)
  <2>1. \A n \in Clients : SendsNoMore(n, "queued", row.client, p)
    BY <1>2, Untouched
  <2>2. HoldsNoMore("queued", row.client, p)
    BY <1>2, <1>3 DEF HoldsNoMore, Queued, Arrived, Answering
  <2> QED BY <2>1, <2>2, Growth
<1>11. /\ "arrived" \in Places /\ Host \in Nodes /\ answers'[p] = 0
       /\ ~Outward("queued", row.client, p)
  BY <1>2, NamesAssumption DEF Places, Nodes, Outward
<1>12. OneCopy' /\ WhereRuns'
  <2> HIDE DEF p
  <2> QED BY <1>2, <1>4, <1>8, <1>10, <1>11, Moved
<1> QED BY <1>6, <1>7, <1>8, <1>9, <1>10, <1>12 DEF Copies
-------------------------------------------------------------------------------
(* The invariant holds.                                                    *)

LEMMA OnceStep ==
    ASSUME Once, [Next]_vars
    PROVE  Copies'
<1>1. ASSUME NEW c \in Clients, ClientNext(c)
      PROVE  Copies'
  BY <1>1, ScheduleStep, ClientSendStep, ReceiveFailureStep, ReceiveReplyStep,
     ReceiveCommandStep, ProcessFunctionStep, QueueAnswerStep, ProcessResponseStep,
     TransposerPanicStep, ClientExpireStep
     DEF ClientNext
<1>2. ASSUME NEW c \in Clients, ConnectionNext(c)
      PROVE  Copies'
  BY <1>2, PingStep, RedirectStep, HostCommandStep, PanicStep, NothingMoves, BreakStep,
     ClientRestartStep
     DEF ConnectionNext
<1>3. CASE HostNext
  BY <1>3, HostProcessStep, HostExpireStep, HostRestartStep DEF HostNext
<1>4. CASE UNCHANGED vars
  <2>1. \A c \in Clients : AtClient(c)'
    BY <1>4, Elsewhere DEF Once, vars
  <2>2. Distinct' /\ Functions' /\ Counted'
    BY <1>4, StaysDistinct DEF Once, Functions, Counted, vars
  <2>3. GrowsBy("none", Host, Host)
    <3>1. \A n \in Clients : SendsNoMore(n, "none", Host, Host)
      BY <1>4, Untouched DEF vars
    <3> QED BY <1>4, <3>1, TablesShrink, Growth DEF vars
  <2>4. OneCopy' /\ WhereRuns'
    BY <1>4, <2>3, Dropped DEF vars
  <2> QED BY <2>1, <2>2, <2>4 DEF Copies
<1> QED BY <1>1, <1>2, <1>3, <1>4 DEF Next

LEMMA OnceInit == Init => Copies
<1> SUFFICES ASSUME Init
             PROVE  Copies
  OBVIOUS
<1>1. \A c \in Clients :
          /\ clientUp[c] = {} /\ clientDown[c] = {} /\ batch[c] = {} /\ running[c]
          /\ link[c].phase = "closed" /\ link[c].reply = Pong /\ late[c] = {} /\ holds[c] = {}
  BY DEF Init, Closed
<1>2. \A c \in Clients : AtClient(c)
  BY <1>1 DEF AtClient, Shape, Fetched, Written, LateApart, NotBoth, HeldApart, RowsOf, Late
<1>3. Distinct /\ Functions /\ Counted
  BY DEF Init, Distinct, Functions, Counted, Scheduled
<1>4. \A k, n, p : n \in Nodes => ~In(k, n, p)
  BY <1>1 DEF Init, In, Nodes, Sending, Live, Asked, Late, RowsOf, Refused, Coming, Queued,
              Arrived, Answering
<1> QED BY <1>2, <1>3, <1>4 DEF Copies, OneCopy, WhereRuns

LEMMA OnceAlways == Spec => []Once
<1>1. Init => Copies
  BY OnceInit
<1>2. TypeOK /\ RoutedHome /\ Copies /\ [Next]_vars => Copies'
  BY OnceStep DEF Once, Copies
<1>3. TypeOK /\ RoutedHome /\ Copies => Once
  BY DEF Once, Copies
<1> QED BY <1>1, <1>2, <1>3, TypeCorrect, Routed, PTL DEF Spec

\* No handler runs a command twice and no response is taken twice, although the
\* client keeps its row until it is confirmed and either side may die in between:
\* the send loop, the host's redirection and both transposers together.
THEOREM RunsOnce == Spec => []AtMostOnce
<1>1. Once => AtMostOnce
  BY DEF Once, Counted, AtMostOnce
<1> QED BY <1>1, OnceAlways, PTL

\* "already have a response!" and CommandAlreadyProcessed never meet a command that
\* is still on its way: whatever waits for a transposer or for the host is not in
\* the up table that it is compared with.
THEOREM NoneTakenForDuplicate == Spec => []NeverTakenForDuplicate
<1>1. ASSUME Once
      PROVE  NeverTakenForDuplicate
  <2>1. ASSUME NEW c \in Clients, NEW row \in clientDown[c]
        PROVE  check_if_parity_id_is_registered(clientUp[c], row.parity, c)
    BY <1>1 DEF Once, AtClient, NotBoth, check_if_parity_id_is_registered
  <2>2. ASSUME NEW row \in hostDown
        PROVE  check_if_parity_id_is_registered(hostUp, row.parity, row.client)
    <3>1. row.parity \in Parities /\ row.client \in Clients
      BY <1>1 DEF Once, TypeOK, DownRow
    <3>2. In("arrived", Host, row.parity)
      BY NamesAssumption DEF In, Arrived
    <3>3. ~In("queued", row.client, row.parity)
      BY <1>1, <3>1, <3>2 DEF Once, OneCopy, Places, Nodes
    <3> QED BY <3>3 DEF In, Queued, check_if_parity_id_is_registered
  <2>3. ASSUME NEW c \in Clients, NEW x \in Exchanges(c), x.request.kind = "Function",
               NEW n \in Clients
        PROVE  check_if_parity_id_is_registered(hostUp, x.request.parity, n)
    BY <1>1, <2>3, NotQueued
  <2> QED BY <2>1, <2>2, <2>3 DEF NeverTakenForDuplicate
<1> QED BY <1>1, OnceAlways, PTL
===============================================================================
