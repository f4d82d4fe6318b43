------------------------- MODULE HostRelayPromiseProofs ------------------------
(***************************************************************************)
(* What follows from a command being in one place at a time.  For any      *)
(* number of clients, parity ids and faults: HostRelay implements          *)
(* CommandPromise, nothing vanishes, the host remembers whom a response is *)
(* for, and the commands of one client for one target stay in order.       *)
(*                                                                         *)
(* The promise: a command that was refused, or whose handler returned      *)
(* nothing or failed, or whose response was refused, is Quiet: all that is *)
(* left of it are confirmations (C210), and that is for ever, so no        *)
(* handler runs it afterwards (Ends).                                      *)
(*                                                                         *)
(* Nothing vanishes: what is neither answered nor ended is in a table, in  *)
(* a reply or in the hands of a transposer, and a row that a confirmation  *)
(* removes is one that has moved on (Kept, Muted); while nobody had a      *)
(* reason to stop, no command is recorded as dropped (Calm).               *)
(*                                                                         *)
(* The origin: until a fault, a command that has left its sender and a     *)
(* response on its way back have their task (TasksFiled).                  *)
(*                                                                         *)
(* The order: the rows of a client are sent by their ids, with no older    *)
(* one left out (Orderly), so whoever still has a command to send has not  *)
(* sent a later one, and the host, which gives out rows by their ids too,  *)
(* keeps the order (Orders).                                               *)
(***************************************************************************)
EXTENDS HostRelayOnceProofs

\* Only a confirmation may be left of p.
Quiet(p) ==
    /\ \A c \in Clients :
          /\ ~Sending(c, p) /\ ~Refused(c, p)
          /\ Coming(c, p) => link[c].reply.kind = "C210"
    /\ \A n \in Nodes : ~Arrived(n, p) /\ ~Answering(n, p)
    /\ \A row \in hostUp : row.parity = p => row.kind = "C210"

Ends ==
    \A p \in Parities :
        /\ "refused" \in closed[p] => runs[p] = 0 /\ Quiet(p)
        /\ closed[p] \cap {"muted", "failed", "undelivered"} # {} => runs[p] = 1 /\ Quiet(p)

\* Nothing comes to p that is not a confirmation.
LEMMA QuietKept ==
    ASSUME NEW p \in Parities, Quiet(p),
           NEW l, NEW n, NEW q, GrowsBy(l, n, q), l = "none" \/ q # p,
           \A row \in hostUp' : row \in hostUp \/ row.parity # p,
           \A c \in Clients : \/ link'[c] = link[c]
                              \/ Coming(c, p)' => link'[c].reply.kind = "C210"
    PROVE  Quiet(p)'
<1>1. \A k \in Places \ {"none"} : \A m \in Nodes : In(k, m, p)' => In(k, m, p)
  BY DEF GrowsBy
<1>2. /\ \A c \in Clients : /\ Sending(c, p)' => Sending(c, p)
                            /\ Refused(c, p)' => Refused(c, p)
                            /\ Coming(c, p)' => Coming(c, p)
      /\ \A m \in Nodes : /\ Arrived(m, p)' => Arrived(m, p)
                          /\ Answering(m, p)' => Answering(m, p)
  BY <1>1 DEF In, Places, Nodes
<1> QED BY <1>2 DEF Quiet

\* A place that is left for none.
LEMMA LeftQuiet ==
    ASSUME Once, NEW p \in Parities, NEW k \in Places, NEW m \in Nodes, In(k, m, p), ~In(k, m, p)',
           NEW l, NEW n, NEW q, GrowsBy(l, n, q), q = p => ~In(l, n, p)',
           hostUp' \subseteq hostUp
    PROVE  Quiet(p)'
<1>1. ASSUME NEW j \in Places, NEW o \in Nodes
      PROVE  ~In(j, o, p)'
  BY <1>1 DEF Once, OneCopy, GrowsBy
<1>2. /\ \A c \in Clients : ~Sending(c, p)' /\ ~Refused(c, p)' /\ ~Coming(c, p)'
      /\ \A o \in Nodes : ~Arrived(o, p)' /\ ~Answering(o, p)' /\ ~Queued(o, p)'
  BY <1>1 DEF In, Places, Nodes
<1>3. \A row \in hostUp' : row.parity # p
  BY <1>2 DEF Queued, Once, TypeOK, UpRow, Nodes
<1> QED BY <1>2, <1>3 DEF Quiet

\* What is quiet is at none of the places where something can happen to it.
LEMMA QuietPlaces ==
    ASSUME NEW p \in Parities, Quiet(p)
    PROVE  /\ \A c \in Clients : ~In("sending", c, p) /\ ~In("refused", c, p)
           /\ \A n \in Nodes : ~In("arrived", n, p) /\ ~In("answering", n, p)
BY DEF Quiet, In, Nodes

LEMMA EndsKept ==
    ASSUME Once, Ends,
           \A p \in Parities : Scheduled(p) /\ Quiet(p) => Quiet(p)' /\ runs'[p] = runs[p],
           \A p \in Parities : \A e \in closed'[p] \ closed[p] :
               /\ e = "refused" => runs'[p] = 0 /\ Quiet(p)'
               /\ e \in {"muted", "failed", "undelivered"} => runs'[p] = 1 /\ Quiet(p)'
    PROVE  Ends'
<1> SUFFICES ASSUME NEW p \in Parities
             PROVE  /\ "refused" \in closed'[p] => runs'[p] = 0 /\ Quiet(p)'
                    /\ closed'[p] \cap {"muted", "failed", "undelivered"} # {}
                           => runs'[p] = 1 /\ Quiet(p)'
  BY DEF Ends
<1>1. closed[p] # {} => Scheduled(p)
  BY DEF Once, Distinct
<1>2. CASE "refused" \in closed[p] \/ closed[p] \cap {"muted", "failed", "undelivered"} # {}
  BY <1>1, <1>2 DEF Ends
<1>3. CASE ~("refused" \in closed[p] \/ closed[p] \cap {"muted", "failed", "undelivered"} # {})
  BY <1>3
<1> QED BY <1>2, <1>3

\* A step that loses copies or changes no ending.
LEMMA LostEnds ==
    ASSUME Once, Ends, UNCHANGED runs,
           \A p \in Parities : closed'[p] \subseteq closed[p] \cup {"lost"},
           \A p \in Parities : Scheduled(p) /\ Quiet(p) => Quiet(p)'
    PROVE  Ends'
BY EndsKept
-------------------------------------------------------------------------------
(* Every step is one of CommandPromise or changes nothing that it speaks   *)
(* of.                                                                     *)

Promises == Promise!Next \/ UNCHANGED <<order, runs, answers, closed>>

LEMMA Loses ==
    ASSUME TypeOK, NEW ps, End(ps, "lost"), \A q \in Parities : q \in ps => Scheduled(q),
           UNCHANGED <<order, runs, answers>>
    PROVE  Promises /\ \A p \in Parities : closed'[p] \subseteq closed[p] \cup {"lost"}
<1>1. \A p \in Parities : closed'[p] = IF p \in ps THEN closed[p] \cup {"lost"} ELSE closed[p]
  BY DEF End
<1>2. closed' = [p \in Parities |-> IF p \in ps \cap Parities THEN closed[p] \cup {"lost"}
                                    ELSE closed[p]]
  BY DEF End
<1>3. Promise!Lose(ps \cap Parities)
  BY <1>2 DEF Promise!Lose, Scheduled
<1> QED BY <1>1, <1>3 DEF Promises, Promise!Next

\* What is lost with a reply was in use.
LEMMA ReplyPromises ==
    ASSUME Once, NEW c \in Clients, NEW x \in Exchanges(c), NEW message, Reply(c, x, message),
           message.parity \in Parities => Scheduled(message.parity),
           UNCHANGED <<order, runs, answers>>
    PROVE  /\ Promises
           /\ \A p \in Parities : closed'[p] \subseteq closed[p] \cup {"lost"}
           /\ \A d \in Clients :
                 \/ link'[d] = link[d]
                 \/ d = c /\ link'[c] = [phase |-> "reply", request |-> x.request, reply |-> message]
<1>1. ASSUME UNCHANGED closed
      PROVE  Promises
  BY <1>1 DEF Promises
<1>2. ASSUME End(LostWith(message), "lost")
      PROVE  Promises /\ \A p \in Parities : closed'[p] \subseteq closed[p] \cup {"lost"}
  <2>1. \A q \in Parities : q \in LostWith(message) => Scheduled(q)
    BY DEF LostWith
  <2> QED BY <1>2, <2>1, Loses DEF Once
<1>3. ASSUME NEW d \in Clients
      PROVE  \/ link'[d] = link[d]
             \/ d = c /\ link'[c] = [phase |-> "reply", request |-> x.request, reply |-> message]
  <2>1. CASE x.live
    <3>1. link[c].request = x.request
      BY <2>1 DEF Exchanges
    <3> QED BY <2>1, <3>1 DEF Reply, Once, TypeOK
  <2>2. CASE ~x.live
    BY <2>2 DEF Reply
  <2> QED BY <2>1, <2>2
<1>4. UNCHANGED closed \/ End(LostWith(message), "lost")
  BY DEF Reply
<1> QED BY <1>1, <1>2, <1>3, <1>4

\* The steps of a connection that bring nothing to a new place.
LEMMA StillQuiet ==
    ASSUME NEW n, NEW q, GrowsBy("none", n, q), hostUp' \subseteq hostUp,
           \A d \in Clients : link'[d] = link[d] \/ link'[d].phase # "reply"
    PROVE  \A p \in Parities : Quiet(p) => Quiet(p)'
<1>1. \A d \in Clients : \A p : link'[d].phase # "reply" => ~Coming(d, p)'
  BY DEF Coming
<1> QED BY <1>1, QuietKept

LEMMA SchedulePromise ==
    ASSUME Once, Ends, NEW c \in Clients, NEW p \in Parities, NEW target \in Clients \cup {Host},
           Schedule(c, p, target)
    PROVE  Promises /\ Ends'
<1>1. /\ ~Scheduled(p) /\ target # c
      /\ UNCHANGED <<link, hostUp, runs, answers, closed>>
      /\ order' = [order EXCEPT ![p] = [from |-> c, to |-> target,
             after |-> {q \in Parities : order[q].from = c /\ order[q].to = target}]]
  BY DEF Schedule, host_vars
<1>2. {q \in Parities : order[q].from = c /\ order[q].to = target}
         \in SUBSET {q \in Parities : order[q] # NoOrder}
  BY NamesAssumption DEF NoOrder
<1>3. Promise!Issue(p, c, target)
  BY <1>1, <1>2 DEF Promise!Issue, Scheduled
<1>4. Promises
  BY <1>3 DEF Promises, Promise!Next
<1>5. GrowsBy("sending", c, p)
  BY ScheduleStep
<1>6. \A q \in Parities : Scheduled(q) /\ Quiet(q) => Quiet(q)'
  BY <1>1, <1>5, QuietKept
<1> QED BY <1>1, <1>4, <1>6, LostEnds

LEMMA ClientSendPromise ==
    ASSUME Once, Ends, NEW c \in Clients, ClientSend(c)
    PROVE  Promises /\ Ends'
<1>1. /\ UNCHANGED <<hostUp, order, runs, answers, closed>>
      /\ \A d \in Clients : link'[d] = link[d] \/ link'[d].phase # "reply"
  BY DEF ClientSend, host_vars, history_vars, Once, TypeOK
<1>2. GrowsBy("none", c, c)
  BY ClientSendEffect
<1>3. \A p \in Parities : Quiet(p) => Quiet(p)'
  BY <1>1, <1>2, StillQuiet
<1> QED BY <1>1, <1>3, LostEnds DEF Promises

\* The client reads a Failure: a command that it sent was not taken and never
\* runs, the one that a ping brought back has failed, a response stays undelivered.
LEMMA FailurePromise ==
    ASSUME Once, Ends, NEW c \in Clients, ReceiveFailure(c)
    PROVE  Promises /\ Ends'
<1> SUFFICES ASSUME NEW p, p = link[c].reply.parity
             PROVE  Promises /\ Ends'
  OBVIOUS
<1>1. /\ link[c].phase = "reply" /\ link[c].reply.kind = "Failure"
      /\ UNCHANGED <<hostUp, order, runs, answers>>
      /\ link' = [link EXCEPT ![c] = Closed]
      /\ End({p}, CASE link[c].request.kind = "C206" -> "failed"
                    [] link[c].request.kind = "Function" -> "refused"
                    [] OTHER -> "undelivered")
  BY DEF ReceiveFailure, Stop, host_vars
<1>2. /\ link'[c].phase = "closed"
      /\ \A d \in Clients : link'[d] = link[d] \/ link'[d].phase # "reply"
  BY <1>1 DEF Closed, Once, TypeOK
<1>3. GrowsBy("none", c, c) /\ ~In("coming", c, p)' /\ ~In("refused", c, p)'
  BY <1>2, ReceiveFailureEffect DEF In, Coming, Refused
<1>4. \A q \in Parities : Quiet(q) => Quiet(q)'
  BY <1>1, <1>2, <1>3, StillQuiet
<1>5. c \in Nodes /\ "coming" \in Places /\ "refused" \in Places /\ c # Host
  BY NamesAssumption DEF Nodes, Places
<1>6. CASE link[c].request.kind = "C206"
  <2>1. p \in Parities /\ DeliveryAtHome(c, link[c].reply)
    BY <1>1, <1>6 DEF Once, AtClient, Fetched, Pong
  <2>2. In("coming", c, p)
    BY <1>1, <1>6 DEF In, Coming
  <2>3. Quiet(p)'
    BY <1>1, <1>3, <1>5, <2>1, <2>2, LeftQuiet DEF In
  <2>4. order[p].from = c
    BY <1>1, <2>1 DEF DeliveryAtHome
  <2>5. ~Outward("coming", c, p)
    <3>1. Scheduled(p)
      BY <1>5, <2>1, <2>2, PlaceAt DEF Once, AtClient
    <3> QED BY <2>1, <2>4, <3>1 DEF Outward, Once, Distinct
  <2>6. runs[p] = 1 /\ answers[p] = 0
    BY <1>5, <2>1, <2>2, <2>5 DEF Once, WhereRuns
  <2>7. End({p}, "failed")
    BY <1>1, <1>6
  <2>8. closed' = [closed EXCEPT ![p] = @ \cup {"failed"}]
    BY <2>1, <2>7 DEF End, Once, TypeOK
  <2>9. Promises
    BY <1>1, <2>1, <2>6, <2>8 DEF Promises, Promise!Next, Promise!Reject
  <2>10. \A q \in Parities : \A e \in closed'[q] \ closed[q] : q = p /\ e = "failed"
    BY <2>7 DEF End
  <2> QED BY <1>1, <1>4, <2>3, <2>6, <2>9, <2>10, EndsKept
<1>7. CASE link[c].request.kind # "C206"
  <2>1. Refused(c, p)
    BY <1>1, <1>7 DEF Refused, Once, AtClient, Shape, Confirmation, Refusal
  <2>2. In("refused", c, p)
    BY <2>1 DEF In
  <2>3. link[c].request.parity = p /\ link[c].request # Ping
    BY <1>7, <2>1 DEF Refused, Ping
  <2>4. /\ p \in Parities
        /\ OwnCommand(c, link[c].request) \/ OwnResponse(c, link[c].request)
    BY <1>1, <2>3, RequestAt DEF Once
  <2>5. Scheduled(p)
    BY <1>5, <2>2, <2>4, PlaceAt DEF Once, AtClient
  <2>6. Quiet(p)'
    BY <1>1, <1>3, <1>5, <2>2, <2>4, LeftQuiet DEF In
  <2>7. CASE link[c].request.kind = "Function"
    <3>1. Outward("refused", c, p)
      BY <2>3, <2>4, <2>7 DEF Outward, OwnCommand, OwnResponse
    <3>2. runs[p] = 0
      BY <1>5, <2>2, <2>4, <3>1 DEF Once, WhereRuns
    <3>3. End({p}, "refused")
      BY <1>1, <2>7
    <3>4. closed' = [closed EXCEPT ![p] = @ \cup {"refused"}]
      BY <2>4, <3>3 DEF End, Once, TypeOK
    <3>5. Promises
      BY <1>1, <2>4, <2>5, <3>2, <3>4
         DEF Promises, Promise!Next, Promise!Reject, Scheduled
    <3>6. \A q \in Parities : \A e \in closed'[q] \ closed[q] : q = p /\ e = "refused"
      BY <3>3 DEF End
    <3> QED BY <1>1, <1>4, <2>6, <3>2, <3>5, <3>6, EndsKept
  <2>8. CASE link[c].request.kind # "Function"
    <3>1. /\ ~Outward("refused", c, p)
          /\ order[p].from # order[p].to
      BY <2>3, <2>4, <2>5, <2>8 DEF Outward, OwnCommand, OwnResponse, Once, Distinct
    <3>2. runs[p] = 1 /\ answers[p] = 0
      BY <1>5, <2>2, <2>4, <3>1 DEF Once, WhereRuns
    <3>3. End({p}, "undelivered")
      BY <1>1, <1>7, <2>8
    <3>4. closed' = [closed EXCEPT ![p] = @ \cup {"undelivered"}]
      BY <2>4, <3>3 DEF End, Once, TypeOK
    <3>5. Promises
      BY <1>1, <2>4, <3>2, <3>4 DEF Promises, Promise!Next, Promise!Reject
    <3>6. \A q \in Parities : \A e \in closed'[q] \ closed[q] : q = p /\ e = "undelivered"
      BY <3>3 DEF End
    <3> QED BY <1>1, <1>4, <2>6, <3>2, <3>5, <3>6, EndsKept
  <2> QED BY <2>7, <2>8
<1> QED BY <1>6, <1>7

LEMMA ReceivePromise ==
    ASSUME Once, Ends, NEW c \in Clients, ReceiveConfirmation(c) \/ ReceivePong(c)
    PROVE  Promises /\ Ends'
<1>1. /\ UNCHANGED <<hostUp, order, runs, answers, closed>>
      /\ \A d \in Clients : link'[d] = link[d] \/ link'[d].phase # "reply"
  BY DEF ReceiveConfirmation, ReceivePong, Idle, host_vars, history_vars, Once, TypeOK
<1>2. GrowsBy("none", c, c)
  BY ConfirmationEffect, PongEffect
<1>3. \A p \in Parities : Quiet(p) => Quiet(p)'
  BY <1>1, <1>2, StillQuiet
<1> QED BY <1>1, <1>3, LostEnds DEF Promises

LEMMA CommandPromiseStep ==
    ASSUME Once, Ends, NEW c \in Clients, ReceiveCommand(c)
    PROVE  Promises /\ Ends'
<1> SUFFICES ASSUME NEW p, p = link[c].reply.parity
             PROVE  Promises /\ Ends'
  OBVIOUS
<1>1. /\ link[c].phase = "reply" /\ link[c].reply.kind \in {"Function", "Response"}
      /\ UNCHANGED <<hostUp, order, runs, answers, closed>>
      /\ \A d \in Clients : link'[d] = link[d] \/ link'[d].phase # "reply"
  BY DEF ReceiveCommand, Idle, host_vars, history_vars, Once, TypeOK
<1>2. p \in Parities /\ In("coming", c, p) /\ GrowsBy("arrived", c, p)
  BY CommandEffect
<1>3. ~Quiet(p)
  BY <1>1, <1>2 DEF In, Quiet
<1>4. \A d \in Clients : \A q : link'[d].phase # "reply" => ~Coming(d, q)'
  BY DEF Coming
<1>5. \A q \in Parities : Quiet(q) => Quiet(q)'
  BY <1>1, <1>2, <1>3, <1>4, QuietKept
<1> QED BY <1>1, <1>5, LostEnds DEF Promises

LEMMA ProcessFunctionPromise ==
    ASSUME Once, Ends, NEW c \in Clients, NEW row \in clientDown[c], NEW responds \in BOOLEAN,
           ProcessFunction(c, row, responds)
    PROVE  Promises /\ Ends'
<1> SUFFICES ASSUME NEW p, p = row.parity
             PROVE  Promises /\ Ends'
  OBVIOUS
<1>1. Ran(c, row, responds) /\ c \in Nodes /\ c # Host /\ "arrived" \in Places
  BY ProcessFunctionEffect, NamesAssumption DEF Nodes, Places
<1>2. /\ p \in Parities /\ In("arrived", c, p) /\ ~In("arrived", c, p)'
      /\ GrowsBy("answering", c, p)
  BY <1>1, ProcessFunctionStep DEF Ran
<1>3. Scheduled(p)
  BY <1>1, <1>2, PlaceAt DEF Once, AtClient
<1>4. ~Quiet(p)
  BY <1>1, <1>2, QuietPlaces
<1>5. UNCHANGED <<hostUp, link, order, answers, batch, running, late>> /\ runs[p] = 0
      /\ runs' = [runs EXCEPT ![p] = 1]
  BY <1>1 DEF Ran
<1>6. \A q \in Parities : Quiet(q) => Quiet(q)'
  BY <1>2, <1>4, <1>5, QuietKept
<1>7. runs'[p] = 1 /\ \A q \in Parities \ {p} : runs'[q] = runs[q]
  BY <1>2, <1>5 DEF Once, TypeOK
<1>8. closed[p] = {} \/ closed[p] \subseteq {"lost"}
  BY <1>2, <1>4 DEF Ends, Once, TypeOK, Endings
<1>9. CASE responds
  <2>1. UNCHANGED closed
    BY <1>1, <1>9 DEF Ran
  <2>2. Promise!Execute(p, FALSE)
    BY <1>3, <1>5, <1>8, <2>1 DEF Promise!Execute, Scheduled, Once, TypeOK
  <2>3. Promises
    BY <1>2, <2>2 DEF Promises, Promise!Next
  <2> QED BY <1>4, <1>6, <1>7, <2>1, <2>3, EndsKept
<1>10. CASE ~responds
  <2>1. End({p}, "muted") /\ UNCHANGED holds
    BY <1>1, <1>10 DEF Ran
  <2>2. closed' = [closed EXCEPT ![p] = @ \cup {"muted"}]
    BY <1>2, <2>1 DEF End, Once, TypeOK
  <2>3. Promise!Execute(p, TRUE)
    BY <1>3, <1>5, <1>8, <2>2 DEF Promise!Execute, Scheduled
  <2>4. Promises
    BY <1>2, <2>3 DEF Promises, Promise!Next
  <2>5. ~In("answering", c, p)
    BY <1>1, <1>2 DEF Once, OneCopy, Places
  <2>6. ~In("answering", c, p)'
    BY <2>1, <2>5 DEF In, Answering
  <2>7. Quiet(p)'
    BY <1>1, <1>2, <1>5, <2>6, LeftQuiet
  <2>8. \A q \in Parities : \A e \in closed'[q] \ closed[q] : q = p /\ e = "muted"
    BY <2>1 DEF End
  <2> QED BY <1>4, <1>6, <1>7, <2>4, <2>7, <2>8, EndsKept
<1> QED BY <1>9, <1>10

LEMMA QueueAnswerPromise ==
    ASSUME Once, Ends, NEW c \in Clients, QueueAnswer(c)
    PROVE  Promises /\ Ends'
<1>1. UNCHANGED <<hostUp, link, order, runs, answers, closed>>
  BY DEF QueueAnswer, host_vars, history_vars
<1>2. PICK p \in holds[c] : In("answering", c, p) /\ GrowsBy("sending", c, p)
  BY QueueAnswerStep
<1>3. p \in Parities /\ ~Quiet(p)
  BY <1>2, QuietPlaces DEF Nodes, Once, TypeOK
<1>4. \A q \in Parities : Quiet(q) => Quiet(q)'
  BY <1>1, <1>2, <1>3, QuietKept
<1> QED BY <1>1, <1>4, LostEnds DEF Promises

LEMMA TransposerPanicPromise ==
    ASSUME Once, Ends, NEW c \in Clients, TransposerPanic(c)
    PROVE  Promises /\ Ends'
<1>1. UNCHANGED <<hostUp, link, order, runs, answers>> /\ End(holds[c], "lost")
  BY DEF TransposerPanic, host_vars
<1>2. \A q \in Parities : q \in holds[c] => Scheduled(q)
  BY PlaceAt DEF In, Answering, Nodes, Once, AtClient
<1>3. Promises /\ \A p \in Parities : closed'[p] \subseteq closed[p] \cup {"lost"}
  BY <1>1, <1>2, Loses DEF Once
<1>4. \A p \in Parities : Quiet(p) => Quiet(p)'
  BY <1>1, TransposerPanicStep, StillQuiet
<1> QED BY <1>1, <1>3, <1>4, LostEnds

LEMMA ProcessResponsePromise ==
    ASSUME Once, Ends, NEW c \in Clients, NEW row \in clientDown[c], ProcessResponse(c, row)
    PROVE  Promises /\ Ends'
<1> SUFFICES ASSUME NEW p, p = row.parity
             PROVE  Promises /\ Ends'
  OBVIOUS
<1>1. Taken(c, row) /\ c \in Nodes
  BY ProcessResponseEffect DEF Nodes
<1>2. p \in Parities /\ In("arrived", c, p) /\ GrowsBy("none", c, p)
  BY <1>1, ProcessResponseStep DEF Taken
<1>3. ~Quiet(p)
  BY <1>1, <1>2, QuietPlaces
<1>4. /\ UNCHANGED <<hostUp, link, order, runs, closed>>
      /\ runs[p] = 1 /\ answers[p] = 0 /\ answers' = [answers EXCEPT ![p] = 1]
  BY <1>1 DEF Taken
<1>5. closed[p] \cap {"muted", "failed", "undelivered"} = {}
  BY <1>2, <1>3 DEF Ends
<1>6. Promise!Answer(p)
  BY <1>4, <1>5 DEF Promise!Answer
<1>7. Promises
  BY <1>2, <1>6 DEF Promises, Promise!Next
<1>8. \A q \in Parities : Quiet(q) => Quiet(q)'
  BY <1>2, <1>4, QuietKept
<1> QED BY <1>4, <1>7, <1>8, LostEnds

\* A row of the up table of a client is of a command in use.
LEMMA UpInUse ==
    ASSUME Once, NEW c \in Clients, NEW row \in RowsOf(c)
    PROVE  row.parity \in Parities /\ Scheduled(row.parity)
BY RowAt, NamesAssumption DEF Once, OwnCommand, OwnResponse, Scheduled, NoOrder

LEMMA ClientExpirePromise ==
    ASSUME Once, Ends, NEW c \in Clients, NEW row \in clientUp[c] \cup clientDown[c],
           ClientExpire(c, row)
    PROVE  Promises /\ Ends'
<1>1. UNCHANGED <<hostUp, link, order, runs, answers>> /\ End({row.parity}, "lost")
  BY DEF ClientExpire, host_vars
<1>2. GrowsBy("none", c, c)
  BY ClientExpireStep
<1>3. Scheduled(row.parity)
  BY RowInTables DEF ParitiesOf
<1>4. Promises /\ \A p \in Parities : closed'[p] \subseteq closed[p] \cup {"lost"}
  BY <1>1, <1>3, Loses DEF Once
<1>5. \A p \in Parities : Quiet(p) => Quiet(p)'
  BY <1>1, <1>2, StillQuiet
<1> QED BY <1>1, <1>4, <1>5, LostEnds

LEMMA PingPromise ==
    ASSUME Once, Ends, NEW c \in Clients, NEW x \in Exchanges(c), HandlePing(c, x)
    PROVE  Promises /\ Ends'
<1>1. UNCHANGED <<order, runs, answers>>
  BY DEF HandlePing
<1>2. CASE Reply(c, x, Pong) /\ UNCHANGED hostUp /\ GrowsBy("none", c, c)
  <2>1. /\ Promises
        /\ \A p \in Parities : closed'[p] \subseteq closed[p] \cup {"lost"}
        /\ \A d \in Clients :
              \/ link'[d] = link[d]
              \/ d = c /\ link'[c] = [phase |-> "reply", request |-> x.request, reply |-> Pong]
    BY <1>1, <1>2, NamesAssumption, ReplyPromises DEF Pong
  <2>2. \A d \in Clients : \A q \in Parities :
            link'[d] = link[d] \/ ~Coming(d, q)'
    BY <2>1, NamesAssumption DEF Coming, Pong
  <2>3. \A p \in Parities : Quiet(p) => Quiet(p)'
    BY <1>2, <2>2, QuietKept
  <2> QED BY <1>1, <2>1, <2>3, LostEnds
<1>3. ASSUME NEW row \in hostUp, row.client = c, Reply(c, x, AsMessage(row)), hostUp' \subseteq hostUp,
             In("queued", c, row.parity), GrowsBy("coming", c, row.parity)
      PROVE  Promises /\ Ends'
  <2>1. row.parity \in Parities /\ c \in Nodes /\ "queued" \in Places
    BY DEF Once, TypeOK, UpRow, Nodes, Places
  <2>2. Scheduled(row.parity)
    BY <1>3, <2>1, PlaceAt DEF Once, AtClient
  <2>3. AsMessage(row).parity = row.parity /\ AsMessage(row).kind = row.kind
    BY DEF AsMessage
  <2>4. /\ Promises
        /\ \A p \in Parities : closed'[p] \subseteq closed[p] \cup {"lost"}
        /\ \A d \in Clients :
              \/ link'[d] = link[d]
              \/ d = c /\ link'[c] = [phase |-> "reply", request |-> x.request,
                                      reply |-> AsMessage(row)]
    BY <1>1, <1>3, <2>2, <2>3, ReplyPromises
  <2>5. ASSUME NEW p \in Parities, Quiet(p)
        PROVE  Quiet(p)'
    <3>1. row.parity = p => row.kind = "C210"
      BY <2>5 DEF Quiet
    <3>2. \A d \in Clients :
              link'[d] = link[d] \/ (Coming(d, p)' => link'[d].reply.kind = "C210")
      BY <2>3, <2>4, <3>1 DEF Coming
    <3>3. /\ \A d \in Clients : /\ Sending(d, p)' => Sending(d, p)
                                /\ Refused(d, p)' => Refused(d, p)
                                /\ Coming(d, p)' => link'[d].reply.kind = "C210"
          /\ \A m \in Nodes : /\ Arrived(m, p)' => Arrived(m, p)
                              /\ Answering(m, p)' => Answering(m, p)
      <4>1. \A k \in {"sending", "refused", "arrived", "answering"} :
                \A m \in Nodes : In(k, m, p)' => In(k, m, p)
        BY <1>3 DEF GrowsBy, Places
      <4>2. \A d \in Clients : link'[d] = link[d] => (Coming(d, p)' => Coming(d, p))
        BY DEF Coming
      <4> QED BY <2>5, <3>2, <4>1, <4>2 DEF In, Nodes, Quiet
    <3> QED BY <1>3, <2>5, <3>3 DEF Quiet
  <2> QED BY <1>1, <2>4, <2>5, LostEnds
<1> QED BY <1>2, <1>3, PingStep

\* What the host does with a command for another client, and with a response.
LEMMA ForwardMove ==
    ASSUME Once, NEW c \in Clients, NEW x \in Exchanges(c),
           HandleRedirect(c, x) \/ HandleResponse(c, x), NEW p, p = x.request.parity
    PROVE  /\ p \in Parities /\ Scheduled(p)
           /\ x.request.kind \in {"Function", "Response"}
           /\ UNCHANGED <<client_vars, hostDown, faults, order, runs, answers>>
           /\ In("sending", c, p) /\ ~In("sending", c, p)'
           /\ \/ /\ Reply(c, x, Refusal(p)) /\ UNCHANGED hostUp
                 /\ GrowsBy("refused", c, p)
              \/ \E target \in Clients :
                 /\ target = IF x.request.kind = "Function" THEN order[p].to ELSE order[p].from
                 /\ Reply(c, x, Confirmation(p))
                 /\ hostUp' = hostUp \cup {[id |-> nextId[Host], client |-> target,
                        parity |-> p, kind |-> x.request.kind, target |-> Origin]}
                 /\ GrowsBy("queued", target, p)
<1> DEFINE Target(n) ==
        n = IF x.request.kind = "Function" THEN order[p].to ELSE order[p].from
<1>1. \E target \in Clients :
        /\ x.request.kind \in {"Function", "Response"} /\ Target(target)
        /\ Refuse(c, x) \/ Forward(c, x, target)
        /\ hostDown' = hostDown
        /\ UNCHANGED <<client_vars, faults, order, runs, answers>>
  BY RedirectRequest, ResponseRequest
<1>2. p \in Parities /\ Scheduled(p)
  BY <1>1, RequestSent
<1>3. CASE Refuse(c, x)
  BY <1>1, <1>2, <1>3, RefuseStep DEF Refuse
<1>4. CASE ~Refuse(c, x)
  <2>1. PICK target \in Clients :
          /\ x.request.kind \in {"Function", "Response"} /\ Target(target)
          /\ Forward(c, x, target) /\ hostDown' = hostDown
          /\ UNCHANGED <<client_vars, faults, order, runs, answers>>
    BY <1>1, <1>4
  <2>2. /\ In("sending", c, p) /\ ~In("sending", c, p)' /\ GrowsBy("queued", target, p)
    BY <2>1, ForwardStep
  <2>3. /\ status[target] = "Online" /\ Reply(c, x, Confirmation(p))
        /\ hostUp' = hostUp \cup {[id |-> nextId[Host], client |-> target,
               parity |-> p, kind |-> x.request.kind, target |-> Origin]}
    BY <2>1 DEF Forward, buffer_up_schedule
  <2> QED BY <1>2, <2>1, <2>2, <2>3
<1> QED BY <1>3, <1>4

LEMMA ForwardPromise ==
    ASSUME Once, Ends, NEW c \in Clients, NEW x \in Exchanges(c),
           HandleRedirect(c, x) \/ HandleResponse(c, x)
    PROVE  Promises /\ Ends'
<1> SUFFICES ASSUME NEW p, p = x.request.parity
             PROVE  Promises /\ Ends'
  OBVIOUS
<1>1. /\ p \in Parities /\ Scheduled(p)
      /\ x.request.kind \in {"Function", "Response"}
      /\ UNCHANGED <<order, runs, answers>> /\ In("sending", c, p)
  BY ForwardMove
<1>2. ~Quiet(p)
  BY <1>1, QuietPlaces
<1>3. ASSUME NEW l, NEW n, GrowsBy(l, n, p), NEW message, Reply(c, x, message),
             message.parity = p, \A row \in hostUp' : row \in hostUp \/ row.parity = p
      PROVE  Promises /\ Ends'
  <2>1. /\ Promises
        /\ \A q \in Parities : closed'[q] \subseteq closed[q] \cup {"lost"}
        /\ \A d \in Clients :
              \/ link'[d] = link[d]
              \/ d = c /\ link'[c] = [phase |-> "reply", request |-> x.request, reply |-> message]
    BY <1>1, <1>3, ReplyPromises
  <2>2. \A d \in Clients : \A q : link'[d] = link[d] \/ ~Coming(d, q)'
    BY <1>1, <2>1 DEF Coming
  <2>3. ASSUME NEW q \in Parities, Quiet(q)
        PROVE  Quiet(q)'
    BY <1>2, <1>3, <2>2, <2>3, QuietKept
  <2> QED BY <1>1, <2>1, <2>3, LostEnds
<1>4. CASE /\ Reply(c, x, Refusal(p)) /\ UNCHANGED hostUp
           /\ GrowsBy("refused", c, p)
  BY <1>3, <1>4 DEF Refusal
<1>5. ASSUME NEW target \in Clients, Reply(c, x, Confirmation(p)), GrowsBy("queued", target, p),
             hostUp' = hostUp \cup {[id |-> nextId[Host], client |-> target,
                        parity |-> p, kind |-> x.request.kind, target |-> Origin]}
      PROVE  Promises /\ Ends'
  BY <1>3, <1>5 DEF Confirmation
<1> QED BY <1>4, <1>5, ForwardMove

LEMMA HostCommandPromise ==
    ASSUME Once, Ends, NEW c \in Clients, NEW x \in Exchanges(c), HandleHostCommand(c, x)
    PROVE  Promises /\ Ends'
<1> SUFFICES ASSUME NEW p, p = x.request.parity
             PROVE  Promises /\ Ends'
  OBVIOUS
<1>1. /\ x.request.kind = "Function" /\ UNCHANGED <<hostUp, order, runs, answers>>
      /\ \/ Reply(c, x, Confirmation(p)) /\ GrowsBy("arrived", Host, p)
         \/ Reply(c, x, Refusal(p)) /\ GrowsBy("refused", c, p)
  BY HostCommandRequest, HostTakesStep, RefuseStep DEF HostTakes, Refuse
<1>2. p \in Parities /\ Scheduled(p) /\ In("sending", c, p)
  BY <1>1, RequestSent
<1>3. ~Quiet(p)
  BY <1>2, QuietPlaces
<1>4. PICK message \in {Confirmation(p), Refusal(p)} : Reply(c, x, message)
  BY <1>1
<1>5. /\ Promises
      /\ \A q \in Parities : closed'[q] \subseteq closed[q] \cup {"lost"}
      /\ \A d \in Clients :
            \/ link'[d] = link[d]
            \/ d = c /\ link'[c] = [phase |-> "reply", request |-> x.request,
                                    reply |-> message]
  BY <1>1, <1>2, <1>4, ReplyPromises DEF Confirmation, Refusal
<1>6. \A d \in Clients : \A q : link'[d] = link[d] \/ ~Coming(d, q)'
  BY <1>1, <1>5 DEF Coming
<1>7. ASSUME NEW q \in Parities, Quiet(q)
      PROVE  Quiet(q)'
  BY <1>1, <1>2, <1>3, <1>6, <1>7, QuietKept
<1> QED BY <1>1, <1>5, <1>7, LostEnds

LEMMA ConnectionPromise ==
    ASSUME Once, Ends, NEW c \in Clients,
           \/ \E x \in Exchanges(c) : HandlerPanic(c, x)
           \/ Connect(c) \/ Resync(c) \/ Synced(c) \/ NoticeDisconnect(c)
    PROVE  Promises /\ Ends'
<1>1. UNCHANGED <<hostUp, order, runs, answers, closed>>
  BY DEF HandlerPanic, Connect, Resync, Synced, NoticeDisconnect, host_vars, history_vars
<1>2. \A d \in Clients : link'[d] = link[d] \/ link'[d].phase # "reply"
  BY DEF HandlerPanic, Connect, Resync, Synced, NoticeDisconnect, Once, TypeOK, Closed, Idle
<1>3. GrowsBy("none", c, c)
  BY PanicStep, NothingMoves
<1>4. \A p \in Parities : Quiet(p) => Quiet(p)'
  BY <1>1, <1>2, <1>3, StillQuiet
<1> QED BY <1>1, <1>4, LostEnds DEF Promises

LEMMA BreakPromise ==
    ASSUME Once, Ends, NEW c \in Clients, NEW stops \in BOOLEAN, NEW arrives \in BOOLEAN,
           Break(c, stops, arrives)
    PROVE  Promises /\ Ends'
<1>1. /\ UNCHANGED <<hostUp, order, runs, answers>>
      /\ End(LostWith(link[c].reply), "lost")
      /\ \A d \in Clients : link'[d] = link[d] \/ link'[d].phase # "reply"
  BY DEF Break, Stop, host_vars, Once, TypeOK, Closed
<1>2. Promises /\ \A p \in Parities : closed'[p] \subseteq closed[p] \cup {"lost"}
  BY <1>1, HeldByReply, Loses DEF Once
<1>3. \A p \in Parities : Quiet(p) => Quiet(p)'
  BY <1>1, BreakStep, StillQuiet
<1> QED BY <1>1, <1>2, <1>3, LostEnds

LEMMA ClientRestartPromise ==
    ASSUME Once, Ends, NEW c \in Clients, ClientRestart(c)
    PROVE  Promises /\ Ends'
<1>1. /\ UNCHANGED <<hostUp, link, order, runs, answers>>
      /\ End(ParitiesOf(clientUp[c]) \cup ParitiesOf(clientDown[c]) \cup holds[c], "lost")
  BY DEF ClientRestart, host_vars, fault_vars
<1>2. ASSUME NEW q \in Parities,
             q \in ParitiesOf(clientUp[c]) \cup ParitiesOf(clientDown[c]) \cup holds[c]
      PROVE  Scheduled(q)
  <2>1. q \in holds[c] => Scheduled(q)
    BY PlaceAt DEF In, Answering, Nodes, Once, AtClient
  <2> QED BY <1>2, <2>1, RowInTables
<1>3. Promises /\ \A p \in Parities : closed'[p] \subseteq closed[p] \cup {"lost"}
  BY <1>1, <1>2, Loses DEF Once
<1>4. \A p \in Parities : Quiet(p) => Quiet(p)'
  BY <1>1, ClientRestartStep, StillQuiet
<1> QED BY <1>1, <1>3, <1>4, LostEnds

\* A row in the host's tables is of a command in use.
LEMMA HostInUse ==
    ASSUME Once
    PROVE  /\ \A row \in hostUp : row.parity \in Parities /\ Scheduled(row.parity)
           /\ \A row \in hostDown : row.parity \in Parities /\ Scheduled(row.parity)
<1>1. ASSUME NEW row \in hostUp
      PROVE  row.parity \in Parities /\ Scheduled(row.parity)
  <2>1. row.parity \in Parities /\ row.client \in Nodes
    BY DEF Once, TypeOK, UpRow, Nodes
  <2>2. In("queued", row.client, row.parity)
    BY DEF In, Queued
  <2> QED BY <2>1, <2>2, PlaceAt DEF Once, AtClient
<1>2. ASSUME NEW row \in hostDown
      PROVE  row.parity \in Parities /\ Scheduled(row.parity)
  <2>1. row.parity \in Parities /\ Host \in Nodes
    BY DEF Once, TypeOK, DownRow, Nodes
  <2>2. In("arrived", Host, row.parity)
    BY NamesAssumption DEF In, Arrived
  <2> QED BY <2>1, <2>2, PlaceAt DEF Once, AtClient
<1> QED BY <1>1, <1>2

\* What the host forgets when it is started again.
LEMMA HostRestartPromise ==
    ASSUME Once, Ends, NEW survivors \in SUBSET Clients, HostRestart(survivors)
    PROVE  Promises /\ Ends'
<1>1. /\ UNCHANGED <<order, runs, answers>> /\ hostUp' = {}
      /\ \A d \in Clients : link'[d].phase # "reply"
  BY DEF HostRestart, Closed
<1>2. PICK ps : ps \subseteq Parities /\ End(ps, "lost")
  <2> DEFINE all == ParitiesOf(hostUp) \cup ParitiesOf(hostDown)
                     \cup (UNION {LostWith(link[c].reply) : c \in Clients})
                     \cup (UNION {ParitiesOf(late[c]) \cap Parities : c \in Clients})
  <2>1. End(all, "lost")
    BY DEF HostRestart
  <2> HIDE DEF all
  <2>2. End(all \cap Parities, "lost")
    BY <2>1 DEF End
  <2> QED BY <2>2
<1>3. \A q \in Parities : ~Scheduled(q) => closed'[q] = closed[q]
  BY HostRestartLoses
<1>4. \A p \in Parities : closed'[p] \subseteq closed[p] \cup {"lost"}
  BY HostRestartLoses
<1>5. \A q \in Parities : ~Scheduled(q) => closed[q] = {}
  BY DEF Once, Distinct
<1>6. \A q \in Parities : q \in ps => Scheduled(q)
  BY <1>2, <1>3, <1>5 DEF End
<1>7. Promises
  BY <1>1, <1>2, <1>6, Loses DEF Once
<1>8. \A p \in Parities : Quiet(p) => Quiet(p)'
  BY <1>1, HostRestartStep, StillQuiet
<1> QED BY <1>1, <1>4, <1>7, <1>8, LostEnds

LEMMA HostExpirePromise ==
    ASSUME Once, Ends, NEW row \in hostUp, HostExpire(row)
    PROVE  Promises /\ Ends'
<1>1. /\ UNCHANGED <<link, order, runs, answers>> /\ End({row.parity}, "lost")
      /\ hostUp' \subseteq hostUp
  BY DEF HostExpire
<1>2. Promises /\ \A p \in Parities : closed'[p] \subseteq closed[p] \cup {"lost"}
  BY <1>1, HostInUse, Loses DEF Once
<1>3. \A p \in Parities : Quiet(p) => Quiet(p)'
  <2>1. ASSUME NEW p \in Parities, Quiet(p)
        PROVE  Quiet(p)'
    BY <1>1, <2>1, HostExpireStep, QuietKept
  <2> QED BY <2>1
<1> QED BY <1>1, <1>2, <1>3, LostEnds

LEMMA HostProcessPromise ==
    ASSUME Once, Ends, NEW row \in hostDown, NEW outcome, HostProcess(row, outcome)
    PROVE  Promises /\ Ends'
<1> SUFFICES ASSUME NEW p, p = row.parity
             PROVE  Promises /\ Ends'
  OBVIOUS
<1>1. HostRan(row, outcome) /\ Host \in Nodes /\ {"arrived", "queued"} \subseteq Places
  BY HostProcessEffect DEF Nodes, Places
<1>2. /\ p \in Parities /\ In("arrived", Host, p) /\ ~In("arrived", Host, p)'
      /\ GrowsBy("queued", row.client, p) /\ Scheduled(p) /\ row.client \in Nodes
  BY <1>1, HostProcessStep, HostInUse DEF HostRan, Nodes
<1>3. ~Quiet(p)
  BY <1>1, <1>2, QuietPlaces
<1>4. /\ UNCHANGED <<link, order, answers>> /\ runs[p] = 0
      /\ runs' = [runs EXCEPT ![p] = 1]
      /\ IF outcome = "C210" THEN End({p}, "muted") ELSE UNCHANGED closed
  BY <1>1 DEF HostRan
<1>5. \A r \in hostUp' : r \in hostUp \/ (r.parity = p /\ r.kind = outcome)
  BY <1>1 DEF HostRan
<1>6. ASSUME NEW q \in Parities, Quiet(q)
      PROVE  Quiet(q)'
  BY <1>2, <1>3, <1>4, <1>5, <1>6, QuietKept
<1>7. runs'[p] = 1 /\ \A q \in Parities \ {p} : runs'[q] = runs[q]
  BY <1>2, <1>4 DEF Once, TypeOK
<1>8. "refused" \notin closed[p]
  BY <1>2, <1>3 DEF Ends
<1>9. CASE outcome # "C210"
  <2>1. UNCHANGED closed
    BY <1>4, <1>9
  <2>2. Promise!Execute(p, FALSE)
    BY <1>2, <1>4, <1>8, <2>1 DEF Promise!Execute, Scheduled, Once, TypeOK
  <2>3. Promises
    BY <1>2, <2>2 DEF Promises, Promise!Next
  <2> QED BY <1>3, <1>6, <1>7, <2>1, <2>3, EndsKept
<1>10. CASE outcome = "C210"
  <2>1. End({p}, "muted")
    BY <1>4, <1>10
  <2>2. closed' = [closed EXCEPT ![p] = @ \cup {"muted"}]
    BY <1>2, <2>1 DEF End, Once, TypeOK
  <2>3. Promise!Execute(p, TRUE)
    BY <1>2, <1>4, <1>8, <2>2 DEF Promise!Execute, Scheduled
  <2>4. Promises
    BY <1>2, <2>3 DEF Promises, Promise!Next
  <2>5. /\ \A c \in Clients : ~In("sending", c, p)' /\ ~In("refused", c, p)' /\ ~In("coming", c, p)'
        /\ \A n \in Nodes : ~In("arrived", n, p)' /\ ~In("answering", n, p)'
    <3>1. ASSUME NEW k \in Places, NEW n \in Nodes, k # "queued"
          PROVE  ~In(k, n, p)'
      BY <1>1, <1>2, <3>1 DEF Once, OneCopy, GrowsBy
    <3> QED BY <3>1 DEF Places, Nodes
  <2>6. \A r \in hostUp : r.parity # p
    <3>1. ASSUME NEW r \in hostUp, r.parity = p
          PROVE  FALSE
      <4>1. In("queued", r.client, p) /\ r.client \in Nodes
        BY <3>1 DEF In, Queued, Once, TypeOK, UpRow, Nodes
      <4> QED BY <1>1, <1>2, <4>1 DEF Once, OneCopy
    <3> QED BY <3>1
  <2>7. Quiet(p)'
    BY <1>5, <1>10, <2>5, <2>6 DEF Quiet, In, Nodes
  <2>8. \A q \in Parities : \A e \in closed'[q] \ closed[q] : q = p /\ e = "muted"
    BY <2>1 DEF End
  <2> QED BY <1>3, <1>6, <1>7, <2>4, <2>7, <2>8, EndsKept
<1> QED BY <1>9, <1>10

LEMMA PromiseStep ==
    ASSUME Once, Ends, [Next]_vars
    PROVE  Promises /\ Ends'
<1>1. ASSUME NEW c \in Clients, ClientNext(c)
      PROVE  Promises /\ Ends'
  BY <1>1, SchedulePromise, ClientSendPromise, FailurePromise, ReceivePromise,
     CommandPromiseStep, ProcessFunctionPromise, QueueAnswerPromise, ProcessResponsePromise,
     TransposerPanicPromise, ClientExpirePromise
     DEF ClientNext
<1>2. ASSUME NEW c \in Clients, ConnectionNext(c)
      PROVE  Promises /\ Ends'
  BY <1>2, PingPromise, ForwardPromise, HostCommandPromise, ConnectionPromise, BreakPromise,
     ClientRestartPromise
     DEF ConnectionNext
<1>3. CASE HostNext
  BY <1>3, HostProcessPromise, HostExpirePromise, HostRestartPromise DEF HostNext
<1>4. CASE UNCHANGED vars
  <2>1. Ends'
    BY <1>4 DEF vars, Ends, Quiet, Sending, Live, Asked, Late, Refused, Coming, Arrived, RowsOf,
                    Answering
  <2> QED BY <1>4, <2>1 DEF Promises, vars
<1> QED BY <1>1, <1>2, <1>3, <1>4 DEF Next

LEMMA EndsAlways == Spec => []Ends
<1>1. Init => Ends
  BY DEF Init, Ends
<1> QED BY <1>1, PromiseStep, OnceAlways, PTL DEF Spec

\* HostRelay implements CommandPromise: whatever tables, connections and threads
\* carry a command, and whatever breaks or is started again, its handler runs at most
\* once and never after the host has refused it, and its answer is taken at most once,
\* after that, and never when the handler failed or returned nothing or the host
\* refused the answer.
THEOREM PromiseKept == Spec => Promised
<1>1. Init => Promise!Init
  BY DEF Init, Promise!Init
<1>2. Once /\ Ends /\ [Next]_vars => [Promise!Next]_(Promise!vars)
  BY PromiseStep DEF Promises, Promise!vars
<1> QED BY <1>1, <1>2, OnceAlways, EndsAlways, PTL DEF Spec, Promised, Promise!Spec
-------------------------------------------------------------------------------
(* Nothing vanishes.                                                       *)

\* The host has answered what c asked about p; c will take the row out.
Confirmed(c, p) ==
    link[c].phase = "reply" /\ link[c].request.parity = p /\ link[c].reply.kind = "C210"

\* In the up table to stay; in the down table or the hands of the transposer; in
\* the reply; in the host.
HeldUp(c, p)    == ~Confirmed(c, p) /\ \E row \in clientUp[c] : row.parity = p
HeldDown(c, p)  == p \in holds[c] \/ \E row \in clientDown[c] : row.parity = p
HeldReply(c, p) == link[c].phase = "reply" /\ p \in LostWith(link[c].reply)
HeldHost(p)     == \E row \in hostUp \cup hostDown : row.parity = p

Somewhere(p) ==
    \/ \E c \in Clients : HeldUp(c, p) \/ HeldDown(c, p) \/ HeldReply(c, p)
    \/ HeldHost(p)

Done(p) == answers[p] > 0 \/ closed[p] # {}

\* What the tables hold, a row that is about to be taken out not counted.
Kept == \A p \in Parities : Scheduled(p) => Done(p) \/ Somewhere(p)

\* A confirmation in the host's table is what is left of a command whose handler
\* returned nothing.
Muted ==
    /\ \A row \in hostUp : row.kind = "C210" => closed[row.parity] # {}
    /\ \A c \in Clients :
          link[c].phase = "reply" /\ link[c].request.kind = "C206" /\ link[c].reply.kind = "C210"
              => closed[link[c].reply.parity] # {}

EndsGrow == \A p \in Parities : closed[p] \subseteq closed'[p]

LEMMA EndGrows ==
    ASSUME NEW ps, NEW e, End(ps, e)
    PROVE  EndsGrow /\ \A p \in Parities : p \in ps => closed'[p] # {}
BY DEF End, EndsGrow

LEMMA DoneStays ==
    ASSUME UNCHANGED answers, EndsGrow
    PROVE  \A p \in Parities : Done(p) => Done(p)'
BY DEF Done, EndsGrow

LEMMA SomewhereStays ==
    ASSUME NEW p,
           \A c \in Clients :
              /\ HeldUp(c, p) => HeldUp(c, p)' \/ Somewhere(p)' \/ Done(p)'
              /\ HeldDown(c, p) => HeldDown(c, p)' \/ Somewhere(p)' \/ Done(p)'
              /\ HeldReply(c, p) => HeldReply(c, p)' \/ Somewhere(p)' \/ Done(p)',
           HeldHost(p) => HeldHost(p)' \/ Somewhere(p)' \/ Done(p)'
    PROVE  Somewhere(p) => Somewhere(p)' \/ Done(p)'
BY DEF Somewhere

LEMMA KeptStays ==
    ASSUME Kept, UNCHANGED order, \A p \in Parities : Done(p) => Done(p)',
           \A p \in Parities : Somewhere(p) => Somewhere(p)' \/ Done(p)'
    PROVE  Kept'
BY DEF Kept, Scheduled

LEMMA MutedStays ==
    ASSUME Once, Muted, EndsGrow,
           \A row \in hostUp' : row \in hostUp \/ row.kind # "C210" \/ closed'[row.parity] # {},
           \A c \in Clients : \/ link'[c] = link[c]
                              \/ link'[c].phase # "reply"
                              \/ link'[c].request.kind # "C206"
                              \/ link'[c].reply.kind # "C210"
                              \/ closed'[link'[c].reply.parity] # {}
    PROVE  Muted'
<1>1. ASSUME NEW row \in hostUp', row.kind = "C210"
      PROVE  closed'[row.parity] # {}
  <2>1. CASE row \in hostUp
    <3>1. row.parity \in Parities /\ closed[row.parity] # {}
      BY <1>1, <2>1 DEF Muted, Once, TypeOK, UpRow
    <3> QED BY <3>1 DEF EndsGrow
  <2> QED BY <1>1, <2>1
<1>2. ASSUME NEW c \in Clients, link'[c].phase = "reply", link'[c].request.kind = "C206",
             link'[c].reply.kind = "C210"
      PROVE  closed'[link'[c].reply.parity] # {}
  <2>1. CASE link'[c] = link[c]
    <3>1. link[c].reply.parity \in Parities /\ closed[link[c].reply.parity] # {}
      BY <1>2, <2>1 DEF Muted, Once, AtClient, Fetched, Pong
    <3> QED BY <2>1, <3>1 DEF EndsGrow
  <2> QED BY <1>2, <2>1
<1> QED BY <1>1, <1>2 DEF Muted

\* Where c's up table is not touched and c reads no confirmation of p.
LEMMA StillUp ==
    ASSUME NEW c \in Clients, NEW p, clientUp[c] \subseteq clientUp'[c],
           link'[c] = link[c] \/ ~Confirmed(c, p)'
    PROVE  HeldUp(c, p) => HeldUp(c, p)'
BY DEF HeldUp, Confirmed

LEMMA ScheduleKeeps ==
    ASSUME Once, Kept, Muted, NEW c \in Clients, NEW p \in Parities,
           NEW target \in Clients \cup {Host}, Schedule(c, p, target)
    PROVE  Kept' /\ Muted'
<1>1. /\ ~Scheduled(p)
      /\ UNCHANGED <<clientDown, holds, link, hostUp, hostDown, answers, closed>>
      /\ \A d \in Clients : clientUp[d] \subseteq clientUp'[d]
      /\ \E row \in clientUp'[c] : row.parity = p
      /\ \A q \in Parities \ {p} : order'[q] = order[q]
  <2>1. PICK row : row.parity = p /\ clientUp' = [clientUp EXCEPT ![c] = @ \cup {row}]
    BY DEF Schedule, buffer_up_schedule
  <2>2. \A q \in Parities \ {p} : order'[q] = order[q]
    BY DEF Schedule, Once, TypeOK
  <2>3. \A d \in Clients : clientUp'[d] = IF d = c THEN clientUp[c] \cup {row} ELSE clientUp[d]
    BY <2>1 DEF Once, TypeOK
  <2> QED BY <2>1, <2>2, <2>3 DEF Schedule, host_vars
<1>2. ~Confirmed(c, p)
  <2>1. SUFFICES ASSUME Confirmed(c, p)
                 PROVE  FALSE
    OBVIOUS
  <2>2. link[c].request # Ping
    BY <2>1, NamesAssumption DEF Confirmed, Ping
  <2> QED BY <1>1, <2>1, <2>2, RequestAt, NamesAssumption
          DEF Confirmed, Once, OwnCommand, OwnResponse, Scheduled, NoOrder
<1>3. Somewhere(p)'
  BY <1>1, <1>2 DEF Somewhere, HeldUp, Confirmed
<1>4. \A q \in Parities : Somewhere(q) => Somewhere(q)'
  BY <1>1 DEF Somewhere, HeldUp, HeldDown, HeldReply, HeldHost, Confirmed
<1>5. \A q \in Parities : Done(q)' <=> Done(q)
  BY <1>1 DEF Done
<1>6. Kept'
  BY <1>1, <1>3, <1>4, <1>5 DEF Kept, Scheduled
<1>7. EndsGrow
  BY <1>1 DEF EndsGrow
<1> QED BY <1>1, <1>6, <1>7, MutedStays

\* A client's connection that does not read: it sends, or is opened, or synchronises.
LEMMA LinkKeeps ==
    ASSUME Once, Kept, Muted, NEW c \in Clients,
           \/ ClientSend(c) \/ Connect(c) \/ Resync(c) \/ Synced(c) \/ NoticeDisconnect(c)
           \/ \E x \in Exchanges(c) : HandlerPanic(c, x)
    PROVE  Kept' /\ Muted'
<1>1. UNCHANGED <<clientUp, clientDown, holds, hostUp, hostDown, order, answers, closed>>
  BY DEF ClientSend, HandlerPanic, Connect, Resync, Synced, NoticeDisconnect, host_vars,
         client_vars, history_vars
<1>2. \A d \in Clients : link'[d] = link[d] \/ (link'[d].phase # "reply" /\ link[d].phase # "reply")
  <2>1. CASE ClientSend(c) \/ Connect(c)
    BY <2>1 DEF ClientSend, Connect, Idle, Once, TypeOK
  <2>2. CASE \E x \in Exchanges(c) : HandlerPanic(c, x)
    <3>1. UNCHANGED link \/ (link[c].phase = "request" /\ link' = [link EXCEPT ![c] = Closed])
      BY <2>2 DEF HandlerPanic, Exchanges
    <3> QED BY <3>1 DEF Closed, Once, TypeOK
  <2>3. CASE Resync(c) \/ Synced(c) \/ NoticeDisconnect(c)
    BY <2>3 DEF Resync, Synced, NoticeDisconnect
  <2> QED BY <2>1, <2>2, <2>3
<1>3. EndsGrow
  BY <1>1 DEF EndsGrow
<1>4. \A p \in Parities : Somewhere(p) => Somewhere(p)'
  BY <1>1, <1>2 DEF Somewhere, HeldUp, HeldDown, HeldReply, HeldHost, Confirmed
<1>5. \A p \in Parities : Done(p) => Done(p)'
  BY <1>1 DEF Done
<1> QED BY <1>1, <1>2, <1>3, <1>4, <1>5, KeptStays, MutedStays

\* The client stops reading commands: it drops the row that was refused.
LEMMA FailureKeeps ==
    ASSUME Once, Kept, Muted, NEW c \in Clients, ReceiveFailure(c)
    PROVE  Kept' /\ Muted'
<1> SUFFICES ASSUME NEW r, r = link[c].reply.parity
             PROVE  Kept' /\ Muted'
  OBVIOUS
<1>1. /\ link[c].phase = "reply"
      /\ UNCHANGED <<clientDown, holds, hostUp, hostDown, order, answers>>
      /\ \A d \in Clients \ {c} : clientUp'[d] = clientUp[d] /\ link'[d] = link[d]
      /\ link'[c].phase = "closed"
      /\ \A row \in clientUp[c] : row \in clientUp'[c] \/ row.parity = r
      /\ \E e : End({r}, e)
  BY DEF ReceiveFailure, Stop, Closed, host_vars, buffer_up_remove_schedule_by_parity_id,
         Once, TypeOK
<1>2. EndsGrow /\ \A p \in Parities : p = r => closed'[p] # {}
  BY <1>1, EndGrows
<1>3. ASSUME NEW p \in Parities, Somewhere(p), p # r
      PROVE  Somewhere(p)'
  <2>1. \A d \in Clients : HeldUp(d, p) => HeldUp(d, p)'
    BY <1>1, <1>3 DEF HeldUp, Confirmed
  <2>2. \A d \in Clients : HeldReply(d, p) => HeldReply(d, p)'
    BY <1>1, <1>3 DEF HeldReply, LostWith
  <2> QED BY <1>1, <1>3, <2>1, <2>2 DEF Somewhere, HeldDown, HeldHost
<1>4. Muted'
  BY <1>1, <1>2, MutedStays
<1>5. Kept'
  BY <1>1, <1>2, <1>3, DoneStays, KeptStays DEF Done
<1> QED BY <1>4, <1>5

\* A confirmation takes the row out: what it was for has got further, or was a
\* command whose handler returned nothing.
LEMMA ConfirmationKeeps ==
    ASSUME Once, Kept, Muted, NEW c \in Clients, ReceiveConfirmation(c)
    PROVE  Kept' /\ Muted'
<1> SUFFICES ASSUME NEW r, r = link[c].reply.parity
             PROVE  Kept' /\ Muted'
  OBVIOUS
<1>1. /\ link[c].phase = "reply" /\ link[c].reply.kind = "C210"
      /\ UNCHANGED <<clientDown, holds, hostUp, hostDown, order, answers, closed>>
      /\ \A d \in Clients \ {c} : clientUp'[d] = clientUp[d] /\ link'[d] = link[d]
      /\ link'[c].phase = "idle"
      /\ \A row \in clientUp[c] : row \in clientUp'[c] \/ row.parity = r
  BY DEF ReceiveConfirmation, Idle, host_vars, history_vars,
         buffer_up_remove_schedule_by_parity_id, Once, TypeOK
<1>2. EndsGrow
  BY <1>1 DEF EndsGrow
<1>3. Confirmed(c, r) \/ closed[r] # {}
  <2>1. CASE link[c].request.kind = "C206"
    BY <1>1, <2>1 DEF Muted
  <2>2. CASE link[c].request.kind # "C206"
    BY <1>1, <2>2 DEF Confirmed, Once, AtClient, Shape, Confirmation, Refusal
  <2> QED BY <2>1, <2>2
<1>4. ASSUME NEW p \in Parities, Somewhere(p), closed[p] = {}
      PROVE  Somewhere(p)'
  <2>1. HeldUp(c, p) => HeldUp(c, p)'
    BY <1>1, <1>3, <1>4 DEF HeldUp, Confirmed
  <2>2. \A d \in Clients \ {c} : HeldUp(d, p) => HeldUp(d, p)'
    BY <1>1 DEF HeldUp, Confirmed
  <2>3. \A d \in Clients : HeldReply(d, p) => HeldReply(d, p)'
    BY <1>1 DEF HeldReply, LostWith
  <2> QED BY <1>1, <1>4, <2>1, <2>2, <2>3 DEF Somewhere, HeldDown, HeldHost
<1>5. Muted'
  BY <1>1, <1>2, MutedStays
<1>6. \A p \in Parities : Somewhere(p) => Somewhere(p)' \/ Done(p)'
  BY <1>1, <1>4 DEF Done
<1> QED BY <1>1, <1>2, <1>5, <1>6, DoneStays, KeptStays

LEMMA PongKeeps ==
    ASSUME Once, Kept, Muted, NEW c \in Clients, ReceivePong(c)
    PROVE  Kept' /\ Muted'
<1>1. /\ link[c].phase = "reply" /\ link[c].reply.kind = "C207"
      /\ UNCHANGED <<clientUp, clientDown, holds, hostUp, hostDown, order, answers, closed>>
      /\ \A d \in Clients \ {c} : link'[d] = link[d]
      /\ link'[c].phase = "idle"
  BY DEF ReceivePong, Idle, client_vars, host_vars, history_vars, Once, TypeOK
<1>2. EndsGrow
  BY <1>1 DEF EndsGrow
<1>3. \A p \in Parities : Somewhere(p) => Somewhere(p)'
  <2>1. ASSUME NEW p \in Parities, NEW d \in Clients
        PROVE  /\ HeldReply(d, p) => HeldReply(d, p)'
               /\ HeldUp(d, p) => HeldUp(d, p)'
    BY <1>1 DEF HeldReply, LostWith, HeldUp, Confirmed
  <2> QED BY <1>1, <2>1 DEF Somewhere, HeldDown, HeldHost
<1> QED BY <1>1, <1>2, <1>3, DoneStays, KeptStays, MutedStays

LEMMA CommandKeeps ==
    ASSUME Once, Kept, Muted, NEW c \in Clients, ReceiveCommand(c)
    PROVE  Kept' /\ Muted'
<1> SUFFICES ASSUME NEW r, r = link[c].reply.parity
             PROVE  Kept' /\ Muted'
  OBVIOUS
<1>1. /\ link[c].phase = "reply"
      /\ UNCHANGED <<clientUp, holds, hostUp, hostDown, order, answers, closed>>
      /\ \A d \in Clients \ {c} : link'[d] = link[d]
      /\ link'[c].phase = "idle"
      /\ \A d \in Clients : clientDown[d] \subseteq clientDown'[d]
  BY DEF ReceiveCommand, Idle, host_vars, history_vars, buffer_down_schedule, Once, TypeOK
<1>2. HeldDown(c, r)'
  <2> DEFINE row == [client |-> c, parity |-> r, kind |-> link[c].reply.kind]
  <2>1. clientDown'[c] = buffer_down_schedule(clientDown[c], row)
    BY DEF ReceiveCommand, Once, TypeOK
  <2>2. row.parity = r
    OBVIOUS
  <2> HIDE DEF row
  <2>3. \E d \in clientDown'[c] : d.parity = row.parity
    BY <2>1 DEF buffer_down_schedule
  <2> QED BY <2>2, <2>3 DEF HeldDown
<1>3. EndsGrow
  BY <1>1 DEF EndsGrow
<1>4. \A p \in Parities : Somewhere(p) => Somewhere(p)'
  <2>1. ASSUME NEW p \in Parities, NEW d \in Clients
        PROVE  /\ HeldReply(d, p) => HeldReply(d, p)' \/ HeldDown(d, p)'
               /\ HeldUp(d, p) => HeldUp(d, p)'
               /\ HeldDown(d, p) => HeldDown(d, p)'
    <3>1. CASE d = c
      BY <1>1, <1>2, <3>1 DEF HeldReply, LostWith, HeldUp, HeldDown, Confirmed
    <3>2. CASE d # c
      BY <1>1, <3>2 DEF HeldReply, LostWith, HeldUp, HeldDown, Confirmed
    <3> QED BY <3>1, <3>2
  <2> QED BY <1>1, <2>1 DEF Somewhere, HeldHost
<1> QED BY <1>1, <1>3, <1>4, DoneStays, KeptStays, MutedStays

\* A handler that returns something leaves it in the hands of the transposer; one
\* that returns nothing ends the command.
LEMMA ProcessFunctionKeeps ==
    ASSUME Once, Kept, Muted, NEW c \in Clients, NEW row \in clientDown[c],
           NEW responds \in BOOLEAN, ProcessFunction(c, row, responds)
    PROVE  Kept' /\ Muted'
<1> SUFFICES ASSUME NEW r, r = row.parity
             PROVE  Kept' /\ Muted'
  OBVIOUS
<1>1. /\ r \in Parities
      /\ UNCHANGED <<clientUp, hostUp, hostDown, link, order, answers>>
      /\ clientDown' = [clientDown EXCEPT ![c] = @ \ {row}]
      /\ holds[c] = {}
      /\ \/ UNCHANGED holds /\ End({r}, "muted")
         \/ holds' = [holds EXCEPT ![c] = {r}] /\ UNCHANGED closed
  BY ProcessFunctionEffect DEF Ran
<1>2. /\ \A d \in Clients : \A s \in clientDown[d] : s \in clientDown'[d] \/ s = row
      /\ \A d \in Clients : holds[d] \subseteq holds'[d]
      /\ EndsGrow
      /\ closed'[r] # {} \/ r \in holds'[c]
  <2>1. EndsGrow /\ (End({r}, "muted") => closed'[r] # {})
    BY <1>1, EndGrows DEF EndsGrow
  <2> QED BY <1>1, <2>1 DEF Once, TypeOK
<1>3. Done(r)' \/ HeldDown(c, r)'
  BY <1>1, <1>2 DEF Done, HeldDown
<1>4. \A p \in Parities : Somewhere(p) => Somewhere(p)' \/ Done(p)'
  <2>1. ASSUME NEW p \in Parities, NEW d \in Clients
        PROVE  /\ HeldReply(d, p) => HeldReply(d, p)'
               /\ HeldUp(d, p) => HeldUp(d, p)'
               /\ HeldDown(d, p) => HeldDown(d, p)' \/ p = r
    BY <1>1, <1>2 DEF HeldReply, HeldUp, HeldDown, Confirmed
  <2>2. \A p \in Parities : HeldHost(p) => HeldHost(p)'
    BY <1>1 DEF HeldHost
  <2> QED BY <1>3, <2>1, <2>2 DEF Somewhere
<1>5. Muted'
  BY <1>1, <1>2, MutedStays
<1> QED BY <1>1, <1>2, <1>4, <1>5, DoneStays, KeptStays

\* What the transposer held is in the up table, and no confirmation of it is on
\* its way.
LEMMA QueueAnswerKeeps ==
    ASSUME Once, Kept, Muted, NEW c \in Clients, QueueAnswer(c)
    PROVE  Kept' /\ Muted'
<1>1. \E p \in holds[c] : \E row :
          row.parity = p /\ clientUp' = [clientUp EXCEPT ![c] = @ \cup {row}]
  <2>1. PICK p \in holds[c] :
          clientUp' = [clientUp EXCEPT ![c] = @ \cup
              {[id |-> nextId[c], client |-> c, parity |-> p,
                kind |-> "Response", target |-> Origin]}]
    BY DEF QueueAnswer, buffer_up_schedule
  <2> QED BY <2>1
<1>2. PICK p \in holds[c] : \E row :
          row.parity = p /\ clientUp' = [clientUp EXCEPT ![c] = @ \cup {row}]
  BY <1>1
<1>3. PICK row : row.parity = p /\ clientUp' = [clientUp EXCEPT ![c] = @ \cup {row}]
  BY <1>2
<1>4. /\ UNCHANGED <<clientDown, hostUp, hostDown, link, order, answers, closed>>
      /\ holds' = [holds EXCEPT ![c] = {}]
      /\ EndsGrow
  BY DEF QueueAnswer, host_vars, history_vars, EndsGrow
<1>5. /\ \A d \in Clients : clientUp[d] \subseteq clientUp'[d]
      /\ row \in clientUp'[c]
      /\ \A d \in Clients \ {c} : holds'[d] = holds[d]
  BY <1>4, <1>3 DEF Once, TypeOK
<1>6. HeldUp(c, p)'
  <2>1. ~Exchanging(c, p)
    BY DEF Once, AtClient, HeldApart
  <2> QED BY <1>4, <1>5, <1>3, <2>1 DEF HeldUp, Confirmed, Exchanging
<1>7. holds[c] = {p}
  BY DEF Once, AtClient, HeldApart
<1>8. \A q \in Parities : Somewhere(q) => Somewhere(q)' \/ Done(q)'
  <2>1. ASSUME NEW q \in Parities, NEW d \in Clients
        PROVE  /\ HeldReply(d, q) => HeldReply(d, q)'
               /\ HeldUp(d, q) => HeldUp(d, q)'
               /\ HeldDown(d, q) => HeldDown(d, q)' \/ q = p
    BY <1>4, <1>5, <1>7 DEF HeldReply, HeldUp, HeldDown, Confirmed
  <2>2. \A q \in Parities : HeldHost(q) => HeldHost(q)'
    BY <1>4 DEF HeldHost
  <2> QED BY <1>6, <2>1, <2>2 DEF Somewhere
<1>9. Muted'
  BY <1>4, MutedStays
<1> QED BY <1>4, <1>8, <1>9, DoneStays, KeptStays

\* What it still holds when it ends is lost.
LEMMA TransposerPanicKeeps ==
    ASSUME Once, Kept, Muted, NEW c \in Clients, TransposerPanic(c)
    PROVE  Kept' /\ Muted'
<1>1. /\ UNCHANGED <<clientUp, clientDown, hostUp, hostDown, link, order, answers>>
      /\ \A d \in Clients \ {c} : holds'[d] = holds[d]
      /\ End(holds[c], "lost")
  BY DEF TransposerPanic, host_vars, Once, TypeOK
<1>2. EndsGrow /\ \A p \in Parities : p \in holds[c] => closed'[p] # {}
  BY <1>1, EndGrows
<1>3. \A p \in Parities : Somewhere(p) => Somewhere(p)' \/ Done(p)'
  <2>1. ASSUME NEW p \in Parities, NEW d \in Clients
        PROVE  /\ HeldReply(d, p) => HeldReply(d, p)'
               /\ HeldUp(d, p) => HeldUp(d, p)'
               /\ HeldDown(d, p) => HeldDown(d, p)' \/ Done(p)'
    BY <1>1, <1>2 DEF HeldReply, HeldUp, HeldDown, Confirmed, Done
  <2>2. \A p \in Parities : HeldHost(p) => HeldHost(p)'
    BY <1>1 DEF HeldHost
  <2> QED BY <2>1, <2>2 DEF Somewhere
<1>4. Muted'
  BY <1>1, <1>2, MutedStays
<1> QED BY <1>1, <1>2, <1>3, <1>4, DoneStays, KeptStays

LEMMA ProcessResponseKeeps ==
    ASSUME Once, Kept, Muted, NEW c \in Clients, NEW row \in clientDown[c],
           ProcessResponse(c, row)
    PROVE  Kept' /\ Muted'
<1> SUFFICES ASSUME NEW r, r = row.parity
             PROVE  Kept' /\ Muted'
  OBVIOUS
<1>1. /\ r \in Parities /\ answers' = [answers EXCEPT ![r] = 1]
      /\ clientDown' = [clientDown EXCEPT ![c] = @ \ {row}]
      /\ UNCHANGED <<clientUp, holds, hostUp, hostDown, link, order, closed>>
  BY ProcessResponseEffect DEF Taken
<1>2. /\ \A d \in Clients : \A s \in clientDown[d] : s \in clientDown'[d] \/ s = row
      /\ answers'[r] = 1 /\ \A p \in Parities \ {r} : answers'[p] = answers[p]
      /\ EndsGrow
  BY <1>1 DEF Once, TypeOK, EndsGrow
<1>3. \A p \in Parities : Somewhere(p) => Somewhere(p)' \/ Done(p)'
  <2>1. ASSUME NEW p \in Parities, NEW d \in Clients
        PROVE  /\ HeldReply(d, p) => HeldReply(d, p)'
               /\ HeldUp(d, p) => HeldUp(d, p)'
               /\ HeldDown(d, p) => HeldDown(d, p)' \/ p = r
    BY <1>1, <1>2 DEF HeldReply, HeldUp, HeldDown, Confirmed
  <2>2. \A p \in Parities : HeldHost(p) => HeldHost(p)'
    BY <1>1 DEF HeldHost
  <2>3. Done(r)'
    BY <1>2 DEF Done
  <2> QED BY <2>1, <2>2, <2>3 DEF Somewhere
<1>4. \A p \in Parities : Done(p) => Done(p)'
  BY <1>1, <1>2 DEF Done
<1>5. Muted'
  BY <1>1, <1>2, MutedStays
<1> QED BY <1>1, <1>3, <1>4, <1>5, KeptStays

LEMMA ClientExpireKeeps ==
    ASSUME Once, Kept, Muted, NEW c \in Clients,
           NEW row \in clientUp[c] \cup clientDown[c], ClientExpire(c, row)
    PROVE  Kept' /\ Muted'
<1>1. /\ UNCHANGED <<holds, hostUp, hostDown, link, order, answers>>
      /\ \A d \in Clients : \A s \in clientUp[d] : s \in clientUp'[d] \/ s = row
      /\ \A d \in Clients : \A s \in clientDown[d] : s \in clientDown'[d] \/ s = row
      /\ End({row.parity}, "lost")
  BY DEF ClientExpire, host_vars, Once, TypeOK
<1>2. EndsGrow /\ \A p \in Parities : p = row.parity => closed'[p] # {}
  BY <1>1, EndGrows
<1>3. \A p \in Parities : Somewhere(p) => Somewhere(p)' \/ Done(p)'
  <2>1. ASSUME NEW p \in Parities, NEW d \in Clients
        PROVE  /\ HeldReply(d, p) => HeldReply(d, p)'
               /\ HeldUp(d, p) => HeldUp(d, p)' \/ p = row.parity
               /\ HeldDown(d, p) => HeldDown(d, p)' \/ p = row.parity
    BY <1>1 DEF HeldReply, HeldUp, HeldDown, Confirmed
  <2>2. \A p \in Parities : HeldHost(p) => HeldHost(p)'
    BY <1>1 DEF HeldHost
  <2> QED BY <1>2, <2>1, <2>2 DEF Somewhere, Done
<1>4. Muted'
  BY <1>1, <1>2, MutedStays
<1> QED BY <1>1, <1>2, <1>3, <1>4, DoneStays, KeptStays

\* A reply keeps what it holds, or nobody reads it and that is recorded.
LEMMA ReplyKeeps ==
    ASSUME Once, NEW c \in Clients, NEW x \in Exchanges(c), NEW message, Reply(c, x, message),
           UNCHANGED clientUp
    PROVE  /\ EndsGrow
           /\ \A p \in Parities :
                 /\ \A d \in Clients : HeldReply(d, p) => HeldReply(d, p)'
                 /\ p \in LostWith(message) => HeldReply(c, p)' \/ closed'[p] # {}
                 /\ \A d \in Clients : HeldUp(d, p) =>
                       HeldUp(d, p)' \/ (p = x.request.parity /\ message.kind = "C210")
<1>1. CASE x.live
  <2>1. /\ link[c].phase = "request" /\ link[c].request = x.request
        /\ UNCHANGED closed
        /\ \A d \in Clients \ {c} : link'[d] = link[d]
        /\ link'[c] = [phase |-> "reply", request |-> x.request, reply |-> message]
    BY <1>1 DEF Reply, Exchanges, Once, TypeOK
  <2>2. EndsGrow
    BY <2>1 DEF EndsGrow
  <2>3. ASSUME NEW p \in Parities
        PROVE  /\ \A d \in Clients : HeldReply(d, p) => HeldReply(d, p)'
               /\ p \in LostWith(message) => HeldReply(c, p)'
    BY <2>1 DEF HeldReply, LostWith
  <2>4. ASSUME NEW p \in Parities, NEW d \in Clients, HeldUp(d, p)
        PROVE  HeldUp(d, p)' \/ (p = x.request.parity /\ message.kind = "C210")
    <3>1. CASE d # c
      BY <2>1, <2>4, <3>1 DEF HeldUp, Confirmed
    <3>2. CASE d = c
      BY <2>1, <2>4, <3>2 DEF HeldUp, Confirmed
    <3> QED BY <3>1, <3>2
  <2> QED BY <2>2, <2>3, <2>4
<1>2. CASE ~x.live
  <2>1. End(LostWith(message), "lost") /\ UNCHANGED link
    BY <1>2 DEF Reply
  <2>2. EndsGrow /\ \A p \in Parities : p \in LostWith(message) => closed'[p] # {}
    BY <2>1, EndGrows
  <2> QED BY <2>1, <2>2 DEF HeldReply, HeldUp, Confirmed
<1> QED BY <1>1, <1>2

\* The reply to a ping holds the row that has left the table, or it is the
\* confirmation of a command that has ended.
LEMMA PingKeeps ==
    ASSUME Once, Kept, Muted, NEW c \in Clients, NEW x \in Exchanges(c), HandlePing(c, x)
    PROVE  Kept' /\ Muted'
<1>1. UNCHANGED <<clientUp, clientDown, holds, hostDown, order, answers>> /\ x.request.kind = "C206"
  BY DEF HandlePing, client_vars
<1>2. x.request = Ping
  <2>1. x.request \in late[c] \/ (link[c].phase = "request" /\ x.request = link[c].request)
    BY DEF Exchanges
  <2> QED BY <1>1, <2>1, RequestAt DEF Once
<1>3. ASSUME NEW message, Reply(c, x, message), hostUp' \subseteq hostUp,
             message.kind = "C210" => closed[message.parity] # {} /\ message.parity \in Parities,
             \A row \in hostUp :
                row \in hostUp' \/ row.parity \in LostWith(message) \/ closed[row.parity] # {}
      PROVE  Kept' /\ Muted'
  <2>1. EndsGrow /\ \A p \in Parities :
                 /\ \A d \in Clients : HeldReply(d, p) => HeldReply(d, p)'
                 /\ p \in LostWith(message) => HeldReply(c, p)' \/ closed'[p] # {}
                 /\ \A d \in Clients : HeldUp(d, p) =>
                       HeldUp(d, p)' \/ (p = x.request.parity /\ message.kind = "C210")
    BY <1>1, <1>3, ReplyKeeps
  <2>2. x.request.parity \notin Parities
    BY <1>2, NamesAssumption DEF Ping
  <2>3. ASSUME NEW p \in Parities, Somewhere(p)
        PROVE  Somewhere(p)' \/ Done(p)'
    <3>1. \A d \in Clients : /\ HeldUp(d, p) => HeldUp(d, p)'
                             /\ HeldDown(d, p) => HeldDown(d, p)'
                             /\ HeldReply(d, p) => HeldReply(d, p)'
      BY <1>1, <2>1, <2>2 DEF HeldDown
    <3>2. HeldHost(p) => HeldHost(p)' \/ HeldReply(c, p)' \/ Done(p)'
      BY <1>1, <1>3, <2>1 DEF HeldHost, Done, EndsGrow
    <3> QED BY <2>3, <3>1, <3>2 DEF Somewhere
  <2>4. Muted'
    <3>1. \A d \in Clients :
              \/ link'[d] = link[d]
              \/ d = c /\ link'[c] = [phase |-> "reply", request |-> x.request, reply |-> message]
      BY <1>3 DEF Reply, Exchanges, Once, TypeOK
    <3>2. message.kind = "C210" => closed'[message.parity] # {}
      BY <1>3, <2>1 DEF EndsGrow
    <3> QED BY <1>3, <2>1, <3>1, <3>2, MutedStays
  <2> QED BY <1>1, <2>1, <2>3, <2>4, DoneStays, KeptStays
<1>4. CASE Reply(c, x, Pong) /\ UNCHANGED hostUp
  BY <1>3, <1>4 DEF Pong
<1>5. ASSUME NEW row \in hostUp, row.client = c, Reply(c, x, AsMessage(row)),
             hostUp' = {r \in hostUp : ~(r.client = c /\ r.parity = row.parity)}
      PROVE  Kept' /\ Muted'
  <2>1. row.kind \in Kinds /\ row.parity \in Parities
    BY DEF Once, TypeOK, UpRow
  <2>2. AsMessage(row).kind = row.kind /\ AsMessage(row).parity = row.parity
    BY DEF AsMessage
  <2>3. row.kind = "C210" => closed[row.parity] # {}
    BY DEF Muted
  <2>4. \A r \in hostUp :
            r \in hostUp' \/ r.parity \in LostWith(AsMessage(row)) \/ closed[r.parity] # {}
    BY <1>5, <2>1, <2>2, <2>3 DEF LostWith, Kinds
  <2> QED BY <1>3, <1>5, <2>1, <2>2, <2>3, <2>4
<1> QED BY <1>4, <1>5, PingStep

\* The queued row, or the refusal, stands for what the sender takes out.
LEMMA ForwardKeeps ==
    ASSUME Once, Kept, Muted, NEW c \in Clients, NEW x \in Exchanges(c),
           HandleRedirect(c, x) \/ HandleResponse(c, x)
    PROVE  Kept' /\ Muted'
<1> SUFFICES ASSUME NEW r, r = x.request.parity
             PROVE  Kept' /\ Muted'
  OBVIOUS
<1>1. /\ r \in Parities /\ x.request.kind \in {"Function", "Response"}
      /\ UNCHANGED <<clientUp, clientDown, holds, hostDown, order, answers>>
  BY ForwardMove DEF client_vars
<1>2. ASSUME NEW message, Reply(c, x, message), hostUp \subseteq hostUp',
             \A row \in hostUp' : row \in hostUp \/ row.kind # "C210",
             r \in LostWith(message) \/ \E row \in hostUp' : row.parity = r
      PROVE  Kept' /\ Muted'
  <2>1. EndsGrow /\ \A p \in Parities :
                 /\ \A d \in Clients : HeldReply(d, p) => HeldReply(d, p)'
                 /\ p \in LostWith(message) => HeldReply(c, p)' \/ closed'[p] # {}
                 /\ \A d \in Clients : HeldUp(d, p) => HeldUp(d, p)' \/ p = r
    BY <1>1, <1>2, ReplyKeeps
  <2>2. HeldReply(c, r)' \/ HeldHost(r)' \/ Done(r)'
    BY <1>1, <1>2, <2>1 DEF HeldHost, Done
  <2>3. ASSUME NEW p \in Parities, Somewhere(p)
        PROVE  Somewhere(p)' \/ Done(p)'
    <3>1. \A d \in Clients : /\ HeldUp(d, p) => HeldUp(d, p)' \/ p = r
                             /\ HeldDown(d, p) => HeldDown(d, p)'
                             /\ HeldReply(d, p) => HeldReply(d, p)'
      BY <1>1, <2>1 DEF HeldDown
    <3>2. HeldHost(p) => HeldHost(p)'
      BY <1>1, <1>2 DEF HeldHost
    <3> QED BY <2>2, <2>3, <3>1, <3>2 DEF Somewhere
  <2>4. Muted'
    <3>1. \A d \in Clients :
              \/ link'[d] = link[d]
              \/ d = c /\ link'[c] = [phase |-> "reply", request |-> x.request, reply |-> message]
      BY <1>2 DEF Reply, Exchanges, Once, TypeOK
    <3> QED BY <1>1, <1>2, <2>1, <3>1, MutedStays
  <2> QED BY <1>1, <2>1, <2>3, <2>4, DoneStays, KeptStays
<1>3. CASE Reply(c, x, Refusal(r)) /\ UNCHANGED hostUp
  BY <1>2, <1>3 DEF Refusal, LostWith
<1>4. ASSUME NEW target \in Clients, Reply(c, x, Confirmation(r)),
             hostUp' = hostUp \cup {[id |-> nextId[Host], client |-> target,
                        parity |-> r, kind |-> x.request.kind, target |-> Origin]}
      PROVE  Kept' /\ Muted'
  <2>1. PICK row : /\ row.parity = r /\ row.kind = x.request.kind
                   /\ hostUp' = hostUp \cup {row}
    BY <1>4
  <2> QED BY <1>1, <1>2, <1>4, <2>1
<1> QED BY <1>3, <1>4, ForwardMove

LEMMA HostCommandKeeps ==
    ASSUME Once, Kept, Muted, NEW c \in Clients, NEW x \in Exchanges(c), HandleHostCommand(c, x)
    PROVE  Kept' /\ Muted'
<1> SUFFICES ASSUME NEW r, r = x.request.parity
             PROVE  Kept' /\ Muted'
  OBVIOUS
<1>1. /\ UNCHANGED <<clientUp, clientDown, holds, hostUp, order, answers>>
      /\ hostDown \subseteq hostDown'
      /\ \/ Reply(c, x, Refusal(r))
         \/ Reply(c, x, Confirmation(r)) /\ \E d \in hostDown' : d.parity = r
      /\ r \in Parities
  BY HostCommandRequest, RequestSent DEF HostTakes, Refuse, client_vars
<1>5. PICK message :
          /\ Reply(c, x, message)
          /\ r \in LostWith(message) \/ \E d \in hostDown' : d.parity = r
  BY <1>1 DEF Refusal, LostWith
<1>2. EndsGrow /\ \A p \in Parities :
               /\ \A d \in Clients : HeldReply(d, p) => HeldReply(d, p)'
               /\ \A d \in Clients : HeldUp(d, p) => HeldUp(d, p)' \/ p = r
               /\ p \in LostWith(message) => HeldReply(c, p)' \/ closed'[p] # {}
  BY <1>5, <1>1, ReplyKeeps
<1>3. ASSUME NEW p \in Parities, Somewhere(p)
      PROVE  Somewhere(p)' \/ Done(p)'
  <2>1. \A d \in Clients : /\ HeldUp(d, p) => HeldUp(d, p)' \/ p = r
                           /\ HeldDown(d, p) => HeldDown(d, p)'
                           /\ HeldReply(d, p) => HeldReply(d, p)'
    BY <1>1, <1>2 DEF HeldDown
  <2>2. (HeldHost(r)' \/ HeldReply(c, r)' \/ Done(r)') /\ (HeldHost(p) => HeldHost(p)')
    BY <1>5, <1>1, <1>2 DEF HeldHost, Done
  <2> QED BY <1>1, <1>3, <2>1, <2>2 DEF Somewhere
<1>4. Muted'
  <2>1. \A d \in Clients :
            \/ link'[d] = link[d]
            \/ d = c /\ link'[c] = [phase |-> "reply", request |-> x.request,
                                    reply |-> message]
    BY <1>5 DEF Reply, Exchanges, Once, TypeOK
  <2>2. x.request.kind # "C206"
    BY DEF HandleHostCommand
  <2> QED BY <1>1, <1>2, <2>1, <2>2, MutedStays
<1> QED BY <1>1, <1>2, <1>3, <1>4, DoneStays, KeptStays

LEMMA BreakKeeps ==
    ASSUME Once, Kept, Muted, NEW c \in Clients, NEW stops \in BOOLEAN, NEW arrives \in BOOLEAN,
           Break(c, stops, arrives)
    PROVE  Kept' /\ Muted'
<1>1. /\ UNCHANGED <<clientUp, clientDown, holds, hostUp, hostDown, order, answers>>
      /\ End(LostWith(link[c].reply), "lost")
      /\ \A d \in Clients \ {c} : link'[d] = link[d]
      /\ link'[c].phase = "closed"
  BY DEF Break, Stop, host_vars, Once, TypeOK, Closed
<1>2. EndsGrow /\ \A p \in Parities : p \in LostWith(link[c].reply) => closed'[p] # {}
  BY <1>1, EndGrows
<1>3. \A p \in Parities : Somewhere(p) => Somewhere(p)' \/ Done(p)'
  <2>1. ASSUME NEW p \in Parities, NEW d \in Clients
        PROVE  /\ HeldReply(d, p) => HeldReply(d, p)' \/ Done(p)'
               /\ HeldUp(d, p) => HeldUp(d, p)'
               /\ HeldDown(d, p) => HeldDown(d, p)'
    BY <1>1, <1>2 DEF HeldReply, HeldUp, HeldDown, Confirmed, Done
  <2>2. \A p \in Parities : HeldHost(p) => HeldHost(p)'
    BY <1>1 DEF HeldHost
  <2> QED BY <2>1, <2>2 DEF Somewhere
<1>4. Muted'
  BY <1>1, <1>2, MutedStays
<1> QED BY <1>1, <1>2, <1>3, <1>4, DoneStays, KeptStays

LEMMA ClientRestartKeeps ==
    ASSUME Once, Kept, Muted, NEW c \in Clients, ClientRestart(c)
    PROVE  Kept' /\ Muted'
<1>1. /\ UNCHANGED <<hostUp, hostDown, link, order, answers>>
      /\ \A d \in Clients \ {c} : /\ clientUp'[d] = clientUp[d] /\ holds'[d] = holds[d]
                                 /\ clientDown'[d] = clientDown[d]
      /\ End(ParitiesOf(clientUp[c]) \cup ParitiesOf(clientDown[c]) \cup holds[c], "lost")
  BY DEF ClientRestart, host_vars, fault_vars, Once, TypeOK
<1>2. EndsGrow /\ \A p \in Parities :
          p \in ParitiesOf(clientUp[c]) \cup ParitiesOf(clientDown[c]) \cup holds[c]
              => closed'[p] # {}
  BY <1>1, EndGrows
<1>3. \A p \in Parities : Somewhere(p) => Somewhere(p)' \/ Done(p)'
  <2>1. ASSUME NEW p \in Parities, NEW d \in Clients
        PROVE  /\ HeldReply(d, p) => HeldReply(d, p)'
               /\ HeldUp(d, p) => HeldUp(d, p)' \/ Done(p)'
               /\ HeldDown(d, p) => HeldDown(d, p)' \/ Done(p)'
    BY <1>1, <1>2 DEF HeldReply, HeldUp, HeldDown, Confirmed, Done, ParitiesOf
  <2>2. \A p \in Parities : HeldHost(p) => HeldHost(p)'
    BY <1>1 DEF HeldHost
  <2> QED BY <2>1, <2>2 DEF Somewhere
<1>4. Muted'
  BY <1>1, <1>2, MutedStays
<1> QED BY <1>1, <1>2, <1>3, <1>4, DoneStays, KeptStays

LEMMA HostRestartKeeps ==
    ASSUME Once, Kept, Muted, NEW survivors \in SUBSET Clients, HostRestart(survivors)
    PROVE  Kept' /\ Muted'
<1> DEFINE all == ParitiesOf(hostUp) \cup ParitiesOf(hostDown)
                  \cup (UNION {LostWith(link[c].reply) : c \in Clients})
                  \cup (UNION {ParitiesOf(late[c]) \cap Parities : c \in Clients})
<1>1. /\ UNCHANGED <<clientUp, clientDown, holds, order, answers>> /\ hostUp' = {}
      /\ \A d \in Clients : link'[d].phase = "closed"
      /\ End(all, "lost")
  BY DEF HostRestart, Closed
<1>2. EndsGrow /\ \A p \in Parities : p \in all => closed'[p] # {}
  <2> HIDE DEF all
  <2> QED BY <1>1, EndGrows
<1>3. \A p \in Parities : Somewhere(p) => Somewhere(p)' \/ Done(p)'
  <2>1. ASSUME NEW p \in Parities, NEW d \in Clients
        PROVE  /\ HeldReply(d, p) => Done(p)'
               /\ HeldUp(d, p) => HeldUp(d, p)'
               /\ HeldDown(d, p) => HeldDown(d, p)'
    <3>1. HeldReply(d, p) => p \in all
      BY DEF HeldReply
    <3> HIDE DEF all
    <3> QED BY <1>1, <1>2, <3>1 DEF HeldUp, HeldDown, Confirmed, Done
  <2>2. ASSUME NEW p \in Parities, HeldHost(p)
        PROVE  Done(p)'
    <3>1. p \in all
      BY <2>2 DEF HeldHost, ParitiesOf
    <3> HIDE DEF all
    <3> QED BY <1>2, <3>1 DEF Done
  <2> QED BY <2>1, <2>2 DEF Somewhere
<1> HIDE DEF all
<1>4. Muted'
  BY <1>1, <1>2, MutedStays
<1> QED BY <1>1, <1>2, <1>3, <1>4, DoneStays, KeptStays

LEMMA HostExpireKeeps ==
    ASSUME Once, Kept, Muted, NEW row \in hostUp, HostExpire(row)
    PROVE  Kept' /\ Muted'
<1>1. /\ UNCHANGED <<clientUp, clientDown, holds, hostDown, link, order, answers>>
      /\ hostUp' = hostUp \ {row} /\ End({row.parity}, "lost")
  BY DEF HostExpire, client_vars
<1>2. EndsGrow /\ \A p \in Parities : p = row.parity => closed'[p] # {}
  BY <1>1, EndGrows
<1>3. \A p \in Parities : Somewhere(p) => Somewhere(p)' \/ Done(p)'
  <2>1. ASSUME NEW p \in Parities, NEW d \in Clients
        PROVE  /\ HeldReply(d, p) => HeldReply(d, p)'
               /\ HeldUp(d, p) => HeldUp(d, p)'
               /\ HeldDown(d, p) => HeldDown(d, p)'
    BY <1>1 DEF HeldReply, HeldUp, HeldDown, Confirmed
  <2>2. \A p \in Parities : HeldHost(p) => HeldHost(p)' \/ Done(p)'
    BY <1>1, <1>2 DEF HeldHost, Done
  <2> QED BY <2>1, <2>2 DEF Somewhere
<1>4. Muted'
  BY <1>1, <1>2, MutedStays
<1> QED BY <1>1, <1>2, <1>3, <1>4, DoneStays, KeptStays

LEMMA HostProcessKeeps ==
    ASSUME Once, Kept, Muted, NEW row \in hostDown, NEW outcome, HostProcess(row, outcome)
    PROVE  Kept' /\ Muted'
<1>1. PICK result :
          /\ result.parity = row.parity /\ result.kind = outcome
          /\ hostUp' = hostUp \cup {result}
  BY HostProcessEffect DEF HostRan
<1>2. /\ row.parity \in Parities /\ hostDown' = hostDown \ {row}
      /\ UNCHANGED <<clientUp, clientDown, holds, link, order, answers>>
      /\ IF outcome = "C210" THEN End({row.parity}, "muted") ELSE UNCHANGED closed
  BY HostProcessEffect DEF HostRan, client_vars
<1>3. EndsGrow /\ (outcome = "C210" => closed'[row.parity] # {})
  BY <1>2, EndGrows DEF EndsGrow
<1>4. \A p \in Parities : Somewhere(p) => Somewhere(p)'
  <2>1. ASSUME NEW p \in Parities, NEW d \in Clients
        PROVE  /\ HeldReply(d, p) => HeldReply(d, p)'
               /\ HeldUp(d, p) => HeldUp(d, p)'
               /\ HeldDown(d, p) => HeldDown(d, p)'
    BY <1>2 DEF HeldReply, HeldUp, HeldDown, Confirmed
  <2>2. \A p \in Parities : HeldHost(p) => HeldHost(p)'
    BY <1>1, <1>2 DEF HeldHost
  <2> QED BY <2>1, <2>2 DEF Somewhere
<1>5. Muted'
  BY <1>1, <1>2, <1>3, MutedStays
<1> QED BY <1>2, <1>3, <1>4, <1>5, DoneStays, KeptStays

LEMMA KeptStep ==
    ASSUME Once, Kept, Muted, [Next]_vars
    PROVE  Kept' /\ Muted'
<1>1. ASSUME NEW c \in Clients, ClientNext(c)
      PROVE  Kept' /\ Muted'
  BY <1>1, ScheduleKeeps, LinkKeeps, FailureKeeps, ConfirmationKeeps, PongKeeps, CommandKeeps,
     ProcessFunctionKeeps, QueueAnswerKeeps, ProcessResponseKeeps, TransposerPanicKeeps,
     ClientExpireKeeps
     DEF ClientNext
<1>2. ASSUME NEW c \in Clients, ConnectionNext(c)
      PROVE  Kept' /\ Muted'
  BY <1>2, PingKeeps, ForwardKeeps, HostCommandKeeps, LinkKeeps, BreakKeeps, ClientRestartKeeps
     DEF ConnectionNext
<1>3. CASE HostNext
  BY <1>3, HostProcessKeeps, HostExpireKeeps, HostRestartKeeps DEF HostNext
<1>4. CASE UNCHANGED vars
  BY <1>4 DEF vars, Kept, Muted, Scheduled, Done, Somewhere, HeldUp, HeldDown, HeldReply,
              HeldHost, Confirmed
<1> QED BY <1>1, <1>2, <1>3, <1>4 DEF Next

LEMMA KeptAlways == Spec => []Kept
<1>1. Init => Kept /\ Muted
  BY DEF Init, Kept, Muted, Scheduled, Closed
<1> QED BY <1>1, KeptStep, OnceAlways, PTL DEF Spec
-------------------------------------------------------------------------------
(* The host remembers who asked.                                           *)

Filed(n, p) == \E t \in tasks[n] : t.parity = p

\* From the moment the host has queued a command until it has redirected the response,
\* the target has a task with the parity id.
TasksFiled ==
    faults = 0 =>
        \A p \in Parities : \A n \in Clients : \A k \in Places \ {"refused"} :
            In(k, n, p) /\ order[p].to = n => Filed(n, p)

\* p comes to m, and no other task is taken away.
LEMMA FiledStays ==
    ASSUME Once, TasksFiled, NEW l, NEW m, NEW q, GrowsBy(l, m, q),
           faults' = 0 => faults = 0, UNCHANGED order,
           \A n \in Clients : \A p \in Parities : Filed(n, p) => Filed(n, p)',
           faults = 0 /\ m \in Clients /\ q \in Parities /\ l \in Places \ {"refused"}
              /\ order[q].to = m => Filed(m, q)'
    PROVE  TasksFiled'
<1> SUFFICES ASSUME faults' = 0, NEW p \in Parities, NEW n \in Clients,
                    NEW k \in Places \ {"refused"}, In(k, n, p)', order[p].to = n
             PROVE  Filed(n, p)'
  BY DEF TasksFiled
<1>1. In(k, n, p) \/ (k = l /\ n = m /\ p = q)
  BY DEF GrowsBy, Nodes
<1> QED BY <1>1 DEF TasksFiled

\* Most steps bring no command to a place, and take no task away.
LEMMA NothingToFile ==
    ASSUME Once, TasksFiled, NEW m, NEW q, GrowsBy("none", m, q), faults' = 0 => faults = 0,
           UNCHANGED <<order, tasks>>
    PROVE  TasksFiled'
<1>1. \A n \in Clients : \A p \in Parities : Filed(n, p) => Filed(n, p)'
  BY DEF Filed
<1>2. "none" \notin Places
  BY DEF Places
<1> QED BY <1>1, <1>2, FiledStays

LEMMA ScheduleFiles ==
    ASSUME Once, TasksFiled, NEW c \in Clients, NEW p \in Parities,
           NEW target \in Clients \cup {Host}, Schedule(c, p, target)
    PROVE  TasksFiled'
<1>1. ~Scheduled(p) /\ target # c /\ UNCHANGED <<faults, tasks>>
  BY DEF Schedule, host_vars, fault_vars
<1>2. order'[p].to = target /\ \A q \in Parities \ {p} : order'[q] = order[q]
  BY DEF Schedule, Once, TypeOK
<1>3. \A k \in Places : \A n \in Nodes : ~In(k, n, p)
  BY <1>1, PlaceAt DEF Once, AtClient
<1>4. GrowsBy("sending", c, p)
  BY ScheduleStep
<1>5. ASSUME faults' = 0, NEW q \in Parities, NEW n \in Clients,
             NEW k \in Places \ {"refused"}, In(k, n, q)', order'[q].to = n
      PROVE  Filed(n, q)'
  <2>1. In(k, n, q) \/ (n = c /\ q = p)
    BY <1>4, <1>5 DEF GrowsBy, Nodes
  <2>2. q # p
    BY <1>1, <1>2, <1>3, <1>5, <2>1 DEF Nodes
  <2>3. In(k, n, q) /\ order[q].to = n
    BY <1>2, <1>5, <2>1, <2>2
  <2> QED BY <1>1, <1>5, <2>3 DEF TasksFiled, Filed
<1> QED BY <1>5 DEF TasksFiled

\* A task stays with its command on the way to the handler and back to the host.
LEMMA MoveFiles ==
    ASSUME Once, TasksFiled, NEW c \in Clients, NEW p \in Parities, NEW k \in Places \ {"refused"},
           In(k, c, p), NEW l, GrowsBy(l, c, p), UNCHANGED <<order, tasks, faults>>
    PROVE  TasksFiled'
<1>1. \A n \in Clients : \A q \in Parities : Filed(n, q) => Filed(n, q)'
  BY DEF Filed
<1>2. faults = 0 /\ order[p].to = c => Filed(c, p)'
  BY <1>1 DEF TasksFiled
<1> QED BY <1>1, <1>2, FiledStays

LEMMA ProcessFiles ==
    ASSUME Once, TasksFiled, NEW c \in Clients,
           \/ ReceiveCommand(c) \/ QueueAnswer(c)
           \/ \E row \in clientDown[c], responds \in BOOLEAN : ProcessFunction(c, row, responds)
           \/ \E row \in clientDown[c] : ProcessResponse(c, row)
    PROVE  TasksFiled'
<1>1. UNCHANGED <<order, tasks, faults>>
  BY DEF ReceiveCommand, QueueAnswer, ProcessFunction, ProcessResponse, host_vars, fault_vars,
         history_vars
<1>2. {"coming", "arrived", "answering"} \subseteq Places \ {"refused"}
  BY DEF Places
<1>3. ASSUME ReceiveCommand(c), NEW p, p = link[c].reply.parity
      PROVE  TasksFiled'
  BY <1>1, <1>2, <1>3, CommandEffect, MoveFiles
<1>4. ASSUME NEW row \in clientDown[c], NEW responds \in BOOLEAN, ProcessFunction(c, row, responds)
      PROVE  TasksFiled'
  <2>1. row.parity \in Parities
    BY DEF Once, TypeOK, DownRow
  <2> QED BY <1>1, <1>2, <1>4, <2>1, ProcessFunctionStep, MoveFiles
<1>5. ASSUME NEW row \in clientDown[c], ProcessResponse(c, row)
      PROVE  TasksFiled'
  BY <1>1, <1>5, ProcessResponseStep, NothingToFile
<1>6. ASSUME QueueAnswer(c)
      PROVE  TasksFiled'
  <2>1. holds[c] \subseteq Parities
    BY DEF Once, TypeOK
  <2> QED BY <1>1, <1>2, <1>6, <2>1, QueueAnswerStep, MoveFiles
<1> QED BY <1>3, <1>4, <1>5, <1>6

LEMMA PingFiles ==
    ASSUME Once, TasksFiled, NEW c \in Clients, NEW x \in Exchanges(c), HandlePing(c, x)
    PROVE  TasksFiled'
<1>1. UNCHANGED <<order, tasks, faults>>
  BY DEF HandlePing
<1>2. "queued" \in Places \ {"refused"}
  BY DEF Places
<1>3. ASSUME NEW row \in hostUp, In("queued", c, row.parity), GrowsBy("coming", c, row.parity)
      PROVE  TasksFiled'
  <2>1. row.parity \in Parities
    BY DEF Once, TypeOK, UpRow
  <2> QED BY <1>1, <1>2, <1>3, <2>1, MoveFiles
<1> QED BY <1>1, <1>3, PingStep, NothingToFile

\* The task is filed under the target before the command is queued for it.
LEMMA RedirectFiles ==
    ASSUME Once, TasksFiled, NEW c \in Clients, NEW x \in Exchanges(c), HandleRedirect(c, x)
    PROVE  TasksFiled'
<1> SUFFICES ASSUME NEW p, p = x.request.parity, NEW target \in Clients, target = x.request.target
             PROVE  TasksFiled'
  BY RedirectRequest
<1>1. /\ x.request.kind = "Function" /\ order[p].to = target
      /\ tasks' = [tasks EXCEPT ![target] = @ \cup {[parity |-> p, origin |-> c]}]
      /\ UNCHANGED <<order, faults>>
  BY RedirectRequest DEF AddTask
<1>2. PICK t : t.parity = p /\ tasks' = [tasks EXCEPT ![target] = @ \cup {t}]
  BY <1>1
<1>3. /\ \A n \in Clients : \A q \in Parities : Filed(n, q) => Filed(n, q)'
      /\ Filed(target, p)'
  <2>1. /\ \A n \in Clients : tasks[n] \subseteq tasks'[n]
        /\ t \in tasks'[target]
    BY <1>2 DEF Once, TypeOK
  <2> QED BY <1>2, <2>1 DEF Filed
<1>4. CASE GrowsBy("refused", c, p)
  BY <1>1, <1>3, <1>4, FiledStays
<1>5. CASE GrowsBy("queued", target, p)
  BY <1>1, <1>3, <1>5, FiledStays
<1> QED BY <1>1, <1>4, <1>5, ForwardMove

\* The task goes when the response could not be redirected.
LEMMA ResponseFiles ==
    ASSUME Once, TasksFiled, NEW c \in Clients, NEW x \in Exchanges(c), HandleResponse(c, x)
    PROVE  TasksFiled'
<1> SUFFICES ASSUME NEW p, p = x.request.parity
             PROVE  TasksFiled'
  OBVIOUS
<1>1. /\ x.request.kind = "Response"
      /\ UNCHANGED tasks \/ tasks' = [tasks EXCEPT ![c] = {t \in @ : t.parity # p}]
      /\ UNCHANGED <<order, faults>>
  BY ResponseRequest
<1>2. p \in Parities /\ Scheduled(p) /\ In("sending", c, p) /\ ~In("sending", c, p)'
  BY ForwardMove
<1>3. order[p].from # order[p].to
  BY <1>2 DEF Once, Distinct
<1>4. \A n \in Clients : \A q \in Parities \ {p} : Filed(n, q) => Filed(n, q)'
  BY <1>1 DEF Filed, Once, TypeOK
<1>5. \E l \in {"refused", "queued"}, m \in Clients :
        /\ GrowsBy(l, m, p)
        /\ l = "queued" => m = order[p].from
  BY <1>1, ForwardMove
<1>6. ASSUME faults' = 0, NEW q \in Parities, NEW n \in Clients,
             NEW k \in Places \ {"refused"}, In(k, n, q)', order[q].to = n
      PROVE  Filed(n, q)'
  <2>1. q # p
    <3>1. SUFFICES ASSUME q = p
                   PROVE  FALSE
      OBVIOUS
    <3>2. In(k, n, p) \/ (k = "queued" /\ n = order[p].from)
      BY <1>5, <1>6, <3>1 DEF GrowsBy, Nodes
    <3>3. In(k, n, p)
      BY <1>3, <1>6, <3>1, <3>2
    <3>4. k = "sending" /\ n = c
      BY <1>2, <3>3 DEF Once, OneCopy, Nodes, Places
    <3> QED BY <1>2, <1>6, <3>1, <3>4
  <2>2. In(k, n, q)
    BY <1>5, <1>6, <2>1 DEF GrowsBy, Nodes
  <2> QED BY <1>1, <1>4, <1>6, <2>1, <2>2 DEF TasksFiled
<1> QED BY <1>1, <1>6 DEF TasksFiled

LEMMA HostFiles ==
    ASSUME Once, TasksFiled, NEW c \in Clients, NEW x \in Exchanges(c), HandleHostCommand(c, x)
    PROVE  TasksFiled'
<1>1. /\ UNCHANGED <<order, faults>> /\ AddTask(c, x.request.parity, Host)
      /\ \/ GrowsBy("arrived", Host, x.request.parity)
         \/ GrowsBy("refused", c, x.request.parity)
  BY HostCommandRequest, HostTakesStep, RefuseStep
<1>2. Host \notin Clients
  BY NamesAssumption
<1>3. \A n \in Clients : \A q \in Parities : Filed(n, q) => Filed(n, q)'
  BY <1>1, <1>2 DEF AddTask, Filed, Once, TypeOK
<1> QED BY <1>1, <1>2, <1>3, FiledStays

LEMMA HostProcessFiles ==
    ASSUME Once, TasksFiled, NEW row \in hostDown, NEW outcome, HostProcess(row, outcome)
    PROVE  TasksFiled'
<1>1. /\ row.parity \in Parities /\ row.client \in Clients /\ order[row.parity].to = Host
      /\ UNCHANGED <<order, faults, tasks>>
      /\ GrowsBy("queued", row.client, row.parity)
  BY HostProcessEffect, HostProcessStep DEF HostRan
<1>2. \A n \in Clients : \A q \in Parities : Filed(n, q) => Filed(n, q)'
  BY <1>1 DEF Filed
<1> QED BY <1>1, <1>2, NamesAssumption, FiledStays

\* A fault, after which nothing is said of the tasks.
LEMMA FaultFiles ==
    ASSUME TypeOK, faults' = faults + 1
    PROVE  TasksFiled'
BY DEF TypeOK, TasksFiled

LEMMA FiledStep ==
    ASSUME Once, TasksFiled, [Next]_vars
    PROVE  TasksFiled'
<1>1. ASSUME NEW c \in Clients, ClientNext(c)
      PROVE  TasksFiled'
  <2>1. ASSUME ClientSend(c) \/ ReceiveFailure(c) \/ ReceiveConfirmation(c) \/ ReceivePong(c)
        PROVE  TasksFiled'
    <3>1. UNCHANGED <<order, tasks, faults>>
      BY <2>1 DEF ClientSend, ReceiveFailure, ReceiveConfirmation, ReceivePong, host_vars,
                  fault_vars, history_vars
    <3>2. GrowsBy("none", c, c)
      BY <2>1, ClientSendEffect, ReceiveFailureEffect, ConfirmationEffect, PongEffect
    <3> QED BY <3>1, <3>2, NothingToFile
  <2>2. ASSUME TransposerPanic(c) \/ \E row \in clientUp[c] \cup clientDown[c] :
                                          ClientExpire(c, row)
        PROVE  TasksFiled'
    BY <2>2, FaultFiles DEF TransposerPanic, ClientExpire, Once
  <2> QED BY <1>1, <2>1, <2>2, ScheduleFiles, ProcessFiles DEF ClientNext
<1>2. ASSUME NEW c \in Clients, ConnectionNext(c)
      PROVE  TasksFiled'
  <2>1. ASSUME \/ \E x \in Exchanges(c) : HandlerPanic(c, x)
               \/ Connect(c) \/ Resync(c) \/ Synced(c) \/ NoticeDisconnect(c) \/ ClientRestart(c)
        PROVE  TasksFiled'
    <3>1. UNCHANGED <<order, tasks, faults>>
      BY <2>1 DEF HandlerPanic, Connect, Resync, Synced, NoticeDisconnect, ClientRestart, host_vars,
                  fault_vars, history_vars
    <3>2. GrowsBy("none", c, c)
      BY <2>1, PanicStep, NothingMoves, ClientRestartStep
    <3> QED BY <3>1, <3>2, NothingToFile
  <2>2. ASSUME NEW stops \in BOOLEAN, NEW arrives \in BOOLEAN, Break(c, stops, arrives)
        PROVE  TasksFiled'
    BY <2>2, FaultFiles DEF Break, Once
  <2> QED BY <1>2, <2>1, <2>2, PingFiles, RedirectFiles, ResponseFiles, HostFiles
          DEF ConnectionNext
<1>3. CASE HostNext
  <2>1. ASSUME \/ \E row \in hostUp : HostExpire(row)
               \/ \E survivors \in SUBSET Clients : HostRestart(survivors)
        PROVE  TasksFiled'
    BY <2>1, FaultFiles DEF HostExpire, HostRestart, Once
  <2> QED BY <1>3, <2>1, HostProcessFiles DEF HostNext
<1>4. CASE UNCHANGED vars
  BY <1>4 DEF vars, TasksFiled, Filed, In, Sending, Live, Asked, Late, RowsOf, Refused, Coming,
              Queued, Arrived, Answering
<1> QED BY <1>1, <1>2, <1>3, <1>4 DEF Next

\* get_node_task_origin(..).unwrap() finds the task of a response, for as long as the
\* host has not been started again.
THEOREM OriginRemembered == Spec => []TaskRemembered
<1>1. Init => TasksFiled
  <2>1. Init => \A k \in Places : \A n \in Clients : \A p \in Parities : ~In(k, n, p)
    BY DEF Init, In, Sending, Live, Asked, Late, RowsOf, Refused, Coming, Queued, Arrived,
           Answering, Closed
  <2> QED BY <2>1 DEF TasksFiled
<1>2. ASSUME Once, TasksFiled
      PROVE  TaskRemembered
  <2> SUFFICES ASSUME faults = 0, NEW c \in Clients, NEW x \in Exchanges(c),
                      x.request.kind = "Response"
               PROVE  TaskOrigins(c, x.request.parity) # {}
    BY DEF TaskRemembered
  <2>1. /\ x.request.parity \in Parities /\ In("sending", c, x.request.parity)
        /\ order[x.request.parity].to = c
    BY <1>2, RequestSent DEF OwnCommand, OwnResponse
  <2>2. Filed(c, x.request.parity)
    BY <1>2, <2>1 DEF TasksFiled, Places
  <2> QED BY <2>2 DEF Filed, TaskOrigins
<1> QED BY <1>1, <1>2, FiledStep, OnceAlways, PTL DEF Spec
-------------------------------------------------------------------------------
(* A command is dropped only when something has failed.                    *)

\* While nothing has failed no client has stopped, nobody has left a request
\* behind and nothing is lost.
Calm ==
    Untroubled =>
        /\ \A c \in Clients : running[c] /\ late[c] = {}
        /\ \A p \in Parities : "lost" \notin closed[p]

\* Steps that lose nothing and stop nobody.
LEMMA StaysCalm ==
    ASSUME TypeOK, Calm, faults' = faults, EndsGrow,
           UNCHANGED <<running, late>>,
           \A p \in Parities : "lost" \in closed'[p] => "lost" \in closed[p]
    PROVE  Calm'
BY DEF Calm, Untroubled, EndsGrow

LEMMA FaultCalm ==
    ASSUME TypeOK, faults' = faults + 1
    PROVE  Calm'
BY DEF TypeOK, Calm, Untroubled

\* A client stops over a Failure, which the host has recorded as an ending.
LEMMA FailureCalm ==
    ASSUME Once, NEW c \in Clients, ReceiveFailure(c)
    PROVE  Calm'
<1> DEFINE p == link[c].reply.parity
<1>1. p \in Parities
  BY MessageParity DEF ReceiveFailure, Once, TypeOK, Link
<1>2. \E e \in {"refused", "failed", "undelivered"} : End({p}, e)
  BY DEF ReceiveFailure
<1>3. closed'[p] \cap {"refused", "failed", "undelivered"} # {}
  BY <1>1, <1>2 DEF End
<1> QED BY <1>1, <1>3 DEF Calm, Untroubled

\* The host answers a connection that is there.
LEMMA HandlerCalm ==
    ASSUME Once, Calm, NEW c \in Clients, NEW x \in Exchanges(c), NEW message,
           Reply(c, x, message), UNCHANGED <<running, faults>>
    PROVE  Calm'
<1>1. CASE x.live
  <2>1. UNCHANGED <<late, closed>>
    BY <1>1 DEF Reply
  <2> QED BY <2>1, StaysCalm DEF Once, EndsGrow
<1>2. CASE ~x.live
  <2>1. x.request \in late[c]
    BY <1>2 DEF Exchanges
  <2>2. End(LostWith(message), "lost")
    BY <1>2 DEF Reply
  <2>3. EndsGrow
    BY <2>2, EndGrows
  <2> QED BY <2>1, <2>3 DEF Calm, Untroubled, EndsGrow
<1> QED BY <1>1, <1>2

LEMMA ClientCalm ==
    ASSUME Once, Calm, NEW c \in Clients, ClientNext(c)
    PROVE  Calm'
<1>1. CASE \/ \E p \in Parities, target \in Clients \cup {Host} : Schedule(c, p, target)
           \/ ClientSend(c) \/ ReceiveConfirmation(c) \/ ReceivePong(c) \/ ReceiveCommand(c)
           \/ QueueAnswer(c)
  <2>1. UNCHANGED <<running, late, faults, closed>>
    BY <1>1 DEF Schedule, ClientSend, ReceiveConfirmation, ReceivePong, ReceiveCommand,
                QueueAnswer, client_vars, fault_vars, history_vars
  <2> QED BY <2>1, StaysCalm DEF Once, EndsGrow
<1>2. CASE TransposerPanic(c) \/ \E row \in clientUp[c] \cup clientDown[c] : ClientExpire(c, row)
  BY <1>2, FaultCalm DEF TransposerPanic, ClientExpire, Once
<1>3. ASSUME NEW row \in clientDown[c], NEW responds \in BOOLEAN, ProcessFunction(c, row, responds)
      PROVE  Calm'
  <2>1. /\ UNCHANGED <<running, late, faults>>
        /\ UNCHANGED closed \/ End({row.parity}, "muted")
    BY <1>3, ProcessFunctionEffect DEF Ran
  <2>2. EndsGrow
    BY <2>1, EndGrows DEF EndsGrow
  <2>3. \A p \in Parities : "lost" \in closed'[p] => "lost" \in closed[p]
    BY <2>1 DEF End
  <2> QED BY <2>1, <2>2, <2>3, StaysCalm DEF Once
<1>4. ASSUME NEW row \in clientDown[c], ProcessResponse(c, row)
      PROVE  Calm'
  BY <1>4, ProcessResponseEffect, StaysCalm DEF Taken, Once, EndsGrow
<1> QED BY <1>1, <1>2, <1>3, <1>4, FailureCalm DEF ClientNext

LEMMA ConnectionCalm ==
    ASSUME Once, TaskRemembered, Calm, NEW c \in Clients, ConnectionNext(c)
    PROVE  Calm'
<1>1. CASE Connect(c) \/ Resync(c) \/ Synced(c) \/ NoticeDisconnect(c)
  <2>1. UNCHANGED <<running, late, faults, closed>>
    BY <1>1 DEF Connect, Resync, Synced, NoticeDisconnect, client_vars, fault_vars, history_vars
  <2> QED BY <2>1, StaysCalm DEF Once, EndsGrow
<1>2. CASE \E stops, arrives \in BOOLEAN : Break(c, stops, arrives)
  BY <1>2, FaultCalm DEF Break, Once
<1>3. ASSUME NEW x \in Exchanges(c), HandlePing(c, x)
      PROVE  Calm'
  BY <1>3, PingStep, HandlerCalm DEF HandlePing, client_vars
<1>4. ASSUME NEW x \in Exchanges(c),
             HandleRedirect(c, x) \/ HandleResponse(c, x)
      PROVE  Calm'
  BY <1>4, ForwardMove, HandlerCalm DEF client_vars
<1>5. ASSUME NEW x \in Exchanges(c), HandleHostCommand(c, x)
      PROVE  Calm'
  BY <1>5, HostCommandRequest, HandlerCalm DEF HostTakes, Refuse, client_vars
<1>6. ASSUME NEW x \in Exchanges(c), HandlerPanic(c, x)
      PROVE  Calm'
  <2>1. faults # 0 /\ UNCHANGED <<faults, closed>>
    BY <1>6 DEF HandlerPanic, TaskRemembered, history_vars
  <2> QED BY <2>1 DEF Calm, Untroubled
<1>7. CASE ClientRestart(c)
  <2>1. ~Untroubled
    BY <1>7 DEF ClientRestart, Calm
  <2>2. UNCHANGED faults /\ EndsGrow
    BY <1>7, EndGrows DEF ClientRestart, fault_vars
  <2> QED BY <2>1, <2>2 DEF Calm, Untroubled, EndsGrow
<1> QED BY <1>1, <1>2, <1>3, <1>4, <1>5, <1>6, <1>7 DEF ConnectionNext

LEMMA CalmStep ==
    ASSUME Once, TaskRemembered, Calm, [Next]_vars
    PROVE  Calm'
<1>1. CASE HostNext
  <2>1. ASSUME NEW row \in hostDown, NEW outcome, HostProcess(row, outcome)
        PROVE  Calm'
    <3>1. /\ UNCHANGED <<running, late, faults>>
          /\ UNCHANGED closed \/ End({row.parity}, "muted")
      BY <2>1, HostProcessEffect DEF HostRan, HostProcess, client_vars, fault_vars
    <3>2. EndsGrow
      BY <3>1, EndGrows DEF EndsGrow
    <3>3. \A p \in Parities : "lost" \in closed'[p] => "lost" \in closed[p]
      BY <3>1 DEF End
    <3> QED BY <3>1, <3>2, <3>3, StaysCalm DEF Once
  <2>2. CASE \/ \E row \in hostUp : HostExpire(row)
             \/ \E survivors \in SUBSET Clients : HostRestart(survivors)
    BY <2>2, FaultCalm DEF HostExpire, HostRestart, Once
  <2> QED BY <1>1, <2>1, <2>2 DEF HostNext
<1>2. CASE UNCHANGED vars
  BY <1>2 DEF vars, Calm, Untroubled
<1> QED BY <1>1, <1>2, ClientCalm, ConnectionCalm DEF Next

\* A command that was scheduled is answered, or has ended, or is in a table, on its
\* way to one or in the hands of a transposer, which takes the command out of one
\* table before it puts the response in the other: the connection thread removes the
\* row it replies with, the client the row that is confirmed and the transposers the
\* row they process, and none of them removes the last copy.  Nothing is dropped as
\* long as nothing has failed.
THEOREM NothingLost == Spec => []NothingVanishes
<1>1. Init => Calm
  BY DEF Init, Calm
<1>2. ASSUME Kept, Calm
      PROVE  NothingVanishes
  <2>1. \A p \in Parities : Somewhere(p) => Held(p)
    BY DEF Somewhere, HeldUp, HeldDown, HeldReply, HeldHost, Held, ParitiesOf
  <2> QED BY <1>2, <2>1 DEF Kept, Calm, Done, NothingVanishes
<1> QED BY <1>1, <1>2, CalmStep, KeptAlways, OriginRemembered, OnceAlways, PTL DEF Spec
-------------------------------------------------------------------------------
(* Commands of one client for one target stay in order.                    *)

Pending(c, p) == \E row \in clientUp[c] : row.parity = p

AfterSame ==
    \A q \in Parities : \A p \in order[q].after :
        /\ p \in Parities /\ Scheduled(p)
        /\ order[p].from = order[q].from /\ order[p].to = order[q].to

\* The rows of a client are in the order in which they were scheduled.
RowsInOrder(c) ==
    /\ \A r \in RowsOf(c) : r.id < nextId[c]
    /\ \A r, s \in RowsOf(c) :
          r.kind = "Function" /\ s.kind = "Function" /\ r.parity \in order[s.parity].after
              => r.id < s.id

\* A listing leaves out no older row, but the one that is being sent; there is none
\* while the client is not connected or sends a ping.
Listing(c) ==
    /\ link[c].phase = "closed" \/ (link[c].phase \in {"request", "reply"}
                                       /\ link[c].request.kind = "C206") => batch[c] = {}
    /\ \A s \in batch[c] : \A r \in clientUp[c] :
          r.id < s.id => r \in batch[c] \/ Exchanging(c, r.parity)
    /\ \A s \in batch[c] : s \in clientUp[c] \/ closed[s.parity] # {}

\* What was sent and is not confirmed is still in the up table, or has ended; with a
\* connection that is dead the client has stopped.
Backed(c) ==
    /\ link[c].phase = "request" /\ link[c].request.kind = "Function" =>
          Pending(c, link[c].request.parity) \/ closed[link[c].request.parity] # {}
    /\ \A m \in late[c] :
          m.kind = "Function" =>
             (~running[c] /\ Pending(c, m.parity)) \/ closed[m.parity] # {}

Orderly(c) == RowsInOrder(c) /\ Listing(c) /\ Backed(c)

LEMMA StillOrderly ==
    ASSUME Once, NEW c \in Clients, Orderly(c), EndsGrow,
           UNCHANGED <<clientUp[c], batch[c], running[c], link[c], nextId[c]>>,
           late'[c] \subseteq late[c],
           \A p \in Parities : Scheduled(p) => order'[p] = order[p]
    PROVE  Orderly(c)'
<1>1. \A row \in RowsOf(c) : row.parity \in Parities /\ order'[row.parity] = order[row.parity]
  BY UpInUse
<1>2. RowsOf(c)' = RowsOf(c)
  BY DEF RowsOf
<1>3. RowsInOrder(c)'
  BY <1>1, <1>2 DEF Orderly, RowsInOrder
<1>4. Listing(c)'
  BY <1>1 DEF Orderly, Listing, Exchanging, EndsGrow, RowsOf
<1>5. \A m : /\ m.kind = "Function"
             /\ m \in late[c] \/ (link[c].phase \in {"request", "reply"} /\ m = link[c].request)
             => m.parity \in Parities
  BY RequestAt DEF Once, Ping
<1>6. Backed(c)'
  BY <1>5 DEF Orderly, Backed, Pending, EndsGrow
<1> QED BY <1>3, <1>4, <1>6 DEF Orderly

\* A client that has no connection, and rows that go.
LEMMA Emptied ==
    ASSUME Once, NEW c \in Clients, Orderly(c), batch'[c] = {}, clientUp'[c] \subseteq clientUp[c],
           link'[c].phase \in {"closed", "idle"}, UNCHANGED <<nextId[c], order>>,
           \A m \in late'[c] : m.kind = "Function" =>
             (~running'[c] /\ Pending(c, m.parity)') \/ closed'[m.parity] # {}
    PROVE  Orderly(c)'
BY DEF Orderly, RowsInOrder, Listing, Backed, RowsOf

\* As long as the client runs, a dead connection holds only what has ended.
LEMMA LateEnded ==
    ASSUME Once, NEW c \in Clients, Orderly(c), running[c], EndsGrow
    PROVE  \A m \in late[c] : m.kind = "Function" => closed'[m.parity] # {}
<1>1. ASSUME NEW m \in late[c], m.kind = "Function"
      PROVE  m.parity \in Parities /\ closed[m.parity] # {}
  BY <1>1, RequestAt DEF Once, Ping, Orderly, Backed
<1> QED BY <1>1 DEF EndsGrow

LEMMA ScheduleOrderly ==
    ASSUME Once, AfterSame, \A d \in Clients : Orderly(d), NEW c \in Clients, NEW p \in Parities,
           NEW target \in Clients \cup {Host}, Schedule(c, p, target)
    PROVE  \A d \in Clients : Orderly(d)'
<1>1. /\ ~Scheduled(p) /\ UNCHANGED <<batch, running, link, late, closed>>
      /\ \A q \in Parities \ {p} : order'[q] = order[q]
      /\ \A d \in Clients \ {c} : nextId'[d] = nextId[d] /\ clientUp'[d] = clientUp[d]
      /\ nextId'[c] = nextId[c] + 1 /\ nextId[c] \in Nat
  BY NamesAssumption DEF Schedule, host_vars, fault_vars, Once, TypeOK
<1>2. PICK row : row.id = nextId[c] /\ row.parity = p /\ clientUp'[c] = clientUp[c] \cup {row}
  <2>1. PICK row : /\ row.id = nextId[c] /\ row.parity = p
                   /\ clientUp' = [clientUp EXCEPT ![c] = @ \cup {row}]
    BY DEF Schedule, buffer_up_schedule
  <2> QED BY <2>1 DEF Once, TypeOK
<1>3. EndsGrow
  BY <1>1 DEF EndsGrow
<1>4. \A d \in Clients \ {c} : Orderly(d)'
  BY <1>1, <1>3, StillOrderly DEF Scheduled
<1>5. \A r \in RowsOf(c) : /\ r.parity \in Parities /\ Scheduled(r.parity)
                           /\ r.id \in Nat /\ r.id < nextId[c]
                           /\ order'[r.parity] = order[r.parity]
                           /\ p \notin order[r.parity].after
  <2>1. \A r \in RowsOf(c) : r.parity \in Parities /\ Scheduled(r.parity)
    BY UpInUse
  <2>2. \A r \in RowsOf(c) : r.id \in Nat /\ r.id < nextId[c]
    BY DEF Orderly, RowsInOrder, RowsOf, Once, TypeOK, UpRow
  <2> QED BY <1>1, <2>1, <2>2 DEF AfterSame
<1>6. RowsInOrder(c)'
  <2>1. RowsOf(c)' = RowsOf(c) \cup {row}
    BY <1>1, <1>2 DEF RowsOf
  <2>2. \A r \in RowsOf(c)' : r.id < nextId'[c]
    BY <1>1, <1>2, <1>5, <2>1
  <2>3. ASSUME NEW r \in RowsOf(c)', NEW s \in RowsOf(c)', r.kind = "Function",
               s.kind = "Function", r.parity \in order'[s.parity].after
        PROVE  r.id < s.id
    <3>1. CASE r \in RowsOf(c) /\ s \in RowsOf(c)
      BY <1>5, <2>3, <3>1 DEF Orderly, RowsInOrder
    <3>2. CASE r \in RowsOf(c) /\ s = row
      BY <1>2, <1>5, <3>2
    <3>3. CASE r = row
      <4>1. p \in order'[s.parity].after
        BY <1>2, <2>3, <3>3
      <4>2. s = row
        BY <1>5, <2>1, <4>1
      <4>3. p \notin order'[p].after
        <5>1. Host \notin Clients
          BY NamesAssumption
        <5> QED BY <1>1, <5>1 DEF Schedule, Scheduled, NoOrder, Once, TypeOK
      <4> QED BY <1>2, <4>1, <4>2, <4>3
    <3> QED BY <2>1, <3>1, <3>2, <3>3
  <2> QED BY <2>2, <2>3 DEF RowsInOrder
<1>7. Listing(c)'
  BY <1>1, <1>2, <1>5 DEF Orderly, Listing, Exchanging, RowsOf
<1>8. Backed(c)'
  BY <1>1, <1>2 DEF Orderly, Backed, Pending
<1> QED BY <1>4, <1>6, <1>7, <1>8 DEF Orderly

LEMMA ClientSendOrderly ==
    ASSUME Once, \A d \in Clients : Orderly(d), NEW c \in Clients, ClientSend(c)
    PROVE  \A d \in Clients : Orderly(d)'
<1> DEFINE listing == IF batch[c] # {} THEN batch[c] ELSE clientUp[c]
           first   == first_of(listing)
           request == IF listing = {} THEN Ping ELSE AsMessage(first)
<1>1. /\ running[c] /\ link[c].phase = "idle"
      /\ UNCHANGED <<clientUp, running, nextId, late, order, closed>>
      /\ \A d \in Clients \ {c} : link'[d] = link[d] /\ batch'[d] = batch[d]
      /\ link'[c] = [phase |-> "request", request |-> request, reply |-> Pong]
      /\ batch'[c] = IF listing = {} THEN {} ELSE listing \ {first}
  BY DEF ClientSend, host_vars, fault_vars, history_vars, Once, TypeOK
<1>2. EndsGrow
  BY <1>1 DEF EndsGrow
<1>3. \A d \in Clients \ {c} : Orderly(d)'
  BY <1>1, <1>2, StillOrderly
<1>4. listing \subseteq RowsOf(c) /\ listing \in SUBSET UpRow
  BY DEF RowsOf, Once, TypeOK
<1>5. listing # {} => /\ first \in listing
                      /\ request.parity = first.parity /\ request.kind = first.kind
                      /\ request.kind # "C206"
  <2>1. ASSUME listing # {}
        PROVE  first \in listing
    BY <1>4, <2>1, FirstOfIsARow
  <2>2. AsMessage(first).parity = first.parity /\ AsMessage(first).kind = first.kind
    BY DEF AsMessage
  <2>3. \A row \in UpRow : row.kind # "C206"
    BY DEF UpRow, Kinds
  <2> HIDE DEF listing, first
  <2> QED BY <1>4, <2>1, <2>2, <2>3
<1>6. listing = {} => batch[c] = {} /\ clientUp[c] = {} /\ request.kind = "C206"
  BY DEF Ping
<1>7. \A s \in listing : s \in clientUp[c] \/ closed[s.parity] # {}
  BY DEF Orderly, Listing
<1>8. \A s \in listing : \A r \in clientUp[c] : r.id < s.id => r \in listing
  BY <1>1 DEF Orderly, Listing, Exchanging
<1> HIDE DEF listing, first, request
<1>9. RowsInOrder(c)'
  <2>1. RowsOf(c)' \subseteq RowsOf(c)
    BY <1>1, <1>4 DEF RowsOf
  <2> QED BY <1>1, <2>1 DEF Orderly, RowsInOrder
<1>10. Listing(c)'
  BY <1>1, <1>5, <1>6, <1>7, <1>8 DEF Listing, Exchanging
<1>11. Backed(c)'
  <2>1. request.kind = "Function" => Pending(c, request.parity) \/ closed[request.parity] # {}
    BY <1>5, <1>6, <1>7 DEF Pending
  <2> QED BY <1>1, <2>1 DEF Orderly, Backed, Pending
<1> QED BY <1>3, <1>9, <1>10, <1>11 DEF Orderly

\* What the client reads: the row that is confirmed goes, and nothing of a listing.
LEMMA ReceiveOrderly ==
    ASSUME Once, \A d \in Clients : Orderly(d), NEW c \in Clients,
           ReceiveConfirmation(c) \/ ReceivePong(c) \/ ReceiveCommand(c)
    PROVE  \A d \in Clients : Orderly(d)'
<1> SUFFICES ASSUME NEW r, r = link[c].reply.parity
             PROVE  \A d \in Clients : Orderly(d)'
  OBVIOUS
<1>1. /\ UNCHANGED <<batch, running, nextId, late, order, closed>>
      /\ link[c].phase = "reply" /\ link[c].reply.kind \in {"C210", "C207", "Function", "Response"}
      /\ link'[c].phase = "idle"
      /\ \A d \in Clients \ {c} : link'[d] = link[d] /\ clientUp'[d] = clientUp[d]
      /\ clientUp'[c] \subseteq clientUp[c]
      /\ \A row \in clientUp[c] :
            row \in clientUp'[c] \/ (row.parity = r /\ link[c].reply.kind = "C210")
  BY DEF ReceiveConfirmation, ReceivePong, ReceiveCommand, Idle, client_vars, host_vars,
         fault_vars, history_vars, buffer_up_remove_schedule_by_parity_id, Once, TypeOK
<1>2. EndsGrow
  BY <1>1 DEF EndsGrow
<1>3. \A d \in Clients \ {c} : Orderly(d)'
  BY <1>1, <1>2, StillOrderly
<1>4. running[c]
  BY <1>1 DEF Once, AtClient, Shape
<1>5. \A m \in late'[c] : m.kind = "Function" => closed'[m.parity] # {}
  BY <1>1, <1>2, <1>4, LateEnded
<1>6. CASE link[c].request.kind = "C206"
  <2>1. batch'[c] = {}
    BY <1>1, <1>6 DEF Orderly, Listing
  <2> QED BY <1>1, <1>3, <1>5, <2>1, Emptied
<1>7. CASE link[c].request.kind # "C206"
  <2>1. r = link[c].request.parity /\ link[c].reply.kind = "C210"
    BY <1>1, <1>7 DEF Once, AtClient, Shape, Confirmation, Refusal
  <2>2. \A row \in batch[c] : row.parity # r
    BY <1>1, <2>1 DEF Once, AtClient, Shape
  <2>3. \A row \in clientUp'[c] : row.parity # r
    <3>1. ReceiveConfirmation(c) /\ \A row \in clientUp[c] : row.client = c
      BY <2>1 DEF ReceivePong, ReceiveCommand, ReceiveConfirmation, Once, AtClient, Shape, RowsOf
    <3>2. clientUp'[c] = {row \in clientUp[c] : ~(row.client = c /\ row.parity = r)}
      BY <3>1 DEF ReceiveConfirmation, buffer_up_remove_schedule_by_parity_id, Once, TypeOK
    <3> QED BY <3>1, <3>2
  <2>4. Listing(c)'
    BY <1>1, <2>1, <2>2, <2>3 DEF Orderly, Listing, Exchanging
  <2>5. RowsInOrder(c)'
    <3>1. RowsOf(c)' \subseteq RowsOf(c)
      BY <1>1 DEF RowsOf
    <3> QED BY <1>1, <3>1 DEF Orderly, RowsInOrder
  <2>6. Backed(c)'
    BY <1>1, <1>5 DEF Backed
  <2> QED BY <1>3, <2>4, <2>5, <2>6 DEF Orderly
<1> QED BY <1>6, <1>7

LEMMA FailureOrderly ==
    ASSUME Once, \A d \in Clients : Orderly(d), NEW c \in Clients, ReceiveFailure(c)
    PROVE  \A d \in Clients : Orderly(d)'
<1>1. /\ UNCHANGED <<nextId, late, order>> /\ link[c].phase = "reply"
      /\ batch'[c] = {} /\ link'[c].phase = "closed" /\ clientUp'[c] \subseteq clientUp[c]
      /\ \A d \in Clients \ {c} : /\ link'[d] = link[d] /\ clientUp'[d] = clientUp[d]
                                  /\ batch'[d] = batch[d] /\ running'[d] = running[d]
  BY DEF ReceiveFailure, Stop, Closed, host_vars, buffer_up_remove_schedule_by_parity_id,
         Once, TypeOK
<1>2. EndsGrow
  <2>1. PICK ps, e : End(ps, e)
    BY DEF ReceiveFailure
  <2> QED BY <2>1, EndGrows
<1>3. running[c]
  BY <1>1 DEF Once, AtClient, Shape
<1>4. \A m \in late'[c] : m.kind = "Function" => closed'[m.parity] # {}
  BY <1>1, <1>2, <1>3, LateEnded
<1> QED BY <1>1, <1>2, <1>4, Emptied, StillOrderly

LEMMA ProcessOrderly ==
    ASSUME Once, \A d \in Clients : Orderly(d), NEW c \in Clients,
           \/ \E row \in clientDown[c], responds \in BOOLEAN : ProcessFunction(c, row, responds)
           \/ \E row \in clientDown[c] : ProcessResponse(c, row)
           \/ TransposerPanic(c)
    PROVE  \A d \in Clients : Orderly(d)'
<1>1. /\ UNCHANGED <<clientUp, batch, running, link, nextId, late, order>>
      /\ UNCHANGED closed \/ \E ps, e : End(ps, e)
  <2>1. CASE \E row \in clientDown[c] : ProcessResponse(c, row)
    BY <2>1, ProcessResponseEffect DEF Taken
  <2>2. CASE TransposerPanic(c)
    BY <2>2 DEF TransposerPanic
  <2>3. ASSUME NEW row \in clientDown[c], NEW responds \in BOOLEAN, ProcessFunction(c, row, responds)
        PROVE  /\ UNCHANGED <<clientUp, batch, running, link, nextId, late, order>>
               /\ UNCHANGED closed \/ \E ps, e : End(ps, e)
    BY <2>3, ProcessFunctionEffect DEF Ran
  <2> QED BY <2>1, <2>2, <2>3
<1>2. EndsGrow
  BY <1>1, EndGrows DEF EndsGrow
<1> QED BY <1>1, <1>2, StillOrderly

\* The response that the transposer queues comes after all the rows of the client.
LEMMA QueueAnswerOrderly ==
    ASSUME Once, \A d \in Clients : Orderly(d), NEW c \in Clients, QueueAnswer(c)
    PROVE  \A d \in Clients : Orderly(d)'
<1>1. UNCHANGED <<batch, running, link, late, order, closed>>
  BY DEF QueueAnswer, fault_vars, history_vars
<1>2. EndsGrow
  BY <1>1 DEF EndsGrow
<1>3. \E new : /\ new.id = nextId[c] /\ new.kind = "Response"
               /\ clientUp' = [clientUp EXCEPT ![c] = @ \cup {new}]
  <2>1. \E p \in holds[c] :
            clientUp' = [clientUp EXCEPT ![c] = @ \cup
                {[id |-> nextId[c], client |-> c, parity |-> p,
                  kind |-> "Response", target |-> Origin]}]
    BY DEF QueueAnswer, buffer_up_schedule
  <2> QED BY <2>1
<1>4. PICK new : /\ new.id = nextId[c] /\ new.kind = "Response"
                 /\ clientUp' = [clientUp EXCEPT ![c] = @ \cup {new}]
  BY <1>3
<1>5. /\ clientUp'[c] = clientUp[c] \cup {new}
      /\ nextId'[c] = nextId[c] + 1 /\ nextId[c] \in Nat
      /\ \A d \in Clients \ {c} : nextId'[d] = nextId[d] /\ clientUp'[d] = clientUp[d]
  BY <1>4, NamesAssumption DEF QueueAnswer, Once, TypeOK
<1>6. \A d \in Clients \ {c} : Orderly(d)'
  BY <1>1, <1>2, <1>5, StillOrderly
<1>7. \A r \in RowsOf(c) : r.parity \in Parities /\ r.id \in Nat /\ r.id < nextId[c]
  <2>1. \A r \in RowsOf(c) : r.parity \in Parities
    BY UpInUse
  <2> QED BY <2>1 DEF Orderly, RowsInOrder, RowsOf, Once, TypeOK, UpRow
<1>8. RowsInOrder(c)'
  <2>1. RowsOf(c)' = RowsOf(c) \cup {new}
    BY <1>1, <1>5 DEF RowsOf
  <2> QED BY <1>1, <1>4, <1>5, <1>7, <2>1 DEF Orderly, RowsInOrder
<1>9. Listing(c)'
  BY <1>1, <1>2, <1>4, <1>5, <1>7 DEF Orderly, Listing, Exchanging, RowsOf, EndsGrow
<1>10. Backed(c)'
  BY <1>1, <1>5 DEF Orderly, Backed, Pending
<1> QED BY <1>6, <1>8, <1>9, <1>10 DEF Orderly

LEMMA ClientExpireOrderly ==
    ASSUME Once, \A d \in Clients : Orderly(d), NEW c \in Clients,
           NEW row \in clientUp[c] \cup clientDown[c], ClientExpire(c, row)
    PROVE  \A d \in Clients : Orderly(d)'
<1>1. /\ UNCHANGED <<batch, running, link, nextId, late, order>>
      /\ \A d \in Clients \ {c} : clientUp'[d] = clientUp[d]
      /\ clientUp'[c] = clientUp[c] \ {row} /\ End({row.parity}, "lost")
  BY DEF ClientExpire, host_vars, Once, TypeOK
<1>2. /\ EndsGrow /\ row.parity \in Parities /\ closed'[row.parity] # {}
  <2>1. row \in UpRow \cup DownRow
    BY DEF Once, TypeOK
  <2>2. row.parity \in Parities
    BY <2>1 DEF UpRow, DownRow
  <2> QED BY <1>1, <2>2, EndGrows
<1>3. \A d \in Clients \ {c} : Orderly(d)'
  BY <1>1, <1>2, StillOrderly
<1>4. RowsInOrder(c)'
  BY <1>1 DEF Orderly, RowsInOrder, RowsOf
<1>5. \A p \in Parities : Pending(c, p) => Pending(c, p)' \/ closed'[p] # {}
  BY <1>1, <1>2 DEF Pending
<1>6. \A s \in batch[c] : s.parity \in Parities
  BY UpInUse DEF RowsOf
<1>7. Listing(c)'
  BY <1>1, <1>2, <1>6 DEF Orderly, Listing, Exchanging, EndsGrow
<1>8. Backed(c)'
  <2>1. \A m : /\ m.kind = "Function"
               /\ m \in late[c] \/ (link[c].phase \in {"request", "reply"} /\ m = link[c].request)
               => m.parity \in Parities
    BY RequestAt DEF Once, Ping
  <2>2. ASSUME NEW p \in Parities, closed[p] # {}
        PROVE  closed'[p] # {}
    BY <1>2, <2>2 DEF EndsGrow
  <2>3. link'[c].phase = "request" /\ link'[c].request.kind = "Function" =>
          Pending(c, link[c].request.parity)' \/ closed'[link[c].request.parity] # {}
    BY <1>1, <1>5, <2>1, <2>2 DEF Orderly, Backed
  <2>4. ASSUME NEW m \in late'[c], m.kind = "Function"
        PROVE  (~running'[c] /\ Pending(c, m.parity)') \/ closed'[m.parity] # {}
    BY <1>1, <1>5, <2>1, <2>2, <2>4 DEF Orderly, Backed
  <2> QED BY <1>1, <2>3, <2>4 DEF Backed
<1> QED BY <1>3, <1>4, <1>7, <1>8 DEF Orderly

LEMMA ReplyOrderly ==
    ASSUME Once, \A d \in Clients : Orderly(d), NEW c \in Clients, NEW x \in Exchanges(c),
           NEW message, Reply(c, x, message),
           UNCHANGED <<client_vars, order>>, \A d \in Clients : nextId'[d] = nextId[d]
    PROVE  \A d \in Clients : Orderly(d)'
<1>1. UNCHANGED <<clientUp, batch, running>>
  BY DEF client_vars
<1>2. EndsGrow
  BY <1>1, ReplyKeeps
<1>3. /\ \A d \in Clients : late'[d] \subseteq late[d]
      /\ \A d \in Clients \ {c} : link'[d] = link[d]
      /\ \/ link'[c] = link[c]
         \/ /\ link[c].phase = "request" /\ late'[c] = late[c]
            /\ link'[c].phase = "reply" /\ link'[c].request = link[c].request
  BY DEF Reply, Exchanges, Once, TypeOK
<1>4. \A d \in Clients \ {c} : Orderly(d)'
  BY <1>1, <1>2, <1>3, StillOrderly
<1>5. CASE link'[c] = link[c]
  BY <1>1, <1>2, <1>3, <1>4, <1>5, StillOrderly
<1>6. CASE /\ link[c].phase = "request" /\ late'[c] = late[c]
           /\ link'[c].phase = "reply" /\ link'[c].request = link[c].request
  <2>1. running[c]
    BY <1>6 DEF Once, AtClient, Shape
  <2>2. RowsInOrder(c)'
    BY <1>1 DEF Orderly, RowsInOrder, RowsOf
  <2>3. \A s \in batch[c] : s.parity \in Parities
    BY UpInUse DEF RowsOf
  <2>4. Listing(c)'
    BY <1>1, <1>2, <1>6, <2>3 DEF Orderly, Listing, Exchanging, EndsGrow
  <2>5. Backed(c)'
    BY <1>2, <1>6, <2>1, LateEnded DEF Backed
  <2> QED BY <1>4, <2>2, <2>4, <2>5 DEF Orderly
<1> QED BY <1>3, <1>5, <1>6

LEMMA HandlerOrderly ==
    ASSUME Once, \A d \in Clients : Orderly(d), NEW c \in Clients, NEW x \in Exchanges(c),
           HandlePing(c, x) \/ HandleRedirect(c, x) \/ HandleHostCommand(c, x) \/ HandleResponse(c, x)
    PROVE  \A d \in Clients : Orderly(d)'
<1>0. \A d \in Clients : d # Host
  BY NamesAssumption
<1>1. CASE HandlePing(c, x)
  BY <1>1, PingStep, ReplyOrderly DEF HandlePing
<1>2. ASSUME Refuse(c, x) \/ (\E target : Forward(c, x, target)),
             UNCHANGED <<client_vars, order>>
      PROVE  \A d \in Clients : Orderly(d)'
  <2>1. PICK message : Reply(c, x, message)
    BY <1>2 DEF Refuse, Forward
  <2>2. \A d \in Clients : nextId'[d] = nextId[d]
    BY <1>0, <1>2 DEF Refuse, Forward, Once, TypeOK
  <2> QED BY <1>2, <2>1, <2>2, ReplyOrderly
<1>3. CASE HandleHostCommand(c, x)
  BY <1>2, <1>3, HostCommandRequest, ReplyOrderly DEF HostTakes
<1>4. CASE HandleRedirect(c, x) \/ HandleResponse(c, x)
  BY <1>2, <1>4, RedirectRequest, ResponseRequest
<1> QED BY <1>1, <1>3, <1>4

LEMMA ConnectionOrderly ==
    ASSUME Once, \A d \in Clients : Orderly(d), NEW c \in Clients,
           \/ \E x \in Exchanges(c) : HandlerPanic(c, x)
           \/ Connect(c) \/ Resync(c) \/ Synced(c) \/ NoticeDisconnect(c)
    PROVE  \A d \in Clients : Orderly(d)'
<1>1. UNCHANGED <<clientUp, nextId, order, closed>>
  BY DEF HandlerPanic, Connect, Resync, Synced, NoticeDisconnect, client_vars, history_vars
<1>2. EndsGrow
  BY <1>1 DEF EndsGrow
<1>3. CASE \E x \in Exchanges(c) : HandlerPanic(c, x)
  <2>1. PICK x \in Exchanges(c) : HandlerPanic(c, x)
    BY <1>3
  <2>2. CASE x.live
    <3>1. /\ batch'[c] = {} /\ link'[c].phase = "closed" /\ late' = late
          /\ \A d \in Clients \ {c} : link'[d] = link[d] /\ batch'[d] = batch[d]
                                      /\ running'[d] = running[d]
          /\ link[c].phase = "request"
      BY <2>1, <2>2 DEF HandlerPanic, Exchanges, Closed, Once, TypeOK
    <3>2. \A m \in late'[c] : m.kind = "Function" => closed'[m.parity] # {}
      BY <1>2, <3>1, LateEnded DEF Once, AtClient, Shape
    <3> QED BY <1>1, <1>2, <3>1, <3>2, Emptied, StillOrderly
  <2>3. CASE ~x.live
    <3>1. UNCHANGED <<running, batch, link>> /\ \A d \in Clients : late'[d] \subseteq late[d]
      BY <2>1, <2>3 DEF HandlerPanic, Once, TypeOK
    <3> QED BY <1>1, <1>2, <3>1, StillOrderly
  <2> QED BY <2>2, <2>3
<1>4. CASE Connect(c)
  <2>1. /\ UNCHANGED <<batch, running, late>> /\ running[c]
        /\ link[c].phase = "closed" /\ link'[c].phase = "idle"
        /\ \A d \in Clients \ {c} : link'[d] = link[d]
    BY <1>4 DEF Connect, client_vars, fault_vars, Idle, Once, TypeOK
  <2>2. batch'[c] = {}
    BY <2>1 DEF Orderly, Listing
  <2>3. \A m \in late'[c] : m.kind = "Function" => closed'[m.parity] # {}
    BY <1>2, <2>1, LateEnded
  <2> QED BY <1>1, <1>2, <2>1, <2>2, <2>3, Emptied, StillOrderly
<1>5. CASE Resync(c) \/ Synced(c) \/ NoticeDisconnect(c)
  <2>1. UNCHANGED <<batch, running, late, link>>
    BY <1>5 DEF Resync, Synced, NoticeDisconnect, client_vars, fault_vars
  <2> QED BY <1>1, <1>2, <2>1, StillOrderly
<1> QED BY <1>3, <1>4, <1>5

\* A connection that breaks: what the host may still read of it has its row, for the
\* client stops.
LEMMA BreakOrderly ==
    ASSUME Once, \A d \in Clients : Orderly(d), NEW c \in Clients, NEW stops \in BOOLEAN,
           NEW arrives \in BOOLEAN, Break(c, stops, arrives)
    PROVE  \A d \in Clients : Orderly(d)'
<1>1. /\ UNCHANGED <<clientUp, nextId, order>>
      /\ End(LostWith(link[c].reply), "lost")
      /\ \A d \in Clients \ {c} : /\ link'[d] = link[d] /\ batch'[d] = batch[d]
                                  /\ running'[d] = running[d] /\ late'[d] = late[d]
      /\ link'[c].phase = "closed" /\ link[c].phase \in {"request", "reply"}
      /\ link[c].request.kind # "C206" => stops
      /\ batch'[c] = IF stops THEN {} ELSE batch[c]
      /\ running'[c] = IF stops THEN FALSE ELSE running[c]
      /\ \A m \in late'[c] : m \in late[c] \/ (m = link[c].request /\ link[c].phase = "request")
  <2>1. \A m \in late'[c] : m \in late[c] \/ (m = link[c].request /\ link[c].phase = "request")
    BY DEF Break, Once, TypeOK
  <2>2. \A d \in Clients \ {c} : late'[d] = late[d]
    BY DEF Break, Once, TypeOK
  <2>3. /\ \A d \in Clients \ {c} : /\ link'[d] = link[d] /\ batch'[d] = batch[d]
                                    /\ running'[d] = running[d]
        /\ link'[c].phase = "closed"
        /\ batch'[c] = IF stops THEN {} ELSE batch[c]
        /\ running'[c] = IF stops THEN FALSE ELSE running[c]
    <3>1. link' = [link EXCEPT ![c] = Closed] /\ Closed.phase = "closed"
      BY DEF Break, Stop, Closed
    <3>2. /\ stops => running' = [running EXCEPT ![c] = FALSE] /\ batch' = [batch EXCEPT ![c] = {}]
          /\ ~stops => UNCHANGED <<running, batch>>
      BY DEF Break, Stop
    <3> QED BY <3>1, <3>2 DEF Once, TypeOK
  <2> QED BY <2>1, <2>2, <2>3 DEF Break, host_vars
<1>2. EndsGrow
  BY <1>1, EndGrows
<1>3. batch'[c] = {}
  BY <1>1 DEF Orderly, Listing
<1>4. running[c]
  BY <1>1 DEF Once, AtClient, Shape
<1>5. ASSUME NEW m \in late'[c], m.kind = "Function"
      PROVE  (~running'[c] /\ Pending(c, m.parity)') \/ closed'[m.parity] # {}
  <2>1. CASE m \in late[c]
    BY <1>2, <1>4, <1>5, <2>1, LateEnded
  <2>2. CASE m = link[c].request /\ link[c].phase = "request"
    <3>1. m.parity \in Parities /\ (Pending(c, m.parity) \/ closed[m.parity] # {})
      BY <1>5, <2>2, RequestAt DEF Once, Ping, Orderly, Backed
    <3>2. ~running'[c]
      BY <1>1, <1>5, <2>2
    <3> QED BY <1>1, <1>2, <3>1, <3>2 DEF Pending, EndsGrow
  <2> QED BY <1>1, <1>5, <2>1, <2>2
<1> QED BY <1>1, <1>2, <1>3, <1>5, Emptied, StillOrderly

\* A client that is started again has lost its rows, and what the host may still read of
\* it is written off with them.
LEMMA ClientRestartOrderly ==
    ASSUME Once, \A d \in Clients : Orderly(d), NEW c \in Clients, ClientRestart(c)
    PROVE  \A d \in Clients : Orderly(d)'
<1>1. /\ UNCHANGED <<batch, link, late, order>> /\ ~running[c]
      /\ clientUp'[c] = {}
      /\ \A d \in Clients \ {c} : /\ clientUp'[d] = clientUp[d] /\ nextId'[d] = nextId[d]
                                  /\ running'[d] = running[d]
      /\ End(ParitiesOf(clientUp[c]) \cup ParitiesOf(clientDown[c]) \cup holds[c], "lost")
  BY NamesAssumption DEF ClientRestart, host_vars, fault_vars, Once, TypeOK
<1>2. EndsGrow /\ \A p \in Parities : Pending(c, p) => closed'[p] # {}
  BY <1>1, EndGrows DEF Pending, ParitiesOf
<1>3. \A d \in Clients \ {c} : Orderly(d)'
  BY <1>1, <1>2, StillOrderly
<1>4. batch'[c] = {} /\ link'[c].phase = "closed" /\ RowsOf(c)' = {}
  BY <1>1 DEF Once, AtClient, Shape, RowsOf
<1>5. ASSUME NEW m \in late'[c], m.kind = "Function"
      PROVE  closed'[m.parity] # {}
  <2>1. m.parity \in Parities /\ (Pending(c, m.parity) \/ closed[m.parity] # {})
    BY <1>1, <1>5, RequestAt DEF Once, Ping, Orderly, Backed
  <2> QED BY <1>2, <2>1 DEF EndsGrow
<1> QED BY <1>3, <1>4, <1>5 DEF Orderly, RowsInOrder, Listing, Backed

LEMMA HostRestartOrderly ==
    ASSUME Once, \A d \in Clients : Orderly(d), NEW survivors \in SUBSET Clients,
           HostRestart(survivors)
    PROVE  \A d \in Clients : Orderly(d)'
<1>1. /\ UNCHANGED <<clientUp, order>>
      /\ \A d \in Clients : link'[d].phase = "closed" /\ late'[d] = {} /\ nextId'[d] = nextId[d]
  BY NamesAssumption DEF HostRestart, Closed, Once, TypeOK
<1>2. ASSUME NEW d \in Clients
      PROVE  batch'[d] = {}
  <2>1. CASE d \notin survivors
    BY <2>1 DEF HostRestart
  <2>2. CASE d \in survivors
    <3>1. /\ batch'[d] = batch[d] /\ link[d].request.kind \in {"C206", "C207"}
          /\ link[d].phase = "idle" => batch[d] = {}
      BY <2>2 DEF HostRestart
    <3>2. link[d].phase \in {"closed", "idle", "request", "reply"}
      BY DEF Once, TypeOK, Link
    <3>3. link[d].phase \in {"request", "reply"} => link[d].request.kind = "C206"
      BY <3>1, RequestAt DEF Once, Ping, OwnCommand, OwnResponse
    <3> QED BY <3>1, <3>2, <3>3 DEF Orderly, Listing
  <2> QED BY <2>1, <2>2
<1> QED BY <1>1, <1>2, Emptied

LEMMA OrderlyStep ==
    ASSUME Once, AfterSame, \A d \in Clients : Orderly(d), [Next]_vars
    PROVE  \A d \in Clients : Orderly(d)'
<1>1. ASSUME NEW c \in Clients, ClientNext(c)
      PROVE  \A d \in Clients : Orderly(d)'
  BY <1>1, ScheduleOrderly, ClientSendOrderly, FailureOrderly, ReceiveOrderly, ProcessOrderly,
     QueueAnswerOrderly, ClientExpireOrderly
     DEF ClientNext
<1>2. ASSUME NEW c \in Clients, ConnectionNext(c)
      PROVE  \A d \in Clients : Orderly(d)'
  BY <1>2, HandlerOrderly, ConnectionOrderly, BreakOrderly, ClientRestartOrderly
     DEF ConnectionNext
<1>3. CASE HostNext
  <2>1. ASSUME NEW row \in hostDown, NEW outcome, HostProcess(row, outcome)
        PROVE  \A d \in Clients : Orderly(d)'
    <3>1. /\ UNCHANGED <<client_vars, clientUp, batch, running, link, late, order>>
          /\ nextId' = [nextId EXCEPT ![Host] = @ + 1]
          /\ UNCHANGED closed \/ End({row.parity}, "muted")
      BY <2>1, HostProcessEffect DEF HostRan, client_vars
    <3>2. \A d \in Clients : nextId'[d] = nextId[d]
      BY <3>1, NamesAssumption DEF Once, TypeOK
    <3>3. EndsGrow
      BY <3>1, EndGrows DEF EndsGrow
    <3> QED BY <3>1, <3>2, <3>3, StillOrderly
  <2>2. ASSUME NEW row \in hostUp, HostExpire(row)
        PROVE  \A d \in Clients : Orderly(d)'
    <3>1. /\ UNCHANGED <<clientUp, batch, running, link, late, nextId, order>>
          /\ End({row.parity}, "lost")
      BY <2>2 DEF HostExpire, client_vars
    <3> QED BY <3>1, EndGrows, StillOrderly
  <2> QED BY <1>3, <2>1, <2>2, HostRestartOrderly DEF HostNext
<1>4. CASE UNCHANGED vars
  <2>1. EndsGrow
    BY <1>4 DEF vars, EndsGrow
  <2> QED BY <1>4, <2>1, StillOrderly DEF vars
<1> QED BY <1>1, <1>2, <1>3, <1>4 DEF Next

LEMMA AfterStep ==
    ASSUME TypeOK, AfterSame, [Next]_vars
    PROVE  AfterSame'
<1>1. ASSUME NEW c \in Clients, NEW p \in Parities, NEW target \in Clients \cup {Host},
             Schedule(c, p, target)
      PROVE  AfterSame'
  <2>1. /\ ~Scheduled(p) /\ \A q \in Parities \ {p} : order'[q] = order[q]
        /\ order'[p].from = c /\ order'[p].to = target
        /\ order'[p].after = {q \in Parities : order[q].from = c /\ order[q].to = target}
    BY <1>1 DEF Schedule, TypeOK
  <2>2. \A q \in Parities : order[q].from = c => Scheduled(q)
    BY NamesAssumption DEF Scheduled, NoOrder
  <2>3. \A q \in Parities : Scheduled(q) => order'[q] = order[q] /\ Scheduled(q)'
    BY <2>1 DEF Scheduled
  <2>4. ASSUME NEW q \in Parities, NEW r \in order'[q].after
        PROVE  r \in Parities /\ Scheduled(r)' /\ order'[r].from = order'[q].from
                              /\ order'[r].to = order'[q].to
    <3>1. CASE q = p
      BY <2>1, <2>2, <2>3, <2>4, <3>1
    <3>2. CASE q # p
      BY <2>1, <2>3, <2>4, <3>2 DEF AfterSame
    <3> QED BY <3>1, <3>2
  <2> QED BY <2>4 DEF AfterSame
<1>2. ASSUME UNCHANGED order
      PROVE  AfterSame'
  BY <1>2 DEF AfterSame, Scheduled
<1>3. ASSUME NEW c \in Clients, ClientNext(c)
      PROVE  AfterSame'
  BY <1>1, <1>2, <1>3
     DEF ClientNext, ClientSend, ReceiveFailure, ReceiveConfirmation, ReceivePong, ReceiveCommand,
         ProcessFunction, QueueAnswer, ProcessResponse, TransposerPanic, ClientExpire,
         history_vars
<1>4. ASSUME NEW c \in Clients, ConnectionNext(c)
      PROVE  AfterSame'
  BY <1>2, <1>4
     DEF ConnectionNext, HandlePing, HandleRedirect, HandleHostCommand, HandleResponse,
         HandlerPanic, Connect, Resync, Synced, Break, NoticeDisconnect, ClientRestart,
         history_vars
<1>5. CASE HostNext
  BY <1>2, <1>5 DEF HostNext, HostProcess, HostExpire, HostRestart
<1>6. CASE UNCHANGED vars
  BY <1>2, <1>6 DEF vars
<1> QED BY <1>3, <1>4, <1>5, <1>6 DEF Next
-------------------------------------------------------------------------------
(* How far the commands are.                                               *)

\* The sender of q has sent it, and does not know what has become of it.
OnWay(q) == Exchanging(order[q].from, q) \/ Late(order[q].from, q)
Left(q)  == AtHost(q) \/ AtTarget(q) \/ OnWay(q)

HostIds == \A r \in hostUp : r.id < nextId[Host]

SenderOrder ==
    \A q \in Parities : \A p \in order[q].after :
        closed[p] = {} /\ AtSender(p) => ~Left(q)

\* The host hands out the rows of one client by their ids.
QueueOrder ==
    \A r, s \in hostUp :
        r.kind = "Function" /\ s.kind = "Function" /\ r.parity \in order[s.parity].after
            => closed[r.parity] # {} \/ r.id < s.id

TargetOrder ==
    \A q \in Parities : \A p \in order[q].after :
        closed[p] = {} /\ AtHost(p) => ~AtTarget(q)

Orders == HostIds /\ SenderOrder /\ QueueOrder /\ TargetOrder

\* Those scheduled before a command are of the same sender, for the same target.
LEMMA OrderedBefore ==
    ASSUME AfterSame, NEW q \in Parities, NEW p \in order[q].after
    PROVE  /\ p \in Parities /\ Scheduled(p) /\ Scheduled(q)
           /\ order[p].from = order[q].from /\ order[p].to = order[q].to
<1>1. NoOrder.after = {}
  BY DEF NoOrder
<1>2. order[q] # NoOrder
  BY <1>1
<1> QED BY <1>2 DEF AfterSame, Scheduled

\* Nobody comes to have a command to send.
LEMMA SenderStays ==
    ASSUME Once, UNCHANGED order, \A d \in Clients : Orderly(d), EndsGrow,
           \A d \in Clients : \A row \in clientUp'[d] :
              row \in clientUp[d] \/ row.kind # "Function",
           \A d \in Clients : \A m \in late'[d] :
              m \in late[d] \/ (m = link[d].request /\ link[d].phase = "request")
    PROVE  \A p \in Parities : Scheduled(p) /\ closed'[p] = {} /\ AtSender(p)' => AtSender(p)
<1> SUFFICES ASSUME NEW p \in Parities, Scheduled(p), closed'[p] = {}, AtSender(p)'
             PROVE  AtSender(p)
  OBVIOUS
<1> DEFINE f == order[p].from
<1>1. f \in Clients /\ order[p].to # f /\ order'[p] = order[p] /\ closed[p] = {}
  BY DEF Once, Distinct, EndsGrow
<1>2. \/ \E row \in clientUp'[f] : row.parity = p /\ row.kind = "Function"
      \/ \E m \in late'[f] : m.parity = p /\ m.kind = "Function"
  BY <1>1 DEF AtSender
<1>3. Pending(f, p) => AtSender(p)
  BY <1>1, RowAt DEF Pending, RowsOf, AtSender, Once, OwnCommand, OwnResponse
<1>4. /\ link[f].phase = "request" /\ link[f].request.parity = p /\ link[f].request.kind = "Function"
      => Pending(f, p)
  BY <1>1 DEF Orderly, Backed
<1> QED BY <1>1, <1>2, <1>3, <1>4 DEF AtSender

\* What a client has sent stays the same, or it has been read.
LinkQuiet(d) ==
    \/ link'[d] = link[d]
    \/ link'[d].phase \in {"closed", "idle"}
    \/ /\ link[d].phase = "request" /\ link'[d].phase = "reply"
       /\ link'[d].request = link[d].request

LEMMA WayStays ==
    ASSUME Once, UNCHANGED order, \A d \in Clients : LinkQuiet(d),
           \A d \in Clients : \A m \in late'[d] :
              m \in late[d] \/ (m = link[d].request /\ link[d].phase = "request")
    PROVE  \A q \in Parities : Scheduled(q) /\ OnWay(q)' => OnWay(q)
<1> SUFFICES ASSUME NEW q \in Parities, Scheduled(q), OnWay(q)'
             PROVE  OnWay(q)
  OBVIOUS
<1>1. order[q].from \in Clients /\ order'[q] = order[q]
  BY DEF Once, Distinct
<1>2. \A d \in Clients : Exchanging(d, q)' => Exchanging(d, q)
  BY DEF Exchanging, LinkQuiet
<1>3. \A d \in Clients : Late(d, q)' => Late(d, q) \/ Exchanging(d, q)
  BY DEF Late, Exchanging
<1> QED BY <1>1, <1>2, <1>3 DEF OnWay

\* The target gets nothing new but q.
LEMMA TargetStays ==
    ASSUME NEW q,
           \A r \in Parities : runs'[r] > 0 => AtTarget(r),
           \A row \in hostDown' : row \in hostDown \/ row.parity = q,
           \A d \in Clients : \A row \in clientDown'[d] :
              \/ row \in clientDown[d] \/ row.kind # "Function"
              \/ link[d].phase = "reply" /\ link[d].reply.kind = "Function"
                    /\ link[d].reply.parity = row.parity,
           \A d \in Clients :
              \/ link'[d] = link[d] \/ link'[d].phase # "reply"
              \/ link'[d].reply.kind # "Function" \/ link'[d].reply.parity = q
    PROVE  \A r \in Parities : AtTarget(r)' => AtTarget(r) \/ r = q
BY DEF AtTarget

LEMMA OrderStays ==
    ASSUME Once, AfterSame, Orders, UNCHANGED order, EndsGrow, HostIds',
           \A r \in hostUp' : r \in hostUp \/ r.kind # "Function",
           \A p \in Parities : Scheduled(p) /\ closed'[p] = {} /\ AtSender(p)' => AtSender(p),
           \A q \in Parities : AtTarget(q)' => AtTarget(q),
           \A q \in Parities : Scheduled(q) /\ OnWay(q)' => OnWay(q)
    PROVE  Orders'
<1>1. \A p \in Parities : AtHost(p)' => AtHost(p)
  BY DEF AtHost
<1>2. \A q \in Parities : \A p \in order[q].after : p \in Parities /\ Scheduled(p) /\ Scheduled(q)
  BY OrderedBefore
<1>3. \A p \in Parities : closed'[p] = {} => closed[p] = {}
  BY DEF EndsGrow
<1>4. SenderOrder' /\ TargetOrder'
  BY <1>1, <1>2, <1>3 DEF Orders, SenderOrder, TargetOrder, Left
<1>5. QueueOrder'
  <2>1. \A r \in hostUp : r.parity \in Parities
    BY HostInUse
  <2> QED BY <1>3, <2>1 DEF Orders, QueueOrder
<1> QED BY <1>4, <1>5 DEF Orders

Straight == AfterSame /\ (\A d \in Clients : Orderly(d)) /\ Orders

\* A step that brings no command nearer to its target than it was.
Unmoving ==
    /\ UNCHANGED order /\ EndsGrow /\ HostIds'
    /\ \A r \in hostUp' : r \in hostUp \/ r.kind # "Function"
    /\ \A r \in Parities : runs'[r] > 0 => AtTarget(r)
    /\ hostDown' \subseteq hostDown
    /\ \A d \in Clients :
          /\ \A row \in clientUp'[d] : row \in clientUp[d] \/ row.kind # "Function"
          /\ \A m \in late'[d] :
                m \in late[d] \/ (m = link[d].request /\ link[d].phase = "request")
          /\ \A row \in clientDown'[d] :
                \/ row \in clientDown[d] \/ row.kind # "Function"
                \/ link[d].phase = "reply" /\ link[d].reply.kind = "Function"
                      /\ link[d].reply.parity = row.parity
          /\ LinkQuiet(d)
          /\ link'[d] = link[d] \/ link'[d].phase # "reply" \/ link'[d].reply.kind # "Function"

LEMMA UnmovingOrders ==
    ASSUME Once, Straight, Unmoving
    PROVE  Orders'
<1>1. \A p \in Parities : Scheduled(p) /\ closed'[p] = {} /\ AtSender(p)' => AtSender(p)
  BY SenderStays DEF Unmoving, Straight
<1>2. \A q \in Parities : Scheduled(q) /\ OnWay(q)' => OnWay(q)
  BY WayStays DEF Unmoving
<1>3. \A q \in Parities : AtTarget(q)' => AtTarget(q)
  <2>1. \A q \in Parities : AtTarget(q)' => AtTarget(q) \/ q = NoParity
    BY TargetStays DEF Unmoving
  <2> QED BY <2>1, NamesAssumption
<1> QED BY <1>1, <1>2, <1>3, OrderStays DEF Unmoving, Straight

LEMMA ReceiveUnmoving ==
    ASSUME Once, Straight, NEW c \in Clients,
           ReceiveConfirmation(c) \/ ReceivePong(c) \/ ReceiveCommand(c)
    PROVE  Unmoving
<1>1. /\ UNCHANGED <<order, closed, runs, hostUp, hostDown, nextId, late>>
      /\ \A d \in Clients \ {c} : clientUp'[d] = clientUp[d] /\ clientDown'[d] = clientDown[d]
                                  /\ link'[d] = link[d]
      /\ link'[c].phase = "idle" /\ link[c].phase = "reply"
      /\ clientUp'[c] \subseteq clientUp[c]
  BY DEF ReceiveConfirmation, ReceivePong, ReceiveCommand, Idle, client_vars, host_vars,
         fault_vars, history_vars, buffer_up_remove_schedule_by_parity_id, Once, TypeOK
<1>2. \A row \in clientDown'[c] :
          \/ row \in clientDown[c] \/ row.kind # "Function"
          \/ link[c].reply.kind = "Function" /\ link[c].reply.parity = row.parity
  <2>1. CASE UNCHANGED clientDown
    BY <2>1
  <2>2. CASE ReceiveCommand(c)
    <3> DEFINE new == [client |-> c, parity |-> link[c].reply.parity, kind |-> link[c].reply.kind]
    <3>1. clientDown' = [clientDown EXCEPT ![c] = buffer_down_schedule(@, new)]
      BY <2>2 DEF ReceiveCommand
    <3>2. new.parity = link[c].reply.parity /\ new.kind = link[c].reply.kind
      OBVIOUS
    <3> HIDE DEF new
    <3> QED BY <3>1, <3>2 DEF buffer_down_schedule, Once, TypeOK
  <2> QED BY <2>1, <2>2 DEF ReceiveConfirmation, ReceivePong, client_vars
<1>3. EndsGrow /\ HostIds' /\ \A r \in Parities : runs'[r] > 0 => AtTarget(r)
  BY <1>1 DEF EndsGrow, AtTarget, Straight, Orders, HostIds
<1> QED BY <1>1, <1>2, <1>3 DEF Unmoving, LinkQuiet

LEMMA FailureUnmoving ==
    ASSUME Once, Straight, NEW c \in Clients, ReceiveFailure(c)
    PROVE  Unmoving
<1>1. /\ UNCHANGED <<order, runs, hostUp, hostDown, nextId, late, clientDown>>
      /\ \A d \in Clients \ {c} : clientUp'[d] = clientUp[d] /\ link'[d] = link[d]
      /\ link'[c].phase = "closed" /\ clientUp'[c] \subseteq clientUp[c]
  BY DEF ReceiveFailure, Stop, Closed, host_vars, buffer_up_remove_schedule_by_parity_id,
         Once, TypeOK
<1>2. EndsGrow
  <2>1. PICK ps, e : End(ps, e)
    BY DEF ReceiveFailure
  <2> QED BY <2>1, EndGrows
<1>3. HostIds' /\ \A r \in Parities : runs'[r] > 0 => AtTarget(r)
  BY <1>1 DEF AtTarget, Straight, Orders, HostIds
<1> QED BY <1>1, <1>2, <1>3 DEF Unmoving, LinkQuiet

LEMMA ProcessUnmoving ==
    ASSUME Once, Straight, NEW c \in Clients, NEW row \in clientDown[c],
           \/ \E responds \in BOOLEAN : ProcessFunction(c, row, responds)
           \/ ProcessResponse(c, row)
    PROVE  Unmoving
<1>1. CASE ProcessResponse(c, row)
  <2>1. /\ UNCHANGED <<clientUp, link, nextId, late, order, closed, runs, hostUp, hostDown>>
        /\ \A d \in Clients : clientDown'[d] \subseteq clientDown[d]
    <3>1. /\ UNCHANGED <<clientUp, link, nextId, late, order, closed, runs, hostUp, hostDown>>
          /\ clientDown' = [clientDown EXCEPT ![c] = @ \ {row}]
      BY <1>1, ProcessResponseEffect DEF Taken, host_vars
    <3> QED BY <3>1 DEF Once, TypeOK
  <2>2. EndsGrow /\ HostIds' /\ \A r \in Parities : runs'[r] > 0 => AtTarget(r)
    BY <2>1 DEF EndsGrow, AtTarget, Straight, Orders, HostIds
  <2> QED BY <2>1, <2>2 DEF Unmoving, LinkQuiet
<1>2. ASSUME NEW responds \in BOOLEAN, ProcessFunction(c, row, responds)
      PROVE  Unmoving
  <2>1. Ran(c, row, responds)
    BY <1>2, ProcessFunctionEffect
  <2>2. /\ UNCHANGED <<link, late, order, hostUp, hostDown>>
        /\ \A d \in Clients : clientDown'[d] \subseteq clientDown[d]
    BY <2>1 DEF Ran, host_vars, Once, TypeOK
  <2>3. EndsGrow
    <3>1. UNCHANGED closed \/ End({row.parity}, "muted")
      BY <2>1 DEF Ran
    <3> QED BY <3>1, EndGrows DEF EndsGrow
  <2>4. UNCHANGED <<clientUp, nextId>>
    BY <2>1 DEF Ran
  <2>5. \A r \in Parities : runs'[r] > 0 => AtTarget(r)
    <3>1. \A r \in Parities : r # row.parity => runs'[r] = runs[r]
      BY <2>1 DEF Ran, Once, TypeOK
    <3>2. row.kind = "Function"
      BY <1>2 DEF ProcessFunction
    <3> QED BY <3>1, <3>2 DEF AtTarget
  <2> QED BY <2>2, <2>3, <2>4, <2>5 DEF Unmoving, LinkQuiet, HostIds, Straight, Orders
<1> QED BY <1>1, <1>2

LEMMA QueueAnswerUnmoving ==
    ASSUME Once, Straight, NEW c \in Clients, QueueAnswer(c)
    PROVE  Unmoving
<1>1. UNCHANGED <<clientDown, hostUp, hostDown, link, late, order, runs, closed>>
  BY DEF QueueAnswer, host_vars, fault_vars, history_vars
<1>2. EndsGrow /\ \A r \in Parities : runs'[r] > 0 => AtTarget(r)
  BY <1>1 DEF EndsGrow, AtTarget
<1>3. PICK p \in holds[c] :
          clientUp' = [clientUp EXCEPT ![c] = @ \cup
              {[id |-> nextId[c], client |-> c, parity |-> p,
                kind |-> "Response", target |-> Origin]}]
  BY DEF QueueAnswer, buffer_up_schedule
<1>4. \A d \in Clients : \A r \in clientUp'[d] : r \in clientUp[d] \/ r.kind # "Function"
  BY <1>3 DEF Once, TypeOK
<1>5. HostIds'
  <2>1. nextId'[Host] = nextId[Host]
    BY NamesAssumption DEF QueueAnswer, Once, TypeOK
  <2> QED BY <1>1, <2>1 DEF HostIds, Straight, Orders
<1> QED BY <1>1, <1>2, <1>4, <1>5 DEF Unmoving, LinkQuiet

LEMMA ExpireUnmoving ==
    ASSUME Once, Straight,
           \/ \E c \in Clients : TransposerPanic(c)
           \/ \E c \in Clients : \E row \in clientUp[c] \cup clientDown[c] : ClientExpire(c, row)
           \/ \E row \in hostUp : HostExpire(row)
    PROVE  Unmoving
<1>1. /\ UNCHANGED <<link, nextId, late, order, runs, hostDown>>
      /\ hostUp' \subseteq hostUp
      /\ \A d \in Clients : clientUp'[d] \subseteq clientUp[d] /\ clientDown'[d] \subseteq clientDown[d]
  <2>1. ASSUME NEW c \in Clients, NEW row \in clientUp[c] \cup clientDown[c], ClientExpire(c, row)
        PROVE  /\ UNCHANGED <<link, nextId, late, order, runs, hostUp, hostDown>>
               /\ \A d \in Clients : /\ clientUp'[d] \subseteq clientUp[d]
                                     /\ clientDown'[d] \subseteq clientDown[d]
    BY <2>1 DEF ClientExpire, host_vars, Once, TypeOK
  <2>2. ASSUME NEW row \in hostUp, HostExpire(row)
        PROVE  /\ UNCHANGED <<link, nextId, late, order, runs, clientUp, clientDown, hostDown>>
               /\ hostUp' \subseteq hostUp
    BY <2>2 DEF HostExpire, client_vars
  <2>3. ASSUME NEW c \in Clients, TransposerPanic(c)
        PROVE  UNCHANGED <<link, nextId, late, order, runs, clientUp, clientDown, hostUp, hostDown>>
    BY <2>3 DEF TransposerPanic, host_vars
  <2> QED BY <2>1, <2>2, <2>3
<1>2. EndsGrow
  <2>1. PICK ps, e : End(ps, e)
    BY DEF ClientExpire, HostExpire, TransposerPanic
  <2> QED BY <2>1, EndGrows
<1> QED BY <1>1, <1>2 DEF Unmoving, LinkQuiet, HostIds, Straight, Orders, AtTarget

LEMMA ConnectionUnmoving ==
    ASSUME Once, Straight, NEW c \in Clients,
           \/ \E x \in Exchanges(c) : HandlerPanic(c, x)
           \/ Connect(c) \/ Resync(c) \/ Synced(c) \/ NoticeDisconnect(c)
           \/ \E stops, arrives \in BOOLEAN : Break(c, stops, arrives)
           \/ ClientRestart(c)
    PROVE  Unmoving
<1>1. UNCHANGED <<order, runs, hostUp, hostDown>> /\ nextId'[Host] = nextId[Host]
  BY NamesAssumption DEF HandlerPanic, Connect, Resync, Synced, NoticeDisconnect, Break,
                         ClientRestart, host_vars, history_vars, Once, TypeOK
<1>2. EndsGrow
  <2>1. UNCHANGED closed \/ \E ps, e : End(ps, e)
    BY DEF HandlerPanic, Connect, Resync, Synced, NoticeDisconnect, Break, ClientRestart,
           history_vars
  <2> QED BY <2>1, EndGrows DEF EndsGrow
<1>3. \A d \in Clients : clientUp'[d] \subseteq clientUp[d] /\ clientDown'[d] \subseteq clientDown[d]
  BY DEF HandlerPanic, Connect, Resync, Synced, NoticeDisconnect, Break, ClientRestart,
         client_vars, Once, TypeOK
<1>4. \A d \in Clients : link'[d] = link[d] \/ link'[d].phase \in {"closed", "idle"}
  BY DEF HandlerPanic, Connect, Resync, Synced, NoticeDisconnect, Break, ClientRestart, Stop,
         Closed, Idle, Once, TypeOK
<1>5. \A d \in Clients : \A m \in late'[d] :
          m \in late[d] \/ (m = link[d].request /\ link[d].phase = "request")
  <2>1. CASE \E stops, arrives \in BOOLEAN : Break(c, stops, arrives)
    BY <2>1 DEF Break, Once, TypeOK
  <2>2. CASE \E x \in Exchanges(c) : HandlerPanic(c, x)
    BY <2>2 DEF HandlerPanic, Once, TypeOK
  <2> QED BY <2>1, <2>2 DEF Connect, Resync, Synced, NoticeDisconnect, ClientRestart, fault_vars
<1> QED BY <1>1, <1>2, <1>3, <1>4, <1>5 DEF Unmoving, LinkQuiet, HostIds, Straight, Orders, AtTarget

LEMMA HostRestartUnmoving ==
    ASSUME Once, Straight, NEW survivors \in SUBSET Clients, HostRestart(survivors)
    PROVE  Unmoving
<1>1. /\ UNCHANGED <<order, runs, clientUp, clientDown>> /\ hostUp' = {} /\ hostDown' = {}
      /\ \A d \in Clients : link'[d].phase = "closed" /\ late'[d] = {}
  BY DEF HostRestart, Closed
<1>2. EndsGrow
  <2>1. PICK ps, e : End(ps, e)
    BY DEF HostRestart
  <2> QED BY <2>1, EndGrows
<1> QED BY <1>1, <1>2 DEF Unmoving, LinkQuiet, HostIds, AtTarget

LEMMA HostProcessUnmoving ==
    ASSUME Once, Straight, NEW row \in hostDown, NEW outcome \in {"Response", "C210", "Failure"},
           HostProcess(row, outcome)
    PROVE  Unmoving
<1> DEFINE new == [id |-> nextId[Host], client |-> row.client,
                   parity |-> row.parity, kind |-> outcome, target |-> Origin]
<1>1. /\ UNCHANGED <<clientUp, clientDown, link, late, order>>
      /\ runs' = [runs EXCEPT ![row.parity] = 1]
      /\ hostDown' = hostDown \ {row} /\ hostUp' = hostUp \cup {new}
      /\ nextId' = [nextId EXCEPT ![Host] = @ + 1]
      /\ UNCHANGED closed \/ End({row.parity}, "muted")
  BY HostProcessEffect DEF HostRan, client_vars
<1>2. new.kind # "Function" /\ new.id = nextId[Host]
  OBVIOUS
<1> HIDE DEF new
<1>3. EndsGrow
  BY <1>1, EndGrows DEF EndsGrow
<1>4. HostIds'
  <2>1. nextId'[Host] = nextId[Host] + 1 /\ nextId[Host] \in Nat
    BY <1>1 DEF Once, TypeOK
  <2>2. \A r \in hostUp : r.id \in Nat /\ r.id < nextId[Host]
    BY DEF Straight, Orders, HostIds, Once, TypeOK, UpRow
  <2> QED BY <1>1, <1>2, <2>1, <2>2 DEF HostIds
<1>5. \A r \in Parities : runs'[r] > 0 => AtTarget(r)
  BY <1>1 DEF AtTarget, Once, TypeOK
<1> QED BY <1>1, <1>2, <1>3, <1>4, <1>5 DEF Unmoving, LinkQuiet

\* What a reply does to the connections.
LEMMA ReplyQuiet ==
    ASSUME Once, NEW c \in Clients, NEW x \in Exchanges(c), NEW message, Reply(c, x, message)
    PROVE  \A d \in Clients :
              /\ LinkQuiet(d) /\ late'[d] \subseteq late[d]
              /\ link'[d] = link[d] \/ link'[d].reply = message
BY DEF Reply, Exchanges, LinkQuiet, Once, TypeOK

\* Who sends a command has it on its way.
LEMMA SentOnWay ==
    ASSUME Once, Straight, NEW c \in Clients, NEW x \in Exchanges(c),
           x.request.kind = "Function", NEW p, p = x.request.parity
    PROVE  /\ p \in Parities /\ Scheduled(p) /\ order[p].from = c /\ order[p].to = x.request.target
           /\ OnWay(p)
           /\ AtSender(p) \/ closed[p] # {}
<1>1. /\ p \in Parities /\ Scheduled(p) /\ order[p].from = c /\ order[p].to = x.request.target
      /\ order[p].to # c
  BY RequestSent DEF OwnCommand, OwnResponse, Once, Distinct
<1>2. x.request \in late[c] \/ (link[c].phase = "request" /\ x.request = link[c].request)
  BY DEF Exchanges
<1>3. Pending(c, p) => AtSender(p)
  BY <1>1, RowAt DEF Pending, RowsOf, AtSender, Once, OwnCommand, OwnResponse
<1> QED BY <1>1, <1>2, <1>3 DEF OnWay, Exchanging, Late, AtSender, Straight, Orderly, Backed

LEMMA ScheduleOrders ==
    ASSUME Once, Straight, NEW c \in Clients, NEW p \in Parities,
           NEW target \in Clients \cup {Host}, Schedule(c, p, target)
    PROVE  Orders'
<1>1. /\ ~Scheduled(p)
      /\ UNCHANGED <<link, late, closed, runs, hostUp, hostDown, clientDown>>
      /\ \A q \in Parities \ {p} : order'[q] = order[q]
      /\ order'[p].from = c
      /\ nextId'[Host] = nextId[Host]
  BY NamesAssumption DEF Schedule, host_vars, fault_vars, Once, TypeOK
<1>2. \A d \in Clients : \A row \in clientUp'[d] : row \in clientUp[d] \/ row.parity = p
  <2> DEFINE new == [id |-> nextId[c], client |-> c, parity |-> p,
                     kind |-> "Function", target |-> target]
  <2>1. clientUp' = [clientUp EXCEPT ![c] = @ \cup {new}]
    BY DEF Schedule, buffer_up_schedule
  <2>2. new.parity = p
    OBVIOUS
  <2> HIDE DEF new
  <2> QED BY <2>1, <2>2 DEF Once, TypeOK
<1>3. /\ \A row \in hostUp \cup hostDown : row.parity # p
      /\ runs[p] = 0
  BY <1>1, HostInUse DEF Once, Distinct
<1>4. \A d \in Clients :
         /\ \A row \in clientDown[d] : row.parity # p
         /\ link[d].phase = "reply" /\ link[d].reply.kind = "Function" => link[d].reply.parity # p
         /\ ~Exchanging(d, p) /\ ~Late(d, p)
  <2> SUFFICES ASSUME NEW d \in Clients
               PROVE  /\ \A row \in clientDown[d] : row.parity # p
                      /\ link[d].phase = "reply" /\ link[d].reply.kind = "Function"
                            => link[d].reply.parity # p
                      /\ ~Exchanging(d, p) /\ ~Late(d, p)
    OBVIOUS
  <2>1. ~In("arrived", d, p) /\ ~In("coming", d, p) /\ ~In("sending", d, p)
    BY <1>1, PlaceAt DEF Once, AtClient, Nodes
  <2>2. \A row \in clientDown[d] : row.parity # p
    BY <2>1, NamesAssumption DEF In, Arrived
  <2>3. link[d].phase = "reply" /\ link[d].reply.kind = "Function" => link[d].reply.parity # p
    BY <2>1 DEF In, Coming, Once, AtClient, Shape, Confirmation, Refusal
  <2>4. ~Late(d, p)
    BY <2>1 DEF In, Sending
  <2>5. ASSUME Exchanging(d, p)
        PROVE  FALSE
    <3>1. p \in Parities /\ (OwnCommand(d, link[d].request) \/ OwnResponse(d, link[d].request))
      BY <2>5, RequestAt DEF Exchanging, Once
    <3> QED BY <1>1, <2>5, <3>1, NamesAssumption
            DEF Exchanging, OwnCommand, OwnResponse, Scheduled, NoOrder
  <2> QED BY <2>2, <2>3, <2>4, <2>5
<1>5. ~Left(p)'
  BY <1>1, <1>3, <1>4 DEF Left, AtHost, AtTarget, OnWay, Exchanging, Late
<1>6. \A q \in Parities \ {p} :
         /\ order'[q] = order[q] /\ (Left(q)' => Left(q)) /\ (AtTarget(q)' => AtTarget(q))
         /\ \A r \in order[q].after : r \in Parities \ {p} /\ Scheduled(r)
  BY <1>1 DEF Left, AtHost, AtTarget, OnWay, Exchanging, Late, Straight, AfterSame
<1>7. \A q \in Parities \ {p} : Scheduled(q) /\ AtSender(q)' => AtSender(q)
  BY <1>1, <1>2 DEF AtSender, Once, Distinct
<1>8. SenderOrder'
  BY <1>1, <1>5, <1>6, <1>7 DEF SenderOrder, Straight, Orders
<1>9. TargetOrder'
  <2>1. ~AtTarget(p)'
    BY <1>5 DEF Left
  <2>2. \A q \in Parities : AtHost(q)' => AtHost(q)
    BY <1>1 DEF AtHost
  <2> QED BY <1>1, <1>6, <2>1, <2>2 DEF TargetOrder, Straight, Orders
<1>10. QueueOrder'
  <2>1. \A r \in hostUp : r.parity \in Parities \ {p}
    BY <1>3, HostInUse
  <2> QED BY <1>1, <2>1 DEF QueueOrder, Straight, Orders
<1>11. HostIds'
  BY <1>1 DEF HostIds, Straight, Orders
<1> QED BY <1>8, <1>9, <1>10, <1>11 DEF Orders

\* A listing holds the older commands too.
LEMMA ClientSendOrders ==
    ASSUME Once, Straight, NEW c \in Clients, ClientSend(c)
    PROVE  Orders'
<1> DEFINE listing == IF batch[c] # {} THEN batch[c] ELSE clientUp[c]
           first   == first_of(listing)
           request == IF listing = {} THEN Ping ELSE AsMessage(first)
<1>1. /\ running[c] /\ link[c].phase = "idle"
      /\ UNCHANGED <<clientUp, clientDown, hostUp, hostDown, nextId, late, order, runs, closed>>
      /\ \A d \in Clients \ {c} : link'[d] = link[d]
      /\ link'[c].phase = "request" /\ link'[c].request = request
  BY DEF ClientSend, host_vars, fault_vars, history_vars, Once, TypeOK
<1>2. listing \in SUBSET RowsOf(c) /\ listing \in SUBSET UpRow
  BY DEF RowsOf, Once, TypeOK
<1>3. \A r \in clientUp[c] : \A s \in listing : r.id < s.id => r \in listing
  BY <1>1 DEF Straight, Orderly, Listing, Exchanging
<1>4. listing # {} => /\ first \in listing /\ \A s \in listing : first.id <= s.id
                      /\ request.parity = first.parity
  BY <1>2, FirstOfIsLeast DEF AsMessage
<1>5. listing = {} => request.parity \notin Parities
  BY NamesAssumption DEF Ping
<1> HIDE DEF listing, first, request
<1>6. \A p \in Parities : /\ AtSender(p)' => AtSender(p)
                          /\ AtHost(p)' => AtHost(p)
                          /\ AtTarget(p)' => AtTarget(p)
  BY <1>1 DEF AtSender, AtHost, AtTarget
<1>7. ASSUME NEW q \in Parities, NEW p \in order[q].after, closed[p] = {}, AtSender(p), OnWay(q)'
      PROVE  OnWay(q)
  <2>1. /\ p \in Parities /\ Scheduled(p) /\ Scheduled(q)
        /\ order[p].from = order[q].from /\ order[p].to = order[q].to
    BY OrderedBefore DEF Straight
  <2> SUFFICES ASSUME order[q].from = c, Exchanging(c, q)', ~OnWay(q)
               PROVE  FALSE
    BY <1>1, <1>7, <2>1 DEF OnWay, Exchanging, Late, Once, Distinct
  <2>2. listing # {} /\ first \in listing /\ first.parity = q
    BY <1>1, <1>4, <1>5 DEF Exchanging
  <2>3. first \in RowsOf(c) /\ first.kind = "Function"
    BY <1>2, <2>1, <2>2, RowAt DEF Once, Distinct, OwnCommand, OwnResponse
  <2>4. PICK r \in clientUp[c] : r.parity = p /\ r.kind = "Function"
    BY <1>1, <1>7, <2>1 DEF AtSender, Straight, Orderly, Backed
  <2>5. r.id < first.id
    BY <2>2, <2>3, <2>4 DEF RowsOf, Straight, Orderly, RowsInOrder
  <2>6. r \in listing
    BY <1>3, <2>2, <2>5
  <2>7. r.id \in Nat /\ first.id \in Nat
    BY <1>2, <2>2, <2>6 DEF UpRow
  <2> QED BY <1>4, <2>2, <2>5, <2>6, <2>7
<1>8. SenderOrder'
  <2> SUFFICES ASSUME NEW q \in Parities, NEW p \in order'[q].after,
                      closed'[p] = {}, AtSender(p)', Left(q)'
               PROVE  FALSE
    BY DEF SenderOrder
  <2>1. p \in Parities /\ p \in order[q].after /\ closed[p] = {}
    BY <1>1 DEF Straight, AfterSame
  <2>2. AtSender(p)
    BY <1>6, <2>1
  <2>3. Left(q)
    BY <1>6, <1>7, <2>1, <2>2 DEF Left
  <2> QED BY <2>1, <2>2, <2>3 DEF SenderOrder, Straight, Orders
<1>9. TargetOrder'
  <2>1. \A q \in Parities : \A p \in order[q].after : p \in Parities
    BY DEF Straight, AfterSame
  <2> QED BY <1>1, <1>6, <2>1 DEF TargetOrder, Straight, Orders
<1>10. QueueOrder' /\ HostIds'
  BY <1>1 DEF QueueOrder, HostIds, Straight, Orders
<1> QED BY <1>8, <1>9, <1>10 DEF Orders

\* The oldest row of a client leaves the host: none before it stays.
LEMMA PingOrders ==
    ASSUME Once, Straight, NEW c \in Clients, NEW x \in Exchanges(c), HandlePing(c, x)
    PROVE  Orders'
<1> DEFINE waiting == buffer_up_list_schedule_fo_client_id(hostUp, c)
<1>1. UNCHANGED <<clientUp, clientDown, hostDown, nextId, order, runs>>
  BY DEF HandlePing, client_vars
<1>2. waiting = {r \in hostUp : r.client = c} /\ waiting \in SUBSET UpRow
  BY DEF buffer_up_list_schedule_fo_client_id, Once, TypeOK
<1>3. IF waiting = {}
      THEN Reply(c, x, Pong) /\ UNCHANGED hostUp
      ELSE /\ Reply(c, x, AsMessage(first_of(waiting)))
           /\ hostUp' \subseteq hostUp
  BY DEF HandlePing, buffer_up_remove_schedule_by_parity_id
<1> HIDE DEF waiting
<1>4. ASSUME NEW message, Reply(c, x, message), hostUp' \subseteq hostUp
      PROVE  /\ EndsGrow
             /\ \A p \in Parities : Scheduled(p) /\ closed'[p] = {} /\ AtSender(p)' => AtSender(p)
             /\ \A p \in Parities : AtTarget(p)' =>
                   AtTarget(p) \/ (message.parity = p /\ message.kind = "Function")
             /\ \A p \in Parities : Scheduled(p) /\ OnWay(p)' => OnWay(p)
             /\ HostIds'
  <2>1. EndsGrow
    BY <1>1, <1>4, ReplyKeeps
  <2>2. \A d \in Clients : /\ LinkQuiet(d) /\ late'[d] \subseteq late[d]
                           /\ link'[d] = link[d] \/ link'[d].reply = message
    BY <1>4, ReplyQuiet
  <2>3. \A p \in Parities : Scheduled(p) /\ closed'[p] = {} /\ AtSender(p)' => AtSender(p)
    BY <1>1, <2>1, <2>2, SenderStays DEF Straight
  <2>4. \A p \in Parities : Scheduled(p) /\ OnWay(p)' => OnWay(p)
    BY <1>1, <2>2, WayStays
  <2>5. \A p \in Parities : AtTarget(p)' =>
            AtTarget(p) \/ (message.parity = p /\ message.kind = "Function")
    BY <1>1, <1>4, <2>2 DEF AtTarget
  <2>6. HostIds'
    BY <1>1, <1>4 DEF HostIds, Straight, Orders
  <2> QED BY <2>1, <2>3, <2>4, <2>5, <2>6
<1>5. ASSUME NEW message, Reply(c, x, message), hostUp' \subseteq hostUp, message.kind # "Function"
      PROVE  Orders'
  BY <1>1, <1>4, <1>5, OrderStays DEF Straight
<1>6. CASE waiting = {}
  <2>1. Pong.kind # "Function"
    BY DEF Pong
  <2> QED BY <1>3, <1>5, <1>6, <2>1
<1>7. ASSUME NEW row, row = first_of(waiting), waiting # {}
      PROVE  Orders'
  <2>1. /\ row \in hostUp /\ row.client = c /\ row.parity \in Parities
        /\ \A s \in hostUp : s.client = c => row.id <= s.id
        /\ row.id \in Nat /\ \A s \in hostUp : s.id \in Nat /\ s.parity \in Parities
    BY <1>2, <1>7, FirstOfIsLeast DEF Once, TypeOK, UpRow
  <2>2. /\ Reply(c, x, AsMessage(row)) /\ hostUp' \subseteq hostUp
        /\ AsMessage(row).kind = row.kind /\ AsMessage(row).parity = row.parity
    BY <1>3, <1>7 DEF AsMessage
  <2>3. CASE row.kind # "Function"
    BY <1>5, <2>2, <2>3
  <2>4. CASE row.kind = "Function"
    <3>1. AtHost(row.parity)
      BY <2>1, <2>4 DEF AtHost
    <3>2. \A p \in Parities : Left(p)' /\ Scheduled(p) => Left(p)
      <4>1. \A p \in Parities : AtHost(p)' => AtHost(p)
        BY <2>2 DEF AtHost
      <4> QED BY <1>4, <2>2, <3>1, <4>1 DEF Left
    <3>3. SenderOrder'
      BY <1>1, <1>4, <2>2, <3>2, OrderedBefore DEF SenderOrder, Straight, Orders, EndsGrow
    <3>4. ASSUME NEW p \in order[row.parity].after, closed[p] = {}, AtHost(p)
          PROVE  FALSE
      <4>1. PICK s \in hostUp : s.parity = p /\ s.kind = "Function"
        BY <3>4 DEF AtHost
      <4>2. s.client = c
        BY <2>1, <2>4, <3>4, <4>1, OrderedBefore
           DEF Straight, Once, RoutedHome, HostAtHome, DeliveryAtHome
      <4>3. s.id < row.id
        BY <2>1, <2>4, <3>4, <4>1 DEF Straight, Orders, QueueOrder
      <4> QED BY <2>1, <4>1, <4>2, <4>3
    <3>5. TargetOrder'
      <4> SUFFICES ASSUME NEW q \in Parities, NEW p \in order'[q].after,
                          closed'[p] = {}, AtHost(p)', AtTarget(q)'
                   PROVE  FALSE
        BY DEF TargetOrder
      <4>1. p \in order[q].after /\ p \in Parities /\ closed[p] = {} /\ AtHost(p)
        BY <1>1, <1>4, <2>2, OrderedBefore DEF Straight, AtHost, EndsGrow
      <4>2. AtTarget(q) \/ q = row.parity
        BY <1>4, <2>2
      <4> QED BY <3>4, <4>1, <4>2 DEF TargetOrder, Straight, Orders
    <3>6. QueueOrder'
      BY <1>1, <1>4, <2>1, <2>2 DEF QueueOrder, Straight, Orders, EndsGrow
    <3> QED BY <1>4, <2>2, <3>3, <3>5, <3>6 DEF Orders
  <2> QED BY <2>3, <2>4
<1> QED BY <1>6, <1>7

\* The command that the host queues comes after all it has of that client.
LEMMA ForwardOrders ==
    ASSUME Once, Straight, NEW c \in Clients, NEW x \in Exchanges(c),
           HandleRedirect(c, x) \/ HandleResponse(c, x)
    PROVE  Orders'
<1> SUFFICES ASSUME NEW r, r = x.request.parity
             PROVE  Orders'
  OBVIOUS
<1>1. /\ x.request.kind \in {"Function", "Response"}
      /\ Refuse(c, x) \/ (\E target \in Clients : Forward(c, x, target))
      /\ hostDown' = hostDown
      /\ UNCHANGED <<client_vars, clientUp, clientDown, order, runs>>
  BY RedirectRequest, ResponseRequest DEF client_vars
<1>2. PICK message : Reply(c, x, message) /\ message.kind \in {"C210", "Failure"}
  <2>1. Reply(c, x, Refusal(r)) \/ Reply(c, x, Confirmation(r))
    BY <1>1 DEF Refuse, Forward
  <2>2. Refusal(r).kind = "Failure" /\ Confirmation(r).kind = "C210"
    BY DEF Refusal, Confirmation
  <2> QED BY <2>1, <2>2
<1>3. EndsGrow
  BY <1>1, <1>2, ReplyKeeps
<1>4. \A d \in Clients : /\ LinkQuiet(d) /\ late'[d] \subseteq late[d]
                         /\ link'[d] = link[d] \/ link'[d].reply = message
  BY <1>2, ReplyQuiet
<1>5. \A p \in Parities : Scheduled(p) /\ closed'[p] = {} /\ AtSender(p)' => AtSender(p)
  BY <1>1, <1>3, <1>4, SenderStays DEF Straight
<1>6. \A p \in Parities : Scheduled(p) /\ OnWay(p)' => OnWay(p)
  BY <1>1, <1>4, WayStays
<1>7. \A p \in Parities : AtTarget(p)' => AtTarget(p)
  BY <1>1, <1>2, <1>4 DEF AtTarget
<1>8. CASE UNCHANGED <<hostUp, nextId>>
  <2>1. HostIds'
    BY <1>8 DEF HostIds, Straight, Orders
  <2> QED BY <1>1, <1>3, <1>5, <1>6, <1>7, <1>8, <2>1, OrderStays DEF Straight
<1>9. ASSUME NEW row, row.id = nextId[Host], row.parity = r, row.kind = x.request.kind,
             hostUp' = hostUp \cup {row}, nextId' = [nextId EXCEPT ![Host] = @ + 1]
      PROVE  Orders'
  <2>1. /\ nextId[Host] \in Nat /\ nextId'[Host] = nextId[Host] + 1
        /\ \A s \in hostUp : s.id \in Nat /\ s.id < nextId[Host] /\ s.parity \in Parities
    BY <1>9 DEF Once, TypeOK, UpRow, Straight, Orders, HostIds
  <2>2. HostIds'
    BY <1>9, <2>1 DEF HostIds
  <2>3. CASE x.request.kind = "Response"
    BY <1>1, <1>3, <1>5, <1>6, <1>7, <1>9, <2>2, <2>3, OrderStays DEF Straight
  <2>4. CASE x.request.kind = "Function"
    <3>1. r \in Parities /\ Scheduled(r) /\ OnWay(r) /\ (AtSender(r) \/ closed[r] # {})
      BY <2>4, SentOnWay
    <3>2. \A q \in Parities : AtHost(q)' => AtHost(q) \/ q = r
      BY <1>9 DEF AtHost
    <3>3. \A q \in Parities : Scheduled(q) /\ Left(q)' => Left(q)
      BY <1>6, <1>7, <3>1, <3>2 DEF Left
    <3>4. \A q \in Parities : r \in order[q].after /\ closed[r] = {} => ~Left(q)
      BY <3>1 DEF Straight, Orders, SenderOrder
    <3>5. SenderOrder'
      BY <1>1, <1>3, <1>5, <3>3, OrderedBefore DEF SenderOrder, Straight, Orders, EndsGrow
    <3>6. TargetOrder'
      <4> SUFFICES ASSUME NEW q \in Parities, NEW p \in order'[q].after,
                          closed'[p] = {}, AtHost(p)', AtTarget(q)'
                   PROVE  FALSE
        BY DEF TargetOrder
      <4>1. p \in order[q].after /\ p \in Parities /\ closed[p] = {} /\ AtTarget(q)
        BY <1>1, <1>3, <1>7, OrderedBefore DEF Straight, EndsGrow
      <4>2. AtHost(p) \/ p = r
        BY <3>2, <4>1
      <4> QED BY <3>4, <4>1, <4>2 DEF TargetOrder, Straight, Orders, Left
    <3>7. ASSUME NEW o \in hostUp', NEW s \in hostUp', o.kind = "Function", s.kind = "Function",
                 o.parity \in order'[s.parity].after, closed'[o.parity] = {}
          PROVE  o.id < s.id
      <4>1. o.parity \in Parities /\ s.parity \in Parities
        BY <1>9, <2>1, <3>1
      <4>2. o.parity \in order[s.parity].after /\ closed[o.parity] = {}
        BY <1>1, <1>3, <3>7, <4>1 DEF EndsGrow
      <4>3. CASE o \in hostUp /\ s \in hostUp
        BY <3>7, <4>2, <4>3 DEF Straight, Orders, QueueOrder
      <4>4. CASE o \in hostUp /\ s = row
        BY <1>9, <2>1, <4>4
      <4>5. CASE o = row
        <5>1. ~Left(s.parity)
          BY <1>9, <3>4, <4>1, <4>2, <4>5
        <5>2. s \in hostUp => Left(s.parity)
          BY <3>7 DEF Left, AtHost
        <5>3. s = row => Left(s.parity)
          BY <1>9, <3>1 DEF Left
        <5> QED BY <1>9, <5>1, <5>2, <5>3
      <4> QED BY <1>9, <4>3, <4>4, <4>5
    <3>8. QueueOrder'
      BY <3>7 DEF QueueOrder
    <3> QED BY <2>2, <3>5, <3>6, <3>8 DEF Orders
  <2> QED BY <1>1, <2>3, <2>4
<1>10. CASE Refuse(c, x)
  BY <1>8, <1>10 DEF Refuse
<1>11. ASSUME NEW target \in Clients, Forward(c, x, target)
       PROVE  Orders'
  <2> DEFINE new == [id |-> nextId[Host], client |-> target, parity |-> r,
                     kind |-> x.request.kind, target |-> Origin]
  <2>1. hostUp' = hostUp \cup {new} /\ nextId' = [nextId EXCEPT ![Host] = @ + 1]
    BY <1>11 DEF Forward, buffer_up_schedule
  <2>2. new.id = nextId[Host] /\ new.parity = r /\ new.kind = x.request.kind
    OBVIOUS
  <2> HIDE DEF new
  <2> QED BY <1>9, <2>1, <2>2
<1> QED BY <1>1, <1>10, <1>11

LEMMA HostCommandOrders ==
    ASSUME Once, Straight, NEW c \in Clients, NEW x \in Exchanges(c), HandleHostCommand(c, x)
    PROVE  Orders'
<1> SUFFICES ASSUME NEW r, r = x.request.parity
             PROVE  Orders'
  OBVIOUS
<1> DEFINE row == [client |-> c, parity |-> r, kind |-> "Function"]
<1>0. /\ x.request.kind = "Function" /\ x.request.target = Host
      /\ UNCHANGED <<clientUp, clientDown, hostUp, nextId, order, runs>>
      /\ Reply(c, x, Confirmation(r)) \/ Reply(c, x, Refusal(r))
      /\ hostDown' \subseteq hostDown \cup {row}
  BY HostCommandRequest DEF HostTakes, Refuse, client_vars
<1>2. row.parity = r
  OBVIOUS
<1> HIDE DEF row
<1>1. PICK message : Reply(c, x, message) /\ message.kind \in {"C210", "Failure"}
  BY <1>0 DEF Confirmation, Refusal
<1>4. EndsGrow
  BY <1>0, <1>1, ReplyKeeps
<1>5. \A d \in Clients : /\ LinkQuiet(d) /\ late'[d] \subseteq late[d]
                         /\ link'[d] = link[d] \/ link'[d].reply = message
  BY <1>1, ReplyQuiet
<1>6. \A p \in Parities : Scheduled(p) /\ closed'[p] = {} /\ AtSender(p)' => AtSender(p)
  BY <1>0, <1>1, <1>4, <1>5, SenderStays DEF Straight
<1>7. \A p \in Parities : Scheduled(p) /\ OnWay(p)' => OnWay(p)
  BY <1>0, <1>1, <1>5, WayStays
<1>8. \A p \in Parities : AtTarget(p)' => AtTarget(p) \/ p = r
  BY <1>0, <1>1, <1>2, <1>5 DEF AtTarget
<1>9. \A p \in Parities : AtHost(p)' => AtHost(p)
  BY <1>0 DEF AtHost
<1>10. r \in Parities /\ OnWay(r) /\ order[r].to = Host
  BY <1>0, SentOnWay
<1>11. \A q \in Parities : Scheduled(q) /\ Left(q)' => Left(q)
  BY <1>7, <1>8, <1>9, <1>10 DEF Left
<1>12. SenderOrder'
  BY <1>0, <1>1, <1>4, <1>6, <1>11, OrderedBefore DEF SenderOrder, Straight, Orders, EndsGrow
<1>13. \A p \in order[r].after : ~AtHost(p)
  BY <1>10, OrderedBefore, NamesAssumption
     DEF Straight, AtHost, Once, TypeOK, UpRow, RoutedHome, HostAtHome, DeliveryAtHome
<1>14. TargetOrder'
  <2> SUFFICES ASSUME NEW q \in Parities, NEW p \in order'[q].after,
                      closed'[p] = {}, AtHost(p)', AtTarget(q)'
               PROVE  FALSE
    BY DEF TargetOrder
  <2>1. p \in order[q].after /\ p \in Parities /\ closed[p] = {} /\ AtHost(p)
    BY <1>0, <1>1, <1>4, <1>9, OrderedBefore DEF Straight, EndsGrow
  <2>2. AtTarget(q) \/ q = r
    BY <1>8
  <2> QED BY <1>13, <2>1, <2>2 DEF TargetOrder, Straight, Orders
<1>15. QueueOrder'
  BY <1>0, <1>1, <1>4, HostInUse DEF QueueOrder, Straight, Orders, EndsGrow
<1>16. HostIds'
  BY <1>0 DEF HostIds, Straight, Orders
<1> QED BY <1>12, <1>14, <1>15, <1>16 DEF Orders

LEMMA OrdersStep ==
    ASSUME Once, Straight, [Next]_vars
    PROVE  Orders'
<1>1. ASSUME NEW c \in Clients, ClientNext(c)
      PROVE  Orders'
  BY <1>1, ScheduleOrders, ClientSendOrders, ReceiveUnmoving, FailureUnmoving, ProcessUnmoving,
     QueueAnswerUnmoving, ExpireUnmoving, UnmovingOrders
     DEF ClientNext
<1>2. ASSUME NEW c \in Clients, ConnectionNext(c)
      PROVE  Orders'
  BY <1>2, PingOrders, ForwardOrders, HostCommandOrders, ConnectionUnmoving, UnmovingOrders
     DEF ConnectionNext
<1>3. CASE HostNext
  BY <1>3, HostProcessUnmoving, ExpireUnmoving, HostRestartUnmoving, UnmovingOrders DEF HostNext
<1>4. CASE UNCHANGED vars
  <2>1. Unmoving
    BY <1>4 DEF vars, Unmoving, EndsGrow, HostIds, Straight, Orders, LinkQuiet, AtTarget
  <2> QED BY <2>1, UnmovingOrders
<1> QED BY <1>1, <1>2, <1>3, <1>4 DEF Next

LEMMA StraightInit == Init => Straight
<1> SUFFICES ASSUME Init
             PROVE  Straight
  OBVIOUS
<1>1. \A q \in Parities : order[q].after = {}
  BY DEF Init, NoOrder
<1>2. AfterSame
  BY <1>1 DEF AfterSame
<1>3. \A d \in Clients : Orderly(d)
  BY DEF Init, Orderly, RowsInOrder, Listing, Backed, RowsOf, Closed
<1>4. Orders
  BY <1>1 DEF Init, Orders, HostIds, SenderOrder, QueueOrder, TargetOrder
<1> QED BY <1>2, <1>3, <1>4 DEF Straight

\* Commands of one client for one target arrive in the order in which they were
\* scheduled, unless the older one was dropped: initialize_client sends its listing
\* row by row and waits for each confirmation, a ping takes the oldest row
\* (handle_special_functions, C206), and what a broken connection still holds is
\* not overtaken, for that client has stopped.
THEOREM KeptInOrder == Spec => []InOrder
<1>1. Init => Straight
  BY StraightInit
<1>2. Once /\ Straight /\ [Next]_vars => Straight'
  BY AfterStep, OrderlyStep, OrdersStep DEF Straight, Once
<1>3. Once /\ Straight => InOrder
  BY DEF Straight, Orders, SenderOrder, TargetOrder, Left, InOrder
<1> QED BY <1>1, <1>2, <1>3, OnceAlways, PTL DEF Spec
===============================================================================
