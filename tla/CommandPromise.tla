---------------------------- MODULE CommandPromise ----------------------------
(***************************************************************************)
(* What the bus promises about a command, whatever tables, connections and *)
(* threads carry it: it is scheduled once under its parity id, the handler *)
(* of its target runs at most once, the response handler of its sender at  *)
(* most once and only after that, and a command the host has refused never *)
(* runs.  HostRelay implements it.                                         *)
(***************************************************************************)
EXTENDS Naturals

CONSTANTS Nodes,    \* clients and the host
          Parities, \* parity ids
          NoOrder,  \* the order of a parity id nobody has used
          Endings   \* how a command ends other than by an answer

VARIABLES order, runs, answers, closed
vars == <<order, runs, answers, closed>>

Init ==
    /\ order = [p \in Parities |-> NoOrder]
    /\ runs = [p \in Parities |-> 0]
    /\ answers = [p \in Parities |-> 0]
    /\ closed = [p \in Parities |-> {}]

Issue(p, from, to) ==
    /\ order[p] = NoOrder
    /\ from # to
    /\ \E after \in SUBSET {q \in Parities : order[q] # NoOrder} :
         order' = [order EXCEPT ![p] = [from |-> from, to |-> to, after |-> after]]
    /\ UNCHANGED <<runs, answers, closed>>

\* The handler runs; "muted" when it returns nothing.
Execute(p, muted) ==
    /\ order[p] # NoOrder
    /\ runs[p] = 0
    /\ "refused" \notin closed[p]
    /\ runs' = [runs EXCEPT ![p] = 1]
    /\ closed' = [closed EXCEPT ![p] = IF muted THEN @ \cup {"muted"} ELSE @]
    /\ UNCHANGED <<order, answers>>

\* The response handler of the sender runs.
Answer(p) ==
    /\ runs[p] = 1
    /\ answers[p] = 0
    /\ closed[p] \cap {"muted", "failed", "undelivered"} = {}
    /\ answers' = [answers EXCEPT ![p] = 1]
    /\ UNCHANGED <<order, runs, closed>>

\* The sender learns that the command was refused, before it could run, or
\* that its handler failed, after it ran; or the target learns that its
\* response was turned down.
Reject(p) ==
    \/ /\ order[p] # NoOrder
       /\ runs[p] = 0
       /\ closed' = [closed EXCEPT ![p] = @ \cup {"refused"}]
       /\ UNCHANGED <<order, runs, answers>>
    \/ /\ runs[p] = 1
       /\ answers[p] = 0
       /\ \E ending \in {"failed", "undelivered"} :
            closed' = [closed EXCEPT ![p] = @ \cup {ending}]
       /\ UNCHANGED <<order, runs, answers>>

\* Copies of commands are dropped: some parity ids, all of them in use.
Lose(parities) ==
    /\ \A p \in parities : order[p] # NoOrder
    /\ closed' = [p \in Parities |-> IF p \in parities THEN closed[p] \cup {"lost"}
                                     ELSE closed[p]]
    /\ UNCHANGED <<order, runs, answers>>

Next ==
    \/ \E p \in Parities : \E from, to \in Nodes : Issue(p, from, to)
    \/ \E p \in Parities : \E muted \in BOOLEAN : Execute(p, muted)
    \/ \E p \in Parities : Answer(p) \/ Reject(p)
    \/ \E parities \in SUBSET Parities : Lose(parities)

Spec == Init /\ [][Next]_vars
===============================================================================
