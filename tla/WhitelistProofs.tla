---------------------------- MODULE WhitelistProofs ----------------------------
(***************************************************************************)
(* For any number of clients and connection threads, whatever the host's   *)
(* administrators do and however often it is started: a client that was    *)
(* taken away while no thread had a copy of it stays out, an update that   *)
(* no thread was about to overwrite stays, the host can be started again   *)
(* unless a key was given out twice, and its threads panic over a client   *)
(* only when it was given out after the start.                             *)
(*                                                                         *)
(* The argument is about Sources, the rows of the table with the copies    *)
(* that threads hold: all that a step writes or copies comes from there,   *)
(* but for what registry_new_client, add_client and update_client make up  *)
(* (SourcesOnlyShrink).  So a key that left the Sources does not return,   *)
(* and two sources with one key have one id.                               *)
(***************************************************************************)
EXTENDS Whitelist, TLAPS

Sources == rows \cup AllCopies

\* What the program counters imply: a thread that serves a request has seen its
\* key in the whitelist; clients are left to verify only inside sync_verifier.
Placed ==
    /\ \A t \in Connections :
          pc[t] \in {"contact", "touch", "served"} => conn[t] \in Keys
    /\ \A t \in Threads : pc[t] \notin {"verify", "save"} => todo[t] = {}
    /\ pc[Registrar] \in {"idle", "add"}

\* ID is the primary key of the table.
UniqueIds == \A r, q \in rows : r.id = q.id => r = q

\* A revoked key is nowhere.
NoTrace == \A r \in Sources : r.key \notin revoked

\* Nothing but the row itself will be written over an acknowledged row.
Kept ==
    \A a \in acknowledged :
        /\ a \in rows
        /\ \A t \in Threads : \A c \in Edits(t) : c.id = a.id => c = a

\* As long as no key was given out twice, all sources with one key are one client.
OneId == ~doubled => \A r, q \in Sources : r.key = q.key => r.id = q.id

\* Only the Registrar has work before the host runs.
Quiet ==
    process # "running" =>
        /\ \A t \in Threads \ {Registrar} : At(t, Resting(t))
        /\ \A t \in Connections : conn[t] = NoKey
        /\ registrations = {}

\* Whoever is not in the network map was given out since the start.
Accounted ==
    process = "running" =>
        /\ \A r \in Sources : r.key \in known \cup granted
        /\ \A t \in Connections : conn[t] \in known \cup granted \cup {NoKey}

WInv == TypeOK /\ Placed /\ UniqueIds /\ NoTrace /\ Kept /\ OneId /\ Quiet /\ Accounted
            /\ UnknownIsGranted

\* The steps that neither make up a client nor take one away.
Ordinary ==
    \/ \E t \in Connections : ConnectionStep(t)
    \/ \E t \in Connections \cup {Transposer} : VerifierStep(t)
    \/ \E t \in {Transposer, Registrar} : InsertNew(t)
    \/ \E k \in Keys : LoadToChange(k)
    \/ RegistrationStep

\* What the queries leave is what was there, or what they were given.
LEMMA Queries ==
  ASSUME NEW c
  PROVE  /\ save_into_db(c) \subseteq rows \cup {c} /\ rows \subseteq save_into_db(c)
         /\ edit_client(c) \subseteq rows \cup {c}
         /\ delete(c) \subseteq rows
         /\ UniqueIds => \A r, q \in save_into_db(c) : r.id = q.id => r = q
         /\ UniqueIds => \A r, q \in edit_client(c) : r.id = q.id => r = q
         /\ UniqueIds => \A r, q \in delete(c) : r.id = q.id => r = q
  BY DEF save_into_db, edit_client, delete, UniqueIds, IdsOf

\* Sources, element by element.
LEMMA SourcesAre ==
  ASSUME NEW r
  PROVE  r \in Sources <=> (r \in rows \/ \E t \in Threads : r \in hand[t] \/ r \in todo[t])
  BY DEF Sources, AllCopies, Copies

LEMMA SourcesWillBe ==
  ASSUME NEW r
  PROVE  r \in Sources' <=> (r \in rows' \/ \E t \in Threads : r \in hand'[t] \/ r \in todo'[t])
  BY DEF Sources, AllCopies, Copies

LEMMA WhitelistInit == Init => WInv
  <1> SUFFICES ASSUME Init PROVE WInv
    OBVIOUS
  <1> USE WhitelistAssumption DEF Init
  <1>1. TypeOK /\ Placed
    BY DEF TypeOK, Placed, Resting, Threads, Steps, ConnectionSteps
  <1>2. Sources = {}
    BY DEF Sources, AllCopies, Copies
  <1>3. UnknownIsGranted /\ Quiet
    BY DEF UnknownIsGranted, Quiet, At, Resting
  <1> QED
    BY <1>1, <1>2, <1>3 DEF WInv, UniqueIds, NoTrace, Kept, OneId, Accounted

\* Every step keeps the variables in their types.
LEMMA TypeStep == TypeOK /\ Placed /\ [Next]_vars => TypeOK' /\ Placed'
  <1> SUFFICES ASSUME TypeOK, Placed, [Next]_vars PROVE TypeOK' /\ Placed'
    OBVIOUS
  <1> USE WhitelistAssumption DEF threads, history, TypeOK, Placed, At, Goto, Take, Drop, Threads,
        Resting, Steps, ConnectionSteps, TransposerSteps, VerifierSteps, Panics, Row, KeysOf,
        IdsOf, get_by_key, check_if_client_key_exists, save_into_db, edit_client, delete, new
  <1>1. ASSUME NEW t \in Connections, Accept(t) PROVE TypeOK' /\ Placed'
    BY <1>1 DEF Accept
  <1>2. ASSUME NEW t \in Connections, NEW k \in Keys, Request(t, k) PROVE TypeOK' /\ Placed'
    BY <1>2 DEF Request
  <1>4. ASSUME NEW t \in Connections, LoadContact(t) PROVE TypeOK' /\ Placed'
    BY <1>4 DEF LoadContact, Admit
  <1>5. ASSUME NEW t \in Connections, Touch(t) PROVE TypeOK' /\ Placed'
    BY <1>5 DEF Touch, Admit
  <1>6. ASSUME NEW t \in Connections, Serve(t) PROVE TypeOK' /\ Placed'
    BY <1>6 DEF Serve
  <1>7. ASSUME NEW t \in Connections, Leave(t) PROVE TypeOK' /\ Placed'
    BY <1>7 DEF Leave
  <1>8. ASSUME NEW t \in Connections, Disconnect(t) PROVE TypeOK' /\ Placed'
    BY <1>8 DEF Disconnect
  <1>9. ASSUME NEW t \in Connections \cup {Transposer}, ListClients(t) PROVE TypeOK' /\ Placed'
    BY <1>9 DEF ListClients
  <1>10. ASSUME NEW t \in Connections \cup {Transposer}, SaveClient(t) PROVE TypeOK' /\ Placed'
    BY <1>10 DEF SaveClient, Advance, After
  <1>11. ASSUME NEW t \in Connections \cup {Transposer}, NEW r \in todo[t], SkipClient(t, r) PROVE TypeOK' /\ Placed'
    BY <1>11 DEF SkipClient, Advance, After
  <1>12. ASSUME NEW t \in Connections \cup {Transposer}, NEW r \in todo[t], UnknownClient(t, r) PROVE TypeOK' /\ Placed'
    BY <1>12 DEF UnknownClient
  <1>13. ASSUME NEW t \in Connections \cup {Transposer}, NEW r \in todo[t], EditClient(t, r) PROVE TypeOK' /\ Placed'
    BY <1>13 DEF EditClient
  <1>14. ASSUME NEW t \in {Transposer, Registrar}, InsertNew(t) PROVE TypeOK' /\ Placed'
    BY <1>14 DEF InsertNew
  <1>15. ASSUME NEW k \in Keys, LoadToChange(k) PROVE TypeOK' /\ Placed'
    BY <1>15 DEF LoadToChange
  <1>16. ASSUME EditRegistered PROVE TypeOK' /\ Placed'
    BY <1>16 DEF EditRegistered
  <1>17. ASSUME SaveRegistered PROVE TypeOK' /\ Placed'
    BY <1>17 DEF SaveRegistered
  <1>18. ASSUME NEW k \in Keys, LoadRegistered(k) PROVE TypeOK' /\ Placed'
    BY <1>18 DEF LoadRegistered
  <1>19. ASSUME load_allowed_clients PROVE TypeOK' /\ Placed'
    BY <1>19 DEF load_allowed_clients, AllCopies, Copies
  <1>20. ASSUME Restart PROVE TypeOK' /\ Placed'
    BY <1>20 DEF Restart
  <1>21. ASSUME NEW k \in Keys, NEW d \in Data, NEW i \in Ids, registry_new_client(k, d, i) PROVE TypeOK' /\ Placed'
    BY <1>21 DEF registry_new_client
  <1>22. ASSUME NEW k \in Keys, NEW d \in Data, NEW i \in Ids, AddClient(k, d, i) PROVE TypeOK' /\ Placed'
    BY <1>22 DEF AddClient
  <1>23. ASSUME NEW k \in Keys, NEW d \in Data, UpdateClient(k, d) PROVE TypeOK' /\ Placed'
    BY <1>23 DEF UpdateClient
  <1>24. ASSUME RemoveClient PROVE TypeOK' /\ Placed'
    BY <1>24 DEF RemoveClient
  <1>25. CASE UNCHANGED vars
    BY <1>25 DEF vars
  <1> QED
    BY <1>1, <1>2, <1>4, <1>5, <1>6, <1>7, <1>8, <1>9, <1>10, <1>11, <1>12, <1>13, <1>14, <1>15, <1>16, <1>17, <1>18, <1>19, <1>20, <1>21, <1>22, <1>23, <1>24, <1>25
    DEF Next, ConnectionStep, VerifierStep, AdministerStep, RegistrationStep

\* The steps that neither make up a client nor take one away leave the histories
\* alone, and put nothing in the table or in a hand that was in neither.
LEMMA SourcesOnlyShrink ==
  ASSUME TypeOK, Ordinary
  PROVE  Sources' \subseteq Sources /\ UNCHANGED <<process, known, history>>
  <1> SUFFICES Sources' \subseteq Sources /\ UNCHANGED <<process, known, history>>
    OBVIOUS
  <1> DEFINE Goal == Sources' \subseteq Sources /\ UNCHANGED <<process, known, history>>
  <1> USE WhitelistAssumption, SourcesAre, SourcesWillBe DEF threads, history, TypeOK, Goto,
        Take, Drop, Threads, get_by_key, save_into_db, edit_client
  <1>1. ASSUME NEW t \in Connections, Accept(t) PROVE Goal
    BY <1>1 DEF Accept
  <1>2. ASSUME NEW t \in Connections, NEW k \in Keys, Request(t, k) PROVE Goal
    BY <1>2 DEF Request
  <1>4. ASSUME NEW t \in Connections, LoadContact(t) PROVE Goal
    BY <1>4 DEF LoadContact, Admit
  <1>5. ASSUME NEW t \in Connections, Touch(t) PROVE Goal
    BY <1>5 DEF Touch, Admit
  <1>6. ASSUME NEW t \in Connections, Serve(t) PROVE Goal
    BY <1>6 DEF Serve
  <1>7. ASSUME NEW t \in Connections, Leave(t) PROVE Goal
    BY <1>7 DEF Leave
  <1>8. ASSUME NEW t \in Connections, Disconnect(t) PROVE Goal
    BY <1>8 DEF Disconnect
  <1>9. ASSUME NEW t \in Connections \cup {Transposer}, ListClients(t) PROVE Goal
    BY <1>9 DEF ListClients
  <1>10. ASSUME NEW t \in Connections \cup {Transposer}, SaveClient(t) PROVE Goal
    BY <1>10 DEF SaveClient, Advance, After
  <1>11. ASSUME NEW t \in Connections \cup {Transposer}, NEW r \in todo[t], SkipClient(t, r) PROVE Goal
    BY <1>11 DEF SkipClient, Advance, After
  <1>12. ASSUME NEW t \in Connections \cup {Transposer}, NEW r \in todo[t], UnknownClient(t, r) PROVE Goal
    BY <1>12 DEF UnknownClient
  <1>13. ASSUME NEW t \in Connections \cup {Transposer}, NEW r \in todo[t], EditClient(t, r) PROVE Goal
    BY <1>13 DEF EditClient
  <1>14. ASSUME NEW t \in {Transposer, Registrar}, InsertNew(t) PROVE Goal
    BY <1>14 DEF InsertNew
  <1>15. ASSUME NEW k \in Keys, LoadToChange(k) PROVE Goal
    BY <1>15 DEF LoadToChange
  <1>16. ASSUME EditRegistered PROVE Goal
    BY <1>16 DEF EditRegistered
  <1>17. ASSUME SaveRegistered PROVE Goal
    BY <1>17 DEF SaveRegistered
  <1>18. ASSUME NEW k \in Keys, LoadRegistered(k) PROVE Goal
    BY <1>18 DEF LoadRegistered
  <1> QED
    BY <1>1, <1>2, <1>4, <1>5, <1>6, <1>7, <1>8, <1>9, <1>10, <1>11, <1>12, <1>13, <1>14, <1>15, <1>16, <1>17, <1>18
    DEF Ordinary, ConnectionStep, VerifierStep, RegistrationStep
\* They write what they hold, and what they are to write with edit_client is what
\* they were to write before, or a row of the table.
LEMMA OrdinaryWrites ==
  ASSUME TypeOK, Placed, Ordinary
  PROVE  /\ \/ rows' = rows
            \/ \E c : rows' = save_into_db(c)
            \/ \E u \in Threads : \E c \in Edits(u) : rows' = edit_client(c)
         /\ \A u \in Threads : Edits(u)' \subseteq Edits(u) \cup rows
  <1> DEFINE Written ==
                \/ rows' = rows
                \/ \E c : rows' = save_into_db(c)
                \/ \E u \in Threads : \E c \in Edits(u) : rows' = edit_client(c)
             Pending == \A u \in Threads : Edits(u)' \subseteq Edits(u) \cup rows
             Goal == Written /\ Pending
  <1> USE WhitelistAssumption DEF threads, TypeOK, Placed, At, Goto, Take, Drop, Threads,
        Edits, get_by_key
  <1> SUFFICES Goal
    OBVIOUS
  <1>1. ASSUME NEW t \in Connections, Accept(t) PROVE Goal
    BY <1>1 DEF Accept
  <1>2. ASSUME NEW t \in Connections, NEW k \in Keys, Request(t, k) PROVE Goal
    BY <1>2 DEF Request
  <1>4. ASSUME NEW t \in Connections, LoadContact(t) PROVE Goal
    BY <1>4 DEF LoadContact, Admit
  <1>5. ASSUME NEW t \in Connections, Touch(t) PROVE Goal
    BY <1>5 DEF Touch, Admit
  <1>6. ASSUME NEW t \in Connections, Serve(t) PROVE Goal
    BY <1>6 DEF Serve
  <1>7. ASSUME NEW t \in Connections, Leave(t) PROVE Goal
    BY <1>7 DEF Leave
  <1>8. ASSUME NEW t \in Connections, Disconnect(t) PROVE Goal
    BY <1>8 DEF Disconnect
  <1>9. ASSUME NEW t \in Connections \cup {Transposer}, ListClients(t) PROVE Goal
    BY <1>9 DEF ListClients
  <1>10. ASSUME NEW t \in Connections \cup {Transposer}, SaveClient(t) PROVE Goal
    BY <1>10 DEF SaveClient, Advance, After
  <1>11. ASSUME NEW t \in Connections \cup {Transposer}, NEW r \in todo[t], SkipClient(t, r) PROVE Goal
    BY <1>11 DEF SkipClient, Advance, After
  <1>12. ASSUME NEW t \in Connections \cup {Transposer}, NEW r \in todo[t], UnknownClient(t, r) PROVE Goal
    BY <1>12 DEF UnknownClient
  <1>13. ASSUME NEW t \in Connections \cup {Transposer}, NEW r \in todo[t], EditClient(t, r) PROVE Goal
    BY <1>13 DEF EditClient
  <1>14. ASSUME NEW t \in {Transposer, Registrar}, InsertNew(t) PROVE Goal
    BY <1>14 DEF InsertNew
  <1>15. ASSUME NEW k \in Keys, LoadToChange(k) PROVE Goal
    BY <1>15 DEF LoadToChange
  <1>16. ASSUME EditRegistered PROVE Goal
    BY <1>16 DEF EditRegistered
  <1>17. ASSUME SaveRegistered PROVE Goal
    BY <1>17 DEF SaveRegistered
  <1>18. ASSUME NEW k \in Keys, LoadRegistered(k) PROVE Goal
    BY <1>18 DEF LoadRegistered
  <1> QED
    BY <1>1, <1>2, <1>4, <1>5, <1>6, <1>7, <1>8, <1>9, <1>10, <1>11, <1>12, <1>13, <1>14, <1>15, <1>16, <1>17, <1>18
    DEF Ordinary, ConnectionStep, VerifierStep, RegistrationStep

\* Before the host runs they do nothing but insert what the Registrar holds; a
\* thread that panics over a client has a key that was given out since the start.
LEMMA OrdinaryAccounts ==
  ASSUME TypeOK, Placed, Quiet, Accounted, UnknownIsGranted, Ordinary
  PROVE  /\ Quiet'
         /\ UnknownIsGranted'
         /\ process = "running" =>
              \A t \in Connections : conn'[t] \in known \cup granted \cup {NoKey}
  <1> DEFINE Admits == process = "running" =>
                        \A t \in Connections : conn'[t] \in known \cup granted \cup {NoKey}
             Goal == Quiet' /\ UnknownIsGranted' /\ Admits
  <1> USE WhitelistAssumption, SourcesAre DEF threads, history, TypeOK, Placed, At, Goto,
        Take, Drop, Threads, Resting, Quiet, Accounted, UnknownIsGranted, KeysOf,
        check_if_client_key_exists
  <1> SUFFICES Goal
    OBVIOUS
  <1>1. ASSUME NEW t \in Connections, Accept(t) PROVE Goal
    BY <1>1 DEF Accept
  <1>2. ASSUME NEW t \in Connections, NEW k \in Keys, Request(t, k) PROVE Goal
    BY <1>2 DEF Request
  <1>4. ASSUME NEW t \in Connections, LoadContact(t) PROVE Goal
    BY <1>4 DEF LoadContact, Admit
  <1>5. ASSUME NEW t \in Connections, Touch(t) PROVE Goal
    BY <1>5 DEF Touch, Admit
  <1>6. ASSUME NEW t \in Connections, Serve(t) PROVE Goal
    BY <1>6 DEF Serve
  <1>7. ASSUME NEW t \in Connections, Leave(t) PROVE Goal
    BY <1>7 DEF Leave
  <1>8. ASSUME NEW t \in Connections, Disconnect(t) PROVE Goal
    BY <1>8 DEF Disconnect
  <1>9. ASSUME NEW t \in Connections \cup {Transposer}, ListClients(t) PROVE Goal
    BY <1>9 DEF ListClients
  <1>10. ASSUME NEW t \in Connections \cup {Transposer}, SaveClient(t) PROVE Goal
    BY <1>10 DEF SaveClient, Advance, After
  <1>11. ASSUME NEW t \in Connections \cup {Transposer}, NEW r \in todo[t], SkipClient(t, r) PROVE Goal
    BY <1>11 DEF SkipClient, Advance, After
  <1>12. ASSUME NEW t \in Connections \cup {Transposer}, NEW r \in todo[t], UnknownClient(t, r) PROVE Goal
    BY <1>12 DEF UnknownClient
  <1>13. ASSUME NEW t \in Connections \cup {Transposer}, NEW r \in todo[t], EditClient(t, r) PROVE Goal
    BY <1>13 DEF EditClient
  <1>14. ASSUME NEW t \in {Transposer, Registrar}, InsertNew(t) PROVE Goal
    BY <1>14 DEF InsertNew
  <1>15. ASSUME NEW k \in Keys, LoadToChange(k) PROVE Goal
    BY <1>15 DEF LoadToChange
  <1>16. ASSUME EditRegistered PROVE Goal
    BY <1>16 DEF EditRegistered
  <1>17. ASSUME SaveRegistered PROVE Goal
    BY <1>17 DEF SaveRegistered
  <1>18. ASSUME NEW k \in Keys, LoadRegistered(k) PROVE Goal
    BY <1>18 DEF LoadRegistered
  <1> QED
    BY <1>1, <1>2, <1>4, <1>5, <1>6, <1>7, <1>8, <1>9, <1>10, <1>11, <1>12, <1>13, <1>14, <1>15, <1>16, <1>17, <1>18
    DEF Ordinary, ConnectionStep, VerifierStep, RegistrationStep

\* The ordinary steps preserve the invariant.
LEMMA OrdinaryStep == WInv /\ Ordinary => WInv'
  <1> SUFFICES ASSUME WInv, Ordinary PROVE WInv'
    OBVIOUS
  <1> USE DEF WInv
  <1>1. TypeOK' /\ Placed'
    BY TypeStep DEF Next, Ordinary, AdministerStep
  <1>2. Sources' \subseteq Sources /\ UNCHANGED <<process, known, history>>
    BY SourcesOnlyShrink
  <1>3. UniqueIds'
    <2>1. \A r, q \in rows' : r.id = q.id => r = q
      BY OrdinaryWrites, Queries DEF UniqueIds
    <2> QED
      BY <2>1 DEF UniqueIds
  <1>4. NoTrace' /\ OneId'
    BY <1>2 DEF NoTrace, OneId, history
  <1>5. Kept'
    <2> SUFFICES ASSUME NEW a \in acknowledged
                 PROVE  /\ a \in rows'
                        /\ \A t \in Threads : \A c \in Edits(t)' : c.id = a.id => c = a
      BY <1>2 DEF Kept, history
    <2>1. a \in rows
      BY DEF Kept
    <2>2. a \in rows'
      <3>1. ASSUME NEW u \in Threads, NEW c \in Edits(u), rows' = edit_client(c)
            PROVE  a \in rows'
        <4>1. c.id = a.id => c = a
          BY DEF Kept
        <4> QED
          BY <2>1, <3>1, <4>1 DEF edit_client, IdsOf
      <3> QED
        BY <2>1, <3>1, OrdinaryWrites, Queries
    <2>3. ASSUME NEW t \in Threads, NEW c \in Edits(t)', c.id = a.id
          PROVE  c = a
      <3>1. c \in Edits(t) \cup rows
        BY OrdinaryWrites
      <3> QED
        BY <2>1, <2>3, <3>1 DEF Kept, UniqueIds
    <2> QED
      BY <2>2, <2>3
  <1>6. Quiet' /\ UnknownIsGranted'
    BY OrdinaryAccounts
  <1>7. Accounted'
    BY <1>2, OrdinaryAccounts DEF Accounted, history
  <1> QED
    BY <1>1, <1>3, <1>4, <1>5, <1>6, <1>7

\* The steps that start the host and end it preserve the invariant.
LEMMA StartStep == WInv /\ (load_allowed_clients \/ Restart) => WInv'
  <1> SUFFICES ASSUME WInv, load_allowed_clients \/ Restart PROVE WInv'
    OBVIOUS
  <1> USE WhitelistAssumption DEF WInv
  <1>1. TypeOK' /\ Placed'
    BY TypeStep DEF Next
  <1>2. CASE load_allowed_clients
    <2> USE <1>2 DEF load_allowed_clients, threads
    <2>1. UNCHANGED <<rows, threads, registrations, revoked, acknowledged, doubled>>
      OBVIOUS
    <2>2. Sources' = Sources
      BY DEF Sources, AllCopies, Copies
    <2>3. UniqueIds' /\ NoTrace' /\ OneId'
      BY <2>2 DEF UniqueIds, NoTrace, OneId
    <2>4. Kept'
      BY DEF Kept, Edits
    <2>5. Quiet'
      BY DEF Quiet, At
    <2>6. UnknownIsGranted'
      <3>1. \A t \in Threads : pc[t] # "unknown"
        BY DEF Quiet, Placed, At, Resting
      <3> QED
        BY <3>1 DEF UnknownIsGranted, At
    <2>7. Accounted'
      <3> SUFFICES ASSUME process' = "running"
                   PROVE  /\ \A r \in Sources : r.key \in known' \cup granted'
                          /\ \A t \in Connections : conn[t] = NoKey
        BY <2>2 DEF Accounted
      <3>1. known' = KeysOf(rows) /\ granted' = KeysOf(AllCopies)
        OBVIOUS
      <3> QED
        BY <3>1 DEF Sources, KeysOf, Quiet
    <2> QED
      BY <1>1, <2>3, <2>4, <2>5, <2>6, <2>7
  <1>3. CASE Restart
    <2> USE <1>3 DEF Restart, history
    <2>1. Sources' = rows /\ \A t \in Threads : Edits(t)' = {}
      BY DEF Sources, AllCopies, Copies, Edits
    <2>2. UniqueIds'
      BY DEF UniqueIds
    <2>3. NoTrace' /\ OneId'
      BY <2>1 DEF NoTrace, OneId, Sources
    <2>4. Kept'
      BY <2>1 DEF Kept
    <2>5. Quiet' /\ UnknownIsGranted' /\ Accounted'
      BY DEF Quiet, UnknownIsGranted, Accounted, At, Resting, Threads
    <2> QED
      BY <1>1, <2>2, <2>3, <2>4, <2>5
  <1> QED
    BY <1>2, <1>3

\* A thread that makes up a client, whose key nobody has or is said to be doubled,
\* preserves the invariant.
LEMMA GiveStep ==
  ASSUME NEW k \in Keys, NEW d \in Data, NEW i \in Ids, WInv,
         registry_new_client(k, d, i) \/ AddClient(k, d, i)
  PROVE  WInv'
  <1> USE WhitelistAssumption DEF WInv
  <1> DEFINE c == new(i, k, d)
  <1>1. TypeOK' /\ Placed'
    BY TypeStep DEF Next, AdministerStep
  <1>2. PICK t \in {Transposer, Registrar} : At(t, "idle") /\ Take(t, c) /\ Goto(t, "add")
    BY DEF registry_new_client, AddClient
  <1>3. /\ UNCHANGED <<process, rows, known, conn, todo, registrations, acknowledged>>
        /\ revoked' = revoked \ {k} /\ granted' = granted \cup {k}
        /\ ~doubled' => ~doubled /\ k \notin KeysOf(rows) \cup KeysOf(AllCopies)
        /\ t = Transposer => process = "running"
    BY <1>2 DEF registry_new_client, AddClient, At, Take, Goto, TypeOK, Threads,
                check_if_client_key_exists
  <1>4. c.key = k
    BY DEF new
  <1>5. Sources' \subseteq Sources \cup {c}
    BY <1>2, <1>3, SourcesAre, SourcesWillBe DEF Take, TypeOK, Threads
  <1>6. \A u \in Threads : Edits(u)' \subseteq Edits(u)
    BY <1>2, <1>3 DEF Edits, Take, Goto, TypeOK, Threads
  <1>7. UniqueIds'
    BY <1>3 DEF UniqueIds
  <1>8. NoTrace'
    BY <1>3, <1>4, <1>5 DEF NoTrace
  <1>9. Kept'
    BY <1>3, <1>6 DEF Kept
  <1>10. OneId'
    <2>1. ~doubled' => \A r \in Sources : r.key # k
      BY <1>3 DEF Sources, KeysOf
    <2> QED
      BY <1>3, <1>4, <1>5, <2>1 DEF OneId
  <1>11. Quiet' /\ UnknownIsGranted'
    BY <1>2, <1>3 DEF Quiet, UnknownIsGranted, At, Goto, TypeOK, Threads, Resting
  <1>12. Accounted'
    BY <1>3, <1>4, <1>5 DEF Accounted
  <1> QED
    BY <1>1, <1>7, <1>8, <1>9, <1>10, <1>11, <1>12

\* update_client replaces one row, whose old key may vanish, and gives one key out.
LEMMA UpdateStep ==
  ASSUME NEW k \in Keys, NEW d \in Data, WInv, UpdateClient(k, d)
  PROVE  WInv'
  <1> USE WhitelistAssumption DEF WInv
  <1>1. TypeOK' /\ Placed'
    BY TypeStep DEF Next, AdministerStep
  <1>2. PICK old \in hand[Transposer] :
          /\ rows' = edit_client(new(old.id, k, d))
          /\ revoked' = (IF old.id \in IdsOf(rows) THEN revoked \ {k} ELSE revoked)
                           \cup ((KeysOf(rows) \ KeysOf(rows')) \ CopiedKeys(Transposer))
          /\ acknowledged' = {a \in acknowledged : a.id # old.id} \cup
                 {c \in {new(old.id, k, d)} : old.id \in IdsOf(rows) \ IdsOf(AllEdits)}
          /\ doubled' = \/ doubled
                        \/ k # old.key /\ k \in KeysOf(rows) \cup KeysOf(AllCopies)
    BY DEF UpdateClient
  <1> DEFINE c == new(old.id, k, d)
  <1>3. c.key = k /\ c.id = old.id
    BY DEF new
  <1>4. /\ UNCHANGED <<process, known, conn, todo, registrations>>
        /\ granted' = granted \cup {k}
        /\ At(Transposer, "update") /\ Drop(Transposer) /\ Goto(Transposer, "idle")
    BY DEF UpdateClient
  <1>5. todo[Transposer] = {}
    BY <1>4 DEF Placed, At, Threads
  <1>6. rows' \subseteq rows \cup {c} /\ (c \in rows' => c \in rows \/ old.id \in IdsOf(rows))
    BY <1>2 DEF edit_client, new
  <1>7. Sources' \subseteq Sources \cup {c}
    BY <1>4, <1>6, SourcesAre, SourcesWillBe DEF Drop, TypeOK, Threads
  <1>8. \A u \in Threads : Edits(u)' \subseteq Edits(u)
    BY <1>4 DEF Edits, Drop, Goto, TypeOK, Threads
  <1>9. UniqueIds'
    <2>1. \A r, q \in rows' : r.id = q.id => r = q
      BY <1>2, Queries DEF UniqueIds
    <2> QED
      BY <2>1 DEF UniqueIds
  <1>10. NoTrace'
    <2> SUFFICES ASSUME NEW r \in Sources' PROVE r.key \notin revoked'
      BY DEF NoTrace
    <2>1. CASE r \in rows'
      <3>1. r.key \in KeysOf(rows')
        BY <2>1 DEF KeysOf
      <3>2. CASE r \in rows
        BY <1>2, <2>1, <3>1, <3>2 DEF NoTrace, Sources
      <3>3. CASE r = c /\ old.id \in IdsOf(rows)
        BY <1>2, <1>3, <3>1, <3>3
      <3> QED
        BY <1>6, <2>1, <3>2, <3>3
    <2>2. ASSUME NEW u \in Threads, r \in hand'[u] \cup todo'[u]
          PROVE  r.key \notin revoked'
      <3>1. u # Transposer /\ r \in Copies(u)
        BY <1>4, <1>5, <2>2 DEF Drop, Copies, TypeOK, Threads
      <3>2. r \in Sources /\ r.key \in CopiedKeys(Transposer)
        BY <3>1 DEF Sources, AllCopies, CopiedKeys, KeysOf
      <3> QED
        BY <1>2, <3>2 DEF NoTrace
    <2> QED
      BY <2>1, <2>2, SourcesWillBe
  <1>11. Kept'
    <2> SUFFICES ASSUME NEW a \in acknowledged'
                 PROVE  /\ a \in rows'
                        /\ \A t \in Threads : \A e \in Edits(t) : e.id = a.id => e = a
      BY <1>8 DEF Kept
    <2>1. CASE a \in acknowledged /\ a.id # old.id
      BY <1>2, <1>3, <2>1 DEF Kept, edit_client
    <2>2. CASE a = c /\ old.id \in IdsOf(rows) \ IdsOf(AllEdits)
      <3>1. a \in rows'
        BY <1>2, <1>3, <2>2 DEF edit_client
      <3>2. \A t \in Threads : \A e \in Edits(t) : e.id # a.id
        BY <1>3, <2>2 DEF AllEdits, IdsOf
      <3> QED
        BY <3>1, <3>2
    <2> QED
      BY <1>2, <2>1, <2>2
  <1>12. OneId'
    <2> SUFFICES ASSUME ~doubled', NEW r \in Sources', NEW q \in Sources', r.key = q.key
                 PROVE  r.id = q.id
      BY DEF OneId
    <2>1. ~doubled /\ (k = old.key \/ \A s \in Sources : s.key # k)
      BY <1>2 DEF Sources, KeysOf
    <2>2. old \in Sources
      BY SourcesAre DEF Threads
    <2> QED
      BY <1>3, <1>7, <2>1, <2>2 DEF OneId
  <1>13. Quiet' /\ UnknownIsGranted'
    BY <1>4 DEF Quiet, UnknownIsGranted, At, Goto, TypeOK, Threads, Resting
  <1>14. Accounted'
    BY <1>3, <1>4, <1>7 DEF Accounted
  <1> QED
    BY <1>1, <1>9, <1>10, <1>11, <1>12, <1>13, <1>14

\* remove_client deletes what has the key, by then, of the client it has loaded.
LEMMA RemoveStep == WInv /\ RemoveClient => WInv'
  <1> SUFFICES ASSUME WInv, RemoveClient PROVE WInv'
    OBVIOUS
  <1> USE WhitelistAssumption DEF WInv
  <1>1. TypeOK' /\ Placed'
    BY TypeStep DEF Next
  <1>2. PICK c \in hand[Transposer] :
          /\ rows' = delete(c)
          /\ revoked' = revoked \cup ({c.key} \ CopiedKeys(Transposer))
          /\ acknowledged' = {a \in acknowledged : a.key # c.key}
    BY DEF RemoveClient
  <1>3. /\ UNCHANGED <<process, known, conn, todo, registrations, granted, doubled>>
        /\ At(Transposer, "remove") /\ Drop(Transposer) /\ Goto(Transposer, "idle")
    BY DEF RemoveClient
  <1>4. todo[Transposer] = {}
    BY <1>3 DEF Placed, At, Threads
  <1>5. rows' \subseteq rows /\ \A r \in rows' : r.key # c.key
    BY <1>2 DEF delete
  <1>6. Sources' \subseteq Sources
    BY <1>3, <1>5, SourcesAre, SourcesWillBe DEF Drop, TypeOK, Threads
  <1>7. \A u \in Threads : Edits(u)' \subseteq Edits(u)
    BY <1>3 DEF Edits, Drop, Goto, TypeOK, Threads
  <1>8. UniqueIds' /\ OneId'
    BY <1>3, <1>5, <1>6 DEF UniqueIds, OneId
  <1>9. NoTrace'
    <2> SUFFICES ASSUME NEW r \in Sources' PROVE r.key \notin revoked'
      BY DEF NoTrace
    <2>1. r.key \notin revoked
      BY <1>6 DEF NoTrace
    <2>2. ASSUME NEW u \in Threads, r \in hand'[u] \cup todo'[u]
          PROVE  r.key \in CopiedKeys(Transposer)
      <3>1. u # Transposer /\ r \in Copies(u)
        BY <1>3, <1>4, <2>2 DEF Drop, Copies, TypeOK, Threads
      <3> QED
        BY <3>1 DEF CopiedKeys, KeysOf
    <2> QED
      BY <1>2, <1>5, <2>1, <2>2, SourcesWillBe
  <1>10. Kept'
    BY <1>2, <1>7 DEF Kept, delete
  <1>11. Quiet' /\ UnknownIsGranted' /\ Accounted'
    BY <1>3, <1>6 DEF Quiet, UnknownIsGranted, Accounted, At, Goto, TypeOK, Threads, Resting
  <1> QED
    BY <1>1, <1>8, <1>9, <1>10, <1>11

\* The invariant is inductive.
LEMMA WhitelistStep == WInv /\ [Next]_vars => WInv'
  <1> SUFFICES ASSUME WInv, [Next]_vars PROVE WInv'
    OBVIOUS
  <1>1. CASE Ordinary
    BY <1>1, OrdinaryStep
  <1>2. CASE load_allowed_clients \/ Restart
    BY <1>2, StartStep
  <1>3. CASE AdministerStep
    BY <1>1, <1>3, GiveStep, UpdateStep DEF AdministerStep, Ordinary
  <1>4. CASE RemoveClient
    BY <1>4, RemoveStep
  <1>5. CASE UNCHANGED vars
    <2> USE <1>5 DEF vars
    <2>1. \A u \in Threads : Edits(u)' = Edits(u)
      BY DEF Edits
    <2>2. Sources' = Sources
      BY DEF Sources, AllCopies, Copies
    <2>3. (TypeOK /\ Placed /\ UniqueIds /\ NoTrace /\ OneId)'
      BY <2>2 DEF WInv, TypeOK, Placed, UniqueIds, NoTrace, OneId
    <2>4. (Kept /\ Quiet /\ Accounted /\ UnknownIsGranted)'
      BY <2>1, <2>2 DEF WInv, Kept, Quiet, Accounted, UnknownIsGranted, At
    <2> QED
      BY <2>3, <2>4 DEF WInv
  <1> QED
    BY <1>1, <1>2, <1>3, <1>4, <1>5 DEF Next, Ordinary

LEMMA WhitelistInvariant == Spec => []WInv
  BY WhitelistInit, WhitelistStep, PTL DEF Spec

\* Every variable of the whitelist keeps its type; above all, no command is
\* processed for a connection whose client was not looked up.
THEOREM WhitelistTypeCorrect == Spec => []TypeOK
  <1>1. WInv => TypeOK
    BY DEF WInv
  <1> QED
    BY <1>1, WhitelistInvariant, PTL

\* A key that was taken away while no thread had a copy of it is not admitted
\* before it is given out again, whatever the threads write back.
THEOREM RevokedStaysOutAlways == Spec => []RevokedStaysOut
  <1>1. WInv => RevokedStaysOut
    BY DEF WInv, NoTrace, Sources, RevokedStaysOut, KeysOf
  <1> QED
    BY <1>1, WhitelistInvariant, PTL

\* No last contact, sync_verifier or registration undoes an update_client that
\* came while none of them was about to write that client.
THEOREM UpdatesAreKept == Spec => []UpdatesKept
  <1>1. WInv => UpdatesKept
    BY DEF WInv, Kept, UpdatesKept
  <1> QED
    BY <1>1, WhitelistInvariant, PTL

\* A thread unwraps a missing client only after a key was given out that the
\* start of the host had not seen.
THEOREM OnlyGrantedAreUnknown == Spec => []UnknownIsGranted
  <1>1. WInv => UnknownIsGranted
    BY DEF WInv
  <1> QED
    BY <1>1, WhitelistInvariant, PTL

\* A start of the host fails only without any client, or after a key was given
\* out that was in use.
THEOREM HostStartsAgain == Spec => StartsAgain
  <1>1. WInv /\ [Next]_vars =>
          [process' = "failed" /\ process # "failed" => rows = {} \/ doubled]_vars
    <2> SUFFICES ASSUME WInv, Next, process' = "failed", process # "failed", rows # {}
                 PROVE  doubled
      OBVIOUS
    <2>1. CASE load_allowed_clients
      <3>1. PICK r \in rows, q \in rows : r # q /\ r.key = q.key
        BY <2>1 DEF load_allowed_clients
      <3>2. r.id # q.id
        BY <3>1 DEF WInv, UniqueIds
      <3> QED
        BY <3>1, <3>2 DEF WInv, OneId, Sources
    <2>2. CASE Ordinary
      BY <2>2, SourcesOnlyShrink DEF WInv
    <2>3. CASE ~load_allowed_clients /\ ~Ordinary
      BY <2>3 DEF Next, Ordinary, AdministerStep, Restart, RemoveClient, UpdateClient,
                  AddClient, registry_new_client
    <2> QED
      BY <2>1, <2>2, <2>3
  <1> QED
    BY <1>1, WhitelistInvariant, PTL DEF Spec, StartsAgain
===============================================================================
