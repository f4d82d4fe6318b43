------------------------------- MODULE Whitelist -------------------------------
(***************************************************************************)
(* Which clients the host admits: the table Clients, the copies its        *)
(* threads make of it when they start (network map, sync controller and    *)
(* task table), and everyone who reads a row and writes it back later.     *)
(* A query is one step, but for the two with which registry_new_client     *)
(* looks for the key and for an id; a thread keeps what it read between    *)
(* two steps.  Connection threads check the key of each request, note the  *)
(* last contact in a row that they load and write back whole, and run      *)
(* sync_verifier when the connection ends; the transposer adds, updates,   *)
(* removes and registers clients and runs sync_verifier too; one user      *)
(* thread of the host calls registry_new_client.  The table outlives the   *)
(* process.                                                                *)
(***************************************************************************)
EXTENDS Naturals, FiniteSets

CONSTANTS
    Keys,           \* client keys
    Ids,            \* the ids that UniqueIdGenerator draws from: 0..9998
    Data,           \* the other columns of a client
    NoKey,          \* "", before the first request of a connection
    Connections,    \* connection threads
    Transposer,
    Registrar       \* the user thread in registry_new_client

ASSUME WhitelistAssumption ==
    /\ NoKey \notin Keys
    /\ Transposer \notin Connections \cup {Registrar}
    /\ Registrar \notin Connections

Threads == Connections \cup {Transposer, Registrar}
Row     == [id : Ids, key : Keys, data : Data]

ConnectionSteps == {"closed", "open", "contact", "touch", "served", "gone"}
TransposerSteps == {"reg", "registered", "add", "update", "remove"}
VerifierSteps   == {"list", "verify"}
\* The thread panicked: for a key that is not in the network map, or for
\* another reason.
Panics          == {"unknown", "died"}
Steps == ConnectionSteps \cup TransposerSteps \cup VerifierSteps \cup Panics
             \cup {"idle", "save"}

VARIABLES
    process,        \* of the host: before load_allowed_clients, after, or ended by it
    rows,           \* the table Clients
    known,          \* the keys in the network map, the controller and the task table
    pc,             \* what each thread does next
    conn,           \* client_key of each connection thread
    hand,           \* per thread: the client it holds, if any
    todo,           \* per thread in sync_verifier: the clients it has yet to come to
    registrations,  \* clients with update_client_commands_ref in the down table
    revoked,        \* keys taken away while no thread had a copy of them (history)
    acknowledged,   \* rows updated while no thread was to write them back (history)
    granted,        \* keys given out since load_allowed_clients (history)
    doubled         \* some key was given out that was in use already (history)

threads == <<pc, conn, hand, todo>>
history == <<revoked, acknowledged, granted, doubled>>
vars == <<process, rows, known, pc, conn, hand, todo, registrations, revoked, acknowledged,
          granted, doubled>>

KeysOf(clients) == {r.key : r \in clients}
IdsOf(clients)  == {r.id : r \in clients}

TypeOK ==
    /\ process \in {"down", "running", "failed"}
    /\ rows \in SUBSET Row
    /\ known \in SUBSET Keys
    /\ pc \in [Threads -> Steps]
    /\ conn \in [Connections -> Keys \cup {NoKey}]
    /\ hand \in [Threads -> SUBSET Row]
    /\ todo \in [Threads -> SUBSET Row]
    /\ registrations \in SUBSET Keys
    /\ revoked \in SUBSET Keys
    /\ acknowledged \in SUBSET Row
    /\ granted \in SUBSET Keys
    /\ doubled \in BOOLEAN

Resting(t) == IF t \in Connections THEN "closed" ELSE "idle"

Init ==
    /\ process = "down"
    /\ rows = {} /\ known = {}
    /\ pc = [t \in Threads |-> Resting(t)]
    /\ conn = [t \in Connections |-> NoKey]
    /\ hand = [t \in Threads |-> {}]
    /\ todo = [t \in Threads |-> {}]
    /\ registrations = {}
    /\ revoked = {} /\ acknowledged = {} /\ granted = {}
    /\ doubled = FALSE

At(t, step)   == pc[t] = step
Goto(t, step) == pc' = [pc EXCEPT ![t] = step]
Take(t, r)    == hand' = [hand EXCEPT ![t] = {r}]
Drop(t)       == hand' = [hand EXCEPT ![t] = {}]
-------------------------------------------------------------------------------
(* The queries.  An error of the database is printed, no more.             *)

\* SELECT ... WHERE ClientKey = ?: the client is the first of the rows found.
get_by_key(k) == {r \in rows : r.key = k}

check_if_client_key_exists(k) == k \in KeysOf(rows)

\* Mutant: INSERT OR REPLACE.
ReplaceInDb(c) == {r \in rows : r.id # c.id} \cup {c}

\* INSERT: it fails when the id is taken; the key may be taken.
save_into_db(c) == IF c.id \in IdsOf(rows) THEN rows ELSE rows \cup {c}

\* UPDATE ... WHERE ID = ?: all columns but Syncronized, which nobody reads.
edit_client(c) == {r \in rows : r.id # c.id} \cup {d \in {c} : c.id \in IdsOf(rows)}

\* Mutant: DELETE ... WHERE ID = ?.
DeleteById(c) == {r \in rows : r.id # c.id}

\* DELETE ... WHERE ClientKey = ?.
delete(c) == {r \in rows : r.key # c.key}

\* Client::new: with an id that no row has.
new(i, k, d) == [id |-> i, key |-> k, data |-> d]
-------------------------------------------------------------------------------
(* What the threads hold, for the histories.                               *)

Copies(t)  == hand[t] \cup todo[t]
AllCopies  == UNION {Copies(t) : t \in Threads}

\* The keys that threads other than t have copies of.
CopiedKeys(t) == KeysOf(UNION {Copies(u) : u \in Threads \ {t}})

\* The copies that a thread will write with edit_client.
Edits(t)   == todo[t] \cup (IF pc[t] \in {"touch", "reg"} THEN hand[t] ELSE {})
AllEdits   == UNION {Edits(t) : t \in Threads}
-------------------------------------------------------------------------------
(* The host starts, and starts again.                                      *)

\* Mutant: only clients that are not in the table yet are made known.
LoadNewClients ==
    /\ process = "down"
    /\ process' = IF rows = {} THEN "failed" ELSE "running"
    /\ known' = {}
    /\ granted' = KeysOf(AllCopies)
    /\ UNCHANGED <<rows, threads, registrations, revoked, acknowledged, doubled>>

\* load_allowed_clients panics when there is no client, and when two have the
\* same key: the second add_node of the task table is an error.
load_allowed_clients ==
    /\ process = "down"
    /\ IF rows = {} \/ \E r, q \in rows : r # q /\ r.key = q.key
       THEN process' = "failed" /\ known' = {}
       ELSE process' = "running" /\ known' = KeysOf(rows)
    /\ granted' = KeysOf(AllCopies)
    /\ UNCHANGED <<rows, threads, registrations, revoked, acknowledged, doubled>>

\* The process ends, in whatever way, and is set up again.
Restart ==
    /\ process # "down" /\ process' = "down"
    /\ known' = {}
    /\ pc' = [t \in Threads |-> Resting(t)]
    /\ conn' = [t \in Connections |-> NoKey]
    /\ hand' = [t \in Threads |-> {}]
    /\ todo' = [t \in Threads |-> {}]
    /\ registrations' = {}
    /\ UNCHANGED <<rows, history>>

\* Mutant: the key is not looked up.
RegistryUnchecked(k, d, i) ==
    /\ process # "failed" /\ At(Registrar, "idle")
    /\ i \notin IdsOf(rows)
    /\ Take(Registrar, new(i, k, d))
    /\ Goto(Registrar, "add")
    /\ revoked' = revoked \ {k}
    /\ granted' = granted \cup {k}
    /\ doubled' = (doubled \/ k \in KeysOf(AllCopies))
    /\ UNCHANGED <<process, rows, known, conn, todo, registrations, acknowledged>>

\* registry_new_client looks for the key and for a free id, by two queries that
\* are one step here ...
registry_new_client(k, d, i) ==
    /\ process # "failed" /\ At(Registrar, "idle")
    /\ ~check_if_client_key_exists(k)
    /\ i \notin IdsOf(rows)
    /\ Take(Registrar, new(i, k, d))
    /\ Goto(Registrar, "add")
    /\ revoked' = revoked \ {k}
    /\ granted' = granted \cup {k}
    /\ doubled' = (doubled \/ k \in KeysOf(AllCopies))
    /\ UNCHANGED <<process, rows, known, conn, todo, registrations, acknowledged>>

\* ... and inserts the client by a third; so does add_client.
InsertNew(t) ==
    /\ At(t, "add")
    /\ \E c \in hand[t] : rows' = save_into_db(c)
    /\ Drop(t)
    /\ Goto(t, "idle")
    /\ UNCHANGED <<process, known, conn, todo, registrations, history>>
-------------------------------------------------------------------------------
(* handle_connection.                                                      *)

Accept(t) ==
    /\ process = "running"
    /\ At(t, "closed")
    /\ conn' = [conn EXCEPT ![t] = NoKey]
    /\ Goto(t, "open")
    /\ UNCHANGED <<process, rows, known, hand, todo, registrations, history>>

\* A request with the key k, which is in the whitelist or ends the connection.
Request(t, k) ==
    /\ At(t, "open")
    /\ IF check_if_client_key_exists(k)
       THEN conn' = [conn EXCEPT ![t] = k] /\ Goto(t, "contact")
       ELSE UNCHANGED conn /\ Goto(t, "gone")
    /\ UNCHANGED <<process, rows, known, hand, todo, registrations, history>>

\* get_sync_status, asked before the last contact is noted: a client that the
\* controller does not know is not served.
Admit(t) == IF conn[t] \in known THEN "served" ELSE "gone"

\* update_last_contact loads the client ...
LoadContact(t) ==
    /\ At(t, "contact")
    /\ \/ /\ get_by_key(conn[t]) = {}
          /\ Goto(t, Admit(t))
          /\ UNCHANGED hand
       \/ \E r \in get_by_key(conn[t]) : Take(t, r) /\ Goto(t, "touch")
    /\ UNCHANGED <<process, rows, known, conn, todo, registrations, history>>

\* ... and writes it back.
Touch(t) ==
    /\ At(t, "touch")
    /\ \E r \in hand[t] : rows' = edit_client(r)
    /\ Drop(t)
    /\ Goto(t, Admit(t))
    /\ UNCHANGED <<process, known, conn, todo, registrations, history>>

\* Mutant: a command is processed before the key was looked at.
ServeUnchecked(t) ==
    /\ pc[t] \in {"open", "served"}
    /\ \/ UNCHANGED registrations
       \/ registrations' = registrations \cup {conn[t]}
    /\ Goto(t, "open")
    /\ UNCHANGED <<process, rows, known, conn, hand, todo, history>>

\* The rest of the loop: of the commands, only registrations matter here.
Serve(t) ==
    /\ At(t, "served")
    /\ \/ UNCHANGED registrations
       \/ registrations' = registrations \cup {conn[t]}
    /\ Goto(t, "open")
    /\ UNCHANGED <<process, rows, known, conn, hand, todo, history>>

\* The connection ends, while the thread waits for a request or serves one.
Leave(t) ==
    /\ pc[t] \in {"open", "served"}
    /\ Goto(t, "gone")
    /\ UNCHANGED <<process, rows, known, conn, hand, todo, registrations, history>>

\* handle_client_disconnect: the node is looked up and unwrapped.
Disconnect(t) ==
    /\ At(t, "gone")
    /\ Goto(t, IF conn[t] \in known THEN "list"
               ELSE IF conn[t] = NoKey THEN "died" ELSE "unknown")
    /\ UNCHANGED <<process, rows, known, conn, hand, todo, registrations, history>>
-------------------------------------------------------------------------------
(* sync_verifier, which writes back every client that is on line.          *)

\* Next after sync_verifier: the disconnect may be handled twice.
After(t) == IF t = Transposer THEN {"idle"} ELSE {"gone", "closed"}

\* get_all_clients: to have none is an error, and a panic.
ListClients(t) ==
    /\ At(t, "list")
    /\ todo' = [todo EXCEPT ![t] = rows]
    /\ Goto(t, IF rows = {} THEN "died" ELSE "verify")
    /\ UNCHANGED <<process, rows, known, conn, hand, registrations, history>>

\* Next client, if there is one.
Advance(t, left) ==
    /\ todo' = [todo EXCEPT ![t] = left]
    /\ IF left = {} THEN \E step \in After(t) : Goto(t, step) ELSE Goto(t, "verify")

\* The client is not on line: NodeSync says when.
SkipClient(t, r) ==
    /\ At(t, "verify") /\ r \in todo[t]
    /\ r.key \in known
    /\ Advance(t, todo[t] \ {r})
    /\ UNCHANGED <<process, rows, known, conn, hand, registrations, history>>

\* node_map.get(key) has nothing to unwrap.
UnknownClient(t, r) ==
    /\ At(t, "verify") /\ r \in todo[t]
    /\ r.key \notin known
    /\ todo' = [todo EXCEPT ![t] = {}]
    /\ Goto(t, "unknown")
    /\ UNCHANGED <<process, rows, known, conn, hand, registrations, history>>

\* change_sync_to ...
EditClient(t, r) ==
    /\ At(t, "verify") /\ r \in todo[t]
    /\ r.key \in known
    /\ rows' = edit_client(r)
    /\ Take(t, r)
    /\ todo' = [todo EXCEPT ![t] = @ \ {r}]
    /\ Goto(t, "save")
    /\ UNCHANGED <<process, known, conn, registrations, history>>

\* ... and save_into_db, of a client that is expected to be there.
SaveClient(t) ==
    /\ At(t, "save")
    /\ \E r \in hand[t] : rows' = save_into_db(r)
    /\ Drop(t)
    /\ Advance(t, todo[t])
    /\ UNCHANGED <<process, known, conn, registrations, history>>
-------------------------------------------------------------------------------
(* handle_direct_function, in the transposer.                              *)

\* update_client_commands_ref: an error for a client that is not there ...
LoadRegistered(k) ==
    /\ At(Transposer, "idle") /\ k \in registrations
    /\ registrations' = registrations \ {k}
    /\ \/ /\ get_by_key(k) = {}
          /\ UNCHANGED <<pc, hand>>
       \/ \E r \in get_by_key(k) : Take(Transposer, r) /\ Goto(Transposer, "reg")
    /\ UNCHANGED <<process, rows, known, conn, todo, history>>

\* ... else change_sync_to ...
EditRegistered ==
    /\ At(Transposer, "reg")
    /\ \E r \in hand[Transposer] : rows' = edit_client(r)
    /\ Goto(Transposer, "registered")
    /\ UNCHANGED <<process, known, conn, hand, todo, registrations, history>>

\* ... and save_into_db, before sync_verifier.
SaveRegistered ==
    /\ At(Transposer, "registered")
    /\ \E r \in hand[Transposer] : rows' = save_into_db(r)
    /\ Drop(Transposer)
    /\ Goto(Transposer, "list")
    /\ UNCHANGED <<process, known, conn, todo, registrations, history>>

\* add_client, up to Client::new: the key is not looked up.
AddClient(k, d, i) ==
    /\ process = "running" /\ At(Transposer, "idle")
    /\ i \notin IdsOf(rows)
    /\ Take(Transposer, new(i, k, d))
    /\ Goto(Transposer, "add")
    /\ revoked' = revoked \ {k}
    /\ granted' = granted \cup {k}
    /\ doubled' = (doubled \/ k \in KeysOf(rows) \cup KeysOf(AllCopies))
    /\ UNCHANGED <<process, rows, known, conn, todo, registrations, acknowledged>>

\* update_client and remove_client load the client, or panic.
LoadToChange(k) ==
    /\ process = "running" /\ At(Transposer, "idle")
    /\ \/ /\ get_by_key(k) = {}
          /\ Goto(Transposer, "died")
          /\ UNCHANGED hand
       \/ \E r \in get_by_key(k) :
            /\ Take(Transposer, r)
            /\ \E step \in {"update", "remove"} : Goto(Transposer, step)
    /\ UNCHANGED <<process, rows, known, conn, todo, registrations, history>>

\* update_to: UPDATE ... WHERE ID = ?, with the columns of another client.
UpdateClient(k, d) ==
    /\ At(Transposer, "update")
    /\ \E old \in hand[Transposer] :
         /\ rows' = edit_client(new(old.id, k, d))
         /\ revoked' = (IF old.id \in IdsOf(rows) THEN revoked \ {k} ELSE revoked)
                          \cup ((KeysOf(rows) \ KeysOf(rows')) \ CopiedKeys(Transposer))
         /\ acknowledged' = {a \in acknowledged : a.id # old.id} \cup
                {c \in {new(old.id, k, d)} : old.id \in IdsOf(rows) \ IdsOf(AllEdits)}
         /\ doubled' = \/ doubled
                       \/ k # old.key /\ k \in KeysOf(rows) \cup KeysOf(AllCopies)
    /\ granted' = granted \cup {k}
    /\ Drop(Transposer)
    /\ Goto(Transposer, "idle")
    /\ UNCHANGED <<process, known, conn, todo, registrations>>

\* delete: an error when the key is gone by now.
RemoveClient ==
    /\ At(Transposer, "remove")
    /\ \E c \in hand[Transposer] :
         /\ rows' = delete(c)
         /\ revoked' = revoked \cup ({c.key} \ CopiedKeys(Transposer))
         /\ acknowledged' = {a \in acknowledged : a.key # c.key}
    /\ Drop(Transposer)
    /\ Goto(Transposer, "idle")
    /\ UNCHANGED <<process, known, conn, todo, registrations, granted, doubled>>
-------------------------------------------------------------------------------
ConnectionStep(t) ==
    \/ Accept(t) \/ LoadContact(t) \/ Touch(t) \/ Serve(t)
    \/ Leave(t) \/ Disconnect(t)
    \/ \E k \in Keys : Request(t, k)

VerifierStep(t) ==
    \/ ListClients(t) \/ SaveClient(t)
    \/ \E r \in todo[t] : SkipClient(t, r) \/ UnknownClient(t, r) \/ EditClient(t, r)

AdministerStep ==
    \E k \in Keys :
        \/ LoadToChange(k)
        \/ \E d \in Data :
              \/ UpdateClient(k, d)
              \/ \E i \in Ids : AddClient(k, d, i) \/ registry_new_client(k, d, i)

RegistrationStep == EditRegistered \/ SaveRegistered \/ \E k \in Keys : LoadRegistered(k)

Next ==
    \/ load_allowed_clients \/ Restart
    \/ \E t \in Connections : ConnectionStep(t)
    \/ \E t \in Connections \cup {Transposer} : VerifierStep(t)
    \/ \E t \in {Transposer, Registrar} : InsertNew(t)
    \/ AdministerStep \/ RemoveClient \/ RegistrationStep

Spec == Init /\ [][Next]_vars
-------------------------------------------------------------------------------
\* A client that is removed, or whose key is changed, stays out until somebody
\* gives that key out again, unless a thread held a copy of it at that moment:
\* then sync_verifier, update_last_contact or a registration may bring it back
\* (save_into_db inserts what it no longer finds).
RevokedStaysOut == revoked \cap KeysOf(rows) = {}

\* What update_client has written stays until the client is updated again or
\* removed, unless a thread was about to write back what it had read before:
\* the last contact and sync_verifier write whole rows, WHERE ID = ?.
UpdatesKept == acknowledged \subseteq rows

\* The host can be started on the table that it left, however it ended, unless
\* there is no client, or a key was given out while it was in use, which
\* add_client and update_client do not prevent (registry_new_client does): what
\* the other threads write back never leaves two rows with one key.
StartsAgain ==
    [][process' = "failed" /\ process # "failed" => rows = {} \/ doubled]_vars

\* The threads find each client of the table in the network map, which they
\* unwrap: they panic over a client only after a key was given out that
\* load_allowed_clients had not seen.
UnknownIsGranted == (\E t \in Threads : At(t, "unknown")) => ~(granted \subseteq known)
===============================================================================
