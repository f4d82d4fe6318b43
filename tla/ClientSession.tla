---------------------------- MODULE ClientSession ----------------------------
(***************************************************************************)
(* The life of a client process: setup_socket_client, the calls of         *)
(* initialize_socket_client with the thread each spawns (connect, the loop *)
(* of pings and rows, reconnect, stop), the flags CLIENT_IS_RUNNING and    *)
(* CLIENT_IS_CONNECTED, and the row of client state (ClientState) that     *)
(* the transposer and set_client_callbacks read, change and write back,    *)
(* and that decides whether client_send accepts a command.                 *)
(*                                                                         *)
(* The state and the two command tables are in the file of the buffer: a   *)
(* crash leaves them, and other instances of the library, in other threads *)
(* of the process (set up with is_main_process = false), use them.  That   *)
(* their setup drops the command tables under the first one is in          *)
(* DownTable, not here.  What becomes of a command in the host is the      *)
(* subject of HostRelay, and the order of rows too.                        *)
(***************************************************************************)
EXTENDS Naturals

CONSTANTS
    Starts,         \* calls of initialize_socket_client in one process, numbered
    NoStart,        \* the main thread is in none of them
    Commands,       \* commands that users send, as often as they like
    Offers,         \* update_available_host_commands, as often as it is sent
    NoState,        \* the table ClientStates has no row
    MaxCalls,       \* bound: calls of set_client_callbacks in one process
    MaxBreaks,      \* bound: connections that break
    MaxCrashes      \* bound: crashes of the process

\* is_ready, is_sync, is_connected and network_map change together: learned.
State == [learned : BOOLEAN, handlers : BOOLEAN]

ASSUME SessionAssumption ==
    /\ Starts \subseteq Nat /\ NoStart \notin Starts
    /\ Commands \cap Offers = {}
    /\ NoState \notin State
    /\ MaxCalls \in Nat /\ MaxBreaks \in Nat /\ MaxCrashes \in Nat

\* A row of the up table: a command, or the answer to an offer
\* (update_client_commands_ref), which bears its name.
Rows == Commands \cup Offers

\* The state that setup_socket_client saves.
Fresh == [learned |-> FALSE, handlers |-> FALSE]

Processes   == {"down", "tables", "cleaned", "ready"}
\* What a TcpStream does next: answer, fail with ConnectionReset, or fail with
\* an error of another kind (as it does ever after).
Streams     == {"none", "open", "reset", "dead"}
Looping     == {"top", "ping", "send"}
Closing     == {"closing", "closed"}
ThreadSteps == {"none", "spawned", "connect", "ended", "panicked"} \cup Looping \cup Closing
LearnSteps  == {"idle", "loaded", "persisted", "replied"}

VARIABLES
    process,       \* the main process, by what setup_socket_client did last
    running,       \* CLIENT_IS_RUNNING
    connected,     \* CLIENT_IS_CONNECTED
    handlerSet,    \* the process has its handler of Ctrl-C
    main,          \* the call of initialize_socket_client that has not returned
    pc,            \* per call: what the thread it spawned does next
    stream,        \* per call: the stream of its thread
    batch,         \* per call: the rows its thread listed and has not sent
    up, down,      \* the two command tables
    stored,        \* the row of ClientStates
    learning,      \* the transposer, inside handle_direct_function
    learnOffer,    \* the offer it handles, if any
    learnCopy,     \* the state it loaded
    settingCallbacks,  \* set_client_callbacks is between its load and its update
    callbackCopy,  \* the state it loaded
    offered,       \* the offers that were sent so far
    answered,      \* the host has answered a registration since the setup (history)
    overlap,       \* the copies of the state overlap in time (history)
    calls, breaks, crashes

flags    == <<running, connected>>
threads  == <<handlerSet, main, pc, stream, batch>>
tables   == <<up, down>>
learner  == <<learning, learnOffer, learnCopy>>
caller   == <<settingCallbacks, callbackCopy, overlap, calls>>
history  == <<offered, answered>>
bounds   == <<breaks, crashes>>
vars == <<process, running, connected, handlerSet, main, pc, stream, batch, up, down,
          stored, learning, learnOffer, learnCopy, settingCallbacks, callbackCopy, offered,
          answered, overlap, calls, breaks, crashes>>

TypeOK ==
    /\ process \in Processes
    /\ running \in BOOLEAN /\ connected \in BOOLEAN /\ handlerSet \in BOOLEAN
    /\ main \in Starts \cup {NoStart}
    /\ pc \in [Starts -> ThreadSteps]
    /\ stream \in [Starts -> Streams]
    /\ batch \in [Starts -> SUBSET Rows]
    /\ up \in SUBSET Rows
    /\ down \in SUBSET Offers
    /\ stored \in State \cup {NoState}
    /\ learning \in LearnSteps
    /\ learnOffer \in SUBSET Offers
    /\ learnCopy \in State
    /\ settingCallbacks \in BOOLEAN
    /\ callbackCopy \in State
    /\ offered \in SUBSET Offers
    /\ answered \in BOOLEAN /\ overlap \in BOOLEAN
    /\ calls \in 0..MaxCalls
    /\ breaks \in 0..MaxBreaks
    /\ crashes \in 0..MaxCrashes

Init ==
    /\ process = "down"
    /\ running = FALSE /\ connected = FALSE /\ handlerSet = FALSE
    /\ main = NoStart
    /\ pc = [s \in Starts |-> "none"]
    /\ stream = [s \in Starts |-> "none"]
    /\ batch = [s \in Starts |-> {}]
    /\ up = {} /\ down = {}
    /\ stored = NoState
    /\ learning = "idle" /\ learnOffer = {} /\ learnCopy = Fresh
    /\ settingCallbacks = FALSE /\ callbackCopy = Fresh
    /\ offered = {} /\ answered = FALSE /\ overlap = FALSE
    /\ calls = 0 /\ breaks = 0 /\ crashes = 0

At(s, step)   == pc[s] = step
Goto(s, step) == pc' = [pc EXCEPT ![s] = step]
-------------------------------------------------------------------------------
(* setup_socket_client of the main process, once in its life.              *)

\* initialize_client_buffer_tables: the command tables are dropped.
SetupTables ==
    /\ process = "down"
    /\ process' = "tables"
    /\ up' = {} /\ down' = {}
    /\ answered' = FALSE
    /\ UNCHANGED <<flags, threads, stored, learner, caller, offered, bounds>>

CleanStorage ==
    /\ process = "tables"
    /\ process' = "cleaned"
    /\ stored' = NoState
    /\ UNCHANGED <<flags, threads, tables, learner, caller, history, bounds>>

SaveStorage ==
    /\ process = "cleaned"
    /\ process' = "ready"
    /\ stored' = Fresh
    /\ UNCHANGED <<flags, threads, tables, learner, caller, history, bounds>>

\* UPDATE ClientStates: no row, no effect, and no error either.
update(state) == stored' = IF stored = NoState THEN NoState ELSE state

\* Mutant: the state is taken as it is, whether there is a row or not.
LoadCallbacksUnchecked ==
    /\ calls < MaxCalls /\ calls' = calls + 1
    /\ ~settingCallbacks
    /\ process # "down"
    /\ settingCallbacks' = TRUE
    /\ callbackCopy' = stored
    /\ overlap' = (learning = "loaded")
    /\ UNCHANGED <<process, flags, threads, tables, stored, learner, history, bounds>>

\* set_client_callbacks, by any thread of a process that is set up, and by one at
\* a time (CLIENT_STATE_MANAGER).  The load is unwrapped: without a row the
\* caller panics.
LoadCallbacks ==
    /\ calls < MaxCalls /\ calls' = calls + 1
    /\ ~settingCallbacks
    /\ process = "ready"
    /\ stored # NoState
    /\ settingCallbacks' = TRUE
    /\ callbackCopy' = stored
    /\ overlap' = (learning = "loaded")
    /\ UNCHANGED <<process, flags, threads, tables, stored, learner, history, bounds>>

SaveCallbacks ==
    /\ settingCallbacks
    /\ settingCallbacks' = FALSE
    /\ callbackCopy' = Fresh
    /\ overlap' = (overlap /\ learning = "loaded")
    /\ \/ update([callbackCopy EXCEPT !.handlers = TRUE])
       \/ UNCHANGED stored  \* the pool is empty, and the caller panics
    /\ UNCHANGED <<process, flags, threads, tables, learner, history, calls, bounds>>
-------------------------------------------------------------------------------
(* initialize_socket_client and the thread it spawns.                      *)

\* The calls are numbered in the order in which they are made.
Initialize(s) ==
    /\ process = "ready"
    /\ main = NoStart
    /\ At(s, "none")
    /\ \A t \in Starts : t < s => ~At(t, "none")
    /\ running' = TRUE
    /\ main' = s
    /\ Goto(s, "spawned")
    /\ UNCHANGED <<process, connected, handlerSet, stream, batch, tables, stored, learner,
                   caller, history, bounds>>

\* Mutant: the handler can be set again and again.
SetHandlerAgain(s) ==
    /\ At(s, "spawned")
    /\ handlerSet' = TRUE
    /\ Goto(s, "connect")
    /\ UNCHANGED <<process, flags, main, stream, batch, tables, stored, learner, caller,
                   history, bounds>>

\* ctrlc::set_handler refuses a second handler in one process, and expect()
\* ends the thread of a second start.
SetHandler(s) ==
    /\ At(s, "spawned")
    /\ handlerSet' = TRUE
    /\ Goto(s, IF handlerSet THEN "panicked" ELSE "connect")
    /\ UNCHANGED <<process, flags, main, stream, batch, tables, stored, learner, caller,
                   history, bounds>>

\* The loop of the main thread sees that the client is stopped.
MainReturns ==
    /\ main # NoStart
    /\ ~running
    /\ main' = NoStart
    /\ UNCHANGED <<process, flags, handlerSet, pc, stream, batch, tables, stored, learner,
                   caller, history, bounds>>

\* stop_socket_client, or Ctrl-C.
Stop ==
    /\ process = "ready" /\ running
    /\ running' = FALSE
    /\ UNCHANGED <<process, connected, threads, tables, stored, learner, caller,
                   history, bounds>>

\* connect and verify_connection, when the host is there and knows the client:
\* before the loop, or in it while CLIENT_IS_CONNECTED is off.  Otherwise the
\* thread tries again after 30 s, with nothing changed.
Connect(s) ==
    /\ \/ At(s, "connect")
       \/ At(s, "top") /\ running /\ ~connected
    /\ stream' = [stream EXCEPT ![s] = "open"]
    /\ connected' = TRUE
    /\ Goto(s, "top")
    /\ UNCHANGED <<process, running, handlerSet, main, batch, tables, stored, learner,
                   caller, history, bounds>>

\* Whatever TcpStream::connect fails with, but ConnectionRefused, is a panic.
ConnectPanics(s) ==
    /\ At(s, "connect") \/ (At(s, "top") /\ running /\ ~connected)
    /\ Goto(s, "panicked")
    /\ stream' = [stream EXCEPT ![s] = "none"]
    /\ UNCHANGED <<process, flags, handlerSet, main, batch, tables, stored, learner, caller,
                   history, bounds>>

\* Mutant: the loop does not look at CLIENT_IS_RUNNING before it lists.
ListWhenStopped(s) ==
    /\ At(s, "top") /\ connected
    /\ batch' = [batch EXCEPT ![s] = up]
    /\ Goto(s, IF up = {} THEN "ping" ELSE "send")
    /\ UNCHANGED <<process, flags, handlerSet, main, stream, tables, stored, learner, caller,
                   history, bounds>>

\* The top of the loop: buffer_up_list_schedule.
List(s) ==
    /\ At(s, "top") /\ running /\ connected
    /\ batch' = [batch EXCEPT ![s] = up]
    /\ Goto(s, IF up = {} THEN "ping" ELSE "send")
    /\ UNCHANGED <<process, flags, handlerSet, main, stream, tables, stored, learner, caller,
                   history, bounds>>

\* The network, or the host, ends a connection.
Break(s) ==
    /\ breaks < MaxBreaks
    /\ stream[s] = "open"
    /\ \E how \in {"reset", "dead"} : stream' = [stream EXCEPT ![s] = how]
    /\ breaks' = breaks + 1
    /\ UNCHANGED <<process, flags, handlerSet, main, pc, batch, tables, stored, learner,
                   caller, history, crashes>>

\* The flags and the stream after an exchange that failed: a reset leaves the
\* client running, every other error stops it.
ExchangeFails(s) ==
    /\ stream[s] # "open"
    /\ connected' = FALSE
    /\ running' = (running /\ stream[s] = "reset")
    /\ stream' = [stream EXCEPT ![s] = "dead"]

\* What the host sends with a reply: nothing of interest here, or an offer.
Reply ==
    \/ UNCHANGED <<down, offered>>
    \/ \E o \in Offers \ offered :
         /\ offered' = offered \cup {o}
         /\ down' = down \cup {o}

\* send_ping, when there is nothing to send.
Ping(s) ==
    /\ At(s, "ping")
    /\ \/ /\ stream[s] = "open"
          /\ Reply
          /\ Goto(s, "top")
          /\ UNCHANGED <<flags, stream>>
       \/ \* CommandStatus::Failure
          /\ stream[s] = "open"
          /\ running' = FALSE /\ connected' = FALSE
          /\ Goto(s, "top")
          /\ UNCHANGED <<stream, down, offered>>
       \/ /\ ExchangeFails(s)
          /\ Goto(s, IF stream[s] = "reset" THEN "top" ELSE "closing")
          /\ UNCHANGED <<down, offered>>
    /\ UNCHANGED <<process, handlerSet, main, batch, up, stored, learner, caller,
                   answered, bounds>>

\* The thread has done with a row of its batch.
Finished(s, r) ==
    /\ batch' = [batch EXCEPT ![s] = @ \ {r}]
    /\ Goto(s, IF batch[s] = {r} THEN "top" ELSE "send")

\* Mutant: a reset is reported as often as the stream is used.
SendAgain(s, r) ==
    /\ At(s, "send") /\ running /\ r \in batch[s]
    /\ \/ /\ stream[s] = "open"
          /\ up' = up \ {r}
          /\ answered' = (answered \/ r \in Offers)
          /\ Finished(s, r)
          /\ UNCHANGED <<flags, stream, down, offered>>
       \/ /\ stream[s] # "open"
          /\ connected' = FALSE
          /\ UNCHANGED <<running, pc, stream, batch, tables, offered, answered>>
    /\ UNCHANGED <<process, handlerSet, main, stored, learner, caller, bounds>>

\* One turn of the loop around send(): C210 or a Failure removes the row, any
\* other reply leaves it.  After a reset the same row is sent again on the same
\* stream, which now fails for good.
Send(s, r) ==
    /\ At(s, "send") /\ running /\ r \in batch[s]
    /\ \/ /\ stream[s] = "open"
          /\ up' = up \ {r}
          /\ answered' = (answered \/ r \in Offers)
          /\ Finished(s, r)
          /\ UNCHANGED <<flags, stream, down, offered>>
       \/ /\ stream[s] = "open"
          /\ up' = up \ {r}
          /\ answered' = (answered \/ r \in Offers)
          /\ running' = FALSE /\ connected' = FALSE
          /\ Finished(s, r)
          /\ UNCHANGED <<stream, down, offered>>
       \/ /\ stream[s] = "open"
          /\ Reply
          /\ Finished(s, r)
          /\ UNCHANGED <<flags, stream, up, answered>>
       \/ /\ ExchangeFails(s)
          /\ IF stream[s] = "reset" THEN UNCHANGED <<pc, batch>> ELSE Finished(s, r)
          /\ UNCHANGED <<tables, offered, answered>>
    /\ UNCHANGED <<process, handlerSet, main, stored, learner, caller, bounds>>

\* CLIENT_IS_RUNNING is off: the rest of the batch is left for another time ...
LeaveBatch(s) ==
    /\ At(s, "send") /\ ~running
    /\ batch' = [batch EXCEPT ![s] = {}]
    /\ Goto(s, "top")
    /\ UNCHANGED <<process, flags, handlerSet, main, stream, tables, stored, learner, caller,
                   history, bounds>>

\* ... and the loop ends.
SeeStop(s) ==
    /\ At(s, "top") /\ ~running
    /\ Goto(s, "closing")
    /\ stream' = [stream EXCEPT ![s] = "none"]
    /\ UNCHANGED <<process, flags, handlerSet, main, batch, tables, stored, learner, caller,
                   history, bounds>>

\* What is left of the thread clears one flag, then the other.
Close(s) ==
    \/ /\ At(s, "closing")
       /\ connected' = FALSE
       /\ stream' = [stream EXCEPT ![s] = "none"]
       /\ Goto(s, "closed")
       /\ UNCHANGED <<process, running, handlerSet, main, batch, tables, stored,
                      learner, caller, history, bounds>>
    \/ /\ At(s, "closed")
       /\ running' = FALSE
       /\ Goto(s, "ended")
       /\ UNCHANGED <<process, connected, handlerSet, main, stream, batch, tables, stored,
                      learner, caller, history, bounds>>
-------------------------------------------------------------------------------
(* handle_direct_function, in the transposer.                              *)

\* Mutant: the transposer begins with a new state.
LoadStateAfresh(o) ==
    /\ process = "ready"
    /\ learning = "idle" /\ o \in down
    /\ learning' = "loaded"
    /\ learnOffer' = {o}
    /\ learnCopy' = Fresh
    /\ overlap' = settingCallbacks
    /\ UNCHANGED <<process, flags, threads, tables, stored, settingCallbacks, callbackCopy,
                   calls, history, bounds>>

LoadState(o) ==
    /\ process = "ready"
    /\ learning = "idle" /\ o \in down
    /\ learning' = "loaded"
    /\ learnOffer' = {o}
    /\ learnCopy' = IF stored = NoState THEN Fresh ELSE stored
    /\ overlap' = settingCallbacks
    /\ UNCHANGED <<process, flags, threads, tables, stored, settingCallbacks, callbackCopy,
                   calls, history, bounds>>

\* update_schedule_with_this: the client is ready from here on.
Persist ==
    /\ learning = "loaded"
    /\ learning' = "persisted"
    /\ update([learnCopy EXCEPT !.learned = TRUE])
    /\ learnCopy' = Fresh
    /\ overlap' = (overlap /\ settingCallbacks)
    /\ UNCHANGED <<process, flags, threads, tables, learnOffer, settingCallbacks,
                   callbackCopy, calls, history, bounds>>

\* Mutant: the offer is removed before it is answered.
RemoveThenAnswer ==
    /\ learning = "persisted"
    /\ learning' = "replied"
    /\ down' = down \ learnOffer
    /\ UNCHANGED <<process, flags, threads, up, stored, learnOffer, learnCopy, caller,
                   history, bounds>>

\* The registration is put in the up table ...
Answer ==
    /\ learning = "persisted"
    /\ learning' = "replied"
    /\ up' = up \cup learnOffer
    /\ UNCHANGED <<process, flags, threads, down, stored, learnOffer, learnCopy, caller,
                   history, bounds>>

\* ... and only then the offer is removed from the down table.
RemoveOffer ==
    /\ learning = "replied"
    /\ learning' = "idle"
    /\ learnOffer' = {} /\ learnCopy' = Fresh
    /\ down' = down \ learnOffer
    /\ UNCHANGED <<process, flags, threads, up, stored, caller, history, bounds>>

\* A query finds no free connection in the pool, and is unwrapped.
LearnPanics ==
    /\ learning # "idle"
    /\ learning' = "idle"
    /\ learnOffer' = {} /\ learnCopy' = Fresh
    /\ overlap' = (overlap /\ settingCallbacks)
    /\ UNCHANGED <<process, flags, threads, tables, stored, settingCallbacks, callbackCopy,
                   calls, history, bounds>>
-------------------------------------------------------------------------------
(* client_send, in any instance of the library.                            *)

\* is_ready and is_sync, in the row of ClientStates.
Ready == stored # NoState /\ stored.learned

\* A user sends a command of this kind, again and again.  schedule reads the state
\* once more after is_client_ready, and its answer counts.  A command that either
\* of them refuses, or that has no such target or function, leaves no trace.
client_send(c) ==
    /\ Ready
    /\ up' = up \cup {c}
    /\ UNCHANGED <<process, flags, threads, down, stored, learner, caller, history, bounds>>
-------------------------------------------------------------------------------
\* The main process ends, in whatever way; the file of the buffer is left.
Crash ==
    /\ crashes < MaxCrashes
    /\ crashes' = crashes + 1
    /\ process # "down" /\ process' = "down"
    /\ running' = FALSE /\ connected' = FALSE /\ handlerSet' = FALSE
    /\ main' = NoStart
    /\ pc' = [s \in Starts |-> "none"]
    /\ stream' = [s \in Starts |-> "none"]
    /\ batch' = [s \in Starts |-> {}]
    /\ learning' = "idle" /\ learnOffer' = {} /\ learnCopy' = Fresh
    /\ settingCallbacks' = FALSE /\ callbackCopy' = Fresh /\ overlap' = FALSE /\ calls' = 0
    /\ UNCHANGED <<tables, stored, history, breaks>>

SetupStep == SetupTables \/ CleanStorage \/ SaveStorage

LoopStep(s) == List(s) \/ Ping(s) \/ LeaveBatch(s) \/ SeeStop(s) \/ \E r \in Rows : Send(s, r)

ThreadStep(s) ==
    \/ Initialize(s) \/ SetHandler(s)
    \/ Connect(s) \/ ConnectPanics(s)
    \/ LoopStep(s) \/ Close(s)

LearnStep == Persist \/ Answer \/ RemoveOffer \/ LearnPanics \/ \E o \in Offers : LoadState(o)

Next ==
    \/ SetupStep \/ LoadCallbacks \/ SaveCallbacks
    \/ \E s \in Starts : ThreadStep(s) \/ Break(s)
    \/ MainReturns \/ Stop \/ Crash
    \/ LearnStep
    \/ \E c \in Commands : client_send(c)

Spec == Init /\ [][Next]_vars

\* The threads of the client run.
FairSpec ==
    /\ Spec
    /\ \A s \in Starts : WF_vars(SetHandler(s) \/ LoopStep(s) \/ Close(s))

\* Moreover the host accepts a client that tries again and again.
ReachableSpec == FairSpec /\ \A s \in Starts : SF_vars(Connect(s))
-------------------------------------------------------------------------------
\* However often the client is stopped and started, and however long a thread
\* of an earlier start lives on, two threads never send the same rows: neither
\* the flags nor the end of initialize_socket_client prevent it, the handler of
\* Ctrl-C does.
OneLoop ==
    \A s, t \in Starts :
        pc[s] \in {"connect"} \cup Looping /\ pc[t] \in {"connect"} \cup Looping => s = t

\* A client that says it is ready has answered an offer, or will: its
\* registration was taken by the host, waits in the up table, or the offer is
\* still in the down table to be handled again; whatever panics, whoever sets
\* callbacks, and whatever an earlier process left behind.
ReadyRegisters ==
    process = "ready" /\ Ready => answered \/ up \cap Offers # {} \/ down # {}

\* A client whose connection is lost connects again, or is stopped, or its
\* thread panics: it does not keep using the connection that it lost.
Reconnects ==
    \A s \in Starts :
        (running /\ ~connected /\ pc[s] \in Looping)
            ~> (connected \/ ~running \/ At(s, "panicked"))

\* A stopped client leaves its loop unless it is started again, whatever the
\* host and the network do.
StopEnds ==
    \A s \in Starts :
        (~running /\ pc[s] \in Looping) ~> (running \/ pc[s] \notin Looping)

\* Once the client has learned the network, or has its handlers, nothing takes
\* that back while the process lives, although set_client_callbacks and the
\* transposer both write back a whole row that they read earlier, under locks of
\* their own: unless the two overlap in time, by whatever panics, crashes and
\* repetitions, neither undoes what the other wrote.  If they do overlap, one of
\* the two changes may be lost.
StateKept ==
    [][process = "ready" /\ process' = "ready" /\ ~overlap
        => /\ stored.learned => stored'.learned
           /\ stored.handlers => stored'.handlers]_vars
===============================================================================
