-------------------------- MODULE ClientSessionProofs --------------------------
(***************************************************************************)
(* For any number of starts, commands, offers, broken connections and      *)
(* crashes: no two threads of a client are ever in its loop, and a client  *)
(* that says it is ready has registered or will.  The first holds because  *)
(* a thread gets past the handler of Ctrl-C only when no thread did before *)
(* (HandlerFirst).  The second because the row of an offer outlives all    *)
(* that is done for it (OfferInHand), and because no state that is written *)
(* back was read in the life of an earlier process (CopiesAreBacked).      *)
(* What the state has learned is undone only when two who write it back    *)
(* overlap: a copy that was alone all the time is the row (CopiesAreRows). *)
(***************************************************************************)
EXTENDS ClientSession, TLAPS

\* Whoever is past the handler has set it, and is the only one.
HandlerFirst ==
    /\ \A s \in Starts : pc[s] \in {"connect"} \cup Looping => handlerSet
    /\ OneLoop

\* A registration was answered, waits, or can be made again.
Backed == answered \/ up \cap Offers # {} \/ down # {}

\* The offer the transposer works on is in the down table, and is answered by
\* the time it is removed from there.
OfferInHand ==
    /\ learning # "idle" =>
         /\ process = "ready"
         /\ learnOffer # {} /\ learnOffer \subseteq down
    /\ learning = "replied" => answered \/ up \cap Offers # {}

\* The copy that set_client_callbacks will write back is one of this process, and was
\* ready only if the client had its registration.
CopiesAreBacked ==
    settingCallbacks => process = "ready" /\ (callbackCopy.learned => Backed)

RInv == TypeOK /\ OfferInHand /\ CopiesAreBacked /\ ReadyRegisters

\* The types and the threads, before the process is set up.
LEMMA SessionInit == Init => TypeOK /\ HandlerFirst
  <1> SUFFICES ASSUME Init PROVE TypeOK /\ HandlerFirst
    OBVIOUS
  <1> USE SessionAssumption DEF Init
  <1>1. /\ running \in BOOLEAN /\ connected \in BOOLEAN /\ handlerSet \in BOOLEAN
        /\ settingCallbacks \in BOOLEAN /\ answered \in BOOLEAN /\ overlap \in BOOLEAN
    OBVIOUS
  <1>2. learnCopy \in State /\ callbackCopy \in State
    BY DEF State, Fresh
  <1>3. pc \in [Starts -> ThreadSteps] /\ stream \in [Starts -> Streams]
    BY DEF ThreadSteps, Streams
  <1>4. process \in Processes /\ learning \in LearnSteps
    BY DEF Processes, LearnSteps
  <1>5. TypeOK
    BY <1>1, <1>2, <1>3, <1>4 DEF TypeOK
  <1>6. HandlerFirst
    BY DEF HandlerFirst, OneLoop, Looping
  <1> QED
    BY <1>5, <1>6

\* Every step keeps the variables in their types.
LEMMA TypeStep == TypeOK /\ [Next]_vars => TypeOK'
  <1> SUFFICES ASSUME TypeOK, [Next]_vars PROVE TypeOK'
    OBVIOUS
  <1> USE SessionAssumption DEF flags, threads, tables, learner, caller, history, bounds,
          TypeOK, Rows, State, Fresh, Processes, Streams, Looping, Closing, ThreadSteps, LearnSteps, At, Goto
  <1>1. ASSUME SetupTables PROVE TypeOK'
    <2>1. answered' \in BOOLEAN /\ process' \in Processes
      BY <1>1 DEF SetupTables
    <2> QED
      BY <1>1, <2>1 DEF SetupTables
  <1>2. ASSUME CleanStorage PROVE TypeOK'
    BY <1>2 DEF CleanStorage
  <1>3. ASSUME SaveStorage PROVE TypeOK'
    BY <1>3 DEF SaveStorage
  <1>4. ASSUME LoadCallbacks PROVE TypeOK'
    BY <1>4 DEF LoadCallbacks
  <1>5. ASSUME SaveCallbacks PROVE TypeOK'
    <2>1. [callbackCopy EXCEPT !.handlers = TRUE] \in State
      OBVIOUS
    <2>2. stored' \in State \cup {NoState}
      BY <1>5, <2>1 DEF SaveCallbacks, update
    <2>3. settingCallbacks' \in BOOLEAN
      BY <1>5 DEF SaveCallbacks
    <2> QED
      BY <1>5, <2>2, <2>3 DEF SaveCallbacks
  <1>6. ASSUME NEW s \in Starts, Initialize(s) PROVE TypeOK'
    BY <1>6 DEF Initialize
  <1>7. ASSUME NEW s \in Starts, SetHandler(s) PROVE TypeOK'
    BY <1>7 DEF SetHandler
  <1>8. ASSUME NEW s \in Starts, Connect(s) PROVE TypeOK'
    BY <1>8 DEF Connect
  <1>9. ASSUME NEW s \in Starts, ConnectPanics(s) PROVE TypeOK'
    BY <1>9 DEF ConnectPanics
  <1>10. ASSUME NEW s \in Starts, List(s) PROVE TypeOK'
    BY <1>10 DEF List
  <1>11. ASSUME NEW s \in Starts, Ping(s) PROVE TypeOK'
    <2>1. running' \in BOOLEAN /\ connected' \in BOOLEAN
      BY <1>11 DEF Ping, ExchangeFails
    <2>2. down' \in SUBSET Offers /\ offered' \in SUBSET Offers
      BY <1>11 DEF Ping, ExchangeFails, Reply
    <2>3. pc' \in [Starts -> ThreadSteps] /\ stream' \in [Starts -> Streams]
      BY <1>11 DEF Ping, ExchangeFails
    <2> QED
      BY <1>11, <2>1, <2>2, <2>3 DEF Ping
  <1>12. ASSUME NEW s \in Starts, NEW r \in Rows, Send(s, r) PROVE TypeOK'
    <2>1. running' \in BOOLEAN /\ connected' \in BOOLEAN /\ answered' \in BOOLEAN
      BY <1>12 DEF Send, ExchangeFails
    <2>2. up' \in SUBSET Rows /\ down' \in SUBSET Offers /\ offered' \in SUBSET Offers
      BY <1>12 DEF Send, ExchangeFails, Reply
    <2>3. stream' \in [Starts -> Streams]
      BY <1>12 DEF Send, ExchangeFails
    <2>4. pc' \in [Starts -> ThreadSteps] /\ batch' \in [Starts -> SUBSET Rows]
      <3>1. Finished(s, r) => /\ pc' \in [Starts -> ThreadSteps]
                              /\ batch' \in [Starts -> SUBSET Rows]
        BY DEF Finished
      <3>2. Finished(s, r) \/ UNCHANGED <<pc, batch>>
        BY <1>12 DEF Send
      <3> QED
        BY <3>1, <3>2
    <2> QED
      BY <1>12, <2>1, <2>2, <2>3, <2>4 DEF Send
  <1>13. ASSUME NEW s \in Starts, LeaveBatch(s) PROVE TypeOK'
    BY <1>13 DEF LeaveBatch
  <1>14. ASSUME NEW s \in Starts, SeeStop(s) PROVE TypeOK'
    BY <1>14 DEF SeeStop
  <1>15. ASSUME NEW s \in Starts, Close(s) PROVE TypeOK'
    <2>1. running' \in BOOLEAN /\ connected' \in BOOLEAN
      BY <1>15 DEF Close
    <2>2. pc' \in [Starts -> ThreadSteps]
      BY <1>15 DEF Close
    <2> QED
      BY <1>15, <2>1, <2>2 DEF Close
  <1>16. ASSUME NEW s \in Starts, Break(s) PROVE TypeOK'
    BY <1>16 DEF Break
  <1>17. ASSUME MainReturns PROVE TypeOK'
    BY <1>17 DEF MainReturns
  <1>18. ASSUME Stop PROVE TypeOK'
    <2>1. running' \in BOOLEAN
      BY <1>18 DEF Stop
    <2> QED
      BY <1>18, <2>1 DEF Stop
  <1>19. ASSUME Crash PROVE TypeOK'
    <2>1. settingCallbacks' \in BOOLEAN /\ overlap' \in BOOLEAN /\ running' \in BOOLEAN
          /\ connected' \in BOOLEAN /\ handlerSet' \in BOOLEAN
      BY <1>19 DEF Crash
    <2>2. crashes' \in 0..MaxCrashes
      BY <1>19 DEF Crash
    <2>3. learnCopy' \in State /\ learning' \in LearnSteps /\ process' \in Processes
      BY <1>19 DEF Crash
    <2> QED
      BY <1>19, <2>1, <2>2, <2>3 DEF Crash
  <1>20. ASSUME NEW o \in Offers, LoadState(o) PROVE TypeOK'
    BY <1>20 DEF LoadState
  <1>21. ASSUME Persist PROVE TypeOK'
    <2>1. [learnCopy EXCEPT !.learned = TRUE] \in State
      OBVIOUS
    <2>2. stored' \in State \cup {NoState}
      BY <1>21, <2>1 DEF Persist, update
    <2> QED
      BY <1>21, <2>2 DEF Persist
  <1>22. ASSUME Answer PROVE TypeOK'
    BY <1>22 DEF Answer
  <1>23. ASSUME RemoveOffer PROVE TypeOK'
    BY <1>23 DEF RemoveOffer
  <1>24. ASSUME LearnPanics PROVE TypeOK'
    BY <1>24 DEF LearnPanics
  <1>25. ASSUME NEW c \in Commands, client_send(c) PROVE TypeOK'
    BY <1>25 DEF client_send, Ready
  <1>26. CASE UNCHANGED vars
    BY <1>26 DEF vars
  <1> QED
    BY <1>1, <1>2, <1>3, <1>4, <1>5, <1>6, <1>7, <1>8, <1>9, <1>10, <1>11,
       <1>12, <1>13, <1>14, <1>15, <1>16, <1>17, <1>18, <1>19, <1>20, <1>21,
       <1>22, <1>23, <1>24, <1>25, <1>26
    DEF Next, SetupStep, ThreadStep, LoopStep, LearnStep

\* Every step leaves at most one thread past the handler.
LEMMA HandlerStep == TypeOK /\ HandlerFirst /\ [Next]_vars => HandlerFirst'
  <1> SUFFICES ASSUME TypeOK /\ HandlerFirst, [Next]_vars PROVE HandlerFirst'
    OBVIOUS
  <1> USE SessionAssumption DEF flags, threads, tables, learner, caller, history, bounds,
          TypeOK, HandlerFirst, OneLoop, Looping, Closing,
          ThreadSteps, At, Goto
  <1>1. ASSUME SetupTables PROVE HandlerFirst'
    BY <1>1 DEF SetupTables
  <1>2. ASSUME CleanStorage PROVE HandlerFirst'
    BY <1>2 DEF CleanStorage
  <1>3. ASSUME SaveStorage PROVE HandlerFirst'
    BY <1>3 DEF SaveStorage
  <1>4. ASSUME LoadCallbacks PROVE HandlerFirst'
    BY <1>4 DEF LoadCallbacks
  <1>5. ASSUME SaveCallbacks PROVE HandlerFirst'
    BY <1>5 DEF SaveCallbacks, update
  <1>6. ASSUME NEW s \in Starts, Initialize(s) PROVE HandlerFirst'
    BY <1>6 DEF Initialize
  <1>7. ASSUME NEW s \in Starts, SetHandler(s) PROVE HandlerFirst'
    BY <1>7 DEF SetHandler
  <1>8. ASSUME NEW s \in Starts, Connect(s) PROVE HandlerFirst'
    BY <1>8 DEF Connect
  <1>9. ASSUME NEW s \in Starts, ConnectPanics(s) PROVE HandlerFirst'
    BY <1>9 DEF ConnectPanics
  <1>10. ASSUME NEW s \in Starts, List(s) PROVE HandlerFirst'
    BY <1>10 DEF List
  <1>11. ASSUME NEW s \in Starts, Ping(s) PROVE HandlerFirst'
    BY <1>11 DEF Ping, ExchangeFails, Reply
  <1>12. ASSUME NEW s \in Starts, NEW r \in Rows, Send(s, r) PROVE HandlerFirst'
    <2>1. pc[s] = "send" /\ UNCHANGED handlerSet
      BY <1>12 DEF Send
    <2>2. \/ UNCHANGED pc
          \/ pc' = [pc EXCEPT ![s] = "top"]
          \/ pc' = [pc EXCEPT ![s] = "send"]
      BY <1>12 DEF Send, Finished
    <2> QED
      BY <2>1, <2>2
  <1>13. ASSUME NEW s \in Starts, LeaveBatch(s) PROVE HandlerFirst'
    BY <1>13 DEF LeaveBatch
  <1>14. ASSUME NEW s \in Starts, SeeStop(s) PROVE HandlerFirst'
    BY <1>14 DEF SeeStop
  <1>15. ASSUME NEW s \in Starts, Close(s) PROVE HandlerFirst'
    BY <1>15 DEF Close
  <1>16. ASSUME NEW s \in Starts, Break(s) PROVE HandlerFirst'
    BY <1>16 DEF Break
  <1>17. ASSUME MainReturns PROVE HandlerFirst'
    BY <1>17 DEF MainReturns
  <1>18. ASSUME Stop PROVE HandlerFirst'
    BY <1>18 DEF Stop
  <1>19. ASSUME Crash PROVE HandlerFirst'
    BY <1>19 DEF Crash
  <1>20. ASSUME NEW o \in Offers, LoadState(o) PROVE HandlerFirst'
    BY <1>20 DEF LoadState
  <1>21. ASSUME Persist PROVE HandlerFirst'
    BY <1>21 DEF Persist, update
  <1>22. ASSUME Answer PROVE HandlerFirst'
    BY <1>22 DEF Answer
  <1>23. ASSUME RemoveOffer PROVE HandlerFirst'
    BY <1>23 DEF RemoveOffer
  <1>24. ASSUME LearnPanics PROVE HandlerFirst'
    BY <1>24 DEF LearnPanics
  <1>25. ASSUME NEW c \in Commands, client_send(c) PROVE HandlerFirst'
    BY <1>25 DEF client_send, Ready
  <1>26. CASE UNCHANGED vars
    BY <1>26 DEF vars
  <1> QED
    BY <1>1, <1>2, <1>3, <1>4, <1>5, <1>6, <1>7, <1>8, <1>9, <1>10, <1>11,
       <1>12, <1>13, <1>14, <1>15, <1>16, <1>17, <1>18, <1>19, <1>20, <1>21,
       <1>22, <1>23, <1>24, <1>25, <1>26
    DEF Next, SetupStep, ThreadStep, LoopStep, LearnStep

\* Every step leaves a ready client with a registration.
LEMMA RegisterStep == RInv /\ TypeOK' /\ [Next]_vars => RInv'
  <1> SUFFICES ASSUME RInv /\ TypeOK', [Next]_vars PROVE RInv'
    OBVIOUS
  <1> USE SessionAssumption DEF flags, threads, tables, learner, caller, history, bounds,
          RInv, OfferInHand, CopiesAreBacked, Backed,
          ReadyRegisters, Ready, TypeOK, State, Fresh, Rows, Processes, LearnSteps, At, Goto
  <1>1. ASSUME SetupTables PROVE RInv'
    BY <1>1 DEF SetupTables
  <1>2. ASSUME CleanStorage PROVE RInv'
    BY <1>2 DEF CleanStorage
  <1>3. ASSUME SaveStorage PROVE RInv'
    BY <1>3 DEF SaveStorage
  <1>4. ASSUME LoadCallbacks PROVE RInv'
    BY <1>4 DEF LoadCallbacks
  <1>5. ASSUME SaveCallbacks PROVE RInv'
    BY <1>5 DEF SaveCallbacks, update
  <1>6. ASSUME NEW s \in Starts, Initialize(s) PROVE RInv'
    BY <1>6 DEF Initialize
  <1>7. ASSUME NEW s \in Starts, SetHandler(s) PROVE RInv'
    BY <1>7 DEF SetHandler
  <1>8. ASSUME NEW s \in Starts, Connect(s) PROVE RInv'
    BY <1>8 DEF Connect
  <1>9. ASSUME NEW s \in Starts, ConnectPanics(s) PROVE RInv'
    BY <1>9 DEF ConnectPanics
  <1>10. ASSUME NEW s \in Starts, List(s) PROVE RInv'
    BY <1>10 DEF List
  <1>11. ASSUME NEW s \in Starts, Ping(s) PROVE RInv'
    BY <1>11 DEF Ping, ExchangeFails, Reply
  <1>12. ASSUME NEW s \in Starts, NEW r \in Rows, Send(s, r) PROVE RInv'
    <2>1. /\ UNCHANGED <<process, stored, learner, caller>>
          /\ down \subseteq down'
      BY <1>12 DEF Send, Reply
    <2>2. answered => answered'
      BY <1>12 DEF Send
    <2>3. ASSUME NEW o \in up \cap Offers PROVE answered' \/ o \in up'
      BY <1>12, <2>3 DEF Send
    <2>4. TypeOK'
      OBVIOUS
    <2> QED
      BY <2>1, <2>2, <2>3, <2>4
  <1>13. ASSUME NEW s \in Starts, LeaveBatch(s) PROVE RInv'
    BY <1>13 DEF LeaveBatch
  <1>14. ASSUME NEW s \in Starts, SeeStop(s) PROVE RInv'
    BY <1>14 DEF SeeStop
  <1>15. ASSUME NEW s \in Starts, Close(s) PROVE RInv'
    BY <1>15 DEF Close
  <1>16. ASSUME NEW s \in Starts, Break(s) PROVE RInv'
    BY <1>16 DEF Break
  <1>17. ASSUME MainReturns PROVE RInv'
    BY <1>17 DEF MainReturns
  <1>18. ASSUME Stop PROVE RInv'
    BY <1>18 DEF Stop
  <1>19. ASSUME Crash PROVE RInv'
    BY <1>19 DEF Crash
  <1>20. ASSUME NEW o \in Offers, LoadState(o) PROVE RInv'
    BY <1>20 DEF LoadState
  <1>21. ASSUME Persist PROVE RInv'
    BY <1>21 DEF Persist, update
  <1>22. ASSUME Answer PROVE RInv'
    BY <1>22 DEF Answer
  <1>23. ASSUME RemoveOffer PROVE RInv'
    BY <1>23 DEF RemoveOffer
  <1>24. ASSUME LearnPanics PROVE RInv'
    BY <1>24 DEF LearnPanics
  <1>25. ASSUME NEW c \in Commands, client_send(c) PROVE RInv'
    BY <1>25 DEF client_send, Ready
  <1>26. CASE UNCHANGED vars
    BY <1>26 DEF vars
  <1> HIDE DEF RInv
  <1> QED
    BY <1>1, <1>2, <1>3, <1>4, <1>5, <1>6, <1>7, <1>8, <1>9, <1>10, <1>11,
       <1>12, <1>13, <1>14, <1>15, <1>16, <1>17, <1>18, <1>19, <1>20, <1>21,
       <1>22, <1>23, <1>24, <1>25, <1>26
    DEF Next, SetupStep, ThreadStep, LoopStep, LearnStep

\* The client session is well typed: flags, threads, tables, the persisted state
\* and its copies, for all starts and crashes.
THEOREM SessionTypeCorrect == Spec => []TypeOK
  BY SessionInit, TypeStep, PTL DEF Spec

\* Two threads of initialize_socket_client never run the loop side by side, so
\* that no row is sent by two of them.
THEOREM LoopIsAlone == Spec => []OneLoop
  <1>1. HandlerFirst => OneLoop
    BY DEF HandlerFirst
  <1> QED
    BY SessionInit, TypeStep, HandlerStep, <1>1, PTL DEF Spec

\* No client is ready for ever without the host hearing of its handlers, whoever
\* calls set_client_callbacks meanwhile.
THEOREM ReadyHasRegistration == Spec => []ReadyRegisters
  <1>1. Init => RInv
    BY SessionInit
    DEF Init, RInv, OfferInHand, CopiesAreBacked, ReadyRegisters, Backed
  <1>2. RInv /\ [Next]_vars => RInv'
    <2>1. TypeOK /\ [Next]_vars => TypeOK'
      BY TypeStep
    <2> QED
      BY <2>1, RegisterStep DEF RInv
  <1>3. RInv => ReadyRegisters
    BY DEF RInv
  <1> QED
    BY <1>1, <1>2, <1>3, PTL DEF Spec

-------------------------------------------------------------------------------
(* What the state has learned is kept.                                     *)

\* A copy that was alone since it was read is the row itself.
CopiesAreRows ==
    /\ process = "ready" => stored \in State
    /\ settingCallbacks \/ learning = "loaded" => process = "ready"
    /\ settingCallbacks /\ learning = "loaded" => overlap
    /\ settingCallbacks /\ ~overlap => callbackCopy = stored
    /\ learning = "loaded" /\ ~overlap => learnCopy = stored

\* What a step may do to the state of a process that is set up.
Keeps ==
    process = "ready" /\ process' = "ready" /\ ~overlap
        => /\ stored.learned => stored'.learned
           /\ stored.handlers => stored'.handlers

\* The steps of the threads leave the state and its copies alone.
LEMMA ThreadsLeaveState ==
    ASSUME NEW s \in Starts, ThreadStep(s)
    PROVE  UNCHANGED <<process, stored, learner, caller>>
<1>1. CASE Initialize(s) \/ SetHandler(s) \/ Connect(s) \/ ConnectPanics(s)
  BY <1>1 DEF Initialize, SetHandler, Connect, ConnectPanics
<1>2. CASE List(s) \/ Ping(s) \/ LeaveBatch(s) \/ SeeStop(s) \/ Close(s)
  BY <1>2 DEF List, Ping, LeaveBatch, SeeStop, Close
<1>3. CASE \E r \in Rows : Send(s, r)
  BY <1>3 DEF Send
<1> QED BY <1>1, <1>2, <1>3 DEF ThreadStep, LoopStep

LEMMA KeepStep ==
    ASSUME TypeOK, TypeOK', CopiesAreRows, [Next]_vars
    PROVE  CopiesAreRows' /\ Keeps
<1> USE DEF flags, threads, tables, learner, caller, history, bounds, State, Fresh, At, Goto,
        CopiesAreRows, Keeps
<1>1. CASE SetupStep
  <2>1. CASE SetupTables
    BY <2>1 DEF SetupTables
  <2>2. CASE CleanStorage
    BY <2>2 DEF CleanStorage
  <2>3. CASE SaveStorage
    BY <2>3 DEF SaveStorage
  <2> QED BY <1>1, <2>1, <2>2, <2>3 DEF SetupStep
<1>2. CASE LoadCallbacks
  BY <1>2 DEF LoadCallbacks
<1>3. CASE SaveCallbacks
  BY <1>3 DEF SaveCallbacks, update, TypeOK
<1>4. ASSUME NEW s \in Starts, ThreadStep(s) \/ Break(s)
      PROVE  CopiesAreRows' /\ Keeps
  BY <1>4, ThreadsLeaveState DEF Break
<1>5. CASE MainReturns \/ Stop \/ \E c \in Commands : client_send(c)
  BY <1>5 DEF MainReturns, Stop, client_send
<1>6. CASE Crash
  BY <1>6 DEF Crash
<1>7. ASSUME NEW o \in Offers, LoadState(o)
      PROVE  CopiesAreRows' /\ Keeps
  BY <1>7, SessionAssumption DEF LoadState
<1>8. CASE Persist
  BY <1>8 DEF Persist, update, TypeOK
<1>9. CASE Answer \/ RemoveOffer
  BY <1>9 DEF Answer, RemoveOffer
<1>10. CASE LearnPanics
  <2>1. settingCallbacks /\ ~overlap' => ~overlap
    BY <1>10 DEF LearnPanics
  <2>2. learning' = "idle" /\ UNCHANGED <<process, stored, settingCallbacks, callbackCopy>>
    BY <1>10 DEF LearnPanics
  <2> QED BY <2>1, <2>2
<1>11. CASE UNCHANGED vars
  BY <1>11 DEF vars
<1> QED BY <1>1, <1>2, <1>3, <1>4, <1>5, <1>6, <1>7, <1>8, <1>9, <1>10, <1>11 DEF Next, LearnStep

\* set_client_callbacks and the transposer both write back a whole row that they read
\* earlier, under locks of their own, in any thread and at any time: neither undoes what
\* the other wrote unless the two overlap.
THEOREM StateIsKept == Spec => StateKept
<1>1. Init => CopiesAreRows
  BY DEF Init, CopiesAreRows
<1>2. TypeOK /\ TypeOK' /\ CopiesAreRows /\ [Next]_vars => CopiesAreRows' /\ Keeps
  BY KeepStep
<1>3. Spec => []TypeOK
  BY SessionTypeCorrect
<1>4. Spec => []CopiesAreRows
  BY <1>1, <1>2, <1>3, PTL DEF Spec
<1>5. TypeOK /\ TypeOK' /\ CopiesAreRows /\ [Next]_vars
        => [process = "ready" /\ process' = "ready" /\ ~overlap
              => /\ stored.learned => stored'.learned
                 /\ stored.handlers => stored'.handlers]_vars
  BY <1>2 DEF Keeps
<1> QED BY <1>3, <1>4, <1>5, PTL DEF Spec, StateKept
===============================================================================
