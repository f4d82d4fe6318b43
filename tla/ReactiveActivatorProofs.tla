------------------------ MODULE ReactiveActivatorProofs ------------------------
(***************************************************************************)
(* For any number of producers: there is at most one transposer, no row is *)
(* handled twice, and a handle that is set has its thread.  The first two  *)
(* need more than they say.  A thread that is still alive, even after it   *)
(* has left its loop, owns the handle; and what it has yet to process of   *)
(* its listing is still in the table: no other thread removes rows.        *)
(***************************************************************************)
EXTENDS ReactiveActivator, TLAPS

\* The thread that is alive is the one the handle belongs to.
OwnsHandle == \A t \in Rows : Alive(t) => handle = t

\* The listing of a running thread is not stale.
ListingIsFresh == \A t \in Rows : worker[t] = "process" => schedule[t] \subseteq table

\* A row that is still to come, or still there, has not been handled; one that
\* is there is not to come again.
NotYetHandled ==
    \A r \in Rows :
        /\ handled[r] <= 1
        /\ r \in table => producer[r] # "schedule"
        /\ r \in table \/ producer[r] = "schedule" => handled[r] = 0

IInv == TypeOK /\ OwnsHandle /\ HandleIsLive /\ ListingIsFresh /\ NotYetHandled

\* The initial state of start() and its thread satisfies the invariant.
LEMMA IInvInit == Init => IInv
  <1> SUFFICES ASSUME Init PROVE IInv
    OBVIOUS
  <1> USE DEF Init
  <1>1. TypeOK
    BY DEF TypeOK, ProducerSteps, WorkerSteps
  <1>2. OwnsHandle /\ HandleIsLive /\ ListingIsFresh
    BY DEF OwnsHandle, HandleIsLive, ListingIsFresh, Alive
  <1>3. NotYetHandled
    <2>1. \A r \in Rows : handled[r] = 0 /\ handled[r] <= 1 /\ r \notin table
      <3> TAKE r \in Rows
      <3>1. handled[r] = 0
        OBVIOUS
      <3> QED
        BY <3>1
    <2> HIDE DEF Init
    <2> QED
      BY <2>1 DEF NotYetHandled
  <1> QED
    BY <1>1, <1>2, <1>3 DEF IInv

\* Every step of a producer or of a transposer thread keeps the invariant.
LEMMA IInvStep == IInv /\ [Next]_vars => IInv'
  <1> SUFFICES ASSUME IInv, [Next]_vars PROVE IInv'
    OBVIOUS
  <1> USE RowsAssumption DEF IInv, TypeOK, ProducerSteps, WorkerSteps, OwnsHandle,
          HandleIsLive, ListingIsFresh, NotYetHandled, Alive
  <1>1. ASSUME NEW r \in Rows, Schedule(r) PROVE IInv'
    BY <1>1 DEF Schedule
  <1>2. ASSUME NEW r \in Rows, Start(r) PROVE IInv'
    BY <1>2 DEF Start
  <1>3. ASSUME NEW t \in Rows, List(t) PROVE IInv'
    BY <1>3 DEF List
  <1>4. ASSUME NEW t \in Rows, NEW r \in Rows, Process(t, r) PROVE IInv'
    <2>1. TypeOK' /\ OwnsHandle' /\ HandleIsLive'
      BY <1>4 DEF Process
    <2>2. ListingIsFresh'
      BY <1>4 DEF Process
    <2>3. NotYetHandled'
      BY <1>4 DEF Process
    <2> QED
      BY <2>1, <2>2, <2>3
  <1>5. ASSUME NEW t \in Rows, Panic(t) PROVE IInv'
    BY <1>5 DEF Panic
  <1>6. ASSUME NEW t \in Rows, Condition(t) PROVE IInv'
    BY <1>6 DEF Condition
  <1>7. ASSUME NEW t \in Rows, Clear(t) PROVE IInv'
    BY <1>7 DEF Clear
  <1>8. CASE UNCHANGED vars
    BY <1>8 DEF vars
  <1> QED
    BY <1>1, <1>2, <1>3, <1>4, <1>5, <1>6, <1>7, <1>8 DEF Next

\* The invariant holds of every behaviour of producers and transposer.
LEMMA Invariant == Spec => []IInv
  BY IInvInit, IInvStep, PTL DEF Spec

\* Every variable keeps its type, however many producers there are.
THEOREM ActivatorTypeCorrect == Spec => []TypeOK
  <1>1. IInv => TypeOK
    BY DEF IInv
  <1> QED
    BY Invariant, <1>1, PTL

\* A handle that is set belongs to a thread that will clear it, or that panicked
\* inside action(): nothing else keeps start() from spawning a thread.
THEOREM HandleHasThread == Spec => []HandleIsLive
  <1>1. IInv => HandleIsLive
    BY DEF IInv
  <1> QED
    BY Invariant, <1>1, PTL

\* start() never lets two transposer threads run side by side, whatever the
\* order of the producers' inserts, their start() calls and the thread's last
\* steps.
THEOREM AtMostOneTransposer == Spec => []OneTransposer
  <1>1. IInv => OneTransposer
    BY DEF IInv, OwnsHandle, OneTransposer
  <1> QED
    BY Invariant, <1>1, PTL

\* No handler of a row runs to its end twice, although process() works through
\* a listing that was taken before and that it does not look at again.
THEOREM EachRowOnce == Spec => []HandledOnce
  <1>1. IInv => HandledOnce
    BY DEF IInv, NotYetHandled, HandledOnce
  <1> QED
    BY Invariant, <1>1, PTL
===============================================================================
