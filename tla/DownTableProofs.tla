---------------------------- MODULE DownTableProofs ----------------------------
(***************************************************************************)
(* For any number of waiting threads, any size of the pool and any number  *)
(* of rows and setups: a thread panics for want of a connection only when  *)
(* as many as a pool has are in use or were closed, and for want of the    *)
(* table only while another instance is set up (NoneLost, Prepared); the   *)
(* transposer takes away no response that a thread waits for, because what *)
(* it listed has, in this table, the ids that it listed (Listed); and no   *)
(* parity id is in the table twice (Fresh).                                *)
(***************************************************************************)
EXTENDS DownTable, FiniteSetTheorems, TLAPS

\* The connections of the last pool are in it, in use, or closed by a panic; more
\* of them are there when some were in use while the pool was made.
NoneLost == setups > 0 => idle + Cardinality(holds) + lost >= Size

\* Without a table nobody works, unless another instance makes it anew.
Prepared ==
    /\ setups = 0 => pc[Installer] = "idle" /\ ~table
    /\ ~table =>
          \/ At(Installer, "create")
          \/ /\ \A t \in Threads \ {Installer} : At(t, "idle")
             /\ setups = 0 \/ (setups = 1 /\ pc[Installer] \in {"drop", "panicked"})
    /\ pc[Installer] \in {"idle", "drop", "create", "panicked"}

\* The ids that the transposer has listed stand for rows of its kind.
Listed ==
    /\ work # {} => pc[Transposer] \in {"process", "purge", "panicked"}
    /\ \A r \in rows : r.id < nextId
    /\ \A r, q \in rows : r.id = q.id => r = q
    /\ ~stale =>
          /\ \A id \in work : id < nextId
          /\ \A r \in rows : r.id \in work =>
                /\ At(Transposer, "process") => r.parity \in Commands
                /\ At(Transposer, "purge") => r.old

\* The Receiver holds one parity id at a time.
Loaded == \A p, q \in arriving : p = q

\* What the Receiver is about to insert is still not in the table.
Fresh == At(Receiver, "insert") => \A p \in arriving : ~Waiting(p)

DInv == Loaded /\ TypeOK /\ NoneLost /\ Prepared /\ Listed /\ Fresh /\ OneRow

LEMMA HoldersFinite == ASSUME TypeOK PROVE IsFiniteSet(holds) /\ Cardinality(holds) \in Nat
  <1>1. IsFiniteSet(((Watchers \cup {Receiver}) \cup {Transposer}) \cup {Installer})
    BY DownTableAssumption, FS_AddElement
  <1>2. IsFiniteSet(Threads)
    <2>1. Threads = ((Watchers \cup {Receiver}) \cup {Transposer}) \cup {Installer}
      BY DEF Threads
    <2> QED
      BY <1>1, <2>1
  <1> QED
    BY <1>2, FS_Subset, FS_CardinalityType DEF TypeOK

LEMMA DownTableInit == Init => DInv
  <1> SUFFICES ASSUME Init PROVE DInv
    OBVIOUS
  <1> USE DownTableAssumption DEF Init
  <1>1. TypeOK
    <2>1. pc \in [Threads -> Steps]
      BY DEF Steps
    <2>2. table \in BOOLEAN /\ stale \in BOOLEAN
      OBVIOUS
    <2>3. setups \in Nat /\ idle \in Nat /\ lost \in Nat /\ nextId \in Nat \ {0}
      OBVIOUS
    <2>4. /\ holds \subseteq Threads /\ rows \subseteq Row /\ arriving \subseteq Parity
          /\ work \subseteq Nat /\ expired \subseteq Watchers
      OBVIOUS
    <2> QED
      BY <2>1, <2>2, <2>3, <2>4 DEF TypeOK
  <1> QED
    BY <1>1 DEF DInv, Loaded, NoneLost, Prepared, Listed, Fresh, OneRow, At, Threads

\* Every step keeps the variables in their types.
LEMMA DownTypeStep == TypeOK /\ [Next]_vars => TypeOK'
  <1> SUFFICES ASSUME TypeOK, [Next]_vars PROVE TypeOK'
    OBVIOUS
  <1> USE DownTableAssumption DEF TypeOK, pool, down, At, Goto, Threads, Steps, Queries,
        Selects, Row, Parity, Ids
  <1>1. ASSUME set_new_path_to_buffer_db PROVE TypeOK'
    BY <1>1 DEF set_new_path_to_buffer_db
  <1>2. ASSUME DropTable PROVE TypeOK'
    <2>1. stale' \in BOOLEAN /\ pc' \in [Threads -> Steps]
      BY <1>2 DEF DropTable
    <2>2. table' \in BOOLEAN
      BY <1>2 DEF DropTable
    <2>3. rows' \subseteq Row /\ nextId' \in Nat \ {0}
      BY <1>2 DEF DropTable
    <2>4. UNCHANGED <<pool, arriving, work, expired>>
      BY <1>2 DEF DropTable
    <2> QED
      BY <2>1, <2>2, <2>3, <2>4
  <1>3. ASSUME CreateTable PROVE TypeOK'
    BY <1>3 DEF CreateTable, release_connection
  <1>4. ASSUME Check PROVE TypeOK'
    BY <1>4 DEF Check, release_connection
  <1>5. ASSUME Insert PROVE TypeOK'
    <2>1. rows' \subseteq Row
      <3>1. \A p \in arriving : [id |-> nextId, parity |-> p, old |-> FALSE] \in Row
        OBVIOUS
      <3> HIDE DEF Row
      <3>2. rows' = rows \cup {[id |-> nextId, parity |-> p, old |-> FALSE] : p \in arriving}
        BY <1>5 DEF Insert
      <3>3. rows \subseteq Row
        OBVIOUS
      <3> QED
        BY <3>1, <3>2, <3>3
    <2>2. holds' \subseteq Threads /\ idle' \in Nat /\ UNCHANGED <<setups, lost>>
      BY <1>5 DEF Insert, release_connection
    <2>3. pc' \in [Threads -> Steps]
      BY <1>5 DEF Insert
    <2> QED
      BY <1>5, <2>1, <2>2, <2>3 DEF Insert
  <1>6. ASSUME NEW p \in Parity, Receive(p) PROVE TypeOK'
    BY <1>6 DEF Receive
  <1>7. ASSUME NEW r \in rows, Age(r) PROVE TypeOK'
    BY <1>7 DEF Age
  <1>8. ASSUME Activate PROVE TypeOK'
    BY <1>8 DEF Activate
  <1>9. ASSUME List PROVE TypeOK'
    <2>1. work' \subseteq Nat
      BY <1>9 DEF List, Schedule
    <2>2. holds' \subseteq Threads /\ idle' \in Nat /\ UNCHANGED <<setups, lost>>
      BY <1>9 DEF List, release_connection
    <2>3. pc' \in [Threads -> Steps]
      BY <1>9 DEF List
    <2> QED
      BY <1>9, <2>1, <2>2, <2>3 DEF List
  <1>10. ASSUME ListOld PROVE TypeOK'
    <2>1. work' \subseteq Nat
      BY <1>10 DEF ListOld
    <2>2. holds' \subseteq Threads /\ idle' \in Nat /\ UNCHANGED <<setups, lost>>
      BY <1>10 DEF ListOld, release_connection
    <2>3. pc' \in [Threads -> Steps]
      BY <1>10 DEF ListOld
    <2> QED
      BY <1>10, <2>1, <2>2, <2>3 DEF ListOld
  <1>11. ASSUME NEW id \in work, LeaveRow(id) PROVE TypeOK'
    BY <1>11 DEF LeaveRow, GoOn
  <1>12. ASSUME NEW id \in work, RemoveRow(id) PROVE TypeOK'
    <2>1. rows' \subseteq Row
      BY <1>12 DEF RemoveRow
    <2>2. holds' \subseteq Threads /\ idle' \in Nat /\ UNCHANGED <<setups, lost>>
      BY <1>12 DEF RemoveRow, release_connection
    <2>3. pc' \in [Threads -> Steps] /\ work' \subseteq Nat
      BY <1>12 DEF RemoveRow, GoOn
    <2>4. stale' \in BOOLEAN
      BY <1>12 DEF RemoveRow, GoOn
    <2> QED
      BY <1>12, <2>1, <2>2, <2>3, <2>4 DEF RemoveRow
  <1>13. ASSUME NEW t \in Threads, get_connection(t) PROVE TypeOK'
    BY <1>13 DEF get_connection
  <1>14. ASSUME NEW t \in Threads, Broken(t) PROVE TypeOK'
    BY <1>14 DEF Broken
  <1>15. ASSUME NEW w \in Watchers, Watch(w) PROVE TypeOK'
    BY <1>15 DEF Watch
  <1>16. ASSUME NEW w \in Watchers, Look(w) PROVE TypeOK'
    BY <1>16 DEF Look, release_connection
  <1>17. ASSUME NEW w \in Watchers, Judge(w) PROVE TypeOK'
    BY <1>17 DEF Judge
  <1>18. ASSUME NEW w \in Watchers, Expire(w) PROVE TypeOK'
    BY <1>18 DEF Expire
  <1>19. CASE UNCHANGED vars
    BY <1>19 DEF vars
  <1> QED
    BY <1>1, <1>2, <1>3, <1>4, <1>5, <1>6, <1>7, <1>8, <1>9, <1>10, <1>11, <1>12, <1>13, <1>14, <1>15, <1>16, <1>17, <1>18, <1>19 DEF Next

\* No step loses a connection, but by a panic that is counted.
LEMMA PoolStep == TypeOK /\ NoneLost /\ [Next]_vars => NoneLost'
  <1> SUFFICES ASSUME TypeOK, NoneLost, [Next]_vars PROVE NoneLost'
    OBVIOUS
  <1>a. IsFiniteSet(holds) /\ Cardinality(holds) \in Nat
    BY HoldersFinite
  <1>b. \A t \in holds : Cardinality(holds \ {t}) = Cardinality(holds) - 1
    BY <1>a, FS_RemoveElement
  <1>c. \A t : t \notin holds => Cardinality(holds \cup {t}) = Cardinality(holds) + 1
    BY <1>a, FS_AddElement
  <1> USE DownTableAssumption, <1>a, <1>b, <1>c DEF TypeOK, NoneLost, pool, down
  <1>1. ASSUME set_new_path_to_buffer_db PROVE NoneLost'
    BY <1>1 DEF set_new_path_to_buffer_db
  <1>2. ASSUME DropTable PROVE NoneLost'
    BY <1>2 DEF DropTable
  <1>3. ASSUME CreateTable PROVE NoneLost'
    BY <1>3 DEF CreateTable, release_connection
  <1>4. ASSUME Check PROVE NoneLost'
    BY <1>4 DEF Check, release_connection
  <1>5. ASSUME Insert PROVE NoneLost'
    BY <1>5 DEF Insert, release_connection
  <1>6. ASSUME NEW p \in Parity, Receive(p) PROVE NoneLost'
    BY <1>6 DEF Receive
  <1>7. ASSUME NEW r \in rows, Age(r) PROVE NoneLost'
    BY <1>7 DEF Age
  <1>8. ASSUME Activate PROVE NoneLost'
    BY <1>8 DEF Activate
  <1>9. ASSUME List PROVE NoneLost'
    BY <1>9 DEF List, release_connection, Schedule
  <1>10. ASSUME ListOld PROVE NoneLost'
    BY <1>10 DEF ListOld, release_connection
  <1>11. ASSUME NEW id \in work, LeaveRow(id) PROVE NoneLost'
    BY <1>11 DEF LeaveRow, GoOn
  <1>12. ASSUME NEW id \in work, RemoveRow(id) PROVE NoneLost'
    BY <1>12 DEF RemoveRow, GoOn, release_connection
  <1>13. ASSUME NEW t \in Threads, get_connection(t) PROVE NoneLost'
    BY <1>13 DEF get_connection
  <1>14. ASSUME NEW t \in Threads, Broken(t) PROVE NoneLost'
    BY <1>14 DEF Broken
  <1>15. ASSUME NEW w \in Watchers, Watch(w) PROVE NoneLost'
    BY <1>15 DEF Watch
  <1>16. ASSUME NEW w \in Watchers, Look(w) PROVE NoneLost'
    BY <1>16 DEF Look, release_connection
  <1>17. ASSUME NEW w \in Watchers, Judge(w) PROVE NoneLost'
    BY <1>17 DEF Judge
  <1>18. ASSUME NEW w \in Watchers, Expire(w) PROVE NoneLost'
    BY <1>18 DEF Expire
  <1>19. CASE UNCHANGED vars
    BY <1>19 DEF vars
  <1> QED
    BY <1>1, <1>2, <1>3, <1>4, <1>5, <1>6, <1>7, <1>8, <1>9, <1>10, <1>11, <1>12, <1>13, <1>14, <1>15, <1>16, <1>17, <1>18, <1>19 DEF Next

\* Only a setup takes the table away from the threads that work.
LEMMA PreparedStep == TypeOK /\ Prepared /\ [Next]_vars => Prepared'
  <1> SUFFICES ASSUME TypeOK, Prepared, [Next]_vars PROVE Prepared'
    OBVIOUS
  <1> USE DownTableAssumption DEF TypeOK, Prepared, pool, down, At, Goto,
        Threads, Installed, Queries, Selects
  <1>1. ASSUME set_new_path_to_buffer_db PROVE Prepared'
    BY <1>1 DEF set_new_path_to_buffer_db
  <1>2. ASSUME DropTable PROVE Prepared'
    BY <1>2 DEF DropTable
  <1>3. ASSUME CreateTable PROVE Prepared'
    BY <1>3 DEF CreateTable, release_connection
  <1>4. ASSUME Check PROVE Prepared'
    BY <1>4 DEF Check, release_connection
  <1>5. ASSUME Insert PROVE Prepared'
    BY <1>5 DEF Insert, release_connection
  <1>6. ASSUME NEW p \in Parity, Receive(p) PROVE Prepared'
    BY <1>6 DEF Receive
  <1>7. ASSUME NEW r \in rows, Age(r) PROVE Prepared'
    BY <1>7 DEF Age
  <1>8. ASSUME Activate PROVE Prepared'
    BY <1>8 DEF Activate
  <1>9. ASSUME List PROVE Prepared'
    BY <1>9 DEF List, release_connection, Schedule
  <1>10. ASSUME ListOld PROVE Prepared'
    BY <1>10 DEF ListOld, release_connection
  <1>11. ASSUME NEW id \in work, LeaveRow(id) PROVE Prepared'
    BY <1>11 DEF LeaveRow, GoOn
  <1>12. ASSUME NEW id \in work, RemoveRow(id) PROVE Prepared'
    BY <1>12 DEF RemoveRow, GoOn, release_connection
  <1>13. ASSUME NEW t \in Threads, get_connection(t) PROVE Prepared'
    BY <1>13 DEF get_connection
  <1>14. ASSUME NEW t \in Threads, Broken(t) PROVE Prepared'
    BY <1>14 DEF Broken
  <1>15. ASSUME NEW w \in Watchers, Watch(w) PROVE Prepared'
    BY <1>15 DEF Watch
  <1>16. ASSUME NEW w \in Watchers, Look(w) PROVE Prepared'
    BY <1>16 DEF Look, release_connection
  <1>17. ASSUME NEW w \in Watchers, Judge(w) PROVE Prepared'
    BY <1>17 DEF Judge
  <1>18. ASSUME NEW w \in Watchers, Expire(w) PROVE Prepared'
    BY <1>18 DEF Expire
  <1>19. CASE UNCHANGED vars
    BY <1>19 DEF vars
  <1> QED
    BY <1>1, <1>2, <1>3, <1>4, <1>5, <1>6, <1>7, <1>8, <1>9, <1>10, <1>11, <1>12, <1>13, <1>14, <1>15, <1>16, <1>17, <1>18, <1>19 DEF Next

\* The ids in the transposer's list keep their meaning.
LEMMA ListedStep == Loaded /\ TypeOK /\ Listed /\ [Next]_vars => Listed'
  <1> SUFFICES ASSUME Loaded, TypeOK, Listed, [Next]_vars PROVE Listed'
    OBVIOUS
  <1> USE DownTableAssumption DEF TypeOK, Listed, pool, down, At, Goto, Threads,
        Row, Ids, Queries, Selects
  <1>1. ASSUME set_new_path_to_buffer_db PROVE Listed'
    BY <1>1 DEF set_new_path_to_buffer_db
  <1>2. ASSUME DropTable PROVE Listed'
    BY <1>2 DEF DropTable
  <1>3. ASSUME CreateTable PROVE Listed'
    BY <1>3 DEF CreateTable, release_connection
  <1>4. ASSUME Check PROVE Listed'
    BY <1>4 DEF Check, release_connection
  <1>5. ASSUME Insert PROVE Listed'
    <2> DEFINE new == {[id |-> nextId, parity |-> p, old |-> FALSE] : p \in arriving}
    <2>1. /\ rows' = rows \cup new /\ nextId' = nextId + 1
          /\ pc'[Transposer] = pc[Transposer] /\ UNCHANGED <<work, stale>>
      BY <1>5 DEF Insert
    <2>2. \A r \in new : r.id = nextId
      OBVIOUS
    <2>3. ASSUME NEW r \in new, NEW q \in new PROVE r = q
      <3>1. PICK p \in arriving : r = [id |-> nextId, parity |-> p, old |-> FALSE]
        OBVIOUS
      <3>2. PICK o \in arriving : q = [id |-> nextId, parity |-> o, old |-> FALSE]
        OBVIOUS
      <3> QED
        BY <3>1, <3>2 DEF Loaded
    <2> HIDE DEF new
    <2>4. (\A r, q \in rows : r.id = q.id => r = q)'
      BY <2>1, <2>2, <2>3
    <2> QED
      BY <2>1, <2>2, <2>4
  <1>6. ASSUME NEW p \in Parity, Receive(p) PROVE Listed'
    BY <1>6 DEF Receive
  <1>7. ASSUME NEW r \in rows, Age(r) PROVE Listed'
    <2> DEFINE aged == [r EXCEPT !.old = TRUE]
    <2>1. aged.id = r.id /\ aged.parity = r.parity /\ aged.old
      OBVIOUS
    <2>2. rows' = (rows \ {r}) \cup {aged} /\ UNCHANGED <<nextId, pc, work, stale>>
      BY <1>7 DEF Age
    <2> HIDE DEF aged
    <2> QED
      BY <2>1, <2>2
  <1>8. ASSUME Activate PROVE Listed'
    BY <1>8 DEF Activate
  <1>9. ASSUME List PROVE Listed'
    <2>1. /\ rows' = rows /\ nextId' = nextId /\ stale' = FALSE
          /\ work' = Ids(Schedule)
          /\ pc'[Transposer] = IF work' = {} THEN "old" ELSE "process"
      BY <1>9 DEF List, Schedule
    <2>2. \A r \in rows : r.id \in work' => r.parity \in Commands
      BY <2>1 DEF Schedule
    <2>3. \A id \in work' : id < nextId
      BY <2>1 DEF Schedule
    <2> QED
      BY <2>1, <2>2, <2>3
  <1>10. ASSUME ListOld PROVE Listed'
    <2>1. /\ rows' = rows /\ nextId' = nextId /\ stale' = FALSE
          /\ work' = Ids({r \in rows : r.old})
          /\ pc'[Transposer] = IF work' = {} THEN "idle" ELSE "purge"
      BY <1>10 DEF ListOld
    <2>2. \A r \in rows : r.id \in work' => r.old
      BY <2>1
    <2>3. \A id \in work' : id < nextId
      BY <2>1
    <2> QED
      BY <2>1, <2>2, <2>3
  <1>11. ASSUME NEW id \in work, LeaveRow(id) PROVE Listed'
    BY <1>11 DEF LeaveRow, GoOn
  <1>12. ASSUME NEW id \in work, RemoveRow(id) PROVE Listed'
    BY <1>12 DEF RemoveRow, GoOn, release_connection
  <1>13. ASSUME NEW t \in Threads, get_connection(t) PROVE Listed'
    BY <1>13 DEF get_connection
  <1>14. ASSUME NEW t \in Threads, Broken(t) PROVE Listed'
    BY <1>14 DEF Broken
  <1>15. ASSUME NEW w \in Watchers, Watch(w) PROVE Listed'
    BY <1>15 DEF Watch
  <1>16. ASSUME NEW w \in Watchers, Look(w) PROVE Listed'
    BY <1>16 DEF Look, release_connection
  <1>17. ASSUME NEW w \in Watchers, Judge(w) PROVE Listed'
    BY <1>17 DEF Judge
  <1>18. ASSUME NEW w \in Watchers, Expire(w) PROVE Listed'
    BY <1>18 DEF Expire
  <1>19. CASE UNCHANGED vars
    BY <1>19 DEF vars
  <1> QED
    BY <1>1, <1>2, <1>3, <1>4, <1>5, <1>6, <1>7, <1>8, <1>9, <1>10, <1>11, <1>12, <1>13, <1>14, <1>15, <1>16, <1>17, <1>18, <1>19 DEF Next

\* Nobody but the Receiver inserts, between its check and its insert least of all.
LEMMA OneRowStep ==
    Loaded /\ TypeOK /\ Fresh /\ OneRow /\ [Next]_vars => Fresh' /\ OneRow'
  <1> SUFFICES ASSUME Loaded, TypeOK, Fresh, OneRow, [Next]_vars PROVE Fresh' /\ OneRow'
    OBVIOUS
  <1> USE DownTableAssumption DEF TypeOK, Fresh, OneRow, Waiting, pool, down, At, Threads
  <1>1. CASE Check
    BY <1>1 DEF Check, Goto
  <1>2. CASE Insert
    <2> DEFINE new == {[id |-> nextId, parity |-> p, old |-> FALSE] : p \in arriving}
    <2>1. rows' = rows \cup new /\ pc'[Receiver] = "idle"
      BY <1>2 DEF Insert, Goto, Steps
    <2>2. \A r \in new, q \in rows : r.parity # q.parity
      BY <1>2 DEF Insert
    <2>3. ASSUME NEW r \in new, NEW q \in new PROVE r = q
      <3>1. PICK p \in arriving : r = [id |-> nextId, parity |-> p, old |-> FALSE]
        OBVIOUS
      <3>2. PICK o \in arriving : q = [id |-> nextId, parity |-> o, old |-> FALSE]
        OBVIOUS
      <3> QED
        BY <3>1, <3>2 DEF Loaded
    <2> HIDE DEF new
    <2> QED
      BY <2>1, <2>2, <2>3
  <1>3. ASSUME NEW r \in rows, Age(r) PROVE Fresh' /\ OneRow'
    <2> DEFINE aged == [r EXCEPT !.old = TRUE]
    <2>1. aged.parity = r.parity
      BY DEF Row
    <2>2. rows' = (rows \ {r}) \cup {aged} /\ UNCHANGED <<pc, arriving>>
      BY <1>3 DEF Age
    <2> HIDE DEF aged
    <2> QED
      BY <2>1, <2>2
  <1>4. CASE DropTable
    BY <1>4 DEF DropTable, Goto
  <1>5. ASSUME NEW id \in work, RemoveRow(id) PROVE Fresh' /\ OneRow'
    BY <1>5 DEF RemoveRow, GoOn, Goto
  <1>6. CASE \E p \in Parity : Receive(p)
    BY <1>6 DEF Receive, Goto
  <1>7. CASE UNCHANGED rows /\ UNCHANGED arriving /\ (At(Receiver, "insert")' => At(Receiver, "insert"))
    BY <1>7
  <1>8. CASE \/ set_new_path_to_buffer_db \/ CreateTable
             \/ Activate \/ List \/ ListOld \/ \E id \in work : LeaveRow(id)
             \/ \E t \in Threads : get_connection(t) \/ Broken(t)
             \/ \E w \in Watchers : Watch(w) \/ Look(w) \/ Judge(w) \/ Expire(w)
             \/ UNCHANGED vars
    BY <1>7, <1>8 DEF set_new_path_to_buffer_db, CreateTable, Activate, List, ListOld, LeaveRow,
           GoOn, get_connection, Broken, Watch, Look, Judge, Expire, Goto, vars
  <1> QED
    BY <1>1, <1>2, <1>3, <1>4, <1>5, <1>6, <1>8 DEF Next

LEMMA DownTableInvariant == Spec => []DInv
  <1>1. DInv /\ [Next]_vars => Loaded'
    BY DEF DInv, Loaded, Next, vars, set_new_path_to_buffer_db, DropTable, CreateTable, Check,
           Insert, Receive, Age, Activate, List, ListOld, LeaveRow, RemoveRow, get_connection,
           Broken, Watch, Look, Judge, Expire
  <1>2. DInv /\ [Next]_vars => DInv'
    BY <1>1, DownTypeStep, PoolStep, PreparedStep, ListedStep, OneRowStep DEF DInv
  <1> QED
    BY <1>2, DownTableInit, PTL DEF Spec

\* Every variable keeps its type; the pool never gives out what it has not.
THEOREM DownTableTypeCorrect == Spec => []TypeOK
  <1>1. DInv => TypeOK
    BY DEF DInv
  <1> QED
    BY <1>1, DownTableInvariant, PTL

\* However many threads wait, a pool of Size connections fails a thread only when
\* Size of them are out, and the table only while an instance is set up.
THEOREM PanicsOnlyCrowded == Spec => DiesOnlyCrowded
  <1>1. ASSUME DInv, Next, NEW t \in Threads, pc'[t] = "panicked", pc[t] # "panicked"
        PROVE  IF t \in holds THEN At(Installer, "create")
                              ELSE Cardinality(holds) + lost >= Size
    <2> USE <1>1, DownTableAssumption DEF DInv, TypeOK, Threads
    <2>1. get_connection(t) \/ Broken(t)
      BY DEF Next, set_new_path_to_buffer_db, DropTable, CreateTable, Check, Insert, Receive,
             Age, Activate, List, ListOld, LeaveRow, RemoveRow, GoOn, get_connection, Broken,
             Watch, Look, Judge, Expire, Goto, At, down, Threads
    <2>2. CASE get_connection(t)
      <3>1. idle = 0 /\ t \notin holds
        BY <2>2 DEF get_connection
      <3>2. setups > 0
        BY <2>2 DEF get_connection, Prepared, Queries, Selects, At
      <3> QED
        BY <3>1, <3>2, HoldersFinite DEF NoneLost
    <2>3. CASE Broken(t)
      BY <2>3 DEF Broken, Prepared, Selects, At
    <2> QED
      BY <2>1, <2>2, <2>3
  <1>2. DInv /\ [Next]_vars =>
          [\A t \in Threads :
              At(t, "panicked")' /\ ~At(t, "panicked") =>
                  IF t \in holds THEN At(Installer, "create")
                                 ELSE Cardinality(holds) + lost >= Size]_vars
    BY <1>1 DEF At
  <1> QED
    BY <1>2, DownTableInvariant, PTL DEF Spec, DiesOnlyCrowded

\* Check and insert are two queries of one thread: no parity id is there twice.
THEOREM EachParityOneRow == Spec => []OneRow
  <1>1. DInv => OneRow
    BY DEF DInv
  <1> QED
    BY <1>1, DownTableInvariant, PTL

\* The transposer takes no response from the thread that waits for it.
THEOREM AwaitedResponsesStay == Spec => AwaitedStays
  <1>1. ASSUME DInv, Next, NEW r \in rows, r.parity \in Watchers, ~Waiting(r.parity)'
        PROVE  r.old \/ At(Installer, "drop") \/ stale
    <2> USE <1>1, DownTableAssumption DEF DInv, TypeOK, Waiting
    <2>1. r \notin rows' /\ \A q \in rows' : q.parity # r.parity
      OBVIOUS
    <2>a. CASE UNCHANGED rows
      BY <2>1, <2>a
    <2>b. ASSUME NEW q \in rows, Age(q) PROVE FALSE
      <3>1. [q EXCEPT !.old = TRUE].parity = q.parity
        BY DEF Row
      <3> QED
        BY <2>1, <2>b, <3>1 DEF Age
    <2>2. DropTable \/ \E id \in work : RemoveRow(id)
      BY <2>1, <2>a, <2>b DEF Next, set_new_path_to_buffer_db, CreateTable, Check, Insert,
             Receive, Activate, List, ListOld, LeaveRow, get_connection, Broken,
             Watch, Look, Judge, Expire, down, Row
    <2>3. CASE DropTable
      BY <2>3 DEF DropTable
    <2>4. ASSUME NEW id \in work, RemoveRow(id) PROVE r.old \/ stale
      <3>1. r.id = id /\ pc[Transposer] \in {"process", "purge"}
        BY <2>1, <2>4 DEF RemoveRow
      <3> QED
        BY <3>1 DEF Listed, At
    <2> QED
      BY <2>2, <2>3, <2>4
  <1>2. DInv /\ [Next]_vars =>
          [\A r \in rows :
              r.parity \in Watchers /\ ~Waiting(r.parity)' =>
                  r.old \/ At(Installer, "drop") \/ stale]_vars
    BY <1>1
  <1> QED
    BY <1>2, DownTableInvariant, PTL DEF Spec, AwaitedStays
===============================================================================
