---------------------------- MODULE EnhancedBuffer ----------------------------
(***************************************************************************)
(* The two SQLite tables every node keeps: ClientCommandsTosend ("up", the *)
(* commands and responses waiting to leave) and ClientCommandsReceived     *)
(* ("down", those waiting to be executed).  A table is the set of its rows *)
(* and every operator is one SQL statement, or one function of             *)
(* buffer_up_manager.rs / buffer_down_manager.rs.                          *)
(*                                                                         *)
(*   up row    [id, client, parity, kind, target]                          *)
(*   down row  [client, parity, kind]                                      *)
(*                                                                         *)
(* Ids of up rows are AUTOINCREMENT keys, so their order is the order in   *)
(* which SELECT returns them.  A down row needs no id: the parity id       *)
(* identifies it (buffer_down_schedule refuses a second one).              *)
(***************************************************************************)
EXTENDS Naturals

\* INSERT INTO ClientCommandsTosend: no check, duplicates are kept.
buffer_up_schedule(table, row) == table \cup {row}

buffer_up_list_schedule_fo_client_id(table, client) ==
    {r \in table : r.client = client}

buffer_up_get_scheduled_by_parity_id(table, client, parity) ==
    {r \in table : r.client = client /\ r.parity = parity}

\* TRUE when the parity id is NOT there, as in the code.
check_if_parity_id_is_registered(table, parity, client) ==
    \A r \in table : r.client = client => r.parity # parity

\* Mutant: the DELETE matches nothing.
buffer_up_remove_nothing(table, client, parity) == table

buffer_up_remove_schedule_by_parity_id(table, client, parity) ==
    {r \in table : ~(r.client = client /\ r.parity = parity)}

buffer_down_remove_schedule_by_parity_id(table, client, parity) ==
    {r \in table : ~(r.client = client /\ r.parity = parity)}

\* The insert happens only when no row of any client has the parity id.
buffer_down_schedule(table, row) ==
    IF \E r \in table : r.parity = row.parity THEN table ELSE table \cup {row}

\* Mutant: the newest row of the listing.
last_of(rows) == CHOOSE r \in rows : \A s \in rows : r.id >= s.id

\* schedule[0] of a listing: the row with the smallest id.
first_of(rows) == CHOOSE r \in rows : \A s \in rows : r.id <= s.id
===============================================================================
