------------------------------ MODULE ReadView ------------------------------
(***************************************************************************)
(* Read views (read0read.cc, read0read.inl): the transactions whose        *)
(* changes a consistent read or the purge sees.  Transactions are named by *)
(* their ids; 0 is the id of no transaction, and stands for a NULL creator *)
(* and, as the number of a transaction that has none yet, for              *)
(* ut_dulint_max.                                                          *)
(***************************************************************************)
EXTENDS Naturals, FiniteSets, FiniteSetsExt

\* trx_ids, kept in descending order in the code, is a set here.
View == [creator : Nat, lowNo : Nat, lowId : Nat, upId : Nat, ids : SUBSET Nat]

\* up_limit_id is the last of trx_ids.
UpLimit(ids, otherwise) == IF ids = {} THEN otherwise ELSE Min(ids)

\* Fault: transactions that commit have a number already, which is overlooked.
OpenNow_NoNumbers(creator, maxId, others) ==
    LET ids == {t.id : t \in others}
    IN  [creator |-> creator, lowNo |-> maxId, lowId |-> maxId,
         upId |-> UpLimit(ids, maxId), ids |-> ids]

\* read_view_open_now: others are the active transactions of trx_list without
\* the creator, as pairs of id and number.
OpenNow(creator, maxId, others) ==
    LET ids == {t.id : t \in others}
    IN  [creator |-> creator,
         lowNo   |-> Min({maxId} \cup {t.no : t \in {u \in others : u.no # 0}}),
         lowId   |-> maxId,
         upId    |-> UpLimit(ids, maxId),
         ids     |-> ids]

\* Fault: the creator is not entered into the copy.
OldestCopy_NoCreator(creator, old) == [old EXCEPT !.creator = creator]

\* read_view_oldest_copy_or_open_new with an oldest view: what its creator
\* wrote is not seen through the copy.
OldestCopy(creator, old) ==
    LET ids == old.ids \cup (IF old.creator # 0 THEN {old.creator} ELSE {})
    IN  [creator |-> creator,
         lowNo   |-> old.lowNo,
         lowId   |-> old.lowId,
         upId    |-> UpLimit(ids, old.upId),
         ids     |-> ids]

\* read_view_sees_trx_id
Sees(view, id) == id < view.upId \/ (id < view.lowId /\ id \notin view.ids)
=============================================================================
