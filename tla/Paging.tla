------------------------------- MODULE Paging -------------------------------
(***************************************************************************)
(* Cursor paging, as every list of the platform does it (libs/core:        *)
(* pagination.py and the list_... functions of the repositories): the rows *)
(* behind the cursor in the order of their key, at most limit of them, and *)
(* a cursor on the last one if the page is full.                           *)
(*                                                                         *)
(* Rows are their keys, positive numbers in the order of the ids or times  *)
(* they stand for; a page is a set of keys, for their order is known.      *)
(***************************************************************************)
EXTENDS Integers, FiniteSets, FiniteSetsExt

\* No cursor: the first page, or nothing behind this one.
Start == 0

End == -1

\* Mutant of Behind: the last row of a page again on the next one.
BehindOrAt(keys, cursor) == {k \in keys : k >= cursor}

Behind(keys, cursor) == {k \in keys : k > cursor}

\* Lists with the newest first run the other way.
Before(keys, cursor) == {k \in keys : cursor = Start \/ k < cursor}

Oldest(keys, limit) == {k \in keys : Cardinality({j \in keys : j < k}) < limit}

Newest(keys, limit) == {k \in keys : Cardinality({j \in keys : j > k}) < limit}

\* A page of keys and its next cursor, the last of the keys if there may be more.
PageUp(keys, cursor, limit) ==
    LET items == Oldest(Behind(keys, cursor), limit)
    IN  [items |-> items, next |-> IF Cardinality(items) = limit THEN Max(items) ELSE End]

PageDown(keys, cursor, limit) ==
    LET items == Newest(Before(keys, cursor), limit)
    IN  [items |-> items, next |-> IF Cardinality(items) = limit THEN Min(items) ELSE End]
=============================================================================
