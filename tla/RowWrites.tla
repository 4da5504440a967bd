------------------------------ MODULE RowWrites ------------------------------
(***************************************************************************)
(* The ORM writes the columns a session changed, with the values the       *)
(* session computed, over whatever the row holds by then; a column that    *)
(* the session left as it read it is left alone.                           *)
(***************************************************************************)
Write(now, was, is) == IF is = was THEN now ELSE is
=============================================================================
