------------------------------ MODULE MCRecords -------------------------------
(***************************************************************************)
(* Values of the constants of Records for TLC: a database set up in the    *)
(* first month of migration 009's partitions, and one set up after the     *)
(* last of them, so that its first run comes late.                         *)
(***************************************************************************)
EXTENDS Records

MCInstalled == {[year |-> 2026, month |-> 4], [year |-> 2026, month |-> 9]}
==============================================================================
