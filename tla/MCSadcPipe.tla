----------------------------- MODULE MCSadcPipe -----------------------------
(* Small instances of SadcPipe for TLC. *)
EXTENDS SadcPipe

\* A machine with two activities; files of other days may announce one of them
\* only, or both in another order.
MCLists == { << 1, 2 >>, << 2, 1 >>, << 2 >> }
OneList == { << 1, 2 >> }
=============================================================================
