------------------------------- MODULE MCGen -------------------------------
(***************************************************************************)
(* GenVisitor, and GenExec beside it, for TLC.                             *)
(***************************************************************************)
EXTENDS GenExec
=============================================================================
