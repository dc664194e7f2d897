------------------------------ MODULE MCPlayer ------------------------------
(***************************************************************************)
(* Small instances of Player for TLC.                                      *)
(***************************************************************************)
EXTENDS Player

CONSTANTS t1, t2, t3

MCFirstQueue == <<t1, t2>>
=============================================================================
