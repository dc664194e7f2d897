-------------------------- MODULE MCListeningClient --------------------------
(***************************************************************************)
(* A small instance of ListeningClient for TLC.                            *)
(***************************************************************************)
EXTENDS ListeningClient, MCMemoryStore

CONSTANT damaged

\* One file comes and goes.
MCAudio == {Tracks, Tracks \ {damaged}}
=============================================================================
