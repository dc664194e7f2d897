---------------------------- MODULE MCBeamSearch ----------------------------
(***************************************************************************)
(* Small instances of BeamSearch for TLC.                                  *)
(***************************************************************************)
EXTENDS BeamSearch

CONSTANTS g1, g2

\* Every grouping of the tracks by genre; a low and a high mood, and taste scores that tie.
MCCatalogs ==
    {c \in [Tracks -> [genre : Genres, mood : {2, 8}, taste : {5, 6}]] : c[1].genre = g1}

\* Paths that rise and stay; one track, some, and more than the pool has.
MCRequests ==
    [start : {2}, target : {2, 8}, count : 1..Cardinality(Tracks), excluded : {{}, {2}, Tracks}]
=============================================================================
