--------------------------- MODULE MCPostgresStore ---------------------------
(***************************************************************************)
(* Small instances of PostgresStore for TLC.                               *)
(***************************************************************************)
EXTENDS PostgresStore, TLC

\* Every track has a mood of its own, none of them a mood anybody asks for.
MCTrackMood == [t \in Tracks |-> [of |-> t]]
MCMoods == {MCTrackMood[t] : t \in Tracks} \cup StartMoods \cup TargetMoods \cup CheckInMoods

\* The catalog stays as it is, or may have lost any one track at a restart.
SameCatalog == {Tracks}
OneLost == {Tracks} \cup {Tracks \ {t} : t \in Tracks}

\* All files valid, or exactly one of them damaged.
AllAudio == {Tracks}
OneDamaged == {Tracks} \cup {Tracks \ {t} : t \in Tracks}

\* The response is output only: no action reads it.
WithoutReply == <<rows, expires, audit, checkIns, holder, requests, issued, clock, catalog>>

\* The rules compare tracks, event IDs and requests for equality only.
Symmetry == Permutations(Tracks) \cup Permutations(ClientIds)
                \cup Permutations(EventIds \ ClientIds) \cup Permutations(Handlers)
=============================================================================
