---------------------------- MODULE MCMemoryStore ----------------------------
(***************************************************************************)
(* Small instances of MemoryStore for TLC.                                 *)
(***************************************************************************)
EXTENDS MemoryStore, TLC

\* Every track has a mood of its own, none of them a mood anybody asks for.
MCTrackMood == [t \in Tracks |-> [of |-> t]]
MCMoods == {MCTrackMood[t] : t \in Tracks} \cup StartMoods \cup TargetMoods \cup CheckInMoods

\* All files valid.
AllAudio == {Tracks}

\* The response is output only: no action reads it, so states that differ in it alone
\* have the same successors.
WithoutReply == <<records, events, checkIns, results, issued, expired, playable, workers>>

\* The rules never look at which track, event ID or worker it is.
Symmetry == Permutations(Tracks) \cup Permutations(ClientIds)
                \cup Permutations(EventIds \ ClientIds) \cup Permutations(Workers)
=============================================================================
