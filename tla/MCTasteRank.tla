---------------------------- MODULE MCTasteRank ----------------------------
(***************************************************************************)
(* Small instances of TasteRank for TLC: six tracks.                       *)
(***************************************************************************)
EXTENDS TasteRank

CONSTANTS g1, g2, g3, a1, a2

MCCatalog(genres, tempos, artists) ==
    [t \in Tracks |-> [genre |-> genres[t], tempo |-> tempos[t], artist |-> artists[t]]]
MCRequest(strategies, limits, preferences, likes, exclusions, ids) ==
    [strategy : strategies, limit : limits, preferred : preferences, liked : likes,
     excluded : exclusions, ids : ids]

\* Feedback: two events of every type about any track; tempos near and far within a genre and
\* across, one artist or two; a stated like, a preferred genre, both or none.
FeedbackCatalogs ==
    {MCCatalog(<<g1, g1, g1, g2, g2, g2>>, <<60, 90, 180, 60, 180, 90>>, a) :
        a \in {<<a1, a1, a1, a1, a1, a1>>, <<a1, a2, a1, a2, a2, a1>>}}
FeedbackRequests == MCRequest({"taste"}, {1}, {{}, {g1}}, {{}, {2}}, {{}}, {{1, 2}})

\* Picks: one, two or three genres, and every strategy; one event or none.
PickCatalogs ==
    {MCCatalog(g, <<60, 180, 60, 180, 180, 60>>, [t \in Tracks |-> a1]) :
        g \in {<<g1, g1, g1, g1, g1, g1>>, <<g1, g1, g1, g1, g1, g2>>,
               <<g1, g2, g1, g2, g1, g2>>, <<g1, g1, g2, g2, g3, g3>>,
               <<g1, g1, g1, g2, g3, g3>>}}
PickRequests ==
    MCRequest(Strategies, {1, 3, 6}, {{}, {g1}}, {{}, 1..5}, {{}, {3, 4}}, {{1}})
        \cup MCRequest(Strategies, {1}, {{}}, {{}}, {Tracks}, {{}})

MCInputs ==
    [catalog : FeedbackCatalogs, request : FeedbackRequests]
        \cup [catalog : PickCatalogs, request : PickRequests]
=============================================================================
