--------------------------- MODULE MC_Inventory ---------------------------
(* A source torrent and two support torrents on different trackers, pages  *)
(* of one torrent: all three make a list that is cut off after two pages,  *)
(* two a list with a page boundary to slip through.  A torrent may come to *)
(* be what another one is.                                                 *)
EXTENDS Inventory

Source ==
    [crossSeed |-> FALSE, upload |-> FALSE, watched |-> TRUE,
     folder |-> NoTracker, text |-> NoTracker, below |-> NoTracker]
OnA == [Source EXCEPT !.crossSeed = TRUE, !.folder = "A", !.text = "B"]
OnB == [Source EXCEPT !.upload = TRUE, !.text = "B", !.below = "A"]

MCPlaces == {Source, OnA, OnB}
MCPlaceOf == <<Source, OnA, OnB>>
===========================================================================
