------------------------------- MODULE MCRail -------------------------------
(* The rail controller on a travel of three positions; over-travel is asked for. *)
EXTENDS RailTrack

MCRailMax  == 2
MCRequests == {0, 3}

=============================================================================
