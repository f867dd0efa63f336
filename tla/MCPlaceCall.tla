---------------------------- MODULE MCPlaceCall ----------------------------
(* Instances of PlaceCall: both tracks, which nothing tells apart, or one. *)
EXTENDS PlaceCall, TLC
CONSTANTS video, audio
MCKinds == {video, audio}
Symm == Permutations(MCKinds)
=============================================================================
