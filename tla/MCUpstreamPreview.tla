------------------------- MODULE MCUpstreamPreview -------------------------
(***************************************************************************)
(* Symmetry for UpstreamPreview.                                           *)
(***************************************************************************)
EXTENDS UpstreamPreview, TLC

PreviewSymmetry ==
    Permutations(Channels) \cup Permutations(Changes) \cup Permutations(Slots)

============================================================================
