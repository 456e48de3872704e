--------------------------- MODULE MCEngineBoard ---------------------------
(* Small instances of EngineBoard for TLC. *)
EXTENDS EngineBoard, TLC

CONSTANTS p1, p2, identity, limit, mixed, fa, fb, fu

(* A card Tier 0 checks, one it does not, and one it does not although it  *)
(* shares a tag with the first.                                            *)
MCCards      == {identity, limit, mixed}
MCTier0Cards == {identity}
MCTags       == {"algebraic-identity", "convergence-limit"}
MCTagsOf ==
    identity :> {"algebraic-identity"}
    @@ limit :> {}
    @@ mixed :> {"algebraic-identity", "convergence-limit"}

MCFamilies == {fa, fb, fu}

(* A sound preset, a single-family one and one padded with unknown models. *)
MCPresets == {{fa, fb}, {fa}, {fa, fu}}
MCOnePreset == {{fa, fb}}

(* Enough for serial commands: a caller from outside the preset or inside. *)
MCTwoFamilies == {fa, fu}
MCTwoPresets  == {{fa, fu}, {fa}}
MCTwoCards    == {identity, mixed}
MCTwoTagsOf   == [card \in MCTwoCards |-> MCTagsOf[card]]

MCOne == {p1}
MCTwo == {p1, p2}
MCSymmetry == Permutations(MCTwo)

MCBoardCard == {FromBoard}

Bounds(spawn, status, post, panel, kill) ==
    [spawn |-> spawn, status |-> status, post |-> post, panel |-> panel,
     kill |-> kill]

MCSerialLimit      == Bounds(2, 1, 2, 1, 1)
MCReliabilityLimit == Bounds(1, 0, 2, 5, 0)
MCConcurrentLimit  == Bounds(1, 0, 2, 2, 1)
MCUncheckedLimit   == Bounds(1, 0, 1, 2, 1)
=============================================================================
