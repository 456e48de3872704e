---------------------------- MODULE BoardJournal ----------------------------
(***************************************************************************)
(* The events of journal.jsonl that carry the claims board, and the pure   *)
(* folds by which every engine process rebuilds its state from them        *)
(* (worktree.py, claims.py, panel_service.py, reliability.py).             *)
(*                                                                         *)
(* A journal is a sequence of records, one per line of the file.  Ids are  *)
(* the numeric suffixes of wt_NNN and c_NNN.  Timestamps, prose and the    *)
(* llm_call, panel_advisory and lean_verified lines, which no fold below   *)
(* reads, are left out.                                                    *)
(***************************************************************************)
EXTENDS Naturals, Sequences, FiniteSets, FiniteSetsExt

CONSTANTS
    Cards,          \* the claim cards that worktrees post
    Tier0Cards,     \* those with a deterministic check (is_tier0_applicable)
    Tags,           \* claim_type tags
    TagsOf,         \* the claim_type of each card
    UnknownTag,     \* the tag "unknown" of a card without claim_type
    Families,       \* model families, the unknown bucket included
    UnknownFamily   \* "family:unknown", the bucket of unregistered models

ASSUME CardsAssumption ==
    /\ Tier0Cards \subseteq Cards
    /\ TagsOf \in [Cards -> SUBSET Tags]
    /\ UnknownTag \notin Tags
    \* no tag at all means no check: is_tier0_applicable's second test
    /\ \A card \in Tier0Cards : TagsOf[card] # {}
    /\ UnknownFamily \in Families

(***************************************************************************)
(* Events                                                                  *)
(***************************************************************************)
Statuses == {"running", "stalled", "waiting_on_user", "stopped_error",
             "panel-verified", "completed", "stopped_budget",
             "stopped_stalled"}

Paths == {"tier0", "tier2-verdict", "tier2-advisory-only"}

WorktreeSpawned(wt, family) ==
    [type |-> "worktree_spawned", worktree |-> wt, family |-> family]

StatusChanged(wt, status) ==
    [type |-> "worktree_status_changed", worktree |-> wt, status |-> status]

ClaimPosted(claim, wt, card) ==
    [type |-> "claim_posted", claim |-> claim, worktree |-> wt, card |-> card]

\* The kill-check's lines, check_executed to claim_refuted or claim_survived.
\* In the file they name no claim: the run_id of the process ties them to its
\* claim_posted line.  No fold below reads the outcome.
Tier0Checked(claim) == [type |-> "tier0_checked", claim |-> claim]

ClaimRouted(claim, path) ==
    [type |-> "claim_verification_routed", claim |-> claim, path |-> path]

PanelVerdict(claim, wt, path, caller, families) ==
    [type |-> "panel_verdict_issued", claim |-> claim, worktree |-> wt,
     path |-> path, caller |-> caller, families |-> families,
     verdict |-> CASE path = "tier2-verdict"       -> "panel-verified"
                   [] path = "tier2-advisory-only" -> "advisory-only"
                   [] path = "tier0"               -> "tier0-routed"]

(***************************************************************************)
(* Folds.  Lines(j, type) are the positions of the events of that type.    *)
(***************************************************************************)
Lines(j, type) == {i \in DOMAIN j : j[i].type = type}

Spawns(j)   == Lines(j, "worktree_spawned")
Posts(j)    == Lines(j, "claim_posted")
Routings(j) == Lines(j, "claim_verification_routed")
Verdicts(j) == Lines(j, "panel_verdict_issued")
Checks(j)   == Lines(j, "tier0_checked")

\* The latest spawn of an id wins in _records.
FamilyOf(j, wt) == j[Max({i \in Spawns(j) : j[i].worktree = wt})].family

WorktreeIds(j) == {j[i].worktree : i \in Spawns(j)}

PostedIds(j) == {j[i].claim : i \in Posts(j)}

\* Mutated form: the board only knows claims that were routed.
BoardIdsRouted(j) == {j[i].claim : i \in Routings(j)}
\* A claim routed but never posted keeps a stub on the board.
BoardIds(j) == PostedIds(j) \cup {j[i].claim : i \in Routings(j)}

CardOf(j, claim) == j[Max({i \in Posts(j) : j[i].claim = claim})].card

RoutingsOf(j, claim) == {i \in Routings(j) : j[i].claim = claim}

\* Mutated forms: the counter is not restored from the journal, or is read
\* before it is incremented.
NextIdNotRestored(ids) == 1
NextIdNotIncremented(ids) == Max(ids \cup {0})
\* Every process starts its counter at the highest id it read.
NextId(ids) == 1 + Max(ids \cup {0})

(***************************************************************************)
(* Reliability of a tag: panel calls on claims now carrying it             *)
(* (ReliabilityTable.from_journal, should_allow_tier2_verdict).            *)
(***************************************************************************)
ClaimTags(j, claim) ==
    IF claim \in PostedIds(j) /\ TagsOf[CardOf(j, claim)] # {}
    THEN TagsOf[CardOf(j, claim)]
    ELSE {UnknownTag}

PanelCalls(j, tag) == {i \in Verdicts(j) : tag \in ClaimTags(j, j[i].claim)}

MinPanelCalls == 3

\* verdict_rate < 0.5; perturbation audits are never journaled, so the
\* stable_rate of a table built from the journal is always 1.
LowReliability(j, tag) ==
    LET calls    == PanelCalls(j, tag)
        verified == {i \in calls : j[i].verdict = "panel-verified"}
    IN  /\ Cardinality(calls) >= MinPanelCalls
        /\ 2 * Cardinality(verified) < Cardinality(calls)

(***************************************************************************)
(* The authority rule of the panel (route_for_claim).                      *)
(***************************************************************************)
Tier0Applicable(card) == card \in Tier0Cards

Tier0Attempted(j, claim) ==
    \E i \in RoutingsOf(j, claim) : j[i].path = "tier0"

\* validate_preset: the unknown bucket counts as a family here.
PresetOk(preset) == Cardinality(preset) >= 2

\* Mutated form: the caller's own family may sit on the panel.
EligibleWithCaller(preset, caller) == preset \ {UnknownFamily}
Eligible(preset, caller) == preset \ {caller, UnknownFamily}

\* Mutated forms: the reliability feedback is dropped; a claim whose check was
\* not attempted falls through to the panel.
RouteUnreliable(j, claim, card, caller, preset) ==
    IF Tier0Applicable(card)
    THEN IF Tier0Attempted(j, claim) THEN "tier2-advisory-only" ELSE "tier0"
    ELSE IF PresetOk(preset) /\ Eligible(preset, caller) # {}
         THEN "tier2-verdict" ELSE "tier2-advisory-only"
RouteFallThrough(j, claim, card, caller, preset) ==
    IF Tier0Applicable(card) /\ Tier0Attempted(j, claim)
    THEN "tier2-advisory-only"
    ELSE IF PresetOk(preset) /\ Eligible(preset, caller) # {}
         THEN "tier2-verdict" ELSE "tier2-advisory-only"
RouteForClaim(j, claim, card, caller, preset) ==
    IF Tier0Applicable(card)
    THEN IF Tier0Attempted(j, claim) THEN "tier2-advisory-only" ELSE "tier0"
    ELSE IF /\ PresetOk(preset)
            /\ Eligible(preset, caller) # {}
            /\ \A tag \in TagsOf[card] : ~LowReliability(j, tag)
         THEN "tier2-verdict" ELSE "tier2-advisory-only"
=============================================================================
