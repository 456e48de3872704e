---------------------------- MODULE ClaimLedger ----------------------------
(***************************************************************************)
(* What the claims board promises its readers, free of journals, replays   *)
(* and processes: a ledger of claims whose ids are never reused and whose  *)
(* cards never change, the routing decisions recorded for each claim, and  *)
(* the claims a panel has verified.  A claim with a deterministic check is *)
(* never routed to a panel verdict, and only claims so routed are verified.*)
(***************************************************************************)
CONSTANTS Cards, Tier0Cards, Ids

VARIABLES
    ledger,    \* a function from the ids in use to their cards
    routes,    \* the pairs of a claim and a path recorded for it
    verified   \* the claims with a panel-verified verdict

ledgerVars == <<ledger, routes, verified>>

Empty == [claim \in {} |-> {}]

Init == ledger = Empty /\ routes = {} /\ verified = {}

Publish(claim, card) ==
    /\ claim \notin DOMAIN ledger
    /\ ledger' = [c \in DOMAIN ledger \cup {claim} |->
                     IF c = claim THEN card ELSE ledger[c]]
    /\ UNCHANGED <<routes, verified>>

Route(claim, path) ==
    /\ claim \in DOMAIN ledger
    /\ path = "tier2-verdict" => ledger[claim] \notin Tier0Cards
    /\ routes' = routes \cup {<<claim, path>>}
    /\ UNCHANGED <<ledger, verified>>

Verify(claim) ==
    /\ <<claim, "tier2-verdict">> \in routes
    /\ verified' = verified \cup {claim}
    /\ UNCHANGED <<ledger, routes>>

Next ==
    \E claim \in Ids :
        \/ \E card \in Cards : Publish(claim, card)
        \/ \E path \in {"tier0", "tier2-verdict", "tier2-advisory-only"} :
              Route(claim, path)
        \/ Verify(claim)

Spec == Init /\ [][Next]_ledgerVars
=============================================================================
