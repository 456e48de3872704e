------------------------------ MODULE KillCheck ------------------------------
(***************************************************************************)
(* The deterministic search for a counterexample (killcheck/runner.py).    *)
(*                                                                         *)
(* A search runs its phases one after the other and looks at its time      *)
(* budget before and after each.  A candidate is evaluated again by other  *)
(* code before it refutes the claim.  What a phase computes is left open;  *)
(* a phase that raises counts as one that found nothing.  The runner adds  *)
(* no cost to its budget, so only the time budget can run out.             *)
(***************************************************************************)
EXTENDS Naturals

CONSTANTS
    PhaseCounts,   \* phases of a search: three, or two for a card about sets
    NoBudget       \* stands for budget_sec = None

ASSUME KillCheckAssumption ==
    /\ PhaseCounts \subseteq Nat \ {0}
    /\ NoBudget \notin Nat

VARIABLES
    search,   \* the locals of killcheck_card
    now       \* the clock

Budgets == Nat \cup {NoBudget}

NoSearch ==
    [pc |-> "none", phases |-> 0, ended |-> 0, found |-> FALSE, since |-> 0,
     budget |-> NoBudget, verdict |-> "none", exhausted |-> FALSE,
     suspect |-> FALSE]

\* A budget that started at a time is used up only when more time has passed.
Exceeded(budget, since, time) == budget # NoBudget /\ time - since > budget

Late == Exceeded(search.budget, search.since, now)

(***************************************************************************)
(* Behaviour                                                               *)
(***************************************************************************)
StartSearch(phases, budget) ==
    search' = [NoSearch EXCEPT !.pc = "check", !.phases = phases,
                               !.since = now, !.budget = budget]

\* Before a phase, and when none is left.
CheckBudget ==
    /\ search.pc = "check"
    /\ search' = [search EXCEPT !.pc = IF Late \/ search.ended = search.phases
                                       THEN "conclude" ELSE "phase"]

\* A phase ends; a candidate found too late is dropped.
EndPhase(found) ==
    /\ search.pc = "phase"
    /\ search' = [search EXCEPT
                    !.ended = @ + 1,
                    !.found = found,
                    !.pc = IF Late THEN "conclude"
                           ELSE IF found THEN "verify" ELSE "check"]

\* The other evaluation agrees, or the claim survives under suspicion.
Verify(agrees) ==
    /\ search.pc = "verify"
    /\ search' = [search EXCEPT !.pc = "done",
                                !.verdict = IF agrees THEN "REFUTED" ELSE "SURVIVED",
                                !.suspect = ~agrees]

\* Mutated form: the budget is not looked at again.
ConcludeUnchecked ==
    /\ search.pc = "conclude"
    /\ search' = [search EXCEPT !.pc = "done", !.verdict = "SURVIVED"]
\* No candidate is left.
Conclude ==
    /\ search.pc = "conclude"
    /\ search' = [search EXCEPT !.pc = "done", !.verdict = "SURVIVED",
                                !.exhausted = Late]

SearchStep ==
    \/ CheckBudget
    \/ \E found \in BOOLEAN : EndPhase(found)
    \/ \E agrees \in BOOLEAN : Verify(agrees)
    \/ Conclude

(***************************************************************************)
(* Properties                                                              *)
(***************************************************************************)
SearchTypeOK ==
    /\ now \in Nat
    /\ search \in [pc : {"none", "check", "phase", "verify", "conclude", "done"},
                   phases : PhaseCounts \cup {0}, ended : Nat, found : BOOLEAN,
                   since : Nat, budget : Budgets,
                   verdict : {"none", "REFUTED", "SURVIVED"},
                   exhausted : BOOLEAN, suspect : BOOLEAN]

\* A claim that survives without a caveat (runner.py:177: neither
\* budget_exhausted nor suspect) was searched by every phase, none of which
\* found a candidate.  In particular a budget that runs out during the phase
\* that finds a counterexample (runner.py:112) is always reported.
SurvivalIsExplained ==
    search.verdict = "SURVIVED" /\ ~search.exhausted /\ ~search.suspect =>
        search.ended = search.phases /\ ~search.found
=============================================================================
