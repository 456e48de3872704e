------------------------- MODULE OrchestratorProofs -------------------------
(***************************************************************************)
(* Proofs about Orchestrator and the search of KillCheck that it runs, for *)
(* any number of worktrees, processes and phases and for all budgets.      *)
(***************************************************************************)
EXTENDS Orchestrator, Maxima, SequenceTheorems, FiniteSetTheorems

(***************************************************************************)
(* The search.  A candidate is held only while it is verified; a search    *)
(* concludes when all phases ended without one or the budget is used up,   *)
(* and a budget that is used up stays so.                                  *)
(***************************************************************************)
SearchInv ==
    /\ SearchTypeOK
    /\ search.pc \in {"none", "check", "phase", "verify", "conclude"} =>
         search.verdict = "none" /\ ~search.exhausted /\ ~search.suspect
    /\ search.pc \in {"check", "phase"} => ~search.found
    /\ search.pc = "conclude" =>
         Late \/ (search.ended = search.phases /\ ~search.found)
    /\ search.pc = "done" => SurvivalIsExplained

\* The idle search satisfies the invariant, and so does a fresh one.
LEMMA FreshSearch ==
    ASSUME now \in Nat
    PROVE  /\ search' = NoSearch /\ now' = now => SearchInv'
           /\ search = NoSearch => SearchInv
           /\ \A phases \in PhaseCounts, sec \in Budgets :
                StartSearch(phases, sec) /\ now' = now => SearchInv'
<1> USE KillCheckAssumption DEF SearchInv, SearchTypeOK, NoSearch, Budgets, Late,
        SurvivalIsExplained
<1>1. search' = NoSearch /\ now' = now => SearchInv'
  OBVIOUS
<1>2. search = NoSearch => SearchInv
  OBVIOUS
<1>3. ASSUME NEW phases \in PhaseCounts, NEW sec \in Budgets,
             StartSearch(phases, sec), now' = now
      PROVE  SearchInv'
  <2>1. search' = [pc |-> "check", phases |-> phases, ended |-> 0,
                   found |-> FALSE, since |-> now, budget |-> sec,
                   verdict |-> "none", exhausted |-> FALSE, suspect |-> FALSE]
    BY <1>3 DEF StartSearch
  <2> QED BY <1>3, <2>1
<1> QED BY <1>1, <1>2, <1>3

\* Every step of the search keeps the invariant.
LEMMA SearchStepInv ==
    ASSUME SearchInv, SearchStep, UNCHANGED now
    PROVE  SearchInv'
<1> USE DEF SearchInv, SearchTypeOK, Late, SurvivalIsExplained
<1>1. CASE CheckBudget
  BY <1>1 DEF CheckBudget
<1>2. CASE \E found \in BOOLEAN : EndPhase(found)
  <2>1. PICK found \in BOOLEAN : EndPhase(found)
    BY <1>2
  <2>2. /\ search.pc = "phase"
        /\ search' = [search EXCEPT
             !.ended = search.ended + 1, !.found = found,
             !.pc = IF Late THEN "conclude" ELSE IF found THEN "verify" ELSE "check"]
    BY <2>1 DEF EndPhase
  <2>3. /\ search'.ended = search.ended + 1 /\ search'.found = found
        /\ search'.verdict = search.verdict /\ search'.exhausted = search.exhausted
        /\ search'.suspect = search.suspect /\ search'.since = search.since
        /\ search'.budget = search.budget /\ search'.phases = search.phases
        /\ search'.pc = IF Late THEN "conclude" ELSE IF found THEN "verify" ELSE "check"
    BY <2>2
  <2>4. SearchTypeOK'
    <3>1. search.ended + 1 \in Nat
      OBVIOUS
    <3>2. (IF Late THEN "conclude" ELSE IF found THEN "verify" ELSE "check")
            \in {"conclude", "verify", "check"}
      OBVIOUS
    <3> HIDE DEF Late
    <3> QED BY <2>2, <3>1, <3>2, Zenon
  <2> QED BY <2>2, <2>3, <2>4
<1>3. CASE \E agrees \in BOOLEAN : Verify(agrees)
  <2>1. PICK agrees \in BOOLEAN : Verify(agrees)
    BY <1>3
  <2> QED BY <2>1 DEF Verify
<1>4. CASE Conclude
  <2>1. Late \in BOOLEAN
    BY DEF Exceeded
  <2>2. SearchTypeOK'
    <3> HIDE DEF Late
    <3> QED BY <1>4, <2>1, Zenon DEF Conclude
  <2>3. /\ search'.pc = "done" /\ search'.verdict = "SURVIVED"
        /\ search'.suspect = search.suspect /\ search'.found = search.found
        /\ search'.phases = search.phases /\ search'.ended = search.ended
        /\ search'.exhausted = Late
    <3> HIDE DEF Late
    <3> QED BY <1>4 DEF Conclude
  <2> HIDE DEF Late
  <2> QED BY <1>4, <2>1, <2>2, <2>3 DEF Conclude
<1> QED BY <1>1, <1>2, <1>3, <1>4 DEF SearchStep

\* The clock only makes it later.
LEMMA TickSearchInv ==
    ASSUME SearchInv, now' = now + 1, UNCHANGED search
    PROVE  SearchInv'
<1>1. now \in Nat /\ search.since \in Nat /\ search.budget \in Budgets
  BY DEF SearchInv, SearchTypeOK
<1>2. Late => Late'
  BY <1>1 DEF Late, Exceeded, Budgets
<1> QED
  BY <1>1, <1>2 DEF SearchInv, SearchTypeOK, SurvivalIsExplained

\* Every step of the orchestrator is a step of the search, a tick, a start,
\* or leaves the search alone or ends it.
LEMMA NextSearch ==
    ASSUME Next
    PROVE  \/ UNCHANGED <<search, now>>
           \/ search' = NoSearch /\ now' = now
           \/ SearchStep /\ now' = now
           \/ now' = now + 1 /\ UNCHANGED search
           \/ \E phases \in PhaseCounts, sec \in CallBudgets :
                StartSearch(phases, sec) /\ now' = now
BY DEF Next, Start, End, SpawnWorktree, CheckClaim, FinishClaim, CheckStalls,
       Tick, RecordProgress, SetStatus, RefuseClaim, PostClaim

\* The search keeps its invariant in every run of the orchestrator.
LEMMA SearchInvariant == Spec => []SearchInv
<1>1. Init => SearchInv
  BY FreshSearch DEF Init
<1>2. SearchInv /\ [Next]_vars => SearchInv'
  <2>1. SUFFICES ASSUME SearchInv, [Next]_vars PROVE SearchInv'
    OBVIOUS
  <2>2. CASE UNCHANGED <<search, now>>
    BY <2>1, <2>2 DEF SearchInv, SearchTypeOK, Late, SurvivalIsExplained
  <2>3. CASE Next
    <3>1. now \in Nat
      BY <2>1 DEF SearchInv, SearchTypeOK
    <3>2. CallBudgets \subseteq Budgets
      BY OrchestratorAssumption
    <3> QED
      BY <2>1, <2>2, <2>3, <3>1, <3>2, NextSearch, FreshSearch, SearchStepInv,
         TickSearchInv
  <2> QED BY <2>1, <2>2, <2>3 DEF vars
<1> QED BY <1>1, <1>2, PTL DEF Spec

\* A claim that survives without a caveat was searched by every phase.
THEOREM SurvivalExplained == Spec => []SurvivalIsExplained
<1>1. SearchInv => SurvivalIsExplained
  BY DEF SearchInv, SearchTypeOK, SurvivalIsExplained
<1> QED BY <1>1, SearchInvariant, PTL

(***************************************************************************)
(* The fold of a journal that grows by some lines.                         *)
(***************************************************************************)

\* The lines of a journal and of what is appended to it.
LEMMA Concatenated ==
    ASSUME NEW j \in Seq(LineType), NEW k \in Seq(LineType)
    PROVE  /\ j \o k \in Seq(LineType)
           /\ DOMAIN j = 1..Len(j) /\ Len(j) \in Nat
           /\ DOMAIN k = 1..Len(k) /\ Len(k) \in Nat
           /\ DOMAIN (j \o k) = 1..(Len(j) + Len(k))
           /\ \A i \in DOMAIN j : i \in DOMAIN (j \o k) /\ (j \o k)[i] = j[i]
           /\ \A i \in DOMAIN k : /\ Len(j) + i \in DOMAIN (j \o k)
                                 /\ (j \o k)[Len(j) + i] = k[i]
           /\ \A i \in DOMAIN (j \o k) :
                i \in DOMAIN j \/ (\E m \in DOMAIN k : i = Len(j) + m)
<1>1. /\ j \o k \in Seq(LineType) /\ Len(j \o k) = Len(j) + Len(k)
      /\ \A i \in 1..(Len(j) + Len(k)) :
           (j \o k)[i] = IF i <= Len(j) THEN j[i] ELSE k[i - Len(j)]
  BY ConcatProperties
<1>2. /\ DOMAIN j = 1..Len(j) /\ Len(j) \in Nat
      /\ DOMAIN k = 1..Len(k) /\ Len(k) \in Nat
      /\ DOMAIN (j \o k) = 1..(Len(j) + Len(k))
  BY <1>1, LenProperties
<1>3. \A i \in DOMAIN j : i \in DOMAIN (j \o k) /\ (j \o k)[i] = j[i]
  BY <1>1, <1>2
<1>4. \A i \in DOMAIN k : /\ Len(j) + i \in DOMAIN (j \o k)
                        /\ (j \o k)[Len(j) + i] = k[i]
  <2> SUFFICES ASSUME NEW i \in 1..Len(k)
               PROVE  /\ Len(j) + i \in 1..(Len(j) + Len(k))
                      /\ (j \o k)[Len(j) + i] = k[i]
    BY <1>2
  <2>1. /\ Len(j) + i \in 1..(Len(j) + Len(k)) /\ ~(Len(j) + i <= Len(j))
        /\ (Len(j) + i) - Len(j) = i
    BY <1>2
  <2> QED BY <2>1, <1>1
<1>5. \A i \in DOMAIN (j \o k) :
        i \in DOMAIN j \/ (\E m \in DOMAIN k : i = Len(j) + m)
  <2> SUFFICES ASSUME NEW i \in 1..(Len(j) + Len(k)), ~(i \in 1..Len(j))
               PROVE  \E m \in 1..Len(k) : i = Len(j) + m
    BY <1>2
  <2>1. i - Len(j) \in 1..Len(k) /\ i = Len(j) + (i - Len(j))
    BY <1>2
  <2> QED BY <2>1
<1> QED BY <1>1, <1>2, <1>3, <1>4, <1>5

\* A single line that is appended.
LEMMA Appended ==
    ASSUME NEW j \in Seq(LineType), NEW e \in LineType
    PROVE  /\ Append(j, e) = j \o <<e>> /\ <<e>> \in Seq(LineType)
           /\ DOMAIN <<e>> = {1} /\ <<e>>[1] = e
<1>1. /\ <<e>> \in Seq(LineType) /\ Len(<<e>>) = 1
      /\ DOMAIN <<e>> = {1} /\ <<e>>[1] = e
  OBVIOUS
<1>2. /\ Append(j, e) \in Seq(LineType) /\ Len(Append(j, e)) = Len(j) + 1
      /\ \A i \in 1..(Len(j) + 1) :
           Append(j, e)[i] = IF i = Len(j) + 1 THEN e ELSE j[i]
      /\ Len(j) \in Nat
  BY AppendProperties, LenProperties
<1>3. /\ j \o <<e>> \in Seq(LineType) /\ Len(j \o <<e>>) = Len(j) + 1
      /\ \A i \in 1..(Len(j) + 1) :
           (j \o <<e>>)[i] = IF i <= Len(j) THEN j[i] ELSE <<e>>[i - Len(j)]
  BY <1>1, ConcatProperties
<1>4. \A i \in 1..(Len(j) + 1) : Append(j, e)[i] = (j \o <<e>>)[i]
  <2> SUFFICES ASSUME NEW i \in 1..(Len(j) + 1)
               PROVE  Append(j, e)[i] = (j \o <<e>>)[i]
    OBVIOUS
  <2>1. CASE i = Len(j) + 1
    <3>1. ~(i <= Len(j)) /\ i - Len(j) = 1
      BY <2>1, <1>2
    <3> QED BY <2>1, <3>1, <1>1, <1>2, <1>3
  <2>2. CASE i # Len(j) + 1
    <3>1. i <= Len(j)
      BY <2>2, <1>2
    <3> QED BY <2>2, <3>1, <1>2, <1>3
  <2> QED BY <2>1, <2>2
<1>5. Append(j, e) = j \o <<e>>
  BY <1>2, <1>3, <1>4, SeqEqual
<1> QED BY <1>1, <1>5

\* Every worktree of a journal has a status line: its spawn.
HaveStatus(j) == \A wt \in Known(j) : StatusLinesOf(j, wt) # {}

\* Lines that may be appended: at most one status line for each worktree, and
\* one for each that is new.
Extends(j, k) ==
    /\ \A wt \in Known(k) : \A a, b \in StatusLinesOf(k, wt) : a = b
    /\ \A wt \in Known(k) : wt \in Known(j) \/ StatusLinesOf(k, wt) # {}

\* The status lines of a worktree in a longer journal.
LEMMA StatusLinesExtended ==
    ASSUME NEW j \in Seq(LineType), NEW k \in Seq(LineType), NEW wt
    PROVE  StatusLinesOf(j \o k, wt) =
             StatusLinesOf(j, wt) \cup {Len(j) + i : i \in StatusLinesOf(k, wt)}
<1>1. ASSUME NEW i \in StatusLinesOf(j \o k, wt)
      PROVE  i \in StatusLinesOf(j, wt) \cup {Len(j) + m : m \in StatusLinesOf(k, wt)}
  BY <1>1, Concatenated DEF StatusLinesOf, LinesOf
<1>2. ASSUME NEW i \in StatusLinesOf(j, wt)
      PROVE  i \in StatusLinesOf(j \o k, wt)
  BY <1>2, Concatenated DEF StatusLinesOf, LinesOf
<1>3. ASSUME NEW m \in StatusLinesOf(k, wt)
      PROVE  Len(j) + m \in StatusLinesOf(j \o k, wt)
  BY <1>3, Concatenated DEF StatusLinesOf, LinesOf
<1> QED BY <1>1, <1>2, <1>3

\* The worktrees of a longer journal.
LEMMA KnownExtended ==
    ASSUME NEW j \in Seq(LineType), NEW k \in Seq(LineType)
    PROVE  Known(j \o k) = Known(j) \cup Known(k)
<1>1. Known(j \o k) \subseteq Known(j) \cup Known(k)
  BY Concatenated DEF Known
<1>2. ASSUME NEW i \in DOMAIN j PROVE j[i].wt \in Known(j \o k)
  <2>1. i \in DOMAIN (j \o k) /\ (j \o k)[i] = j[i]
    BY Concatenated
  <2>2. j[i].wt = (j \o k)[i].wt
    BY <2>1
  <2> QED BY <2>1, <2>2, Zenon DEF Known
<1>3. ASSUME NEW i \in DOMAIN k PROVE k[i].wt \in Known(j \o k)
  <2>1. Len(j) + i \in DOMAIN (j \o k) /\ (j \o k)[Len(j) + i] = k[i]
    BY Concatenated
  <2>2. k[i].wt = (j \o k)[Len(j) + i].wt
    BY <2>1
  <2> QED BY <2>1, <2>2, Zenon DEF Known
<1>4. Known(j) \subseteq Known(j \o k) /\ Known(k) \subseteq Known(j \o k)
  BY <1>2, <1>3, Zenon DEF Known
<1> QED BY <1>1, <1>4

\* The fold of the longer journal: an appended status line counts, the status
\* of the other worktrees stays.
LEMMA FoldExtended ==
    ASSUME NEW j \in Seq(LineType), NEW k \in Seq(LineType),
           HaveStatus(j), Extends(j, k)
    PROVE  /\ HaveStatus(j \o k)
           /\ DOMAIN FoldStatus(j \o k) = Known(j) \cup Known(k)
           /\ \A wt \in Known(k) : \A i \in StatusLinesOf(k, wt) :
                FoldStatus(j \o k)[wt] = k[i].type
           /\ \A wt \in Known(j) : StatusLinesOf(k, wt) = {} =>
                FoldStatus(j \o k)[wt] = FoldStatus(j)[wt]
<1>1. HaveStatus(j \o k)
  <2> SUFFICES ASSUME NEW wt \in Known(j) \cup Known(k)
               PROVE  StatusLinesOf(j \o k, wt) # {}
    BY KnownExtended DEF HaveStatus
  <2>1. StatusLinesOf(j, wt) # {} \/ StatusLinesOf(k, wt) # {}
    BY DEF HaveStatus, Extends
  <2>2. StatusLinesOf(j \o k, wt) =
          StatusLinesOf(j, wt) \cup {Len(j) + i : i \in StatusLinesOf(k, wt)}
    BY StatusLinesExtended
  <2> QED BY <2>1, <2>2
<1>2. DOMAIN FoldStatus(j \o k) = Known(j) \cup Known(k)
  BY KnownExtended DEF FoldStatus
<1>3. ASSUME NEW wt \in Known(k), NEW i \in StatusLinesOf(k, wt)
      PROVE  FoldStatus(j \o k)[wt] = k[i].type
  <2> DEFINE S == StatusLinesOf(j \o k, wt)
  <2>1. i \in DOMAIN k /\ Len(j) + i \in S /\ Len(j) + i \in Nat
    BY StatusLinesExtended, Concatenated DEF StatusLinesOf, LinesOf
  <2>2. \A m \in S : m <= Len(j) + i /\ m \in Nat
    <3>1. \A m \in StatusLinesOf(k, wt) : m = i
      BY DEF Extends
    <3>2. \A m \in S : m \in StatusLinesOf(j, wt) \/ m = Len(j) + i
      BY <3>1, StatusLinesExtended
    <3>3. \A m \in StatusLinesOf(j, wt) : m \in 1..Len(j)
      BY Concatenated DEF StatusLinesOf, LinesOf
    <3>4. Len(j) \in Nat /\ i \in Nat
      BY <2>1, Concatenated
    <3>5. \A m \in 1..Len(j) : m <= Len(j) + i /\ m \in Nat
      BY <3>4
    <3>6. Len(j) + i <= Len(j) + i
      BY <3>4
    <3> HIDE DEF S
    <3> QED BY <3>2, <3>3, <3>5, <3>6, <2>1
  <2> HIDE DEF S
  <2>3. Max(S) \in S /\ Len(j) + i <= Max(S)
    <3>1. S \in SUBSET Nat /\ S # {} /\ \A m \in S : m <= Len(j) + i
      BY <2>1, <2>2
    <3> QED BY <2>1, <3>1, MaxInSet
  <2>4. Max(S) = Len(j) + i
    BY <2>1, <2>2, <2>3
  <2>5. (j \o k)[Len(j) + i] = k[i]
    BY <2>1, Concatenated
  <2> QED BY <2>4, <2>5, KnownExtended DEF FoldStatus, S
<1>4. ASSUME NEW wt \in Known(j), StatusLinesOf(k, wt) = {}
      PROVE  FoldStatus(j \o k)[wt] = FoldStatus(j)[wt]
  <2> DEFINE S == StatusLinesOf(j, wt)
  <2>1. StatusLinesOf(j \o k, wt) = S
    <3>1. StatusLinesOf(j \o k, wt) =
            StatusLinesOf(j, wt) \cup {Len(j) + i : i \in StatusLinesOf(k, wt)}
      BY StatusLinesExtended
    <3> QED BY <1>4, <3>1
  <2>2. S # {} /\ S \subseteq 1..Len(j) /\ Len(j) \in Nat
    BY Concatenated DEF HaveStatus, StatusLinesOf, LinesOf
  <2>3. Max(S) \in 1..Len(j)
    <3> HIDE DEF S
    <3>1. S \in SUBSET Nat /\ \A m \in S : m <= Len(j)
      BY <2>2
    <3> QED BY <2>2, <3>1, MaxInSet
  <2>4. (j \o k)[Max(S)] = j[Max(S)]
    BY <2>3, Concatenated
  <2>5. wt \in Known(j \o k)
    BY KnownExtended
  <2>6. FoldStatus(j \o k)[wt] = (j \o k)[Max(S)].type
    BY <2>1, <2>5 DEF FoldStatus
  <2>7. FoldStatus(j)[wt] = j[Max(S)].type
    BY DEF FoldStatus
  <2> QED BY <2>4, <2>6, <2>7
<1> QED BY <1>1, <1>2, <1>3, <1>4

\* One line is appended.
LEMMA FoldAppended ==
    ASSUME NEW j \in Seq(LineType), NEW e \in LineType, HaveStatus(j),
           \/ e.type \notin {"claim_posted", "claim_routed"}
           \/ e.wt \in Known(j)
    PROVE  /\ Append(j, e) \in Seq(LineType)
           /\ HaveStatus(Append(j, e))
           /\ Known(Append(j, e)) = Known(j) \cup {e.wt}
           /\ FoldStatus(Append(j, e)) =
                IF e.type \in {"claim_posted", "claim_routed"} THEN FoldStatus(j)
                ELSE Put(FoldStatus(j), e.wt, e.type)
<1> DEFINE k == <<e>>
<1>1. Append(j, e) = j \o k /\ k \in Seq(LineType) /\ DOMAIN k = {1} /\ k[1] = e
  BY Appended
<1> HIDE DEF k
<1>2. Known(k) = {e.wt}
  BY <1>1 DEF Known
<1>3. /\ \A wt : wt # e.wt => StatusLinesOf(k, wt) = {}
      /\ StatusLinesOf(k, e.wt) =
           IF e.type \in {"claim_posted", "claim_routed"} THEN {} ELSE {1}
  BY <1>1 DEF StatusLinesOf, LinesOf
<1>4. Extends(j, k)
  <2>1. \A a, b \in StatusLinesOf(k, e.wt) : a = b
    BY <1>3
  <2>2. e.wt \in Known(j) \/ StatusLinesOf(k, e.wt) # {}
    BY <1>3
  <2> QED BY <1>2, <2>1, <2>2 DEF Extends
<1>5. /\ HaveStatus(j \o k)
      /\ DOMAIN FoldStatus(j \o k) = Known(j) \cup {e.wt}
      /\ \A i \in StatusLinesOf(k, e.wt) : FoldStatus(j \o k)[e.wt] = k[i].type
      /\ \A wt \in Known(j) : StatusLinesOf(k, wt) = {} =>
           FoldStatus(j \o k)[wt] = FoldStatus(j)[wt]
  <2>1. /\ HaveStatus(j \o k)
        /\ DOMAIN FoldStatus(j \o k) = Known(j) \cup Known(k)
        /\ \A wt \in Known(k) : \A i \in StatusLinesOf(k, wt) :
             FoldStatus(j \o k)[wt] = k[i].type
        /\ \A wt \in Known(j) : StatusLinesOf(k, wt) = {} =>
             FoldStatus(j \o k)[wt] = FoldStatus(j)[wt]
    BY <1>1, <1>4, FoldExtended
  <2> QED BY <1>2, <2>1
<1>6. DOMAIN FoldStatus(j) = Known(j)
  BY DEF FoldStatus
<1>7. CASE e.type \in {"claim_posted", "claim_routed"}
  <2>1. Known(j) \cup {e.wt} = Known(j)
    BY <1>7
  <2>2. \A wt \in Known(j) : FoldStatus(j \o k)[wt] = FoldStatus(j)[wt]
    BY <1>3, <1>5, <1>7
  <2>3. FoldStatus(j \o k) = FoldStatus(j)
    BY <1>5, <1>6, <2>1, <2>2 DEF FoldStatus
  <2> QED BY <1>1, <1>2, <1>5, <1>7, <2>3, KnownExtended, Concatenated
<1>8. CASE e.type \notin {"claim_posted", "claim_routed"}
  <2>1. FoldStatus(j \o k)[e.wt] = e.type
    BY <1>1, <1>3, <1>5, <1>8
  <2>2. \A wt \in Known(j) \ {e.wt} : FoldStatus(j \o k)[wt] = FoldStatus(j)[wt]
    BY <1>3, <1>5
  <2>3. FoldStatus(j \o k) = [wt \in DOMAIN FoldStatus(j \o k) |-> FoldStatus(j \o k)[wt]]
    BY DEF FoldStatus
  <2>4. FoldStatus(j \o k) = Put(FoldStatus(j), e.wt, e.type)
    BY <1>5, <1>6, <2>1, <2>2, <2>3 DEF Put
  <2> QED BY <1>1, <1>2, <1>5, <1>8, <2>4, KnownExtended, Concatenated
<1> QED BY <1>7, <1>8

\* The journal names finitely many worktrees.
LEMMA KnownFinite ==
    ASSUME NEW j \in Seq(LineType)
    PROVE  IsFiniteSet(Known(j)) /\ Known(j) \subseteq Worktree
<1> DEFINE f == [i \in 1..Len(j) |-> j[i].wt]
<1>1. DOMAIN j = 1..Len(j) /\ Len(j) \in Nat /\ \A i \in 1..Len(j) : j[i] \in LineType
  BY LenProperties, ElementOfSeq
<1>2. f \in Surjection(1..Len(j), Known(j))
  BY <1>1 DEF Known, Surjection
<1>3. IsFiniteSet(1..Len(j))
  BY <1>1, FS_Interval
<1>4. IsFiniteSet(Known(j))
  BY <1>2, <1>3, FS_Surjection
<1>5. Known(j) \subseteq Worktree
  BY <1>1 DEF Known, LineType
<1> QED BY <1>4, <1>5

(***************************************************************************)
(* The memory of a process follows the journal.                            *)
(***************************************************************************)
MemoryInv ==
    /\ MemoryTypeOK
    /\ HaveStatus(journal)
    /\ StatusFollowsJournal
    /\ ~Running => DOMAIN status = {}

\* What a process writes is a line.
LEMMA LineTyped ==
    ASSUME process \in Nat, now \in Nat, NEW wt \in Worktree
    PROVE  /\ Spawned(wt) \in LineType /\ Claimed(wt) \in LineType
           /\ Routed(wt) \in LineType
           /\ \A st \in Statuses, why \in {"command", "stall", "budget"} :
                StatusSet(wt, st, why) \in LineType
           /\ \A st, why : StatusSet(wt, st, why) =
                [type |-> st, wt |-> wt, reason |-> why, run |-> process, at |-> now]
BY DEF Spawned, Claimed, Routed, StatusSet, Line, LineType, Statuses

\* A worktree gets a status, in the journal and in memory.
LEMMA StatusWritten ==
    ASSUME MemoryInv, now \in Nat, Running,
           NEW wt \in DOMAIN status, NEW st \in Statuses,
           NEW why \in {"command", "stall", "budget"}
    PROVE  LET j == Append(journal, StatusSet(wt, st, why)) IN
           /\ j \in Seq(LineType) /\ HaveStatus(j)
           /\ FoldStatus(j) = [status EXCEPT ![wt] = st]
<1> DEFINE e == StatusSet(wt, st, why)
           j == Append(journal, e)
<1>1. /\ e \in LineType /\ e.type = st /\ e.wt = wt /\ journal \in Seq(LineType)
      /\ st \notin {"claim_posted", "claim_routed"}
  BY LineTyped DEF MemoryInv, MemoryTypeOK, Statuses
<1> HIDE DEF e
<1>2. j \in Seq(LineType) /\ HaveStatus(j) /\ FoldStatus(j) = Put(FoldStatus(journal), wt, st)
  BY <1>1, FoldAppended DEF MemoryInv
<1>3. status = FoldStatus(journal) /\ status = [w \in DOMAIN status |-> status[w]]
  BY DEF MemoryInv, StatusFollowsJournal, FoldStatus
<1>4. Put(status, wt, st) = [status EXCEPT ![wt] = st]
  <2>1. DOMAIN status \cup {wt} = DOMAIN status
    OBVIOUS
  <2> QED BY <1>3, <2>1 DEF Put
<1> QED BY <1>2, <1>3, <1>4 DEF e

LEMMA StartMemory ==
    ASSUME MemoryInv, now \in Nat, Start
    PROVE  MemoryInv'
<1>1. DOMAIN status' = Known(journal) /\ Known(journal) \subseteq Worktree
  BY KnownFinite DEF Start, FoldStatus, MemoryInv, MemoryTypeOK
<1>2. FreshBudget \in [since : Nat, limit : Budgets, steps : Nat]
  BY DEF FreshBudget, Budgets
<1> QED
  BY <1>1, <1>2 DEF Start, MemoryInv, MemoryTypeOK, StatusFollowsJournal, Running

LEMMA EndMemory ==
    ASSUME MemoryInv, End
    PROVE  MemoryInv'
BY DEF End, MemoryInv, MemoryTypeOK, StatusFollowsJournal, Running, Nothing

LEMMA SpawnMemory ==
    ASSUME MemoryInv, now \in Nat, SpawnWorktree
    PROVE  MemoryInv'
<1> DEFINE wt == 1 + Max(DOMAIN status \cup {0})
           f == [i \in 1..Len(journal) |-> journal[i].wt]
<1> USE DEF MemoryInv, MemoryTypeOK, Free, Running
<1>1. status = FoldStatus(journal) /\ DOMAIN status = Known(journal)
  BY DEF SpawnWorktree, StatusFollowsJournal, FoldStatus
<1>2. f \in [1..Len(journal) -> Nat] /\ Len(journal) \in Nat
      /\ DOMAIN status \subseteq {f[i] : i \in 1..Len(journal)}
  <2>1. /\ Len(journal) \in Nat /\ DOMAIN journal = 1..Len(journal)
        /\ \A i \in 1..Len(journal) : journal[i] \in LineType
    BY LenProperties, ElementOfSeq
  <2>2. \A i \in 1..Len(journal) : journal[i].wt \in Nat
    BY <2>1 DEF LineType, Worktree
  <2> QED BY <1>1, <2>1, <2>2 DEF Known
<1> HIDE DEF f
<1>3. Max(DOMAIN status \cup {0}) \in Nat
  BY <1>2, MaxOfListed
<1>4. wt \in Worktree
  BY <1>3 DEF Worktree
<1> HIDE DEF wt
<1>5. /\ Spawned(wt) \in LineType /\ Spawned(wt).type = "running"
      /\ Spawned(wt).wt = wt
  BY <1>4, LineTyped DEF Spawned, Line
<1>6. LET j == Append(journal, Spawned(wt)) IN
      /\ j \in Seq(LineType) /\ HaveStatus(j)
      /\ FoldStatus(j) = Put(status, wt, "running")
  BY <1>1, <1>5, FoldAppended
<1>7. /\ journal' = Append(journal, Spawned(wt))
      /\ status' = Put(status, wt, "running")
      /\ last' = Put(last, wt, now)
      /\ budget' = Put(budget, wt, FreshBudget)
      /\ UNCHANGED <<progress, process, processes, posting, now>>
  BY DEF SpawnWorktree, wt
<1>8. FreshBudget \in [since : Nat, limit : Budgets, steps : Nat]
  BY DEF FreshBudget, Budgets
<1>9. MemoryTypeOK'
  BY <1>4, <1>6, <1>7, <1>8 DEF Put
<1> QED
  BY <1>6, <1>7, <1>9 DEF StatusFollowsJournal, SpawnWorktree

LEMMA SetStatusMemory ==
    ASSUME MemoryInv, now \in Nat,
           NEW wt, NEW st \in SetStatuses, SetStatus(wt, st)
    PROVE  MemoryInv'
<1>1. /\ Running /\ wt \in DOMAIN status /\ st \in Statuses
      /\ journal' = Append(journal, StatusSet(wt, st, "command"))
      /\ status' = [status EXCEPT ![wt] = st]
      /\ last' = [last EXCEPT ![wt] = now]
      /\ UNCHANGED <<progress, process, processes, budget, posting, now>>
  BY OrchestratorAssumption DEF SetStatus, Free
<1>2. journal' \in Seq(LineType) /\ HaveStatus(journal') /\ FoldStatus(journal') = status'
  BY <1>1, StatusWritten
<1> QED
  BY <1>1, <1>2 DEF MemoryInv, MemoryTypeOK, StatusFollowsJournal, Running

\* A call's budget makes a budget.
LEMMA BudgetTyped ==
    ASSUME NEW b \in [since : Nat, limit : Budgets, steps : Nat],
           NEW sec \in Budgets
    PROVE  /\ WithLimit(b, sec) \in [since : Nat, limit : Budgets, steps : Nat]
           /\ WithLimit(b, sec).steps = b.steps
           /\ [b EXCEPT !.steps = @ + 1] \in [since : Nat, limit : Budgets, steps : Nat]
           /\ [b EXCEPT !.steps = @ + 1].steps = b.steps + 1
BY DEF WithLimit

LEMMA RefuseMemory ==
    ASSUME MemoryInv, now \in Nat,
           NEW wt, NEW sec \in CallBudgets, RefuseClaim(wt, sec)
    PROVE  MemoryInv'
<1>1. /\ Running /\ wt \in DOMAIN status /\ sec \in Budgets
      /\ journal' = Append(journal, StatusSet(wt, "stopped_budget", "budget"))
      /\ status' = [status EXCEPT ![wt] = "stopped_budget"]
      /\ last' = [last EXCEPT ![wt] = now]
      /\ budget' = [budget EXCEPT ![wt] = WithLimit(budget[wt], sec)]
      /\ UNCHANGED <<progress, process, processes, posting, now>>
  BY OrchestratorAssumption DEF RefuseClaim, Free
<1>2. journal' \in Seq(LineType) /\ HaveStatus(journal') /\ FoldStatus(journal') = status'
  BY <1>1, StatusWritten DEF Statuses
<1>3. WithLimit(budget[wt], sec) \in [since : Nat, limit : Budgets, steps : Nat]
  BY <1>1, BudgetTyped DEF MemoryInv, MemoryTypeOK
<1> QED
  BY <1>1, <1>2, <1>3 DEF MemoryInv, MemoryTypeOK, StatusFollowsJournal, Running

\* A line that is not about a status leaves the fold alone.
LEMMA ClaimLineWritten ==
    ASSUME NEW j \in Seq(LineType), HaveStatus(j), NEW wt \in Known(j),
           process \in Nat, now \in Nat
    PROVE  /\ Append(j, Claimed(wt)) \in Seq(LineType)
           /\ HaveStatus(Append(j, Claimed(wt)))
           /\ FoldStatus(Append(j, Claimed(wt))) = FoldStatus(j)
           /\ Append(j, Routed(wt)) \in Seq(LineType)
           /\ HaveStatus(Append(j, Routed(wt)))
           /\ FoldStatus(Append(j, Routed(wt))) = FoldStatus(j)
           /\ Known(Append(j, Routed(wt))) = Known(j)
<1>1. wt \in Worktree
  BY KnownFinite
<1>2. /\ Claimed(wt) \in LineType /\ Claimed(wt).type = "claim_posted"
      /\ Claimed(wt).wt = wt
      /\ Routed(wt) \in LineType /\ Routed(wt).type = "claim_routed"
      /\ Routed(wt).wt = wt
  BY <1>1, LineTyped DEF Claimed, Routed, Line
<1>3. Known(j) \cup {wt} = Known(j)
  OBVIOUS
<1>4. ASSUME NEW e \in LineType, e.type \in {"claim_posted", "claim_routed"}, e.wt = wt
      PROVE  /\ Append(j, e) \in Seq(LineType) /\ HaveStatus(Append(j, e))
             /\ FoldStatus(Append(j, e)) = FoldStatus(j)
             /\ Known(Append(j, e)) = Known(j)
  <2>1. e.wt \in Known(j)
    BY <1>4
  <2> QED BY <1>3, <1>4, <2>1, FoldAppended
<1> QED BY <1>2, <1>4

LEMMA PostMemory ==
    ASSUME MemoryInv, now \in Nat,
           NEW wt, NEW sec \in CallBudgets, NEW phases, PostClaim(wt, sec, phases)
    PROVE  MemoryInv'
<1>1. /\ Running /\ wt \in DOMAIN status /\ sec \in Budgets
      /\ journal' = Append(journal, Claimed(wt))
      /\ budget' = [budget EXCEPT ![wt] = WithLimit(budget[wt], sec)]
      /\ posting' = wt
      /\ UNCHANGED <<progress, process, processes, status, last, now>>
  BY OrchestratorAssumption DEF PostClaim, Free
<1>2. wt \in Known(journal) /\ wt \in Worktree /\ status = FoldStatus(journal)
  BY <1>1 DEF MemoryInv, MemoryTypeOK, StatusFollowsJournal, FoldStatus
<1>3. journal' \in Seq(LineType) /\ HaveStatus(journal') /\ FoldStatus(journal') = status'
  BY <1>1, <1>2, ClaimLineWritten DEF MemoryInv, MemoryTypeOK
<1>4. WithLimit(budget[wt], sec) \in [since : Nat, limit : Budgets, steps : Nat]
  BY <1>1, BudgetTyped DEF MemoryInv, MemoryTypeOK
<1> QED
  BY <1>1, <1>2, <1>3, <1>4
     DEF MemoryInv, MemoryTypeOK, StatusFollowsJournal, Running, Worktree

LEMMA FinishMemory ==
    ASSUME MemoryInv, now \in Nat, FinishClaim
    PROVE  MemoryInv'
<1> DEFINE b == [budget[posting] EXCEPT !.steps = @ + 1]
           routed == Append(journal, Routed(posting))
<1>1. /\ posting # 0 /\ posting \in DOMAIN status /\ Running
      /\ budget' = [budget EXCEPT ![posting] = b]
      /\ last' = [last EXCEPT ![posting] = now]
      /\ posting' = 0
      /\ UNCHANGED <<progress, process, processes, now>>
      /\ \/ journal' = routed /\ status' = status
         \/ /\ journal' = Append(routed, StatusSet(posting, "stopped_budget", "budget"))
            /\ status' = [status EXCEPT ![posting] = "stopped_budget"]
  BY DEF FinishClaim, MemoryInv, MemoryTypeOK
<1>2. posting \in Known(journal) /\ status = FoldStatus(journal)
  BY <1>1 DEF MemoryInv, MemoryTypeOK, StatusFollowsJournal, FoldStatus
<1>3. /\ routed \in Seq(LineType) /\ HaveStatus(routed)
      /\ FoldStatus(routed) = status /\ Known(routed) = Known(journal)
  BY <1>1, <1>2, ClaimLineWritten DEF MemoryInv, MemoryTypeOK
<1> DEFINE e == StatusSet(posting, "stopped_budget", "budget")
<1>4. e \in LineType /\ e.wt = posting /\ e.type = "stopped_budget"
  BY <1>1, LineTyped DEF MemoryInv, MemoryTypeOK, Statuses
<1> HIDE DEF e, routed
<1>5. /\ Append(routed, e) \in Seq(LineType) /\ HaveStatus(Append(routed, e))
      /\ FoldStatus(Append(routed, e)) = Put(status, posting, "stopped_budget")
  BY <1>3, <1>4, FoldAppended
<1>6. Put(status, posting, "stopped_budget") = [status EXCEPT ![posting] = "stopped_budget"]
  <2>1. DOMAIN status \cup {posting} = DOMAIN status
    BY <1>1
  <2>2. status = [w \in DOMAIN status |-> status[w]]
    BY <1>2 DEF FoldStatus
  <2> QED BY <2>1, <2>2 DEF Put
<1>7. journal' \in Seq(LineType) /\ HaveStatus(journal') /\ FoldStatus(journal') = status'
  BY <1>1, <1>3, <1>5, <1>6 DEF e
<1>8. b \in [since : Nat, limit : Budgets, steps : Nat]
  <2>1. NoBudget \in Budgets /\ budget[posting] \in [since : Nat, limit : Budgets, steps : Nat]
    BY <1>1 DEF MemoryInv, MemoryTypeOK, Budgets
  <2> QED BY <2>1, BudgetTyped
<1> HIDE DEF b
<1>9. DOMAIN status' = DOMAIN status
  BY <1>1
<1> QED
  BY <1>1, <1>7, <1>8, <1>9 DEF MemoryInv, MemoryTypeOK, StatusFollowsJournal, Running

\* What a check for stalls appends: one line for each overdue worktree.
LEMMA StallLines ==
    ASSUME MemoryInv, now \in Nat, Running,
           NEW order \in Enumerations(Overdue)
    PROVE  LET k == [i \in 1..Cardinality(Overdue) |->
                        StatusSet(order[i], "stalled", "stall")]
           IN  /\ k \in Seq(LineType) /\ Known(k) = Overdue
               /\ Extends(journal, k)
               /\ DOMAIN k = 1..Cardinality(Overdue)
               /\ \A i \in DOMAIN k :
                    k[i].type = "stalled" /\ k[i].wt = order[i] /\ k[i].at = now
                    /\ k[i].reason = "stall" /\ order[i] \in Overdue
                    /\ k[i].run = process
               /\ \A wt \in Overdue : StatusLinesOf(k, wt) # {}
<1> DEFINE n == Cardinality(Overdue)
           k == [i \in 1..n |-> StatusSet(order[i], "stalled", "stall")]
<1>1. /\ journal \in Seq(LineType) /\ DOMAIN status = Known(journal)
      /\ process \in Nat
  BY DEF MemoryInv, MemoryTypeOK, StatusFollowsJournal, FoldStatus
<1>2. Overdue \subseteq Known(journal) /\ Overdue \subseteq Worktree /\ n \in Nat
  <2>1. Overdue \subseteq Known(journal)
    BY <1>1 DEF Overdue, MemoryInv, MemoryTypeOK
  <2>2. IsFiniteSet(Overdue)
    BY <1>1, <2>1, KnownFinite, FS_Subset
  <2> QED BY <1>1, <2>1, <2>2, KnownFinite, FS_CardinalityType
<1> HIDE DEF n
<1>3. /\ order \in [1..n -> Overdue]
      /\ \A wt \in Overdue : \E i \in 1..n : order[i] = wt
      /\ \A i, m \in 1..n : i < m => order[i] < order[m]
  BY DEF Enumerations, n
<1>4. \A i \in 1..n : /\ k[i] \in LineType
                     /\ k[i].type = "stalled" /\ k[i].wt = order[i]
                     /\ k[i].at = now /\ k[i].reason = "stall"
                     /\ order[i] \in Overdue /\ k[i].run = process
  <2> SUFFICES ASSUME NEW i \in 1..n
               PROVE  /\ k[i] \in LineType
                      /\ k[i].type = "stalled" /\ k[i].wt = order[i]
                      /\ k[i].at = now /\ k[i].reason = "stall"
                      /\ order[i] \in Overdue /\ k[i].run = process
    OBVIOUS
  <2>1. order[i] \in Overdue /\ order[i] \in Worktree
    BY <1>2, <1>3
  <2>2. k[i] = StatusSet(order[i], "stalled", "stall")
    OBVIOUS
  <2> QED BY <1>1, <2>1, <2>2, LineTyped DEF Statuses
<1>5. DOMAIN k = 1..n
  OBVIOUS
<1>6. k \in Seq(LineType)
  <2>1. k \in [1..n -> LineType]
    BY <1>4
  <2> HIDE DEF k
  <2> QED BY <1>2, <2>1, SeqDef
<1> HIDE DEF k
<1>7. Known(k) = Overdue
  BY <1>3, <1>4, <1>5 DEF Known
<1>8. \A wt : StatusLinesOf(k, wt) = {i \in 1..n : order[i] = wt}
  BY <1>4, <1>5 DEF StatusLinesOf, LinesOf
<1>9. \A i, m \in 1..n : order[i] = order[m] => i = m
  <2> SUFFICES ASSUME NEW i \in 1..n, NEW m \in 1..n, order[i] = order[m], i # m
               PROVE  FALSE
    OBVIOUS
  <2>1. order[i] \in Nat /\ order[m] \in Nat
    BY <1>2, <1>3 DEF Worktree
  <2>2. i < m \/ m < i
    BY <1>2
  <2>3. order[i] < order[m] \/ order[m] < order[i]
    BY <1>3, <2>2
  <2> QED BY <2>1, <2>3
<1>10. \A wt \in Overdue : StatusLinesOf(k, wt) # {}
  BY <1>3, <1>8
<1>11. Extends(journal, k)
  BY <1>7, <1>8, <1>9, <1>10 DEF Extends
<1> QED
  BY <1>4, <1>5, <1>6, <1>7, <1>10, <1>11 DEF k, n

LEMMA StallsMemory ==
    ASSUME MemoryInv, now \in Nat, CheckStalls
    PROVE  MemoryInv'
<1>1. PICK order \in Enumerations(Overdue) :
        journal' = journal \o [i \in 1..Cardinality(Overdue) |->
                                  StatusSet(order[i], "stalled", "stall")]
  BY DEF CheckStalls
<1> DEFINE k == [i \in 1..Cardinality(Overdue) |-> StatusSet(order[i], "stalled", "stall")]
<1>2. /\ Running
      /\ journal' = journal \o k
      /\ status' = [wt \in DOMAIN status |->
                       IF wt \in Overdue THEN "stalled" ELSE status[wt]]
      /\ last' = [wt \in DOMAIN last |-> IF wt \in Overdue THEN now ELSE last[wt]]
      /\ UNCHANGED <<progress, process, processes, budget, posting, now>>
  BY <1>1 DEF CheckStalls, Free
<1>3. /\ k \in Seq(LineType) /\ Known(k) = Overdue
      /\ Extends(journal, k)
      /\ \A i \in DOMAIN k : k[i].type = "stalled"
      /\ \A wt \in Overdue : StatusLinesOf(k, wt) # {}
  BY <1>2, StallLines
<1> HIDE DEF k
<1>4. /\ journal \in Seq(LineType) /\ status = FoldStatus(journal)
      /\ DOMAIN status = Known(journal) /\ HaveStatus(journal)
      /\ Overdue \subseteq DOMAIN status
  BY <1>2 DEF MemoryInv, MemoryTypeOK, StatusFollowsJournal, FoldStatus, Overdue
<1>5. /\ HaveStatus(journal \o k)
      /\ DOMAIN FoldStatus(journal \o k) = Known(journal) \cup Known(k)
      /\ \A wt \in Known(k) : \A i \in StatusLinesOf(k, wt) :
           FoldStatus(journal \o k)[wt] = k[i].type
      /\ \A wt \in Known(journal) : StatusLinesOf(k, wt) = {} =>
           FoldStatus(journal \o k)[wt] = FoldStatus(journal)[wt]
  BY <1>3, <1>4, FoldExtended
<1>6. DOMAIN FoldStatus(journal \o k) = DOMAIN status
  BY <1>3, <1>4, <1>5
<1>7. \A wt \in Overdue : FoldStatus(journal \o k)[wt] = "stalled"
  <2> SUFFICES ASSUME NEW wt \in Overdue
               PROVE  FoldStatus(journal \o k)[wt] = "stalled"
    OBVIOUS
  <2>1. PICK i \in StatusLinesOf(k, wt) : TRUE
    BY <1>3
  <2>2. k[i].type = "stalled"
    BY <1>3, <2>1 DEF StatusLinesOf, LinesOf
  <2> QED BY <1>3, <1>5, <2>1, <2>2
<1>8. \A wt \in DOMAIN status \ Overdue : FoldStatus(journal \o k)[wt] = status[wt]
  <2> SUFFICES ASSUME NEW wt \in DOMAIN status \ Overdue
               PROVE  FoldStatus(journal \o k)[wt] = status[wt]
    OBVIOUS
  <2>1. StatusLinesOf(k, wt) = {}
    BY <1>3 DEF StatusLinesOf, LinesOf, Known
  <2> QED BY <1>4, <1>5, <2>1
<1>9. status' = FoldStatus(journal')
  <2>1. FoldStatus(journal \o k) =
          [wt \in DOMAIN FoldStatus(journal \o k) |-> FoldStatus(journal \o k)[wt]]
    BY DEF FoldStatus
  <2> QED BY <1>2, <1>6, <1>7, <1>8, <2>1
<1>10. journal' \in Seq(LineType) /\ HaveStatus(journal')
  BY <1>2, <1>3, <1>4, <1>5, Concatenated
<1>11. DOMAIN status' = DOMAIN status
  BY <1>2
<1> QED
  BY <1>2, <1>9, <1>10, <1>11 DEF MemoryInv, MemoryTypeOK, StatusFollowsJournal, Running

\* The other steps leave the journal and the status of all worktrees alone.
LEMMA OtherMemory ==
    ASSUME MemoryInv, now \in Nat,
           CheckClaim \/ Tick \/ (\E wt \in Worktree : RecordProgress(wt)) \/ UNCHANGED vars
    PROVE  MemoryInv'
<1> USE DEF MemoryInv, MemoryTypeOK, StatusFollowsJournal, Running
<1>1. CASE CheckClaim
  BY <1>1 DEF CheckClaim, memory
<1>2. CASE Tick
  BY <1>2 DEF Tick, memory
<1>3. CASE \E wt \in Worktree : RecordProgress(wt)
  BY <1>3 DEF RecordProgress, Put
<1>4. CASE UNCHANGED vars
  BY <1>4 DEF vars, memory
<1> QED BY <1>1, <1>2, <1>3, <1>4

LEMMA MemoryInvariant == Spec => [](MemoryInv /\ SearchInv)
<1>1. Init => MemoryInv
  <2> SUFFICES ASSUME Init PROVE MemoryInv
    OBVIOUS
  <2>1. /\ journal = <<>> /\ status = Nothing /\ last = Nothing /\ budget = Nothing
        /\ progress = Nothing /\ DOMAIN Nothing = {} /\ Known(journal) = {}
    BY DEF Init, Nothing, Known
  <2>2. journal \in Seq(LineType) /\ HaveStatus(journal)
    BY <2>1, EmptySeq DEF HaveStatus
  <2> QED
    BY <2>1, <2>2 DEF Init, MemoryInv, MemoryTypeOK, StatusFollowsJournal, Running
<1>2. MemoryInv /\ SearchInv /\ [Next]_vars => MemoryInv'
  <2> SUFFICES ASSUME MemoryInv, SearchInv, [Next]_vars PROVE MemoryInv'
    OBVIOUS
  <2>1. now \in Nat
    BY DEF SearchInv, SearchTypeOK
  <2>2. CASE Start
    BY <2>1, <2>2, StartMemory
  <2>3. CASE End
    BY <2>3, EndMemory
  <2>4. CASE SpawnWorktree
    BY <2>1, <2>4, SpawnMemory
  <2>5. CASE FinishClaim
    BY <2>1, <2>5, FinishMemory
  <2>6. CASE CheckStalls
    BY <2>1, <2>6, StallsMemory
  <2>7. CASE CheckClaim \/ Tick \/ (\E wt \in Worktree : RecordProgress(wt))
             \/ UNCHANGED vars
    BY <2>1, <2>7, OtherMemory
  <2>8. CASE \E wt \in Worktree : \E st \in SetStatuses : SetStatus(wt, st)
    BY <2>1, <2>8, SetStatusMemory
  <2>9. CASE \E wt \in Worktree : \E sec \in CallBudgets : RefuseClaim(wt, sec)
    BY <2>1, <2>9, RefuseMemory
  <2>10. CASE \E wt \in Worktree : \E sec \in CallBudgets : \E phases \in PhaseCounts :
                PostClaim(wt, sec, phases)
    BY <2>1, <2>10, PostMemory
  <2> QED
    BY <2>2, <2>3, <2>4, <2>5, <2>6, <2>7, <2>8, <2>9, <2>10 DEF Next
<1> QED BY <1>1, <1>2, SearchInvariant, PTL DEF Spec

\* The types of the journal, of a process's memory and of its search.
THEOREM TypeCorrect == Spec => []TypeOK
<1>1. MemoryInv /\ SearchInv => TypeOK
  BY DEF MemoryInv, SearchInv, TypeOK
<1> QED BY <1>1, MemoryInvariant, PTL

\* A running process believes of every worktree what the journal says.
THEOREM MemoryFollowsJournal == Spec => []StatusFollowsJournal
<1>1. MemoryInv => StatusFollowsJournal
  BY DEF MemoryInv
<1> QED BY <1>1, MemoryInvariant, PTL

(***************************************************************************)
(* Stalls.  What is known of a worktree is not younger than its last       *)
(* activity, except while a claim of it is being checked.                  *)
(***************************************************************************)

\* A claim is posted.
Posts ==
    \E wt \in Worktree : \E sec \in CallBudgets : \E phases \in PhaseCounts :
        PostClaim(wt, sec, phases)

\* What a step appends, and whose last activity it leaves as it was.
Effect(k) ==
    /\ k \in Seq(LineType) /\ journal' = journal \o k
    /\ \A i \in DOMAIN k : k[i].at = now /\ k[i].run = process /\ Running
    /\ (\A i \in DOMAIN k : k[i].reason # "stall") \/ CheckStalls
    /\ \/ \A i \in DOMAIN k : k[i].type # "claim_posted"
       \/ Posts
    /\ Running' => \A wt \in DOMAIN status' :
         \/ last'[wt] = now
         \/ /\ Running /\ wt \in DOMAIN status /\ last'[wt] = last[wt]
            /\ posting = wt => posting' = wt
            /\ \A i \in DOMAIN k : k[i].wt = wt => posting' = wt

\* Nothing is appended.
LEMMA SilentEffect ==
    ASSUME MemoryInv, UNCHANGED journal
    PROVE  <<>> \in Seq(LineType) /\ journal' = journal \o <<>> /\ DOMAIN <<>> = {}
BY EmptySeq, ConcatEmptySeq DEF MemoryInv, MemoryTypeOK

\* A status line of a worktree whose activity is recorded.
LEMMA StatusEffect ==
    ASSUME MemoryInv, now \in Nat, Running, NEW wt \in DOMAIN status,
           NEW st \in Statuses, NEW why \in {"command", "budget"},
           journal' = Append(journal, StatusSet(wt, st, why)),
           DOMAIN status' = DOMAIN status, last' = [last EXCEPT ![wt] = now],
           posting' = posting
    PROVE  \E k : Effect(k)
<1> DEFINE e == StatusSet(wt, st, why)
<1>1. /\ e \in LineType /\ e.wt = wt /\ e.at = now /\ e.reason # "stall"
      /\ e.run = process /\ e.type # "claim_posted"
      /\ journal \in Seq(LineType) /\ DOMAIN last = DOMAIN status
  BY LineTyped DEF MemoryInv, MemoryTypeOK, Statuses
<1> HIDE DEF e
<1>2. /\ journal' = journal \o <<e>> /\ <<e>> \in Seq(LineType)
      /\ DOMAIN <<e>> = {1} /\ <<e>>[1] = e
  BY <1>1, Appended DEF e
<1>3. Effect(<<e>>)
  BY <1>1, <1>2 DEF Effect
<1> QED BY <1>3

LEMMA NextEffect ==
    ASSUME MemoryInv, SearchInv, [Next]_vars
    PROVE  \E k : Effect(k)
<1>1. now \in Nat /\ journal \in Seq(LineType) /\ process \in Nat
      /\ DOMAIN last = DOMAIN status /\ DOMAIN status \subseteq Worktree
  BY DEF SearchInv, SearchTypeOK, MemoryInv, MemoryTypeOK
<1>2. CASE Start
  <2>1. Effect(<<>>)
    BY <1>2, SilentEffect DEF Effect, Start, FoldStatus
  <2> QED BY <2>1
<1>3. CASE End
  <2>1. Effect(<<>>)
    BY <1>3, SilentEffect DEF Effect, End, Running
  <2> QED BY <2>1
<1>4. CASE SpawnWorktree
  <2> DEFINE wt == 1 + Max(DOMAIN status \cup {0})
  <2>1. SpawnWorktree /\ MemoryInv'
    BY <1>1, <1>4, SpawnMemory
  <2>2. /\ Running /\ posting' = posting
        /\ journal' = Append(journal, Spawned(wt))
        /\ status' = Put(status, wt, "running")
        /\ last' = Put(last, wt, now)
    BY <1>4 DEF SpawnWorktree, Free
  <2> HIDE DEF wt
  <2>3. wt \in Worktree
    BY <2>1, <2>2 DEF MemoryInv, MemoryTypeOK, Put
  <2> DEFINE e == Spawned(wt)
  <2>4. /\ e \in LineType /\ e.wt = wt /\ e.at = now /\ e.reason # "stall"
        /\ e.run = process /\ e.type # "claim_posted"
    BY <1>1, <2>3, LineTyped DEF Spawned, Line
  <2> HIDE DEF e
  <2>5. /\ journal' = journal \o <<e>> /\ <<e>> \in Seq(LineType)
        /\ DOMAIN <<e>> = {1} /\ <<e>>[1] = e
    BY <1>1, <2>2, <2>4, Appended DEF e
  <2>6. Effect(<<e>>)
    BY <1>1, <2>2, <2>4, <2>5 DEF Effect, Put
  <2> QED BY <2>6
<1>5. CASE FinishClaim
  <2> DEFINE r == Routed(posting)
             e == StatusSet(posting, "stopped_budget", "budget")
  <2>1. /\ posting # 0 /\ posting \in DOMAIN status /\ Running
        /\ last' = [last EXCEPT ![posting] = now]
        /\ DOMAIN status' = DOMAIN status
        /\ journal' = Append(journal, r) \/ journal' = Append(Append(journal, r), e)
    BY <1>5 DEF FinishClaim, MemoryInv, MemoryTypeOK
  <2>2. posting \in Worktree
    BY <1>1, <2>1
  <2>3. /\ r \in LineType /\ r.wt = posting /\ r.at = now /\ r.reason # "stall"
        /\ r.run = process /\ r.type # "claim_posted"
        /\ e \in LineType /\ e.wt = posting /\ e.at = now /\ e.reason # "stall"
        /\ e.run = process /\ e.type # "claim_posted"
    <3>1. /\ r \in LineType /\ r.wt = posting /\ r.at = now /\ r.reason # "stall"
          /\ r.run = process /\ r.type # "claim_posted"
      BY <1>1, <2>2, LineTyped DEF Routed, Line
    <3>2. "stopped_budget" \in Statuses
      BY DEF Statuses
    <3>3. /\ e \in LineType /\ e.wt = posting /\ e.at = now /\ e.reason # "stall"
          /\ e.run = process /\ e.type # "claim_posted"
      BY <1>1, <2>2, <3>2, LineTyped
    <3> QED BY <3>1, <3>3
  <2> HIDE DEF r, e
  <2>4. /\ Append(journal, r) = journal \o <<r>> /\ <<r>> \in Seq(LineType)
        /\ DOMAIN <<r>> = {1} /\ <<r>>[1] = r
    BY <1>1, <2>3, Appended
  <2>5. /\ Append(Append(journal, r), e) = Append(journal, r) \o <<e>>
        /\ <<e>> \in Seq(LineType) /\ DOMAIN <<e>> = {1} /\ <<e>>[1] = e
    BY <1>1, <2>3, <2>4, Concatenated, Appended
  <2> DEFINE both == <<r>> \o <<e>>
  <2>6. Append(Append(journal, r), e) = journal \o both
    BY <1>1, <2>4, <2>5, ConcatAssociative
  <2>7. /\ both \in Seq(LineType)
        /\ \A i \in DOMAIN both :
             /\ both[i].wt = posting /\ both[i].at = now /\ both[i].reason # "stall"
             /\ both[i].run = process /\ both[i].type # "claim_posted"
    <3>1. \A i \in DOMAIN both : both[i] = r \/ both[i] = e
      BY <2>4, <2>5, Concatenated
    <3>2. both \in Seq(LineType)
      BY <2>4, <2>5, ConcatProperties
    <3> QED BY <3>1, <3>2, <2>3
  <2> HIDE DEF both
  <2>8. \A wt \in DOMAIN status : wt # posting => last'[wt] = last[wt]
    BY <1>1, <2>1
  <2>9. CASE journal' = Append(journal, r)
    <3>1. Effect(<<r>>)
      BY <1>1, <2>1, <2>3, <2>4, <2>8, <2>9 DEF Effect
    <3> QED BY <3>1
  <2>10. CASE journal' = Append(Append(journal, r), e)
    <3>1. Effect(both)
      BY <1>1, <2>1, <2>3, <2>6, <2>7, <2>8, <2>10 DEF Effect
    <3> QED BY <3>1
  <2> QED BY <2>1, <2>9, <2>10
<1>6. CASE CheckStalls
  <2>1. PICK order \in Enumerations(Overdue) :
          journal' = journal \o [i \in 1..Cardinality(Overdue) |->
                                    StatusSet(order[i], "stalled", "stall")]
    BY <1>6 DEF CheckStalls
  <2> DEFINE k == [i \in 1..Cardinality(Overdue) |-> StatusSet(order[i], "stalled", "stall")]
  <2>2. /\ Running /\ DOMAIN status' = DOMAIN status /\ posting' = posting
        /\ last' = [wt \in DOMAIN last |-> IF wt \in Overdue THEN now ELSE last[wt]]
    BY <1>6 DEF CheckStalls, Free
  <2>3. /\ k \in Seq(LineType)
        /\ \A i \in DOMAIN k :
             /\ k[i].at = now /\ k[i].wt = order[i] /\ order[i] \in Overdue
             /\ k[i].type = "stalled" /\ k[i].run = process
    BY <1>1, <2>2, StallLines
  <2> HIDE DEF k
  <2>4. Effect(k)
    BY <1>1, <1>6, <2>1, <2>2, <2>3 DEF Effect, k
  <2> QED BY <2>4
<1>7. CASE CheckClaim \/ Tick \/ (\E wt \in Worktree : RecordProgress(wt)) \/ UNCHANGED vars
  <2>1. /\ UNCHANGED <<journal, status, posting, process>>
        /\ \A wt \in DOMAIN status : last'[wt] = now \/ last'[wt] = last[wt]
    BY <1>1, <1>7 DEF CheckClaim, Tick, RecordProgress, vars, memory
  <2>2. Effect(<<>>)
    BY <2>1, SilentEffect DEF Effect, Running
  <2> QED BY <2>2
<1>8. CASE \E wt \in Worktree : \E st \in SetStatuses : SetStatus(wt, st)
  <2>1. PICK wt \in Worktree, st \in SetStatuses : SetStatus(wt, st)
    BY <1>8
  <2>2. /\ Running /\ wt \in DOMAIN status /\ st \in Statuses
        /\ journal' = Append(journal, StatusSet(wt, st, "command"))
        /\ DOMAIN status' = DOMAIN status
        /\ last' = [last EXCEPT ![wt] = now] /\ posting' = posting
    BY <2>1, OrchestratorAssumption DEF SetStatus, Free
  <2> QED BY <1>1, <2>2, StatusEffect
<1>9. CASE \E wt \in Worktree : \E sec \in CallBudgets : RefuseClaim(wt, sec)
  <2>1. PICK wt \in Worktree, sec \in CallBudgets : RefuseClaim(wt, sec)
    BY <1>9
  <2>2. /\ Running /\ wt \in DOMAIN status /\ "stopped_budget" \in Statuses
        /\ journal' = Append(journal, StatusSet(wt, "stopped_budget", "budget"))
        /\ DOMAIN status' = DOMAIN status
        /\ last' = [last EXCEPT ![wt] = now] /\ posting' = posting
    BY <2>1 DEF RefuseClaim, Free, Statuses
  <2> QED BY <1>1, <2>2, StatusEffect
<1>10. CASE \E wt \in Worktree : \E sec \in CallBudgets : \E phases \in PhaseCounts :
               PostClaim(wt, sec, phases)
  <2>1. PICK wt \in Worktree, sec \in CallBudgets, phases \in PhaseCounts :
          PostClaim(wt, sec, phases)
    BY <1>10
  <2>2. /\ Running /\ wt \in DOMAIN status /\ posting = 0
        /\ journal' = Append(journal, Claimed(wt))
        /\ posting' = wt /\ UNCHANGED <<status, last, process>>
    BY <2>1 DEF PostClaim, Free
  <2> DEFINE e == Claimed(wt)
  <2>3. /\ e \in LineType /\ e.wt = wt /\ e.at = now /\ e.reason # "stall"
        /\ e.run = process
    BY <1>1, LineTyped DEF Claimed, Line
  <2> HIDE DEF e
  <2>4. /\ journal' = journal \o <<e>> /\ <<e>> \in Seq(LineType)
        /\ DOMAIN <<e>> = {1} /\ <<e>>[1] = e
    BY <1>1, <2>2, <2>3, Appended DEF e
  <2>5. Effect(<<e>>)
    BY <1>1, <2>1, <2>2, <2>3, <2>4 DEF Effect, Posts, Worktree
  <2> QED BY <2>5
<1> QED
  BY <1>2, <1>3, <1>4, <1>5, <1>6, <1>7, <1>8, <1>9, <1>10 DEF Next

ActivityInv ==
    /\ \A i \in DOMAIN journal : journal[i].at <= now
    /\ Running => \A i \in DOMAIN journal :
         journal[i].wt # posting => journal[i].at <= last[journal[i].wt]

LEMMA ActivityStep ==
    ASSUME MemoryInv, SearchInv, MemoryInv', ActivityInv, [Next]_vars
    PROVE  ActivityInv'
<1>1. PICK k : Effect(k)
  BY NextEffect
<1>2. now \in Nat /\ journal \in Seq(LineType) /\ k \in Seq(LineType)
  BY <1>1 DEF SearchInv, SearchTypeOK, MemoryInv, MemoryTypeOK, Effect
<1>3. now' \in Nat /\ now <= now'
  BY <1>2, NextSearch DEF vars
<1>4. ASSUME NEW i \in DOMAIN journal'
      PROVE  \/ i \in DOMAIN journal /\ journal'[i] = journal[i]
             \/ \E m \in DOMAIN k : journal'[i] = k[m]
  BY <1>1, <1>2, <1>4, Concatenated DEF Effect
<1>5. \A i \in DOMAIN journal' : journal'[i].at <= now /\ journal'[i].at \in Nat
  <2> SUFFICES ASSUME NEW i \in DOMAIN journal'
               PROVE  journal'[i].at <= now /\ journal'[i].at \in Nat
    OBVIOUS
  <2>1. journal'[i] \in LineType
    BY LenProperties, ElementOfSeq DEF MemoryInv, MemoryTypeOK
  <2>2. journal'[i].at \in Nat
    BY <2>1 DEF LineType
  <2>3. journal'[i].at <= now
    BY <1>1, <1>2, <1>4, <2>2 DEF Effect, ActivityInv
  <2> QED BY <2>2, <2>3
<1>6. ASSUME Running', NEW i \in DOMAIN journal', journal'[i].wt # posting'
      PROVE  journal'[i].at <= last'[journal'[i].wt]
  <2> DEFINE wt == journal'[i].wt
  <2>1. wt \in DOMAIN status'
    BY <1>6 DEF MemoryInv, StatusFollowsJournal, FoldStatus, Known
  <2>2. CASE last'[wt] = now
    BY <2>2, <1>5
  <2>3. CASE last'[wt] # now
    <3>1. /\ Running /\ wt \in DOMAIN status /\ last'[wt] = last[wt]
          /\ posting = wt => posting' = wt
          /\ \A m \in DOMAIN k : k[m].wt = wt => posting' = wt
      BY <1>1, <1>6, <2>1, <2>3 DEF Effect
    <3>2. i \in DOMAIN journal /\ journal'[i] = journal[i]
      BY <1>4, <1>6, <3>1
    <3>3. journal[i].wt # posting
      BY <1>6, <3>1, <3>2
    <3>4. journal[i].at <= last[journal[i].wt]
      BY <3>1, <3>2, <3>3 DEF ActivityInv
    <3> QED BY <3>1, <3>2, <3>4
  <2> QED BY <2>2, <2>3
<1>7. \A i \in DOMAIN journal' : journal'[i].at <= now'
  BY <1>2, <1>3, <1>5
<1> QED BY <1>6, <1>7 DEF ActivityInv

\* A worktree that a check declares stalled was idle.
LEMMA StallStep ==
    ASSUME MemoryInv, SearchInv, ActivityInv, StalledWasIdle, [Next]_vars
    PROVE  StalledWasIdle'
<1>1. PICK k : Effect(k)
  BY NextEffect
<1>2. /\ now \in Nat /\ journal \in Seq(LineType) /\ k \in Seq(LineType)
      /\ journal' = journal \o k /\ Len(journal) \in Nat
  BY <1>1, LenProperties DEF SearchInv, SearchTypeOK, MemoryInv, MemoryTypeOK, Effect
<1>3. SUFFICES ASSUME NEW i \in DOMAIN journal', journal'[i].reason = "stall",
                      NEW a \in 1..(i - 1), journal'[a].wt = journal'[i].wt
               PROVE  journal'[i].at - journal'[a].at > Threshold
  BY DEF StalledWasIdle
<1>4. CASE i \in DOMAIN journal
  <2>1. i \in 1..Len(journal) /\ a \in 1..Len(journal)
    BY <1>2, <1>4, Concatenated
  <2>2. journal'[i] = journal[i] /\ journal'[a] = journal[a]
    BY <1>2, <2>1, Concatenated
  <2> QED BY <1>3, <1>4, <2>2 DEF StalledWasIdle
<1>5. CASE ~(i \in DOMAIN journal)
  <2>1. PICK m \in DOMAIN k : i = Len(journal) + m /\ journal'[i] = k[m]
    BY <1>2, <1>3, <1>5, Concatenated
  <2>2. CheckStalls
    BY <1>1, <1>3, <2>1 DEF Effect
  <2>3. PICK order \in Enumerations(Overdue) :
          journal' = journal \o [b \in 1..Cardinality(Overdue) |->
                                    StatusSet(order[b], "stalled", "stall")]
    BY <2>2 DEF CheckStalls
  <2> DEFINE lines == [b \in 1..Cardinality(Overdue) |->
                         StatusSet(order[b], "stalled", "stall")]
  <2>4. Running /\ posting = 0
    BY <2>2 DEF CheckStalls, Free
  <2>5. /\ lines \in Seq(LineType) /\ Known(lines) = Overdue
        /\ Extends(journal, lines)
        /\ \A b \in DOMAIN lines : lines[b].type = "stalled" /\ lines[b].at = now
      BY <1>2, <2>4, StallLines
  <2> HIDE DEF lines
  <2>6. journal \o lines = journal \o k
    BY <1>2, <2>3 DEF lines
  <2>6a. \A b \in DOMAIN journal' :
          \/ b \in DOMAIN journal
          \/ \E c \in DOMAIN lines : b = Len(journal) + c /\ journal'[b] = lines[c]
    <3>1. journal' = journal \o lines
      BY <1>2, <2>6
    <3> QED BY SMTT(30), <1>2, <2>5, <3>1, Concatenated
  <2>7. PICK c \in DOMAIN lines : i = Len(journal) + c /\ journal'[i] = lines[c]
    BY <1>3, <1>5, <2>6a
  <2> DEFINE wt == journal'[i].wt
  <2>8. /\ wt \in Overdue /\ journal'[i].at = now
        /\ c \in StatusLinesOf(lines, wt)
    BY <2>5, <2>7 DEF Known, StatusLinesOf, LinesOf
  <2>9. /\ now - last[wt] > Threshold /\ wt \in Worktree /\ last[wt] \in Nat
        /\ wt # posting
    BY <2>4, <2>8 DEF Overdue, MemoryInv, MemoryTypeOK, Worktree
  <2>10. CASE a \in DOMAIN journal
    <3>1. journal'[a] = journal[a]
      BY <1>2, <2>10, Concatenated
    <3>2. journal[a] \in LineType
      BY <1>2, <2>10, LenProperties, ElementOfSeq
    <3>3. journal[a].at \in Nat /\ journal[a].at <= last[wt]
      BY <1>3, <2>4, <2>9, <2>10, <3>1, <3>2 DEF ActivityInv, LineType
    <3>4. Threshold \in Nat
      BY OrchestratorAssumption
    <3>5. now - journal[a].at > Threshold
      <4> HIDE DEF wt
      <4> QED BY <1>2, <2>9, <3>3, <3>4
    <3> QED BY <2>8, <3>1, <3>5
  <2>11. CASE ~(a \in DOMAIN journal)
    <3>1. a \in DOMAIN journal'
      <4>1. DOMAIN journal' = 1..(Len(journal) + Len(k)) /\ Len(k) \in Nat
        BY <1>2, Concatenated
      <4> QED BY <1>2, <1>3, <4>1
    <3>2. PICK d \in DOMAIN lines : a = Len(journal) + d /\ journal'[a] = lines[d]
      BY <2>11, <2>6a, <3>1
    <3>3. d \in StatusLinesOf(lines, wt)
      BY <1>3, <2>5, <3>2 DEF StatusLinesOf, LinesOf
    <3>4. c = d
      BY <2>5, <2>8, <3>3 DEF Extends
    <3>5. a = i /\ i \in Nat
      BY <1>2, <2>5, <2>7, <3>2, <3>4, Concatenated
    <3> QED BY <1>3, <3>5
  <2> QED BY <2>10, <2>11
<1> QED BY <1>4, <1>5

\* A worktree is declared stalled only when nothing the journal tells of it is
\* as young as the threshold.
THEOREM StallsAreJustified == Spec => []StalledWasIdle
<1>1. Init => ActivityInv /\ StalledWasIdle
  BY DEF Init, ActivityInv, StalledWasIdle
<1>2. /\ MemoryInv /\ SearchInv /\ MemoryInv' /\ ActivityInv /\ StalledWasIdle
      /\ [Next]_vars
      => ActivityInv' /\ StalledWasIdle'
  BY ActivityStep, StallStep
<1> QED BY <1>1, <1>2, MemoryInvariant, PTL DEF Spec

(***************************************************************************)
(* Budgets.  The claims that a process wrote for a worktree are those that *)
(* it counted and the one that is being checked.                           *)
(***************************************************************************)
BudgetInv ==
    /\ process = 0 \/ process = processes
    /\ \A i \in DOMAIN journal : journal[i].run <= processes
    /\ \A wt \in Worktree, run \in Nat :
         Cardinality(ClaimsOf(journal, wt, run)) <= BudgetSteps + 1
    /\ \A wt \in DOMAIN status :
         /\ budget[wt].steps <= BudgetSteps + 1
         /\ posting = wt => budget[wt].steps <= BudgetSteps
         /\ Cardinality(ClaimsOf(journal, wt, process)) <=
              budget[wt].steps + (IF posting = wt THEN 1 ELSE 0)

\* A journal holds finitely many claims.
LEMMA ClaimsFinite ==
    ASSUME NEW j \in Seq(LineType), NEW wt, NEW run
    PROVE  /\ IsFiniteSet(ClaimsOf(j, wt, run))
           /\ Cardinality(ClaimsOf(j, wt, run)) \in Nat
<1>1. DOMAIN j = 1..Len(j) /\ Len(j) \in Nat
  BY LenProperties
<1>2. ClaimsOf(j, wt, run) \subseteq 1..Len(j)
  BY <1>1 DEF ClaimsOf, LinesOf
<1>3. IsFiniteSet(1..Len(j))
  BY <1>1, FS_Interval
<1> QED BY <1>2, <1>3, FS_Subset, FS_CardinalityType

\* Lines that are no claims add no claims.
LEMMA ClaimsKept ==
    ASSUME NEW j \in Seq(LineType), NEW k \in Seq(LineType), NEW wt, NEW run,
           \A i \in DOMAIN k : k[i].type # "claim_posted"
    PROVE  ClaimsOf(j \o k, wt, run) = ClaimsOf(j, wt, run)
<1>1. \A i \in ClaimsOf(j \o k, wt, run) : i \in ClaimsOf(j, wt, run)
  BY Concatenated DEF ClaimsOf, LinesOf
<1>2. \A i \in ClaimsOf(j, wt, run) : i \in ClaimsOf(j \o k, wt, run)
  BY Concatenated DEF ClaimsOf, LinesOf
<1> QED BY <1>1, <1>2

\* A claim that is appended adds one, for its worktree and process.
LEMMA ClaimsGrow ==
    ASSUME NEW j \in Seq(LineType), NEW e \in LineType,
           e.type = "claim_posted", NEW wt, NEW run
    PROVE  Cardinality(ClaimsOf(Append(j, e), wt, run)) =
             Cardinality(ClaimsOf(j, wt, run)) +
             (IF e.wt = wt /\ e.run = run THEN 1 ELSE 0)
<1> DEFINE S == ClaimsOf(j, wt, run)
           T == ClaimsOf(Append(j, e), wt, run)
           n == Len(j) + 1
<1>1. /\ DOMAIN j = 1..Len(j) /\ Len(j) \in Nat
      /\ Append(j, e) \in Seq(LineType)
      /\ Len(Append(j, e)) = n /\ DOMAIN Append(j, e) = 1..n
      /\ \A i \in 1..Len(j) : Append(j, e)[i] = j[i]
      /\ Append(j, e)[n] = e
  BY LenProperties, AppendProperties
<1>2. n \notin S
  BY <1>1 DEF ClaimsOf, LinesOf
<1>3. CASE e.wt = wt /\ e.run = run
  <2>1. T = S \cup {n}
    BY <1>1, <1>3 DEF ClaimsOf, LinesOf
  <2> HIDE DEF S, T, n
  <2>2. IsFiniteSet(S)
    BY ClaimsFinite DEF S
  <2>3. Cardinality(T) = Cardinality(S) + 1
    BY <1>2, <2>1, <2>2, FS_AddElement
  <2> QED BY <1>3, <2>3 DEF S, T
<1>4. CASE ~(e.wt = wt /\ e.run = run)
  <2>1. T = S
    BY <1>1, <1>4 DEF ClaimsOf, LinesOf
  <2>2. Cardinality(S) \in Nat
    BY ClaimsFinite
  <2> HIDE DEF S, T
  <2> QED BY <1>4, <2>1, <2>2 DEF S, T
<1> QED BY <1>3, <1>4

\* No claims are known of a worktree the journal does not name, nor of a
\* process that comes after all those that wrote to it.
LEMMA NoClaimsYet ==
    ASSUME NEW j \in Seq(LineType), NEW run \in Nat, NEW wt
    PROVE  /\ wt \notin Known(j) => Cardinality(ClaimsOf(j, wt, run)) = 0
           /\ (\A i \in DOMAIN j : j[i].run <= run) =>
                Cardinality(ClaimsOf(j, wt, run + 1)) = 0
<1>1. wt \notin Known(j) => ClaimsOf(j, wt, run) = {}
  BY DEF ClaimsOf, LinesOf, Known
<1>2. (\A i \in DOMAIN j : j[i].run <= run) => ClaimsOf(j, wt, run + 1) = {}
  <2>1. \A i \in DOMAIN j : j[i] \in LineType
    BY LenProperties, ElementOfSeq
  <2>2. \A i \in DOMAIN j : j[i].run \in Nat
    BY <2>1 DEF LineType
  <2> QED BY <2>2 DEF ClaimsOf, LinesOf
<1> QED BY <1>1, <1>2, FS_EmptySet

\* The bound on the lines' processes, and on the claims, when no claim is added.
LEMMA NoClaimStep ==
    ASSUME MemoryInv, SearchInv, BudgetInv, [Next]_vars,
           ~Posts
    PROVE  /\ \A wt, run : ClaimsOf(journal', wt, run) = ClaimsOf(journal, wt, run)
           /\ \A i \in DOMAIN journal' : journal'[i].run <= processes
<1>1. PICK k : Effect(k)
  BY NextEffect
<1>2. /\ journal \in Seq(LineType) /\ k \in Seq(LineType) /\ journal' = journal \o k
      /\ \A i \in DOMAIN k : k[i].type # "claim_posted"
      /\ processes \in Nat
  BY <1>1 DEF Effect, MemoryInv, MemoryTypeOK
<1>3. \A wt, run : ClaimsOf(journal', wt, run) = ClaimsOf(journal, wt, run)
  BY <1>2, ClaimsKept
<1>4. \A i \in DOMAIN k : k[i].run <= processes
  BY <1>1, <1>2 DEF Effect, BudgetInv, Running
<1>5. \A i \in DOMAIN journal' : journal'[i].run <= processes
  <2> SUFFICES ASSUME NEW i \in DOMAIN journal'
               PROVE  journal'[i].run <= processes
    OBVIOUS
  <2>1. CASE i \in DOMAIN journal
    BY <1>2, <2>1, Concatenated DEF BudgetInv
  <2>2. CASE ~(i \in DOMAIN journal)
    <3>1. PICK m \in DOMAIN k : i = Len(journal) + m /\ journal'[i] = k[m]
      BY <1>2, <2>2, Concatenated
    <3> QED BY <1>4, <3>1
  <2> QED BY <2>1, <2>2
<1> QED BY <1>3, <1>5

\* The invariant in terms of what a step does to a worktree's count, when it
\* adds no claim.
LEMMA CountsKept ==
    ASSUME MemoryInv, SearchInv, BudgetInv, [Next]_vars,
           ~Posts,
           process' = process, processes' = processes,
           \A wt \in DOMAIN status' :
             \/ /\ wt \in DOMAIN status /\ budget'[wt].steps = budget[wt].steps
                /\ posting' = posting
             \/ /\ wt \in DOMAIN status /\ posting # wt /\ posting' # wt
                /\ budget'[wt].steps = budget[wt].steps
             \/ /\ posting = wt /\ posting' # wt /\ wt \in DOMAIN status
                /\ budget'[wt].steps = budget[wt].steps + 1
             \/ /\ wt \notin DOMAIN status /\ posting' # wt /\ Running
                /\ budget'[wt].steps = 0
    PROVE  BudgetInv'
<1>1. /\ \A wt, run : ClaimsOf(journal', wt, run) = ClaimsOf(journal, wt, run)
      /\ \A i \in DOMAIN journal' : journal'[i].run <= processes
  BY NoClaimStep
<1>2. /\ journal \in Seq(LineType) /\ process \in Nat /\ BudgetSteps \in Nat
      /\ Running => DOMAIN status = Known(journal)
  BY OrchestratorAssumption
     DEF MemoryInv, MemoryTypeOK, StatusFollowsJournal, FoldStatus
<1>3. \A wt \in Worktree, run \in Nat :
        Cardinality(ClaimsOf(journal', wt, run)) <= BudgetSteps + 1
  BY <1>1 DEF BudgetInv
<1>4. ASSUME NEW wt \in DOMAIN status'
      PROVE  /\ budget'[wt].steps <= BudgetSteps + 1
             /\ posting' = wt => budget'[wt].steps <= BudgetSteps
             /\ Cardinality(ClaimsOf(journal', wt, process')) <=
                  budget'[wt].steps + (IF posting' = wt THEN 1 ELSE 0)
  <2> DEFINE c == Cardinality(ClaimsOf(journal, wt, process))
  <2>1. Cardinality(ClaimsOf(journal', wt, process')) = c /\ c \in Nat
    BY <1>1, <1>2, ClaimsFinite
  <2> HIDE DEF c
  <2>2. CASE wt \in DOMAIN status
    <3>1. /\ budget[wt].steps \in Nat /\ budget[wt].steps <= BudgetSteps + 1
          /\ posting = wt => budget[wt].steps <= BudgetSteps
          /\ c <= budget[wt].steps + (IF posting = wt THEN 1 ELSE 0)
      BY <2>2 DEF BudgetInv, MemoryInv, MemoryTypeOK, c
    <3> QED BY <1>2, <1>4, <2>1, <2>2, <3>1
  <2>3. CASE wt \notin DOMAIN status
    <3>1. posting' # wt /\ Running /\ budget'[wt].steps = 0
      BY <1>4, <2>3
    <3>2. c = 0
      BY <1>2, <2>3, <3>1, NoClaimsYet DEF c
    <3> QED BY <1>2, <2>1, <3>1, <3>2
  <2> QED BY <2>2, <2>3
<1> QED BY <1>1, <1>3, <1>4 DEF BudgetInv

LEMMA PostBudget ==
    ASSUME MemoryInv, now \in Nat, BudgetInv,
           NEW wt, NEW sec \in CallBudgets, NEW phases, PostClaim(wt, sec, phases)
    PROVE  BudgetInv'
<1>1. /\ Running /\ posting = 0 /\ wt \in DOMAIN status /\ sec \in Budgets
      /\ journal' = Append(journal, Claimed(wt))
      /\ budget' = [budget EXCEPT ![wt] = WithLimit(budget[wt], sec)]
      /\ ~OverBudget(WithLimit(budget[wt], sec))
      /\ posting' = wt
      /\ UNCHANGED <<process, processes, status>>
  BY OrchestratorAssumption DEF PostClaim, Free
<1>2. /\ journal \in Seq(LineType) /\ process \in Nat /\ wt \in Worktree
      /\ DOMAIN budget = DOMAIN status /\ BudgetSteps \in Nat
      /\ \A w \in DOMAIN status :
           budget[w] \in [since : Nat, limit : Budgets, steps : Nat]
      /\ DOMAIN status \subseteq Worktree
  BY <1>1, OrchestratorAssumption DEF MemoryInv, MemoryTypeOK
<1>3. /\ Claimed(wt) \in LineType /\ Claimed(wt).type = "claim_posted"
      /\ Claimed(wt).wt = wt /\ Claimed(wt).run = process
  BY <1>2, LineTyped DEF Claimed, Line
<1>4. \A w, run : Cardinality(ClaimsOf(journal', w, run)) =
                   Cardinality(ClaimsOf(journal, w, run)) +
                   (IF w = wt /\ run = process THEN 1 ELSE 0)
  BY <1>1, <1>2, <1>3, ClaimsGrow
<1>5. /\ budget[wt].steps <= BudgetSteps /\ budget'[wt].steps = budget[wt].steps
      /\ \A w \in DOMAIN status : budget'[w].steps = budget[w].steps
  <2>1. WithLimit(budget[wt], sec).steps = budget[wt].steps
    BY <1>1, <1>2, BudgetTyped
  <2>2. budget[wt].steps \in Nat
    BY <1>1, <1>2
  <2> QED BY <1>1, <1>2, <2>1, <2>2 DEF OverBudget
<1>6. \A w, run : Cardinality(ClaimsOf(journal, w, run)) \in Nat
  BY <1>2, ClaimsFinite
<1>7. Cardinality(ClaimsOf(journal, wt, process)) <= budget[wt].steps
  <2>1. posting # wt
    BY <1>1, <1>2 DEF Worktree
  <2>2. budget[wt].steps \in Nat
    BY <1>1, <1>2
  <2> QED BY <1>1, <1>6, <2>1, <2>2 DEF BudgetInv
<1>8. \A w \in Worktree, run \in Nat :
        Cardinality(ClaimsOf(journal', w, run)) <= BudgetSteps + 1
  <2> SUFFICES ASSUME NEW w \in Worktree, NEW run \in Nat
               PROVE  Cardinality(ClaimsOf(journal', w, run)) <= BudgetSteps + 1
    OBVIOUS
  <2>1. CASE w = wt /\ run = process
    <3>1. budget[wt].steps \in Nat
      BY <1>1, <1>2
    <3> QED BY <1>2, <1>4, <1>5, <1>6, <1>7, <2>1, <3>1
  <2>2. CASE ~(w = wt /\ run = process)
    BY <1>4, <1>6, <2>2 DEF BudgetInv
  <2> QED BY <2>1, <2>2
<1>9. ASSUME NEW w \in DOMAIN status'
      PROVE  /\ budget'[w].steps <= BudgetSteps + 1
             /\ posting' = w => budget'[w].steps <= BudgetSteps
             /\ Cardinality(ClaimsOf(journal', w, process')) <=
                  budget'[w].steps + (IF posting' = w THEN 1 ELSE 0)
  <2>1. /\ budget[w].steps \in Nat /\ budget[w].steps <= BudgetSteps + 1
        /\ budget'[w].steps = budget[w].steps
        /\ posting # w
        /\ Cardinality(ClaimsOf(journal, w, process)) <= budget[w].steps
    <3>1. posting # w /\ w \in DOMAIN status
      BY <1>1, <1>2, <1>9 DEF Worktree
    <3>2. budget[w].steps \in Nat
      BY <1>2, <3>1
    <3> QED BY <1>5, <1>6, <3>1, <3>2 DEF BudgetInv
  <2>2. CASE w = wt
    BY <1>1, <1>2, <1>4, <1>5, <1>6, <2>1, <2>2
  <2>3. CASE w # wt
    BY <1>1, <1>2, <1>4, <1>5, <1>6, <2>1, <2>3
  <2> QED BY <2>2, <2>3
<1>10. \A i \in DOMAIN journal' : journal'[i].run <= processes
  <2> SUFFICES ASSUME NEW i \in DOMAIN journal' PROVE journal'[i].run <= processes
    OBVIOUS
  <2>1. (i \in DOMAIN journal /\ journal'[i] = journal[i]) \/ journal'[i] = Claimed(wt)
    BY <1>1, <1>2, <1>3, AppendProperties, LenProperties
  <2>2. process <= processes
    BY <1>1, <1>2 DEF BudgetInv, Running
  <2> QED BY <1>3, <2>1, <2>2 DEF BudgetInv
<1> QED BY <1>1, <1>8, <1>9, <1>10 DEF BudgetInv

LEMMA BudgetStep ==
    ASSUME MemoryInv, SearchInv, BudgetInv, MemoryInv', [Next]_vars
    PROVE  BudgetInv'
<1>1. /\ now \in Nat /\ journal \in Seq(LineType) /\ BudgetSteps \in Nat
      /\ DOMAIN budget = DOMAIN status /\ DOMAIN status \subseteq Worktree
      /\ processes \in Nat /\ process \in Nat
      /\ posting # 0 => posting \in DOMAIN status
      /\ \A wt \in DOMAIN status :
           budget[wt] \in [since : Nat, limit : Budgets, steps : Nat]
  BY OrchestratorAssumption DEF SearchInv, SearchTypeOK, MemoryInv, MemoryTypeOK
<1>2. CASE Posts
  BY <1>1, <1>2, PostBudget DEF Posts
<1>3. CASE Start
  <2>1. /\ UNCHANGED journal /\ processes' = processes + 1 /\ process' = processes + 1
        /\ posting' = posting /\ ~Running
        /\ status' = FoldStatus(journal)
        /\ budget' = [wt \in Known(journal) |-> FreshBudget]
    BY <1>3 DEF Start
  <2>2. posting' = 0 /\ DOMAIN status' = Known(journal) /\ Known(journal) \subseteq Worktree
    BY <1>1, <2>1, KnownFinite DEF MemoryInv, MemoryTypeOK, FoldStatus
  <2>3. \A wt : Cardinality(ClaimsOf(journal, wt, processes + 1)) = 0
    BY <1>1, NoClaimsYet DEF BudgetInv
  <2>4. \A i \in DOMAIN journal' : journal'[i].run <= processes'
    <3>1. \A i \in DOMAIN journal : journal[i] \in LineType
      BY <1>1, LenProperties, ElementOfSeq
    <3>2. \A i \in DOMAIN journal : journal[i].run \in Nat
      BY <3>1 DEF LineType
    <3> QED BY <1>1, <2>1, <3>2 DEF BudgetInv
  <2>5. \A wt \in DOMAIN status' : budget'[wt].steps = 0 /\ posting' # wt
    BY <2>1, <2>2 DEF FreshBudget, Worktree
  <2> QED BY <1>1, <2>1, <2>3, <2>4, <2>5 DEF BudgetInv
<1>4. CASE End
  BY <1>1, <1>4 DEF End, BudgetInv, Nothing
<1>5. CASE ~Posts /\ ~Start /\ ~End
  <2>1. UNCHANGED <<process, processes>>
    BY <1>5 DEF Posts, Next, vars, SpawnWorktree, CheckClaim, FinishClaim, CheckStalls,
                Tick, RecordProgress, SetStatus, RefuseClaim
  <2>2. CASE SpawnWorktree
    <3> DEFINE wt == 1 + Max(DOMAIN status \cup {0})
    <3>1. /\ posting = 0 /\ posting' = 0 /\ Running
          /\ status' = Put(status, wt, "running")
          /\ budget' = Put(budget, wt, FreshBudget)
      BY <2>2 DEF SpawnWorktree, Free
    <3> HIDE DEF wt
    <3>2. wt \notin DOMAIN status
      <4> DEFINE f == [i \in 1..Len(journal) |-> journal[i].wt]
      <4>1. /\ Len(journal) \in Nat /\ DOMAIN journal = 1..Len(journal)
            /\ \A i \in 1..Len(journal) : journal[i] \in LineType
        BY <1>1, LenProperties, ElementOfSeq
      <4>2. \A i \in 1..Len(journal) : journal[i].wt \in Nat
        BY <4>1 DEF LineType, Worktree
      <4>3. DOMAIN status = Known(journal)
        BY <3>1 DEF MemoryInv, StatusFollowsJournal, FoldStatus
      <4>4. DOMAIN status \subseteq {f[i] : i \in 1..Len(journal)}
        BY <4>1, <4>3 DEF Known
      <4>5. f \in [1..Len(journal) -> Nat]
        BY <4>2
      <4> HIDE DEF f
      <4>6. /\ Max(DOMAIN status \cup {0}) \in Nat
            /\ \A x \in DOMAIN status : x <= Max(DOMAIN status \cup {0})
        BY <4>1, <4>4, <4>5, MaxOfListed
      <4> DEFINE m == Max(DOMAIN status \cup {0})
      <4>7. m \in Nat /\ (\A x \in DOMAIN status : x <= m) /\ wt = 1 + m
        BY <4>6 DEF wt
      <4> HIDE DEF m
      <4> SUFFICES ASSUME wt \in DOMAIN status PROVE FALSE
        OBVIOUS
      <4>8. wt <= m
        BY <4>7
      <4> QED BY <4>7, <4>8
    <3>3. \A w \in DOMAIN status' :
            /\ posting' # w
            /\ \/ w \in DOMAIN status /\ budget'[w] = budget[w]
               \/ w \notin DOMAIN status /\ budget'[w] = FreshBudget
      <4>1. DOMAIN status' \subseteq Worktree
        BY DEF MemoryInv, MemoryTypeOK
      <4> QED BY <1>1, <3>1, <3>2, <4>1 DEF Put, Worktree
    <3> QED BY <1>5, <2>1, <3>1, <3>3, CountsKept DEF FreshBudget
  <2>3. CASE FinishClaim
    <3>1. /\ posting # 0 /\ posting' = 0 /\ DOMAIN status' = DOMAIN status
          /\ budget' = [budget EXCEPT ![posting] =
                          [budget[posting] EXCEPT !.steps = @ + 1]]
      BY <2>3 DEF FinishClaim
    <3>2. [budget[posting] EXCEPT !.steps = @ + 1].steps = budget[posting].steps + 1
      BY <1>1, <3>1
    <3>3. \A w \in DOMAIN status' :
            /\ posting' # w
            /\ \/ w # posting /\ budget'[w] = budget[w]
               \/ w = posting /\ budget'[w].steps = budget[w].steps + 1
      BY <1>1, <3>1, <3>2 DEF Worktree
    <3> QED BY <1>1, <1>5, <2>1, <3>1, <3>3, CountsKept
  <2>4. CASE ~SpawnWorktree /\ ~FinishClaim
    <3>1. posting' = posting
      BY <1>5, <2>4 DEF Posts, Next, vars, CheckClaim, CheckStalls, Tick, RecordProgress,
                        SetStatus, RefuseClaim
    <3>2. DOMAIN status' = DOMAIN status
      BY <1>5, <2>4 DEF Posts, Next, vars, memory, CheckClaim, CheckStalls, Tick,
                        RecordProgress, SetStatus, RefuseClaim
    <3>3. \A w \in DOMAIN status' : budget'[w].steps = budget[w].steps
      <4>1. CASE \E wt \in Worktree : \E sec \in CallBudgets : RefuseClaim(wt, sec)
        <5>1. PICK wt \in Worktree, sec \in CallBudgets : RefuseClaim(wt, sec)
          BY <4>1
        <5>2. /\ wt \in DOMAIN status /\ sec \in Budgets
              /\ budget' = [budget EXCEPT ![wt] = WithLimit(budget[wt], sec)]
          BY <5>1, OrchestratorAssumption DEF RefuseClaim
        <5>3. WithLimit(budget[wt], sec).steps = budget[wt].steps
          BY <1>1, <5>2, BudgetTyped
        <5> QED BY <1>1, <3>2, <5>2, <5>3
      <4>2. CASE ~(\E wt \in Worktree : \E sec \in CallBudgets : RefuseClaim(wt, sec))
        <5>1. budget' = budget
          BY <1>5, <2>4, <4>2 DEF Posts, Next, vars, memory, CheckClaim, CheckStalls, Tick,
                                  RecordProgress, SetStatus
        <5> QED BY <5>1
      <4> QED BY <4>1, <4>2
    <3> QED BY <1>5, <2>1, <3>1, <3>2, <3>3, CountsKept
  <2> QED BY <2>2, <2>3, <2>4
<1> QED BY <1>2, <1>3, <1>4, <1>5

\* A process lets a worktree post at most one claim beyond its steps.
THEOREM BudgetsAreEnforced == Spec => []BudgetIsEnforced
<1>1. Init => BudgetInv
  BY OrchestratorAssumption, FS_EmptySet
     DEF Init, BudgetInv, Nothing, ClaimsOf, LinesOf
<1>2. /\ MemoryInv /\ SearchInv /\ BudgetInv /\ MemoryInv' /\ [Next]_vars
      => BudgetInv'
  BY BudgetStep
<1>3. MemoryInv /\ BudgetInv => BudgetIsEnforced
  <2> SUFFICES ASSUME MemoryInv, BudgetInv PROVE BudgetIsEnforced
    OBVIOUS
  <2>1. Known(journal) \subseteq Worktree
    BY KnownFinite DEF MemoryInv, MemoryTypeOK
  <2> QED BY <2>1 DEF BudgetIsEnforced, BudgetInv
<1> QED BY <1>1, <1>2, <1>3, MemoryInvariant, PTL DEF Spec
=============================================================================
