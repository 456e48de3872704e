---------------------------- MODULE Orchestrator ----------------------------
(***************************************************************************)
(* The orchestrator (orchestrator.py) over the worktrees of a session:     *)
(* claims that are checked when they are posted, budgets, stalls.          *)
(*                                                                         *)
(* Only one process runs here at a time (EngineBoard has the concurrent    *)
(* commands).  It rebuilds its state from the journal when it starts, can  *)
(* be killed at any moment, and keeps in memory only what a worktree used  *)
(* up of its budget and when it was last active.  Every append succeeds;   *)
(* a spawn's two lines are one step (EngineBoard has the kill in between). *)
(***************************************************************************)
EXTENDS KillCheck, Sequences, FiniteSetsExt

CONSTANTS
    Threshold,      \* stall_threshold_sec
    BudgetSteps,    \* default_budgets["budget_steps"]
    CallBudgets,    \* budget_sec of a call that posts a claim
    SetStatuses,    \* statuses that callers set
    MaxWorktrees, MaxTime, MaxProcesses,   \* bounds
    MaxLines       \* bound: lines and reports, see Room

Statuses ==
    {"running", "stalled", "waiting_on_user", "stopped_error",
     "panel-verified", "completed", "stopped_budget", "stopped_stalled"}

ASSUME OrchestratorAssumption ==
    /\ Threshold \in Nat /\ BudgetSteps \in Nat
    /\ CallBudgets \subseteq Budgets
    /\ SetStatuses \subseteq Statuses
    /\ MaxWorktrees \in Nat /\ MaxTime \in Nat
    /\ MaxLines \in Nat /\ MaxProcesses \in Nat

VARIABLES
    journal,    \* the worktrees' lines of journal.jsonl
    progress,   \* per worktree: when its last progress report was written
    process,    \* run id of the running process, or 0
    processes,  \* how many were started
    status,     \* per worktree: its status in the process's memory
    last,       \* _last_activity
    budget,     \* _budgets
    posting,    \* the worktree whose claim is being checked, or 0
    report      \* what a check for stalls looked at and returned, or NoReport

memory == <<status, last, budget>>
vars == <<journal, progress, process, processes, memory, posting, report,
          search, now>>

(***************************************************************************)
(* The journal and its folds                                               *)
(***************************************************************************)
Worktree == Nat \ {0}

Line(type, wt, reason) ==
    [type |-> type, wt |-> wt, reason |-> reason, run |-> process, at |-> now]

Spawned(wt)            == Line("running", wt, "spawn")
StatusSet(wt, st, why) == Line(st, wt, why)
Claimed(wt)            == Line("claim_posted", wt, "")
Routed(wt)             == Line("claim_routed", wt, "")

LinesOf(j, wt) == {i \in DOMAIN j : j[i].wt = wt}
StatusLinesOf(j, wt) ==
    {i \in LinesOf(j, wt) : j[i].type \notin {"claim_posted", "claim_routed"}}

ClaimsOf(j, wt, run) ==
    {i \in LinesOf(j, wt) : j[i].type = "claim_posted" /\ j[i].run = run}

Known(j) == {j[i].wt : i \in DOMAIN j}

\* fold_worktrees: the last status line of each worktree counts.
FoldStatus(j) == [wt \in Known(j) |-> j[Max(StatusLinesOf(j, wt))].type]

(***************************************************************************)
(* A process                                                               *)
(***************************************************************************)
FreshBudget == [since |-> now, limit |-> NoBudget, steps |-> 0]

\* budget_sec and budget_steps of a worktree.
OverBudget(b) == Exceeded(b.limit, b.since, now) \/ b.steps > BudgetSteps

Nothing == [wt \in {} |-> 0]
Put(f, wt, value) == [w \in DOMAIN f \cup {wt} |-> IF w = wt THEN value ELSE f[w]]
NoReport == [lines |-> 0, at |-> 0, stalled |-> {}]

Init ==
    /\ journal = <<>> /\ progress = Nothing
    /\ process = 0 /\ processes = 0
    /\ status = Nothing /\ last = Nothing /\ budget = Nothing
    /\ posting = 0 /\ search = NoSearch /\ now = 0
    /\ report = NoReport

Running == process # 0
Free == Running /\ posting = 0
\* Room for so many lines within the bound, which counts the progress reports
\* and leaves out the routing of claims.
Room(lines) ==
    Cardinality({i \in DOMAIN journal : journal[i].type # "claim_routed"})
        + Cardinality(DOMAIN progress) + lines <= MaxLines

\* Mutated form: every worktree is taken to run, whatever its last status.
StartUnfolded ==
    /\ ~Running /\ processes < MaxProcesses
    /\ process' = processes + 1 /\ processes' = processes + 1
    /\ status' = [wt \in Known(journal) |-> "running"]
    /\ last' = [wt \in Known(journal) |-> now]
    /\ budget' = [wt \in Known(journal) |-> FreshBudget]
    /\ report' = NoReport
    /\ UNCHANGED <<journal, progress, posting, search, now>>
\* __init__ and _rehydrate: the clocks and the budgets start anew.
Start ==
    /\ ~Running /\ processes < MaxProcesses
    /\ process' = processes + 1 /\ processes' = processes + 1
    /\ status' = FoldStatus(journal)
    /\ last' = [wt \in Known(journal) |-> now]
    /\ budget' = [wt \in Known(journal) |-> FreshBudget]
    /\ report' = NoReport
    /\ UNCHANGED <<journal, progress, posting, search, now>>

\* The command ends or is killed, also while a claim is being checked.
End ==
    /\ Running
    /\ process' = 0 /\ posting' = 0 /\ search' = NoSearch
    /\ status' = Nothing /\ last' = Nothing /\ budget' = Nothing
    /\ report' = NoReport
    /\ UNCHANGED <<journal, progress, processes, now>>

\* Mutated form: the new worktree gets no budget.
SpawnUnbudgeted ==
    LET wt == 1 + Max(DOMAIN status \cup {0}) IN
    /\ Free /\ Room(1) /\ wt <= MaxWorktrees
    /\ journal' = Append(journal, Spawned(wt))
    /\ status' = Put(status, wt, "running")
    /\ last' = Put(last, wt, now)
    /\ report' = NoReport
    /\ UNCHANGED <<progress, process, processes, budget, posting, search, now>>
\* The next id, a line, and fresh entries in the memory of the process.
SpawnWorktree ==
    LET wt == 1 + Max(DOMAIN status \cup {0}) IN
    /\ Free /\ Room(1) /\ wt <= MaxWorktrees
    /\ journal' = Append(journal, Spawned(wt))
    /\ status' = Put(status, wt, "running")
    /\ last' = Put(last, wt, now)
    /\ budget' = Put(budget, wt, FreshBudget)
    /\ report' = NoReport
    /\ UNCHANGED <<progress, process, processes, posting, search, now>>

SetStatus(wt, st) ==
    /\ Free /\ Room(1) /\ wt \in DOMAIN status
    /\ journal' = Append(journal, StatusSet(wt, st, "command"))
    /\ status' = [status EXCEPT ![wt] = st]
    /\ last' = [last EXCEPT ![wt] = now]
    /\ report' = NoReport
    /\ UNCHANGED <<progress, process, processes, budget, posting, search, now>>

\* The budget of the call replaces the worktree's, also for later calls.
WithLimit(b, sec) == IF sec = NoBudget THEN b ELSE [b EXCEPT !.limit = sec]

\* post_and_check_claim, refused: the budget is used up.
RefuseClaim(wt, sec) ==
    LET b == WithLimit(budget[wt], sec) IN
    /\ Free /\ Room(1) /\ wt \in DOMAIN status
    /\ OverBudget(b)
    /\ budget' = [budget EXCEPT ![wt] = b]
    /\ journal' = Append(journal, StatusSet(wt, "stopped_budget", "budget"))
    /\ status' = [status EXCEPT ![wt] = "stopped_budget"]
    /\ last' = [last EXCEPT ![wt] = now]
    /\ report' = NoReport
    /\ UNCHANGED <<progress, process, processes, posting, search, now>>

\* Mutated form: a worktree that used up its budget may go on.
PostClaimAnyway(wt, sec, phases) ==
    /\ Free /\ Room(1) /\ wt \in DOMAIN status
    /\ budget' = [budget EXCEPT ![wt] = WithLimit(@, sec)]
    /\ journal' = Append(journal, Claimed(wt))
    /\ StartSearch(phases, sec)
    /\ posting' = wt
    /\ report' = NoReport
    /\ UNCHANGED <<progress, process, processes, status, last, now>>
\* post_and_check_claim: the claim is on the board before it is checked.
PostClaim(wt, sec, phases) ==
    LET b == WithLimit(budget[wt], sec) IN
    /\ Free /\ Room(1) /\ wt \in DOMAIN status
    /\ ~OverBudget(b)
    /\ budget' = [budget EXCEPT ![wt] = b]
    /\ journal' = Append(journal, Claimed(wt))
    /\ StartSearch(phases, sec)
    /\ posting' = wt
    /\ report' = NoReport
    /\ UNCHANGED <<progress, process, processes, status, last, now>>

CheckClaim ==
    /\ posting # 0
    /\ SearchStep
    /\ report' = NoReport
    /\ UNCHANGED <<journal, progress, process, processes, memory, posting, now>>

\* Mutated form: the activity is not recorded.
FinishClaimSilently ==
    LET b      == [budget[posting] EXCEPT !.steps = @ + 1]
        over   == OverBudget(b)
        routed == Append(journal, Routed(posting))
    IN
    /\ posting # 0 /\ search.pc = "done"
    /\ budget' = [budget EXCEPT ![posting] = b]
    /\ journal' = IF over
                  THEN Append(routed, StatusSet(posting, "stopped_budget", "budget"))
                  ELSE routed
    /\ status' = IF over THEN [status EXCEPT ![posting] = "stopped_budget"]
                 ELSE status
    /\ last' = last
    /\ posting' = 0 /\ search' = NoSearch
    /\ report' = NoReport
    /\ UNCHANGED <<progress, process, processes, now>>
\* The claim is routed and counted against the budget.
FinishClaim ==
    LET b      == [budget[posting] EXCEPT !.steps = @ + 1]
        over   == OverBudget(b)
        routed == Append(journal, Routed(posting))
    IN
    /\ posting # 0 /\ search.pc = "done"
    /\ budget' = [budget EXCEPT ![posting] = b]
    /\ journal' = IF over
                  THEN Append(routed, StatusSet(posting, "stopped_budget", "budget"))
                  ELSE routed
    /\ status' = IF over THEN [status EXCEPT ![posting] = "stopped_budget"]
                 ELSE status
    /\ last' = [last EXCEPT ![posting] = now]
    /\ posting' = 0 /\ search' = NoSearch
    /\ report' = NoReport
    /\ UNCHANGED <<progress, process, processes, now>>

RecordProgress(wt) ==
    /\ Free /\ Room(IF wt \in DOMAIN progress THEN 0 ELSE 1) /\ wt \in DOMAIN last
    /\ progress' = Put(progress, wt, now)
    /\ last' = [last EXCEPT ![wt] = now]
    /\ report' = NoReport
    /\ UNCHANGED <<journal, process, processes, status, budget, posting, search, now>>

\* Only a worktree whose status is "running" can stall.
Overdue == {wt \in DOMAIN last : status[wt] = "running" /\ now - last[wt] > Threshold}

\* A set of worktrees in the order in which they were spawned.
Enumerations(wts) ==
    {order \in [1..Cardinality(wts) -> wts] :
        /\ \A wt \in wts : \E i \in DOMAIN order : order[i] = wt
        /\ \A i, k \in DOMAIN order : i < k => order[i] < order[k]}

CheckStalls ==
    /\ Free /\ Room(Cardinality(Overdue))
    /\ \E order \in Enumerations(Overdue) :
         journal' = journal \o
             [i \in 1..Cardinality(Overdue) |->
                 StatusSet(order[i], "stalled", "stall")]
    /\ status' = [wt \in DOMAIN status |->
                     IF wt \in Overdue THEN "stalled" ELSE status[wt]]
    /\ last' = [wt \in DOMAIN last |-> IF wt \in Overdue THEN now ELSE last[wt]]
    /\ report' = [lines |-> Len(journal), at |-> now, stalled |-> Overdue]
    /\ UNCHANGED <<progress, process, processes, budget, posting, search, now>>

Tick ==
    /\ now < MaxTime /\ now' = now + 1
    /\ report' = NoReport
    /\ UNCHANGED <<journal, progress, process, processes, memory, posting, search>>

Next ==
    \/ Start \/ End \/ SpawnWorktree \/ CheckClaim \/ FinishClaim
    \/ CheckStalls \/ Tick
    \/ \E wt \in Worktree \cap 1..MaxWorktrees :
        \/ RecordProgress(wt)
        \/ \E st \in SetStatuses : SetStatus(wt, st)
        \/ \E sec \in CallBudgets :
            \/ RefuseClaim(wt, sec)
            \/ \E phases \in PhaseCounts : PostClaim(wt, sec, phases)

Spec == Init /\ [][Next]_vars

(***************************************************************************)
(* Properties                                                              *)
(***************************************************************************)
LineType ==
    [type : Statuses \cup {"claim_posted", "claim_routed"},
     wt : Worktree, reason : {"spawn", "command", "stall", "budget", ""},
     run : Nat, at : Nat]

MemoryTypeOK ==
    /\ journal \in Seq(LineType)
    /\ process \in Nat /\ processes \in Nat /\ posting \in Nat
    /\ DOMAIN last = DOMAIN status /\ DOMAIN budget = DOMAIN status
    /\ DOMAIN status \subseteq Worktree
    /\ \A wt \in DOMAIN status :
        /\ last[wt] \in Nat
        /\ budget[wt] \in [since : Nat, limit : Budgets, steps : Nat]
    /\ \A wt \in DOMAIN progress : progress[wt] \in Nat
    /\ posting # 0 => posting \in DOMAIN status

\* The journal and the memory of the process have their types: a process knows
\* the same worktrees by status, last activity and budget (orchestrator.py:
\* 104-123, 143-149), and checks claims of these only.
TypeOK == SearchTypeOK /\ MemoryTypeOK

\* What a process believes of a worktree's status (orchestrator.py:119-122,
\* worktree.py:43) is what every other process folds from the journal.
StatusFollowsJournal == Running => status = FoldStatus(journal)

\* A process lets a worktree post at most one claim more than its budget has
\* steps (orchestrator.py:190-194 refuses, 232-239 counts), whatever time
\* budgets its callers pass and whatever statuses they set in between.
BudgetIsEnforced ==
    \A wt \in Known(journal), run \in 1..processes :
        Cardinality(ClaimsOf(journal, wt, run)) <= BudgetSteps + 1

\* A worktree is only declared stalled (orchestrator.py:274-299) when nothing
\* the journal tells of it is as young as the threshold.
StalledWasIdle ==
    \A i \in DOMAIN journal : journal[i].reason = "stall" =>
        \A k \in 1..(i - 1) : journal[k].wt = journal[i].wt =>
            journal[i].at - journal[k].at > Threshold

\* Every check for stalls finds each running worktree of which neither the
\* journal nor a progress report tells anything as young as the threshold
\* (cli.py:1553 "Detect stalled worktrees (emit stall_detected if threshold
\* exceeded)").
StallsAreFound ==
    LET seen == SubSeq(journal, 1, report.lines) IN
    \A wt \in Known(seen) :
        \/ FoldStatus(seen)[wt] # "running"
        \/ \E i \in LinesOf(seen, wt) : report.at - seen[i].at <= Threshold
        \/ wt \in DOMAIN progress /\ report.at - progress[wt] <= Threshold
        \/ wt \in report.stalled
=============================================================================
