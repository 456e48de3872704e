---------------------------- MODULE EngineBoard ----------------------------
(***************************************************************************)
(* The claims board under the engine's command line.                       *)
(*                                                                         *)
(* Every command of the engine is a process of its own: it replays the     *)
(* journal once, works on what it read, and appends its events one line at *)
(* a time.  There is no lock, and the agent runs the tool calls of a turn  *)
(* in parallel, so any number of commands interleave; a command that       *)
(* outlives its bridge timeout is killed between two of its steps.         *)
(*                                                                         *)
(* Modelled commands: worktree spawn, worktree status, claim post and      *)
(* orchestrator request-panel.  A command that exits with an error writes  *)
(* nothing and is a stuttering step.  A failed append is not modelled.     *)
(***************************************************************************)
EXTENDS BoardJournal

CONSTANTS
    Procs,        \* slots for concurrently running engine processes
    Presets,      \* the family sets of the presets a panel is asked from
    FromBoard,    \* request_panel's card = None: read the board's card
    CardArgs,     \* what callers pass as the panel's card
    StatusArgs,   \* the statuses callers set
    StrayClaims,  \* ids callers may name although no command minted them
    Limit         \* bound: how often each command is started, and kills

Commands == {"spawn", "status", "post", "panel", "kill"}

ASSUME EngineAssumption ==
    /\ Presets \subseteq SUBSET Families
    /\ \A preset \in Presets : IsFiniteSet(preset)
    /\ FromBoard \notin Cards
    /\ CardArgs \subseteq Cards \cup {FromBoard}
    /\ StatusArgs \subseteq Statuses
    /\ StrayClaims \subseteq Nat \ {0}
    /\ IsFiniteSet(StrayClaims)
    /\ Limit \in [Commands -> Nat]

VARIABLES
    journal,   \* journal.jsonl
    run,       \* per slot: where its command stands and its local variables
    started,   \* how often each command was started (bounds the model)
    orphans    \* history: claims whose post was killed before its routing

vars == <<journal, run, started, orphans>>

(***************************************************************************)
(* Local state of a command between two steps.                             *)
(***************************************************************************)
Id == Nat \ {0}

Idle == [pc |-> "idle"]

PostRun(pc, wt, claim, card) ==
    [pc |-> pc, wt |-> wt, claim |-> claim, card |-> card]

PanelRun(pc, claim, wt, card, caller, preset, path) ==
    [pc |-> pc, claim |-> claim, wt |-> wt, card |-> card,
     caller |-> caller, preset |-> preset, path |-> path]

RunState ==
    [pc : {"idle"}]
    \cup [pc : {"spawn"}, wt : Id, family : Families]
    \cup [pc : {"running"}, wt : Id]
    \cup [pc : {"status"}, wt : Id, status : Statuses]
    \cup [pc : {"post", "check", "route"}, wt : Id, claim : Id, card : Cards]
    \cup [pc : {"decide"}, claim : Id, wt : Id, card : Cards,
          caller : Families, preset : Presets, path : {"undecided"}]
    \cup [pc : {"record", "verdict"}, claim : Id, wt : Id, card : Cards,
          caller : Families, preset : Presets, path : Paths]

Event ==
    [type : {"worktree_spawned"}, worktree : Id, family : Families]
    \cup [type : {"worktree_status_changed"}, worktree : Id, status : Statuses]
    \cup [type : {"claim_posted"}, claim : Id, worktree : Id, card : Cards]
    \cup [type : {"tier0_checked"}, claim : Id]
    \cup [type : {"claim_verification_routed"}, claim : Id, path : Paths]
    \cup [type : {"panel_verdict_issued"}, claim : Id, worktree : Id,
          path : Paths, caller : Families, families : SUBSET Families,
          verdict : {"panel-verified", "advisory-only", "tier0-routed"}]

Init ==
    /\ journal = <<>>
    /\ run = [p \in Procs |-> Idle]
    /\ started = [c \in Commands |-> 0]
    /\ orphans = {}

Start(c) ==
    /\ started[c] < Limit[c]
    /\ started' = [started EXCEPT ![c] = @ + 1]

Enter(p, state) == run' = [run EXCEPT ![p] = state]

Write(event) == journal' = Append(journal, event)

(***************************************************************************)
(* worktree spawn: replay, mint an id, append the spawn and its status.    *)
(***************************************************************************)
SpawnRead(p) ==
    /\ run[p].pc = "idle"
    /\ Start("spawn")
    /\ \E family \in Families :
          Enter(p, [pc |-> "spawn", wt |-> NextId(WorktreeIds(journal)),
                    family |-> family])
    /\ UNCHANGED <<journal, orphans>>

SpawnWrite(p) ==
    /\ run[p].pc = "spawn"
    /\ Write(WorktreeSpawned(run[p].wt, run[p].family))
    /\ Enter(p, [pc |-> "running", wt |-> run[p].wt])
    /\ UNCHANGED <<started, orphans>>

SpawnRunning(p) ==
    /\ run[p].pc = "running"
    /\ Write(StatusChanged(run[p].wt, "running"))
    /\ Enter(p, Idle)
    /\ UNCHANGED <<started, orphans>>

(***************************************************************************)
(* worktree status: any known worktree takes any allowed status.           *)
(***************************************************************************)
StatusRead(p) ==
    /\ run[p].pc = "idle"
    /\ Start("status")
    /\ \E wt \in WorktreeIds(journal), status \in StatusArgs :
          Enter(p, [pc |-> "status", wt |-> wt, status |-> status])
    /\ UNCHANGED <<journal, orphans>>

StatusWrite(p) ==
    /\ run[p].pc = "status"
    /\ Write(StatusChanged(run[p].wt, run[p].status))
    /\ Enter(p, Idle)
    /\ UNCHANGED <<started, orphans>>

(***************************************************************************)
(* claim post: replay, mint an id, post, kill-check, route tier0.  The     *)
(* command line sets no kill-check budget, so the check always completes.  *)
(***************************************************************************)
PostRead(p) ==
    /\ run[p].pc = "idle"
    /\ Start("post")
    /\ \E wt \in WorktreeIds(journal), card \in Cards :
          Enter(p, PostRun("post", wt, NextId(BoardIds(journal)), card))
    /\ UNCHANGED <<journal, orphans>>

PostWrite(p) ==
    /\ run[p].pc = "post"
    /\ Write(ClaimPosted(run[p].claim, run[p].wt, run[p].card))
    /\ Enter(p, [run[p] EXCEPT !.pc = "check"])
    /\ UNCHANGED <<started, orphans>>

CheckWrite(p) ==
    /\ run[p].pc = "check"
    /\ Write(Tier0Checked(run[p].claim))
    /\ Enter(p, [run[p] EXCEPT !.pc = "route"])
    /\ UNCHANGED <<started, orphans>>

\* Mutated form: the command ends without recording the routing.
RouteNothing(p) ==
    /\ run[p].pc = "route"
    /\ Enter(p, Idle)
    /\ UNCHANGED <<journal, started, orphans>>

RouteWrite(p) ==
    /\ run[p].pc = "route"
    /\ Write(ClaimRouted(run[p].claim, "tier0"))
    /\ Enter(p, Idle)
    /\ UNCHANGED <<started, orphans>>

(***************************************************************************)
(* orchestrator request-panel: find the caller and the card, decide the    *)
(* path from a fresh replay, record the routing, then the verdict.         *)
(* Of the two replays behind the decision only one matters: the attempted  *)
(* test for a card with a check, the reliability table for the others.     *)
(* Neither the claim id nor a supplied card is looked up on the board.     *)
(***************************************************************************)
PanelCards(claim) ==
    (CardArgs \ {FromBoard})
    \cup IF FromBoard \in CardArgs /\ claim \in PostedIds(journal)
         THEN {CardOf(journal, claim)} ELSE {}

PanelRead(p) ==
    /\ run[p].pc = "idle"
    /\ Start("panel")
    /\ \E claim \in BoardIds(journal) \cup StrayClaims,
          wt \in WorktreeIds(journal), preset \in Presets :
          \E card \in PanelCards(claim) :
             Enter(p, PanelRun("decide", claim, wt, card,
                               FamilyOf(journal, wt), preset, "undecided"))
    /\ UNCHANGED <<journal, orphans>>

PanelDecide(p) ==
    /\ run[p].pc = "decide"
    /\ Enter(p, [run[p] EXCEPT
                    !.pc = "record",
                    !.path = RouteForClaim(journal, run[p].claim, run[p].card,
                                           run[p].caller, run[p].preset)])
    /\ UNCHANGED <<journal, started, orphans>>

\* Mutated form: the decision stays implicit.
SkipRecord(p) ==
    /\ run[p].pc = "record"
    /\ Enter(p, [run[p] EXCEPT !.pc = "verdict"])
    /\ UNCHANGED <<journal, started, orphans>>

PanelRecord(p) ==
    /\ run[p].pc = "record"
    /\ Write(ClaimRouted(run[p].claim, run[p].path))
    /\ Enter(p, [run[p] EXCEPT !.pc = "verdict"])
    /\ UNCHANGED <<started, orphans>>

PanelVerdictWrite(p) ==
    /\ run[p].pc = "verdict"
    /\ Write(PanelVerdict(run[p].claim, run[p].wt, run[p].path, run[p].caller,
                          Eligible(run[p].preset, run[p].caller)))
    /\ Enter(p, Idle)
    /\ UNCHANGED <<started, orphans>>

(***************************************************************************)
(* The bridge kills a command that exceeds its timeout.                    *)
(***************************************************************************)
Kill(p) ==
    /\ run[p].pc # "idle"
    /\ Start("kill")
    /\ Enter(p, Idle)
    /\ orphans' = IF run[p].pc \in {"check", "route"}
                  THEN orphans \cup {run[p].claim} ELSE orphans
    /\ UNCHANGED journal

Continue(p) ==
    \/ SpawnWrite(p) \/ SpawnRunning(p)
    \/ StatusWrite(p)
    \/ PostWrite(p) \/ CheckWrite(p) \/ RouteWrite(p)
    \/ PanelDecide(p) \/ PanelRecord(p) \/ PanelVerdictWrite(p)

Step(p) ==
    \/ SpawnRead(p) \/ StatusRead(p) \/ PostRead(p) \/ PanelRead(p)
    \/ Continue(p)
    \/ Kill(p)

Next == \E p \in Procs : Step(p)

Spec == Init /\ [][Next]_vars

\* A started command keeps running; nobody has to start one.
FairSpec == Spec /\ \A p \in Procs : WF_vars(Continue(p))
-----------------------------------------------------------------------------
(***************************************************************************)
(* Properties of any number of concurrent, killable commands.              *)
(***************************************************************************)

\* The journal holds well-formed events and every command well-formed locals;
\* in particular every minted worktree and claim id is at least 1 (wt_001).
TypeOK ==
    /\ journal \in Seq(Event)
    /\ run \in [Procs -> RunState]
    /\ started \in [Commands -> Nat]
    /\ orphans \subseteq Id

\* Every panel verdict is preceded by the recorded routing decision it rests
\* on, of the same claim and the same path (panel_service.py: every claim gets
\* an explicit, recorded routing decision, never an implicit one).
VerdictsBackedByRouting ==
    \A i \in Verdicts(journal) :
        \E k \in RoutingsOf(journal, journal[i].claim) :
            k < i /\ journal[k].path = journal[i].path

\* panel-verified is granted only by families that are registered and differ
\* from the caller's, and by at least one of them, whatever other commands
\* wrote between the decision and the verdict.
PanelsAreIndependent ==
    \A i \in Verdicts(journal) :
        journal[i].verdict = "panel-verified" =>
            /\ journal[i].path = "tier2-verdict"
            /\ journal[i].families # {}
            /\ journal[i].families \cap {journal[i].caller, UnknownFamily} = {}

\* When panels take their card from the board, a panel-verified claim had been
\* posted before, with a card that Tier 0 cannot check; this survives commands
\* that race for the same claim id.
VerifiedClaimsWerePosted ==
    (CardArgs = {FromBoard}) =>
        \A i \in Verdicts(journal) :
            journal[i].verdict = "panel-verified" =>
                \E k \in Posts(journal) :
                    /\ k < i
                    /\ journal[k].claim = journal[i].claim
                    /\ ~Tier0Applicable(journal[k].card)

(***************************************************************************)
(* Properties of commands that run one at a time (a single process slot).  *)
(***************************************************************************)

\* No two spawns share an id (cli.py: the replay is there "so wt_002 etc. are
\* not re-allocated as wt_001").
UniqueWorktreeIds ==
    \A i, k \in Spawns(journal) :
        journal[i].worktree = journal[k].worktree => i = k

\* A tag that fell below the reliability threshold never recovers: its claims
\* only get advisory panels, and those lower its verdict rate further.
LowReliabilityIsAbsorbing ==
    [][\A tag \in Tags :
           LowReliability(journal, tag) => LowReliability(journal', tag)]_vars

\* An advisory-only routing of a claim that Tier 0 can check comes after the
\* check was run on that claim (bridge.md: such a claim "routes `tier0` and
\* must run Tier0 first").
AdvisoryOnlyAfterCheck ==
    \A i \in Routings(journal) :
        /\ journal[i].path = "tier2-advisory-only"
        /\ journal[i].claim \in PostedIds(journal)
        /\ Tier0Applicable(CardOf(journal, journal[i].claim))
        => \E k \in Checks(journal) :
               k < i /\ journal[k].claim = journal[i].claim

\* The claim ids that Limit["post"] posts can mint.
ClaimIds == 1..(Limit["post"] + Max(StrayClaims \cup {0}))

\* With one command at a time and panels that judge the board's own card, the
\* journal implements the abstract ledger: claim ids are never reused, a card
\* never changes, no claim Tier 0 can check is routed to a panel verdict, and
\* only claims so routed are verified.
Ledger == INSTANCE ClaimLedger WITH
    Ids      <- ClaimIds,
    ledger   <- [claim \in PostedIds(journal) |-> CardOf(journal, claim)],
    routes   <- {<<journal[i].claim, journal[i].path>> : i \in Routings(journal)},
    verified <- {journal[i].claim : i \in {k \in Verdicts(journal) :
                                       journal[k].verdict = "panel-verified"}}

BoardImplementsLedger == Ledger!Spec

(***************************************************************************)
(* Liveness                                                                *)
(***************************************************************************)

\* Every claim that reaches the board is eventually routed, unless the command
\* posting it was killed on the way.
PostedClaimsGetRouted ==
    \A claim \in ClaimIds :
        claim \in PostedIds(journal)
            ~> RoutingsOf(journal, claim) # {} \/ claim \in orphans
=============================================================================
