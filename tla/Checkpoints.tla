---------------------------- MODULE Checkpoints ----------------------------
(***************************************************************************)
(* The human checkpoints between the five stages, kept by two runtimes.    *)
(*                                                                         *)
(* An engine command that completes a stage mints the next cp_NNN from the *)
(* journal and appends checkpoint_reached; the agent's TypeScript session  *)
(* adopts the id the command reports.  worktree_status mints in the        *)
(* session instead, from a counter read from the journal once, when the    *)
(* session starts.  The human confirms or revises through a tool, which    *)
(* journals the decision, or a slash command, which does not.              *)
(*                                                                         *)
(* Only the session holds decisions while it runs; a new session starts    *)
(* empty and adopts what it is asked about from the journal.  Every write  *)
(* of a checkpoint event is best-effort: its failure is swallowed.         *)
(***************************************************************************)
EXTENDS Naturals, Sequences, FiniteSetsExt

CONSTANTS
    Calls,         \* slots for tool calls of one turn that run in parallel
    EngineStages,  \* the stages whose checkpoint an engine command mints
    OwnStage,      \* the stage whose checkpoint the session mints
    Interrupts,    \* may a command be cut off from the call that started it?
    Limit,         \* bound: how often each kind of step happens
    MaxFailures    \* bound: swallowed write failures

Steps == {"call", "status", "respond", "slash", "kill", "restart"}

ASSUME CheckpointsAssumption ==
    /\ OwnStage \notin EngineStages
    /\ Interrupts \in BOOLEAN
    /\ Limit \in [Steps -> Nat]
    /\ MaxFailures \in Nat

VARIABLES
    journal,   \* the checkpoint events of journal.jsonl
    records,   \* the session's checkpoints, by id
    counter,   \* the session's last minted or adopted id
    calls,     \* per slot: the engine command a tool call waits for
    started,   \* steps taken of each kind (bounds the model)
    failures   \* writes lost so far (bounds the model)

session == <<records, counter>>
vars == <<journal, records, counter, calls, started, failures>>

Id        == Nat \ {0}
Stages    == EngineStages \cup {OwnStage}
Decisions == {"confirm", "revise"}

Reached(cp, stage) ==
    [type |-> "checkpoint_reached", cp |-> cp, stage |-> stage]
Resolved(cp, decision, revision) ==
    [type |-> "checkpoint_resolved", cp |-> cp, decision |-> decision,
     revision |-> revision]

Event == [type : {"checkpoint_reached"}, cp : Id, stage : Stages]
         \cup [type : {"checkpoint_resolved"}, cp : Id, decision : Decisions,
               revision : Nat]

Record == [stage : Stages, status : {"pending", "confirmed"}, revision : Nat]

Idle == [pc |-> "idle"]
\* heard: the tool call that started the command is still waiting for it
Command == [pc : {"write", "report"}, stage : EngineStages, cp : Id,
            heard : BOOLEAN]

(***************************************************************************)
(* Folds of the journal.                                                   *)
(***************************************************************************)
ReachedAt(j, cp) ==
    {i \in DOMAIN j : j[i].type = "checkpoint_reached" /\ j[i].cp = cp}

ResolvedAt(j, cp) ==
    {i \in DOMAIN j : j[i].type = "checkpoint_resolved" /\ j[i].cp = cp}

ReachedIds(j) == {cp \in {j[i].cp : i \in DOMAIN j} : ReachedAt(j, cp) # {}}

\* The stage of the last checkpoint_reached of an id.
StageOf(j, cp) == j[Max(ReachedAt(j, cp))].stage

\* fold_checkpoints: reaching an id again makes it pending again.
StatusOf(j, cp) ==
    IF ReachedAt(j, cp) = {} THEN "none"
    ELSE IF \E i \in ResolvedAt(j, cp) : /\ i > Max(ReachedAt(j, cp))
                                         /\ j[i].decision = "confirm"
         THEN "confirmed" ELSE "pending"

\* Mutated forms: the engine does not look at the journal, or proposes the
\* highest id again.
MintFirst(j) == 1
MintHighest(j) == Max(ReachedIds(j) \cup {0})
\* The engine mints above every id that was reached.
Mint(j) == 1 + Max(ReachedIds(j) \cup {0})

\* Mutated form: a new session counts from zero.
RehydratedFromZero(j) == 0
\* A new session counts every line that names a checkpoint.
Rehydrated(j) == Max({j[i].cp : i \in DOMAIN j} \cup {0})

(***************************************************************************)
(* The session's store.                                                    *)
(***************************************************************************)
Pending(stage) == [stage |-> stage, status |-> "pending", revision |-> 0]

With(store, cp, record) ==
    [id \in DOMAIN store \cup {cp} |-> IF id = cp THEN record ELSE store[id]]

\* Mutated form: adopting replaces what the session already holds.
AdoptedAfresh(store, cp, stage) == With(store, cp, Pending(stage))
\* An id the session holds already keeps its record, decided or not.
Adopted(store, cp, stage) ==
    IF cp \in DOMAIN store THEN store ELSE With(store, cp, Pending(stage))

\* Mutated form: adoption leaves the counter behind.
CounterBehind(store, n, cp) == n
CounterAfter(store, n, cp) ==
    IF cp \notin DOMAIN store /\ cp > n THEN cp ELSE n

Decided(record, decision) ==
    IF decision = "confirm" THEN [record EXCEPT !.status = "confirmed"]
                            ELSE [record EXCEPT !.revision = @ + 1]

(***************************************************************************)
(* Behaviour                                                               *)
(***************************************************************************)
Init ==
    /\ journal = <<>>
    /\ records = <<>>
    /\ counter = 0
    /\ calls = [c \in Calls |-> Idle]
    /\ started = [s \in Steps |-> 0]
    /\ failures = 0

Start(s) ==
    /\ started[s] < Limit[s]
    /\ started' = [started EXCEPT ![s] = @ + 1]

BestEffort(event) ==
    \/ /\ journal' = Append(journal, event)
       /\ UNCHANGED failures
    \/ /\ failures < MaxFailures
       /\ failures' = failures + 1
       /\ UNCHANGED journal

\* initialise, literature, consolidate or review: the command reads the
\* journal and mints its id (consolidate reads it before its long work).
EngineMint(c) ==
    /\ calls[c].pc = "idle"
    /\ Start("call")
    /\ \E stage \in EngineStages :
          calls' = [calls EXCEPT ![c] =
                       [pc |-> "write", stage |-> stage, cp |-> Mint(journal),
                        heard |-> TRUE]]
    /\ UNCHANGED <<journal, session, failures>>

EngineWrite(c) ==
    /\ calls[c].pc = "write"
    /\ BestEffort(Reached(calls[c].cp, calls[c].stage))
    /\ calls' = [calls EXCEPT ![c] = IF calls[c].heard
                                     THEN [calls[c] EXCEPT !.pc = "report"]
                                     ELSE Idle]
    /\ UNCHANGED <<session, started>>

\* The tool call adopts the reported id and presents its card.
ToolAdopt(c) ==
    /\ calls[c].pc = "report"
    /\ records' = Adopted(records, calls[c].cp, calls[c].stage)
    /\ counter' = CounterAfter(records, counter, calls[c].cp)
    /\ calls' = [calls EXCEPT ![c] = Idle]
    /\ UNCHANGED <<journal, started, failures>>

\* The bridge kills a command that takes too long: the call fails, with or
\* without the event in the journal.
Timeout(c) ==
    /\ Interrupts
    /\ calls[c].pc # "idle"
    /\ Start("kill")
    /\ calls' = [calls EXCEPT ![c] = Idle]
    /\ UNCHANGED <<journal, session, failures>>

\* Mutated form: the session does not journal its own checkpoint.
ProposeUnjournaled(c) ==
    /\ calls[c].pc = "idle"
    /\ \A cp \in DOMAIN records :
          ~(records[cp].stage = OwnStage /\ records[cp].status = "pending")
    /\ Start("status")
    /\ counter' = counter + 1
    /\ records' = With(records, counter + 1, Pending(OwnStage))
    /\ UNCHANGED <<journal, calls, failures>>

\* worktree_status: propose checkpoint C unless one is pending.
ProposeOwn(c) ==
    /\ calls[c].pc = "idle"
    /\ \A cp \in DOMAIN records :
          ~(records[cp].stage = OwnStage /\ records[cp].status = "pending")
    /\ Start("status")
    /\ counter' = counter + 1
    /\ records' = With(records, counter + 1, Pending(OwnStage))
    /\ BestEffort(Reached(counter + 1, OwnStage))
    /\ UNCHANGED calls

\* checkpoint_respond: adopt the id if the session does not know it, then
\* record the decision.  An unusable decision ends after the adoption; on a
\* checkpoint already confirmed nothing happens.
Respond(cp) ==
    LET stage == IF cp \in DOMAIN records THEN records[cp].stage
                                          ELSE StageOf(journal, cp)
        known == Adopted(records, cp, stage)
    IN  /\ Start("respond")
        /\ counter' = CounterAfter(records, counter, cp)
        /\ \/ /\ cp \notin DOMAIN records
              /\ records' = known
              /\ UNCHANGED <<journal, failures>>
           \/ /\ known[cp].status = "pending"
              /\ \E decision \in Decisions :
                    LET record == Decided(known[cp], decision)
                    IN  /\ records' = With(known, cp, record)
                        /\ BestEffort(Resolved(cp, decision, record.revision))
        /\ UNCHANGED calls

\* /checkpoint confirm and /checkpoint revise act on the session alone.
Slash(cp) ==
    /\ records[cp].status = "pending"
    /\ Start("slash")
    /\ \E decision \in Decisions :
          records' = With(records, cp, Decided(records[cp], decision))
    /\ UNCHANGED <<journal, counter, calls, failures>>

\* The session ends and another one starts.  A command under way may outlive
\* the call that waited for it.
Restart ==
    /\ Interrupts \/ \A c \in Calls : calls[c].pc = "idle"
    /\ Start("restart")
    /\ records' = <<>>
    /\ counter' = Rehydrated(journal)
    /\ calls' = [c \in Calls |-> IF calls[c].pc = "write"
                                 THEN [calls[c] EXCEPT !.heard = FALSE]
                                 ELSE Idle]
    /\ UNCHANGED <<journal, failures>>

Next ==
    \/ \E c \in Calls : \/ EngineMint(c) \/ EngineWrite(c) \/ ToolAdopt(c)
                        \/ Timeout(c) \/ ProposeOwn(c)
    \/ \E cp \in DOMAIN records \cup ReachedIds(journal) : Respond(cp)
    \/ \E cp \in DOMAIN records : Slash(cp)
    \/ Restart

Spec == Init /\ [][Next]_vars
-----------------------------------------------------------------------------
(***************************************************************************)
(* Properties under any interleaving, interruption and write failure.      *)
(***************************************************************************)

\* The journal and the session hold well-formed checkpoints, numbered from 1.
TypeOK ==
    /\ journal \in Seq(Event)
    /\ DOMAIN records \subseteq Id
    /\ \A cp \in DOMAIN records : records[cp] \in Record
    /\ counter \in Nat
    /\ calls \in [Calls -> {Idle} \cup Command]
    /\ started \in [Steps -> Nat]
    /\ failures \in Nat

\* A checkpoint of a running session is never lost, never changes its stage,
\* never loses a revision and never goes back from confirmed, whatever ids
\* collide (checkpoints.ts: the SAME checkpoint is re-presented until
\* confirmed, and a confirmed one refuses further decisions).
DecisionsKept ==
    [][started'["restart"] = started["restart"] =>
           \A cp \in DOMAIN records :
               /\ cp \in DOMAIN records'
               /\ records'[cp].stage = records[cp].stage
               /\ records'[cp].revision >= records[cp].revision
               /\ records[cp].status = "confirmed" => records'[cp] = records[cp]
       ]_vars

(***************************************************************************)
(* Properties of a session whose commands run one at a time, uninterrupted *)
(* and with a writable journal; sessions still end and start again.        *)
(***************************************************************************)

\* Engine and session never mint the same id (bridge.md: "one sequence, two
\* runtimes").
UniqueCheckpointIds ==
    \A i, k \in DOMAIN journal :
        /\ journal[i].type = "checkpoint_reached"
        /\ journal[k].type = "checkpoint_reached"
        /\ journal[i].cp = journal[k].cp
        => i = k

\* A checkpoint that the journal holds as confirmed stays so, in this session
\* and in later ones.
ConfirmedIsFinal ==
    [][\A cp \in ReachedIds(journal) :
           StatusOf(journal, cp) = "confirmed" =>
               StatusOf(journal', cp) = "confirmed"]_vars

\* The card a tool presents is the checkpoint of its own stage: who confirms
\* it confirms that stage and no other.
CardIsOwnStage ==
    [][\A c \in Calls :
           calls[c].pc = "report" /\ calls[c].cp \in DOMAIN records' =>
               records'[calls[c].cp].stage = calls[c].stage]_vars

\* What the session holds as confirmed the journal does too (extension.ts: the
\* session "journals every propose/resolve").
ConfirmedIsJournaled ==
    \A cp \in DOMAIN records :
        records[cp].status = "confirmed" => StatusOf(journal, cp) = "confirmed"
=============================================================================
