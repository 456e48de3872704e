------------------------- MODULE EngineBoardProofs -------------------------
(***************************************************************************)
(* Proofs about EngineBoard, for every value of its constants.             *)
(***************************************************************************)
EXTENDS EngineBoard, Maxima, SequenceTheorems, FiniteSetTheorems

(***************************************************************************)
(* What the folds of a well-formed journal return.                         *)
(***************************************************************************)

\* The fields of the events a fold reads.
LEMMA EventFields ==
    ASSUME NEW j \in Seq(Event)
    PROVE  /\ \A i \in Spawns(j) : /\ i \in 1..Len(j)
                                   /\ j[i].worktree \in Id
                                   /\ j[i].family \in Families
           /\ \A i \in Posts(j) : /\ i \in 1..Len(j)
                                  /\ j[i].claim \in Id
                                  /\ j[i].card \in Cards
           /\ \A i \in Routings(j) : /\ i \in 1..Len(j)
                                     /\ j[i].claim \in Id
<1>1. DOMAIN j = 1..Len(j) /\ \A i \in 1..Len(j) : j[i] \in Event
  BY LenProperties, ElementOfSeq
<1>2. \A i \in Spawns(j) : i \in 1..Len(j) /\ j[i] \in Event
                           /\ j[i].type = "worktree_spawned"
  BY <1>1 DEF Spawns, Lines
<1>3. \A i \in Posts(j) : i \in 1..Len(j) /\ j[i] \in Event
                          /\ j[i].type = "claim_posted"
  BY <1>1 DEF Posts, Lines
<1>4. \A i \in Routings(j) : i \in 1..Len(j) /\ j[i] \in Event
                             /\ j[i].type = "claim_verification_routed"
  BY <1>1 DEF Routings, Lines
<1>5. \A e \in Event :
         /\ e.type = "worktree_spawned" => e.worktree \in Id /\ e.family \in Families
         /\ e.type = "claim_posted" => e.claim \in Id /\ e.card \in Cards
         /\ e.type = "claim_verification_routed" => e.claim \in Id
  BY DEF Event
<1> QED BY <1>2, <1>3, <1>4, <1>5

\* The ids a command finds in the journal are bounded, so that the next one
\* is a proper id above all of them.
LEMMA NextIdFresh ==
    ASSUME NEW ids \in SUBSET Id, NEW b \in Nat, \A x \in ids : x <= b
    PROVE  NextId(ids) \in Id /\ \A x \in ids : x < NextId(ids)
<1> DEFINE S == ids \cup {0}
<1>1. S \in SUBSET Nat /\ S # {} /\ \A x \in S : x <= b
  BY DEF Id
<1>2. Max(S) \in S /\ \A x \in S : x <= Max(S)
  <2> HIDE DEF S
  <2> QED BY <1>1, MaxInSet
<1>3. Max(S) \in Nat
  BY <1>1, <1>2
<1>4. NextId(ids) = 1 + Max(S)
  BY DEF NextId
<1> HIDE DEF S
<1>5. NextId(ids) \in Id
  BY <1>3, <1>4 DEF Id
<1>6. \A x \in ids : x < NextId(ids)
  <2> SUFFICES ASSUME NEW x \in ids PROVE x < NextId(ids)
    OBVIOUS
  <2>1. x \in Nat /\ x <= Max(S)
    BY <1>2, <1>1 DEF S
  <2> QED BY <2>1, <1>3, <1>4
<1> QED BY <1>5, <1>6

\* A freshly minted worktree id is above every id in the journal.
LEMMA FreshWorktree ==
    ASSUME NEW j \in Seq(Event)
    PROVE  /\ NextId(WorktreeIds(j)) \in Id
           /\ \A wt \in WorktreeIds(j) : wt < NextId(WorktreeIds(j))
<1> DEFINE f == [i \in 1..Len(j) |-> IF i \in Spawns(j) THEN j[i].worktree ELSE 0]
<1>1. Len(j) \in Nat /\ f \in [1..Len(j) -> Nat]
  BY EventFields, LenProperties DEF Id
<1>2. PICK b \in Nat : \A i \in 1..Len(j) : f[i] <= b
  <2> HIDE DEF f
  <2> QED BY <1>1, ListBounded
<1>3. WorktreeIds(j) \in SUBSET Id
  BY EventFields DEF WorktreeIds
<1>4. \A wt \in WorktreeIds(j) : wt <= b
  BY <1>2, EventFields DEF WorktreeIds
<1> QED BY <1>3, <1>4, NextIdFresh

\* A freshly minted claim id is above every id on the board.
LEMMA FreshClaim ==
    ASSUME NEW j \in Seq(Event)
    PROVE  /\ NextId(BoardIds(j)) \in Id
           /\ \A claim \in BoardIds(j) : claim < NextId(BoardIds(j))
<1> DEFINE f == [i \in 1..Len(j) |->
                    IF i \in Posts(j) \cup Routings(j) THEN j[i].claim ELSE 0]
<1>1. Len(j) \in Nat /\ f \in [1..Len(j) -> Nat]
  BY EventFields, LenProperties DEF Id
<1>2. PICK b \in Nat : \A i \in 1..Len(j) : f[i] <= b
  <2> HIDE DEF f
  <2> QED BY <1>1, ListBounded
<1>3. BoardIds(j) \in SUBSET Id
  BY EventFields DEF BoardIds, PostedIds
<1>4. \A claim \in BoardIds(j) : claim <= b
  BY <1>2, EventFields DEF BoardIds, PostedIds
<1> QED BY <1>3, <1>4, NextIdFresh

\* The family of a spawned worktree is the family of one of its spawns.
LEMMA FamilyOfSpawned ==
    ASSUME NEW j \in Seq(Event), NEW wt \in WorktreeIds(j)
    PROVE  FamilyOf(j, wt) \in Families
<1> DEFINE S == {i \in Spawns(j) : j[i].worktree = wt}
<1>1. S \in SUBSET Nat /\ S # {} /\ Len(j) \in Nat /\ \A i \in S : i <= Len(j)
  BY EventFields, LenProperties DEF WorktreeIds
<1>2. Max(S) \in S
  <2> HIDE DEF S
  <2> QED BY <1>1, MaxInSet
<1> QED BY <1>2, EventFields DEF FamilyOf

\* The card of a posted claim is the card of one of its posts.
LEMMA CardOfPosted ==
    ASSUME NEW j \in Seq(Event), NEW claim \in PostedIds(j)
    PROVE  \E k \in Posts(j) : /\ j[k].claim = claim
                               /\ j[k].card = CardOf(j, claim)
                               /\ CardOf(j, claim) \in Cards
<1> DEFINE S == {i \in Posts(j) : j[i].claim = claim}
<1>1. S \in SUBSET Nat /\ S # {} /\ Len(j) \in Nat /\ \A i \in S : i <= Len(j)
  BY EventFields, LenProperties DEF PostedIds
<1>2. Max(S) \in S
  <2> HIDE DEF S
  <2> QED BY <1>1, MaxInSet
<1> QED BY <1>2, EventFields DEF CardOf

\* Appending an event adds its line and disturbs no other.
LEMMA AppendLines ==
    ASSUME NEW j \in Seq(Event), NEW e \in Event, NEW type
    PROVE  /\ Append(j, e) \in Seq(Event)
           /\ \A i \in DOMAIN j : i \in DOMAIN Append(j, e) /\ Append(j, e)[i] = j[i]
           /\ \A i \in Lines(j, type) :
                 i \in Lines(Append(j, e), type) /\ Append(j, e)[i] = j[i]
           /\ \A i \in Lines(Append(j, e), type) :
                 \/ i \in Lines(j, type) /\ Append(j, e)[i] = j[i]
                 \/ i = Len(j) + 1 /\ e.type = type /\ Append(j, e)[i] = e
           /\ \A i \in Lines(j, type) : i < Len(j) + 1
<1> DEFINE j2 == Append(j, e)
<1>1. /\ j2 \in Seq(Event)
      /\ Len(j2) = Len(j) + 1
      /\ \A i \in 1..Len(j) : j2[i] = j[i]
      /\ j2[Len(j) + 1] = e
  BY AppendProperties
<1>2. DOMAIN j = 1..Len(j) /\ DOMAIN j2 = 1..(Len(j) + 1) /\ Len(j) \in Nat
  BY <1>1, LenProperties
<1> HIDE DEF j2
<1>3. \A i \in DOMAIN j2 : i \in DOMAIN j \/ i = Len(j) + 1
  BY <1>2, SMT
<1>4. \A i \in DOMAIN j : i \in DOMAIN j2 /\ j2[i] = j[i] /\ i < Len(j) + 1
  BY <1>1, <1>2, SMT
<1>5. \A i \in Lines(j, type) : i \in Lines(j2, type) /\ j2[i] = j[i]
  BY <1>4 DEF Lines
<1>6. \A i \in Lines(j2, type) :
         \/ i \in Lines(j, type) /\ j2[i] = j[i]
         \/ i = Len(j) + 1 /\ e.type = type /\ j2[i] = e
  BY <1>1, <1>3, <1>4 DEF Lines
<1> QED BY <1>1, <1>4, <1>5, <1>6 DEF j2, Lines

(***************************************************************************)
(* Type correctness.                                                       *)
(***************************************************************************)

\* The locals of a command, by the step it is about to take.
LEMMA RunFields ==
    ASSUME NEW r \in RunState
    PROVE  /\ r.pc = "spawn" => r.wt \in Id /\ r.family \in Families
           /\ r.pc = "running" => r.wt \in Id
           /\ r.pc = "status" => r.wt \in Id /\ r.status \in Statuses
           /\ r.pc \in {"post", "check", "route"} =>
                 /\ r.wt \in Id /\ r.claim \in Id /\ r.card \in Cards
                 /\ [r EXCEPT !.pc = "check"] \in RunState
                 /\ [r EXCEPT !.pc = "check"].claim = r.claim
                 /\ [r EXCEPT !.pc = "check"].pc = "check"
                 /\ [r EXCEPT !.pc = "route"] \in RunState
                 /\ [r EXCEPT !.pc = "route"].pc = "route"
           /\ r.pc \in {"decide", "record", "verdict"} =>
                 /\ r.wt \in Id /\ r.claim \in Id /\ r.card \in Cards
                 /\ r.caller \in Families /\ r.preset \in Presets
           /\ r.pc \in {"record", "verdict"} => r.path \in Paths
<1>1. CASE r \in [pc : {"idle"}]
  BY <1>1
<1>2. CASE r \in [pc : {"spawn"}, wt : Id, family : Families]
  BY <1>2
<1>3. CASE r \in [pc : {"running"}, wt : Id]
  BY <1>3
<1>4. CASE r \in [pc : {"status"}, wt : Id, status : Statuses]
  BY <1>4
<1>5. CASE r \in [pc : {"post", "check", "route"}, wt : Id, claim : Id,
                  card : Cards]
  BY <1>5 DEF RunState
<1>6. CASE r \in [pc : {"decide"}, claim : Id, wt : Id, card : Cards,
                  caller : Families, preset : Presets, path : {"undecided"}]
  BY <1>6
<1>7. CASE r \in [pc : {"record", "verdict"}, claim : Id, wt : Id,
                  card : Cards, caller : Families, preset : Presets,
                  path : Paths]
  BY <1>7
<1> QED BY <1>1, <1>2, <1>3, <1>4, <1>5, <1>6, <1>7 DEF RunState

\* The locals of a panel request after its decision.
LEMMA DecideFields ==
    ASSUME NEW r \in RunState, r.pc = "decide", NEW path \in Paths
    PROVE  [r EXCEPT !.pc = "record", !.path = path] \in RunState
<1>1. r \in [pc : {"decide"}, claim : Id, wt : Id, card : Cards,
             caller : Families, preset : Presets, path : {"undecided"}]
  BY DEF RunState
<1> QED BY <1>1 DEF RunState

\* The locals of a panel request after its routing is recorded.
LEMMA RecordFields ==
    ASSUME NEW r \in RunState, r.pc = "record",
           NEW d, d = [r EXCEPT !.pc = "verdict"]
    PROVE  /\ d \in RunState /\ d.pc = "verdict" /\ d.path = r.path
           /\ d.claim = r.claim /\ d.card = r.card
           /\ d.caller = r.caller /\ d.preset = r.preset
<1>1. r \in [pc : {"record", "verdict"}, claim : Id, wt : Id, card : Cards,
             caller : Families, preset : Presets, path : Paths]
  BY DEF RunState
<1> QED BY <1>1 DEF RunState

\* The authority rule answers with one of the three paths.
LEMMA RouteInPaths ==
    ASSUME NEW j, NEW claim, NEW card, NEW caller, NEW preset
    PROVE  RouteForClaim(j, claim, card, caller, preset) \in Paths
BY DEF RouteForClaim, Paths

\* Every event a command writes is well formed.
LEMMA EventTypes ==
    /\ \A wt \in Id, family \in Families : WorktreeSpawned(wt, family) \in Event
    /\ \A wt \in Id, status \in Statuses : StatusChanged(wt, status) \in Event
    /\ \A claim \in Id, wt \in Id, card \in Cards :
          ClaimPosted(claim, wt, card) \in Event
    /\ \A claim \in Id : Tier0Checked(claim) \in Event
    /\ \A claim \in Id, path \in Paths : ClaimRouted(claim, path) \in Event
    /\ \A claim \in Id, wt \in Id, path \in Paths, caller \in Families,
          families \in SUBSET Families :
          PanelVerdict(claim, wt, path, caller, families) \in Event
<1>1. \A wt \in Id, family \in Families : WorktreeSpawned(wt, family) \in Event
  BY DEF WorktreeSpawned, Event
<1>2. \A wt \in Id, status \in Statuses : StatusChanged(wt, status) \in Event
  BY DEF StatusChanged, Event
<1>3. \A claim \in Id, wt \in Id, card \in Cards :
         ClaimPosted(claim, wt, card) \in Event
  BY DEF ClaimPosted, Event
<1>4. \A claim \in Id : Tier0Checked(claim) \in Event
  BY DEF Tier0Checked, Event
<1>5. \A claim \in Id, path \in Paths : ClaimRouted(claim, path) \in Event
  BY DEF ClaimRouted, Event
<1>6. ASSUME NEW claim \in Id, NEW wt \in Id, NEW path \in Paths,
             NEW caller \in Families, NEW families \in SUBSET Families
      PROVE  PanelVerdict(claim, wt, path, caller, families) \in Event
  <2>1. CASE path = "tier2-verdict"
    BY <2>1 DEF PanelVerdict, Event, Paths
  <2>2. CASE path = "tier2-advisory-only"
    BY <2>2 DEF PanelVerdict, Event, Paths
  <2>3. CASE path = "tier0"
    BY <2>3 DEF PanelVerdict, Event, Paths
  <2> QED BY <2>1, <2>2, <2>3 DEF Paths
<1> QED BY <1>1, <1>2, <1>3, <1>4, <1>5, <1>6

\* The empty journal and idle slots are well formed.
LEMMA TypeInit == Init => TypeOK
<1> SUFFICES ASSUME Init PROVE TypeOK
  OBVIOUS
<1>1. journal \in Seq(Event)
  BY EmptySeq DEF Init
<1>2. run \in [Procs -> RunState]
  BY DEF Init, Idle, RunState
<1>3. started \in [Commands -> Nat] /\ orphans \subseteq Id
  BY DEF Init
<1> QED BY <1>1, <1>2, <1>3 DEF TypeOK

\* Starting a command keeps the counters natural numbers.
LEMMA StartType ==
    ASSUME TypeOK, NEW c \in Commands, Start(c)
    PROVE  started' \in [Commands -> Nat]
BY DEF TypeOK, Start

\* What a step writes: nothing, or one well-formed event.  Spawns, posts,
\* routings and verdicts are each written by the command they belong to.
LEMMA Written ==
    ASSUME TypeOK, NEW p \in Procs, Step(p)
    PROVE  \/ journal' = journal
           \/ \E e \in Event :
                 /\ journal' = Append(journal, e)
                 /\ e.type = "worktree_spawned" =>
                       SpawnWrite(p) /\ e = WorktreeSpawned(run[p].wt, run[p].family)
                 /\ e.type = "claim_posted" =>
                       PostWrite(p) /\ e = ClaimPosted(run[p].claim, run[p].wt,
                                                       run[p].card)
                 /\ e.type = "panel_verdict_issued" =>
                       /\ PanelVerdictWrite(p)
                       /\ e = PanelVerdict(run[p].claim, run[p].wt, run[p].path,
                                 run[p].caller,
                                 Eligible(run[p].preset, run[p].caller))
<1>0. run[p] \in RunState
  BY DEF TypeOK
<1>1. CASE SpawnRead(p) \/ StatusRead(p) \/ PostRead(p) \/ PanelRead(p)
           \/ PanelDecide(p) \/ Kill(p)
  BY <1>1 DEF SpawnRead, StatusRead, PostRead, PanelRead, PanelDecide, Kill
<1>2. CASE SpawnWrite(p)
  <2>1. WorktreeSpawned(run[p].wt, run[p].family) \in Event
    BY <1>2, <1>0, RunFields, EventTypes DEF SpawnWrite
  <2> QED BY <1>2, <2>1 DEF SpawnWrite, Write, WorktreeSpawned
<1>3. CASE SpawnRunning(p)
  <2>1. StatusChanged(run[p].wt, "running") \in Event
    BY <1>3, <1>0, RunFields, EventTypes DEF SpawnRunning, Statuses
  <2> QED BY <1>3, <2>1 DEF SpawnRunning, Write, StatusChanged
<1>4. CASE StatusWrite(p)
  <2>1. StatusChanged(run[p].wt, run[p].status) \in Event
    BY <1>4, <1>0, RunFields, EventTypes DEF StatusWrite
  <2> QED BY <1>4, <2>1 DEF StatusWrite, Write, StatusChanged
<1>5. CASE PostWrite(p)
  <2>1. ClaimPosted(run[p].claim, run[p].wt, run[p].card) \in Event
    BY <1>5, <1>0, RunFields, EventTypes DEF PostWrite
  <2> QED BY <1>5, <2>1 DEF PostWrite, Write, ClaimPosted
<1>6. CASE CheckWrite(p)
  <2>1. Tier0Checked(run[p].claim) \in Event
    BY <1>6, <1>0, RunFields, EventTypes DEF CheckWrite
  <2> QED BY <1>6, <2>1 DEF CheckWrite, Write, Tier0Checked
<1>7. CASE RouteWrite(p)
  <2>1. ClaimRouted(run[p].claim, "tier0") \in Event
    BY <1>7, <1>0, RunFields, EventTypes DEF RouteWrite, Paths
  <2> QED BY <1>7, <2>1 DEF RouteWrite, Write, ClaimRouted
<1>8. CASE PanelRecord(p)
  <2>1. ClaimRouted(run[p].claim, run[p].path) \in Event
    BY <1>8, <1>0, RunFields, EventTypes DEF PanelRecord
  <2> QED BY <1>8, <2>1 DEF PanelRecord, Write, ClaimRouted
<1>9. CASE PanelVerdictWrite(p)
  <2>1. /\ run[p].claim \in Id /\ run[p].wt \in Id /\ run[p].path \in Paths
        /\ run[p].caller \in Families /\ run[p].preset \in Presets
    BY <1>9, <1>0, RunFields DEF PanelVerdictWrite
  <2>2. Eligible(run[p].preset, run[p].caller) \in SUBSET Families
    BY <2>1, EngineAssumption DEF Eligible
  <2>3. PanelVerdict(run[p].claim, run[p].wt, run[p].path, run[p].caller,
                     Eligible(run[p].preset, run[p].caller)) \in Event
    BY <2>1, <2>2, EventTypes
  <2> QED BY <1>9, <2>3 DEF PanelVerdictWrite, Write, PanelVerdict
<1> QED BY <1>1, <1>2, <1>3, <1>4, <1>5, <1>6, <1>7, <1>8, <1>9
        DEF Step, Continue

\* A step leaves the locals of its command well formed.
LEMMA TypeStep ==
    ASSUME TypeOK, NEW p \in Procs, Step(p)
    PROVE  TypeOK'
<1>0. run[p] \in RunState /\ Idle \in RunState /\ run \in [Procs -> RunState]
  BY DEF Idle, RunState, TypeOK
<1>1. journal' \in Seq(Event)
  BY SMTT(30), Written, AppendProperties DEF TypeOK
<1>2. started' \in [Commands -> Nat]
  <2>1. CASE Continue(p)
    BY <2>1 DEF TypeOK, Continue, SpawnWrite, SpawnRunning, StatusWrite,
            PostWrite, CheckWrite, RouteWrite, PanelDecide, PanelRecord,
            PanelVerdictWrite
  <2>2. CASE ~Continue(p)
    BY <2>2, StartType DEF Step, SpawnRead, StatusRead, PostRead, PanelRead,
            Kill, Commands
  <2> QED BY <2>1, <2>2
<1>3. orphans' \subseteq Id
  <2>1. CASE Kill(p)
    BY <2>1, <1>0, RunFields DEF Kill, TypeOK
  <2>2. CASE ~Kill(p)
    BY <2>2 DEF TypeOK, Step, Continue, SpawnRead, StatusRead, PostRead,
            PanelRead, SpawnWrite, SpawnRunning, StatusWrite, PostWrite,
            CheckWrite, RouteWrite, PanelDecide, PanelRecord,
            PanelVerdictWrite
  <2> QED BY <2>1, <2>2
<1>4. \E r \in RunState : run' = [run EXCEPT ![p] = r]
  <2>1. CASE SpawnRead(p)
    <3>1. PICK family \in Families :
             run' = [run EXCEPT ![p] = [pc |-> "spawn",
                        wt |-> NextId(WorktreeIds(journal)), family |-> family]]
      BY <2>1 DEF SpawnRead, Enter
    <3>2. [pc |-> "spawn", wt |-> NextId(WorktreeIds(journal)),
           family |-> family] \in RunState
      BY FreshWorktree DEF RunState, TypeOK
    <3> QED BY <3>1, <3>2
  <2>2. CASE StatusRead(p)
    <3>1. PICK wt \in WorktreeIds(journal), status \in StatusArgs :
             run' = [run EXCEPT ![p] = [pc |-> "status", wt |-> wt,
                                        status |-> status]]
      BY <2>2 DEF StatusRead, Enter
    <3>2. wt \in Id /\ status \in Statuses
      BY EventFields, EngineAssumption DEF WorktreeIds, TypeOK
    <3>3. [pc |-> "status", wt |-> wt, status |-> status] \in RunState
      BY <3>2 DEF RunState
    <3> QED BY <3>1, <3>3
  <2>3. CASE PostRead(p)
    <3>1. PICK wt \in WorktreeIds(journal), card \in Cards :
             run' = [run EXCEPT ![p] = PostRun("post", wt,
                                           NextId(BoardIds(journal)), card)]
      BY <2>3 DEF PostRead, Enter
    <3>2. wt \in Id
      BY EventFields DEF WorktreeIds, TypeOK
    <3>3. PostRun("post", wt, NextId(BoardIds(journal)), card) \in RunState
      BY <3>2, FreshClaim DEF RunState, PostRun, TypeOK
    <3> QED BY <3>1, <3>3
  <2>4. CASE PanelRead(p)
    <3>1. PICK claim \in BoardIds(journal) \cup StrayClaims,
               wt \in WorktreeIds(journal), preset \in Presets :
             \E card \in PanelCards(claim) :
                run' = [run EXCEPT ![p] = PanelRun("decide", claim, wt, card,
                                   FamilyOf(journal, wt), preset, "undecided")]
      BY <2>4 DEF PanelRead, Enter
    <3>2. PICK card \in PanelCards(claim) :
             run' = [run EXCEPT ![p] = PanelRun("decide", claim, wt, card,
                                   FamilyOf(journal, wt), preset, "undecided")]
      BY <3>1
    <3>3. wt \in Id /\ claim \in Id
      BY EventFields, EngineAssumption
         DEF WorktreeIds, BoardIds, PostedIds, Id, TypeOK
    <3>4. card \in Cards
      BY CardOfPosted, EngineAssumption DEF PanelCards, TypeOK
    <3>5. PanelRun("decide", claim, wt, card, FamilyOf(journal, wt), preset,
                   "undecided") \in RunState
      BY <3>3, <3>4, FamilyOfSpawned DEF RunState, PanelRun, TypeOK
    <3> QED BY <3>2, <3>5
  <2>5. CASE SpawnWrite(p)
    <3>1. [pc |-> "running", wt |-> run[p].wt] \in RunState
      BY <2>5, <1>0, RunFields DEF SpawnWrite, RunState
    <3> QED BY <2>5, <3>1 DEF SpawnWrite, Enter
  <2>6. CASE SpawnRunning(p) \/ StatusWrite(p) \/ RouteWrite(p)
             \/ PanelVerdictWrite(p) \/ Kill(p)
    BY <2>6, <1>0 DEF SpawnRunning, StatusWrite, RouteWrite,
            PanelVerdictWrite, Kill, Enter
  <2>7. CASE PostWrite(p) \/ CheckWrite(p)
    BY <2>7, <1>0, RunFields DEF PostWrite, CheckWrite, Enter
  <2>8. CASE PanelDecide(p)
    <3>1. PICK path \in Paths :
             run' = [run EXCEPT ![p] = [run[p] EXCEPT !.pc = "record",
                                                      !.path = path]]
      BY <2>8, RouteInPaths DEF PanelDecide, Enter
    <3>2. [run[p] EXCEPT !.pc = "record", !.path = path] \in RunState
      BY <2>8, <1>0, DecideFields DEF PanelDecide
    <3> QED BY <3>1, <3>2
  <2>9. CASE PanelRecord(p)
    BY <2>9, <1>0, RecordFields DEF PanelRecord, Enter
  <2> QED BY <2>1, <2>2, <2>3, <2>4, <2>5, <2>6, <2>7, <2>8, <2>9
          DEF Step, Continue
<1> QED BY <1>0, <1>1, <1>2, <1>3, <1>4 DEF TypeOK

\* The journal holds well-formed events with ids from 1 up, and every command
\* well-formed locals, whatever commands run, race and are killed.
THEOREM TypeCorrect == Spec => []TypeOK
<1>1. TypeOK /\ [Next]_vars => TypeOK'
  <2> SUFFICES ASSUME TypeOK, [Next]_vars PROVE TypeOK'
    OBVIOUS
  <2>1. CASE Next
    BY <2>1, TypeStep DEF Next
  <2>2. CASE UNCHANGED vars
    BY <2>2 DEF vars, TypeOK
  <2> QED BY <2>1, <2>2
<1> QED BY <1>1, TypeInit, PTL DEF Spec

(***************************************************************************)
(* Panels under any interleaving.                                          *)
(*                                                                         *)
(* A verdict is written from the locals of the request, long after the     *)
(* journal was read, so the properties of the journal need an invariant on *)
(* those locals: what the request still knows is true of the journal,      *)
(* because the journal only grows.                                         *)
(***************************************************************************)

DecisionRecorded(j, r) ==
    r.pc = "verdict" =>
        \E k \in RoutingsOf(j, r.claim) : j[k].path = r.path

DecisionSound(r) ==
    r.pc \in {"record", "verdict"} /\ r.path = "tier2-verdict" =>
        Eligible(r.preset, r.caller) # {} /\ ~Tier0Applicable(r.card)

CardWasPosted(j, r) ==
    CardArgs = {FromBoard} /\ r.pc \in {"decide", "record", "verdict"} =>
        \E k \in Posts(j) : j[k].claim = r.claim /\ j[k].card = r.card

PanelInv ==
    \A p \in Procs : /\ DecisionRecorded(journal, run[p])
                     /\ DecisionSound(run[p])
                     /\ CardWasPosted(journal, run[p])

\* The journal only grows: no step disturbs a line already in it.
LEMMA Growth ==
    ASSUME TypeOK, NEW p \in Procs, Step(p), NEW type
    PROVE  \A i \in Lines(journal, type) :
              i \in Lines(journal', type) /\ journal'[i] = journal[i]
<1>1. journal \in Seq(Event)
  BY DEF TypeOK
<1>2. CASE journal' = journal
  BY <1>2
<1>3. ASSUME NEW e \in Event, journal' = Append(journal, e)
      PROVE  \A i \in Lines(journal, type) :
                i \in Lines(journal', type) /\ journal'[i] = journal[i]
  <2>1. \A i \in Lines(journal, type) :
           /\ i \in Lines(Append(journal, e), type)
           /\ Append(journal, e)[i] = journal[i]
    BY <1>1, AppendLines
  <2> QED BY <1>3, <2>1
<1> QED BY <1>2, <1>3, Written

\* A verdict in the journal after a step was there before, or is the one that
\* the request taking the step writes at the end of the journal.
LEMMA NewVerdict ==
    ASSUME TypeOK, NEW p \in Procs, Step(p), NEW i \in Verdicts(journal')
    PROVE  \/ i \in Verdicts(journal) /\ journal'[i] = journal[i]
           \/ /\ PanelVerdictWrite(p)
              /\ i = Len(journal) + 1
              /\ journal'[i] = PanelVerdict(run[p].claim, run[p].wt,
                                   run[p].path, run[p].caller,
                                   Eligible(run[p].preset, run[p].caller))
<1>1. journal \in Seq(Event)
  BY DEF TypeOK
<1>2. CASE journal' = journal
  BY <1>2
<1>3. ASSUME NEW e \in Event,
             journal' = Append(journal, e),
             e.type = "panel_verdict_issued" =>
                /\ PanelVerdictWrite(p)
                /\ e = PanelVerdict(run[p].claim, run[p].wt, run[p].path,
                          run[p].caller,
                          Eligible(run[p].preset, run[p].caller))
      PROVE  \/ i \in Verdicts(journal) /\ journal'[i] = journal[i]
             \/ /\ PanelVerdictWrite(p)
                /\ i = Len(journal) + 1
                /\ journal'[i] = PanelVerdict(run[p].claim, run[p].wt,
                                     run[p].path, run[p].caller,
                                     Eligible(run[p].preset, run[p].caller))
  <2> DEFINE type == "panel_verdict_issued"
  <2>1. i \in Lines(Append(journal, e), type)
    BY <1>3 DEF Verdicts
  <2>2. Verdicts(journal) = Lines(journal, type)
    BY DEF Verdicts
  <2>3. e.type = type => /\ PanelVerdictWrite(p)
                         /\ e = PanelVerdict(run[p].claim, run[p].wt,
                                   run[p].path, run[p].caller,
                                   Eligible(run[p].preset, run[p].caller))
    BY <1>3
  <2> HIDE DEF type
  <2>4. \/ i \in Lines(journal, type) /\ Append(journal, e)[i] = journal[i]
        \/ /\ i = Len(journal) + 1
           /\ e.type = type
           /\ Append(journal, e)[i] = e
    <3>1. \A k \in Lines(Append(journal, e), type) :
            \/ k \in Lines(journal, type) /\ Append(journal, e)[k] = journal[k]
            \/ k = Len(journal) + 1 /\ e.type = type /\ Append(journal, e)[k] = e
      BY <1>1, AppendLines
    <3> QED
      BY <2>1, <3>1
  <2> QED BY <1>3, <2>2, <2>3, <2>4
<1>4. \/ journal' = journal
      \/ \E e \in Event :
            /\ journal' = Append(journal, e)
            /\ e.type = "panel_verdict_issued" =>
                  /\ PanelVerdictWrite(p)
                  /\ e = PanelVerdict(run[p].claim, run[p].wt, run[p].path,
                            run[p].caller,
                            Eligible(run[p].preset, run[p].caller))
  BY Written
<1> QED BY <1>2, <1>3, <1>4

\* What a request knows of the journal stays true when the journal grows.
LEMMA LocalsStable ==
    ASSUME TypeOK, NEW p \in Procs, Step(p), NEW r,
           DecisionRecorded(journal, r), CardWasPosted(journal, r)
    PROVE  DecisionRecorded(journal', r) /\ CardWasPosted(journal', r)
<1>1. DecisionRecorded(journal', r)
  BY Growth DEF DecisionRecorded, RoutingsOf, Routings
<1>2. CardWasPosted(journal', r)
  BY Growth DEF CardWasPosted, Posts
<1> QED BY <1>1, <1>2

\* A request moves on with locals that match the journal it leaves behind.
LEMMA LocalsStep ==
    ASSUME TypeOK, PanelInv, NEW p \in Procs, Step(p)
    PROVE  PanelInv'
<1>0. run \in [Procs -> RunState] /\ run[p] \in RunState
      /\ journal \in Seq(Event)
  BY DEF TypeOK
<1> SUFFICES ASSUME NEW q \in Procs
             PROVE  /\ DecisionRecorded(journal', run'[q])
                    /\ DecisionSound(run'[q])
                    /\ CardWasPosted(journal', run'[q])
  BY DEF PanelInv
<1>1. CASE run'[q] = run[q]
  BY <1>1, LocalsStable DEF PanelInv
<1>2. CASE run'[q].pc \notin {"decide", "record", "verdict"}
  BY <1>2 DEF DecisionRecorded, DecisionSound, CardWasPosted
<1>3. CASE q = p /\ PanelRead(p)
  <2>1. PICK claim \in BoardIds(journal) \cup StrayClaims,
             wt \in WorktreeIds(journal), preset \in Presets :
           \E card \in PanelCards(claim) :
              run' = [run EXCEPT ![p] = PanelRun("decide", claim, wt, card,
                                 FamilyOf(journal, wt), preset, "undecided")]
    BY <1>3 DEF PanelRead, Enter
  <2>2. PICK card \in PanelCards(claim) :
           run' = [run EXCEPT ![p] = PanelRun("decide", claim, wt, card,
                                 FamilyOf(journal, wt), preset, "undecided")]
    BY <2>1
  <2>3. run'[q].pc = "decide" /\ run'[q].claim = claim /\ run'[q].card = card
    BY <1>0, <1>3, <2>2 DEF PanelRun
  <2>4. CardArgs = {FromBoard} =>
           \E k \in Posts(journal) :
              journal[k].claim = claim /\ journal[k].card = card
    BY <1>0, CardOfPosted DEF PanelCards
  <2>5. journal' = journal
    BY <1>3 DEF PanelRead
  <2> QED BY <2>3, <2>4, <2>5 DEF DecisionRecorded, DecisionSound, CardWasPosted
<1>4. CASE q = p /\ PanelDecide(p)
  <2> DEFINE path == RouteForClaim(journal, run[p].claim, run[p].card,
                                   run[p].caller, run[p].preset)
  <2>1. path \in Paths
    BY RouteInPaths
  <2>2. path = "tier2-verdict" =>
           /\ Eligible(run[p].preset, run[p].caller) # {}
           /\ ~Tier0Applicable(run[p].card)
    BY DEF RouteForClaim
  <2>3. journal' = journal
        /\ run'[p] = [run[p] EXCEPT !.pc = "record", !.path = path]
    BY <1>0, <1>4 DEF PanelDecide, Enter
  <2> HIDE DEF path
  <2>4. run[p].pc = "decide" /\ run[p] \in RunState
    BY <1>0, <1>4 DEF PanelDecide
  <2>5. run[p] \in [pc : {"decide"}, claim : Id, wt : Id, card : Cards,
                    caller : Families, preset : Presets, path : {"undecided"}]
    BY <2>4 DEF RunState
  <2>6. /\ run'[p].pc = "record" /\ run'[p].path = path
        /\ run'[p].claim = run[p].claim /\ run'[p].card = run[p].card
        /\ run'[p].caller = run[p].caller /\ run'[p].preset = run[p].preset
    BY <2>3, <2>5
  <2>7. CardWasPosted(journal, run[p])
    BY DEF PanelInv
  <2> QED BY <1>4, <2>2, <2>3, <2>4, <2>6, <2>7
          DEF DecisionRecorded, DecisionSound, CardWasPosted
<1>5. CASE q = p /\ PanelRecord(p)
  <2>1. /\ run'[p] = [run[p] EXCEPT !.pc = "verdict"]
        /\ run[p].pc = "record"
        /\ journal' = Append(journal, ClaimRouted(run[p].claim, run[p].path))
    BY <1>0, <1>5 DEF PanelRecord, Enter, Write
  <2>2. /\ run'[p].pc = "verdict" /\ run'[p].path = run[p].path
        /\ run'[p].claim = run[p].claim /\ run'[p].card = run[p].card
        /\ run'[p].caller = run[p].caller /\ run'[p].preset = run[p].preset
    BY <1>0, <2>1, RecordFields
  <2>3. ClaimRouted(run[p].claim, run[p].path) \in Event
    BY <1>0, <2>1, RunFields, EventTypes
  <2>4. /\ Len(journal) + 1 \in RoutingsOf(journal', run[p].claim)
        /\ journal'[Len(journal) + 1].path = run[p].path
    <3>1. /\ journal' \in Seq(Event)
          /\ Len(journal') = Len(journal) + 1
          /\ journal'[Len(journal) + 1] = ClaimRouted(run[p].claim, run[p].path)
      BY <1>0, <2>1, <2>3, AppendProperties
    <3>2. Len(journal) + 1 \in DOMAIN journal'
      BY <1>0, <3>1, LenProperties
    <3> QED BY <3>1, <3>2 DEF RoutingsOf, Routings, Lines, ClaimRouted
  <2>5. DecisionRecorded(journal', run'[p])
    BY <2>2, <2>4 DEF DecisionRecorded
  <2>6. DecisionSound(run'[p])
    BY <2>1, <2>2 DEF PanelInv, DecisionSound
  <2>7. DecisionRecorded(journal, run[p]) /\ CardWasPosted(journal, run[p])
    BY DEF PanelInv
  <2>8. CardWasPosted(journal', run[p])
    BY <2>7, LocalsStable
  <2>9. CardWasPosted(journal', run'[p])
    BY <2>1, <2>2, <2>8 DEF CardWasPosted
  <2> QED BY <1>5, <2>5, <2>6, <2>9
<1>6. q # p => run'[q] = run[q]
  BY <1>0 DEF Step, Continue, SpawnRead, StatusRead, PostRead, PanelRead,
     SpawnWrite, SpawnRunning, StatusWrite, PostWrite, CheckWrite, RouteWrite,
     PanelDecide, PanelRecord, PanelVerdictWrite, Kill, Enter
<1>7. \/ PanelRead(p) \/ PanelDecide(p) \/ PanelRecord(p)
      \/ run'[p].pc \notin {"decide", "record", "verdict"}
  <2>1. CASE SpawnRead(p) \/ StatusRead(p) \/ PostRead(p)
    BY <1>0, <2>1 DEF SpawnRead, StatusRead, PostRead, PostRun, Enter
  <2>2. CASE SpawnWrite(p) \/ SpawnRunning(p) \/ StatusWrite(p)
             \/ RouteWrite(p) \/ PanelVerdictWrite(p) \/ Kill(p)
    BY <1>0, <2>2 DEF SpawnWrite, SpawnRunning, StatusWrite, RouteWrite,
       PanelVerdictWrite, Kill, Enter, Idle
  <2>3. CASE PostWrite(p) \/ CheckWrite(p)
    BY <1>0, <2>3, RunFields DEF PostWrite, CheckWrite, Enter
  <2> QED BY <2>1, <2>2, <2>3 DEF Step, Continue
<1> QED BY <1>1, <1>2, <1>3, <1>4, <1>5, <1>6, <1>7

\* PanelInv holds throughout, together with the types it rests on.
LEMMA PanelInvariant == Spec => [](TypeOK /\ PanelInv)
<1>1. Init => PanelInv
  BY DEF Init, Idle, PanelInv, DecisionRecorded, DecisionSound, CardWasPosted
<1>2. TypeOK /\ PanelInv /\ [Next]_vars => PanelInv'
  <2> SUFFICES ASSUME TypeOK, PanelInv, [Next]_vars PROVE PanelInv'
    OBVIOUS
  <2>1. CASE Next
    BY <2>1, LocalsStep DEF Next
  <2>2. CASE UNCHANGED vars
    BY <2>2 DEF vars, PanelInv
  <2> QED BY <2>1, <2>2
<1> QED BY <1>1, <1>2, TypeCorrect, PTL DEF Spec

\* Every panel verdict in the journal is preceded by the recorded routing it
\* rests on, however requests interleave and wherever they are killed.
THEOREM VerdictsBacked == Spec => []VerdictsBackedByRouting
<1>1. Init => VerdictsBackedByRouting
  BY EmptySeq DEF Init, VerdictsBackedByRouting, Verdicts, Lines
<1>2. ASSUME TypeOK, PanelInv, VerdictsBackedByRouting, NEW p \in Procs, Step(p)
      PROVE  VerdictsBackedByRouting'
  <2> SUFFICES ASSUME NEW i \in Verdicts(journal')
               PROVE  \E k \in RoutingsOf(journal', journal'[i].claim) :
                         k < i /\ journal'[k].path = journal'[i].path
    BY DEF VerdictsBackedByRouting
  <2>1. CASE i \in Verdicts(journal) /\ journal'[i] = journal[i]
    <3>1. PICK k \in RoutingsOf(journal, journal[i].claim) :
             k < i /\ journal[k].path = journal[i].path
      BY <1>2, <2>1 DEF VerdictsBackedByRouting
    <3>2. k \in RoutingsOf(journal', journal[i].claim)
          /\ journal'[k] = journal[k]
      BY <1>2, Growth DEF RoutingsOf, Routings
    <3> QED BY <2>1, <3>1, <3>2
  <2>2. CASE /\ PanelVerdictWrite(p)
             /\ i = Len(journal) + 1
             /\ journal'[i] = PanelVerdict(run[p].claim, run[p].wt,
                                  run[p].path, run[p].caller,
                                  Eligible(run[p].preset, run[p].caller))
    <3>1. PICK k \in RoutingsOf(journal, run[p].claim) :
             journal[k].path = run[p].path
      BY <1>2, <2>2 DEF PanelInv, DecisionRecorded, PanelVerdictWrite
    <3>2. k \in RoutingsOf(journal', run[p].claim) /\ journal'[k] = journal[k]
      BY <1>2, Growth DEF RoutingsOf, Routings
    <3>3. k < i
      BY <1>2, <2>2, EventFields, LenProperties DEF RoutingsOf, TypeOK
    <3>4. journal'[i].claim = run[p].claim /\ journal'[i].path = run[p].path
      BY <2>2 DEF PanelVerdict
    <3> QED BY <3>1, <3>2, <3>3, <3>4
  <2> QED BY <1>2, <2>1, <2>2, NewVerdict
<1>3. /\ TypeOK /\ PanelInv /\ VerdictsBackedByRouting /\ [Next]_vars
      => VerdictsBackedByRouting'
  BY <1>2 DEF Next, vars, VerdictsBackedByRouting
<1> QED BY <1>1, <1>3, PanelInvariant, PTL DEF Spec

\* A panel that grants panel-verified is made of registered families other
\* than the caller's, and of at least one.
THEOREM PanelsIndependent == Spec => []PanelsAreIndependent
<1> DEFINE Independent(e) ==
              e.verdict = "panel-verified" =>
                 /\ e.path = "tier2-verdict"
                 /\ e.families # {}
                 /\ e.families \cap {e.caller, UnknownFamily} = {}
<1>1. Init => PanelsAreIndependent
  BY EmptySeq DEF Init, PanelsAreIndependent, Verdicts, Lines
<1>2. ASSUME TypeOK, PanelInv, PanelsAreIndependent, NEW p \in Procs, Step(p)
      PROVE  PanelsAreIndependent'
  <2> SUFFICES ASSUME NEW i \in Verdicts(journal')
               PROVE  Independent(journal'[i])
    BY DEF PanelsAreIndependent
  <2>1. CASE i \in Verdicts(journal) /\ journal'[i] = journal[i]
    BY <1>2, <2>1 DEF PanelsAreIndependent
  <2>2. CASE /\ PanelVerdictWrite(p)
             /\ i = Len(journal) + 1
             /\ journal'[i] = PanelVerdict(run[p].claim, run[p].wt,
                                  run[p].path, run[p].caller,
                                  Eligible(run[p].preset, run[p].caller))
    <3>1. run[p].pc = "verdict" /\ run[p].path \in Paths
      BY <1>2, <2>2, RunFields DEF PanelVerdictWrite, TypeOK
    <3>2. run[p].path = "tier2-verdict" =>
             Eligible(run[p].preset, run[p].caller) # {}
      BY <1>2, <3>1 DEF PanelInv, DecisionSound
    <3>3. Eligible(run[p].preset, run[p].caller)
             \cap {run[p].caller, UnknownFamily} = {}
      BY DEF Eligible
    <3>4. /\ journal'[i].path = run[p].path
          /\ journal'[i].caller = run[p].caller
          /\ journal'[i].families = Eligible(run[p].preset, run[p].caller)
          /\ journal'[i].verdict = "panel-verified" =>
                run[p].path = "tier2-verdict"
      BY <2>2, <3>1 DEF PanelVerdict, Paths
    <3> QED BY <3>2, <3>3, <3>4
  <2> QED BY <1>2, <2>1, <2>2, NewVerdict
<1>3. /\ TypeOK /\ PanelInv /\ PanelsAreIndependent /\ [Next]_vars
      => PanelsAreIndependent'
  BY <1>2 DEF Next, vars, PanelsAreIndependent
<1> QED BY <1>1, <1>3, PanelInvariant, PTL DEF Spec

\* When panels read the card from the board, a verified claim was posted
\* earlier, with a card that Tier 0 cannot check.
THEOREM VerifiedPosted == Spec => []VerifiedClaimsWerePosted
<1>1. Init => VerifiedClaimsWerePosted
  BY EmptySeq DEF Init, VerifiedClaimsWerePosted, Verdicts, Lines
<1>2. ASSUME TypeOK, PanelInv, VerifiedClaimsWerePosted,
             NEW p \in Procs, Step(p)
      PROVE  VerifiedClaimsWerePosted'
  <2> SUFFICES ASSUME CardArgs = {FromBoard}, NEW i \in Verdicts(journal'),
                      journal'[i].verdict = "panel-verified"
               PROVE  \E k \in Posts(journal') :
                         /\ k < i
                         /\ journal'[k].claim = journal'[i].claim
                         /\ ~Tier0Applicable(journal'[k].card)
    BY DEF VerifiedClaimsWerePosted
  <2>1. CASE i \in Verdicts(journal) /\ journal'[i] = journal[i]
    <3>1. PICK k \in Posts(journal) :
             /\ k < i
             /\ journal[k].claim = journal[i].claim
             /\ ~Tier0Applicable(journal[k].card)
      BY <1>2, <2>1 DEF VerifiedClaimsWerePosted
    <3>2. k \in Posts(journal') /\ journal'[k] = journal[k]
      BY <1>2, Growth DEF Posts
    <3> QED BY <2>1, <3>1, <3>2
  <2>2. CASE /\ PanelVerdictWrite(p)
             /\ i = Len(journal) + 1
             /\ journal'[i] = PanelVerdict(run[p].claim, run[p].wt,
                                  run[p].path, run[p].caller,
                                  Eligible(run[p].preset, run[p].caller))
    <3>1. run[p].pc = "verdict" /\ run[p].path \in Paths
      BY <1>2, <2>2, RunFields DEF PanelVerdictWrite, TypeOK
    <3>2. journal'[i].claim = run[p].claim /\ run[p].path = "tier2-verdict"
      BY <2>2, <3>1 DEF PanelVerdict, Paths
    <3>3. ~Tier0Applicable(run[p].card)
      BY <1>2, <3>1, <3>2 DEF PanelInv, DecisionSound
    <3>4. PICK k \in Posts(journal) :
             journal[k].claim = run[p].claim /\ journal[k].card = run[p].card
      BY <1>2, <3>1 DEF PanelInv, CardWasPosted
    <3>5. k \in Posts(journal') /\ journal'[k] = journal[k]
      BY <1>2, Growth DEF Posts
    <3>6. k < i
      BY <1>2, <2>2, EventFields, LenProperties DEF TypeOK
    <3> QED BY <3>2, <3>3, <3>4, <3>5, <3>6
  <2> QED BY <1>2, <2>1, <2>2, NewVerdict
<1>3. /\ TypeOK /\ PanelInv /\ VerifiedClaimsWerePosted /\ [Next]_vars
      => VerifiedClaimsWerePosted'
  BY <1>2 DEF Next, vars, VerifiedClaimsWerePosted
<1> QED BY <1>1, <1>3, PanelInvariant, PTL DEF Spec

(***************************************************************************)
(* Commands that run one at a time.  A single slot makes what a command    *)
(* read from the journal still true when it writes: the ids it minted are  *)
(* still new, and the card it judges is still the board's.  Kills are      *)
(* allowed; they only leave claims without a routing.                      *)
(***************************************************************************)
OneSlot == \A p, q \in Procs : p = q
BoardCards == CardArgs = {FromBoard}

SerialInv ==
    \A p \in Procs :
        /\ run[p].pc = "spawn" => run[p].wt \notin WorktreeIds(journal)
        /\ run[p].pc = "post" => run[p].claim \notin BoardIds(journal)
        /\ run[p].pc \in {"check", "route"} => run[p].claim \in PostedIds(journal)
        /\ BoardCards /\ run[p].pc \in {"decide", "record", "verdict"} =>
              /\ run[p].claim \in PostedIds(journal)
              /\ run[p].card = CardOf(journal, run[p].claim)

\* The ledger's view of a journal.
RoutePairs(j) == {<<j[i].claim, j[i].path>> : i \in Routings(j)}
VerifiedIds(j) == {j[i].claim : i \in {k \in Verdicts(j) : j[k].verdict = "panel-verified"}}

\* The lines of a type after an event was appended.
LEMMA LinesAfter ==
    ASSUME NEW j \in Seq(Event), NEW e \in Event, NEW type
    PROVE  /\ Lines(Append(j, e), type)
                = IF e.type = type THEN Lines(j, type) \cup {Len(j) + 1} ELSE Lines(j, type)
           /\ \A i \in Lines(j, type) : Append(j, e)[i] = j[i] /\ i < Len(j) + 1
           /\ Append(j, e)[Len(j) + 1] = e
<1> DEFINE more == Append(j, e)
<1>0. /\ \A i \in Lines(j, type) :
            i \in Lines(Append(j, e), type) /\ Append(j, e)[i] = j[i]
      /\ \A i \in Lines(j, type) : i < Len(j) + 1
      /\ \A i \in Lines(Append(j, e), type) :
            \/ i \in Lines(j, type) /\ Append(j, e)[i] = j[i]
            \/ i = Len(j) + 1 /\ e.type = type /\ Append(j, e)[i] = e
  BY AppendLines, Zenon
<1>1. /\ \A i \in Lines(j, type) :
            i \in Lines(more, type) /\ more[i] = j[i] /\ i < Len(j) + 1
      /\ \A i \in Lines(more, type) : i \in Lines(j, type) \/ (i = Len(j) + 1 /\ e.type = type)
  BY <1>0, Zenon
<1>2. more \in Seq(Event) /\ Len(more) = Len(j) + 1 /\ more[Len(j) + 1] = e
  BY AppendProperties
<1> HIDE DEF more
<1>3. Len(j) + 1 \in DOMAIN more
  BY <1>2, LenProperties
<1>4. e.type = type => Len(j) + 1 \in Lines(more, type)
  BY <1>2, <1>3 DEF Lines
<1>5. Lines(more, type)
        = IF e.type = type THEN Lines(j, type) \cup {Len(j) + 1} ELSE Lines(j, type)
  BY <1>1, <1>4
<1> QED
  BY <1>1, <1>2, <1>5 DEF more

\* What an event adds to the folds.
LEMMA FoldsAfter ==
    ASSUME NEW j \in Seq(Event), NEW e \in Event
    PROVE  /\ WorktreeIds(Append(j, e)) = WorktreeIds(j) \cup
                 (IF e.type = "worktree_spawned" THEN {e.worktree} ELSE {})
           /\ PostedIds(Append(j, e)) = PostedIds(j) \cup
                 (IF e.type = "claim_posted" THEN {e.claim} ELSE {})
           /\ RoutePairs(Append(j, e)) = RoutePairs(j) \cup
                 (IF e.type = "claim_verification_routed" THEN {<<e.claim, e.path>>} ELSE {})
           /\ BoardIds(Append(j, e)) = BoardIds(j) \cup
                 (IF e.type \in {"claim_posted", "claim_verification_routed"}
                  THEN {e.claim} ELSE {})
           /\ VerifiedIds(Append(j, e)) = VerifiedIds(j) \cup
                 (IF e.type = "panel_verdict_issued" /\ e.verdict = "panel-verified"
                  THEN {e.claim} ELSE {})
<1> DEFINE more == Append(j, e)
           new == Len(j) + 1
<1>1. ASSUME NEW type
      PROVE  /\ Lines(more, type) = IF e.type = type THEN Lines(j, type) \cup {new}
                                                    ELSE Lines(j, type)
             /\ \A i \in Lines(j, type) : more[i] = j[i]
             /\ more[new] = e
  <2>1. \A t : /\ Lines(Append(j, e), t)
                   = IF e.type = t THEN Lines(j, t) \cup {Len(j) + 1} ELSE Lines(j, t)
               /\ \A i \in Lines(j, t) : Append(j, e)[i] = j[i] /\ i < Len(j) + 1
               /\ Append(j, e)[Len(j) + 1] = e
    BY LinesAfter, Zenon
  <2> QED
    BY <2>1, Zenon
<1> HIDE DEF more, new
<1>2. WorktreeIds(more) = WorktreeIds(j) \cup
         (IF e.type = "worktree_spawned" THEN {e.worktree} ELSE {})
  BY <1>1 DEF WorktreeIds, Spawns
<1>3. PostedIds(more) = PostedIds(j) \cup
         (IF e.type = "claim_posted" THEN {e.claim} ELSE {})
  BY <1>1 DEF PostedIds, Posts
<1>4. /\ RoutePairs(more) = RoutePairs(j) \cup
            (IF e.type = "claim_verification_routed" THEN {<<e.claim, e.path>>} ELSE {})
      /\ {more[i].claim : i \in Routings(more)} = {j[i].claim : i \in Routings(j)} \cup
            (IF e.type = "claim_verification_routed" THEN {e.claim} ELSE {})
  BY <1>1 DEF RoutePairs, Routings
<1>5. BoardIds(more) = BoardIds(j) \cup
         (IF e.type \in {"claim_posted", "claim_verification_routed"} THEN {e.claim} ELSE {})
  BY <1>3, <1>4 DEF BoardIds
<1>6. VerifiedIds(more) = VerifiedIds(j) \cup
         (IF e.type = "panel_verdict_issued" /\ e.verdict = "panel-verified"
          THEN {e.claim} ELSE {})
  BY <1>1 DEF VerifiedIds, Verdicts
<1> QED
  BY <1>2, <1>3, <1>4, <1>5, <1>6 DEF more

\* The card of a claim that is posted already changes only with another post of it.
LEMMA CardAfter ==
    ASSUME NEW j \in Seq(Event), NEW e \in Event, NEW claim,
           claim \in PostedIds(Append(j, e))
    PROVE  IF e.type = "claim_posted" /\ e.claim = claim
           THEN claim \notin PostedIds(j) => CardOf(Append(j, e), claim) = e.card
           ELSE claim \in PostedIds(j) /\ CardOf(Append(j, e), claim) = CardOf(j, claim)
<1> DEFINE more == Append(j, e)
           new == Len(j) + 1
           before == {i \in Posts(j) : j[i].claim = claim}
           after == {i \in Posts(more) : more[i].claim = claim}
<1>1. /\ Posts(more) = IF e.type = "claim_posted" THEN Posts(j) \cup {new} ELSE Posts(j)
      /\ \A i \in Posts(j) : more[i] = j[i]
      /\ more[new] = e
  <2>1. /\ Lines(more, "claim_posted") = IF e.type = "claim_posted"
             THEN Lines(j, "claim_posted") \cup {new} ELSE Lines(j, "claim_posted")
        /\ \A i \in Lines(j, "claim_posted") : more[i] = j[i] /\ i < new
        /\ more[new] = e
    BY LinesAfter, Zenon
  <2> QED
    BY <2>1 DEF Posts
<1>2. Len(j) \in Nat /\ Posts(j) \subseteq 1..Len(j)
  BY EventFields, LenProperties
<1>3. CASE e.type = "claim_posted" /\ e.claim = claim
  <2>1. SUFFICES ASSUME claim \notin PostedIds(j) PROVE CardOf(more, claim) = e.card
    BY <1>3
  <2>2. before = {}
    BY <2>1 DEF PostedIds
  <2> HIDE DEF more
  <2>3. after = {new}
    BY <1>1, <1>3, <2>2
  <2>4. {new} \in SUBSET Nat /\ {new} # {} /\ new \in Nat /\ \A i \in {new} : i <= new
    BY <1>2
  <2> HIDE DEF after, new
  <2>5. Max({new}) \in {new}
    BY <2>4, MaxInSet
  <2>6. Max(after) = new
    BY <2>3, <2>5
  <2> QED
    BY <1>1, <2>6 DEF CardOf, after
<1>4. CASE ~(e.type = "claim_posted" /\ e.claim = claim)
  <2>1. claim \in PostedIds(j)
    BY <1>4, FoldsAfter
  <2> HIDE DEF more
  <2>2. after = before
    BY <1>1, <1>4
  <2>3. before \in SUBSET Nat /\ before # {} /\ \A i \in before : i <= Len(j)
    BY <1>2, <2>1 DEF PostedIds
  <2> HIDE DEF before, after
  <2>4. Max(before) \in before
    BY <1>2, <2>3, MaxInSet
  <2>5. more[Max(before)] = j[Max(before)]
    BY <1>1, <2>4 DEF before
  <2>6. CardOf(more, claim) = CardOf(j, claim)
    BY <2>2, <2>5 DEF CardOf, after, before
  <2> QED
    BY <1>4, <2>1, <2>6 DEF more
<1> QED
  BY <1>3, <1>4

\* What the session's event is for each step.
LEMMA SlotStep ==
    ASSUME OneSlot, TypeOK, NEW p \in Procs, NEW state, Enter(p, state)
    PROVE  run'[p] = state /\ \A q \in Procs : q = p
  BY DEF OneSlot, TypeOK, Enter

LEMMA SerialStep ==
    ASSUME OneSlot, TypeOK, SerialInv, NEW p \in Procs, Step(p)
    PROVE  SerialInv'
<1>1. journal \in Seq(Event) /\ run[p] \in RunState /\ run \in [Procs -> RunState]
  BY DEF TypeOK
<1>2. \A q \in Procs : q = p
  BY DEF OneSlot
<1>3. ASSUME run'[p].pc \in {"idle", "running", "status"} PROVE SerialInv'
  BY <1>2, <1>3 DEF SerialInv
<1>4. CASE SpawnRead(p)
  <2>1. PICK family \in Families :
          Enter(p, [pc |-> "spawn", wt |-> NextId(WorktreeIds(journal)), family |-> family])
    BY <1>4 DEF SpawnRead
  <2>2. /\ run'[p].pc = "spawn" /\ run'[p].wt = NextId(WorktreeIds(journal))
        /\ journal' = journal
    BY <1>4, <2>1, SlotStep DEF SpawnRead
  <2>3. NextId(WorktreeIds(journal)) \notin WorktreeIds(journal)
    <3>1. WorktreeIds(journal) \subseteq Id
      BY <1>1, EventFields DEF WorktreeIds
    <3>2. \A wt \in WorktreeIds(journal) : wt < NextId(WorktreeIds(journal))
      BY <1>1, FreshWorktree, Zenon
    <3>3. \A n \in Id : ~(n < n)
      BY SMT DEF Id
    <3> QED
      BY <3>1, <3>2, <3>3, Zenon
  <2> QED
    BY <1>2, <2>2, <2>3 DEF SerialInv
<1>5. CASE PostRead(p)
  <2>1. PICK wt \in WorktreeIds(journal), card \in Cards :
          Enter(p, PostRun("post", wt, NextId(BoardIds(journal)), card))
    BY <1>5 DEF PostRead
  <2>2. /\ run'[p].pc = "post" /\ run'[p].claim = NextId(BoardIds(journal))
        /\ journal' = journal
    BY <1>5, <2>1, SlotStep DEF PostRead, PostRun
  <2>3. NextId(BoardIds(journal)) \notin BoardIds(journal)
    <3>1. BoardIds(journal) \subseteq Id
      BY <1>1, EventFields DEF BoardIds, PostedIds
    <3>2. \A claim \in BoardIds(journal) : claim < NextId(BoardIds(journal))
      BY <1>1, FreshClaim, Zenon
    <3>3. \A n \in Id : ~(n < n)
      BY SMT DEF Id
    <3> QED
      BY <3>1, <3>2, <3>3, Zenon
  <2> QED
    BY <1>2, <2>2, <2>3 DEF SerialInv
<1>6. CASE PanelRead(p)
  <2>1. PICK claim \in BoardIds(journal) \cup StrayClaims,
             wt \in WorktreeIds(journal), preset \in Presets :
           \E card \in PanelCards(claim) :
              Enter(p, PanelRun("decide", claim, wt, card,
                                FamilyOf(journal, wt), preset, "undecided"))
    BY <1>6 DEF PanelRead
  <2>2. PICK card \in PanelCards(claim) :
              Enter(p, PanelRun("decide", claim, wt, card,
                                FamilyOf(journal, wt), preset, "undecided"))
    BY <2>1
  <2>3. /\ run'[p].pc = "decide" /\ run'[p].claim = claim /\ run'[p].card = card
        /\ journal' = journal
    BY <1>6, <2>2, SlotStep DEF PanelRead, PanelRun
  <2>4. BoardCards => claim \in PostedIds(journal) /\ card = CardOf(journal, claim)
    BY <2>2 DEF BoardCards, PanelCards
  <2> QED
    BY <1>2, <2>3, <2>4 DEF SerialInv
<1>7. CASE PostWrite(p)
  <2> DEFINE e == ClaimPosted(run[p].claim, run[p].wt, run[p].card)
  <2>1. e \in Event /\ e.type = "claim_posted" /\ e.claim = run[p].claim
    BY <1>1, <1>7, RunFields, EventTypes DEF PostWrite, ClaimPosted
  <2>2. /\ journal' = Append(journal, e)
        /\ run'[p] = [run[p] EXCEPT !.pc = "check"]
    BY <1>7, SlotStep DEF PostWrite, Write
  <2>3. run'[p].pc = "check" /\ run'[p].claim = run[p].claim
    BY <1>1, <1>7, <2>2, RunFields DEF PostWrite
  <2> HIDE DEF e
  <2>4. run[p].claim \in PostedIds(journal')
    BY <1>1, <2>1, <2>2, FoldsAfter
  <2> QED
    BY <1>2, <2>3, <2>4 DEF SerialInv
<1>8. CASE CheckWrite(p)
  <2> DEFINE e == Tier0Checked(run[p].claim)
  <2>1. e \in Event /\ e.type = "tier0_checked"
    BY <1>1, <1>8, RunFields, EventTypes DEF CheckWrite, Tier0Checked
  <2>2. /\ journal' = Append(journal, e)
        /\ run'[p] = [run[p] EXCEPT !.pc = "route"] /\ run[p].pc = "check"
    BY <1>8, SlotStep DEF CheckWrite, Write
  <2>3. run'[p].pc = "route" /\ run'[p].claim = run[p].claim
    <3>1. run[p] \in [pc : {"post", "check", "route"}, wt : Id, claim : Id, card : Cards]
      BY <1>1, <2>2 DEF RunState
    <3> QED
      BY <2>2, <3>1
  <2> HIDE DEF e
  <2>4. run[p].claim \in PostedIds(journal')
    BY <1>1, <2>1, <2>2, FoldsAfter DEF SerialInv
  <2> QED
    BY <1>2, <2>3, <2>4 DEF SerialInv
<1>9. CASE PanelDecide(p)
  <2>1. /\ run[p].pc = "decide" /\ journal' = journal
        /\ \E path \in Paths : run'[p] = [run[p] EXCEPT !.pc = "record", !.path = path]
    BY <1>9, SlotStep, RouteInPaths DEF PanelDecide
  <2>2. run[p] \in [pc : {"decide"}, claim : Id, wt : Id, card : Cards,
                    caller : Families, preset : Presets, path : {"undecided"}]
    BY <1>1, <2>1 DEF RunState
  <2>3. run'[p].pc = "record" /\ run'[p].claim = run[p].claim /\ run'[p].card = run[p].card
    BY <2>1, <2>2
  <2> QED
    BY <1>2, <2>1, <2>3 DEF SerialInv
<1>10. CASE PanelRecord(p)
  <2> DEFINE e == ClaimRouted(run[p].claim, run[p].path)
  <2>1. e \in Event /\ e.type = "claim_verification_routed"
    BY <1>1, <1>10, RunFields, EventTypes DEF PanelRecord, ClaimRouted
  <2>2. /\ journal' = Append(journal, e) /\ run[p].pc = "record"
        /\ run'[p] = [run[p] EXCEPT !.pc = "verdict"]
    BY <1>10, SlotStep DEF PanelRecord, Write
  <2>3. run'[p].pc = "verdict" /\ run'[p].claim = run[p].claim /\ run'[p].card = run[p].card
    BY <1>1, <2>2, RecordFields
  <2> HIDE DEF e
  <2>4. ASSUME BoardCards
        PROVE  /\ run[p].claim \in PostedIds(journal')
               /\ CardOf(journal', run[p].claim) = run[p].card
    <3>1. run[p].claim \in PostedIds(journal) /\ run[p].card = CardOf(journal, run[p].claim)
      BY <2>2, <2>4 DEF SerialInv
    <3>2. run[p].claim \in PostedIds(Append(journal, e))
      BY <1>1, <2>1, <3>1, FoldsAfter
    <3>3. CardOf(Append(journal, e), run[p].claim) = CardOf(journal, run[p].claim)
      BY <1>1, <2>1, <3>2, CardAfter
    <3> QED
      BY <2>2, <3>1, <3>2, <3>3
  <2> QED
    BY <1>2, <2>3, <2>4 DEF SerialInv
<1>11. CASE SpawnWrite(p) \/ StatusRead(p) \/ SpawnRunning(p) \/ StatusWrite(p)
            \/ RouteWrite(p) \/ PanelVerdictWrite(p) \/ Kill(p)
  <2>1. \E state : Enter(p, state) /\ state.pc \in {"idle", "running", "status"}
    <3>1. CASE StatusRead(p)
      BY <3>1 DEF StatusRead
    <3>2. CASE SpawnWrite(p)
      BY <3>2 DEF SpawnWrite
    <3>3. CASE SpawnRunning(p) \/ StatusWrite(p) \/ RouteWrite(p) \/ PanelVerdictWrite(p) \/ Kill(p)
      BY <3>3 DEF SpawnRunning, StatusWrite, RouteWrite, PanelVerdictWrite, Kill, Idle
    <3> QED
      BY <1>11, <3>1, <3>2, <3>3
  <2>2. run'[p].pc \in {"idle", "running", "status"}
    BY <2>1, SlotStep
  <2> QED
    BY <1>3, <2>2
<1> QED
  BY <1>4, <1>5, <1>6, <1>7, <1>8, <1>9, <1>10, <1>11 DEF Step, Continue

LEMMA SerialInvariant ==
    ASSUME OneSlot
    PROVE  Spec => [](TypeOK /\ PanelInv /\ SerialInv)
<1>1. Init => SerialInv
  BY DEF Init, Idle, SerialInv
<1>2. TypeOK /\ SerialInv /\ [Next]_vars => SerialInv'
  <2> SUFFICES ASSUME TypeOK, SerialInv, [Next]_vars PROVE SerialInv'
    OBVIOUS
  <2>1. CASE Next
    BY <2>1, SerialStep DEF Next
  <2>2. CASE UNCHANGED vars
    BY <2>2 DEF vars, SerialInv
  <2> QED
    BY <2>1, <2>2
<1> QED
  BY <1>1, <1>2, PanelInvariant, PTL DEF Spec

\* What a spawn that read the journal last still knows when it writes: its id is new.
LEMMA SpawnsStep ==
    ASSUME OneSlot, TypeOK, SerialInv, UniqueWorktreeIds, NEW p \in Procs, Step(p)
    PROVE  UniqueWorktreeIds'
<1>1. journal \in Seq(Event)
  BY DEF TypeOK
<1>2. CASE journal' = journal
  BY <1>2 DEF UniqueWorktreeIds
<1>3. ASSUME NEW e \in Event, journal' = Append(journal, e),
             e.type = "worktree_spawned" =>
                SpawnWrite(p) /\ e = WorktreeSpawned(run[p].wt, run[p].family)
      PROVE  UniqueWorktreeIds'
  <2> DEFINE new == Len(journal) + 1
  <2>1. /\ Lines(journal', "worktree_spawned")
             = IF e.type = "worktree_spawned" THEN Lines(journal, "worktree_spawned") \cup {new}
                                              ELSE Lines(journal, "worktree_spawned")
        /\ \A i \in Lines(journal, "worktree_spawned") : journal'[i] = journal[i] /\ i < new
        /\ journal'[new] = e
    <3>1. /\ Lines(Append(journal, e), "worktree_spawned")
               = IF e.type = "worktree_spawned" THEN Lines(journal, "worktree_spawned") \cup {new}
                                                ELSE Lines(journal, "worktree_spawned")
          /\ \A i \in Lines(journal, "worktree_spawned") :
                Append(journal, e)[i] = journal[i] /\ i < new
          /\ Append(journal, e)[new] = e
      BY <1>1, LinesAfter, Zenon
    <3> HIDE DEF new
    <3> QED
      BY <1>3, <3>1
  <2>2. /\ \A i \in Spawns(journal') : i \in Spawns(journal) \/ (i = new /\ e.type = "worktree_spawned")
        /\ \A i \in Spawns(journal) : journal'[i] = journal[i]
    BY <2>1 DEF Spawns
  <2>3. e.type = "worktree_spawned" =>
           \A i \in Spawns(journal) : journal'[new].worktree # journal[i].worktree
    BY <1>3, <2>1 DEF SpawnWrite, SerialInv, WorktreeSpawned, WorktreeIds
  <2> HIDE DEF new
  <2> QED
    BY <2>2, <2>3 DEF UniqueWorktreeIds
<1> QED
  BY <1>2, <1>3, Written

\* Spawns that run one at a time never share an id, killed or not: the counter
\* that each restores from the journal is above every id written before
\* (cli.py: the replay keeps wt_002 from being allocated as wt_001).
THEOREM SpawnsNeverShareIds ==
    ASSUME OneSlot
    PROVE  Spec => []UniqueWorktreeIds
<1>1. Init => UniqueWorktreeIds
  BY DEF Init, UniqueWorktreeIds, Spawns, Lines
<1>2. TypeOK /\ SerialInv /\ UniqueWorktreeIds /\ [Next]_vars => UniqueWorktreeIds'
  <2> SUFFICES ASSUME TypeOK, SerialInv, UniqueWorktreeIds, [Next]_vars
               PROVE  UniqueWorktreeIds'
    OBVIOUS
  <2>1. CASE Next
    BY <2>1, SpawnsStep DEF Next
  <2>2. CASE UNCHANGED vars
    BY <2>2 DEF vars, UniqueWorktreeIds
  <2> QED
    BY <2>1, <2>2
<1> QED
  BY <1>1, <1>2, SerialInvariant, PTL DEF Spec

(***************************************************************************)
(* The abstract ledger.  A posted card is published, a recorded routing    *)
(* routes, a granting verdict verifies; every other step stutters.         *)
(***************************************************************************)
LedgerOf(j) == [claim \in PostedIds(j) |-> CardOf(j, claim)]

\* The highest claim id is at most the number of posts that were started.
MintedInv ==
    /\ started["post"] <= Limit["post"]
    /\ \A claim \in BoardIds(journal) : claim <= started["post"]
    /\ \A p \in Procs : run[p].pc = "post" => run[p].claim <= started["post"]

\* A finite set of numbers has a number as its Max.
LEMMA FiniteMax ==
    ASSUME NEW S \in SUBSET Nat, IsFiniteSet(S)
    PROVE  Max(S \cup {0}) \in Nat
<1>1. PICK n \in Nat : ExistsSurjection(1..n, S)
  BY FS_NatSurjection
<1>2. PICK f \in [1..n -> S] : \A x \in S : \E i \in 1..n : f[i] = x
  BY <1>1 DEF ExistsSurjection, Surjection
<1>3. f \in [1..n -> Nat] /\ S \subseteq {f[i] : i \in 1..n}
  BY <1>2
<1> QED
  BY <1>3, MaxOfListed

\* An event that posts nothing leaves every claim and its card on the board.
LEMMA LedgerAfter ==
    ASSUME NEW j \in Seq(Event), NEW e \in Event, e.type # "claim_posted"
    PROVE  LedgerOf(Append(j, e)) = LedgerOf(j)
<1>1. PostedIds(Append(j, e)) = PostedIds(j)
  BY FoldsAfter
<1>2. \A claim \in PostedIds(j) : CardOf(Append(j, e), claim) = CardOf(j, claim)
  BY <1>1, CardAfter
<1> QED
  BY <1>1, <1>2 DEF LedgerOf

\* A post of a new claim publishes it and changes nothing else.
LEMMA Publishes ==
    ASSUME NEW j \in Seq(Event), NEW e \in Event,
           e.type = "claim_posted", e.claim \notin PostedIds(j)
    PROVE  LedgerOf(Append(j, e)) = [c \in DOMAIN LedgerOf(j) \cup {e.claim} |->
                                        IF c = e.claim THEN e.card ELSE LedgerOf(j)[c]]
<1>1. PostedIds(Append(j, e)) = PostedIds(j) \cup {e.claim}
  BY FoldsAfter
<1>2. CardOf(Append(j, e), e.claim) = e.card
  BY <1>1, CardAfter
<1>3. \A c \in PostedIds(j) : c # e.claim /\ CardOf(Append(j, e), c) = CardOf(j, c)
  BY <1>1, CardAfter
<1> QED
  BY <1>1, <1>2, <1>3 DEF LedgerOf

\* The claim that a step writes onto the board is that of the command taking it.
LEMMA BoardWritten ==
    ASSUME TypeOK, NEW p \in Procs, Step(p)
    PROVE  \/ journal' = journal
           \/ \E e \in Event :
                 /\ journal' = Append(journal, e)
                 /\ e.type \in {"claim_posted", "claim_verification_routed"} =>
                       run[p].pc \in {"post", "route", "record"} /\ e.claim = run[p].claim
<1>1. run[p] \in RunState
  BY DEF TypeOK
<1>2. CASE SpawnRead(p) \/ StatusRead(p) \/ PostRead(p) \/ PanelRead(p)
           \/ PanelDecide(p) \/ Kill(p)
  BY <1>2 DEF SpawnRead, StatusRead, PostRead, PanelRead, PanelDecide, Kill
<1>3. CASE RouteWrite(p)
  <2>1. ClaimRouted(run[p].claim, "tier0") \in Event
    BY <1>3, <1>1, RunFields, EventTypes DEF RouteWrite, Paths
  <2> QED
    BY <1>3, <2>1 DEF RouteWrite, Write, ClaimRouted
<1>4. CASE PanelRecord(p)
  <2>1. ClaimRouted(run[p].claim, run[p].path) \in Event
    BY <1>4, <1>1, RunFields, EventTypes DEF PanelRecord
  <2> QED
    BY <1>4, <2>1 DEF PanelRecord, Write, ClaimRouted
<1>5. CASE PostWrite(p)
  <2>1. ClaimPosted(run[p].claim, run[p].wt, run[p].card) \in Event
    BY <1>5, <1>1, RunFields, EventTypes DEF PostWrite
  <2> QED
    BY <1>5, <2>1 DEF PostWrite, Write, ClaimPosted
<1>6. CASE SpawnWrite(p)
  <2>1. WorktreeSpawned(run[p].wt, run[p].family) \in Event
    BY <1>6, <1>1, RunFields, EventTypes DEF SpawnWrite
  <2> QED
    BY <1>6, <2>1 DEF SpawnWrite, Write, WorktreeSpawned
<1>7. CASE SpawnRunning(p) \/ StatusWrite(p)
  <2>1. PICK status \in Statuses : /\ journal' = Append(journal, StatusChanged(run[p].wt, status))
                                   /\ run[p].wt \in Id
    BY <1>7, <1>1, RunFields DEF SpawnRunning, StatusWrite, Write, Statuses
  <2>2. StatusChanged(run[p].wt, status) \in Event
    BY <2>1, EventTypes
  <2> QED
    BY <2>1, <2>2 DEF StatusChanged
<1>8. CASE CheckWrite(p)
  <2>1. Tier0Checked(run[p].claim) \in Event
    BY <1>8, <1>1, RunFields, EventTypes DEF CheckWrite
  <2> QED
    BY <1>8, <2>1 DEF CheckWrite, Write, Tier0Checked
<1>9. CASE PanelVerdictWrite(p)
  <2>1. /\ run[p].claim \in Id /\ run[p].wt \in Id /\ run[p].path \in Paths
        /\ run[p].caller \in Families /\ run[p].preset \in Presets
    BY <1>9, <1>1, RunFields DEF PanelVerdictWrite
  <2>2. Eligible(run[p].preset, run[p].caller) \in SUBSET Families
    BY <2>1, EngineAssumption DEF Eligible
  <2>3. PanelVerdict(run[p].claim, run[p].wt, run[p].path, run[p].caller,
                     Eligible(run[p].preset, run[p].caller)) \in Event
    BY <2>1, <2>2, EventTypes
  <2> QED
    BY <1>9, <2>3 DEF PanelVerdictWrite, Write, PanelVerdict
<1> QED
  BY <1>2, <1>3, <1>4, <1>5, <1>6, <1>7, <1>8, <1>9 DEF Step, Continue

\* Ids are handed out one per started post.
LEMMA MintedStep ==
    ASSUME OneSlot, BoardCards, TypeOK, SerialInv, MintedInv, NEW p \in Procs, Step(p)
    PROVE  MintedInv'
<1>1. /\ journal \in Seq(Event) /\ run[p] \in RunState /\ \A q \in Procs : q = p
      /\ started["post"] \in Nat /\ Limit["post"] \in Nat
  BY EngineAssumption DEF TypeOK, OneSlot, Commands
<1>2. CASE PostRead(p)
  <2>1. PICK wt \in WorktreeIds(journal), card \in Cards :
          Enter(p, PostRun("post", wt, NextId(BoardIds(journal)), card))
    BY <1>2 DEF PostRead
  <2>2. /\ run'[p].claim = NextId(BoardIds(journal)) /\ journal' = journal
        /\ started["post"] < Limit["post"]
        /\ started'["post"] = started["post"] + 1
    BY <1>2, <2>1, SlotStep DEF PostRead, PostRun, Start, TypeOK, Commands
  <2>3. BoardIds(journal) \subseteq Nat
    BY <1>1, EventFields DEF BoardIds, PostedIds, Id
  <2>4. /\ BoardIds(journal) \cup {0} \in SUBSET Nat /\ BoardIds(journal) \cup {0} # {}
        /\ \A claim \in BoardIds(journal) \cup {0} : claim <= started["post"]
    BY <1>1, <2>3 DEF MintedInv
  <2>5. Max(BoardIds(journal) \cup {0}) \in BoardIds(journal) \cup {0}
    BY <1>1, <2>4, MaxInSet
  <2>6. NextId(BoardIds(journal)) <= started["post"] + 1
    BY <1>1, <2>4, <2>5 DEF NextId
  <2>7. \A claim \in BoardIds(journal) : claim <= started["post"] + 1
    BY <1>1, <2>3, <2>4
  <2>8. started["post"] + 1 <= Limit["post"]
    BY <1>1, <2>2
  <2> QED
    BY <1>1, <2>2, <2>6, <2>7, <2>8 DEF MintedInv
<1>3. CASE ~PostRead(p)
  <2>1. started'["post"] = started["post"]
    BY <1>3 DEF Step, Continue, SpawnRead, StatusRead, PanelRead, SpawnWrite, SpawnRunning,
       StatusWrite, PostWrite, CheckWrite, RouteWrite, PanelDecide, PanelRecord,
       PanelVerdictWrite, Kill, Start, TypeOK, Commands
  <2>2. run'[p].pc # "post"
    <3>1. CASE SpawnRead(p) \/ StatusRead(p) \/ PanelRead(p)
      <4>1. \E state : Enter(p, state) /\ state.pc \in {"spawn", "status", "decide"}
        <5>1. CASE SpawnRead(p)
          BY <5>1 DEF SpawnRead
        <5>2. CASE StatusRead(p)
          BY <5>2 DEF StatusRead
        <5>3. CASE PanelRead(p)
          BY <5>3 DEF PanelRead, PanelRun
        <5> QED
          BY <3>1, <5>1, <5>2, <5>3
      <4> QED
        BY <4>1, SlotStep
    <3>2. CASE SpawnWrite(p) \/ SpawnRunning(p) \/ StatusWrite(p) \/ RouteWrite(p)
               \/ PanelVerdictWrite(p) \/ Kill(p)
      BY <3>2, SlotStep DEF SpawnWrite, SpawnRunning, StatusWrite, RouteWrite,
         PanelVerdictWrite, Kill, Idle
    <3>3. CASE PostWrite(p) \/ CheckWrite(p)
      BY <1>1, <3>3, SlotStep, RunFields DEF PostWrite, CheckWrite
    <3>4. CASE PanelDecide(p)
      <4>1. run[p] \in [pc : {"decide"}, claim : Id, wt : Id, card : Cards,
                        caller : Families, preset : Presets, path : {"undecided"}]
        BY <1>1, <3>4 DEF RunState, PanelDecide
      <4>2. \E path : run'[p] = [run[p] EXCEPT !.pc = "record", !.path = path]
        BY <3>4, SlotStep DEF PanelDecide
      <4> QED
        BY <4>1, <4>2
    <3>5. CASE PanelRecord(p)
      BY <1>1, <3>5, SlotStep, RecordFields DEF PanelRecord
    <3> QED
      BY <1>3, <3>1, <3>2, <3>3, <3>4, <3>5 DEF Step, Continue
  <2>3. BoardIds(journal') \subseteq BoardIds(journal) \cup
           (IF run[p].pc \in {"post", "route", "record"} THEN {run[p].claim} ELSE {})
    <3>1. CASE journal' = journal
      BY <3>1
    <3>2. ASSUME NEW e \in Event, journal' = Append(journal, e),
                 e.type \in {"claim_posted", "claim_verification_routed"} =>
                    run[p].pc \in {"post", "route", "record"} /\ e.claim = run[p].claim
          PROVE  BoardIds(journal') \subseteq BoardIds(journal) \cup
                    (IF run[p].pc \in {"post", "route", "record"} THEN {run[p].claim} ELSE {})
      <4>1. BoardIds(Append(journal, e)) = BoardIds(journal) \cup
               (IF e.type \in {"claim_posted", "claim_verification_routed"} THEN {e.claim} ELSE {})
        BY <1>1, FoldsAfter
      <4> QED
        BY <3>2, <4>1
    <3> QED
      BY <3>1, <3>2, BoardWritten
  <2>4. run[p].pc \in {"post", "route", "record"} => run[p].claim <= started["post"]
    BY DEF MintedInv, SerialInv, BoardIds
  <2>5. \A claim \in BoardIds(journal') : claim <= started["post"]
    BY <2>3, <2>4 DEF MintedInv
  <2> QED
    BY <1>1, <2>1, <2>2, <2>5 DEF MintedInv
<1> QED
  BY <1>2, <1>3

\* A step of a well-formed, serial board is a step of the ledger or a stutter.
LEMMA LedgerStep ==
    ASSUME OneSlot, BoardCards, TypeOK, PanelInv, SerialInv, MintedInv,
           NEW p \in Procs, Step(p)
    PROVE  [Ledger!Next]_(Ledger!ledgerVars)
<1>1. /\ journal \in Seq(Event) /\ run[p] \in RunState
      /\ started["post"] \in Nat /\ Limit["post"] \in Nat
  BY EngineAssumption DEF TypeOK, Commands
<1>2. ASSUME NEW e \in Event, journal' = Append(journal, e),
             e.type \notin {"claim_posted", "claim_verification_routed"},
             ~(e.type = "panel_verdict_issued" /\ e.verdict = "panel-verified")
      PROVE  UNCHANGED Ledger!ledgerVars
  <2>1. LedgerOf(journal') = LedgerOf(journal)
    BY <1>1, <1>2, LedgerAfter
  <2>2. /\ RoutePairs(journal') = RoutePairs(journal)
        /\ VerifiedIds(journal') = VerifiedIds(journal)
    BY <1>1, <1>2, FoldsAfter
  <2> QED
    BY <2>1, <2>2 DEF Ledger!ledgerVars, LedgerOf, RoutePairs, VerifiedIds
<1>3. \A claim \in Nat : claim \in Id /\ claim <= started["post"] => claim \in ClaimIds
  <2> DEFINE stray == Max(StrayClaims \cup {0})
  <2>1. stray \in Nat
    BY EngineAssumption, FiniteMax
  <2>2. ClaimIds = 1..(Limit["post"] + stray) /\ started["post"] <= Limit["post"]
    BY DEF ClaimIds, MintedInv
  <2> HIDE DEF stray
  <2> QED
    BY <1>1, <2>1, <2>2 DEF Id
<1>4. CASE SpawnRead(p) \/ StatusRead(p) \/ PostRead(p) \/ PanelRead(p)
           \/ PanelDecide(p) \/ Kill(p)
  <2>1. journal' = journal
    BY <1>4 DEF SpawnRead, StatusRead, PostRead, PanelRead, PanelDecide, Kill
  <2> QED
    BY <2>1 DEF Ledger!ledgerVars
<1>5. CASE SpawnWrite(p)
  <2>1. WorktreeSpawned(run[p].wt, run[p].family) \in Event
    BY <1>5, <1>1, RunFields, EventTypes DEF SpawnWrite
  <2> QED
    BY <1>2, <1>5, <2>1 DEF SpawnWrite, Write, WorktreeSpawned
<1>6. CASE SpawnRunning(p) \/ StatusWrite(p)
  <2>1. PICK status \in Statuses : /\ journal' = Append(journal, StatusChanged(run[p].wt, status))
                                   /\ run[p].wt \in Id
    BY <1>6, <1>1, RunFields DEF SpawnRunning, StatusWrite, Write, Statuses
  <2>2. StatusChanged(run[p].wt, status) \in Event
    BY <2>1, EventTypes
  <2> QED
    BY <1>2, <2>1, <2>2 DEF StatusChanged
<1>7. CASE CheckWrite(p)
  <2>1. Tier0Checked(run[p].claim) \in Event
    BY <1>7, <1>1, RunFields, EventTypes DEF CheckWrite
  <2> QED
    BY <1>2, <1>7, <2>1 DEF CheckWrite, Write, Tier0Checked
<1>8. CASE PostWrite(p)
  <2> DEFINE e == ClaimPosted(run[p].claim, run[p].wt, run[p].card)
  <2>1. /\ e \in Event /\ e.type = "claim_posted"
        /\ e.claim = run[p].claim /\ e.card = run[p].card
    BY <1>1, <1>8, RunFields, EventTypes DEF PostWrite, ClaimPosted
  <2>2. journal' = Append(journal, e) /\ run[p].pc = "post"
    BY <1>8 DEF PostWrite, Write
  <2> HIDE DEF e
  <2>3. run[p].claim \in ClaimIds /\ run[p].card \in Cards /\ run[p].claim \notin PostedIds(journal)
    BY <1>1, <1>3, <2>2, RunFields DEF MintedInv, SerialInv, BoardIds, Id
  <2>4. LedgerOf(journal') = [c \in DOMAIN LedgerOf(journal) \cup {run[p].claim} |->
                                 IF c = run[p].claim THEN run[p].card ELSE LedgerOf(journal)[c]]
    <3>1. LedgerOf(Append(journal, e)) = [c \in DOMAIN LedgerOf(journal) \cup {e.claim} |->
                                             IF c = e.claim THEN e.card ELSE LedgerOf(journal)[c]]
      BY <1>1, <2>1, <2>3, Publishes
    <3> QED
      BY <2>1, <2>2, <3>1
  <2>5. /\ RoutePairs(journal') = RoutePairs(journal)
        /\ VerifiedIds(journal') = VerifiedIds(journal)
    BY <1>1, <2>1, <2>2, FoldsAfter
  <2>6. Ledger!Publish(run[p].claim, run[p].card)
    BY <2>3, <2>4, <2>5 DEF Ledger!Publish, LedgerOf, RoutePairs, VerifiedIds
  <2> QED
    BY <2>3, <2>6 DEF Ledger!Next
<1>9. ASSUME NEW path \in Paths, run[p].claim \in Id,
             run[p].claim \in PostedIds(journal),
             journal' = Append(journal, ClaimRouted(run[p].claim, path)),
             path = "tier2-verdict" => CardOf(journal, run[p].claim) \notin Tier0Cards
      PROVE  Ledger!Next
  <2> DEFINE e == ClaimRouted(run[p].claim, path)
  <2>1. /\ e \in Event /\ e.type = "claim_verification_routed"
        /\ e.claim = run[p].claim /\ e.path = path
    BY <1>9, EventTypes DEF ClaimRouted
  <2>2. journal' = Append(journal, e)
    BY <1>9
  <2> HIDE DEF e
  <2>3. run[p].claim \in ClaimIds
    BY <1>3, <1>9 DEF MintedInv, BoardIds, Id
  <2>4. LedgerOf(journal') = LedgerOf(journal)
    BY <1>1, <2>1, <2>2, LedgerAfter
  <2>5. /\ RoutePairs(journal') = RoutePairs(journal) \cup {<<run[p].claim, path>>}
        /\ VerifiedIds(journal') = VerifiedIds(journal)
    BY <1>1, <2>1, <2>2, FoldsAfter
  <2>6. Ledger!Route(run[p].claim, path)
    BY <1>9, <2>4, <2>5 DEF Ledger!Route, LedgerOf, RoutePairs, VerifiedIds
  <2> QED
    BY <2>3, <2>6 DEF Ledger!Next, Paths
<1>10. CASE RouteWrite(p)
  BY <1>1, <1>9, <1>10, RunFields DEF RouteWrite, Write, SerialInv, Paths
<1>11. CASE PanelRecord(p)
  <2>1. /\ run[p].pc = "record" /\ run[p].path \in Paths /\ run[p].claim \in Id
        /\ journal' = Append(journal, ClaimRouted(run[p].claim, run[p].path))
    BY <1>1, <1>11, RunFields DEF PanelRecord, Write
  <2>2. /\ run[p].claim \in PostedIds(journal)
        /\ run[p].card = CardOf(journal, run[p].claim)
    BY <2>1 DEF SerialInv
  <2>3. run[p].path = "tier2-verdict" => run[p].card \notin Tier0Cards
    BY <2>1 DEF PanelInv, DecisionSound, Tier0Applicable
  <2> QED
    BY <1>9, <2>1, <2>2, <2>3
<1>12. CASE PanelVerdictWrite(p)
  <2> DEFINE e == PanelVerdict(run[p].claim, run[p].wt, run[p].path, run[p].caller,
                               Eligible(run[p].preset, run[p].caller))
  <2>1. /\ run[p].claim \in Id /\ run[p].wt \in Id /\ run[p].path \in Paths
        /\ run[p].caller \in Families /\ run[p].preset \in Presets /\ run[p].pc = "verdict"
    BY <1>1, <1>12, RunFields DEF PanelVerdictWrite
  <2>2. Eligible(run[p].preset, run[p].caller) \in SUBSET Families
    BY <2>1, EngineAssumption DEF Eligible
  <2>3. e \in Event
    BY <2>1, <2>2, EventTypes
  <2>4. /\ e.type = "panel_verdict_issued" /\ e.claim = run[p].claim
        /\ e.verdict = "panel-verified" => run[p].path = "tier2-verdict"
    BY <2>1 DEF PanelVerdict, Paths
  <2>5. journal' = Append(journal, e)
    BY <1>12 DEF PanelVerdictWrite, Write
  <2> HIDE DEF e
  <2>6. CASE e.verdict # "panel-verified"
    BY <1>2, <2>3, <2>4, <2>5, <2>6
  <2>7. CASE e.verdict = "panel-verified"
    <3>1. run[p].claim \in ClaimIds
      BY <1>3, <2>1 DEF MintedInv, SerialInv, BoardIds, Id
    <3>2. <<run[p].claim, "tier2-verdict">> \in RoutePairs(journal)
      BY <2>1, <2>4, <2>7 DEF PanelInv, DecisionRecorded, RoutingsOf, RoutePairs
    <3>3. LedgerOf(journal') = LedgerOf(journal)
      BY <1>1, <2>3, <2>4, <2>5, LedgerAfter
    <3>4. /\ RoutePairs(journal') = RoutePairs(journal)
          /\ VerifiedIds(journal') = VerifiedIds(journal) \cup {run[p].claim}
      BY <1>1, <2>3, <2>4, <2>5, <2>7, FoldsAfter
    <3>5. PICK claim \in ClaimIds : claim = run[p].claim
      BY <3>1
    <3>6. Ledger!Verify(claim)
      BY <3>2, <3>3, <3>4, <3>5 DEF Ledger!Verify, LedgerOf, RoutePairs, VerifiedIds
    <3>7. Ledger!Next
      BY <3>6 DEF Ledger!Next
    <3> QED
      BY <3>7
  <2> QED
    BY <2>6, <2>7
<1> QED
  BY <1>4, <1>5, <1>6, <1>7, <1>8, <1>10, <1>11, <1>12 DEF Step, Continue

\* Commands that run one at a time and panels that judge the board's own card
\* keep the ledger's promises in the journal: an id is published once and its
\* card stays, no claim Tier 0 can check is routed to a panel verdict, and
\* only claims so routed are verified, however often commands are killed.
THEOREM BoardRefinesLedger ==
    ASSUME OneSlot, BoardCards
    PROVE  Spec => BoardImplementsLedger
<1>1. Init => Ledger!Init /\ MintedInv
  <2> SUFFICES ASSUME Init PROVE Ledger!Init /\ MintedInv
    OBVIOUS
  <2>1. /\ PostedIds(journal) = {} /\ Routings(journal) = {} /\ Verdicts(journal) = {}
        /\ BoardIds(journal) = {}
    BY DEF Init, PostedIds, Posts, Routings, Verdicts, BoardIds, Lines
  <2>2. Ledger!Init
    BY <2>1 DEF Ledger!Init, Ledger!Empty
  <2>3. MintedInv
    BY <2>1, EngineAssumption DEF Init, Idle, MintedInv, Commands
  <2> QED
    BY <2>2, <2>3
<1>2. TypeOK /\ PanelInv /\ SerialInv /\ MintedInv /\ [Next]_vars
        => MintedInv' /\ [Ledger!Next]_(Ledger!ledgerVars)
  <2> SUFFICES ASSUME TypeOK, PanelInv, SerialInv, MintedInv, [Next]_vars
               PROVE  MintedInv' /\ [Ledger!Next]_(Ledger!ledgerVars)
    OBVIOUS
  <2>1. CASE Next
    BY <2>1, MintedStep, LedgerStep DEF Next
  <2>2. CASE UNCHANGED vars
    BY <2>2 DEF vars, MintedInv, Ledger!ledgerVars
  <2> QED
    BY <2>1, <2>2
<1> QED
  BY <1>1, <1>2, SerialInvariant, PTL DEF Spec, BoardImplementsLedger, Ledger!Spec

(***************************************************************************)
(* Reliability feeds back.  A verdict counts for the tags its claim now    *)
(* carries; with serial commands no later post gives a judged claim other  *)
(* tags, and what the decision read of the table is still so at the        *)
(* verdict.                                                                *)
(***************************************************************************)
VerdictClaims(j) == {j[i].claim : i \in Verdicts(j)}

VerifiedCalls(j, tag) == {i \in PanelCalls(j, tag) : j[i].verdict = "panel-verified"}

ReliabilityInv ==
    /\ VerdictClaims(journal) \subseteq PostedIds(journal)
    /\ \A p \in Procs :
          run[p].pc \in {"record", "verdict"} /\ run[p].path = "tier2-verdict" =>
             \A tag \in TagsOf[run[p].card] : ~LowReliability(journal, tag)

\* What an event adds to the panel calls of a tag, unless it posts a judged claim again.
LEMMA CallsAfter ==
    ASSUME NEW j \in Seq(Event), NEW e \in Event, NEW tag,
           e.type = "claim_posted" => e.claim \notin VerdictClaims(j)
    PROVE  /\ PanelCalls(Append(j, e), tag) = PanelCalls(j, tag) \cup
                (IF e.type = "panel_verdict_issued" /\ tag \in ClaimTags(j, e.claim)
                 THEN {Len(j) + 1} ELSE {})
           /\ VerifiedCalls(Append(j, e), tag) = VerifiedCalls(j, tag) \cup
                (IF /\ e.type = "panel_verdict_issued" /\ tag \in ClaimTags(j, e.claim)
                    /\ e.verdict = "panel-verified"
                 THEN {Len(j) + 1} ELSE {})
           /\ Len(j) + 1 \notin PanelCalls(j, tag)
<1> DEFINE more == Append(j, e)
           new == Len(j) + 1
<1>1. /\ Lines(more, "panel_verdict_issued") = IF e.type = "panel_verdict_issued"
           THEN Lines(j, "panel_verdict_issued") \cup {new} ELSE Lines(j, "panel_verdict_issued")
      /\ \A i \in Lines(j, "panel_verdict_issued") : more[i] = j[i] /\ i < new
      /\ more[new] = e
  BY LinesAfter, Zenon
<1>2. /\ Verdicts(more) = IF e.type = "panel_verdict_issued" THEN Verdicts(j) \cup {new}
                                                            ELSE Verdicts(j)
      /\ \A i \in Verdicts(j) : more[i] = j[i]
  BY <1>1 DEF Verdicts
<1>3. new \notin Verdicts(j)
  <2>1. \A i \in Verdicts(j) : i < new
    BY <1>1 DEF Verdicts
  <2>2. new \in Nat
    BY LenProperties
  <2>3. ~(new < new)
    BY <2>2
  <2> QED
    BY <2>1, <2>3
<1>4. PostedIds(more) = PostedIds(j) \cup (IF e.type = "claim_posted" THEN {e.claim} ELSE {})
  BY FoldsAfter
<1>5. ASSUME NEW claim, ~(e.type = "claim_posted" /\ e.claim = claim)
      PROVE  ClaimTags(more, claim) = ClaimTags(j, claim)
  <2>1. claim \in PostedIds(more) <=> claim \in PostedIds(j)
    BY <1>4, <1>5
  <2>2. claim \in PostedIds(j) => CardOf(more, claim) = CardOf(j, claim)
    BY <1>5, <2>1, CardAfter
  <2> HIDE DEF more
  <2> QED
    BY <2>1, <2>2 DEF ClaimTags
<1>6. \A i \in Verdicts(j) : ClaimTags(more, j[i].claim) = ClaimTags(j, j[i].claim)
  BY <1>5 DEF VerdictClaims
<1>7. e.type = "panel_verdict_issued" => ClaimTags(more, e.claim) = ClaimTags(j, e.claim)
  BY <1>5
<1> HIDE DEF more, new
<1>8. PanelCalls(more, tag) = PanelCalls(j, tag) \cup
         (IF e.type = "panel_verdict_issued" /\ tag \in ClaimTags(j, e.claim)
          THEN {new} ELSE {})
  BY <1>1, <1>2, <1>6, <1>7 DEF PanelCalls
<1>9. \A i \in PanelCalls(j, tag) : more[i] = j[i]
  BY <1>2 DEF PanelCalls
<1>10. VerifiedCalls(more, tag) = VerifiedCalls(j, tag) \cup
         (IF /\ e.type = "panel_verdict_issued" /\ tag \in ClaimTags(j, e.claim)
             /\ e.verdict = "panel-verified"
          THEN {new} ELSE {})
  BY <1>1, <1>8, <1>9 DEF VerifiedCalls
<1>11. new \notin PanelCalls(j, tag)
  BY <1>3 DEF PanelCalls
<1> QED
  BY <1>8, <1>10, <1>11 DEF more, new

\* The calls of a tag are counted by a number.
LEMMA CallsFinite ==
    ASSUME NEW j \in Seq(Event), NEW tag
    PROVE  /\ IsFiniteSet(PanelCalls(j, tag)) /\ IsFiniteSet(VerifiedCalls(j, tag))
           /\ Cardinality(PanelCalls(j, tag)) \in Nat
           /\ Cardinality(VerifiedCalls(j, tag)) \in Nat
<1>1. DOMAIN j = 1..Len(j) /\ Len(j) \in Nat
  BY LenProperties
<1>2. IsFiniteSet(DOMAIN j)
  BY <1>1, FS_Interval
<1>3. PanelCalls(j, tag) \in SUBSET DOMAIN j /\ VerifiedCalls(j, tag) \in SUBSET DOMAIN j
  BY DEF PanelCalls, VerifiedCalls, Verdicts, Lines
<1>4. IsFiniteSet(PanelCalls(j, tag)) /\ IsFiniteSet(VerifiedCalls(j, tag))
  BY <1>2, <1>3, FS_Subset, Zenon
<1> QED
  BY <1>4, FS_CardinalityType

\* Only a verdict that grants raises the verdict rate of its tags.
LEMMA LowStays ==
    ASSUME NEW j \in Seq(Event), NEW e \in Event, NEW tag,
           e.type = "claim_posted" => e.claim \notin VerdictClaims(j),
           e.type = "panel_verdict_issued" /\ e.verdict = "panel-verified" =>
              tag \notin ClaimTags(j, e.claim),
           LowReliability(j, tag)
    PROVE  LowReliability(Append(j, e), tag)
<1> DEFINE n == Cardinality(PanelCalls(j, tag))
           v == Cardinality(VerifiedCalls(j, tag))
           m == Cardinality(PanelCalls(Append(j, e), tag))
<1>1. n \in Nat /\ v \in Nat /\ IsFiniteSet(PanelCalls(j, tag))
  BY CallsFinite
<1>2. n >= MinPanelCalls /\ 2 * v < n
  <2>1. VerifiedCalls(j, tag) = {i \in PanelCalls(j, tag) : j[i].verdict = "panel-verified"}
    BY DEF VerifiedCalls
  <2> QED
    BY <2>1 DEF LowReliability
<1>0. /\ PanelCalls(Append(j, e), tag) = PanelCalls(j, tag) \cup
            (IF e.type = "panel_verdict_issued" /\ tag \in ClaimTags(j, e.claim)
             THEN {Len(j) + 1} ELSE {})
      /\ VerifiedCalls(Append(j, e), tag) = VerifiedCalls(j, tag) \cup
            (IF /\ e.type = "panel_verdict_issued" /\ tag \in ClaimTags(j, e.claim)
                /\ e.verdict = "panel-verified"
             THEN {Len(j) + 1} ELSE {})
      /\ Len(j) + 1 \notin PanelCalls(j, tag)
  BY CallsAfter, Zenon
<1>3. VerifiedCalls(Append(j, e), tag) = VerifiedCalls(j, tag)
  BY <1>0
<1>4. m = n \/ m = n + 1
  <2>1. \/ PanelCalls(Append(j, e), tag) = PanelCalls(j, tag)
        \/ /\ PanelCalls(Append(j, e), tag) = PanelCalls(j, tag) \cup {Len(j) + 1}
           /\ Len(j) + 1 \notin PanelCalls(j, tag)
    BY <1>0
  <2>2. Cardinality(PanelCalls(j, tag) \cup {Len(j) + 1})
          = IF Len(j) + 1 \in PanelCalls(j, tag) THEN n ELSE n + 1
    BY <1>1, FS_AddElement
  <2> QED
    BY <2>1, <2>2
<1> HIDE DEF n, v, m
<1>5. m >= MinPanelCalls /\ 2 * v < m
  BY <1>1, <1>2, <1>4 DEF MinPanelCalls
<1> QED
  BY <1>3, <1>5 DEF LowReliability, VerifiedCalls, m, v

\* Nothing but posts and verdicts bears on the table.
LEMMA LowUnchanged ==
    ASSUME NEW j \in Seq(Event), NEW e \in Event, NEW tag,
           e.type \notin {"claim_posted", "panel_verdict_issued"}
    PROVE  LowReliability(Append(j, e), tag) = LowReliability(j, tag)
<1>1. /\ PanelCalls(Append(j, e), tag) = PanelCalls(j, tag)
      /\ VerifiedCalls(Append(j, e), tag) = VerifiedCalls(j, tag)
  <2>1. /\ PanelCalls(Append(j, e), tag) = PanelCalls(j, tag) \cup
              (IF e.type = "panel_verdict_issued" /\ tag \in ClaimTags(j, e.claim)
               THEN {Len(j) + 1} ELSE {})
        /\ VerifiedCalls(Append(j, e), tag) = VerifiedCalls(j, tag) \cup
              (IF /\ e.type = "panel_verdict_issued" /\ tag \in ClaimTags(j, e.claim)
                  /\ e.verdict = "panel-verified"
               THEN {Len(j) + 1} ELSE {})
    BY CallsAfter, Zenon
  <2> QED
    BY <2>1
<1> QED
  BY <1>1 DEF LowReliability, VerifiedCalls

\* A panel that grants judges no tag the table already holds low.
LEMMA LowKept ==
    ASSUME OneSlot, BoardCards, TypeOK, SerialInv, ReliabilityInv,
           NEW p \in Procs, Step(p), NEW tag \in Tags, LowReliability(journal, tag)
    PROVE  LowReliability(journal', tag)
<1>1. journal \in Seq(Event) /\ run[p] \in RunState
  BY DEF TypeOK
<1>2. CASE journal' = journal
  BY <1>2
<1>3. ASSUME NEW e \in Event, journal' = Append(journal, e),
             e.type = "claim_posted" =>
                PostWrite(p) /\ e = ClaimPosted(run[p].claim, run[p].wt, run[p].card),
             e.type = "panel_verdict_issued" =>
                /\ PanelVerdictWrite(p)
                /\ e = PanelVerdict(run[p].claim, run[p].wt, run[p].path, run[p].caller,
                                    Eligible(run[p].preset, run[p].caller))
      PROVE  LowReliability(journal', tag)
  <2>1. e.type = "claim_posted" => e.claim \notin VerdictClaims(journal)
    BY <1>3 DEF PostWrite, ClaimPosted, SerialInv, ReliabilityInv, BoardIds
  <2>2. ASSUME e.type = "panel_verdict_issued", e.verdict = "panel-verified"
        PROVE  tag \notin ClaimTags(journal, e.claim)
    <3>1. e.claim = run[p].claim /\ run[p].pc = "verdict"
      BY <1>3, <2>2 DEF PanelVerdictWrite, PanelVerdict
    <3>2. run[p].path = "tier2-verdict"
      <4>1. run[p].path \in Paths
        BY <1>1, <3>1, RunFields
      <4> QED
        BY <1>3, <2>2, <4>1 DEF PanelVerdict, Paths
    <3>3. /\ run[p].claim \in PostedIds(journal)
          /\ run[p].card = CardOf(journal, run[p].claim)
      BY <3>1 DEF SerialInv
    <3>4. tag \notin TagsOf[run[p].card]
      BY <3>1, <3>2 DEF ReliabilityInv
    <3>5. tag # UnknownTag
      BY CardsAssumption
    <3> QED
      BY <3>1, <3>3, <3>4, <3>5 DEF ClaimTags
  <2>3. LowReliability(Append(journal, e), tag)
    BY <1>1, <2>1, <2>2, LowStays
  <2> QED
    BY <1>3, <2>3
<1>4. \/ journal' = journal
      \/ \E e \in Event :
            /\ journal' = Append(journal, e)
            /\ e.type = "claim_posted" =>
                  PostWrite(p) /\ e = ClaimPosted(run[p].claim, run[p].wt, run[p].card)
            /\ e.type = "panel_verdict_issued" =>
                  /\ PanelVerdictWrite(p)
                  /\ e = PanelVerdict(run[p].claim, run[p].wt, run[p].path, run[p].caller,
                                      Eligible(run[p].preset, run[p].caller))
  BY Written
<1> QED
  BY <1>2, <1>3, <1>4

\* A request knows of the table what its decision read.
LEMMA ReliabilityStep ==
    ASSUME OneSlot, BoardCards, TypeOK, SerialInv, ReliabilityInv, NEW p \in Procs, Step(p)
    PROVE  ReliabilityInv'
<1>1. journal \in Seq(Event) /\ run[p] \in RunState /\ \A q \in Procs : q = p
  BY DEF TypeOK, OneSlot
<1>2. VerdictClaims(journal') \subseteq PostedIds(journal')
  <2>1. CASE journal' = journal
    BY <2>1 DEF ReliabilityInv
  <2>2. ASSUME NEW e \in Event, journal' = Append(journal, e),
               e.type = "panel_verdict_issued" => e.claim \in PostedIds(journal)
        PROVE  VerdictClaims(journal') \subseteq PostedIds(journal')
    <3> DEFINE new == Len(journal) + 1
               more == Append(journal, e)
    <3>1. /\ Lines(more, "panel_verdict_issued") = IF e.type = "panel_verdict_issued"
               THEN Lines(journal, "panel_verdict_issued") \cup {new}
               ELSE Lines(journal, "panel_verdict_issued")
          /\ \A i \in Lines(journal, "panel_verdict_issued") : more[i] = journal[i] /\ i < new
          /\ more[new] = e
      BY <1>1, LinesAfter, Zenon
    <3>2. PostedIds(journal) \subseteq PostedIds(more)
      BY <1>1, FoldsAfter
    <3> HIDE DEF new, more
    <3>3. VerdictClaims(more) \subseteq VerdictClaims(journal) \cup
             (IF e.type = "panel_verdict_issued" THEN {e.claim} ELSE {})
      BY <3>1 DEF VerdictClaims, Verdicts
    <3>4. VerdictClaims(more) \subseteq PostedIds(more)
      BY <2>2, <3>2, <3>3 DEF ReliabilityInv
    <3> QED
      BY <2>2, <3>4 DEF more
  <2>3. \/ journal' = journal
        \/ \E e \in Event :
              /\ journal' = Append(journal, e)
              /\ e.type = "panel_verdict_issued" => e.claim \in PostedIds(journal)
    <3>1. \/ journal' = journal
          \/ \E e \in Event :
                /\ journal' = Append(journal, e)
                /\ e.type = "panel_verdict_issued" =>
                      /\ PanelVerdictWrite(p)
                      /\ e = PanelVerdict(run[p].claim, run[p].wt, run[p].path, run[p].caller,
                                          Eligible(run[p].preset, run[p].caller))
      BY Written
    <3>2. PanelVerdictWrite(p) => run[p].claim \in PostedIds(journal)
      BY DEF PanelVerdictWrite, SerialInv
    <3> QED
      BY <3>1, <3>2 DEF PanelVerdict
  <2> QED
    BY <2>1, <2>2, <2>3
<1>3. ASSUME run'[p].pc \in {"record", "verdict"}, run'[p].path = "tier2-verdict",
             NEW tag \in TagsOf[run'[p].card]
      PROVE  ~LowReliability(journal', tag)
  <2>1. CASE PanelDecide(p)
    <3> DEFINE path == RouteForClaim(journal, run[p].claim, run[p].card,
                                     run[p].caller, run[p].preset)
    <3>1. path = "tier2-verdict" => \A t \in TagsOf[run[p].card] : ~LowReliability(journal, t)
      BY DEF RouteForClaim
    <3>2. /\ journal' = journal /\ run[p].pc = "decide"
          /\ run'[p] = [run[p] EXCEPT !.pc = "record", !.path = path]
      BY <2>1, SlotStep DEF PanelDecide
    <3> HIDE DEF path
    <3>3. run[p] \in [pc : {"decide"}, claim : Id, wt : Id, card : Cards,
                      caller : Families, preset : Presets, path : {"undecided"}]
      BY <1>1, <3>2 DEF RunState
    <3>4. run'[p].path = path /\ run'[p].card = run[p].card
      BY <3>2, <3>3
    <3> QED
      BY <1>3, <3>1, <3>2, <3>4
  <2>2. CASE PanelRecord(p)
    <3> DEFINE e == ClaimRouted(run[p].claim, run[p].path)
    <3>1. /\ run'[p] = [run[p] EXCEPT !.pc = "verdict"] /\ run[p].pc = "record"
          /\ journal' = Append(journal, e)
      BY <2>2, SlotStep DEF PanelRecord, Write
    <3>2. run'[p].path = run[p].path /\ run'[p].card = run[p].card
      BY <1>1, <3>1, RecordFields
    <3>3. e \in Event /\ e.type = "claim_verification_routed"
      BY <1>1, <3>1, RunFields, EventTypes DEF ClaimRouted
    <3> HIDE DEF e
    <3>4. LowReliability(Append(journal, e), tag) = LowReliability(journal, tag)
      BY <1>1, <3>3, LowUnchanged
    <3>5. ~LowReliability(journal, tag)
      BY <1>3, <3>1, <3>2 DEF ReliabilityInv
    <3> QED
      BY <3>1, <3>4, <3>5
  <2>3. CASE SpawnRead(p) \/ StatusRead(p) \/ PostRead(p) \/ PanelRead(p)
    <3>1. \E state : Enter(p, state) /\ state.pc \in {"spawn", "status", "post", "decide"}
      <4>1. CASE SpawnRead(p)
        BY <4>1 DEF SpawnRead
      <4>2. CASE StatusRead(p)
        BY <4>2 DEF StatusRead
      <4>3. CASE PostRead(p)
        BY <4>3 DEF PostRead, PostRun
      <4>4. CASE PanelRead(p)
        BY <4>4 DEF PanelRead, PanelRun
      <4> QED
        BY <2>3, <4>1, <4>2, <4>3, <4>4
    <3> QED
      BY <1>3, <3>1, SlotStep
  <2>4. CASE SpawnWrite(p) \/ SpawnRunning(p) \/ StatusWrite(p) \/ RouteWrite(p)
             \/ PanelVerdictWrite(p) \/ Kill(p)
    BY <1>3, <2>4, SlotStep DEF SpawnWrite, SpawnRunning, StatusWrite, RouteWrite,
       PanelVerdictWrite, Kill, Idle
  <2>5. CASE PostWrite(p) \/ CheckWrite(p)
    <3>1. run[p].pc \in {"post", "check"} /\ \E pc \in {"check", "route"} :
             run'[p] = [run[p] EXCEPT !.pc = pc]
      BY <2>5, SlotStep DEF PostWrite, CheckWrite
    <3>2. run[p] \in [pc : {"post", "check", "route"}, wt : Id, claim : Id, card : Cards]
      BY <1>1, <3>1 DEF RunState
    <3> QED
      BY <1>3, <3>1, <3>2
  <2> QED
    BY <2>1, <2>2, <2>3, <2>4, <2>5 DEF Step, Continue
<1> QED
  BY <1>1, <1>2, <1>3 DEF ReliabilityInv

\* A tag that fell below the reliability threshold never recovers, while
\* commands run one at a time and panels judge the board's card: its claims
\* only get advisory panels, and those lower its verdict rate further.
THEOREM LowReliabilityAbsorbs ==
    ASSUME OneSlot, BoardCards
    PROVE  Spec => LowReliabilityIsAbsorbing
<1>1. Init => ReliabilityInv
  BY DEF Init, Idle, ReliabilityInv, VerdictClaims, Verdicts, Lines
<1>2. ASSUME TypeOK, SerialInv, ReliabilityInv, [Next]_vars
      PROVE  /\ ReliabilityInv'
             /\ [\A tag \in Tags :
                    LowReliability(journal, tag) => LowReliability(journal', tag)]_vars
  <2>1. CASE Next
    BY <1>2, <2>1, LowKept, ReliabilityStep DEF Next
  <2>2. CASE UNCHANGED vars
    BY <1>2, <2>2 DEF vars, ReliabilityInv
  <2> QED
    BY <1>2, <2>1, <2>2
<1> QED
  BY <1>1, <1>2, SerialInvariant, PTL DEF Spec, LowReliabilityIsAbsorbing
=============================================================================
