------------------------- MODULE CheckpointsProofs -------------------------
(***************************************************************************)
(* Proofs about Checkpoints, for every value of its constants: any number  *)
(* of parallel calls, interruptions, sessions and lost writes.             *)
(***************************************************************************)
EXTENDS Checkpoints, Maxima, SequenceTheorems

(***************************************************************************)
(* What the folds of a well-formed journal return.                         *)
(***************************************************************************)

\* Every line of the journal names a checkpoint, and a line that reaches one
\* names its stage.
LEMMA EventFields ==
    ASSUME NEW j \in Seq(Event)
    PROVE  /\ DOMAIN j = 1..Len(j) /\ Len(j) \in Nat
           /\ \A i \in DOMAIN j :
                 /\ j[i].cp \in Id
                 /\ j[i].type = "checkpoint_reached" => j[i].stage \in Stages
<1>1. DOMAIN j = 1..Len(j) /\ Len(j) \in Nat /\ \A i \in 1..Len(j) : j[i] \in Event
  BY LenProperties, ElementOfSeq
<1>2. \A e \in Event : /\ e.cp \in Id
                       /\ e.type = "checkpoint_reached" => e.stage \in Stages
  BY DEF Event
<1> QED BY <1>1, <1>2

\* The engine mints a proper id.
LEMMA MintType ==
    ASSUME NEW j \in Seq(Event)
    PROVE  Mint(j) \in Id
<1> DEFINE f == [i \in 1..Len(j) |-> j[i].cp]
           S == ReachedIds(j)
<1>1. f \in [1..Len(j) -> Nat] /\ Len(j) \in Nat
  BY EventFields DEF Id
<1>2. S \subseteq {f[i] : i \in 1..Len(j)}
  BY EventFields DEF ReachedIds
<1> HIDE DEF f, S
<1>3. Max(S \cup {0}) \in Nat
  BY <1>1, <1>2, MaxOfListed
<1> QED BY <1>3 DEF Mint, S, Id

\* A new session starts with a proper counter.
LEMMA RehydratedType ==
    ASSUME NEW j \in Seq(Event)
    PROVE  Rehydrated(j) \in Nat
<1> DEFINE f == [i \in 1..Len(j) |-> j[i].cp]
           S == {j[i].cp : i \in DOMAIN j}
<1>1. f \in [1..Len(j) -> Nat] /\ Len(j) \in Nat
  BY EventFields DEF Id
<1>2. S \subseteq {f[i] : i \in 1..Len(j)}
  BY EventFields
<1> HIDE DEF f, S
<1>3. Max(S \cup {0}) \in Nat
  BY <1>1, <1>2, MaxOfListed
<1> QED BY <1>3 DEF Rehydrated, S

\* The stage of a reached checkpoint is the stage of one of its lines.
LEMMA StageOfReached ==
    ASSUME NEW j \in Seq(Event), NEW cp \in ReachedIds(j)
    PROVE  StageOf(j, cp) \in Stages /\ cp \in Id
<1> DEFINE S == ReachedAt(j, cp)
<1>1. S \in SUBSET Nat /\ S # {} /\ Len(j) \in Nat /\ \A i \in S : i <= Len(j)
  BY EventFields DEF ReachedIds, ReachedAt
<1>2. \A i \in S : j[i].stage \in Stages /\ j[i].cp = cp /\ cp \in Id
  BY EventFields DEF ReachedAt
<1> HIDE DEF S
<1>3. Max(S) \in S
  BY <1>1, MaxInSet
<1> QED BY <1>2, <1>3 DEF StageOf, S

(***************************************************************************)
(* The session's store.                                                    *)
(***************************************************************************)

\* No id of the store is above the counter: this is what keeps a proposal of
\* the session from overwriting a checkpoint it holds.
BelowCounter(store, n) == \A cp \in DOMAIN store : cp <= n

StoreOK(store, n) ==
    /\ DOMAIN store \subseteq Id
    /\ \A cp \in DOMAIN store : store[cp] \in Record
    /\ n \in Nat
    /\ BelowCounter(store, n)

\* store2 keeps every checkpoint of store1, its stage and its decision.
Keeps(store1, store2) ==
    \A cp \in DOMAIN store1 :
        /\ cp \in DOMAIN store2
        /\ store2[cp].stage = store1[cp].stage
        /\ store2[cp].revision >= store1[cp].revision
        /\ store1[cp].status = "confirmed" => store2[cp] = store1[cp]

\* A store keeps itself.
LEMMA KeepsItself ==
    ASSUME NEW store, \A cp \in DOMAIN store : store[cp] \in Record
    PROVE  Keeps(store, store)
<1>1. \A cp \in DOMAIN store : store[cp].revision \in Nat
  BY DEF Record
<1> QED BY <1>1 DEF Keeps

\* Keeping is transitive.
LEMMA KeepsBoth ==
    ASSUME NEW store1, NEW store2, NEW store3,
           Keeps(store1, store2), Keeps(store2, store3),
           \A cp \in DOMAIN store1 : store1[cp] \in Record,
           \A cp \in DOMAIN store2 : store2[cp] \in Record,
           \A cp \in DOMAIN store3 : store3[cp] \in Record
    PROVE  Keeps(store1, store3)
<1> SUFFICES ASSUME NEW cp \in DOMAIN store1
             PROVE  /\ cp \in DOMAIN store3
                    /\ store3[cp].stage = store1[cp].stage
                    /\ store3[cp].revision >= store1[cp].revision
                    /\ store1[cp].status = "confirmed" =>
                          store3[cp] = store1[cp]
  BY DEF Keeps
<1>1. cp \in DOMAIN store2 /\ cp \in DOMAIN store3
  BY DEF Keeps
<1>2. /\ store1[cp].revision \in Nat
      /\ store2[cp].revision \in Nat
      /\ store3[cp].revision \in Nat
  BY <1>1 DEF Record
<1> QED BY <1>1, <1>2 DEF Keeps

\* A checkpoint under a new id leaves the store in order.
LEMMA AddsRecord ==
    ASSUME NEW store, NEW n, StoreOK(store, n),
           NEW cp \in Id, cp \notin DOMAIN store,
           NEW stage \in Stages,
           NEW m \in Nat, n <= m, cp <= m
    PROVE  /\ StoreOK(With(store, cp, Pending(stage)), m)
           /\ Keeps(store, With(store, cp, Pending(stage)))
<1> DEFINE next == With(store, cp, Pending(stage))
<1>1. Pending(stage) \in Record
  BY DEF Pending, Record
<1>2. /\ DOMAIN next = DOMAIN store \cup {cp}
      /\ next[cp] = Pending(stage)
      /\ \A id \in DOMAIN store : next[id] = store[id]
  BY DEF With
<1> HIDE DEF next
<1>3. \A id \in DOMAIN next : next[id] \in Record
  BY <1>1, <1>2 DEF StoreOK
<1>4. BelowCounter(next, m)
  <2> SUFFICES ASSUME NEW id \in DOMAIN next PROVE id <= m
    BY DEF BelowCounter
  <2>1. CASE id \in DOMAIN store
    <3>1. id \in Nat /\ n \in Nat /\ id <= n
      BY <2>1 DEF StoreOK, BelowCounter, Id
    <3> QED BY <3>1
  <2>2. CASE id = cp
    BY <2>2
  <2> QED BY <1>2, <2>1, <2>2
<1>5. Keeps(store, next)
  BY <1>2, KeepsItself DEF StoreOK, Keeps
<1> QED BY <1>2, <1>3, <1>4, <1>5 DEF StoreOK, next

\* Adopting leaves the store in order and forgets nothing.
LEMMA AdoptsRecord ==
    ASSUME NEW store, NEW n, StoreOK(store, n),
           NEW cp \in Id, NEW stage \in Stages
    PROVE  /\ StoreOK(Adopted(store, cp, stage), CounterAfter(store, n, cp))
           /\ Keeps(store, Adopted(store, cp, stage))
           /\ cp \in DOMAIN Adopted(store, cp, stage)
<1>1. CASE cp \in DOMAIN store
  BY <1>1, KeepsItself DEF Adopted, CounterAfter, StoreOK
<1>2. CASE cp \notin DOMAIN store
  <2>1. /\ CounterAfter(store, n, cp) \in Nat
        /\ n <= CounterAfter(store, n, cp)
        /\ cp <= CounterAfter(store, n, cp)
    <3>1. n \in Nat /\ cp \in Nat
      BY DEF StoreOK, Id
    <3>2. CounterAfter(store, n, cp) = IF cp > n THEN cp ELSE n
      BY <1>2 DEF CounterAfter
    <3> QED BY <3>1, <3>2
  <2>2. Adopted(store, cp, stage) = With(store, cp, Pending(stage))
    BY <1>2 DEF Adopted
  <2> DEFINE m == CounterAfter(store, n, cp)
  <2> HIDE DEF m
  <2>3. m \in Nat /\ n <= m /\ cp <= m
    BY <2>1 DEF m
  <2>4. /\ StoreOK(With(store, cp, Pending(stage)), m)
        /\ Keeps(store, With(store, cp, Pending(stage)))
    BY <1>2, <2>3, AddsRecord
  <2>5. cp \in DOMAIN With(store, cp, Pending(stage))
    BY DEF With
  <2> QED BY <2>2, <2>4, <2>5 DEF m
<1> QED BY <1>1, <1>2

\* A decision on a pending checkpoint leaves the store in order and keeps all
\* that was decided before.
LEMMA DecidesRecord ==
    ASSUME NEW store, NEW n, StoreOK(store, n),
           NEW cp \in DOMAIN store, store[cp].status = "pending",
           NEW decision \in Decisions
    PROVE  /\ Decided(store[cp], decision) \in Record
           /\ StoreOK(With(store, cp, Decided(store[cp], decision)), n)
           /\ Keeps(store, With(store, cp, Decided(store[cp], decision)))
<1> DEFINE record == Decided(store[cp], decision)
           next == With(store, cp, record)
<1>1. store[cp] \in Record
  BY DEF StoreOK
<1>2. /\ record \in Record
      /\ record.stage = store[cp].stage
      /\ record.revision >= store[cp].revision
  BY <1>1 DEF Decided, Decisions, Record
<1> HIDE DEF record
<1>3. /\ DOMAIN next = DOMAIN store \cup {cp}
      /\ next[cp] = record
      /\ \A id \in DOMAIN store : id # cp => next[id] = store[id]
  BY DEF With
<1> HIDE DEF next
<1>4. StoreOK(next, n)
  <2>1. \A id \in DOMAIN next : next[id] \in Record
    BY <1>2, <1>3 DEF StoreOK
  <2> QED BY <1>3, <2>1 DEF StoreOK, BelowCounter
<1>5. Keeps(store, store)
  BY KeepsItself DEF StoreOK
<1>6. Keeps(store, next)
  BY <1>2, <1>3, <1>5 DEF Keeps
<1> QED BY <1>2, <1>4, <1>6 DEF next, record

(***************************************************************************)
(* The invariant: types, and a store below its counter.                    *)
(***************************************************************************)
Inv == TypeOK /\ BelowCounter(records, counter)

\* What a best-effort write leaves in the journal.
LEMMA BestEffortType ==
    ASSUME Inv, NEW e \in Event, BestEffort(e)
    PROVE  journal' \in Seq(Event) /\ failures' \in Nat
<1>1. journal \in Seq(Event) /\ failures \in Nat
  BY DEF Inv, TypeOK
<1>2. Append(journal, e) \in Seq(Event)
  BY <1>1, AppendProperties
<1>3. CASE journal' = Append(journal, e) /\ UNCHANGED failures
  BY <1>1, <1>2, <1>3
<1>4. CASE failures' = failures + 1 /\ UNCHANGED journal
  BY <1>1, <1>4
<1> QED BY <1>3, <1>4 DEF BestEffort

\* A step leaves the journal and the bounds well formed.
LEMMA JournalStep ==
    ASSUME Inv, Next
    PROVE  /\ journal' \in Seq(Event) /\ failures' \in Nat
           /\ started' \in [Steps -> Nat]
<1> USE DEF Inv
<1>1. ASSUME NEW s \in Steps, Start(s) PROVE started' \in [Steps -> Nat]
  BY <1>1 DEF Start, TypeOK
<1>2. UNCHANGED <<journal, failures>> =>
         journal' \in Seq(Event) /\ failures' \in Nat
  BY DEF TypeOK
<1>3. ASSUME NEW c \in Calls, EngineMint(c) \/ ToolAdopt(c) \/ Timeout(c)
      PROVE  UNCHANGED <<journal, failures>> /\ started' \in [Steps -> Nat]
  BY <1>1, <1>3 DEF EngineMint, ToolAdopt, Timeout, Steps, TypeOK
<1>4. ASSUME NEW c \in Calls, EngineWrite(c)
      PROVE  /\ journal' \in Seq(Event) /\ failures' \in Nat
             /\ started' \in [Steps -> Nat]
  <2>1. calls[c] \in Command
    BY <1>4 DEF EngineWrite, TypeOK, Idle
  <2>2. Reached(calls[c].cp, calls[c].stage) \in Event
    BY <2>1 DEF Command, Reached, Event, Stages
  <2>3. BestEffort(Reached(calls[c].cp, calls[c].stage)) /\ started' = started
    BY <1>4 DEF EngineWrite
  <2> QED BY <2>2, <2>3, BestEffortType DEF TypeOK
<1>5. ASSUME NEW c \in Calls, ProposeOwn(c)
      PROVE  /\ journal' \in Seq(Event) /\ failures' \in Nat
             /\ started' \in [Steps -> Nat]
  <2>1. Reached(counter + 1, OwnStage) \in Event
    BY DEF Reached, Event, Stages, Id, TypeOK
  <2>2. BestEffort(Reached(counter + 1, OwnStage)) /\ Start("status")
    BY <1>5 DEF ProposeOwn
  <2> QED BY <1>1, <2>1, <2>2, BestEffortType DEF Steps
<1>6. ASSUME NEW cp \in DOMAIN records \cup ReachedIds(journal), Respond(cp)
      PROVE  /\ journal' \in Seq(Event) /\ failures' \in Nat
             /\ started' \in [Steps -> Nat]
  <2> DEFINE stage == IF cp \in DOMAIN records THEN records[cp].stage
                                               ELSE StageOf(journal, cp)
             known == Adopted(records, cp, stage)
  <2>1. started' \in [Steps -> Nat]
    BY <1>1, <1>6 DEF Respond, Steps
  <2>2. CASE UNCHANGED <<journal, failures>>
    BY <1>2, <2>1, <2>2
  <2>3. ASSUME NEW decision \in Decisions, known[cp].status = "pending",
               BestEffort(Resolved(cp, decision,
                              Decided(known[cp], decision).revision))
        PROVE  journal' \in Seq(Event) /\ failures' \in Nat
    <3>1. StoreOK(records, counter)
      BY DEF StoreOK, TypeOK
    <3>2. cp \in Id /\ stage \in Stages
      BY StageOfReached DEF TypeOK, Record
    <3> HIDE DEF stage
    <3>3. StoreOK(known, CounterAfter(records, counter, cp))
          /\ cp \in DOMAIN known
      BY <3>1, <3>2, AdoptsRecord
    <3> HIDE DEF known
    <3>4. Decided(known[cp], decision) \in Record
      BY <2>3, <3>3, DecidesRecord
    <3>5. Resolved(cp, decision, Decided(known[cp], decision).revision) \in Event
      BY <3>2, <3>4 DEF Resolved, Event, Record
    <3> QED BY <2>3, <3>5, BestEffortType
  <2> QED BY <1>6, <2>1, <2>2, <2>3 DEF Respond
<1>7. ASSUME NEW cp \in DOMAIN records, Slash(cp)
      PROVE  UNCHANGED <<journal, failures>> /\ started' \in [Steps -> Nat]
  BY <1>1, <1>7 DEF Slash, Steps
<1>8. CASE Restart
  BY <1>1, <1>2, <1>8 DEF Restart, Steps
<1> QED BY <1>2, <1>3, <1>4, <1>5, <1>6, <1>7, <1>8 DEF Next

\* A step leaves the commands under way well formed.
LEMMA CallsStep ==
    ASSUME Inv, Next
    PROVE  calls' \in [Calls -> {Idle} \cup Command]
<1>0. /\ journal \in Seq(Event)
      /\ calls \in [Calls -> {Idle} \cup Command]
  BY DEF Inv, TypeOK
<1>1. \A c \in Calls : calls[c].pc # "idle" => calls[c] \in Command
  BY <1>0 DEF Idle
<1>2. ASSUME NEW c \in Calls, EngineMint(c)
      PROVE  calls' \in [Calls -> {Idle} \cup Command]
  <2>1. PICK stage \in EngineStages :
           calls' = [calls EXCEPT ![c] =
                        [pc |-> "write", stage |-> stage, cp |-> Mint(journal),
                         heard |-> TRUE]]
    BY <1>2 DEF EngineMint
  <2>2. [pc |-> "write", stage |-> stage, cp |-> Mint(journal),
         heard |-> TRUE] \in Command
    BY <1>0, MintType DEF Command
  <2> QED BY <1>0, <2>1, <2>2
<1>3. ASSUME NEW c \in Calls, EngineWrite(c)
      PROVE  calls' \in [Calls -> {Idle} \cup Command]
  <2>1. [calls[c] EXCEPT !.pc = "report"] \in Command
    BY <1>1, <1>3 DEF EngineWrite, Command
  <2> QED BY <1>0, <1>3, <2>1 DEF EngineWrite
<1>4. ASSUME NEW c \in Calls, ToolAdopt(c) \/ Timeout(c) \/ ProposeOwn(c)
      PROVE  calls' \in [Calls -> {Idle} \cup Command]
  BY <1>0, <1>4 DEF ToolAdopt, Timeout, ProposeOwn
<1>5. CASE Restart
  <2>1. \A c \in Calls : calls[c].pc = "write" =>
                            [calls[c] EXCEPT !.heard = FALSE] \in Command
    BY <1>1 DEF Command
  <2> QED BY <1>5, <2>1 DEF Restart
<1>6. ASSUME NEW cp, Respond(cp) \/ Slash(cp)
      PROVE  calls' \in [Calls -> {Idle} \cup Command]
  BY <1>0, <1>6 DEF Respond, Slash
<1> QED BY <1>2, <1>3, <1>4, <1>5, <1>6 DEF Next

\* A step leaves the store in order and, unless the session ends, forgets
\* nothing of it.
LEMMA StoreStep ==
    ASSUME Inv, Next
    PROVE  /\ StoreOK(records', counter')
           /\ started'["restart"] = started["restart"] => Keeps(records, records')
<1>0. StoreOK(records, counter) /\ journal \in Seq(Event)
  BY DEF Inv, TypeOK, StoreOK
<1>1. CASE UNCHANGED session
  BY <1>0, <1>1, KeepsItself DEF session, StoreOK, BelowCounter
<1>2. ASSUME NEW c \in Calls, ToolAdopt(c)
      PROVE  StoreOK(records', counter') /\ Keeps(records, records')
  <2>1. calls[c].cp \in Id /\ calls[c].stage \in Stages
    BY <1>2 DEF ToolAdopt, Inv, TypeOK, Idle, Command, Stages
  <2> QED BY <1>0, <1>2, <2>1, AdoptsRecord DEF ToolAdopt
<1>3. ASSUME NEW c \in Calls, ProposeOwn(c)
      PROVE  StoreOK(records', counter') /\ Keeps(records, records')
  <2>1. /\ counter' = counter + 1
        /\ records' = With(records, counter + 1, Pending(OwnStage))
    BY <1>3 DEF ProposeOwn
  <2>2. /\ counter \in Nat /\ counter + 1 \in Id /\ counter + 1 \in Nat
        /\ counter <= counter + 1 /\ counter + 1 <= counter + 1
    BY <1>0 DEF StoreOK, Id
  <2>3. counter + 1 \notin DOMAIN records
    BY <1>0, <2>2 DEF StoreOK, BelowCounter
  <2>4. OwnStage \in Stages
    BY DEF Stages
  <2> QED BY <1>0, <2>1, <2>2, <2>3, <2>4, AddsRecord
<1>4. ASSUME NEW cp \in DOMAIN records \cup ReachedIds(journal), Respond(cp)
      PROVE  StoreOK(records', counter') /\ Keeps(records, records')
  <2> DEFINE stage == IF cp \in DOMAIN records THEN records[cp].stage
                                               ELSE StageOf(journal, cp)
             known == Adopted(records, cp, stage)
             next  == CounterAfter(records, counter, cp)
  <2>1. cp \in Id /\ stage \in Stages
    BY <1>0, StageOfReached DEF StoreOK, Record
  <2>2. /\ counter' = next
        /\ \/ records' = known
           \/ /\ known[cp].status = "pending"
              /\ \E decision \in Decisions :
                    records' = With(known, cp, Decided(known[cp], decision))
    BY <1>4 DEF Respond
  <2> HIDE DEF stage
  <2>3. StoreOK(known, next) /\ Keeps(records, known) /\ cp \in DOMAIN known
    BY <1>0, <2>1, AdoptsRecord
  <2> HIDE DEF known, next
  <2>4. CASE records' = known
    BY <2>2, <2>3, <2>4
  <2>5. ASSUME NEW decision \in Decisions, known[cp].status = "pending",
               records' = With(known, cp, Decided(known[cp], decision))
        PROVE  StoreOK(records', counter') /\ Keeps(records, records')
    <3>1. StoreOK(records', next) /\ Keeps(known, records')
      BY <2>3, <2>5, DecidesRecord
    <3>2. Keeps(records, records')
      BY <1>0, <2>3, <3>1, KeepsBoth DEF StoreOK
    <3> QED BY <2>2, <3>1, <3>2
  <2> QED BY <2>2, <2>4, <2>5
<1>5. ASSUME NEW cp \in DOMAIN records, Slash(cp)
      PROVE  StoreOK(records', counter') /\ Keeps(records, records')
  <2>1. PICK decision \in Decisions :
           records' = With(records, cp, Decided(records[cp], decision))
    BY <1>5 DEF Slash
  <2>2. records[cp].status = "pending" /\ counter' = counter
    BY <1>5 DEF Slash
  <2> QED BY <1>0, <2>1, <2>2, DecidesRecord
<1>6. CASE Restart
  <2>1. counter' \in Nat
    BY <1>0, <1>6, RehydratedType DEF Restart
  <2>2. DOMAIN records' = {}
    BY <1>6 DEF Restart
  <2>3. started'["restart"] # started["restart"]
    BY <1>6 DEF Restart, Start, Inv, TypeOK, Steps
  <2> QED BY <2>1, <2>2, <2>3 DEF StoreOK, BelowCounter
<1>7. ASSUME NEW c \in Calls, EngineMint(c) \/ EngineWrite(c) \/ Timeout(c)
      PROVE  UNCHANGED session
  BY <1>7 DEF EngineMint, EngineWrite, Timeout
<1> QED BY <1>1, <1>2, <1>3, <1>4, <1>5, <1>6, <1>7 DEF Next

\* The invariant holds before the first call.
LEMMA InvInit == Init => Inv
<1> SUFFICES ASSUME Init PROVE Inv
  OBVIOUS
<1>1. journal \in Seq(Event)
  BY EmptySeq DEF Init
<1>2. DOMAIN records = {}
  BY DEF Init
<1>3. counter \in Nat /\ failures \in Nat /\ started \in [Steps -> Nat]
  BY DEF Init
<1>4. calls \in [Calls -> {Idle} \cup Command]
  BY DEF Init
<1> QED BY <1>1, <1>2, <1>3, <1>4 DEF Inv, TypeOK, BelowCounter

\* Every step keeps the invariant.
LEMMA InvNext == Inv /\ [Next]_vars => Inv'
<1> SUFFICES ASSUME Inv, [Next]_vars PROVE Inv'
  OBVIOUS
<1>1. CASE Next
  <2>1. calls' \in [Calls -> {Idle} \cup Command]
    BY <1>1, CallsStep
  <2>2. StoreOK(records', counter')
    BY <1>1, StoreStep
  <2>3. /\ journal' \in Seq(Event) /\ failures' \in Nat
        /\ started' \in [Steps -> Nat]
    BY <1>1, JournalStep
  <2> QED BY <2>1, <2>2, <2>3 DEF Inv, TypeOK, StoreOK
<1>2. CASE UNCHANGED vars
  BY <1>2 DEF vars, session, Inv, TypeOK, BelowCounter
<1> QED BY <1>1, <1>2

\* Journal, store and commands stay well formed, whatever calls run in
\* parallel, are cut off or fail to write.
THEOREM TypeCorrect == Spec => []TypeOK
<1>1. Inv => TypeOK
  BY DEF Inv
<1> QED BY <1>1, InvInit, InvNext, PTL DEF Spec

\* A running session never loses, replaces or undoes a checkpoint, even when
\* the ids of the two runtimes collide.
THEOREM SessionKeepsDecisions == Spec => DecisionsKept
<1>1. Inv /\ [Next]_vars =>
         [started'["restart"] = started["restart"] =>
             \A cp \in DOMAIN records :
                /\ cp \in DOMAIN records'
                /\ records'[cp].stage = records[cp].stage
                /\ records'[cp].revision >= records[cp].revision
                /\ records[cp].status = "confirmed" =>
                      records'[cp] = records[cp]
         ]_vars
  BY StoreStep DEF Keeps
<1> QED BY <1>1, InvInit, InvNext, PTL DEF Spec, DecisionsKept

(***************************************************************************)
(* Tool calls that run one at a time.  An id that an engine command minted *)
(* then stays new until the command writes it.  If calls also run to their *)
(* end, the session's counter is never behind the journal when the session *)
(* mints.                                                                  *)
(***************************************************************************)
OneCall == \A c, d \in Calls : c = d
Uninterrupted == ~Interrupts

WriteInv ==
    \A c \in Calls : calls[c].pc = "write" => calls[c].cp \notin ReachedIds(journal)

SequenceInv ==
    \A c \in Calls :
        /\ calls[c].pc = "write" => calls[c].heard /\ calls[c].cp \notin ReachedIds(journal)
        /\ \A cp \in ReachedIds(journal) :
              cp <= counter \/ (calls[c].pc = "report" /\ cp = calls[c].cp)

\* The ids that were reached are those of the reaching lines.
LEMMA ReachedMeans ==
    ASSUME NEW j, NEW cp
    PROVE  cp \in ReachedIds(j) <=> ReachedAt(j, cp) # {}
BY DEF ReachedIds, ReachedAt

\* What an event adds to the events of a checkpoint.
LEMMA EventsAfter ==
    ASSUME NEW j \in Seq(Event), NEW e \in Event
    PROVE  /\ \A cp : ReachedAt(Append(j, e), cp) = ReachedAt(j, cp) \cup
                (IF e.type = "checkpoint_reached" /\ e.cp = cp THEN {Len(j) + 1} ELSE {})
           /\ \A cp : ResolvedAt(Append(j, e), cp) = ResolvedAt(j, cp) \cup
                (IF e.type = "checkpoint_resolved" /\ e.cp = cp THEN {Len(j) + 1} ELSE {})
           /\ DOMAIN Append(j, e) = DOMAIN j \cup {Len(j) + 1}
           /\ \A i \in DOMAIN j : Append(j, e)[i] = j[i]
           /\ Append(j, e)[Len(j) + 1] = e
           /\ Append(j, e) \in Seq(Event)
<1> DEFINE more == Append(j, e)
           new == Len(j) + 1
<1>1. /\ DOMAIN j = 1..Len(j) /\ Len(j) \in Nat
      /\ more \in Seq(Event) /\ Len(more) = new
      /\ \A i \in 1..Len(j) : more[i] = j[i]
      /\ more[new] = e
  BY LenProperties, AppendProperties
<1>2. DOMAIN more = 1..new
  BY <1>1, LenProperties
<1> HIDE DEF more
<1>3. DOMAIN more = DOMAIN j \cup {new} /\ \A i \in DOMAIN j : more[i] = j[i]
  BY <1>1, <1>2
<1> HIDE DEF new
<1>4. ASSUME NEW cp
      PROVE  ReachedAt(more, cp) = ReachedAt(j, cp) \cup
                (IF e.type = "checkpoint_reached" /\ e.cp = cp THEN {new} ELSE {})
  BY <1>1, <1>3 DEF ReachedAt
<1>5. ASSUME NEW cp
      PROVE  ResolvedAt(more, cp) = ResolvedAt(j, cp) \cup
                (IF e.type = "checkpoint_resolved" /\ e.cp = cp THEN {new} ELSE {})
  BY <1>1, <1>3 DEF ResolvedAt
<1> QED
  BY <1>1, <1>3, <1>4, <1>5, Zenon DEF more, new

\* The reached ids after an event.
LEMMA ReachedAfter ==
    ASSUME NEW j \in Seq(Event), NEW e \in Event
    PROVE  ReachedIds(Append(j, e)) = ReachedIds(j) \cup
              (IF e.type = "checkpoint_reached" THEN {e.cp} ELSE {})
<1>0. \A cp : ReachedAt(Append(j, e), cp) = ReachedAt(j, cp) \cup
         (IF e.type = "checkpoint_reached" /\ e.cp = cp THEN {Len(j) + 1} ELSE {})
  BY EventsAfter
<1> DEFINE more == Append(j, e)
<1>1. ASSUME NEW cp
      PROVE  cp \in ReachedIds(more)
                <=> cp \in ReachedIds(j) \/ (e.type = "checkpoint_reached" /\ e.cp = cp)
  <2>1. ReachedAt(more, cp) = ReachedAt(j, cp) \cup
           (IF e.type = "checkpoint_reached" /\ e.cp = cp THEN {Len(j) + 1} ELSE {})
    BY <1>0
  <2> HIDE DEF more
  <2>2. ReachedAt(more, cp) # {}
           <=> ReachedAt(j, cp) # {} \/ (e.type = "checkpoint_reached" /\ e.cp = cp)
    BY <2>1
  <2> QED
    BY <2>2, ReachedMeans
<1> HIDE DEF more
<1> QED
  BY <1>1 DEF more

\* The engine mints an id that was never reached.
LEMMA MintIsNew ==
    ASSUME NEW j \in Seq(Event)
    PROVE  Mint(j) \notin ReachedIds(j)
<1> DEFINE f == [i \in 1..Len(j) |-> j[i].cp]
           S == ReachedIds(j)
           m == Max(S \cup {0})
<1>1. f \in [1..Len(j) -> Nat] /\ Len(j) \in Nat
  BY EventFields DEF Id
<1>2. S \subseteq {f[i] : i \in 1..Len(j)} /\ S \subseteq Nat
  BY EventFields DEF ReachedIds, Id
<1>3. Mint(j) = 1 + m
  BY DEF Mint
<1> HIDE DEF f
<1>4. m \in Nat /\ \A x \in S : x <= m
  <2> HIDE DEF S
  <2> QED
    BY <1>1, <1>2, MaxOfListed
<1> HIDE DEF m, S
<1>5. 1 + m \notin S
  BY <1>2, <1>4
<1> QED
  BY <1>3, <1>5 DEF S

\* A new session counts at least as far as the journal.
LEMMA RehydratedAbove ==
    ASSUME NEW j \in Seq(Event), NEW cp \in ReachedIds(j)
    PROVE  cp <= Rehydrated(j)
<1> DEFINE f == [i \in 1..Len(j) |-> j[i].cp]
           S == {j[i].cp : i \in DOMAIN j}
<1>1. f \in [1..Len(j) -> Nat] /\ Len(j) \in Nat
  BY EventFields DEF Id
<1>2. S \subseteq {f[i] : i \in 1..Len(j)} /\ cp \in S
  BY EventFields DEF ReachedIds
<1> HIDE DEF f, S
<1>3. \A x \in S : x <= Max(S \cup {0})
  BY <1>1, <1>2, MaxOfListed
<1> QED
  BY <1>2, <1>3 DEF Rehydrated, S

\* Adoption leaves the counter behind neither itself nor the adopted id.
LEMMA CounterCovers ==
    ASSUME NEW store, NEW n \in Nat, BelowCounter(store, n), NEW cp \in Nat
    PROVE  /\ CounterAfter(store, n, cp) \in Nat
           /\ n <= CounterAfter(store, n, cp) /\ cp <= CounterAfter(store, n, cp)
<1>1. CASE cp \in DOMAIN store
  BY <1>1 DEF CounterAfter, BelowCounter
<1>2. CASE cp \notin DOMAIN store
  BY <1>2 DEF CounterAfter
<1> QED
  BY <1>1, <1>2

\* The decision that a response writes, and what it leaves of counter and calls.
LEMMA RespondWrites ==
    ASSUME Inv, NEW cp \in DOMAIN records \cup ReachedIds(journal), Respond(cp)
    PROVE  /\ cp \in Id /\ calls' = calls
           /\ counter' = CounterAfter(records, counter, cp)
           /\ \/ journal' = journal
              \/ \E decision \in Decisions, revision \in Nat :
                    /\ Resolved(cp, decision, revision) \in Event
                    /\ journal' = Append(journal, Resolved(cp, decision, revision))
<1> DEFINE stage == IF cp \in DOMAIN records THEN records[cp].stage
                                             ELSE StageOf(journal, cp)
           known == Adopted(records, cp, stage)
<1>1. StoreOK(records, counter) /\ journal \in Seq(Event)
  BY DEF Inv, StoreOK, TypeOK
<1>2. cp \in Id /\ stage \in Stages
  BY <1>1, StageOfReached DEF StoreOK, Record
<1>3. /\ calls' = calls /\ counter' = CounterAfter(records, counter, cp)
      /\ \/ journal' = journal
         \/ /\ known[cp].status = "pending"
            /\ \E decision \in Decisions :
                  BestEffort(Resolved(cp, decision, Decided(known[cp], decision).revision))
  BY DEF Respond
<1> HIDE DEF stage
<1>4. StoreOK(known, CounterAfter(records, counter, cp)) /\ cp \in DOMAIN known
  BY <1>1, <1>2, AdoptsRecord
<1> HIDE DEF known
<1>5. ASSUME NEW decision \in Decisions, known[cp].status = "pending",
             BestEffort(Resolved(cp, decision, Decided(known[cp], decision).revision))
      PROVE  \/ journal' = journal
             \/ \E revision \in Nat :
                   /\ Resolved(cp, decision, revision) \in Event
                   /\ journal' = Append(journal, Resolved(cp, decision, revision))
  <2> DEFINE revision == Decided(known[cp], decision).revision
  <2>1. revision \in Nat
    BY <1>4, <1>5, DecidesRecord DEF Record
  <2> HIDE DEF revision
  <2>2. Resolved(cp, decision, revision) \in Event
    BY <1>2, <2>1 DEF Resolved, Event
  <2>3. BestEffort(Resolved(cp, decision, revision))
    BY <1>5 DEF revision
  <2> QED
    BY <2>1, <2>2, <2>3 DEF BestEffort
<1> QED
  BY <1>2, <1>3, <1>5

\* A step reaches a new id, or the session's next one while no command is under way.
OwnNext(e) == e.cp = counter + 1 /\ \E c \in Calls : calls[c].pc = "idle"

LEMMA ReachesHow ==
    ASSUME Inv, WriteInv, [Next]_vars
    PROVE  \/ journal' = journal
           \/ \E e \in Event :
                 /\ journal' = Append(journal, e)
                 /\ e.type = "checkpoint_reached" =>
                       e.cp \notin ReachedIds(journal) \/ OwnNext(e)
<1>1. /\ journal \in Seq(Event) /\ counter \in Nat /\ calls \in [Calls -> {Idle} \cup Command]
  BY DEF Inv, TypeOK
<1>2. ASSUME NEW c \in Calls, EngineWrite(c)
      PROVE  \/ journal' = journal
             \/ \E e \in Event :
                   /\ journal' = Append(journal, e)
                   /\ e.cp \notin ReachedIds(journal)
  <2> DEFINE e == Reached(calls[c].cp, calls[c].stage)
  <2>1. calls[c] \in Command /\ calls[c].pc = "write"
    BY <1>1, <1>2 DEF EngineWrite, Idle
  <2>2. e \in Event /\ e.cp = calls[c].cp
    BY <2>1 DEF Command, Reached, Event, Stages
  <2>3. BestEffort(e)
    BY <1>2 DEF EngineWrite
  <2> HIDE DEF e
  <2> QED
    BY <2>1, <2>2, <2>3 DEF BestEffort, WriteInv
<1>3. ASSUME NEW c \in Calls, ProposeOwn(c)
      PROVE  \/ journal' = journal
             \/ \E e \in Event : journal' = Append(journal, e) /\ OwnNext(e)
  <2> DEFINE e == Reached(counter + 1, OwnStage)
  <2>1. e \in Event /\ e.cp = counter + 1
    BY <1>1 DEF Reached, Event, Stages, Id
  <2>2. BestEffort(e) /\ calls[c].pc = "idle"
    BY <1>3 DEF ProposeOwn
  <2> HIDE DEF e
  <2>3. OwnNext(e)
    BY <2>1, <2>2 DEF OwnNext
  <2> QED
    BY <2>1, <2>2, <2>3 DEF BestEffort
<1>4. ASSUME NEW cp \in DOMAIN records \cup ReachedIds(journal), Respond(cp)
      PROVE  \/ journal' = journal
             \/ \E e \in Event :
                   journal' = Append(journal, e) /\ e.type # "checkpoint_reached"
  <2>1. \/ journal' = journal
        \/ \E decision \in Decisions, revision \in Nat :
              /\ Resolved(cp, decision, revision) \in Event
              /\ journal' = Append(journal, Resolved(cp, decision, revision))
    BY <1>4, RespondWrites
  <2>2. \A decision, revision :
           Resolved(cp, decision, revision).type = "checkpoint_resolved"
    BY DEF Resolved
  <2> QED
    BY <2>1, <2>2
<1>5. ASSUME NEW c \in Calls, EngineMint(c) \/ ToolAdopt(c) \/ Timeout(c)
      PROVE  journal' = journal
  BY <1>5 DEF EngineMint, ToolAdopt, Timeout
<1>6. ASSUME NEW cp \in DOMAIN records, Slash(cp)
      PROVE  journal' = journal
  BY <1>6 DEF Slash
<1>7. Restart \/ UNCHANGED vars => journal' = journal
  BY DEF Restart, vars
<1> QED
  BY <1>2, <1>3, <1>4, <1>5, <1>6, <1>7 DEF Next

\* A response reaches nothing, and keeps the stage and confirmation of all.
LEMMA RespondReaches ==
    ASSUME Inv, NEW cp \in DOMAIN records \cup ReachedIds(journal), Respond(cp)
    PROVE  ReachedIds(journal') = ReachedIds(journal)
<1>1. journal \in Seq(Event)
  BY DEF Inv, TypeOK
<1>2. ASSUME NEW e \in Event, e.type # "checkpoint_reached"
      PROVE  ReachedIds(Append(journal, e)) = ReachedIds(journal)
  BY <1>1, <1>2, ReachedAfter
<1>3. ASSUME NEW decision, NEW revision, Resolved(cp, decision, revision) \in Event
      PROVE  ReachedIds(Append(journal, Resolved(cp, decision, revision))) = ReachedIds(journal)
  <2>1. Resolved(cp, decision, revision).type = "checkpoint_resolved"
    BY DEF Resolved
  <2> QED
    BY <1>2, <1>3, <2>1
<1>4. CASE journal' # journal
  <2>1. PICK decision \in Decisions, revision \in Nat :
          /\ Resolved(cp, decision, revision) \in Event
          /\ journal' = Append(journal, Resolved(cp, decision, revision))
    BY <1>4, RespondWrites
  <2> QED
    BY <1>3, <2>1
<1> QED
  BY <1>4

\* A minted id stays new, wherever commands are cut off.
LEMMA WriteStep ==
    ASSUME OneCall, Inv, WriteInv, [Next]_vars
    PROVE  WriteInv'
<1>1. /\ journal \in Seq(Event) /\ calls \in [Calls -> {Idle} \cup Command]
      /\ \A c, d \in Calls : c = d
  BY DEF Inv, TypeOK, OneCall
<1>2. ASSUME NEW c \in Calls, EngineMint(c) PROVE WriteInv'
  <2>1. calls'[c].cp = Mint(journal) /\ journal' = journal
    BY <1>1, <1>2 DEF EngineMint
  <2> QED
    BY <1>1, <2>1, MintIsNew DEF WriteInv
<1>3. ASSUME NEW c \in Calls, EngineWrite(c) \/ ToolAdopt(c) \/ Timeout(c) PROVE WriteInv'
  <2>1. calls'[c].pc # "write"
    <3>1. calls'[c] = Idle \/ calls'[c].pc = "report"
      BY <1>1, <1>3 DEF EngineWrite, ToolAdopt, Timeout, Idle, Command
    <3> QED
      BY <3>1 DEF Idle
  <2> QED
    BY <1>1, <2>1 DEF WriteInv
<1>4. ASSUME NEW c \in Calls, ProposeOwn(c) PROVE WriteInv'
  <2>1. calls[c].pc = "idle" /\ calls' = calls
    BY <1>4 DEF ProposeOwn
  <2> QED
    BY <1>1, <2>1 DEF WriteInv
<1>5. ASSUME NEW cp \in DOMAIN records \cup ReachedIds(journal), Respond(cp) PROVE WriteInv'
  <2>1. calls' = calls
    BY <1>5 DEF Respond
  <2> QED
    BY <1>5, <2>1, RespondReaches DEF WriteInv
<1>6. ASSUME NEW cp \in DOMAIN records, Slash(cp) PROVE WriteInv'
  BY <1>6 DEF Slash, WriteInv
<1>7. CASE Restart
  <2>1. \A c \in Calls : calls'[c].pc = "write" => calls[c].pc = "write" /\ calls'[c].cp = calls[c].cp
    BY <1>1, <1>7 DEF Restart, Idle, Command
  <2> QED
    BY <1>7, <2>1 DEF Restart, WriteInv
<1>8. CASE UNCHANGED vars
  BY <1>8 DEF vars, WriteInv
<1> QED
  BY <1>2, <1>3, <1>4, <1>5, <1>6, <1>7, <1>8 DEF Next

LEMMA WriteInvHolds ==
    ASSUME OneCall
    PROVE  Spec => [](Inv /\ WriteInv)
<1>1. Init => WriteInv
  BY DEF Init, Idle, WriteInv
<1>2. Inv /\ WriteInv /\ [Next]_vars => WriteInv'
  BY WriteStep
<1> QED
  BY <1>1, <1>2, InvInit, InvNext, PTL DEF Spec

\* No step reaches a checkpoint again if the counter keeps up.
LEMMA ReachesNew ==
    ASSUME Inv, SequenceInv, [Next]_vars
    PROVE  \/ journal' = journal
           \/ \E e \in Event :
                 /\ journal' = Append(journal, e)
                 /\ e.type = "checkpoint_reached" => e.cp \notin ReachedIds(journal)
<1>1. WriteInv
  BY DEF SequenceInv, WriteInv
<1>2. counter \in Nat /\ ReachedIds(journal) \subseteq Nat
  BY StageOfReached DEF Inv, TypeOK, Id
<1>3. ASSUME NEW e, OwnNext(e) PROVE e.cp \notin ReachedIds(journal)
  <2>1. \A cp \in ReachedIds(journal) : cp <= counter
    BY <1>3 DEF OwnNext, SequenceInv
  <2> QED
    BY <1>2, <1>3, <2>1 DEF OwnNext
<1> QED
  BY <1>1, <1>3, ReachesHow

\* The counter keeps up with the journal, and a minted id stays new.
LEMMA SequenceStep ==
    ASSUME OneCall, Uninterrupted, Inv, SequenceInv, [Next]_vars
    PROVE  SequenceInv'
<1>1. /\ journal \in Seq(Event) /\ counter \in Nat /\ BelowCounter(records, counter)
      /\ calls \in [Calls -> {Idle} \cup Command]
  BY DEF Inv, TypeOK
<1>2. ReachedIds(journal) \subseteq Nat
  BY <1>1, StageOfReached DEF Id
<1>3. \A c, d \in Calls : c = d
  BY DEF OneCall
<1>4. ASSUME NEW c \in Calls, EngineMint(c) PROVE SequenceInv'
  <2>1. PICK stage \in EngineStages :
          calls' = [calls EXCEPT ![c] = [pc |-> "write", stage |-> stage,
                                         cp |-> Mint(journal), heard |-> TRUE]]
    BY <1>4 DEF EngineMint
  <2>2. /\ calls'[c].pc = "write" /\ calls'[c].cp = Mint(journal) /\ calls'[c].heard
        /\ UNCHANGED <<journal, counter>> /\ calls[c].pc = "idle"
    BY <1>1, <1>4, <2>1 DEF EngineMint, session
  <2> QED
    BY <1>1, <1>3, <2>2, MintIsNew DEF SequenceInv
<1>5. ASSUME NEW c \in Calls, EngineWrite(c) PROVE SequenceInv'
  <2>1. calls[c] \in Command /\ calls[c].pc = "write" /\ calls[c].heard
    BY <1>1, <1>5 DEF EngineWrite, Idle, SequenceInv
  <2>2. calls'[c].pc = "report" /\ calls'[c].cp = calls[c].cp /\ counter' = counter
    BY <1>1, <1>5, <2>1 DEF EngineWrite, Command, session
  <2>3. ReachedIds(journal') \subseteq ReachedIds(journal) \cup {calls[c].cp}
    <3> DEFINE e == Reached(calls[c].cp, calls[c].stage)
    <3>1. e \in Event /\ e.cp = calls[c].cp
      BY <2>1 DEF Command, Reached, Event, Stages
    <3>2. journal' = journal \/ journal' = Append(journal, e)
      BY <1>5 DEF EngineWrite, BestEffort
    <3> HIDE DEF e
    <3>3. ReachedIds(Append(journal, e)) \subseteq ReachedIds(journal) \cup {e.cp}
      BY <1>1, <3>1, ReachedAfter
    <3> QED
      BY <3>1, <3>2, <3>3
  <2>4. \A cp \in ReachedIds(journal') : cp <= counter \/ cp = calls[c].cp
    BY <2>1, <2>3 DEF SequenceInv
  <2> QED
    BY <1>3, <2>2, <2>4 DEF SequenceInv
<1>6. ASSUME NEW c \in Calls, ToolAdopt(c) PROVE SequenceInv'
  <2>1. /\ calls[c] \in Command /\ calls'[c].pc = "idle" /\ journal' = journal
        /\ counter' = CounterAfter(records, counter, calls[c].cp)
    BY <1>1, <1>6 DEF ToolAdopt, Idle
  <2>2. calls[c].cp \in Nat
    BY <2>1 DEF Command, Id
  <2> DEFINE n == CounterAfter(records, counter, calls[c].cp)
  <2>3. n \in Nat /\ counter <= n /\ calls[c].cp <= n
    BY <1>1, <2>2, CounterCovers
  <2> HIDE DEF n
  <2>4. \A cp \in ReachedIds(journal) : cp <= n
    <3>1. \A cp \in ReachedIds(journal) : cp \in Nat /\ (cp <= counter \/ cp = calls[c].cp)
      BY <1>2 DEF SequenceInv
    <3> QED
      BY <1>1, <2>3, <3>1
  <2>5. \A cp \in ReachedIds(journal') : cp <= counter'
    BY <2>1, <2>4 DEF n
  <2> QED
    BY <1>3, <2>1, <2>5 DEF SequenceInv
<1>7. ASSUME NEW c \in Calls, ProposeOwn(c) PROVE SequenceInv'
  <2>1. /\ calls[c].pc = "idle" /\ calls' = calls /\ counter' = counter + 1
        /\ \/ journal' = journal
           \/ journal' = Append(journal, Reached(counter + 1, OwnStage))
    BY <1>7 DEF ProposeOwn, BestEffort
  <2>2. ReachedIds(journal') \subseteq ReachedIds(journal) \cup {counter + 1}
    <3> DEFINE e == Reached(counter + 1, OwnStage)
    <3>1. e \in Event /\ e.cp = counter + 1
      BY <1>1 DEF Reached, Event, Stages, Id
    <3>2. journal' = journal \/ journal' = Append(journal, e)
      BY <2>1
    <3> HIDE DEF e
    <3>3. ReachedIds(Append(journal, e)) \subseteq ReachedIds(journal) \cup {e.cp}
      BY <1>1, <3>1, ReachedAfter
    <3> QED
      BY <3>1, <3>2, <3>3
  <2>3. \A cp \in ReachedIds(journal) : cp \in Nat /\ cp <= counter
    BY <1>2, <2>1 DEF SequenceInv
  <2>4. \A cp \in ReachedIds(journal) \cup {counter + 1} : cp <= counter + 1
    BY <1>1, <2>3
  <2>5. \A cp \in ReachedIds(journal') : cp <= counter'
    BY <2>1, <2>2, <2>4
  <2> QED
    BY <1>3, <2>1, <2>5 DEF SequenceInv
<1>8. ASSUME NEW cp \in DOMAIN records \cup ReachedIds(journal), Respond(cp)
      PROVE  SequenceInv'
  <2>1. /\ cp \in Nat /\ calls' = calls
        /\ counter' = CounterAfter(records, counter, cp)
        /\ \/ journal' = journal
           \/ \E decision \in Decisions, revision \in Nat :
                 /\ Resolved(cp, decision, revision) \in Event
                 /\ journal' = Append(journal, Resolved(cp, decision, revision))
    BY <1>8, RespondWrites DEF Id
  <2>2. ReachedIds(journal') = ReachedIds(journal)
    BY <1>8, RespondReaches
  <2> DEFINE n == CounterAfter(records, counter, cp)
  <2>3. n \in Nat /\ counter <= n
    BY <1>1, <2>1, CounterCovers
  <2> HIDE DEF n
  <2>4. \A id \in Nat : id <= counter => id <= n
    BY <1>1, <2>3
  <2>5. counter' = n
    BY <2>1 DEF n
  <2> QED
    BY <1>2, <2>1, <2>2, <2>4, <2>5 DEF SequenceInv
<1>9. ASSUME NEW cp \in DOMAIN records, Slash(cp) PROVE SequenceInv'
  BY <1>9 DEF Slash, SequenceInv
<1>10. CASE Restart
  <2>1. /\ \A c \in Calls : calls[c].pc = "idle"
        /\ journal' = journal /\ counter' = Rehydrated(journal)
        /\ calls' = [c \in Calls |-> IF calls[c].pc = "write"
                                     THEN [calls[c] EXCEPT !.heard = FALSE] ELSE Idle]
    BY <1>10 DEF Restart, Uninterrupted
  <2>2. \A c \in Calls : calls'[c].pc = "idle"
    BY <2>1 DEF Idle
  <2>3. \A cp \in ReachedIds(journal) : cp <= Rehydrated(journal)
    BY <1>1, RehydratedAbove
  <2> QED
    BY <2>1, <2>2, <2>3 DEF SequenceInv
<1>11. \A c \in Calls : ~Timeout(c)
  BY DEF Timeout, Uninterrupted
<1>12. CASE UNCHANGED vars
  BY <1>12 DEF vars, session, SequenceInv
<1> QED
  BY <1>4, <1>5, <1>6, <1>7, <1>8, <1>9, <1>10, <1>11, <1>12 DEF Next

LEMMA SequenceInvHolds ==
    ASSUME OneCall, Uninterrupted
    PROVE  Spec => [](Inv /\ SequenceInv)
<1>1. Init => SequenceInv
  BY DEF Init, Idle, SequenceInv, ReachedIds
<1>2. Inv /\ SequenceInv /\ [Next]_vars => SequenceInv'
  BY SequenceStep
<1> QED
  BY <1>1, <1>2, InvInit, InvNext, PTL DEF Spec

\* Engine and session share one sequence of ids: while tool calls run one at a
\* time and uninterrupted, no id is reached twice, across restarts and lost
\* writes alike.
THEOREM CheckpointIdsAreUnique ==
    ASSUME OneCall, Uninterrupted
    PROVE  Spec => []UniqueCheckpointIds
<1>1. Init => UniqueCheckpointIds
  BY DEF Init, UniqueCheckpointIds
<1>2. ASSUME Inv, SequenceInv, UniqueCheckpointIds, [Next]_vars PROVE UniqueCheckpointIds'
  <2>1. journal \in Seq(Event)
    BY <1>2 DEF Inv, TypeOK
  <2>2. CASE journal' = journal
    BY <1>2, <2>2 DEF UniqueCheckpointIds
  <2>3. ASSUME NEW e \in Event, journal' = Append(journal, e),
               e.type = "checkpoint_reached" => e.cp \notin ReachedIds(journal)
        PROVE  UniqueCheckpointIds'
    <3>1. /\ DOMAIN Append(journal, e) = DOMAIN journal \cup {Len(journal) + 1}
          /\ \A i \in DOMAIN journal : Append(journal, e)[i] = journal[i]
          /\ Append(journal, e)[Len(journal) + 1] = e
      BY <2>1, EventsAfter
    <3>2. e.type = "checkpoint_reached" =>
             \A i \in DOMAIN journal :
                ~(journal[i].type = "checkpoint_reached" /\ journal[i].cp = e.cp)
      BY <2>3 DEF ReachedIds, ReachedAt
    <3> QED
      BY <1>2, <2>3, <3>1, <3>2 DEF UniqueCheckpointIds
  <2> QED
    BY <1>2, <2>2, <2>3, ReachesNew
<1> QED
  BY <1>1, <1>2, SequenceInvHolds, PTL DEF Spec

\* An event that does not reach a checkpoint again changes neither its stage nor
\* its confirmation.
LEMMA FoldsStay ==
    ASSUME NEW j \in Seq(Event), NEW e \in Event, NEW cp \in ReachedIds(j),
           e.type = "checkpoint_reached" => e.cp # cp
    PROVE  /\ cp \in ReachedIds(Append(j, e))
           /\ StageOf(Append(j, e), cp) = StageOf(j, cp)
           /\ StatusOf(j, cp) = "confirmed" => StatusOf(Append(j, e), cp) = "confirmed"
<1> DEFINE more == Append(j, e)
           S == ReachedAt(j, cp)
<1>1. /\ ReachedAt(more, cp) = ReachedAt(j, cp) \cup
            (IF e.type = "checkpoint_reached" /\ e.cp = cp THEN {Len(j) + 1} ELSE {})
      /\ ResolvedAt(more, cp) = ResolvedAt(j, cp) \cup
            (IF e.type = "checkpoint_resolved" /\ e.cp = cp THEN {Len(j) + 1} ELSE {})
      /\ \A i \in DOMAIN j : more[i] = j[i]
  BY EventsAfter
<1>2. S \in SUBSET Nat /\ S # {} /\ Len(j) \in Nat /\ \A i \in S : i <= Len(j) /\ i \in DOMAIN j
  BY EventFields DEF ReachedIds, ReachedAt
<1> HIDE DEF more
<1>3. ReachedAt(more, cp) = S
  BY <1>1
<1>4. cp \in ReachedIds(more)
  BY <1>2, <1>3, ReachedMeans
<1>5. Max(S) \in DOMAIN j
  <2> HIDE DEF S
  <2>1. Max(S) \in S
    BY <1>2, MaxInSet
  <2> QED
    BY <1>2, <2>1
<1>6. StageOf(more, cp) = StageOf(j, cp)
  BY <1>1, <1>3, <1>5 DEF StageOf
<1>7. StatusOf(j, cp) = "confirmed" => StatusOf(more, cp) = "confirmed"
  <2>1. \A i \in ResolvedAt(j, cp) : i \in ResolvedAt(more, cp) /\ more[i] = j[i]
    BY <1>1 DEF ResolvedAt
  <2> QED
    BY <1>2, <1>3, <2>1 DEF StatusOf
<1> QED
  BY <1>4, <1>6, <1>7 DEF more

\* A step keeps what the journal says of a checkpoint that the session has counted.
LEMMA FoldsStep ==
    ASSUME Inv, WriteInv, [Next]_vars, NEW cp \in ReachedIds(journal),
           cp <= counter \/ \A c \in Calls : calls[c].pc # "idle"
    PROVE  /\ cp \in ReachedIds(journal')
           /\ StageOf(journal', cp) = StageOf(journal, cp)
           /\ StatusOf(journal, cp) = "confirmed" => StatusOf(journal', cp) = "confirmed"
<1>1. journal \in Seq(Event) /\ counter \in Nat
  BY DEF Inv, TypeOK
<1>2. CASE journal' = journal
  BY <1>2
<1>3. CASE journal' # journal
  <2>1. PICK e \in Event : /\ journal' = Append(journal, e)
                           /\ e.type = "checkpoint_reached" =>
                                 e.cp \notin ReachedIds(journal) \/ OwnNext(e)
    BY <1>3, ReachesHow
  <2>2. e.type = "checkpoint_reached" => e.cp # cp
    BY <1>1, <2>1 DEF OwnNext
  <2>3. /\ cp \in ReachedIds(Append(journal, e))
        /\ StageOf(Append(journal, e), cp) = StageOf(journal, cp)
        /\ StatusOf(journal, cp) = "confirmed" => StatusOf(Append(journal, e), cp) = "confirmed"
    BY <1>1, <2>2, FoldsStay
  <2> QED
    BY <2>1, <2>3
<1> QED
  BY <1>2, <1>3

\* Only a decision on a checkpoint confirms it.
LEMMA ConfirmedBefore ==
    ASSUME NEW j \in Seq(Event), NEW e \in Event, NEW cp,
           StatusOf(Append(j, e), cp) = "confirmed"
    PROVE  \/ e.type = "checkpoint_resolved" /\ e.cp = cp
           \/ cp \in ReachedIds(j) /\ StatusOf(j, cp) = "confirmed"
<1>1. \A c : ReachedAt(Append(j, e), c) = ReachedAt(j, c) \cup
         (IF e.type = "checkpoint_reached" /\ e.cp = c THEN {Len(j) + 1} ELSE {})
  BY EventsAfter
<1>2. \A c : ResolvedAt(Append(j, e), c) = ResolvedAt(j, c) \cup
         (IF e.type = "checkpoint_resolved" /\ e.cp = c THEN {Len(j) + 1} ELSE {})
  BY EventsAfter
<1>3. \A i \in DOMAIN j : Append(j, e)[i] = j[i]
  BY EventsAfter
<1> DEFINE more == Append(j, e)
           new == Len(j) + 1
           S == ReachedAt(more, cp)
<1>4. /\ S # {}
      /\ \E i \in ResolvedAt(more, cp) : i > Max(S) /\ more[i].decision = "confirm"
  BY DEF StatusOf
<1>5. /\ S = ReachedAt(j, cp) \cup
            (IF e.type = "checkpoint_reached" /\ e.cp = cp THEN {new} ELSE {})
      /\ ResolvedAt(more, cp) = ResolvedAt(j, cp) \cup
            (IF e.type = "checkpoint_resolved" /\ e.cp = cp THEN {new} ELSE {})
      /\ \A i \in ResolvedAt(j, cp) : more[i] = j[i]
  BY <1>1, <1>2, <1>3 DEF ResolvedAt
<1>6. /\ Len(j) \in Nat /\ new \in Nat
      /\ \A i \in ReachedAt(j, cp) \cup ResolvedAt(j, cp) : i \in Nat /\ i <= Len(j)
  BY EventFields DEF ReachedAt, ResolvedAt
<1> HIDE DEF more
<1>7. S \in SUBSET Nat /\ \A i \in S : i <= new
  BY <1>5, <1>6
<1>8. Max(S) \in S /\ \A i \in S : i <= Max(S)
  <2> HIDE DEF S, new
  <2> QED
    BY <1>4, <1>6, <1>7, MaxInSet
<1>9. CASE e.type = "checkpoint_resolved" /\ e.cp = cp
  BY <1>9
<1>10. CASE ~(e.type = "checkpoint_resolved" /\ e.cp = cp)
  <2>1. PICK i \in ResolvedAt(j, cp) : i > Max(S) /\ j[i].decision = "confirm"
    BY <1>4, <1>5, <1>10
  <2> HIDE DEF S
  <2>2. ~(e.type = "checkpoint_reached" /\ e.cp = cp)
    <3>1. SUFFICES ASSUME e.type = "checkpoint_reached", e.cp = cp PROVE FALSE
      OBVIOUS
    <3>2. new \in S
      BY <1>5, <3>1
    <3>3. new <= Max(S) /\ Max(S) \in Nat
      BY <1>7, <1>8, <3>2
    <3> QED
      BY <1>6, <2>1, <3>3
  <2>3. S = ReachedAt(j, cp)
    BY <1>5, <2>2
  <2>4. StatusOf(j, cp) = "confirmed"
    BY <1>4, <2>1, <2>3 DEF StatusOf
  <2> QED
    BY <1>4, <2>3, <2>4, ReachedMeans
<1> QED
  BY <1>9, <1>10

\* A checkpoint the journal holds as confirmed was decided by a session that knew
\* it, so that its counter and those of later sessions are not below it.
FinalInv ==
    \A cp \in ReachedIds(journal) : StatusOf(journal, cp) = "confirmed" => cp <= counter

LEMMA FinalStep ==
    ASSUME Inv, WriteInv, FinalInv, [Next]_vars
    PROVE  FinalInv'
<1>1. /\ journal \in Seq(Event) /\ counter \in Nat /\ BelowCounter(records, counter)
      /\ calls \in [Calls -> {Idle} \cup Command]
      /\ ReachedIds(journal) \subseteq Nat
  BY StageOfReached DEF Inv, TypeOK, Id
<1>2. CASE UNCHANGED <<journal, counter>>
  BY <1>2 DEF FinalInv
<1>3. CASE Restart
  <2>1. journal' = journal /\ counter' = Rehydrated(journal)
    BY <1>3 DEF Restart
  <2>2. \A cp \in ReachedIds(journal) : cp <= Rehydrated(journal)
    BY <1>1, RehydratedAbove
  <2> QED
    BY <2>1, <2>2 DEF FinalInv
<1>4. ASSUME counter' \in Nat, counter <= counter',
             \/ journal' = journal
             \/ \E e \in Event :
                   /\ journal' = Append(journal, e)
                   /\ e.type = "checkpoint_resolved" => e.cp <= counter'
      PROVE  FinalInv'
  <2>1. \A cp \in ReachedIds(journal) : StatusOf(journal, cp) = "confirmed" => cp <= counter'
    BY <1>1, <1>4 DEF FinalInv
  <2>2. CASE journal' = journal
    BY <2>1, <2>2 DEF FinalInv
  <2>3. ASSUME NEW e \in Event, journal' = Append(journal, e),
               e.type = "checkpoint_resolved" => e.cp <= counter'
        PROVE  FinalInv'
    <3>1. ASSUME NEW cp, StatusOf(Append(journal, e), cp) = "confirmed" PROVE cp <= counter'
      BY <1>1, <2>1, <2>3, <3>1, ConfirmedBefore
    <3> QED
      BY <2>3, <3>1 DEF FinalInv
  <2> QED
    BY <1>4, <2>2, <2>3
<1>5. ASSUME NEW c \in Calls, EngineWrite(c) PROVE FinalInv'
  <2> DEFINE e == Reached(calls[c].cp, calls[c].stage)
  <2>1. calls[c] \in Command /\ counter' = counter /\ BestEffort(e)
    BY <1>1, <1>5 DEF EngineWrite, Idle, session
  <2>2. e \in Event /\ e.type # "checkpoint_resolved"
    BY <2>1 DEF Command, Reached, Event, Stages
  <2> HIDE DEF e
  <2>3. journal' = journal \/ journal' = Append(journal, e)
    BY <2>1 DEF BestEffort
  <2> QED
    BY <1>1, <1>4, <2>1, <2>2, <2>3
<1>6. ASSUME NEW c \in Calls, ProposeOwn(c) PROVE FinalInv'
  <2> DEFINE e == Reached(counter + 1, OwnStage)
  <2>1. counter' = counter + 1 /\ BestEffort(e)
    BY <1>6 DEF ProposeOwn
  <2>2. e \in Event /\ e.type # "checkpoint_resolved"
    BY <1>1 DEF Reached, Event, Stages, Id
  <2> HIDE DEF e
  <2>3. journal' = journal \/ journal' = Append(journal, e)
    BY <2>1 DEF BestEffort
  <2> QED
    BY <1>1, <1>4, <2>1, <2>2, <2>3
<1>7. ASSUME NEW c \in Calls, ToolAdopt(c) PROVE FinalInv'
  <2>1. /\ calls[c] \in Command /\ journal' = journal
        /\ counter' = CounterAfter(records, counter, calls[c].cp)
    BY <1>1, <1>7 DEF ToolAdopt, Idle
  <2>2. calls[c].cp \in Nat
    BY <2>1 DEF Command, Id
  <2> QED
    BY <1>1, <1>4, <2>1, <2>2, CounterCovers
<1>8. ASSUME NEW cp \in DOMAIN records \cup ReachedIds(journal), Respond(cp) PROVE FinalInv'
  <2>1. /\ cp \in Nat /\ counter' = CounterAfter(records, counter, cp)
        /\ \/ journal' = journal
           \/ \E decision \in Decisions, revision \in Nat :
                 /\ Resolved(cp, decision, revision) \in Event
                 /\ journal' = Append(journal, Resolved(cp, decision, revision))
    BY <1>8, RespondWrites DEF Id
  <2>2. counter' \in Nat /\ counter <= counter' /\ cp <= counter'
    BY <1>1, <2>1, CounterCovers
  <2>3. \A decision, revision : Resolved(cp, decision, revision).cp = cp
    BY DEF Resolved
  <2> QED
    BY <1>4, <2>1, <2>2, <2>3
<1>9. ASSUME NEW c \in Calls, EngineMint(c) \/ Timeout(c) PROVE FinalInv'
  BY <1>2, <1>9 DEF EngineMint, Timeout, session
<1>10. ASSUME NEW cp \in DOMAIN records, Slash(cp) PROVE FinalInv'
  BY <1>2, <1>10 DEF Slash
<1>11. UNCHANGED vars => UNCHANGED <<journal, counter>>
  BY DEF vars, session
<1> QED
  BY <1>2, <1>3, <1>5, <1>6, <1>7, <1>8, <1>9, <1>10, <1>11 DEF Next

\* While tool calls run one at a time, a checkpoint that the journal holds as
\* confirmed stays so, in this session and in later ones, although ids are minted
\* twice when a call is cut off.
THEOREM ConfirmedStaysFinal ==
    ASSUME OneCall
    PROVE  Spec => ConfirmedIsFinal
<1>1. Init => FinalInv
  BY DEF Init, FinalInv, ReachedIds
<1>2. Inv /\ WriteInv /\ FinalInv /\ [Next]_vars => FinalInv'
  BY FinalStep
<1>3. ASSUME Inv, WriteInv, FinalInv, [Next]_vars
      PROVE  \A cp \in ReachedIds(journal) :
                StatusOf(journal, cp) = "confirmed" => StatusOf(journal', cp) = "confirmed"
  BY <1>3, FoldsStep DEF FinalInv
<1> QED
  BY <1>1, <1>2, <1>3, WriteInvHolds, PTL DEF Spec, ConfirmedIsFinal

(***************************************************************************)
(* A writable journal besides.  Session and journal then tell of the       *)
(* same checkpoints: what the session holds was reached, for that stage,   *)
(* and, without slash commands, it is confirmed in both or in neither.     *)
(***************************************************************************)
Writable == MaxFailures = 0

NoSlash == Limit["slash"] = 0

CardInv ==
    /\ DOMAIN records \subseteq ReachedIds(journal)
    /\ \A cp \in DOMAIN records : records[cp].stage = StageOf(journal, cp)
    /\ \A c \in Calls : calls[c].pc = "report" =>
          /\ calls[c].cp \in ReachedIds(journal)
          /\ StageOf(journal, calls[c].cp) = calls[c].stage

\* A writable journal loses nothing.
LEMMA Lossless ==
    ASSUME Writable, Inv, NEW e, BestEffort(e)
    PROVE  journal' = Append(journal, e)
<1>1. ~(failures < MaxFailures)
  BY DEF Inv, TypeOK, Writable
<1> QED
  BY <1>1 DEF BestEffort

\* A checkpoint is of the stage that reached it last.
LEMMA ReachedStage ==
    ASSUME NEW j \in Seq(Event), NEW cp \in Id, NEW stage \in Stages
    PROVE  /\ cp \in ReachedIds(Append(j, Reached(cp, stage)))
           /\ StageOf(Append(j, Reached(cp, stage)), cp) = stage
<1>0. ASSUME NEW d \in Event
      PROVE  /\ \A c : ReachedAt(Append(j, d), c) = ReachedAt(j, c) \cup
                   (IF d.type = "checkpoint_reached" /\ d.cp = c THEN {Len(j) + 1} ELSE {})
             /\ Append(j, d)[Len(j) + 1] = d
  <2>1. \A c : ReachedAt(Append(j, d), c) = ReachedAt(j, c) \cup
           (IF d.type = "checkpoint_reached" /\ d.cp = c THEN {Len(j) + 1} ELSE {})
    BY EventsAfter
  <2>2. Append(j, d)[Len(j) + 1] = d
    BY EventsAfter
  <2> QED
    BY <2>1, <2>2
<1> DEFINE e == Reached(cp, stage)
           more == Append(j, e)
           new == Len(j) + 1
           S == ReachedAt(more, cp)
<1>1. e \in Event /\ e.type = "checkpoint_reached" /\ e.cp = cp /\ e.stage = stage
  BY DEF Reached, Event
<1> HIDE DEF e
<1>2. S = ReachedAt(j, cp) \cup {new} /\ more[new] = e
  BY <1>0, <1>1
<1>3. new \in Nat /\ \A i \in ReachedAt(j, cp) : i \in Nat /\ i < new
  BY EventFields DEF ReachedAt
<1> HIDE DEF more, new, S
<1>4. S \in SUBSET Nat /\ new \in S /\ \A i \in S : i <= new
  BY <1>2, <1>3
<1>5. Max(S) = new
  <2>1. Max(S) \in S /\ \A i \in S : i <= Max(S)
    BY <1>3, <1>4, MaxInSet
  <2>2. Max(S) \in Nat /\ Max(S) <= new /\ new <= Max(S)
    BY <1>4, <2>1
  <2> QED
    BY <1>3, <2>2
<1>6. cp \in ReachedIds(more)
  BY <1>4, ReachedMeans DEF S
<1> QED
  BY <1>1, <1>2, <1>5, <1>6 DEF StageOf, more, e, S

\* A store that is extended or decided on keeps to the stages of the journal.
LEMMA StagesKept ==
    ASSUME NEW store, NEW cp, NEW record, NEW j,
           DOMAIN store \subseteq ReachedIds(j),
           \A id \in DOMAIN store : store[id].stage = StageOf(j, id),
           cp \in ReachedIds(j), record.stage = StageOf(j, cp)
    PROVE  /\ DOMAIN With(store, cp, record) \subseteq ReachedIds(j)
           /\ \A id \in DOMAIN With(store, cp, record) :
                 With(store, cp, record)[id].stage = StageOf(j, id)
BY DEF With

\* The same for an adopted checkpoint.
LEMMA AdoptedStages ==
    ASSUME NEW store, NEW cp, NEW j,
           DOMAIN store \subseteq ReachedIds(j),
           \A id \in DOMAIN store : store[id].stage = StageOf(j, id),
           cp \in ReachedIds(j)
    PROVE  /\ DOMAIN Adopted(store, cp, StageOf(j, cp)) \subseteq ReachedIds(j)
           /\ \A id \in DOMAIN Adopted(store, cp, StageOf(j, cp)) :
                 Adopted(store, cp, StageOf(j, cp))[id].stage = StageOf(j, id)
           /\ cp \in DOMAIN Adopted(store, cp, StageOf(j, cp))
<1>1. CASE cp \in DOMAIN store
  BY <1>1 DEF Adopted
<1>2. CASE cp \notin DOMAIN store
  <2>1. Pending(StageOf(j, cp)).stage = StageOf(j, cp)
    BY DEF Pending
  <2>2. cp \in DOMAIN With(store, cp, Pending(StageOf(j, cp)))
    BY DEF With
  <2> QED
    BY <1>2, <2>1, <2>2, StagesKept DEF Adopted
<1> QED
  BY <1>1, <1>2

\* What a response does to a store whose stages are the journal's: it adopts
\* or decides.
LEMMA RespondStore ==
    ASSUME Inv, CardInv, NEW cp \in DOMAIN records \cup ReachedIds(journal), Respond(cp)
    PROVE  /\ cp \in ReachedIds(journal)
           /\ \/ /\ records' = Adopted(records, cp, StageOf(journal, cp))
                 /\ journal' = journal
              \/ \E decision \in Decisions :
                    LET known == Adopted(records, cp, StageOf(journal, cp))
                    IN  /\ known[cp].status = "pending"
                        /\ records' = With(known, cp, Decided(known[cp], decision))
                        /\ BestEffort(Resolved(cp, decision,
                                               Decided(known[cp], decision).revision))
<1>1. cp \in ReachedIds(journal)
  BY DEF CardInv
<1>2. (IF cp \in DOMAIN records THEN records[cp].stage ELSE StageOf(journal, cp))
         = StageOf(journal, cp)
  BY DEF CardInv
<1> QED
  BY <1>1, <1>2 DEF Respond

\* A response keeps what the journal says of every checkpoint.
LEMMA RespondKeeps ==
    ASSUME Inv, NEW cp \in DOMAIN records \cup ReachedIds(journal), Respond(cp),
           NEW id \in ReachedIds(journal)
    PROVE  id \in ReachedIds(journal') /\ StageOf(journal', id) = StageOf(journal, id)
<1>1. journal \in Seq(Event)
  BY DEF Inv, TypeOK
<1>2. ASSUME NEW e \in Event, e.type # "checkpoint_reached"
      PROVE  /\ id \in ReachedIds(Append(journal, e))
             /\ StageOf(Append(journal, e), id) = StageOf(journal, id)
  BY <1>1, <1>2, FoldsStay
<1>3. CASE journal' # journal
  <2>1. PICK decision \in Decisions, revision \in Nat :
          /\ Resolved(cp, decision, revision) \in Event
          /\ journal' = Append(journal, Resolved(cp, decision, revision))
    BY <1>3, RespondWrites
  <2>2. Resolved(cp, decision, revision).type = "checkpoint_resolved"
    BY DEF Resolved
  <2> DEFINE e == Resolved(cp, decision, revision)
  <2>3. e \in Event /\ e.type # "checkpoint_reached" /\ journal' = Append(journal, e)
    BY <2>1, <2>2
  <2> HIDE DEF e
  <2> QED
    BY <1>2, <2>3
<1> QED
  BY <1>3

\* Session and journal agree on the stages after every step.
LEMMA CardStep ==
    ASSUME OneCall, Writable, Inv, WriteInv, CardInv, [Next]_vars
    PROVE  CardInv'
<1>1. /\ journal \in Seq(Event) /\ counter \in Nat
      /\ calls \in [Calls -> {Idle} \cup Command]
      /\ \A cp \in DOMAIN records : records[cp] \in Record /\ cp <= counter
  BY DEF Inv, TypeOK, BelowCounter
<1>2. \A cp \in ReachedIds(journal) :
         cp <= counter \/ (\A c \in Calls : calls[c].pc # "idle") =>
            cp \in ReachedIds(journal') /\ StageOf(journal', cp) = StageOf(journal, cp)
  BY FoldsStep
<1>3. /\ DOMAIN records \subseteq ReachedIds(journal')
      /\ \A cp \in DOMAIN records : records[cp].stage = StageOf(journal', cp)
  BY <1>1, <1>2 DEF CardInv
<1>5. \A c, d \in Calls : c = d
  BY DEF OneCall
<1>4. \A c \in Calls : calls[c].pc = "report" =>
         /\ calls[c].cp \in ReachedIds(journal')
         /\ StageOf(journal', calls[c].cp) = calls[c].stage
  <2> SUFFICES ASSUME NEW c \in Calls, calls[c].pc = "report"
               PROVE  /\ calls[c].cp \in ReachedIds(journal')
                      /\ StageOf(journal', calls[c].cp) = calls[c].stage
    OBVIOUS
  <2>1. \A d \in Calls : calls[d].pc # "idle"
    BY <1>5
  <2> QED
    BY <1>2, <2>1 DEF CardInv
<1>6. ASSUME NEW record \in Record, NEW decision \in Decisions
      PROVE  Decided(record, decision).stage = record.stage
  BY DEF Decided, Record
<1>7. ASSUME NEW c \in Calls, EngineMint(c) PROVE CardInv'
  <2>1. calls'[c].pc = "write" /\ records' = records
    BY <1>1, <1>7 DEF EngineMint, session
  <2> QED
    BY <1>3, <1>5, <2>1 DEF CardInv
<1>8. ASSUME NEW c \in Calls, EngineWrite(c) PROVE CardInv'
  <2>1. calls[c] \in Command /\ records' = records
    BY <1>1, <1>8 DEF EngineWrite, Idle, session
  <2>2. /\ calls'[c].pc = "report" => /\ calls'[c].cp = calls[c].cp
                                     /\ calls'[c].stage = calls[c].stage
        /\ calls[c].cp \in Id /\ calls[c].stage \in Stages
    BY <1>1, <1>8, <2>1 DEF EngineWrite, Command, Stages, Idle
  <2>3. journal' = Append(journal, Reached(calls[c].cp, calls[c].stage))
    BY <1>8, Lossless DEF EngineWrite
  <2>4. /\ calls[c].cp \in ReachedIds(journal')
        /\ StageOf(journal', calls[c].cp) = calls[c].stage
    BY <1>1, <2>1, <2>2, <2>3, ReachedStage
  <2> QED
    BY <1>3, <1>5, <2>1, <2>2, <2>4 DEF CardInv
<1>9. ASSUME NEW c \in Calls, ToolAdopt(c) PROVE CardInv'
  <2>1. /\ calls[c].cp \in ReachedIds(journal) /\ journal' = journal
        /\ calls[c].stage = StageOf(journal, calls[c].cp)
        /\ records' = Adopted(records, calls[c].cp, calls[c].stage)
        /\ calls'[c].pc = "idle"
    BY <1>1, <1>9 DEF ToolAdopt, CardInv, Idle
  <2>2. records' = Adopted(records, calls[c].cp, StageOf(journal, calls[c].cp))
    BY <2>1
  <2>3. /\ DOMAIN records' \subseteq ReachedIds(journal)
        /\ \A id \in DOMAIN records' : records'[id].stage = StageOf(journal, id)
    BY <2>1, <2>2, AdoptedStages DEF CardInv
  <2> QED
    BY <1>5, <2>1, <2>3 DEF CardInv
<1>10. ASSUME NEW c \in Calls, ProposeOwn(c) PROVE CardInv'
  <2>1. /\ calls[c].pc = "idle" /\ calls' = calls
        /\ records' = With(records, counter + 1, Pending(OwnStage))
        /\ journal' = Append(journal, Reached(counter + 1, OwnStage))
    BY <1>10, Lossless DEF ProposeOwn
  <2>2. counter + 1 \in Id /\ OwnStage \in Stages
    BY <1>1 DEF Id, Stages
  <2>4. /\ counter + 1 \in ReachedIds(journal')
        /\ StageOf(journal', counter + 1) = OwnStage
    BY <1>1, <2>1, <2>2, ReachedStage
  <2>5. Pending(OwnStage).stage = StageOf(journal', counter + 1)
    BY <2>4 DEF Pending
  <2>6. /\ DOMAIN records' \subseteq ReachedIds(journal')
        /\ \A id \in DOMAIN records' : records'[id].stage = StageOf(journal', id)
    BY <1>3, <2>1, <2>4, <2>5, StagesKept
  <2>7. \A d \in Calls : calls'[d].pc = "idle"
    BY <1>5, <2>1
  <2> QED
    BY <2>6, <2>7 DEF CardInv
<1>11. ASSUME NEW cp \in DOMAIN records \cup ReachedIds(journal), Respond(cp)
       PROVE  CardInv'
  <2> DEFINE known == Adopted(records, cp, StageOf(journal, cp))
  <2>1. /\ cp \in ReachedIds(journal)
        /\ \/ records' = known /\ journal' = journal
           \/ \E decision \in Decisions :
                 /\ known[cp].status = "pending"
                 /\ records' = With(known, cp, Decided(known[cp], decision))
    BY <1>11, RespondStore
  <2>2. calls' = calls
    BY <1>11 DEF Respond
  <2>3. StageOf(journal', cp) = StageOf(journal, cp) /\ cp \in ReachedIds(journal')
    BY <1>11, <2>1, RespondKeeps
  <2>4. known = Adopted(records, cp, StageOf(journal', cp))
    BY <2>3
  <2>5. known[cp] \in Record
    <3>1. StoreOK(records, counter)
      BY DEF Inv, StoreOK, TypeOK
    <3>2. cp \in Id /\ StageOf(journal, cp) \in Stages
      BY <1>1, <2>1, StageOfReached
    <3>3. StoreOK(known, CounterAfter(records, counter, cp)) /\ cp \in DOMAIN known
      BY <3>1, <3>2, AdoptsRecord
    <3> QED
      BY <3>3 DEF StoreOK
  <2> HIDE DEF known
  <2>6. /\ DOMAIN known \subseteq ReachedIds(journal')
        /\ \A id \in DOMAIN known : known[id].stage = StageOf(journal', id)
        /\ cp \in DOMAIN known
    BY <1>3, <2>3, <2>4, AdoptedStages
  <2>7. ASSUME NEW decision \in Decisions,
               records' = With(known, cp, Decided(known[cp], decision))
        PROVE  /\ DOMAIN records' \subseteq ReachedIds(journal')
               /\ \A id \in DOMAIN records' : records'[id].stage = StageOf(journal', id)
    <3>1. Decided(known[cp], decision).stage = StageOf(journal', cp)
      BY <1>6, <2>5, <2>6
    <3> QED
      BY <2>3, <2>6, <2>7, <3>1, StagesKept
  <2>8. /\ DOMAIN records' \subseteq ReachedIds(journal')
        /\ \A id \in DOMAIN records' : records'[id].stage = StageOf(journal', id)
    BY <2>1, <2>6, <2>7
  <2> QED
    BY <1>4, <2>2, <2>8 DEF CardInv
<1>12. ASSUME NEW cp \in DOMAIN records, Slash(cp) PROVE CardInv'
  <2>1. PICK decision \in Decisions : records' = With(records, cp, Decided(records[cp], decision))
    BY <1>12 DEF Slash
  <2>2. journal' = journal /\ calls' = calls
    BY <1>12 DEF Slash
  <2>3. Decided(records[cp], decision).stage = StageOf(journal', cp) /\ cp \in ReachedIds(journal')
    BY <1>1, <1>3, <1>6
  <2>4. /\ DOMAIN records' \subseteq ReachedIds(journal')
        /\ \A id \in DOMAIN records' : records'[id].stage = StageOf(journal', id)
    BY <1>3, <2>1, <2>3, StagesKept
  <2> QED
    BY <1>4, <2>2, <2>4 DEF CardInv
<1>13. CASE Restart
  <2>1. DOMAIN records' = {} /\ \A c \in Calls : calls'[c].pc # "report"
    BY <1>1, <1>13 DEF Restart, Idle, Command
  <2> QED
    BY <2>1 DEF CardInv
<1>14. ASSUME NEW c \in Calls, Timeout(c) PROVE CardInv'
  <2>1. calls'[c].pc = "idle" /\ UNCHANGED <<journal, records>>
    BY <1>1, <1>14 DEF Timeout, Idle, session
  <2> QED
    BY <1>3, <1>5, <2>1 DEF CardInv
<1>15. CASE UNCHANGED vars
  BY <1>15 DEF vars, session, CardInv
<1> QED
  BY <1>7, <1>8, <1>9, <1>10, <1>11, <1>12, <1>13, <1>14, <1>15 DEF Next

LEMMA CardInvHolds ==
    ASSUME OneCall, Writable
    PROVE  Spec => [](Inv /\ WriteInv /\ CardInv)
<1>1. Init => CardInv
  BY DEF Init, Idle, CardInv
<1>2. Inv /\ WriteInv /\ CardInv /\ [Next]_vars => CardInv'
  BY CardStep
<1> QED
  BY <1>1, <1>2, WriteInvHolds, PTL DEF Spec

\* While tool calls run one at a time and the journal is writable, the card a tool presents is the checkpoint of its own stage.
THEOREM CardsAreOfTheirStage ==
    ASSUME OneCall, Writable
    PROVE  Spec => CardIsOwnStage
<1>1. ASSUME Inv, WriteInv, CardInv, CardInv', [Next]_vars
      PROVE  \A c \in Calls :
                calls[c].pc = "report" /\ calls[c].cp \in DOMAIN records' =>
                   records'[calls[c].cp].stage = calls[c].stage
  <2> SUFFICES ASSUME NEW c \in Calls, calls[c].pc = "report", calls[c].cp \in DOMAIN records'
               PROVE  records'[calls[c].cp].stage = calls[c].stage
    OBVIOUS
  <2>1. /\ calls[c].cp \in ReachedIds(journal)
        /\ StageOf(journal, calls[c].cp) = calls[c].stage
    BY <1>1 DEF CardInv
  <2>2. StageOf(journal', calls[c].cp) = StageOf(journal, calls[c].cp)
    <3>1. \A d \in Calls : calls[d].pc # "idle"
      BY DEF OneCall
    <3> QED
      BY <1>1, <2>1, <3>1, FoldsStep
  <2>3. records'[calls[c].cp].stage = StageOf(journal', calls[c].cp)
    BY <1>1 DEF CardInv
  <2> QED
    BY <2>1, <2>2, <2>3
<1> QED
  BY <1>1, CardInvHolds, PTL DEF Spec, CardIsOwnStage

\* A confirmation written to the journal is what the journal says.
LEMMA ConfirmedAfter ==
    ASSUME NEW j \in Seq(Event), NEW cp \in ReachedIds(j), NEW revision \in Nat
    PROVE  StatusOf(Append(j, Resolved(cp, "confirm", revision)), cp) = "confirmed"
<1> DEFINE e == Resolved(cp, "confirm", revision)
           more == Append(j, e)
           new == Len(j) + 1
           S == ReachedAt(j, cp)
<1>0. ASSUME NEW d \in Event
      PROVE  /\ \A c : ReachedAt(Append(j, d), c) = ReachedAt(j, c) \cup
                   (IF d.type = "checkpoint_reached" /\ d.cp = c THEN {Len(j) + 1} ELSE {})
             /\ \A c : ResolvedAt(Append(j, d), c) = ResolvedAt(j, c) \cup
                   (IF d.type = "checkpoint_resolved" /\ d.cp = c THEN {Len(j) + 1} ELSE {})
             /\ Append(j, d)[Len(j) + 1] = d
  <2>1. \A c : ReachedAt(Append(j, d), c) = ReachedAt(j, c) \cup
           (IF d.type = "checkpoint_reached" /\ d.cp = c THEN {Len(j) + 1} ELSE {})
    BY EventsAfter
  <2>2. \A c : ResolvedAt(Append(j, d), c) = ResolvedAt(j, c) \cup
           (IF d.type = "checkpoint_resolved" /\ d.cp = c THEN {Len(j) + 1} ELSE {})
    BY EventsAfter
  <2>3. Append(j, d)[Len(j) + 1] = d
    BY EventsAfter
  <2> QED
    BY <2>1, <2>2, <2>3
<1>1. cp \in Id
  BY StageOfReached
<1>2. /\ e \in Event /\ e.type = "checkpoint_resolved" /\ e.cp = cp
      /\ e.decision = "confirm"
  BY <1>1 DEF Resolved, Event, Decisions
<1> HIDE DEF e
<1>3. /\ ReachedAt(more, cp) = ReachedAt(j, cp) \cup
            (IF e.type = "checkpoint_reached" /\ e.cp = cp THEN {new} ELSE {})
      /\ ResolvedAt(more, cp) = ResolvedAt(j, cp) \cup
            (IF e.type = "checkpoint_resolved" /\ e.cp = cp THEN {new} ELSE {})
      /\ more[new] = e
  BY <1>0, <1>2
<1>4. S \in SUBSET Nat /\ S # {} /\ Len(j) \in Nat /\ \A i \in S : i <= Len(j)
  BY EventFields DEF ReachedIds, ReachedAt
<1> HIDE DEF more
<1>5. ReachedAt(more, cp) = S /\ new \in ResolvedAt(more, cp)
  BY <1>2, <1>3
<1>6. new > Max(S)
  <2> HIDE DEF S
  <2>1. Max(S) \in S
    BY <1>4, MaxInSet
  <2>2. Max(S) \in Nat /\ Max(S) <= Len(j)
    BY <1>4, <2>1
  <2>3. \A m \in Nat : m <= Len(j) => Len(j) + 1 > m
    BY <1>4
  <2> QED
    BY <2>2, <2>3
<1> HIDE DEF new, S
<1>7. \E i \in ResolvedAt(more, cp) : i > Max(ReachedAt(more, cp)) /\ more[i].decision = "confirm"
  BY <1>2, <1>3, <1>5, <1>6
<1> QED
  BY <1>4, <1>5, <1>7 DEF StatusOf, more, e

\* While, besides, nobody uses the slash command, what a session holds as
\* confirmed the journal does too.
THEOREM ConfirmedIsInJournal ==
    ASSUME OneCall, Writable, NoSlash
    PROVE  Spec => []ConfirmedIsJournaled
<1>1. Init => ConfirmedIsJournaled
  BY DEF Init, ConfirmedIsJournaled
<1>2. ASSUME Inv, WriteInv, CardInv, ConfirmedIsJournaled, [Next]_vars
      PROVE  ConfirmedIsJournaled'
  <2>1. /\ journal \in Seq(Event) /\ started \in [Steps -> Nat]
        /\ \A cp \in DOMAIN records : records[cp] \in Record /\ cp <= counter
    BY <1>2 DEF Inv, TypeOK, BelowCounter
  <2>2. \A cp \in DOMAIN records :
           records[cp].status = "confirmed" => StatusOf(journal', cp) = "confirmed"
    BY <1>2, <2>1, FoldsStep DEF CardInv, ConfirmedIsJournaled
  <2>3. ASSUME NEW cp, NEW stage, records' = Adopted(records, cp, stage)
        PROVE  ConfirmedIsJournaled'
    BY <2>2, <2>3 DEF Adopted, With, Pending, ConfirmedIsJournaled
  <2>4. ASSUME NEW cp, NEW stage, records' = With(records, cp, Pending(stage))
        PROVE  ConfirmedIsJournaled'
    BY <2>2, <2>4 DEF With, Pending, ConfirmedIsJournaled
  <2>5. ASSUME NEW c \in Calls, ToolAdopt(c) PROVE ConfirmedIsJournaled'
    BY <2>3, <2>5 DEF ToolAdopt
  <2>6. ASSUME NEW c \in Calls, ProposeOwn(c) PROVE ConfirmedIsJournaled'
    BY <2>4, <2>6 DEF ProposeOwn
  <2>7. ASSUME NEW cp \in DOMAIN records \cup ReachedIds(journal), Respond(cp)
        PROVE  ConfirmedIsJournaled'
    <3> DEFINE known == Adopted(records, cp, StageOf(journal, cp))
    <3>1. /\ cp \in ReachedIds(journal)
          /\ \/ records' = known
             \/ \E decision \in Decisions :
                   /\ known[cp].status = "pending"
                   /\ records' = With(known, cp, Decided(known[cp], decision))
                   /\ BestEffort(Resolved(cp, decision, Decided(known[cp], decision).revision))
      BY <1>2, <2>7, RespondStore
    <3>2. CASE records' = known
      BY <2>3, <3>2
    <3>3. ASSUME NEW decision \in Decisions, known[cp].status = "pending",
                 records' = With(known, cp, Decided(known[cp], decision)),
                 BestEffort(Resolved(cp, decision, Decided(known[cp], decision).revision))
          PROVE  ConfirmedIsJournaled'
      <4>1. /\ StoreOK(known, CounterAfter(records, counter, cp)) /\ cp \in DOMAIN known
            /\ cp \in Id
        <5>1. StoreOK(records, counter)
          BY <1>2 DEF Inv, StoreOK, TypeOK
        <5>2. cp \in Id /\ StageOf(journal, cp) \in Stages
          BY <2>1, <3>1, StageOfReached
        <5> QED
          BY <5>1, <5>2, AdoptsRecord
      <4>2. \A id \in DOMAIN known : id # cp => id \in DOMAIN records /\ known[id] = records[id]
        BY DEF Adopted, With
      <4> HIDE DEF known
      <4>3. known[cp] \in Record /\ Decided(known[cp], decision) \in Record
        BY <3>3, <4>1, DecidesRecord DEF StoreOK
      <4>4. CASE decision = "revise"
        <5>1. Decided(known[cp], decision).status = "pending"
          BY <3>3, <4>3, <4>4 DEF Decided, Record
        <5> QED
          BY <2>2, <3>3, <4>2, <5>1 DEF With, ConfirmedIsJournaled
      <4>5. CASE decision = "confirm"
        <5> DEFINE revision == Decided(known[cp], decision).revision
        <5>1. revision \in Nat
          BY <4>3 DEF Record
        <5>2. journal' = Append(journal, Resolved(cp, "confirm", revision))
          BY <1>2, <3>3, <4>5, Lossless
        <5> HIDE DEF revision
        <5>3. StatusOf(journal', cp) = "confirmed"
          BY <2>1, <3>1, <5>1, <5>2, ConfirmedAfter
        <5> QED
          BY <2>2, <3>3, <4>2, <5>3 DEF With, ConfirmedIsJournaled
      <4> QED
        BY <4>4, <4>5 DEF Decisions
    <3> QED
      BY <3>1, <3>2, <3>3
  <2>8. \A cp : ~Slash(cp)
    BY <2>1 DEF Slash, Start, NoSlash, Steps
  <2>9. CASE Restart
    BY <2>9 DEF Restart, ConfirmedIsJournaled
  <2>10. CASE records' = records
    BY <2>2, <2>10 DEF ConfirmedIsJournaled
  <2>11. ASSUME NEW c \in Calls, EngineMint(c) \/ EngineWrite(c) \/ Timeout(c)
         PROVE  records' = records
    BY <2>11 DEF EngineMint, EngineWrite, Timeout, session
  <2>12. UNCHANGED vars => records' = records
    BY DEF vars, session
  <2> QED
    BY <1>2, <2>5, <2>6, <2>7, <2>8, <2>9, <2>10, <2>11, <2>12 DEF Next
<1> QED
  BY <1>1, <1>2, CardInvHolds, PTL DEF Spec
=============================================================================
