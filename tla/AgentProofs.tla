----------------------------- MODULE AgentProofs -----------------------------
(***************************************************************************)
(* Proofs about the agent and its loop, for any number of messages,        *)
(* responses, tool calls and failures, in all modes of the queues.         *)
(***************************************************************************)
EXTENDS Agent, SequenceTheorems, TLAPS

(***************************************************************************)
(* What the invariants speak about.                                        *)
(***************************************************************************)
\* The results of the first calls of the current response.
Results(n) == [i \in 1..n |-> ToolResult(responses, i)]
Sent == {i \in DOMAIN run.calls : run.calls[i] = "sent"}

IsSteer(m) == m.role = "user" /\ handed[m.text] = "steer"

(***************************************************************************)
(* The invariants.                                                         *)
(***************************************************************************)
\* A batch: calls are started and their results sent in their order, one that is
\* not in parallel works on one call at a time, and only an abort skips calls.
BatchInv ==
    /\ ~At("batch") => run.calls = <<>>
    /\ Len(run.calls) <= MaxCalls
    /\ \E n \in 0..Len(run.calls) : Sent = 1..n
    /\ At("batch") /\ run.aborted => responses \in cut
    /\ \A i \in DOMAIN run.calls : run.calls[i] = "skipped" => responses \in cut
    /\ \A i, j \in DOMAIN run.calls : i < j =>
        /\ run.calls[i] \in {"todo", "started"} => run.calls[j] = "todo"
        /\ run.mode # "parallel" /\ run.calls[i] # "sent" =>
              run.calls[j] \in {"todo", "skipped"}

\* How far the context of the loop is from the transcript of the agent.
ContextInv ==
    /\ At("prompts") => run.context = transcript \o Users(run.prompts)
    /\ run.pc \in {"inject", "stream", "turnEnd", "poll", "pollFollowUps",
                   "prepare", "repoll"} => run.context = transcript
    /\ At("batch") =>
        \A n \in 0..Len(run.calls) :
            Sent = 1..n => transcript = run.context \o Results(n)

\* The current response is the last message of the context and has a number of
\* its own.
ResponseInv ==
    /\ \A p \in DOMAIN transcript :
        IsAssistant(transcript[p]) => transcript[p].turn <= responses
    /\ At("batch") =>
        /\ run.context # <<>>
        /\ IsAssistant(run.context[Len(run.context)])
        /\ run.context[Len(run.context)].turn = responses
        /\ run.context[Len(run.context)].calls = Len(run.calls)
        /\ \A p \in 1..(Len(run.context) - 1) :
            IsAssistant(run.context[p]) => run.context[p].turn < responses

\* Every message was handed over, and is where its way of handing over puts it.
HandedInv ==
    /\ \A p \in DOMAIN transcript :
        transcript[p].role = "user" => transcript[p].text \in DOMAIN handed
    /\ \A i \in DOMAIN steering :
        steering[i] \in DOMAIN handed /\ handed[steering[i]] = "steer"
    /\ \A i \in DOMAIN followUps :
        followUps[i] \in DOMAIN handed /\ handed[followUps[i]] = "followUp"
    /\ \A i \in DOMAIN run.prompts : run.prompts[i] \in DOMAIN handed
    /\ \A i \in DOMAIN run.pending : run.pending[i] \in DOMAIN handed

\* At most one steering message is in hand, and none after another.
SteerInv ==
    SteeringMode = "one-at-a-time" =>
        /\ \A i \in DOMAIN run.prompts :
            handed[run.prompts[i]] = "steer" => Len(run.prompts) = 1 /\ run.skip
        /\ \A i \in DOMAIN run.pending :
            handed[run.pending[i]] = "steer" => Len(run.pending) = 1
        /\ transcript # <<>> /\ IsSteer(transcript[Len(transcript)]) =>
            \/ At("prompts") /\ run.prompts = <<>> /\ run.skip
            \/ At("inject") /\ run.pending = <<>>
            \/ At("stream")

(***************************************************************************)
(* Sequences of texts and messages.                                        *)
(***************************************************************************)
Statuses == {"todo", "started", "ready", "running", "done", "sent", "skipped"}

\* Lists of messages may be put together in any grouping.
LEMMA Regroup ==
    ASSUME NEW a \in Seq(Message), NEW b \in Seq(Message), NEW c \in Seq(Message)
    PROVE  (a \o b) \o c = a \o (b \o c)
  BY ConcatAssociative

LEMMA UsersProperties ==
    ASSUME NEW texts \in Seq(Text)
    PROVE  /\ Users(texts) \in Seq(Message)
           /\ Len(Users(texts)) = Len(texts)
           /\ DOMAIN Users(texts) = 1..Len(texts)
           /\ \A i \in 1..Len(texts) : Users(texts)[i] = User(texts[i])
<1>1. DOMAIN texts = 1..Len(texts) /\ Len(texts) \in Nat
  BY LenProperties
<1>2. \A i \in 1..Len(texts) : User(texts[i]) \in Message
  BY ElementOfSeq DEF User, Message
<1>3. Users(texts) \in [1..Len(texts) -> Message]
  BY <1>1, <1>2 DEF Users
<1>4. Users(texts) \in Seq(Message)
  BY <1>1, <1>3, SeqDef
<1>5. Len(Users(texts)) = Len(texts)
  BY <1>1, <1>3, <1>4, LenProperties
<1> QED
  BY <1>1, <1>3, <1>4, <1>5 DEF Users

\* Draining a queue takes all of it, or its head; the rest stays in its order.
LEMMA DrainProperties ==
    ASSUME NEW queue \in Seq(Text), NEW mode \in QueueModes
    PROVE  /\ Drained(queue, mode) \in Seq(Text)
           /\ Rest(queue, mode) \in Seq(Text)
           /\ \A i \in DOMAIN Drained(queue, mode) :
                i \in DOMAIN queue /\ Drained(queue, mode)[i] = queue[i]
           /\ \A i \in DOMAIN Rest(queue, mode) :
                \E j \in DOMAIN queue : Rest(queue, mode)[i] = queue[j]
           /\ mode = "one-at-a-time" => Len(Drained(queue, mode)) <= 1
<1> DEFINE d == Drained(queue, mode)
           r == Rest(queue, mode)
<1>1. DOMAIN queue = 1..Len(queue) /\ Len(queue) \in Nat
  BY LenProperties
<1>2. CASE mode = "all" \/ queue = <<>>
  <2>1. d = queue
    BY <1>2 DEF Drained
  <2>2. r = <<>>
    BY <2>1, <1>1, SubSeqEmpty DEF Rest
  <2> QED
    BY <1>1, <1>2, <2>1, <2>2, EmptySeq
<1>3. CASE mode # "all" /\ queue # <<>>
  <2>1. d = <<Head(queue)>>
    BY <1>3 DEF Drained
  <2>2. Head(queue) \in Text /\ Head(queue) = queue[1] /\ Len(queue) > 0
    BY <1>1, <1>3, EmptySeq, HeadTailProperties
  <2>3. d \in Seq(Text) /\ Len(d) = 1 /\ DOMAIN d = 1..1 /\ d[1] = queue[1]
    BY <2>1, <2>2
  <2>4. r = Tail(queue)
    BY <2>1, <1>3, TailIsSubSeq DEF Rest
  <2> HIDE DEF d, r
  <2>5. /\ r \in Seq(Text) /\ Len(r) = Len(queue) - 1
        /\ \A i \in 1..Len(r) : r[i] = queue[i + 1]
    BY <1>3, <2>4, HeadTailProperties
  <2>6. DOMAIN r = 1..Len(r)
    BY <2>5, LenProperties
  <2>7. \A i \in 1..Len(r) : i + 1 \in 1..Len(queue)
    BY <1>1, <2>2, <2>5
  <2>8. ASSUME NEW i \in DOMAIN r
        PROVE  i + 1 \in DOMAIN queue /\ r[i] = queue[i + 1]
    BY <1>1, <2>5, <2>6, <2>7, Zenon
  <2>9. \A i \in DOMAIN r : \E j \in DOMAIN queue : r[i] = queue[j]
    BY <2>8
  <2>10. \A i \in DOMAIN d : i \in DOMAIN queue /\ d[i] = queue[i]
    BY <1>1, <2>2, <2>3
  <2> QED
    BY <2>3, <2>5, <2>9, <2>10 DEF d, r
<1> QED
  BY <1>2, <1>3

LEMMA TextsAreNumbers ==
    ASSUME NEW texts \in Seq(Text)
    PROVE  ToSet(texts) \subseteq Nat
<1>1. DOMAIN texts = 1..Len(texts) /\ \A i \in 1..Len(texts) : texts[i] \in Text
  BY LenProperties, ElementOfSeq
<1>2. Text \subseteq Nat
  BY AgentAssumption DEF Text
<1> QED
  BY <1>1, <1>2, Zenon DEF ToSet

(***************************************************************************)
(* Type correctness, with the invariant of batches it needs.               *)
(***************************************************************************)
\* The run as it is outside of a batch.
LEMMA NoBatch ==
    ASSUME TypeOK, BatchInv, ~At("batch")
    PROVE  run.calls = <<>> /\ pendingCalls = {}
  BY DEF TypeOK, BatchInv

\* Another run without calls, and no pending call, satisfies both invariants.
LEMMA NoBatchAfter ==
    ASSUME run'.calls = <<>>, pendingCalls' = {}, run'.pc # "batch",
           run' \in RunState
    PROVE  /\ pendingCalls' = {Call(i) : i \in {j \in DOMAIN run.calls :
                                         run.calls[j] \in Unended}}'
           /\ BatchInv'
<1>1. Sent' = 1..0 /\ Len(run'.calls) = 0 /\ DOMAIN run'.calls = {}
  BY DEF Sent
<1> QED
  BY <1>1, AgentAssumption DEF BatchInv, At

\* Other steps leave the batch alone.
LEMMA SameBatch ==
    ASSUME BatchInv, run'.pc = run.pc, run'.calls = run.calls, run'.mode = run.mode,
           responses' = responses, cut \subseteq cut',
           At("batch") /\ run'.aborted => responses \in cut'
    PROVE  /\ BatchInv'
           /\ {Call(i) : i \in {j \in DOMAIN run.calls :
                                 run.calls[j] \in Unended}}'
              = {Call(i) : i \in {j \in DOMAIN run.calls :
                                 run.calls[j] \in Unended}}
<1>1. Sent' = Sent
  BY DEF Sent
<1> QED
  BY <1>1 DEF BatchInv, At, Call

\* The steps of the callers.
LEMMA CallerType ==
    ASSUME TypeOK, BatchInv, CallerNext
    PROVE  TypeOK' /\ BatchInv'
<1> USE DEF Ways
<1>1. /\ \A way \in Ways : HandOver(way) =>
            /\ handed' \in Seq(Ways) /\ Len(handed') \in Text
            /\ <<Len(handed')>> \in Seq(Text)
      /\ SteeringMode \in QueueModes /\ FollowUpMode \in QueueModes
  <2>1. ASSUME NEW way \in Ways, HandOver(way)
        PROVE  handed' \in Seq(Ways) /\ Len(handed') \in Text
    BY <2>1, AppendProperties, LenProperties, AgentAssumption DEF TypeOK, HandOver, Text
  <2>2. \A t \in Text : <<t>> \in Seq(Text)
    OBVIOUS
  <2> QED
    BY <2>1, <2>2, AgentAssumption
<1>2. ASSUME NEW prompts \in Seq(Text), NEW skip \in BOOLEAN, Start(prompts, skip)
      PROVE  /\ run' \in RunState /\ run'.calls = <<>>
             /\ run'.pc = "prompts"
  <2>1. transcript \o Users(prompts) \in Seq(Message)
    BY UsersProperties, ConcatProperties DEF TypeOK
  <2>2. <<>> \in Seq(Text) /\ <<>> \in Seq(Statuses)
    BY EmptySeq
  <2> QED
    BY <1>2, <2>1, <2>2 DEF Start, NoRun, RunState, Statuses
<1>3. CASE Prompt
  <2>1. ~At("batch")
    BY <1>3 DEF Prompt, Active, At
  <2>2. run' \in RunState /\ run'.calls = <<>> /\ run'.pc = "prompts"
    BY <1>1, <1>2, <1>3 DEF Prompt
  <2> QED
    BY <1>1, <1>3, <2>1, <2>2, NoBatch, NoBatchAfter DEF Prompt, TypeOK, queues
<1>4. CASE Continue
  <2>1. ~At("batch")
    BY <1>4 DEF Continue, Active, At
  <2>2. /\ <<>> \in Seq(Text)
        /\ Steered \in Seq(Text) /\ FollowedUp \in Seq(Text)
        /\ Rest(steering, SteeringMode) \in Seq(Text)
        /\ Rest(followUps, FollowUpMode) \in Seq(Text)
    BY <1>1, DrainProperties, EmptySeq DEF TypeOK, Steered, FollowedUp
  <2>3. run' \in RunState /\ run'.calls = <<>> /\ run'.pc = "prompts"
    BY <1>2, <1>4, <2>2 DEF Continue
  <2> QED
    BY <1>4, <2>1, <2>2, <2>3, NoBatch, NoBatchAfter DEF Continue, TypeOK, queues, history
<1>5. CASE Steer
  <2>1. steering' \in Seq(Text)
    BY <1>1, <1>5, AppendProperties DEF Steer, TypeOK
  <2> QED
    BY <1>1, <1>5, <2>1, SameBatch DEF Steer, TypeOK, BatchInv
<1>6. CASE FollowUp
  <2>1. followUps' \in Seq(Text)
    BY <1>1, <1>6, AppendProperties DEF FollowUp, TypeOK
  <2> QED
    BY <1>1, <1>6, <2>1, SameBatch DEF FollowUp, TypeOK, BatchInv
<1>7. CASE ClearQueues
  <2>1. steering \o followUps \in Seq(Text) /\ <<>> \in Seq(Text)
    BY ConcatProperties, EmptySeq DEF TypeOK
  <2>2. ToSet(steering \o followUps) \subseteq Nat
    BY <2>1, TextsAreNumbers
  <2>3. discarded' \subseteq Nat /\ steering' \in Seq(Text) /\ followUps' \in Seq(Text)
    BY <1>7, <2>1, <2>2 DEF ClearQueues, TypeOK
  <2> QED
    <3>1. UNCHANGED <<transcript, pendingCalls, run, responses, handed, cut>>
          /\ faults' = faults + 1
      BY <1>7 DEF ClearQueues
    <3>2. At("batch") /\ run'.aborted => responses \in cut'
      BY <3>1 DEF BatchInv
    <3>3. BatchInv' /\ pendingCalls' = {Call(i) : i \in {j \in DOMAIN run.calls :
                                         run.calls[j] \in Unended}}'
      BY <3>1, <3>2, SameBatch DEF TypeOK
    <3>4. faults' \in Nat
      BY <3>1 DEF TypeOK
    <3> QED
      BY <2>3, <3>1, <3>3, <3>4 DEF TypeOK
<1>8. CASE Abort
  <2>1. run' \in RunState /\ run'.calls = run.calls /\ run'.pc = run.pc
    BY <1>8 DEF Abort, TypeOK, RunState
  <2>2. run'.mode = run.mode
    BY <1>8 DEF Abort, TypeOK, RunState
  <2>3. cut' \subseteq Nat /\ cut \subseteq cut' /\ (At("batch") => responses \in cut')
    BY <1>8 DEF Abort, TypeOK
  <2> QED
    BY <1>8, <2>1, <2>2, <2>3, SameBatch DEF Abort, TypeOK, queues
<1>9. CASE Reset
  <2>1. ~At("batch")
    BY <1>9 DEF Reset, Active, At
  <2>2. run'.calls = <<>> /\ run'.pc # "batch" /\ run' \in RunState
    BY <1>9, <2>1, NoBatch DEF Reset, At, TypeOK
  <2>3. DOMAIN handed \subseteq Nat
    BY LenProperties DEF TypeOK
  <2> QED
    BY <1>9, <2>1, <2>2, <2>3, NoBatchAfter, EmptySeq DEF Reset, TypeOK
<1> QED
  BY <1>3, <1>4, <1>5, <1>6, <1>7, <1>8, <1>9 DEF CallerNext

\* The steps of the loop outside of batches.
LEMMA TurnType ==
    ASSUME TypeOK, BatchInv,
           \/ EmitPrompt \/ InitialPoll \/ InjectPending \/ CallModel
           \/ PollSteering \/ PollFollowUps \/ RepollSteering
           \/ PrepareNextTurn(run.context) /\ UNCHANGED transcript
           \/ EndTurn(<<>>, TRUE) \/ FinishRun \/ Throw
           \/ Respond \/ RespondFailed
    PROVE  TypeOK' /\ BatchInv'
<1>1. run.calls = <<>> /\ pendingCalls = {}
  BY NoBatch DEF EmitPrompt, InitialPoll, InjectPending, CallModel, PollSteering,
     PollFollowUps, RepollSteering, PrepareNextTurn, EndTurn, FinishRun, Throw,
     Respond, RespondFailed, At
<1>2. /\ <<>> \in Seq(Text) /\ <<>> \in Seq(Message) /\ <<>> \in Seq(Statuses)
      /\ Steered \in Seq(Text) /\ FollowedUp \in Seq(Text)
      /\ Rest(steering, SteeringMode) \in Seq(Text)
      /\ Rest(followUps, FollowUpMode) \in Seq(Text)
  BY AgentAssumption, DrainProperties, EmptySeq DEF TypeOK, Steered, FollowedUp
<1>3. ASSUME NEW m \in Message
      PROVE  /\ Append(transcript, m) \in Seq(Message)
             /\ Append(run.context, m) \in Seq(Message)
  BY AppendProperties DEF TypeOK, RunState
<1>4. \A t \in Text : User(t) \in Message
  BY DEF User, Message
<1>5. \A stop \in Errors \cup {"stop", "toolUse", "length", "aborted"} :
        Assistant(responses + 1, stop, 0) \in Message
  BY AgentAssumption DEF Assistant, Message, TypeOK
<1> USE DEF Statuses, queues, history, At
<1>6. CASE EmitPrompt
  <2>1. Head(run.prompts) \in Text /\ Tail(run.prompts) \in Seq(Text)
    BY <1>6, HeadTailProperties DEF EmitPrompt, TypeOK, RunState
  <2>2. run' \in RunState /\ run'.calls = <<>> /\ run'.pc # "batch"
    BY <1>1, <1>6, <2>1 DEF EmitPrompt, TypeOK, RunState
  <2> QED
    BY <1>1, <1>3, <1>4, <1>6, <2>1, <2>2, NoBatchAfter DEF EmitPrompt, Emit, TypeOK
<1>7. CASE InitialPoll
  <2>1. run' \in RunState /\ run'.calls = <<>> /\ run'.pc # "batch"
    BY <1>1, <1>2, <1>7 DEF InitialPoll, TypeOK, RunState
  <2> QED
    BY <1>1, <1>2, <1>7, <2>1, NoBatchAfter DEF InitialPoll, TypeOK
<1>8. CASE InjectPending
  <2>1. Head(run.pending) \in Text /\ Tail(run.pending) \in Seq(Text)
    BY <1>8, HeadTailProperties DEF InjectPending, TypeOK, RunState
  <2>2. run' \in RunState /\ run'.calls = <<>> /\ run'.pc # "batch"
    BY <1>1, <1>3, <1>4, <1>8, <2>1 DEF InjectPending, TypeOK, RunState
  <2> QED
    BY <1>1, <1>3, <1>4, <1>8, <2>1, <2>2, NoBatchAfter DEF InjectPending, Emit, TypeOK
<1>9. CASE CallModel
  <2>1. run' \in RunState /\ run'.calls = <<>> /\ run'.pc # "batch"
    BY <1>1, <1>9 DEF CallModel, Goto, TypeOK, RunState
  <2> QED
    BY <1>1, <1>9, <2>1, NoBatchAfter DEF CallModel, TypeOK
<1>10. CASE PollSteering
  <2>1. run' \in RunState /\ run'.calls = <<>> /\ run'.pc # "batch"
    BY <1>1, <1>2, <1>10 DEF PollSteering, TypeOK, RunState
  <2> QED
    BY <1>1, <1>2, <1>10, <2>1, NoBatchAfter DEF PollSteering, TypeOK
<1>11. CASE PollFollowUps
  <2>1. run' \in RunState /\ run'.calls = <<>> /\ run'.pc # "batch"
    BY <1>1, <1>2, <1>11 DEF PollFollowUps, TypeOK, RunState
  <2> QED
    BY <1>1, <1>2, <1>11, <2>1, NoBatchAfter DEF PollFollowUps, TypeOK
<1>12. CASE RepollSteering
  <2>1. run' \in RunState /\ run'.calls = <<>> /\ run'.pc # "batch"
    <3>1. \/ run' = [run EXCEPT !.pc = "inject", !.pending = Steered]
          \/ run' = [run EXCEPT !.pc = "inject"]
      BY <1>12, Zenon DEF RepollSteering, Goto
    <3> QED
      BY <1>1, <1>2, <3>1 DEF TypeOK, RunState
  <2> QED
    BY <1>1, <1>2, <1>12, <2>1, NoBatchAfter DEF RepollSteering, TypeOK
<1>13. CASE PrepareNextTurn(run.context) /\ UNCHANGED transcript
  <2>1. run' \in RunState /\ run'.calls = <<>> /\ run'.pc # "batch"
    BY <1>1, <1>13 DEF PrepareNextTurn, TypeOK, RunState
  <2> QED
    BY <1>1, <1>13, <2>1, NoBatchAfter DEF PrepareNextTurn, TypeOK
<1>14. CASE EndTurn(<<>>, TRUE)
  <2>1. run' \in RunState /\ run'.calls = <<>> /\ run'.pc # "batch"
    BY <1>1, <1>14 DEF EndTurn, Goto, TypeOK, RunState
  <2>2. transcript' \in Seq(Message)
    BY <1>2, <1>14, ConcatProperties DEF EndTurn, TypeOK
  <2> QED
    BY <1>1, <1>14, <2>1, <2>2, NoBatchAfter DEF EndTurn, TypeOK
<1>15. CASE FinishRun
  <2>1. run' \in RunState /\ run'.calls = <<>> /\ run'.pc # "batch"
    BY <1>2, <1>15 DEF FinishRun, NoRun, RunState
  <2> QED
    BY <1>1, <1>15, <2>1, NoBatchAfter DEF FinishRun, TypeOK
<1>16. CASE Throw
  <2>1. run' \in RunState /\ run'.calls = <<>> /\ run'.pc # "batch"
    BY <1>1, <1>2, <1>16 DEF Throw, TypeOK, RunState
  <2>2. discarded' \subseteq Nat
    BY <1>16, TextsAreNumbers DEF Throw, TypeOK, RunState
  <2>3. transcript' \in Seq(Message)
    BY <1>3, <1>5, <1>16 DEF Throw, Emit
  <2> QED
    BY <1>1, <1>16, <2>1, <2>2, <2>3, NoBatchAfter DEF Throw, TypeOK
<1>17. CASE Respond \/ RespondFailed
  <2>1. ASSUME NEW stop \in Errors \cup {"stop", "toolUse", "length", "aborted"},
               NEW next \in RunState, next.calls = <<>>, next.pc # "batch",
               next.context = run.context, Receive(stop, 0, next)
        PROVE  TypeOK' /\ BatchInv'
    <3>1. run' \in RunState /\ run'.calls = <<>> /\ run'.pc # "batch"
      BY <1>3, <1>5, <2>1 DEF Receive, RunState
    <3> QED
      BY <1>1, <1>3, <1>5, <2>1, <3>1, NoBatchAfter DEF Receive, Emit, TypeOK
  <2>2. CASE Respond
    <3>1. PICK stop \in {"stop", "length"} :
            Receive(stop, 0, [run EXCEPT !.pc = "turnEnd", !.more = FALSE])
      BY <2>2 DEF Respond
    <3> QED
      BY <1>1, <2>1, <3>1 DEF TypeOK, RunState
  <2>3. CASE RespondFailed
    <3>1. PICK stop \in Errors \cup {"aborted"} :
            Receive(stop, 0, [run EXCEPT !.pc = "failed"])
      BY <2>3 DEF RespondFailed
    <3> QED
      BY <1>1, <2>1, <3>1 DEF TypeOK, RunState
  <2> QED
    BY <1>17, <2>2, <2>3
<1> QED
  BY <1>6, <1>7, <1>8, <1>9, <1>10, <1>11, <1>12, <1>13, <1>14, <1>15, <1>16, <1>17

\* A function from an initial segment of the numbers is a sequence.
LEMMA FunctionIsSeq ==
    ASSUME NEW S, NEW n \in Nat, NEW f \in [1..n -> S]
    PROVE  f \in Seq(S) /\ Len(f) = n /\ DOMAIN f = 1..n
  BY SeqDef, LenProperties

\* What a step within a batch has to keep.
LEMMA WithinBatch ==
    ASSUME TypeOK, BatchInv, At("batch"),
           NEW calls \in Seq(Statuses), DOMAIN calls = DOMAIN run.calls,
           run' \in RunState, run'.pc = "batch", run'.mode = run.mode,
           run'.aborted = run.aborted, run'.calls = calls,
           UNCHANGED <<responses, cut>>,
           \A i \in DOMAIN calls : calls[i] = "skipped" =>
                run.calls[i] = "skipped" \/ run.aborted,
           \A i, j \in DOMAIN calls : i < j =>
                /\ calls[i] \in {"todo", "started"} => calls[j] = "todo"
                /\ run.mode # "parallel" /\ calls[i] # "sent" =>
                      calls[j] \in {"todo", "skipped"},
           \E n \in 0..Len(calls) : {i \in DOMAIN calls : calls[i] = "sent"} = 1..n
    PROVE  BatchInv'
<1>1. run.calls \in Seq(Statuses)
  BY DEF TypeOK, RunState, Statuses
<1>2. Len(calls) = Len(run.calls)
  BY <1>1, LenProperties
<1> QED
  BY <1>2 DEF BatchInv, At, Sent

\* Which calls are pending after a step of a batch.
LEMMA PendingAfter ==
    ASSUME TypeOK, UNCHANGED responses, DOMAIN run'.calls = DOMAIN run.calls,
           NEW begun, NEW over,
           begun \subseteq DOMAIN run.calls, over \subseteq DOMAIN run.calls,
           pendingCalls' = (pendingCalls \cup {Call(i) : i \in begun})
                               \ {Call(i) : i \in over},
           \A i \in DOMAIN run.calls :
             run'.calls[i] \in Unended <=>
                /\ run.calls[i] \in Unended \/ i \in begun
                /\ i \notin over
    PROVE  pendingCalls' = {Call(i) : i \in {j \in DOMAIN run.calls :
                                         run.calls[j] \in Unended}}'
  BY DEF TypeOK, Call

LEMMA PendingAsBefore ==
    ASSUME TypeOK, UNCHANGED <<responses, pendingCalls>>,
           DOMAIN run'.calls = DOMAIN run.calls,
           \A i \in DOMAIN run.calls :
             run'.calls[i] \in Unended <=> run.calls[i] \in Unended
    PROVE  pendingCalls' = {Call(i) : i \in {j \in DOMAIN run.calls :
                                         run.calls[j] \in Unended}}'
  BY DEF TypeOK, Call

LEMMA BatchType ==
    ASSUME TypeOK, BatchInv,
           \/ RespondWithCalls \/ LaunchCalls \/ EndBatch
           \/ \E i \in 1..MaxCalls :
                \/ StartCall(i) \/ SkipCalls(i) \/ RefuseCall(i) \/ PrepareCall(i)
                \/ FinishCall(i) \/ SendResult(i)
    PROVE  TypeOK' /\ BatchInv'
<1> USE DEF At, queues, history, Unended
<1>1. /\ run.calls \in Seq(Statuses) /\ Len(run.calls) \in Nat
      /\ DOMAIN run.calls = 1..Len(run.calls)
      /\ \A i \in DOMAIN run.calls : run.calls[i] \in Statuses
  <2>1. run.calls \in Seq(Statuses)
    BY DEF TypeOK, RunState, Statuses
  <2> QED
    BY <2>1, LenProperties, ElementOfSeq
<1>2. ASSUME NEW m \in Message
      PROVE  /\ Append(transcript, m) \in Seq(Message)
             /\ Append(run.context, m) \in Seq(Message)
  BY AppendProperties DEF TypeOK, RunState
<1>3. \A f \in [DOMAIN run.calls -> Statuses] :
        f \in Seq(Statuses) /\ DOMAIN f = DOMAIN run.calls
  BY <1>1, FunctionIsSeq
<1>4. CASE RespondWithCalls
  <2>1. PICK k \in 1..MaxCalls, mode \in ExecutionModes :
          Receive(IF mode = "truncated" THEN "length" ELSE "toolUse", k,
                  [run EXCEPT !.pc = "batch", !.mode = mode, !.terminate = TRUE,
                              !.calls = [i \in 1..k |-> "todo"]])
    BY <1>4 DEF RespondWithCalls
  <2> DEFINE m == Assistant(responses + 1,
                            IF mode = "truncated" THEN "length" ELSE "toolUse", k)
             todo == [i \in 1..k |-> "todo"]
  <2>2. m \in Message /\ k \in Nat /\ k \in 0..MaxCalls
    BY AgentAssumption DEF Assistant, Message, TypeOK
  <2>3. todo \in Seq(Statuses) /\ DOMAIN todo = 1..k
    <3>1. todo \in [1..k -> Statuses]
      BY DEF Statuses
    <3> QED
      BY <2>2, <3>1, FunctionIsSeq
  <2>4. run' = [run EXCEPT !.pc = "batch", !.mode = mode, !.terminate = TRUE,
                           !.calls = todo, !.context = Append(run.context, m)]
    BY <2>1 DEF Receive, TypeOK, RunState
  <2> HIDE DEF m
  <2>5. run' \in RunState
    BY <1>2, <2>2, <2>3, <2>4, AgentAssumption DEF TypeOK, RunState, Statuses
  <2>6. /\ run'.pc = "batch" /\ run'.calls = todo /\ run'.aborted = run.aborted
        /\ responses' = responses + 1 /\ pendingCalls' = pendingCalls
        /\ k > 0 /\ cut \subseteq cut' /\ (run.aborted => responses' \in cut')
    BY <2>1, <2>4 DEF Receive, TypeOK, RunState
  <2>7. BatchInv'
    <3>1. Sent' = 1..0 /\ Len(run'.calls) = k
      BY <2>2, <2>3, <2>6, LenProperties DEF Sent
    <3>2. \A i \in DOMAIN run'.calls : run'.calls[i] = "todo"
      BY <2>3, <2>6
    <3>3. Len(run'.calls) <= MaxCalls
      BY <2>2, <3>1, AgentAssumption
    <3>4. \E n \in 0..Len(run'.calls) : Sent' = 1..n
      BY <2>2, <3>1
    <3> HIDE DEF todo
    <3> QED
      BY <2>6, <3>2, <3>3, <3>4 DEF BatchInv
  <2>8. pendingCalls' = {Call(i) : i \in {j \in DOMAIN run.calls :
                                         run.calls[j] \in Unended}}'
    BY <1>4, <2>3, <2>6, NoBatch DEF RespondWithCalls
  <2> QED
    BY <1>2, <2>1, <2>2, <2>5, <2>6, <2>7, <2>8 DEF Receive, Emit, TypeOK, m
<1>5. CASE LaunchCalls
  <2> DEFINE ready == {i \in DOMAIN run.calls : run.calls[i] = "ready"}
             calls == [i \in DOMAIN run.calls |->
                        IF i \notin ready THEN run.calls[i]
                        ELSE IF run.aborted THEN "done" ELSE "running"]
  <2>1. calls \in Seq(Statuses) /\ DOMAIN calls = DOMAIN run.calls
    <3>1. calls \in [DOMAIN run.calls -> Statuses]
      BY <1>1 DEF Statuses
    <3> QED
      BY <1>3, <3>1
  <2>2. /\ run' = [run EXCEPT !.terminate = run.terminate /\ ~run.aborted, !.calls = calls]
        /\ All({"ready", "done", "skipped"}) /\ run.pc = "batch"
        /\ pendingCalls' = IF run.aborted THEN pendingCalls \ {Call(i) : i \in ready}
                           ELSE pendingCalls
    BY <1>5 DEF LaunchCalls
  <2>3. /\ run' \in RunState /\ run'.pc = "batch" /\ run'.mode = run.mode
        /\ run'.aborted = run.aborted /\ run'.calls = calls
    BY <2>1, <2>2 DEF TypeOK, RunState, Statuses
  <2>4. BatchInv'
    <3>1. \A i \in DOMAIN calls : calls[i] = "skipped" => run.calls[i] = "skipped"
      OBVIOUS
    <3>2. \A i, j \in DOMAIN calls : i < j =>
            /\ calls[i] \in {"todo", "started"} => calls[j] = "todo"
            /\ run.mode # "parallel" /\ calls[i] # "sent" =>
                  calls[j] \in {"todo", "skipped"}
      BY <1>1, <2>2 DEF All, BatchInv
    <3>3. \A i \in DOMAIN run.calls : calls[i] = "sent" <=> run.calls[i] = "sent"
      OBVIOUS
    <3> HIDE DEF calls
    <3>4. {i \in DOMAIN calls : calls[i] = "sent"} = Sent /\ Len(calls) = Len(run.calls)
      BY <1>1, <2>1, <3>3, LenProperties DEF Sent
    <3>5. \E n \in 0..Len(calls) : {i \in DOMAIN calls : calls[i] = "sent"} = 1..n
      BY <3>4 DEF BatchInv
    <3>6. UNCHANGED <<responses, cut>>
      BY <1>5 DEF LaunchCalls
    <3> QED
      BY <2>1, <2>2, <2>3, <3>1, <3>2, <3>5, <3>6, WithinBatch
  <2>5. pendingCalls' = {Call(i) : i \in {j \in DOMAIN run.calls :
                                         run.calls[j] \in Unended}}'
    <3> DEFINE over == IF run.aborted THEN ready ELSE {}
    <3>1. pendingCalls' = (pendingCalls \cup {Call(i) : i \in {}}) \ {Call(i) : i \in over}
      BY <2>2
    <3>2. \A i \in DOMAIN run.calls :
            calls[i] \in Unended <=>
               run.calls[i] \in Unended /\ i \notin over
      BY <2>2 DEF All
    <3>3. over \subseteq DOMAIN run.calls /\ UNCHANGED responses
      BY <1>5 DEF LaunchCalls
    <3> HIDE DEF over, ready, calls
    <3>4. \A i \in DOMAIN run.calls :
            run'.calls[i] \in Unended <=>
               /\ run.calls[i] \in Unended \/ i \in {}
               /\ i \notin over
      BY <2>3, <3>2
    <3>5. DOMAIN run'.calls = DOMAIN run.calls /\ {} \subseteq DOMAIN run.calls
      BY <2>1, <2>3
    <3> QED
      BY <3>1, <3>3, <3>4, <3>5, PendingAfter
  <2> QED
    BY <1>5, <2>3, <2>4, <2>5 DEF LaunchCalls, TypeOK
<1>6. CASE EndBatch
  <2>1. PICK n \in 0..Len(run.calls) : Sent = 1..n
    BY DEF BatchInv
  <2>2. Results(n) \in Seq(Message)
    <3>1. \A i \in 1..n : ToolResult(responses, i) \in Message
      BY <1>1, <2>1, AgentAssumption DEF TypeOK, BatchInv, ToolResult, Message
    <3>2. Results(n) \in [1..n -> Message]
      BY <3>1 DEF Results
    <3> QED
      BY <1>1, <2>1, <3>2, FunctionIsSeq
  <2>3. run.context \o Results(n) \in Seq(Message) /\ <<>> \in Seq(Statuses)
    BY <2>2, ConcatProperties, EmptySeq DEF TypeOK, RunState
  <2>4. run' = [run EXCEPT !.pc = "turnEnd", !.calls = <<>>,
                     !.more = run.mode = "truncated" \/ ~run.terminate,
                     !.context = run.context \o Results(n)]
    BY <1>6, <2>1 DEF EndBatch, Sent, Results
  <2>5. run' \in RunState /\ run'.calls = <<>> /\ run'.pc # "batch"
    BY <2>3, <2>4 DEF TypeOK, RunState, Statuses
  <2>6. pendingCalls' = {}
    BY <1>6 DEF EndBatch, All, TypeOK
  <2> QED
    BY <1>6, <2>5, <2>6, NoBatchAfter DEF EndBatch, TypeOK
\* One call goes on: it is started in its turn, or leaves off where it was.
<1>7. ASSUME NEW i \in DOMAIN run.calls, NEW status \in {"started", "ready", "running", "done"},
             At("batch"),
             \/ IsNext(i) /\ status = "started"
             \/ run.calls[i] \in {"started", "running"} /\ status # "started",
             run' \in RunState, run'.pc = "batch", run'.mode = run.mode,
             run'.aborted = run.aborted, run'.calls = [run.calls EXCEPT ![i] = status],
             UNCHANGED <<responses, cut>>
      PROVE  /\ BatchInv' /\ DOMAIN run'.calls = DOMAIN run.calls
             /\ run'.calls[i] = status
             /\ \A j \in DOMAIN run.calls \ {i} : run'.calls[j] = run.calls[j]
  <2> DEFINE calls == [run.calls EXCEPT ![i] = status]
  <2>1. /\ calls \in Seq(Statuses) /\ DOMAIN calls = DOMAIN run.calls
        /\ calls[i] = status /\ \A j \in DOMAIN run.calls \ {i} : calls[j] = run.calls[j]
    <3>1. calls \in [DOMAIN run.calls -> Statuses]
      BY <1>1, <1>7 DEF Statuses
    <3> QED
      BY <1>3, <3>1
  <2>2. run.calls[i] \in {"todo", "started", "running"}
    BY <1>7 DEF IsNext, CallIs
  <2> HIDE DEF calls
  <2>3. \A j \in DOMAIN calls : calls[j] = "skipped" => run.calls[j] = "skipped" \/ run.aborted
    BY <1>7, <2>1
  <2>4. ASSUME NEW j \in DOMAIN calls, NEW k \in DOMAIN calls, j < k
        PROVE  /\ calls[j] \in {"todo", "started"} => calls[k] = "todo"
               /\ run.mode # "parallel" /\ calls[j] # "sent" => calls[k] \in {"todo", "skipped"}
    <3>1. /\ run.calls[j] \in {"todo", "started"} => run.calls[k] = "todo"
          /\ run.mode # "parallel" /\ run.calls[j] # "sent" =>
                run.calls[k] \in {"todo", "skipped"}
      BY <2>1, <2>4 DEF BatchInv
    <3>2. CASE j = i
      <4>1. k # i /\ calls[k] = run.calls[k]
        BY <1>1, <2>1, <2>4, <3>2
      <4>2. status = "started" => run.calls[i] = "todo"
        BY <1>7 DEF IsNext, CallIs
      <4> QED
        BY <1>7, <2>1, <2>2, <3>1, <3>2, <4>1, <4>2
    <3>3. CASE k = i
      <4>1. j # i /\ calls[j] = run.calls[j] /\ j \in 1..(i - 1)
        BY <1>1, <2>1, <2>4, <3>3
      <4>2. run.calls[i] # "todo" =>
              /\ run.calls[j] \notin {"todo", "started"}
              /\ run.mode = "parallel" \/ run.calls[j] = "sent"
        BY <2>2, <3>1, <3>3
      <4>3. run.calls[i] = "todo" =>
              /\ run.calls[j] \notin {"todo", "started"}
              /\ run.mode = "parallel" \/ run.calls[j] = "sent"
        BY <1>7, <4>1 DEF IsNext
      <4> QED
        BY <4>1, <4>2, <4>3
    <3>4. CASE j # i /\ k # i
      BY <2>1, <3>1, <3>4
    <3> QED
      BY <3>2, <3>3, <3>4
  <2>5. \E n \in 0..Len(calls) : {j \in DOMAIN calls : calls[j] = "sent"} = 1..n
    <3>1. {j \in DOMAIN calls : calls[j] = "sent"} = Sent
      BY <1>7, <2>1, <2>2 DEF Sent
    <3>2. Len(calls) = Len(run.calls)
      BY <1>1, <2>1, LenProperties
    <3> QED
      BY <3>1, <3>2 DEF BatchInv
  <2>6. BatchInv'
    <3>1. run'.calls = calls
      BY <1>7 DEF calls
    <3> QED
      BY <1>7, <2>1, <2>3, <2>4, <2>5, <3>1, WithinBatch
  <2> QED
    BY <1>7, <2>1, <2>6 DEF calls
<1>8. ASSUME NEW i \in 1..MaxCalls, RefuseCall(i) \/ FinishCall(i) PROVE TypeOK' /\ BatchInv'
  <2>1. PICK terminate \in BOOLEAN :
          run' = [run EXCEPT !.calls = [run.calls EXCEPT ![i] = "done"],
                             !.terminate = run.terminate /\ terminate]
    BY <1>8 DEF RefuseCall, FinishCall, TypeOK, RunState
  <2>2. /\ i \in DOMAIN run.calls /\ run.calls[i] \in {"started", "running"}
        /\ At("batch") /\ UNCHANGED <<responses, cut>>
        /\ pendingCalls' = pendingCalls \ {Call(i)}
    BY <1>8 DEF RefuseCall, FinishCall, CallIs
  <2>3. [run.calls EXCEPT ![i] = "done"] \in Seq(Statuses)
    <3>1. [run.calls EXCEPT ![i] = "done"] \in [DOMAIN run.calls -> Statuses]
      BY <1>1, <2>2 DEF Statuses
    <3> QED
      BY <1>3, <3>1
  <2>4. /\ run' \in RunState /\ run'.pc = "batch" /\ run'.mode = run.mode
        /\ run'.aborted = run.aborted
        /\ run'.calls = [run.calls EXCEPT ![i] = "done"]
    BY <2>1, <2>2, <2>3 DEF TypeOK, RunState, Statuses
  <2>5. /\ BatchInv' /\ DOMAIN run'.calls = DOMAIN run.calls
        /\ run'.calls[i] = "done"
        /\ \A j \in DOMAIN run.calls \ {i} : run'.calls[j] = run.calls[j]
    BY <1>7, <2>2, <2>4
  <2>6. pendingCalls' = {Call(j) : j \in {j \in DOMAIN run.calls :
                                         run.calls[j] \in Unended}}'
    <3> DEFINE begun == {}
               over == {i}
    <3>1. pendingCalls' = (pendingCalls \cup {Call(j) : j \in begun}) \ {Call(j) : j \in over}
      BY <2>2
    <3>2. \A j \in DOMAIN run.calls : run'.calls[j] \in Unended
             <=> (run.calls[j] \in Unended \/ j \in begun) /\ j \notin over
      BY <2>2, <2>5
    <3>3. begun \subseteq DOMAIN run.calls /\ over \subseteq DOMAIN run.calls
      BY <2>2
    <3> HIDE DEF begun, over
    <3> QED
      BY <2>2, <2>5, <3>1, <3>2, <3>3, PendingAfter
  <2> QED
    BY <1>8, <2>4, <2>5, <2>6 DEF RefuseCall, FinishCall, TypeOK
<1>9. ASSUME NEW i \in 1..MaxCalls, PrepareCall(i) PROVE TypeOK' /\ BatchInv'
  <2> DEFINE status == IF run.mode = "parallel" THEN "ready" ELSE "running"
  <2>1. /\ i \in DOMAIN run.calls /\ run.calls[i] = "started"
        /\ At("batch") /\ UNCHANGED <<responses, cut, pendingCalls>>
        /\ run' = [run EXCEPT !.calls = [run.calls EXCEPT ![i] = status]]
    BY <1>9 DEF PrepareCall, CallIs, TypeOK, RunState
  <2>2. status \in {"ready", "running"}
    OBVIOUS
  <2> HIDE DEF status
  <2>3. [run.calls EXCEPT ![i] = status] \in Seq(Statuses)
    <3>1. [run.calls EXCEPT ![i] = status] \in [DOMAIN run.calls -> Statuses]
      BY <1>1, <2>1, <2>2 DEF Statuses
    <3> QED
      BY <1>3, <3>1
  <2>4. /\ run' \in RunState /\ run'.pc = "batch" /\ run'.mode = run.mode
        /\ run'.aborted = run.aborted
        /\ run'.calls = [run.calls EXCEPT ![i] = status]
    BY <2>1, <2>3 DEF TypeOK, RunState, Statuses
  <2>5. /\ BatchInv' /\ DOMAIN run'.calls = DOMAIN run.calls
        /\ run'.calls[i] = status
        /\ \A j \in DOMAIN run.calls \ {i} : run'.calls[j] = run.calls[j]
    BY <1>7, <2>1, <2>2, <2>4
  <2>6. pendingCalls' = {Call(j) : j \in {j \in DOMAIN run.calls :
                                         run.calls[j] \in Unended}}'
    <3>1. \A j \in DOMAIN run.calls : run'.calls[j] \in Unended <=> run.calls[j] \in Unended
      BY <2>1, <2>2, <2>5
    <3> QED
      BY <2>1, <2>5, <3>1, PendingAsBefore
  <2> QED
    BY <1>9, <2>4, <2>5, <2>6 DEF PrepareCall, TypeOK
<1>10. ASSUME NEW i \in 1..MaxCalls, StartCall(i) PROVE TypeOK' /\ BatchInv'
  <2>1. /\ i \in DOMAIN run.calls /\ run.calls[i] = "todo" /\ IsNext(i)
        /\ At("batch") /\ UNCHANGED <<responses, cut>>
        /\ pendingCalls' = pendingCalls \cup {Call(i)}
        /\ run' = [run EXCEPT !.calls = [run.calls EXCEPT ![i] = "started"]]
    BY <1>10 DEF StartCall, IsNext, CallIs, TypeOK, RunState
  <2>2. [run.calls EXCEPT ![i] = "started"] \in Seq(Statuses)
    <3>1. [run.calls EXCEPT ![i] = "started"] \in [DOMAIN run.calls -> Statuses]
      BY <1>1, <2>1 DEF Statuses
    <3> QED
      BY <1>3, <3>1
  <2>3. /\ run' \in RunState /\ run'.pc = "batch" /\ run'.mode = run.mode
        /\ run'.aborted = run.aborted
        /\ run'.calls = [run.calls EXCEPT ![i] = "started"]
    BY <2>1, <2>2 DEF TypeOK, RunState, Statuses
  <2>4. /\ BatchInv' /\ DOMAIN run'.calls = DOMAIN run.calls
        /\ run'.calls[i] = "started"
        /\ \A j \in DOMAIN run.calls \ {i} : run'.calls[j] = run.calls[j]
    BY <1>7, <2>1, <2>3
  <2>5. pendingCalls' = {Call(j) : j \in {j \in DOMAIN run.calls :
                                         run.calls[j] \in Unended}}'
    <3> DEFINE begun == {i}
               over == {}
    <3>1. pendingCalls' = (pendingCalls \cup {Call(j) : j \in begun}) \ {Call(j) : j \in over}
      BY <2>1
    <3>2. \A j \in DOMAIN run.calls : run'.calls[j] \in Unended
             <=> (run.calls[j] \in Unended \/ j \in begun) /\ j \notin over
      BY <2>1, <2>4
    <3>3. begun \subseteq DOMAIN run.calls /\ over \subseteq DOMAIN run.calls
      BY <2>1
    <3> HIDE DEF begun, over
    <3> QED
      BY <2>1, <2>4, <3>1, <3>2, <3>3, PendingAfter
  <2> QED
    BY <1>10, <2>3, <2>4, <2>5 DEF StartCall, TypeOK
<1>11. ASSUME NEW i \in 1..MaxCalls, SkipCalls(i) PROVE TypeOK' /\ BatchInv'
  <2> DEFINE calls == [j \in DOMAIN run.calls |-> IF j >= i THEN "skipped" ELSE run.calls[j]]
  <2>1. /\ i \in DOMAIN run.calls /\ run.calls[i] = "todo" /\ IsNext(i) /\ run.aborted
        /\ At("batch") /\ UNCHANGED <<responses, cut, pendingCalls>>
        /\ run' = [run EXCEPT !.calls = calls]
    BY <1>11 DEF SkipCalls, GivesUp, IsNext, CallIs
  <2>2. \A j \in DOMAIN run.calls :
          IF j < i THEN run.calls[j] \notin {"todo", "started"}
                        /\ (run.mode # "parallel" => run.calls[j] = "sent")
          ELSE run.calls[j] = "todo"
    BY <1>1, <2>1 DEF IsNext, BatchInv
  <2>3. calls \in Seq(Statuses) /\ DOMAIN calls = DOMAIN run.calls
    <3>1. calls \in [DOMAIN run.calls -> Statuses]
      BY <1>1 DEF Statuses
    <3> QED
      BY <1>3, <3>1
  <2>4. \A j \in DOMAIN run.calls : calls[j] = IF j >= i THEN "skipped" ELSE run.calls[j]
    OBVIOUS
  <2>5. /\ run' \in RunState /\ run'.pc = "batch" /\ run'.mode = run.mode
        /\ run'.aborted = run.aborted /\ run'.calls = calls
    BY <2>1, <2>3 DEF TypeOK, RunState, Statuses
  <2> HIDE DEF calls
  <2>6. \A j, k \in DOMAIN calls : j < k =>
            /\ calls[j] \in {"todo", "started"} => calls[k] = "todo"
            /\ run.mode # "parallel" /\ calls[j] # "sent" =>
                  calls[k] \in {"todo", "skipped"}
    BY <1>1, <2>1, <2>2, <2>3, <2>4
  <2>7. \E n \in 0..Len(calls) : {j \in DOMAIN calls : calls[j] = "sent"} = 1..n
    <3>1. \A j \in DOMAIN run.calls : calls[j] = "sent" <=> run.calls[j] = "sent"
      BY <1>1, <2>1, <2>2, <2>4
    <3>2. {j \in DOMAIN calls : calls[j] = "sent"} = Sent
      BY <2>3, <3>1 DEF Sent
    <3>3. Len(calls) = Len(run.calls)
      BY <1>1, <2>3, LenProperties
    <3> QED
      BY <3>2, <3>3 DEF BatchInv
  <2>8. BatchInv'
    BY <2>1, <2>3, <2>5, <2>6, <2>7, WithinBatch
  <2>9. pendingCalls' = {Call(j) : j \in {j \in DOMAIN run.calls :
                                         run.calls[j] \in Unended}}'
    <3>1. \A j \in DOMAIN run.calls : run'.calls[j] \in Unended <=> run.calls[j] \in Unended
      BY <1>1, <2>1, <2>2, <2>4, <2>5
    <3> QED
      BY <2>1, <2>3, <2>5, <3>1, PendingAsBefore
  <2> QED
    BY <1>11, <2>5, <2>8, <2>9 DEF SkipCalls, TypeOK
<1>12. ASSUME NEW i \in 1..MaxCalls, SendResult(i) PROVE TypeOK' /\ BatchInv'
  <2> DEFINE calls == [run.calls EXCEPT ![i] = "sent"]
  <2>1. /\ run' = [run EXCEPT !.calls = calls]
        /\ i \in DOMAIN run.calls /\ run.calls[i] = "done"
        /\ \A j \in 1..(i - 1) : run.calls[j] = "sent"
        /\ run.mode = "parallel" => All({"done", "sent", "skipped"})
        /\ At("batch") /\ UNCHANGED <<responses, cut, pendingCalls>>
        /\ transcript' = Append(transcript, ToolResult(responses, i))
    BY <1>12 DEF SendResult, CallIs, Emit, TypeOK, RunState
  <2>2. PICK n \in 0..Len(run.calls) : Sent = 1..n
    BY DEF BatchInv
  <2>3. i = n + 1
    <3>1. i \notin 1..n /\ \A j \in 1..(i - 1) : j \in 1..n
      BY <1>1, <2>1, <2>2 DEF Sent
    <3>2. i > 1 => i - 1 \in 1..n
      BY <1>1, <2>1, <3>1
    <3> QED
      BY <1>1, <2>1, <3>1, <3>2
  <2>4. /\ calls \in Seq(Statuses) /\ DOMAIN calls = DOMAIN run.calls
        /\ calls[i] = "sent"
        /\ \A j \in DOMAIN run.calls \ {i} : calls[j] = run.calls[j]
    <3>1. calls \in [DOMAIN run.calls -> Statuses]
      BY <1>1, <2>1 DEF Statuses
    <3> QED
      BY <1>3, <2>1, <3>1
  <2> HIDE DEF calls
  <2>5. \A j \in DOMAIN run.calls : j > i /\ run.mode # "parallel" =>
          run.calls[j] \in {"todo", "skipped"}
    BY <1>1, <2>1 DEF BatchInv
  <2>6. \A j \in DOMAIN run.calls : run.calls[j] \in {"todo", "started"} => run.mode # "parallel"
    BY <2>1 DEF All
  <2>7. \A j, k \in DOMAIN calls : j < k =>
            /\ calls[j] \in {"todo", "started"} => calls[k] = "todo"
            /\ run.mode # "parallel" /\ calls[j] # "sent" =>
                  calls[k] \in {"todo", "skipped"}
    <3>1. ASSUME NEW j \in DOMAIN calls, NEW k \in DOMAIN calls, j < k
          PROVE  /\ calls[j] \in {"todo", "started"} => calls[k] = "todo"
                 /\ run.mode # "parallel" /\ calls[j] # "sent" =>
                       calls[k] \in {"todo", "skipped"}
      <4>1. /\ run.calls[j] \in {"todo", "started"} => run.calls[k] = "todo"
            /\ run.mode # "parallel" /\ run.calls[j] # "sent" =>
                  run.calls[k] \in {"todo", "skipped"}
        BY <2>4, <3>1 DEF BatchInv
      <4>2. j < i => run.calls[j] = "sent"
        BY <1>1, <2>1, <2>4, <3>1
      <4>3. CASE j < i
        <5>1. calls[j] = "sent"
          BY <1>1, <2>4, <4>2, <4>3
        <5> QED
          BY <5>1
      <4>4. CASE j = i
        BY <2>4, <4>4
      <4>5. CASE j > i
        <5>1. k # i /\ k > i /\ j # i
          BY <1>1, <2>1, <2>4, <3>1, <4>5
        <5>2. calls[j] = run.calls[j] /\ calls[k] = run.calls[k]
          BY <2>4, <3>1, <5>1
        <5> QED
          BY <4>1, <5>2
      <4>6. i \in Nat /\ j \in Nat
        BY <1>1, <2>1, <2>4, <3>1
      <4> QED
        BY <4>3, <4>4, <4>5, <4>6
    <3> QED
      BY <3>1
  <2>8. \A j \in DOMAIN calls : calls[j] = "skipped" => run.calls[j] = "skipped" \/ run.aborted
    BY <2>1, <2>4
  <2>9. \E k \in 0..Len(calls) : {j \in DOMAIN calls : calls[j] = "sent"} = 1..k
    <3>1. \A j \in DOMAIN run.calls : calls[j] = "sent" <=> j \in 1..n \/ j = i
      <4>1. \A j \in DOMAIN run.calls : run.calls[j] = "sent" <=> j \in 1..n
        BY <2>2 DEF Sent
      <4> QED
        BY <1>1, <2>3, <2>4, <4>1
    <3>2. Len(calls) = Len(run.calls)
      BY <1>1, <2>4, LenProperties
    <3>3. {j \in DOMAIN calls : calls[j] = "sent"} = 1..(n + 1)
      <4>1. \A j : j \in 1..(n + 1) <=> j \in 1..n \/ j = i
        BY <2>3
      <4>2. \A j \in 1..(n + 1) : j \in DOMAIN run.calls
        BY <1>1, <2>1, <2>3
      <4> QED
        BY <2>4, <3>1, <4>1, <4>2
    <3>4. n + 1 \in 0..Len(calls)
      BY <1>1, <2>1, <2>3, <3>2
    <3> QED
      BY <3>3, <3>4
  <2>10. /\ run' \in RunState /\ run'.pc = "batch" /\ run'.mode = run.mode
         /\ run'.aborted = run.aborted /\ run'.calls = calls
    BY <2>1, <2>4 DEF TypeOK, RunState, Statuses
  <2>11. BatchInv'
    BY <2>1, <2>4, <2>7, <2>8, <2>9, <2>10, WithinBatch
  <2>12. pendingCalls' = {Call(j) : j \in {j \in DOMAIN run.calls :
                                         run.calls[j] \in Unended}}'
    <3>1. \A j \in DOMAIN run.calls : run'.calls[j] \in Unended
                                 <=> run.calls[j] \in Unended
      BY SMTT(30), <2>1, <2>4, <2>5, <2>10
    <3> QED
      BY <2>1, <2>4, <2>10, <3>1, PendingAsBefore
  <2>13. ToolResult(responses, i) \in Message
    BY DEF ToolResult, Message, TypeOK
  <2> QED
    BY <1>2, <1>12, <2>1, <2>10, <2>11, <2>12, <2>13 DEF SendResult, TypeOK
<1> QED
  BY <1>4, <1>5, <1>6, <1>8, <1>9, <1>10, <1>11, <1>12

LEMMA InitType == Init => TypeOK /\ BatchInv
<1> SUFFICES ASSUME Init PROVE TypeOK /\ BatchInv
  OBVIOUS
<1>1. /\ <<>> \in Seq(Text) /\ <<>> \in Seq(Message) /\ <<>> \in Seq(Statuses)
      /\ <<>> \in Seq(Ways) /\ DOMAIN <<>> = {} /\ Len(<<>>) = 0
  BY EmptySeq
<1>2. run \in RunState /\ run.calls = <<>> /\ run.pc = "idle"
  BY <1>1 DEF Init, NoRun, RunState, Statuses
<1>3. Sent = 1..0 /\ \A i \in DOMAIN run.calls : FALSE
  BY <1>1, <1>2 DEF Sent
<1>4. TypeOK
  BY <1>1, <1>2, <1>3 DEF Init, TypeOK, Call
<1>5. BatchInv
  BY <1>1, <1>2, <1>3, AgentAssumption DEF BatchInv, At
<1> QED
  BY <1>4, <1>5

\* The calls of every response of the model are worked on in order, and the loop
\* counts as pending exactly the calls that were prepared and have not ended.
THEOREM TypeCorrect == Spec => [](TypeOK /\ BatchInv)
<1>1. TypeOK /\ BatchInv /\ [Next]_agentVars => (TypeOK /\ BatchInv)'
  <2>1. ASSUME TypeOK, BatchInv, UNCHANGED agentVars PROVE TypeOK' /\ BatchInv'
    <3>1. At("batch") /\ run'.aborted => responses \in cut'
      BY <2>1 DEF agentVars, BatchInv
    <3> QED
      BY <2>1, <3>1, SameBatch DEF agentVars, TypeOK
  <2>2. ASSUME TypeOK, BatchInv, Next PROVE TypeOK' /\ BatchInv'
    BY <2>2, CallerType, TurnType, BatchType DEF Next, LoopNext, LoopStep
  <2> QED
    BY <2>1, <2>2
<1> QED
  BY InitType, <1>1, PTL DEF Spec

(***************************************************************************)
(* The steps of a batch, as far as results and messages are concerned.     *)
(***************************************************************************)
\* A step of a call other than sending its result.
CallStep ==
    \/ LaunchCalls
    \/ \E i \in 1..MaxCalls :
         StartCall(i) \/ SkipCalls(i) \/ RefuseCall(i) \/ PrepareCall(i) \/ FinishCall(i)

LEMMA CallStepSends ==
    ASSUME TypeOK, BatchInv, CallStep
    PROVE  /\ At("batch") /\ Sent' = Sent /\ Len(run'.calls) = Len(run.calls)
           /\ run'.pc = run.pc /\ run'.context = run.context
           /\ run'.aborted = run.aborted
           /\ UNCHANGED <<transcript, queues, responses, history>>
<1>1. TypeOK' /\ At("batch") /\ UNCHANGED <<transcript, queues, responses, history>>
  BY BatchType DEF CallStep, LaunchCalls, StartCall, SkipCalls, RefuseCall, PrepareCall,
     FinishCall, IsNext, CallIs
<1>2. /\ run.calls \in Seq(Statuses) /\ run'.calls \in Seq(Statuses)
      /\ DOMAIN run.calls = 1..Len(run.calls) /\ Len(run.calls) \in Nat
      /\ DOMAIN run'.calls = 1..Len(run'.calls) /\ Len(run'.calls) \in Nat
  <2>1. run.calls \in Seq(Statuses) /\ run'.calls \in Seq(Statuses)
    BY <1>1 DEF TypeOK, RunState, Statuses
  <2> QED
    BY <2>1, LenProperties
<1> DEFINE Kept ==
      /\ DOMAIN run'.calls = DOMAIN run.calls
      /\ \A j \in DOMAIN run.calls : run'.calls[j] = "sent" <=> run.calls[j] = "sent"
      /\ run'.pc = run.pc /\ run'.context = run.context
      /\ run'.aborted = run.aborted
<1>3. Kept
  <2>1. CASE LaunchCalls
    BY <2>1 DEF LaunchCalls, TypeOK, RunState
  <2>2. ASSUME NEW i \in 1..MaxCalls, StartCall(i) \/ PrepareCall(i) PROVE Kept
    <3>1. PICK status \in {"started", "ready", "running"} :
            run' = [run EXCEPT !.calls[i] = status]
      BY <2>2 DEF StartCall, PrepareCall
    <3>2. run.calls[i] \in {"todo", "started"}
      BY <2>2 DEF StartCall, PrepareCall, IsNext, CallIs
    <3> QED
      BY <1>2, <3>1, <3>2 DEF TypeOK, RunState
  <2>3. ASSUME NEW i \in 1..MaxCalls, RefuseCall(i) \/ FinishCall(i) PROVE Kept
    <3>1. PICK terminate \in BOOLEAN :
            run' = [run EXCEPT !.calls[i] = "done", !.terminate = @ /\ terminate]
      BY <2>3 DEF RefuseCall, FinishCall
    <3>2. run.calls[i] \in {"started", "running"}
      BY <2>3 DEF RefuseCall, FinishCall, CallIs
    <3> QED
      BY <1>2, <3>1, <3>2 DEF TypeOK, RunState
  <2>4. ASSUME NEW i \in 1..MaxCalls, SkipCalls(i) PROVE Kept
    <3>1. /\ i \in DOMAIN run.calls /\ run.calls[i] = "todo"
          /\ run' = [run EXCEPT !.calls =
                       [j \in DOMAIN run.calls |-> IF j >= i THEN "skipped" ELSE run.calls[j]]]
      BY <2>4 DEF SkipCalls, IsNext, CallIs
    <3>2. \A j \in DOMAIN run.calls : j >= i => run.calls[j] = "todo"
      BY <1>2, <3>1 DEF BatchInv
    <3> QED
      BY <3>1, <3>2 DEF TypeOK, RunState
  <2> QED
    BY <2>1, <2>2, <2>3, <2>4 DEF CallStep
<1>4. Sent' = Sent
  BY <1>3 DEF Sent
<1>5. Len(run'.calls) = Len(run.calls)
  BY <1>2, <1>3
<1> QED
  BY <1>1, <1>3, <1>4, <1>5

\* Sending a result: the next one in the order of the calls.
LEMMA SendResultSends ==
    ASSUME TypeOK, BatchInv, NEW i \in 1..MaxCalls, SendResult(i)
    PROVE  /\ At("batch") /\ i \in 1..Len(run.calls) /\ Len(run'.calls) = Len(run.calls)
           /\ Sent = 1..(i - 1) /\ Sent' = 1..i
           /\ run'.pc = run.pc /\ run'.context = run.context
           /\ run'.aborted = run.aborted
           /\ transcript' = Append(transcript, ToolResult(responses, i))
           /\ UNCHANGED <<queues, responses, history>>
<1>1. /\ TypeOK' /\ At("batch") /\ UNCHANGED <<queues, responses, history>>
      /\ transcript' = Append(transcript, ToolResult(responses, i))
      /\ i \in DOMAIN run.calls /\ run.calls[i] = "done"
      /\ \A j \in 1..(i - 1) : run.calls[j] = "sent"
  BY BatchType DEF SendResult, CallIs, Emit
<1>2. /\ run.calls \in Seq(Statuses) /\ run'.calls \in Seq(Statuses)
      /\ DOMAIN run.calls = 1..Len(run.calls) /\ Len(run.calls) \in Nat
      /\ DOMAIN run'.calls = 1..Len(run'.calls) /\ Len(run'.calls) \in Nat
  <2>1. run.calls \in Seq(Statuses) /\ run'.calls \in Seq(Statuses)
    BY <1>1 DEF TypeOK, RunState, Statuses
  <2> QED
    BY <2>1, LenProperties
<1>3. PICK n \in 0..Len(run.calls) : Sent = 1..n
  BY DEF BatchInv
<1>4. i = n + 1
  <2>1. i \notin 1..n /\ \A j \in 1..(i - 1) : j \in 1..n
    <3>1. \A j \in 1..Len(run.calls) : run.calls[j] = "sent" <=> j \in 1..n
      BY <1>2, <1>3 DEF Sent
    <3>2. i \in 1..Len(run.calls) /\ run.calls[i] # "sent"
      BY <1>1, <1>2
    <3>3. \A j \in 1..(i - 1) : j \in 1..Len(run.calls) /\ run.calls[j] = "sent"
      BY <1>1, <1>2
    <3> QED
      BY <3>1, <3>2, <3>3
  <2>2. i > 1 => i - 1 \in 1..n
    BY SMTT(30), <1>1, <1>2, <2>1
  <2> QED
    BY <1>1, <1>2, <2>1, <2>2
<1>5. /\ DOMAIN run'.calls = DOMAIN run.calls /\ run'.calls[i] = "sent"
      /\ \A j \in DOMAIN run.calls \ {i} :
           run'.calls[j] = "sent" <=> run.calls[j] = "sent"
      /\ run'.pc = run.pc /\ run'.context = run.context
      /\ run'.aborted = run.aborted
  <2>1. \A j \in DOMAIN run.calls : run.calls[j] = "sent" <=> j \in 1..n
    BY <1>3 DEF Sent
  <2>2. \A j \in DOMAIN run.calls : j > i => run.calls[j] # "sent"
    BY <1>2, <1>4, <2>1
  <2> DEFINE sent == [run.calls EXCEPT ![i] = "sent"]
  <2>3. /\ run'.pc = run.pc /\ run'.context = run.context
        /\ run'.aborted = run.aborted /\ run'.calls = sent
    BY DEF SendResult, TypeOK, RunState
  <2>4. /\ DOMAIN sent = DOMAIN run.calls /\ sent[i] = "sent"
        /\ \A j \in DOMAIN run.calls \ {i} : sent[j] = run.calls[j]
    BY <1>1
  <2> HIDE DEF sent
  <2> QED
    BY <2>3, <2>4
<1>6. Sent' = 1..i
  <2>1. \A j \in DOMAIN run.calls : run.calls[j] = "sent" <=> j \in 1..n
    BY <1>3 DEF Sent
  <2>2. \A j \in DOMAIN run.calls : run'.calls[j] = "sent" <=> j \in 1..i
    BY <1>2, <1>4, <1>5, <2>1
  <2>3. 1..i \subseteq DOMAIN run.calls
    BY <1>1, <1>2
  <2> QED
    BY <1>5, <2>2, <2>3 DEF Sent
<1>7. Sent = 1..(i - 1) /\ Len(run'.calls) = Len(run.calls)
  BY <1>2, <1>3, <1>4, <1>5
<1> QED
  BY <1>1, <1>2, <1>5, <1>6, <1>7

\* After an abort no tool starts: in every mode, whatever was prepared before
\* (agent-loop.ts:520-529, 636-661).
THEOREM AbortedRunsStartNoTool == Spec => AbortStartsNoTool
<1>1. ASSUME TypeOK, BatchInv, [Next]_agentVars
      PROVE  \A i \in DOMAIN run.calls \cap DOMAIN run'.calls :
               run.calls[i] # "running" /\ run'.calls[i] = "running" => ~run.aborted
  <2> SUFFICES ASSUME NEW i \in DOMAIN run.calls, i \in DOMAIN run'.calls,
                      run.calls[i] # "running", run'.calls[i] = "running"
               PROVE  ~run.aborted
    OBVIOUS
  <2>1. At("batch")
    BY <1>1 DEF BatchInv
  <2>2. run.calls \in [1..Len(run.calls) -> Statuses] /\ DOMAIN run.calls = 1..Len(run.calls)
        /\ Len(run.calls) \in Nat
    <3>1. run.calls \in Seq(Statuses)
      BY <1>1 DEF TypeOK, RunState, Statuses
    <3> QED
      BY <3>1, LenProperties
  <2>3. run'.calls # run.calls
    OBVIOUS
  <2>4. CASE LaunchCalls
    BY <1>1, <2>4 DEF LaunchCalls, TypeOK, RunState
  <2>5. ASSUME NEW k \in 1..MaxCalls, PrepareCall(k) PROVE ~run.aborted
    BY <2>5 DEF PrepareCall
  <2>6. ASSUME NEW k \in 1..MaxCalls, SkipCalls(k) PROVE FALSE
    BY <1>1, <2>2, <2>6 DEF SkipCalls, TypeOK, RunState
  <2>7. ASSUME NEW k \in 1..MaxCalls,
               StartCall(k) \/ RefuseCall(k) \/ FinishCall(k) \/ SendResult(k)
        PROVE  FALSE
    <3>1. PICK status \in {"started", "done", "sent"} :
            run'.calls = [run.calls EXCEPT ![k] = status]
      BY <1>1, <2>7 DEF StartCall, RefuseCall, FinishCall, SendResult, TypeOK, RunState
    <3> QED
      BY <2>2, <3>1
  <2>8. CASE EndBatch
    BY <1>1, <2>8, EmptySeq DEF EndBatch, TypeOK, RunState
  <2>9. CASE Abort
    BY <1>1, <2>3, <2>9 DEF Abort, TypeOK, RunState
  <2>10. CASE Steer \/ FollowUp \/ ClearQueues \/ UNCHANGED agentVars
    BY <2>3, <2>10 DEF Steer, FollowUp, ClearQueues, agentVars
  <2>11. ~(\/ Prompt \/ Continue \/ Reset \/ Throw
           \/ EmitPrompt \/ InitialPoll \/ InjectPending \/ CallModel
           \/ PollSteering \/ PollFollowUps \/ RepollSteering
           \/ Respond \/ RespondFailed \/ RespondWithCalls
           \/ PrepareNextTurn(run.context) \/ EndTurn(<<>>, TRUE) \/ FinishRun)
    BY <2>1 DEF At, Active, Prompt, Continue, Reset, Throw, EmitPrompt, InitialPoll,
       InjectPending, CallModel, PollSteering, PollFollowUps, RepollSteering, Respond,
       RespondFailed, RespondWithCalls, PrepareNextTurn, EndTurn, FinishRun
  <2> QED
    BY <1>1, <2>4, <2>5, <2>6, <2>7, <2>8, <2>9, <2>10, <2>11
       DEF Next, CallerNext, LoopNext, LoopStep
<1> QED
  BY <1>1, TypeCorrect, PTL DEF Spec, AbortStartsNoTool

(***************************************************************************)
(* The context of the loop and the transcript of the agent.                *)
(***************************************************************************)
\* Moving the first prompt from the prompts to the transcript.
LEMMA MovePrompt ==
    ASSUME NEW s \in Seq(Message), NEW texts \in Seq(Text), texts # <<>>
    PROVE  Append(s, User(Head(texts))) \o Users(Tail(texts)) = s \o Users(texts)
<1> DEFINE m == User(Head(texts))
           rest == Users(Tail(texts))
<1>1. /\ Head(texts) \in Text /\ Tail(texts) \in Seq(Text) /\ Head(texts) = texts[1]
      /\ Len(Tail(texts)) = Len(texts) - 1 /\ Len(texts) \in Nat \ {0}
      /\ \A i \in 1..Len(Tail(texts)) : Tail(texts)[i] = texts[i + 1]
  BY HeadTailProperties, EmptySeq, LenProperties
<1>2. m \in Message /\ <<m>> \in Seq(Message)
  BY <1>1 DEF User, Message
<1>3. /\ Users(texts) \in Seq(Message) /\ Len(Users(texts)) = Len(texts)
      /\ \A i \in 1..Len(texts) : Users(texts)[i] = User(texts[i])
  BY UsersProperties
<1>4. /\ rest \in Seq(Message) /\ Len(rest) = Len(Tail(texts))
      /\ \A i \in 1..Len(Tail(texts)) : rest[i] = User(Tail(texts)[i])
  BY <1>1, UsersProperties
<1> HIDE DEF rest
<1>5. /\ <<m>> \o rest \in Seq(Message) /\ Len(<<m>> \o rest) = Len(texts)
      /\ \A i \in 1..Len(texts) :
           (<<m>> \o rest)[i] = IF i <= 1 THEN m ELSE rest[i - 1]
  <2>1. Len(<<m>>) = 1 /\ <<m>>[1] = m
    OBVIOUS
  <2>2. /\ <<m>> \o rest \in Seq(Message) /\ Len(<<m>> \o rest) = 1 + Len(rest)
        /\ \A i \in 1..(1 + Len(rest)) :
             (<<m>> \o rest)[i] = IF i <= 1 THEN <<m>>[i] ELSE rest[i - 1]
    BY <1>2, <1>4, <2>1, ConcatProperties
  <2>3. 1 + Len(rest) = Len(texts)
    BY <1>1, <1>4
  <2> QED
    BY <2>1, <2>2, <2>3
<1>6. ASSUME NEW i \in 1..Len(texts) PROVE (<<m>> \o rest)[i] = Users(texts)[i]
  <2>1. CASE i = 1
    BY <1>1, <1>3, <1>5, <2>1
  <2>2. CASE i # 1
    <3> DEFINE j == i - 1
    <3>1. j \in 1..Len(Tail(texts)) /\ j + 1 = i /\ ~(i <= 1)
      BY <1>1, <2>2
    <3>2. (<<m>> \o rest)[i] = rest[j]
      BY <1>5, <3>1
    <3> HIDE DEF j
    <3>3. rest[j] = User(texts[j + 1])
      BY <1>1, <1>4, <3>1
    <3> QED
      BY <1>3, <3>1, <3>2, <3>3
  <2> QED
    BY <2>1, <2>2
<1>7. <<m>> \o rest = Users(texts)
  BY <1>3, <1>5, <1>6, SeqEqual
<1> HIDE DEF m
<1>8. Append(s, m) \o rest = s \o (<<m>> \o rest)
  BY <1>2, <1>4, AppendIsConcat, ConcatAssociative
<1> QED
  BY <1>7, <1>8 DEF m, rest

\* The results of a batch grow one by one.
LEMMA GrowResults ==
    ASSUME TypeOK, NEW n \in Nat, n + 1 <= MaxCalls
    PROVE  /\ Results(n) \in Seq(Message) /\ Len(Results(n)) = n
           /\ \A i \in 1..n : Results(n)[i] = ToolResult(responses, i)
           /\ Results(n + 1) = Append(Results(n), ToolResult(responses, n + 1))
           /\ run.context \o Results(n + 1)
                = Append(run.context \o Results(n), ToolResult(responses, n + 1))
<1>1. \A i \in 1..(n + 1) : ToolResult(responses, i) \in Message
  BY AgentAssumption DEF ToolResult, Message, TypeOK
<1>2. /\ Results(n) \in Seq(Message) /\ Len(Results(n)) = n
      /\ Results(n + 1) \in Seq(Message) /\ Len(Results(n + 1)) = n + 1
  <2>1. Results(n) \in [1..n -> Message] /\ Results(n + 1) \in [1..(n + 1) -> Message]
    BY <1>1 DEF Results
  <2> QED
    BY <2>1, FunctionIsSeq
<1> DEFINE m == ToolResult(responses, n + 1)
<1>3. \A i \in 1..n : Results(n)[i] = ToolResult(responses, i)
  BY DEF Results
<1>4. \A i \in 1..(n + 1) : Results(n + 1)[i] = ToolResult(responses, i)
  BY DEF Results
<1>5. m \in Message
  BY <1>1
<1> HIDE DEF m
<1>6. Results(n + 1) = Append(Results(n), m)
  <2>1. /\ Append(Results(n), m) \in Seq(Message) /\ Len(Append(Results(n), m)) = n + 1
        /\ \A i \in 1..n : Append(Results(n), m)[i] = Results(n)[i]
        /\ Append(Results(n), m)[n + 1] = m
    BY <1>2, <1>5, AppendProperties
  <2>2. \A i \in 1..(n + 1) : Append(Results(n), m)[i] = Results(n + 1)[i]
    BY <1>3, <1>4, <2>1 DEF m
  <2> QED
    BY <1>2, <2>1, <2>2, SeqEqual
<1>7. run.context \o Results(n + 1) = Append(run.context \o Results(n), m)
  <2>1. run.context \in Seq(Message) /\ <<m>> \in Seq(Message)
    BY <1>5 DEF TypeOK, RunState
  <2>2. run.context \o Results(n) \in Seq(Message)
    BY <1>2, <2>1, ConcatProperties
  <2>3. Results(n + 1) = Results(n) \o <<m>>
    BY <1>2, <1>5, <1>6, AppendIsConcat
  <2>4. Append(run.context \o Results(n), m) = (run.context \o Results(n)) \o <<m>>
    BY <1>5, <2>2, AppendIsConcat
  <2>5. (run.context \o Results(n)) \o <<m>> = run.context \o (Results(n) \o <<m>>)
    <3>1. \A s, t, u \in Seq(Message) : (s \o t) \o u = s \o (t \o u)
      BY ConcatAssociative
    <3> QED
      BY <1>2, <2>1, <3>1, Zenon
  <2> QED
    BY <2>3, <2>4, <2>5
<1> QED
  BY <1>2, <1>3, <1>6, <1>7 DEF m

\* Every step keeps the context as far from the transcript as it has to be.
LEMMA ContextStep ==
    ASSUME TypeOK, BatchInv, ContextInv, TypeOK', BatchInv', [Next]_agentVars
    PROVE  ContextInv'
<1> DEFINE Calm == {"inject", "stream", "turnEnd", "poll", "pollFollowUps",
                    "prepare", "repoll"}
<1> USE DEF At
<1>1. ASSUME run'.pc \notin Calm \cup {"prompts", "batch"} PROVE ContextInv'
  BY <1>1 DEF ContextInv
<1>2. ASSUME run'.pc \notin {"prompts", "batch"}, run'.context = transcript'
      PROVE  ContextInv'
  BY <1>2 DEF ContextInv
<1>3. ASSUME ~At("batch"), run'.pc = run.pc, run'.context = run.context,
             run'.prompts = run.prompts, UNCHANGED transcript
      PROVE  ContextInv'
  BY <1>3 DEF ContextInv, Users, User
<1>4. ASSUME At("batch"), run'.pc = run.pc, run'.context = run.context,
             Len(run'.calls) = Len(run.calls), Sent' = Sent,
             UNCHANGED <<transcript, responses>>
      PROVE  ContextInv'
  <2>1. \A n \in 0..Len(run.calls) : Results(n)' = Results(n)
    BY <1>4 DEF Results, ToolResult
  <2> QED
    BY <1>4, <2>1 DEF ContextInv
<1>5. ASSUME UNCHANGED <<transcript, responses>>, run'.pc = run.pc,
             run'.context = run.context, run'.prompts = run.prompts,
             run'.calls = run.calls
      PROVE  ContextInv'
  <2>1. Sent' = Sent
    BY <1>5 DEF Sent
  <2> QED
    BY <1>3, <1>4, <1>5, <2>1
<1>6. CASE UNCHANGED agentVars \/ Steer \/ FollowUp \/ ClearQueues \/ Abort
  BY <1>5, <1>6 DEF agentVars, Steer, FollowUp, ClearQueues, Abort, TypeOK, RunState
<1>7. CASE Prompt \/ Continue
  <2>1. PICK prompts, skip : Start(prompts, skip)
    BY <1>7 DEF Prompt, Continue
  <2>2. run'.pc = "prompts" /\ run'.context = transcript \o Users(run'.prompts)
        /\ transcript' = transcript
    BY <1>7, <2>1 DEF Start, NoRun, Prompt, Continue
  <2> QED
    BY <2>2 DEF ContextInv, Users, User
<1>8. CASE Reset \/ FinishRun \/ Throw \/ RespondFailed
  <2>1. run'.pc \in {"idle", "failed"}
    <3>1. CASE RespondFailed
      <4>1. PICK stop : Receive(stop, 0, [run EXCEPT !.pc = "failed"])
        BY <3>1 DEF RespondFailed
      <4> QED
        BY <4>1 DEF Receive, TypeOK, RunState
    <3>2. CASE Throw
      BY <3>2 DEF Throw, TypeOK, RunState
    <3>3. CASE Reset \/ FinishRun
      BY <3>3 DEF Reset, Active, FinishRun, NoRun
    <3> QED
      BY <1>8, <3>1, <3>2, <3>3
  <2> QED
    BY <1>1, <2>1
<1>9. CASE EmitPrompt
  <2>1. /\ At("prompts") /\ run.prompts # <<>> /\ run.prompts \in Seq(Text)
        /\ transcript' = Append(transcript, User(Head(run.prompts)))
        /\ run'.prompts = Tail(run.prompts)
        /\ run'.pc = run.pc /\ run'.context = run.context
    BY <1>9 DEF EmitPrompt, Emit, TypeOK, RunState
  <2>2. transcript' \o Users(run'.prompts) = transcript \o Users(run.prompts)
    BY <2>1, MovePrompt DEF TypeOK
  <2>3. run'.context = transcript' \o Users(run'.prompts)
    BY <2>1, <2>2 DEF ContextInv
  <2> QED
    BY <2>1, <2>3 DEF ContextInv, Users, User
<1>10. CASE InitialPoll
  <2>1. /\ At("prompts") /\ run.prompts = <<>> /\ transcript' = transcript
        /\ run'.pc = "inject" /\ run'.context = run.context
    BY <1>10 DEF InitialPoll, TypeOK, RunState
  <2>2. Users(<<>>) = <<>>
    BY DEF Users
  <2>3. transcript \o <<>> = transcript
    BY ConcatEmptySeq DEF TypeOK
  <2> QED
    BY <1>2, <2>1, <2>2, <2>3 DEF ContextInv
<1>11. CASE InjectPending
  <2>1. run'.context = Append(run.context, User(Head(run.pending)))
        /\ transcript' = Append(transcript, User(Head(run.pending)))
        /\ run'.pc = "inject" /\ run.pc = "inject"
    BY <1>11 DEF InjectPending, Emit, TypeOK, RunState
  <2> QED
    BY <1>2, <2>1 DEF ContextInv
<1>12. CASE \/ CallModel \/ PollSteering \/ PollFollowUps \/ RepollSteering
            \/ PrepareNextTurn(run.context) /\ UNCHANGED transcript
  <2>1. /\ run.pc \in Calm /\ run'.pc \notin {"prompts", "batch"}
        /\ run'.context = run.context /\ transcript' = transcript
    <3>1. CASE RepollSteering
      <4>1. \/ run' = [run EXCEPT !.pc = "inject", !.pending = Steered]
            \/ run' = [run EXCEPT !.pc = "inject"]
        BY <3>1, Zenon DEF RepollSteering, Goto
      <4>2. At("repoll") /\ transcript' = transcript
        BY <3>1 DEF RepollSteering
      <4> QED
        BY <4>1, <4>2 DEF TypeOK, RunState
    <3> QED
      BY <1>12, <3>1 DEF CallModel, PollSteering, PollFollowUps, PrepareNextTurn,
         Goto, TypeOK, RunState
  <2> QED
    BY <1>2, <2>1 DEF ContextInv
<1>13. CASE EndTurn(<<>>, TRUE)
  <2>1. transcript' = transcript
    BY <1>13, ConcatEmptySeq DEF EndTurn, TypeOK
  <2>2. run'.pc = "ending" \/ (run.pc = "turnEnd" /\ run'.pc = "poll")
    BY <1>13 DEF EndTurn, Goto, TypeOK, RunState
  <2>3. run'.context = run.context
    BY <1>13 DEF EndTurn, Goto, TypeOK, RunState
  <2> QED
    BY <1>1, <1>2, <2>1, <2>2, <2>3 DEF ContextInv
<1>14. CASE Respond
  <2>1. PICK stop \in {"stop", "length"} :
          Receive(stop, 0, [run EXCEPT !.pc = "turnEnd", !.more = FALSE])
    BY <1>14 DEF Respond
  <2>2. run.pc = "stream" /\ run.context = transcript
    BY <1>14 DEF Respond, ContextInv
  <2>3. run'.context = transcript' /\ run'.pc = "turnEnd"
    BY <2>1, <2>2 DEF Receive, Emit, TypeOK, RunState
  <2> QED
    BY <1>2, <2>3
<1>15. CASE RespondWithCalls
  <2>1. PICK k \in 1..MaxCalls, mode \in ExecutionModes :
          Receive(IF mode = "truncated" THEN "length" ELSE "toolUse", k,
                  [run EXCEPT !.pc = "batch", !.mode = mode, !.terminate = TRUE,
                              !.calls = [i \in 1..k |-> "todo"]])
    BY <1>15 DEF RespondWithCalls
  <2>2. run.pc = "stream" /\ run.context = transcript
    BY <1>15 DEF RespondWithCalls, ContextInv
  <2>3. run'.context = transcript' /\ run'.pc = "batch" /\ run'.calls = [i \in 1..k |-> "todo"]
    BY SMTT(30), <2>1, <2>2 DEF Receive, Emit, TypeOK, RunState
  <2>4. transcript' \o Results(0)' = transcript'
    <3>1. Results(0)' = <<>>
      BY DEF Results
    <3> QED
      BY <3>1, ConcatEmptySeq DEF TypeOK
  <2>5. Sent' = {}
    BY <2>3 DEF Sent
  <2>6. \A n \in Nat : 1..n = {} => n = 0
    OBVIOUS
  <2>7. \A n \in 0..Len(run.calls)' : Sent' = 1..n => n = 0
    BY <2>5, <2>6
  <2> QED
    BY <2>3, <2>4, <2>7 DEF ContextInv
<1>16. CASE CallStep
  BY <1>4, <1>16, CallStepSends
<1>17. ASSUME NEW i \in 1..MaxCalls, SendResult(i) PROVE ContextInv'
  <2>1. /\ At("batch") /\ i \in 1..Len(run.calls) /\ Len(run'.calls) = Len(run.calls)
        /\ Sent = 1..(i - 1) /\ Sent' = 1..i
        /\ run'.pc = run.pc /\ run'.context = run.context
        /\ transcript' = Append(transcript, ToolResult(responses, i))
        /\ UNCHANGED responses
    BY <1>17, SendResultSends
  <2>2. i - 1 \in 0..Len(run.calls) /\ i - 1 \in Nat /\ (i - 1) + 1 = i
    BY <1>17, <2>1, AgentAssumption
  <2>3. transcript = run.context \o Results(i - 1)
    BY <2>1, <2>2 DEF ContextInv
  <2>4. run.context \o Results(i) = Append(run.context \o Results(i - 1), ToolResult(responses, i))
    <3> DEFINE n == i - 1
    <3>1. n \in Nat /\ n + 1 <= MaxCalls /\ n + 1 = i
      BY <1>17, <2>2, AgentAssumption
    <3> HIDE DEF n
    <3>2. run.context \o Results(n + 1)
            = Append(run.context \o Results(n), ToolResult(responses, n + 1))
      BY <3>1, GrowResults
    <3> QED
      BY <3>1, <3>2 DEF n
  <2>5. transcript' = run'.context \o Results(i)'
    <3>1. Results(i)' = Results(i)
      BY <2>1 DEF Results, ToolResult
    <3> QED
      BY <2>1, <2>3, <2>4, <3>1
  <2>6. \A n \in Nat : 1..i = 1..n => n = i
    BY <1>17, <2>2
  <2>7. \A n \in 0..Len(run.calls)' : Sent' = 1..n => n = i
    BY <2>1, <2>2, <2>6
  <2> QED
    BY <2>1, <2>5, <2>7 DEF ContextInv
<1>18. CASE EndBatch
  <2>1. PICK n \in 0..Len(run.calls) : Sent = 1..n
    BY DEF BatchInv
  <2>2. run'.pc = "turnEnd" /\ run'.context = run.context \o Results(n) /\ transcript' = transcript
    <3>1. /\ transcript' = transcript
          /\ run' = [run EXCEPT !.pc = "turnEnd", !.calls = <<>>,
                       !.more = run.mode = "truncated" \/ ~run.terminate,
                       !.context = run.context \o [i \in Sent |-> ToolResult(responses, i)]]
          /\ run \in RunState
      BY <1>18 DEF EndBatch, Sent, TypeOK, RunState
    <3>2. /\ run'.pc = "turnEnd"
          /\ run'.context = run.context \o [i \in Sent |-> ToolResult(responses, i)]
      BY <3>1 DEF RunState
    <3> QED
      BY <2>1, <3>1, <3>2 DEF Results
  <2>3. transcript = run.context \o Results(n)
    BY <1>18, <2>1 DEF ContextInv, EndBatch
  <2> QED
    BY <1>2, <2>2, <2>3
<1> QED
  BY <1>6, <1>7, <1>8, <1>9, <1>10, <1>11, <1>12, <1>13, <1>14, <1>15, <1>16, <1>17, <1>18
     DEF Next, CallerNext, LoopNext, LoopStep, CallStep

\* Whenever the model is asked, it sees exactly the transcript (agent-loop.ts:104-115
\* and 200-241, agent.ts:554-557).
THEOREM ModelAlwaysSeesTranscript == Spec => []ModelSeesTranscript
<1>1. Init => ContextInv
  BY DEF Init, NoRun, ContextInv, At
<1>2. TypeOK /\ BatchInv /\ ContextInv /\ (TypeOK /\ BatchInv)' /\ [Next]_agentVars
        => ContextInv'
  BY ContextStep
<1>3. ContextInv => ModelSeesTranscript
  BY DEF ContextInv, ModelSeesTranscript, At
<1> QED
  BY <1>1, <1>2, <1>3, TypeCorrect, PTL DEF Spec

(***************************************************************************)
(* The results that follow a response.                                     *)
(***************************************************************************)
\* The message before a result is its response or the result before it.
Follows(s, p) ==
    s[p].role = "toolResult" =>
        /\ p > 1
        /\ IF IsAssistant(s[p - 1]) THEN s[p - 1].turn = s[p].turn /\ s[p].call = 1
           ELSE s[p - 1] = ToolResult(s[p].turn, s[p].call - 1)

\* All results follow a response.
Answered(s, p) ==
    \A i \in 1..s[p].calls :
        p + i \in DOMAIN s /\ s[p + i] = ToolResult(s[p].turn, i)

AnswersInv ==
    /\ \A p \in DOMAIN transcript : Follows(transcript, p)
    /\ \A p \in DOMAIN transcript :
        IsAssistant(transcript[p]) /\ transcript[p].turn \notin cut
            /\ ~(At("batch") /\ transcript[p].turn = responses)
          => Answered(transcript, p)

LEMMA AnswersSuffice == AnswersInv => CallsAreAnswered
  BY DEF AnswersInv, CallsAreAnswered, Follows, Answered

\* A message at the end changes nothing about the earlier ones.
LEMMA AppendKeeps ==
    ASSUME NEW s \in Seq(Message), NEW m \in Message, NEW p \in DOMAIN s
    PROVE  /\ p \in DOMAIN Append(s, m) /\ Append(s, m)[p] = s[p]
           /\ Follows(s, p) => Follows(Append(s, m), p)
           /\ Answered(s, p) => Answered(Append(s, m), p)
<1>1. /\ DOMAIN s = 1..Len(s) /\ Len(s) \in Nat
      /\ DOMAIN Append(s, m) = 1..(Len(s) + 1)
      /\ \A q \in DOMAIN s : q \in DOMAIN Append(s, m) /\ Append(s, m)[q] = s[q]
  <2>1. Append(s, m) \in Seq(Message) /\ Len(Append(s, m)) = Len(s) + 1
    BY AppendProperties
  <2>2. DOMAIN s = 1..Len(s) /\ Len(s) \in Nat
        /\ DOMAIN Append(s, m) = 1..Len(Append(s, m))
    BY <2>1, LenProperties
  <2> QED
    BY <2>1, <2>2, AppendProperties
<1>2. p > 1 => p - 1 \in DOMAIN s
  BY <1>1
<1> DEFINE t == Append(s, m)
<1>3. \A q \in DOMAIN s : q \in DOMAIN t /\ t[q] = s[q]
  BY <1>1
<1> HIDE DEF t
<1>4. Follows(s, p) => Follows(t, p)
  BY <1>2, <1>3 DEF Follows
<1>5. Answered(s, p) => Answered(t, p)
  BY <1>3 DEF Answered
<1> QED
  BY <1>3, <1>4, <1>5 DEF t

\* Steps that leave the messages alone.
LEMMA SameAnswers ==
    ASSUME ResponseInv, AnswersInv,
           UNCHANGED <<transcript, responses>>, cut \subseteq cut',
           \/ ~At("batch") /\ run'.pc # "batch"
           \/ /\ run'.pc = run.pc /\ run'.context = run.context
              /\ Len(run'.calls) = Len(run.calls)
    PROVE  ResponseInv' /\ AnswersInv'
<1>1. ResponseInv'
  BY DEF ResponseInv, At, IsAssistant
<1>2. \A p : (Follows(transcript, p) => Follows(transcript, p)')
             /\ (Answered(transcript, p) => Answered(transcript, p)')
  BY DEF Follows, Answered, IsAssistant, ToolResult
<1>3. AnswersInv'
  BY <1>2 DEF AnswersInv, At, IsAssistant
<1> QED
  BY <1>1, <1>3

\* A message that asks for no tool.
LEMMA MessageAnswers ==
    ASSUME TypeOK, ResponseInv, AnswersInv, ~At("batch"), run'.pc # "batch",
           NEW m \in Message, m.role # "toolResult",
           IsAssistant(m) => m.turn = responses' /\ m.calls = 0,
           transcript' = Append(transcript, m),
           responses' \in {responses, responses + 1}, cut \subseteq cut'
    PROVE  ResponseInv' /\ AnswersInv'
<1>1. /\ DOMAIN transcript = 1..Len(transcript) /\ Len(transcript) \in Nat
      /\ DOMAIN transcript' = 1..(Len(transcript) + 1)
      /\ transcript'[Len(transcript) + 1] = m
  <2>1. transcript \in Seq(Message)
    BY DEF TypeOK
  <2>2. transcript' \in Seq(Message) /\ Len(transcript') = Len(transcript) + 1
    BY <2>1, AppendProperties
  <2> QED
    BY <2>1, <2>2, AppendProperties, LenProperties
<1>2. \A p \in DOMAIN transcript :
        /\ p \in DOMAIN transcript' /\ transcript'[p] = transcript[p]
        /\ Follows(transcript, p) => Follows(transcript', p)
        /\ Answered(transcript, p) => Answered(transcript', p)
  BY AppendKeeps DEF TypeOK
<1>3. \A p \in DOMAIN transcript' : p \in DOMAIN transcript \/ transcript'[p] = m
  BY <1>1
<1>4. ResponseInv'
  <2>1. \A p \in DOMAIN transcript : IsAssistant(transcript[p]) => transcript[p].turn \in Nat
    <3>1. \A x \in Message : IsAssistant(x) => x.turn \in Nat
      BY AgentAssumption DEF Message, IsAssistant
    <3> QED
      BY <1>1, <3>1, ElementOfSeq DEF TypeOK
  <2>2. \A n \in Nat : n <= responses => n <= responses'
    BY DEF TypeOK
  <2>3. responses' <= responses'
    BY DEF TypeOK
  <2>4. \A p \in DOMAIN transcript' : IsAssistant(transcript'[p]) => transcript'[p].turn <= responses'
    BY <1>2, <1>3, <2>1, <2>2, <2>3 DEF ResponseInv
  <2> QED
    BY <2>4 DEF ResponseInv, At, IsAssistant
<1>5. ASSUME NEW p \in DOMAIN transcript', p \notin DOMAIN transcript
      PROVE  Follows(transcript', p) /\ (IsAssistant(m) => Answered(transcript', p))
  BY <1>3, <1>5 DEF Follows, Answered, IsAssistant
<1>6. AnswersInv'
  <2>1. \A p \in DOMAIN transcript' : Follows(transcript', p)
    BY <1>2, <1>5 DEF AnswersInv
  <2>2. ASSUME NEW p \in DOMAIN transcript', IsAssistant(transcript'[p]),
               transcript'[p].turn \notin cut'
        PROVE  Answered(transcript', p)
    BY <1>2, <1>3, <1>5, <2>2 DEF AnswersInv
  <2> QED
    BY <2>1, <2>2 DEF AnswersInv, At, Follows, Answered, IsAssistant, ToolResult
<1> QED
  BY <1>4, <1>6

\* During a batch the transcript is the context followed by the results sent.
LEMMA CurrentBatch ==
    ASSUME TypeOK, BatchInv, ContextInv, ResponseInv, At("batch"),
           NEW n \in 0..Len(run.calls), Sent = 1..n
    PROVE  /\ Len(run.calls) \in Nat /\ n \in Nat /\ n <= MaxCalls
           /\ DOMAIN run.calls = 1..Len(run.calls)
           /\ Len(run.context) \in Nat \ {0}
           /\ Len(transcript) = Len(run.context) + n
           /\ DOMAIN transcript = 1..Len(transcript)
           /\ \A p \in 1..Len(run.context) : transcript[p] = run.context[p]
           /\ \A j \in 1..n :
                transcript[Len(run.context) + j] = ToolResult(responses, j)
<1>1. /\ Len(run.calls) \in Nat /\ DOMAIN run.calls = 1..Len(run.calls)
      /\ n \in Nat /\ n <= MaxCalls
  <2>1. run.calls \in Seq(Statuses)
    BY DEF TypeOK, RunState, Statuses
  <2>2. Len(run.calls) \in Nat /\ DOMAIN run.calls = 1..Len(run.calls)
    BY <2>1, LenProperties
  <2>3. Len(run.calls) <= MaxCalls
    BY DEF BatchInv
  <2> QED
    BY <2>2, <2>3, AgentAssumption
<1>2. run.context \in Seq(Message) /\ Len(run.context) \in Nat \ {0}
  <2>1. run.context \in Seq(Message) /\ run.context # <<>>
    BY DEF TypeOK, RunState, ResponseInv
  <2> QED
    BY <2>1, EmptySeq
<1> DEFINE results == Results(n)
<1>3. /\ results \in Seq(Message) /\ Len(results) = n
      /\ \A j \in 1..n : results[j] = ToolResult(responses, j)
  <2>1. \A j \in 1..n : ToolResult(responses, j) \in Message
    BY <1>1, AgentAssumption DEF ToolResult, Message, TypeOK
  <2>2. results \in [1..n -> Message]
    BY <2>1 DEF Results
  <2> QED
    BY <1>1, <2>2, FunctionIsSeq DEF Results
<1>4. transcript = run.context \o results
  BY DEF ContextInv
<1> HIDE DEF results
<1>5. /\ Len(transcript) = Len(run.context) + Len(results)
      /\ \A p \in 1..Len(run.context) + Len(results) : transcript[p] =
           IF p <= Len(run.context) THEN run.context[p]
           ELSE results[p - Len(run.context)]
  BY <1>2, <1>3, <1>4, ConcatProperties
<1>6. DOMAIN transcript = 1..Len(transcript)
  BY LenProperties DEF TypeOK
<1>7. \A p \in 1..Len(run.context) : transcript[p] = run.context[p]
  BY <1>1, <1>2, <1>3, <1>5
<1>8. ASSUME NEW j \in 1..n
      PROVE  transcript[Len(run.context) + j] = ToolResult(responses, j)
  <2> DEFINE p == Len(run.context) + j
  <2>1. /\ p \in 1..Len(run.context) + Len(results)
        /\ ~(p <= Len(run.context)) /\ p - Len(run.context) = j
    BY <1>1, <1>2, <1>3
  <2> HIDE DEF p
  <2>2. transcript[p] = results[j]
    BY <1>5, <2>1
  <2> QED
    BY <1>3, <2>2 DEF p
<1> QED
  BY <1>1, <1>2, <1>3, <1>5, <1>6, <1>7, <1>8

LEMMA AnswersStep ==
    ASSUME TypeOK, BatchInv, ContextInv, ResponseInv, AnswersInv,
           TypeOK', BatchInv', ContextInv', [Next]_agentVars
    PROVE  ResponseInv' /\ AnswersInv'
<1> USE DEF At
<1>1. CASE UNCHANGED agentVars \/ Steer \/ FollowUp \/ ClearQueues \/ Abort
  <2>1. /\ UNCHANGED <<transcript, responses>> /\ cut \subseteq cut'
        /\ run'.pc = run.pc /\ run'.context = run.context /\ run'.calls = run.calls
    BY <1>1 DEF agentVars, Steer, FollowUp, ClearQueues, Abort, TypeOK, RunState
  <2> QED
    BY <2>1, SameAnswers
<1>2. CASE CallStep
  BY <1>2, CallStepSends, SameAnswers DEF history
<1>3. CASE \/ Prompt \/ Continue \/ InitialPoll \/ CallModel \/ PollSteering
           \/ PollFollowUps
           \/ PrepareNextTurn(run.context) /\ UNCHANGED transcript
           \/ EndTurn(<<>>, TRUE) \/ FinishRun
  <2>1. ~At("batch") /\ run'.pc # "batch"
    <3>1. CASE Prompt \/ Continue
      <4>1. PICK prompts, skip : Start(prompts, skip)
        BY <3>1 DEF Prompt, Continue
      <4>2. run'.pc = "prompts"
        BY <4>1 DEF Start, NoRun
      <4>3. run.pc = "idle"
        BY <3>1 DEF Prompt, Continue, Active
      <4> QED
        BY <4>2, <4>3
    <3>2. CASE EndTurn(<<>>, TRUE)
      BY <3>2 DEF EndTurn, Goto, TypeOK, RunState
    <3>3. CASE InitialPoll \/ CallModel \/ PollSteering
      BY <3>3 DEF InitialPoll, CallModel, PollSteering, Goto, TypeOK, RunState
    <3>4. CASE PollFollowUps \/ PrepareNextTurn(run.context)
      BY <3>4 DEF PollFollowUps, PrepareNextTurn, TypeOK, RunState
    <3>5. CASE FinishRun
      BY <3>5 DEF FinishRun, NoRun
    <3> QED
      BY <1>3, <3>1, <3>2, <3>3, <3>4, <3>5
  <2>2. UNCHANGED <<responses, cut>>
    BY <1>3 DEF Prompt, Continue, InitialPoll, CallModel, PollSteering,
       PollFollowUps, PrepareNextTurn, EndTurn, FinishRun, history
  <2>3. UNCHANGED transcript
    BY <1>3, ConcatEmptySeq DEF Prompt, Continue, InitialPoll, CallModel, PollSteering,
       PollFollowUps, EndTurn, FinishRun, TypeOK
  <2> QED
    BY <2>1, <2>2, <2>3, SameAnswers
<1>4. CASE RepollSteering
  <2>1. \/ run' = [run EXCEPT !.pc = "inject", !.pending = Steered]
        \/ run' = [run EXCEPT !.pc = "inject"]
    BY <1>4, Zenon DEF RepollSteering, Goto
  <2>2. At("repoll") /\ UNCHANGED <<transcript, responses, cut>>
    BY <1>4 DEF RepollSteering, history
  <2>3. run'.pc = "inject"
    BY <2>1 DEF TypeOK, RunState
  <2> QED
    BY <2>2, <2>3, SameAnswers
<1>5. CASE Reset
  <2>1. transcript' = <<>> /\ run'.pc # "batch"
    BY <1>5 DEF Reset, Active
  <2> QED
    BY <2>1 DEF ResponseInv, AnswersInv
<1>6. CASE EmitPrompt \/ InjectPending
  <2>1. PICK t \in Text : transcript' = Append(transcript, User(t))
    BY <1>6, HeadTailProperties DEF EmitPrompt, InjectPending, Emit, TypeOK, RunState
  <2>2. ~At("batch") /\ run'.pc # "batch" /\ UNCHANGED <<responses, cut>>
    BY <1>6 DEF EmitPrompt, InjectPending, TypeOK, RunState, history
  <2>3. User(t) \in Message /\ User(t).role = "user"
    BY DEF User, Message
  <2> QED
    BY <2>1, <2>2, <2>3, MessageAnswers DEF IsAssistant
<1>7. CASE Respond \/ RespondFailed \/ Throw
  <2>1. PICK stop \in Errors \cup {"stop", "length", "aborted"} :
          transcript' = Append(transcript, Assistant(responses + 1, stop, 0))
    BY <1>7 DEF Respond, RespondFailed, Throw, Receive, Emit
  <2>2. ~At("batch") /\ run'.pc # "batch"
    <3>1. CASE Respond
      BY <3>1 DEF Respond, Receive, TypeOK, RunState
    <3>2. CASE RespondFailed
      BY <3>2 DEF RespondFailed, Receive, TypeOK, RunState
    <3>3. CASE Throw
      BY <3>3 DEF Throw, TypeOK, RunState
    <3> QED
      BY <1>7, <3>1, <3>2, <3>3
  <2>3. responses' = responses + 1 /\ cut \subseteq cut'
    BY <1>7 DEF Respond, RespondFailed, Throw, Receive
  <2> DEFINE m == Assistant(responses + 1, stop, 0)
  <2>4. m \in Message /\ m.role = "assistant" /\ m.turn = responses' /\ m.calls = 0
    BY <2>3, AgentAssumption DEF Assistant, Message, TypeOK
  <2> HIDE DEF m
  <2> QED
    BY <2>1, <2>2, <2>3, <2>4, MessageAnswers DEF m
<1>8. CASE RespondWithCalls
  <2>1. PICK k \in 1..MaxCalls, mode \in ExecutionModes :
          Receive(IF mode = "truncated" THEN "length" ELSE "toolUse", k,
                  [run EXCEPT !.pc = "batch", !.mode = mode, !.terminate = TRUE,
                              !.calls = [j \in 1..k |-> "todo"]])
    BY <1>8 DEF RespondWithCalls
  <2> DEFINE stop == IF mode = "truncated" THEN "length" ELSE "toolUse"
             m == Assistant(responses + 1, stop, k)
  <2>2. /\ transcript' = Append(transcript, m) /\ run'.context = Append(transcript, m)
        /\ responses' = responses + 1 /\ cut \subseteq cut'
        /\ run'.pc = "batch" /\ run'.calls = [j \in 1..k |-> "todo"]
    <3>1. run.context = transcript
      BY <1>8 DEF RespondWithCalls, ContextInv
    <3>2. /\ transcript' = Append(transcript, m)
          /\ responses' = responses + 1 /\ cut \subseteq cut'
          /\ run' = [[run EXCEPT !.pc = "batch", !.mode = mode, !.terminate = TRUE,
                                 !.calls = [j \in 1..k |-> "todo"]]
                       EXCEPT !.context = Append(@, m)]
      BY <2>1 DEF Receive, Emit
    <3>3. run \in RunState
      BY DEF TypeOK
    <3> HIDE DEF m
    <3>4. run'.context = Append(run.context, m)
      BY <3>2, <3>3 DEF RunState
    <3>5. run'.pc = "batch" /\ run'.calls = [j \in 1..k |-> "todo"]
      BY <3>2, <3>3 DEF RunState
    <3> QED
      BY <3>1, <3>2, <3>4, <3>5
  <2>3. m \in Message /\ IsAssistant(m) /\ m.turn = responses + 1 /\ m.calls = k
    BY AgentAssumption DEF Assistant, Message, TypeOK, IsAssistant
  <2> HIDE DEF m
  <2>4. /\ DOMAIN transcript = 1..Len(transcript) /\ Len(transcript) \in Nat
        /\ DOMAIN transcript' = 1..(Len(transcript) + 1)
        /\ transcript'[Len(transcript) + 1] = m /\ Len(transcript') = Len(transcript) + 1
    <3>1. transcript \in Seq(Message) /\ transcript' \in Seq(Message)
      BY DEF TypeOK
    <3>2. Len(transcript') = Len(transcript) + 1 /\ transcript'[Len(transcript) + 1] = m
      BY <2>2, <2>3, <3>1, AppendProperties
    <3> QED
      BY <3>1, <3>2, LenProperties
  <2>5. \A p \in DOMAIN transcript :
          /\ p \in DOMAIN transcript' /\ transcript'[p] = transcript[p]
          /\ Follows(transcript, p) => Follows(transcript', p)
          /\ Answered(transcript, p) => Answered(transcript', p)
    BY <2>2, <2>3, AppendKeeps DEF TypeOK
  <2>6. \A p \in DOMAIN transcript :
          IsAssistant(transcript[p]) => transcript[p].turn \in Nat
    <3>1. \A x \in Message : IsAssistant(x) => x.turn \in Nat
      BY AgentAssumption DEF Message, IsAssistant
    <3> QED
      BY <2>4, <3>1, ElementOfSeq DEF TypeOK
  <2>7. \A p \in DOMAIN transcript :
          IsAssistant(transcript'[p]) => transcript'[p].turn < responses'
    BY <2>2, <2>5, <2>6, SMTT(30) DEF ResponseInv, TypeOK
  <2>8. \A p \in DOMAIN transcript' : p \in DOMAIN transcript \/ p = Len(transcript')
    BY <2>4
  <2>9. responses' \in Nat /\ Len(run'.calls) = k
    BY <2>2, FunctionIsSeq DEF TypeOK
  <2>10. ResponseInv'
    <3>1. \A p \in DOMAIN transcript' : IsAssistant(transcript'[p]) => transcript'[p].turn <= responses'
      <4>1. \A p \in DOMAIN transcript :
              IsAssistant(transcript'[p]) => transcript'[p].turn <= responses'
        BY <2>5, <2>6, <2>7, <2>9
      <4>2. transcript'[Len(transcript')].turn <= responses'
        BY <2>2, <2>3, <2>4, <2>9
      <4> QED
        BY <2>8, <4>1, <4>2
    <3>2. run'.context = transcript' /\ transcript' # <<>>
      <4>1. Len(transcript') # Len(<<>>)
        BY <2>4
      <4> QED
        BY <2>2, <4>1
    <3>3. \A p \in 1..(Len(transcript') - 1) : p \in DOMAIN transcript
      BY <2>4
    <3> QED
      BY <2>2, <2>3, <2>4, <2>7, <2>9, <3>1, <3>2, <3>3 DEF ResponseInv, IsAssistant
  <2>11. AnswersInv'
    <3>1. \A p \in DOMAIN transcript' : Follows(transcript', p)
      <4>1. Follows(transcript', Len(transcript'))
        BY <2>3, <2>4 DEF Follows, IsAssistant
      <4> QED
        BY <2>5, <2>8, <4>1 DEF AnswersInv
    <3>2. ASSUME NEW p \in DOMAIN transcript', IsAssistant(transcript'[p]),
                 transcript'[p].turn \notin cut', transcript'[p].turn # responses'
          PROVE  Answered(transcript', p)
      <4>1. p \in DOMAIN transcript
        BY <2>2, <2>3, <2>4, <2>8, <3>2
      <4>2. ~At("batch")
        BY <1>8 DEF RespondWithCalls
      <4>3. transcript'[p] = transcript[p] /\ transcript[p].turn \notin cut
        BY <2>2, <2>5, <3>2, <4>1
      <4> QED
        BY <2>5, <3>2, <4>1, <4>2, <4>3 DEF AnswersInv
    <3> QED
      BY <2>2, <3>1, <3>2 DEF AnswersInv, Follows, Answered, IsAssistant, ToolResult
  <2> QED
    BY <2>10, <2>11
<1>9. ASSUME NEW i \in 1..MaxCalls, SendResult(i) PROVE ResponseInv' /\ AnswersInv'
  <2> DEFINE m == ToolResult(responses, i)
  <2>1. /\ run.pc = "batch" /\ i \in 1..Len(run.calls) /\ Len(run'.calls) = Len(run.calls)
        /\ Sent = 1..(i - 1) /\ run'.pc = run.pc /\ run'.context = run.context
        /\ transcript' = Append(transcript, m) /\ UNCHANGED <<responses, cut>>
    BY <1>9, SendResultSends DEF history
  <2>2. /\ m \in Message /\ m.role = "toolResult" /\ ~IsAssistant(m)
        /\ m.turn = responses /\ m.call = i
    BY <1>9 DEF ToolResult, Message, TypeOK, IsAssistant
  <2>3. i - 1 \in 0..Len(run.calls)
    BY <2>1
  <2>4. /\ Len(run.context) \in Nat \ {0}
        /\ Len(transcript) = Len(run.context) + (i - 1)
        /\ \A p \in 1..Len(run.context) : transcript[p] = run.context[p]
        /\ \A j \in 1..(i - 1) :
             transcript[Len(run.context) + j] = ToolResult(responses, j)
    <3> DEFINE n == i - 1
    <3>1. n \in 0..Len(run.calls) /\ Sent = 1..n
      BY <2>1, <2>3
    <3> HIDE DEF n
    <3>2. /\ Len(run.context) \in Nat \ {0}
          /\ Len(transcript) = Len(run.context) + n
          /\ \A p \in 1..Len(run.context) : transcript[p] = run.context[p]
          /\ \A j \in 1..n :
               transcript[Len(run.context) + j] = ToolResult(responses, j)
      BY <2>1, <3>1, CurrentBatch
    <3> QED
      BY <3>2 DEF n
  <2> HIDE DEF m
  <2>6. /\ DOMAIN transcript = 1..Len(transcript) /\ Len(transcript) \in Nat
        /\ DOMAIN transcript' = 1..(Len(transcript) + 1)
        /\ transcript'[Len(transcript) + 1] = m
    <3>1. transcript \in Seq(Message) /\ transcript' \in Seq(Message)
      BY DEF TypeOK
    <3>2. Len(transcript') = Len(transcript) + 1 /\ transcript'[Len(transcript) + 1] = m
      BY <2>1, <2>2, <3>1, AppendProperties
    <3> QED
      BY <3>1, <3>2, LenProperties
  <2>7. \A p \in DOMAIN transcript :
          /\ p \in DOMAIN transcript' /\ transcript'[p] = transcript[p]
          /\ Follows(transcript, p) => Follows(transcript', p)
          /\ Answered(transcript, p) => Answered(transcript', p)
    BY <2>1, <2>2, AppendKeeps DEF TypeOK
  <2>8. \A p \in DOMAIN transcript' : p \in DOMAIN transcript \/ p = Len(transcript) + 1
    BY <2>6
  <2>9. ResponseInv'
    <3>1. \A p \in DOMAIN transcript' : IsAssistant(transcript'[p]) => transcript'[p].turn <= responses
      BY <2>2, <2>6, <2>7, <2>8 DEF ResponseInv
    <3> QED
      BY <2>1, <3>1 DEF ResponseInv, IsAssistant
  <2>10. Follows(transcript', Len(transcript) + 1)
    <3>1. Len(transcript) + 1 > 1 /\ Len(transcript) \in DOMAIN transcript
          /\ (Len(transcript) + 1) - 1 = Len(transcript)
      BY <1>9, <2>4, <2>6
    <3>2. transcript'[Len(transcript)] = transcript[Len(transcript)]
      BY <2>7, <3>1
    <3>3. CASE i = 1
      <4>1. Len(transcript) = Len(run.context)
        BY <2>4, <3>3
      <4>2. transcript[Len(transcript)] = run.context[Len(run.context)]
        BY <2>4, <4>1
      <4>3. IsAssistant(transcript[Len(transcript)]) /\ transcript[Len(transcript)].turn = responses
        BY <2>1, <4>2 DEF ResponseInv
      <4> QED
        BY <2>2, <2>6, <3>1, <3>2, <3>3, <4>3 DEF Follows
    <3>4. CASE i # 1
      <4>1. i - 1 \in 1..(i - 1)
        BY <1>9, <3>4
      <4>2. transcript[Len(transcript)] = ToolResult(responses, i - 1)
        BY <2>4, <4>1
      <4>3. ~IsAssistant(transcript[Len(transcript)])
        BY <4>2 DEF IsAssistant, ToolResult
      <4> QED
        BY <2>2, <2>6, <3>1, <3>2, <4>2, <4>3 DEF Follows
    <3> QED
      BY <3>3, <3>4
  <2>11. AnswersInv'
    <3>1. \A p \in DOMAIN transcript' : Follows(transcript', p)
      BY <2>7, <2>8, <2>10 DEF AnswersInv
    <3>2. ASSUME NEW p \in DOMAIN transcript', IsAssistant(transcript'[p]),
                 transcript'[p].turn \notin cut, transcript'[p].turn # responses
          PROVE  Answered(transcript', p)
      <4>1. p \in DOMAIN transcript
        BY <2>2, <2>6, <2>8, <3>2
      <4> QED
        BY <2>7, <3>2, <4>1 DEF AnswersInv
    <3> QED
      BY <2>1, <3>1, <3>2 DEF AnswersInv, Follows, Answered, IsAssistant, ToolResult
  <2> QED
    BY <2>9, <2>11
<1>10. CASE EndBatch
  <2>1. /\ run.pc = "batch" /\ UNCHANGED <<transcript, responses, cut>>
        /\ run'.pc = "turnEnd" /\ All({"sent", "skipped"})
    BY <1>10 DEF EndBatch, history, TypeOK, RunState
  <2>2. ResponseInv'
    BY <2>1 DEF ResponseInv, IsAssistant
  <2>3. ASSUME NEW p \in DOMAIN transcript, IsAssistant(transcript[p]),
               transcript[p].turn \notin cut, transcript[p].turn = responses
        PROVE  Answered(transcript, p)
    <3>1. PICK n \in 0..Len(run.calls) : Sent = 1..n
      BY DEF BatchInv
    <3>2. /\ Len(run.calls) \in Nat /\ n \in Nat
          /\ DOMAIN run.calls = 1..Len(run.calls)
          /\ Len(run.context) \in Nat \ {0}
          /\ Len(transcript) = Len(run.context) + n
          /\ DOMAIN transcript = 1..Len(transcript)
          /\ \A q \in 1..Len(run.context) : transcript[q] = run.context[q]
          /\ \A j \in 1..n :
               transcript[Len(run.context) + j] = ToolResult(responses, j)
      BY <2>1, <3>1, CurrentBatch
    <3>3. \A j \in DOMAIN run.calls : run.calls[j] = "sent"
      BY <2>1, <2>3 DEF BatchInv, All
    <3>4. n = Len(run.calls)
      <4>1. Sent = 1..Len(run.calls)
        BY <3>2, <3>3 DEF Sent
      <4> QED
        BY <3>1, <3>2, <4>1
    <3>5. p <= Len(run.context)
      <4>1. SUFFICES ASSUME p > Len(run.context) PROVE FALSE
        BY <3>2
      <4> DEFINE j == p - Len(run.context)
      <4>2. j \in 1..n /\ p = Len(run.context) + j
        BY <3>2, <4>1
      <4> HIDE DEF j
      <4>3. transcript[p] = ToolResult(responses, j)
        BY <3>2, <4>2
      <4> QED
        BY <2>3, <4>3 DEF IsAssistant, ToolResult
    <3>6. transcript[p] = run.context[p]
      BY <3>2, <3>5
    <3>7. p = Len(run.context)
      <4>1. SUFFICES ASSUME p # Len(run.context) PROVE FALSE
        OBVIOUS
      <4>2. p \in 1..(Len(run.context) - 1)
        BY <3>2, <3>5, <4>1
      <4>3. responses < responses
        BY <2>1, <2>3, <3>6, <4>2 DEF ResponseInv
      <4> QED
        BY <4>3 DEF TypeOK
    <3>8. transcript[p].calls = n
      BY <2>1, <3>4, <3>6, <3>7 DEF ResponseInv
    <3>9. \A j \in 1..n : p + j \in DOMAIN transcript
      BY <3>2, <3>7
    <3> QED
      BY <2>3, <3>2, <3>7, <3>8, <3>9 DEF Answered
  <2>4. AnswersInv'
    <3>1. \A p \in DOMAIN transcript :
            IsAssistant(transcript[p]) /\ transcript[p].turn \notin cut
              => Answered(transcript, p)
      BY <2>3 DEF AnswersInv
    <3> QED
      BY <2>1, <3>1 DEF AnswersInv, Follows, Answered, IsAssistant, ToolResult
  <2> QED
    BY <2>2, <2>4
<1>11. [Next]_agentVars => \/ UNCHANGED agentVars \/ CallerNext \/ LoopNext \/ Throw
  BY DEF Next
<1> QED
  BY <1>1, <1>2, <1>3, <1>4, <1>5, <1>6, <1>7, <1>8, <1>9, <1>10, <1>11
     DEF CallerNext, LoopNext, LoopStep, CallStep

\* The results of a response follow it at once, in the order of its calls, none
\* twice and, unless the run was aborted during the batch, none missing
\* (agent-loop.ts:431-561).
THEOREM CallsAlwaysAnswered == Spec => []CallsAreAnswered
<1>1. Init => ContextInv /\ ResponseInv /\ AnswersInv
  BY DEF Init, NoRun, ContextInv, ResponseInv, AnswersInv, At
<1>2. ASSUME TypeOK, BatchInv, ContextInv, ResponseInv, AnswersInv,
             TypeOK', BatchInv', [Next]_agentVars
      PROVE  ContextInv' /\ ResponseInv' /\ AnswersInv'
  <2>1. ContextInv'
    BY <1>2, ContextStep
  <2> QED
    BY <1>2, <2>1, AnswersStep
<1> QED
  BY <1>1, <1>2, TypeCorrect, AnswersSuffice, PTL DEF Spec

(***************************************************************************)
(* The messages handed over, and steering messages one at a time.          *)
(***************************************************************************)
Known(texts) == \A i \in DOMAIN texts : texts[i] \in DOMAIN handed
AllHanded(texts, way) ==
    \A i \in DOMAIN texts : texts[i] \in DOMAIN handed /\ handed[texts[i]] = way

\* A step of the loop that polls no queue and starts no run, or another caller's.
QuietStep ==
    \/ UNCHANGED agentVars \/ Abort \/ ClearQueues \/ Reset
    \/ CallModel
    \/ PrepareNextTurn(run.context) /\ UNCHANGED transcript
    \/ CallStep \/ EndBatch \/ EndTurn(<<>>, TRUE) \/ FinishRun
\* A step that adds a message of the model or a result.
AnswerStep ==
    \/ Respond \/ RespondFailed \/ RespondWithCalls \/ Throw
    \/ \E i \in 1..MaxCalls : SendResult(i)

LEMMA QuietKeeps ==
    ASSUME TypeOK, BatchInv, QuietStep
    PROVE  /\ UNCHANGED handed /\ transcript' \in {transcript, <<>>}
           /\ steering' \in {steering, <<>>} /\ followUps' \in {followUps, <<>>}
           /\ \/ run'.prompts = run.prompts /\ run'.pending = run.pending
              \/ run'.prompts = <<>> /\ run'.pending = <<>>
           /\ run'.skip = run.skip \/ run'.prompts = <<>>
           /\ \/ run'.pc = run.pc /\ run'.skip = run.skip
                    /\ run'.prompts = run.prompts /\ run'.pending = run.pending
              \/ At("inject") /\ run'.pc = "stream" /\ run.pending = <<>>
              \/ ~At("prompts") /\ ~At("inject") /\ ~At("stream")
<1> USE DEF At, queues, history
<1>1. CASE CallStep
  <2>1. /\ run'.prompts = run.prompts /\ run'.pending = run.pending
        /\ run'.skip = run.skip
    BY <1>1 DEF CallStep, LaunchCalls, StartCall, SkipCalls, RefuseCall, PrepareCall,
       FinishCall, TypeOK, RunState
  <2> QED
    BY <1>1, <2>1, CallStepSends
<1>2. CASE EndTurn(<<>>, TRUE)
  <2>1. transcript' = transcript
    BY <1>2, ConcatEmptySeq DEF EndTurn, TypeOK
  <2>2. /\ run'.prompts = run.prompts /\ run'.pending = run.pending
        /\ run'.skip = run.skip
    BY <1>2 DEF EndTurn, Goto, TypeOK, RunState
  <2> QED
    BY <1>2, <2>1, <2>2 DEF EndTurn
<1>3. CASE FinishRun
  BY <1>3 DEF FinishRun, NoRun
<1>4. CASE EndBatch
  BY <1>4 DEF EndBatch, TypeOK, RunState
<1>5. CASE CallModel \/ (PrepareNextTurn(run.context) /\ UNCHANGED transcript)
  BY <1>5 DEF CallModel, PrepareNextTurn, Goto, TypeOK, RunState
<1>6. CASE Abort
  BY <1>6 DEF Abort, TypeOK, RunState
<1>7. CASE UNCHANGED agentVars \/ ClearQueues \/ Reset
  BY <1>7 DEF agentVars, ClearQueues, Reset
<1> QED
  BY <1>1, <1>2, <1>3, <1>4, <1>5, <1>6, <1>7 DEF QuietStep

LEMMA AnswerKeeps ==
    ASSUME TypeOK, BatchInv, AnswerStep
    PROVE  /\ UNCHANGED <<handed, queues>>
           /\ run'.prompts = run.prompts
           /\ run'.pending = run.pending \/ run'.pending = <<>>
           /\ run'.skip = run.skip
           /\ \E m \in Message : m.role # "user" /\ transcript' = Append(transcript, m)
<1> USE DEF queues, history
<1>1. ASSUME NEW stop \in Errors \cup {"stop", "toolUse", "length", "aborted"},
             NEW k \in 0..MaxCalls
      PROVE  /\ Assistant(responses + 1, stop, k) \in Message
             /\ Assistant(responses + 1, stop, k).role # "user"
  BY <1>1 DEF Assistant, Message, TypeOK
<1>2. 0 \in 0..MaxCalls /\ 1..MaxCalls \subseteq 0..MaxCalls
  BY AgentAssumption
<1>3. CASE Respond \/ RespondFailed
  <2>1. PICK stop \in Errors \cup {"stop", "length", "aborted"} :
          transcript' = Append(transcript, Assistant(responses + 1, stop, 0))
    BY <1>3 DEF Respond, RespondFailed, Receive, Emit
  <2>2. /\ run'.prompts = run.prompts /\ run'.pending = run.pending
        /\ run'.skip = run.skip
    <3>1. CASE Respond
      BY <3>1 DEF Respond, Receive, TypeOK, RunState
    <3>2. CASE RespondFailed
      BY <3>2 DEF RespondFailed, Receive, TypeOK, RunState
    <3> QED
      BY <1>3, <3>1, <3>2
  <2>3. UNCHANGED <<handed, queues>>
    BY <1>3 DEF Respond, RespondFailed, Receive
  <2> QED
    BY <1>1, <1>2, <2>1, <2>2, <2>3
<1>4. CASE RespondWithCalls
  <2>1. PICK k \in 1..MaxCalls, mode \in ExecutionModes :
          Receive(IF mode = "truncated" THEN "length" ELSE "toolUse", k,
                  [run EXCEPT !.pc = "batch", !.mode = mode, !.terminate = TRUE,
                              !.calls = [j \in 1..k |-> "todo"]])
    BY <1>4 DEF RespondWithCalls
  <2>2. /\ run'.prompts = run.prompts /\ run'.pending = run.pending
        /\ run'.skip = run.skip /\ UNCHANGED <<handed, queues>>
    BY <2>1 DEF Receive, TypeOK, RunState
  <2>3. PICK stop \in {"length", "toolUse"} :
          transcript' = Append(transcript, Assistant(responses + 1, stop, k))
    BY <2>1 DEF Receive, Emit
  <2> QED
    BY <1>1, <1>2, <2>2, <2>3
<1>5. CASE Throw
  <2>1. PICK stop \in Errors \cup {"aborted"} :
          transcript' = Append(transcript, Assistant(responses + 1, stop, 0))
    BY <1>5 DEF Throw, Emit
  <2>2. /\ run'.prompts = run.prompts /\ run'.pending = <<>>
        /\ run'.skip = run.skip /\ UNCHANGED <<handed, queues>>
    BY <1>5 DEF Throw, TypeOK, RunState
  <2> QED
    BY <1>1, <1>2, <2>1, <2>2
<1>6. ASSUME NEW i \in 1..MaxCalls, SendResult(i)
      PROVE  /\ UNCHANGED <<handed, queues>>
             /\ run'.prompts = run.prompts /\ run'.pending = run.pending
             /\ run'.skip = run.skip
             /\ \E m \in Message : m.role # "user" /\ transcript' = Append(transcript, m)
  <2>1. ToolResult(responses, i) \in Message /\ ToolResult(responses, i).role # "user"
    BY DEF ToolResult, Message, TypeOK
  <2>2. /\ run'.prompts = run.prompts /\ run'.pending = run.pending
        /\ run'.skip = run.skip
    BY <1>6 DEF SendResult, TypeOK, RunState
  <2> QED
    BY <1>6, <2>1, <2>2 DEF SendResult, Emit
<1> QED
  BY <1>3, <1>4, <1>5, <1>6 DEF AnswerStep

\* Messages that were handed over stay so.
LEMMA HandedGrows ==
    ASSUME TypeOK, NEW way \in Ways, HandOver(way)
    PROVE  /\ DOMAIN handed = 1..Len(handed) /\ DOMAIN handed' = 1..Len(handed')
           /\ Len(handed') \in DOMAIN handed' /\ handed'[Len(handed')] = way
           /\ \A t \in DOMAIN handed : t \in DOMAIN handed' /\ handed'[t] = handed[t]
<1>1. handed \in Seq(Ways) /\ handed' = Append(handed, way)
  BY DEF TypeOK, HandOver
<1>2. /\ handed' \in Seq(Ways) /\ Len(handed') = Len(handed) + 1
      /\ \A i \in 1..Len(handed) : handed'[i] = handed[i]
      /\ handed'[Len(handed) + 1] = way
  BY <1>1, AppendProperties
<1>3. /\ DOMAIN handed = 1..Len(handed) /\ DOMAIN handed' = 1..Len(handed')
      /\ Len(handed) \in Nat
  BY <1>1, <1>2, LenProperties
<1> QED
  BY <1>2, <1>3

\* What each part of the invariant needs.
LEMMA HandedParts ==
    ASSUME HandedInv,
           \A t \in DOMAIN handed : t \in DOMAIN handed' /\ handed'[t] = handed[t],
           \A p \in DOMAIN transcript' : transcript'[p].role = "user" =>
              \/ p \in DOMAIN transcript /\ transcript'[p] = transcript[p]
              \/ transcript'[p].text \in DOMAIN handed,
           \A i \in DOMAIN steering' :
              \/ \E j \in DOMAIN steering : steering'[i] = steering[j]
              \/ steering'[i] \in DOMAIN handed' /\ handed'[steering'[i]] = "steer",
           \A i \in DOMAIN followUps' :
              \/ \E j \in DOMAIN followUps : followUps'[i] = followUps[j]
              \/ followUps'[i] \in DOMAIN handed' /\ handed'[followUps'[i]] = "followUp",
           \A i \in DOMAIN run'.prompts : run'.prompts[i] \in DOMAIN handed',
           \A i \in DOMAIN run'.pending : run'.pending[i] \in DOMAIN handed'
    PROVE  HandedInv'
<1>1. \A p \in DOMAIN transcript' :
        transcript'[p].role = "user" => transcript'[p].text \in DOMAIN handed'
  BY DEF HandedInv
<1>2. \A i \in DOMAIN steering' :
        steering'[i] \in DOMAIN handed' /\ handed'[steering'[i]] = "steer"
  BY DEF HandedInv
<1>3. \A i \in DOMAIN followUps' :
        followUps'[i] \in DOMAIN handed' /\ handed'[followUps'[i]] = "followUp"
  BY DEF HandedInv
<1> QED
  BY <1>1, <1>2, <1>3 DEF HandedInv

\* The elements of a sequence with one more element, or without the first.
LEMMA AppendElements ==
    ASSUME NEW S, NEW s \in Seq(S), NEW x \in S
    PROVE  \A i \in DOMAIN Append(s, x) :
              \/ i \in DOMAIN s /\ Append(s, x)[i] = s[i]
              \/ i = Len(s) + 1 /\ Append(s, x)[i] = x
<1>1. /\ Append(s, x) \in Seq(S) /\ Len(Append(s, x)) = Len(s) + 1
      /\ \A i \in 1..Len(s) : Append(s, x)[i] = s[i]
      /\ Append(s, x)[Len(s) + 1] = x
  BY AppendProperties
<1>2. /\ DOMAIN s = 1..Len(s) /\ Len(s) \in Nat
      /\ DOMAIN Append(s, x) = 1..Len(Append(s, x))
  BY <1>1, LenProperties
<1> QED
  BY <1>1, <1>2

LEMMA TailElements ==
    ASSUME NEW S, NEW s \in Seq(S), s # <<>>
    PROVE  /\ 1 \in DOMAIN s /\ Head(s) = s[1]
           /\ \A i \in DOMAIN Tail(s) : i + 1 \in DOMAIN s /\ Tail(s)[i] = s[i + 1]
           /\ Len(s) = 1 => Tail(s) = <<>>
<1>1. /\ Tail(s) \in Seq(S) /\ Len(Tail(s)) = Len(s) - 1
      /\ \A i \in 1..Len(Tail(s)) : Tail(s)[i] = s[i + 1]
  BY HeadTailProperties
<1>2. /\ DOMAIN s = 1..Len(s) /\ Len(s) \in Nat \ {0}
      /\ DOMAIN Tail(s) = 1..Len(Tail(s))
  BY <1>1, EmptySeq, LenProperties
<1>3. Len(Tail(s)) = 0 => Tail(s) = <<>>
  BY <1>1, EmptySeq
<1> QED
  BY <1>1, <1>2, <1>3

LEMMA HandedStep ==
    ASSUME TypeOK, BatchInv, HandedInv, TypeOK', [Next]_agentVars
    PROVE  HandedInv'
<1> USE DEF queues, history
<1>0. /\ \A i \in DOMAIN Steered : Steered[i] \in DOMAIN handed /\ handed[Steered[i]] = "steer"
      /\ \A i \in DOMAIN FollowedUp :
            FollowedUp[i] \in DOMAIN handed /\ handed[FollowedUp[i]] = "followUp"
      /\ \A i \in DOMAIN Rest(steering, SteeringMode) :
            \E j \in DOMAIN steering : Rest(steering, SteeringMode)[i] = steering[j]
      /\ \A i \in DOMAIN Rest(followUps, FollowUpMode) :
            \E j \in DOMAIN followUps : Rest(followUps, FollowUpMode)[i] = followUps[j]
  <2>1. /\ steering \in Seq(Text) /\ followUps \in Seq(Text)
        /\ SteeringMode \in QueueModes /\ FollowUpMode \in QueueModes
    BY AgentAssumption DEF TypeOK
  <2>2. /\ \A i \in DOMAIN Steered : i \in DOMAIN steering /\ Steered[i] = steering[i]
        /\ \A i \in DOMAIN FollowedUp : i \in DOMAIN followUps /\ FollowedUp[i] = followUps[i]
    BY <2>1, DrainProperties DEF Steered, FollowedUp
  <2>3. /\ \A i \in DOMAIN Rest(steering, SteeringMode) :
             \E j \in DOMAIN steering : Rest(steering, SteeringMode)[i] = steering[j]
        /\ \A i \in DOMAIN Rest(followUps, FollowUpMode) :
             \E j \in DOMAIN followUps : Rest(followUps, FollowUpMode)[i] = followUps[j]
    BY <2>1, DrainProperties
  <2>4. /\ \A i \in DOMAIN Steered : Steered[i] \in DOMAIN handed /\ handed[Steered[i]] = "steer"
        /\ \A i \in DOMAIN FollowedUp :
             FollowedUp[i] \in DOMAIN handed /\ handed[FollowedUp[i]] = "followUp"
    BY <2>2 DEF HandedInv
  <2> QED
    BY <2>3, <2>4
<1>1. CASE QuietStep
  BY <1>1, QuietKeeps, HandedParts DEF HandedInv
<1>2. CASE AnswerStep
  <2>1. PICK m \in Message : m.role # "user" /\ transcript' = Append(transcript, m)
    BY <1>2, AnswerKeeps
  <2>2. \A p \in DOMAIN transcript' : transcript'[p].role = "user" =>
              p \in DOMAIN transcript /\ transcript'[p] = transcript[p]
    BY <2>1, AppendElements DEF TypeOK
  <2> QED
    BY <1>2, <2>2, AnswerKeeps, HandedParts DEF HandedInv
<1>3. CASE EmitPrompt \/ InjectPending
  <2>1. /\ run.prompts \in Seq(Text) /\ run.pending \in Seq(Text)
        /\ transcript \in Seq(Message)
    BY DEF TypeOK, RunState
  <2>2. PICK t \in Text : transcript' = Append(transcript, User(t)) /\ t \in DOMAIN handed
    <3>1. CASE EmitPrompt
      BY <2>1, <3>1, TailElements, HeadTailProperties DEF EmitPrompt, Emit, HandedInv
    <3>2. CASE InjectPending
      BY <2>1, <3>2, TailElements, HeadTailProperties DEF InjectPending, Emit, HandedInv
    <3> QED
      BY <1>3, <3>1, <3>2
  <2>3. User(t) \in Message /\ User(t).text = t
    BY DEF User, Message
  <2>4. \A p \in DOMAIN transcript' : transcript'[p].role = "user" =>
              \/ p \in DOMAIN transcript /\ transcript'[p] = transcript[p]
              \/ transcript'[p].text \in DOMAIN handed
    BY <2>1, <2>2, <2>3, AppendElements
  <2>5. /\ \A i \in DOMAIN run'.prompts : run'.prompts[i] \in DOMAIN handed
        /\ \A i \in DOMAIN run'.pending : run'.pending[i] \in DOMAIN handed
    <3>1. CASE EmitPrompt
      <4>1. run'.prompts = Tail(run.prompts) /\ run'.pending = run.pending
            /\ run.prompts # <<>>
        BY <3>1 DEF EmitPrompt, TypeOK, RunState
      <4> QED
        BY <2>1, <4>1, TailElements DEF HandedInv
    <3>2. CASE InjectPending
      <4>1. run'.pending = Tail(run.pending) /\ run'.prompts = run.prompts
            /\ run.pending # <<>>
        BY <3>2 DEF InjectPending, TypeOK, RunState
      <4> QED
        BY <2>1, <4>1, TailElements DEF HandedInv
    <3> QED
      BY <1>3, <3>1, <3>2
  <2>6. UNCHANGED <<handed, steering, followUps>>
    BY <1>3 DEF EmitPrompt, InjectPending
  <2> QED
    BY <2>4, <2>5, <2>6, HandedParts
<1>4. CASE InitialPoll \/ PollSteering \/ PollFollowUps \/ RepollSteering
  <2>1. /\ UNCHANGED <<handed, transcript>>
        /\ steering' \in {steering, Rest(steering, SteeringMode)}
        /\ followUps' \in {followUps, Rest(followUps, FollowUpMode)}
        /\ run'.prompts = run.prompts
        /\ run'.pending \in {run.pending, <<>>, Steered, FollowedUp}
    <3>1. CASE RepollSteering
      <4>1. \/ run' = [run EXCEPT !.pc = "inject", !.pending = Steered]
            \/ run' = [run EXCEPT !.pc = "inject"]
        BY <3>1, Zenon DEF RepollSteering, Goto
      <4>2. /\ UNCHANGED <<handed, transcript, followUps>>
            /\ steering' \in {steering, Rest(steering, SteeringMode)}
        BY <3>1 DEF RepollSteering
      <4> QED
        BY <4>1, <4>2 DEF TypeOK, RunState
    <3>2. CASE InitialPoll \/ PollSteering \/ PollFollowUps
      BY <3>2 DEF InitialPoll, PollSteering, PollFollowUps, TypeOK, RunState
    <3> QED
      BY <1>4, <3>1, <3>2
  <2>2. /\ \A i \in DOMAIN run'.prompts : run'.prompts[i] \in DOMAIN handed
        /\ \A i \in DOMAIN run'.pending : run'.pending[i] \in DOMAIN handed
    BY <1>0, <2>1 DEF HandedInv
  <2> QED
    BY <1>0, <2>1, <2>2, HandedParts
<1>5. CASE Prompt
  <2>1. /\ run'.prompts = <<Len(handed')>> /\ run'.pending = <<>>
        /\ UNCHANGED <<transcript, steering, followUps>> /\ HandOver("prompt")
    BY <1>5 DEF Prompt, Start, NoRun
  <2>2. /\ Len(handed') \in DOMAIN handed'
        /\ \A t \in DOMAIN handed : t \in DOMAIN handed' /\ handed'[t] = handed[t]
    BY <2>1, HandedGrows DEF Ways
  <2> QED
    BY <2>1, <2>2, HandedParts
<1>6. CASE Steer
  <2>1. /\ steering' = Append(steering, Len(handed')) /\ HandOver("steer")
        /\ UNCHANGED <<transcript, run, followUps>>
    BY <1>6 DEF Steer
  <2>2. /\ Len(handed') \in DOMAIN handed' /\ handed'[Len(handed')] = "steer"
        /\ \A t \in DOMAIN handed : t \in DOMAIN handed' /\ handed'[t] = handed[t]
    BY <2>1, HandedGrows DEF Ways
  <2>3. steering \in Seq(Nat) /\ Len(handed') \in Nat
    BY SeqMonotonic, AgentAssumption, LenProperties DEF TypeOK, Text
  <2>4. \A i \in DOMAIN steering' :
              \/ \E j \in DOMAIN steering : steering'[i] = steering[j]
              \/ steering'[i] \in DOMAIN handed' /\ handed'[steering'[i]] = "steer"
    BY <2>1, <2>2, <2>3, AppendElements
  <2> QED
    BY <2>1, <2>2, <2>4, HandedParts DEF HandedInv
<1>7. CASE FollowUp
  <2>1. /\ followUps' = Append(followUps, Len(handed')) /\ HandOver("followUp")
        /\ UNCHANGED <<transcript, run, steering>>
    BY <1>7 DEF FollowUp
  <2>2. /\ Len(handed') \in DOMAIN handed' /\ handed'[Len(handed')] = "followUp"
        /\ \A t \in DOMAIN handed : t \in DOMAIN handed' /\ handed'[t] = handed[t]
    BY <2>1, HandedGrows DEF Ways
  <2>3. followUps \in Seq(Nat) /\ Len(handed') \in Nat
    BY SeqMonotonic, AgentAssumption, LenProperties DEF TypeOK, Text
  <2>4. \A i \in DOMAIN followUps' :
              \/ \E j \in DOMAIN followUps : followUps'[i] = followUps[j]
              \/ followUps'[i] \in DOMAIN handed' /\ handed'[followUps'[i]] = "followUp"
    BY <2>1, <2>2, <2>3, AppendElements
  <2> QED
    BY <2>1, <2>2, <2>4, HandedParts DEF HandedInv
<1>8. CASE Continue
  <2>1. PICK prompts \in {<<>>, Steered, FollowedUp}, skip \in BOOLEAN : Start(prompts, skip)
    BY <1>8 DEF Continue
  <2>2. run'.prompts = prompts /\ run'.pending = <<>>
    BY <2>1 DEF Start, NoRun
  <2>3. /\ UNCHANGED <<handed, transcript>>
        /\ steering' \in {steering, Rest(steering, SteeringMode)}
        /\ followUps' \in {followUps, Rest(followUps, FollowUpMode)}
    BY <1>8 DEF Continue
  <2> QED
    BY <1>0, <2>1, <2>2, <2>3, HandedParts
<1> QED
  BY <1>1, <1>2, <1>3, <1>4, <1>5, <1>6, <1>7, <1>8
     DEF Next, CallerNext, LoopNext, LoopStep, QuietStep, AnswerStep, CallStep

\* Messages that were in the transcript before are steering messages as before.
LEMMA SteersStay ==
    ASSUME HandedInv,
           \A t \in DOMAIN handed : t \in DOMAIN handed' /\ handed'[t] = handed[t]
    PROVE  \A p \in DOMAIN transcript :
              (transcript[p].role = "user" /\ handed'[transcript[p].text] = "steer")
                 <=> IsSteer(transcript[p])
  BY DEF HandedInv, IsSteer

\* The transcript as it was, or emptied.
LEMMA SteersSame ==
    ASSUME TypeOK, HandedInv, OneSteerPerTurn,
           \A t \in DOMAIN handed : t \in DOMAIN handed' /\ handed'[t] = handed[t],
           transcript' \in {transcript, <<>>}
    PROVE  OneSteerPerTurn'
<1>1. CASE transcript' = <<>>
  BY <1>1 DEF OneSteerPerTurn
<1>2. CASE transcript' = transcript
  <2>1. DOMAIN transcript = 1..Len(transcript) /\ Len(transcript) \in Nat
    BY LenProperties DEF TypeOK
  <2> QED
    BY <1>2, <2>1, SteersStay DEF OneSteerPerTurn, IsSteer
<1> QED
  BY <1>1, <1>2

\* A message added that is no steering message or does not follow one.
LEMMA SteersAppend ==
    ASSUME TypeOK, HandedInv, OneSteerPerTurn, UNCHANGED handed,
           NEW m \in Message, transcript' = Append(transcript, m),
           ~IsSteer(m) \/ transcript = <<>> \/ ~IsSteer(transcript[Len(transcript)])
    PROVE  /\ OneSteerPerTurn'
           /\ transcript'[Len(transcript')] = m
<1>1. /\ DOMAIN transcript = 1..Len(transcript) /\ Len(transcript) \in Nat
      /\ Len(transcript') = Len(transcript) + 1
      /\ \A p \in 1..Len(transcript) : transcript'[p] = transcript[p]
      /\ transcript'[Len(transcript) + 1] = m
  <2>1. transcript \in Seq(Message)
    BY DEF TypeOK
  <2> QED
    BY <2>1, AppendProperties, LenProperties
<1>2. SUFFICES ASSUME SteeringMode = "one-at-a-time", NEW p \in 2..Len(transcript'),
                      IsSteer(transcript'[p - 1]), IsSteer(transcript'[p])
               PROVE  FALSE
  <2>1. \A p \in 2..Len(transcript') : p - 1 \in {p - 1, p} /\ p \in {p - 1, p}
    OBVIOUS
  <2> QED
    BY <1>1, <2>1 DEF OneSteerPerTurn, IsSteer
<1>3. CASE p = Len(transcript) + 1
  <2>1. transcript'[p] = m /\ p - 1 = Len(transcript) /\ Len(transcript) > 0
    BY <1>1, <1>3
  <2>2. transcript'[p - 1] = transcript[Len(transcript)] /\ transcript # <<>>
    BY <1>1, <2>1
  <2> QED
    BY <1>2, <2>1, <2>2
<1>4. CASE p # Len(transcript) + 1
  <2>1. /\ p \in 2..Len(transcript) /\ transcript'[p] = transcript[p]
        /\ transcript'[p - 1] = transcript[p - 1]
    BY <1>1, <1>4
  <2> QED
    BY <1>2, <2>1 DEF OneSteerPerTurn, IsSteer
<1> QED
  BY <1>3, <1>4

LEMMA SteerStep ==
    ASSUME TypeOK, BatchInv, HandedInv, SteerInv, OneSteerPerTurn,
           TypeOK', [Next]_agentVars
    PROVE  SteerInv' /\ OneSteerPerTurn'
<1> USE DEF queues, history, At
<1>0. /\ run.prompts \in Seq(Text) /\ run.pending \in Seq(Text)
      /\ transcript \in Seq(Message)
  BY DEF TypeOK, RunState
<1>1. SteeringMode = "one-at-a-time" =>
        /\ \A i \in DOMAIN Steered : Len(Steered) = 1
        /\ \A i \in DOMAIN FollowedUp : handed[FollowedUp[i]] # "steer"
  <2>1. /\ steering \in Seq(Text) /\ followUps \in Seq(Text)
        /\ SteeringMode \in QueueModes /\ FollowUpMode \in QueueModes
    BY AgentAssumption DEF TypeOK
  <2>2. \A i \in DOMAIN FollowedUp : i \in DOMAIN followUps /\ FollowedUp[i] = followUps[i]
    BY <2>1, DrainProperties DEF FollowedUp
  <2>3. /\ SteeringMode = "one-at-a-time" => Len(Steered) <= 1
        /\ Steered \in Seq(Text)
    BY <2>1, DrainProperties DEF Steered
  <2>4. Len(Steered) \in Nat /\ DOMAIN Steered = 1..Len(Steered)
    BY <2>3, LenProperties
  <2> QED
    BY <2>2, <2>3, <2>4 DEF HandedInv
<1>2. CASE QuietStep
  <2>1. OneSteerPerTurn'
    BY <1>2, QuietKeeps, SteersSame
  <2>2. SteerInv'
    BY <1>2, QuietKeeps DEF SteerInv, IsSteer
  <2> QED
    BY <2>1, <2>2
<1>3. CASE AnswerStep
  <2>1. PICK m \in Message : m.role # "user" /\ transcript' = Append(transcript, m)
    BY <1>3, AnswerKeeps
  <2>2. OneSteerPerTurn' /\ transcript'[Len(transcript')] = m
    BY <1>3, <2>1, AnswerKeeps, SteersAppend DEF IsSteer
  <2>3. SteerInv'
    BY <1>3, <2>1, <2>2, AnswerKeeps DEF SteerInv, IsSteer
  <2> QED
    BY <2>2, <2>3
<1>4. CASE EmitPrompt
  <2> DEFINE m == User(Head(run.prompts))
  <2>1. /\ run.pc = "prompts" /\ run.prompts # <<>> /\ UNCHANGED handed
        /\ transcript' = Append(transcript, m)
        /\ run'.prompts = Tail(run.prompts) /\ run'.pending = run.pending
        /\ run'.pc = run.pc /\ run'.skip = run.skip
    BY <1>4 DEF EmitPrompt, Emit, TypeOK, RunState
  <2>2. /\ 1 \in DOMAIN run.prompts /\ Head(run.prompts) = run.prompts[1]
        /\ \A i \in DOMAIN Tail(run.prompts) :
             i + 1 \in DOMAIN run.prompts /\ Tail(run.prompts)[i] = run.prompts[i + 1]
        /\ Len(run.prompts) = 1 => Tail(run.prompts) = <<>>
    BY <1>0, <2>1, TailElements
  <2>3. m \in Message /\ m.text = run.prompts[1] /\ m.role = "user"
    BY <1>0, <2>1, <2>2, HeadTailProperties DEF User, Message
  <2> HIDE DEF m
  <2>4. CASE SteeringMode # "one-at-a-time"
    BY <2>4 DEF SteerInv, OneSteerPerTurn
  <2>5. CASE SteeringMode = "one-at-a-time"
    <3>1. transcript = <<>> \/ ~IsSteer(transcript[Len(transcript)])
      BY <2>1, <2>5 DEF SteerInv
    <3>2. OneSteerPerTurn' /\ transcript'[Len(transcript')] = m
      BY <2>1, <2>3, <3>1, SteersAppend
    <3>3. handed[run.prompts[1]] = "steer" => Len(run.prompts) = 1 /\ run.skip
      BY <2>2, <2>5 DEF SteerInv
    <3>4. \A i \in DOMAIN run'.prompts : handed[run'.prompts[i]] # "steer"
      BY <2>1, <2>2, <2>5 DEF SteerInv
    <3>5. \A i \in DOMAIN run'.pending : handed[run'.pending[i]] = "steer" => Len(run'.pending) = 1
      BY <2>1, <2>5 DEF SteerInv
    <3> QED
      BY <2>1, <2>2, <2>3, <3>2, <3>3, <3>4, <3>5 DEF SteerInv, IsSteer
  <2> QED
    BY <2>4, <2>5
<1>5. CASE InjectPending
  <2> DEFINE m == User(Head(run.pending))
  <2>1. /\ run.pc = "inject" /\ run.pending # <<>> /\ UNCHANGED handed
        /\ transcript' = Append(transcript, m)
        /\ run'.pending = Tail(run.pending) /\ run'.prompts = run.prompts
        /\ run'.pc = run.pc /\ run'.skip = run.skip
    BY <1>5 DEF InjectPending, Emit, TypeOK, RunState
  <2>2. /\ 1 \in DOMAIN run.pending /\ Head(run.pending) = run.pending[1]
        /\ \A i \in DOMAIN Tail(run.pending) :
             i + 1 \in DOMAIN run.pending /\ Tail(run.pending)[i] = run.pending[i + 1]
        /\ Len(run.pending) = 1 => Tail(run.pending) = <<>>
    BY <1>0, <2>1, TailElements
  <2>3. m \in Message /\ m.text = run.pending[1] /\ m.role = "user"
    BY <1>0, <2>1, <2>2, HeadTailProperties DEF User, Message
  <2> HIDE DEF m
  <2>4. CASE SteeringMode # "one-at-a-time"
    BY <2>4 DEF SteerInv, OneSteerPerTurn
  <2>5. CASE SteeringMode = "one-at-a-time"
    <3>1. transcript = <<>> \/ ~IsSteer(transcript[Len(transcript)])
      BY <2>1, <2>5 DEF SteerInv
    <3>2. OneSteerPerTurn' /\ transcript'[Len(transcript')] = m
      BY <2>1, <2>3, <3>1, SteersAppend
    <3>3. handed[run.pending[1]] = "steer" => Len(run.pending) = 1
      BY <2>2, <2>5 DEF SteerInv
    <3>4. \A i \in DOMAIN run'.pending : handed[run'.pending[i]] # "steer"
      BY <2>1, <2>2, <2>5 DEF SteerInv
    <3>5. \A i \in DOMAIN run'.prompts :
            handed[run'.prompts[i]] = "steer" => Len(run'.prompts) = 1 /\ run'.skip
      BY <2>1, <2>5 DEF SteerInv
    <3> QED
      BY <2>1, <2>2, <2>3, <3>2, <3>3, <3>4, <3>5 DEF SteerInv, IsSteer
  <2> QED
    BY <2>4, <2>5
<1>6. CASE InitialPoll
  <2>1. /\ UNCHANGED <<handed, transcript>> /\ run.pc = "prompts" /\ run'.pc = "inject"
        /\ run.prompts = <<>> /\ run'.prompts = <<>>
        /\ run'.pending = IF run.skip THEN <<>> ELSE Steered
    BY <1>6 DEF InitialPoll, TypeOK, RunState
  <2> QED
    BY <1>1, <2>1, SteersSame DEF SteerInv, IsSteer
<1>7. CASE PollSteering \/ PollFollowUps \/ RepollSteering
  <2>1. /\ UNCHANGED <<handed, transcript>>
        /\ run.pc \in {"poll", "pollFollowUps", "repoll"}
        /\ run'.prompts = run.prompts /\ run'.skip = run.skip
        /\ run'.pending \in {run.pending, Steered, FollowedUp}
    <3>1. CASE RepollSteering
      <4>1. \/ run' = [run EXCEPT !.pc = "inject", !.pending = Steered]
            \/ run' = [run EXCEPT !.pc = "inject"]
        BY <3>1, Zenon DEF RepollSteering, Goto
      <4>2. UNCHANGED <<handed, transcript>> /\ run.pc = "repoll"
        BY <3>1 DEF RepollSteering
      <4> QED
        BY <4>1, <4>2 DEF TypeOK, RunState
    <3>2. CASE PollSteering \/ PollFollowUps
      BY <3>2 DEF PollSteering, PollFollowUps, TypeOK, RunState
    <3> QED
      BY <1>7, <3>1, <3>2
  <2> QED
    BY <1>1, <2>1, SteersSame DEF SteerInv, IsSteer
<1>8. CASE Continue
  <2>1. PICK prompts, skip :
          /\ Start(prompts, skip)
          /\ \/ prompts = <<>>
             \/ prompts = Steered /\ skip = TRUE
             \/ prompts = FollowedUp
    BY <1>8 DEF Continue
  <2>2. run'.prompts = prompts /\ run'.pending = <<>> /\ run'.skip = skip
    BY <2>1 DEF Start, NoRun
  <2>3. UNCHANGED <<handed, transcript>> /\ run.pc = "idle"
    BY <1>8 DEF Continue, Active
  <2> QED
    BY <1>1, <2>1, <2>2, <2>3, SteersSame DEF SteerInv, IsSteer
<1>9. CASE Prompt
  <2>1. /\ run'.prompts = <<Len(handed')>> /\ run'.pending = <<>>
        /\ UNCHANGED transcript /\ HandOver("prompt") /\ run.pc = "idle"
    BY <1>9 DEF Prompt, Start, NoRun, Active
  <2>2. /\ handed'[Len(handed')] = "prompt"
        /\ \A t \in DOMAIN handed : t \in DOMAIN handed' /\ handed'[t] = handed[t]
    BY <2>1, HandedGrows DEF Ways
  <2>3. OneSteerPerTurn'
    BY <2>1, <2>2, SteersSame
  <2>4. SteeringMode = "one-at-a-time" /\ transcript # <<>> =>
          ~IsSteer(transcript[Len(transcript)])
    BY <2>1 DEF SteerInv
  <2>5. transcript # <<>> => Len(transcript) \in DOMAIN transcript
    BY <1>0, EmptySeq, LenProperties
  <2>6. SteeringMode = "one-at-a-time" /\ transcript' # <<>> =>
          ~(transcript'[Len(transcript')].role = "user"
             /\ handed'[transcript'[Len(transcript')].text] = "steer")
    BY <2>1, <2>2, <2>4, <2>5, SteersStay
  <2>7. \A i \in DOMAIN run'.prompts : handed'[run'.prompts[i]] # "steer"
    BY <2>1, <2>2
  <2> QED
    BY <2>1, <2>3, <2>6, <2>7 DEF SteerInv, IsSteer
<1>10. CASE Steer \/ FollowUp
  <2>1. UNCHANGED <<transcript, run>> /\ \E way \in Ways : HandOver(way)
    BY <1>10 DEF Steer, FollowUp, Ways
  <2>2. \A t \in DOMAIN handed : t \in DOMAIN handed' /\ handed'[t] = handed[t]
    BY <2>1, HandedGrows
  <2>3. OneSteerPerTurn'
    BY <2>1, <2>2, SteersSame
  <2>4. transcript # <<>> => Len(transcript) \in DOMAIN transcript
    BY <1>0, EmptySeq, LenProperties
  <2>5. transcript # <<>> =>
          (IsSteer(transcript[Len(transcript)])
            <=> transcript[Len(transcript)].role = "user"
                  /\ handed'[transcript[Len(transcript)].text] = "steer")
    BY <2>2, <2>4, SteersStay
  <2>6. /\ \A i \in DOMAIN run.prompts : handed'[run.prompts[i]] = handed[run.prompts[i]]
        /\ \A i \in DOMAIN run.pending : handed'[run.pending[i]] = handed[run.pending[i]]
    BY <2>2 DEF HandedInv
  <2> QED
    BY <2>1, <2>3, <2>5, <2>6 DEF SteerInv, IsSteer
<1> QED
  BY <1>2, <1>3, <1>4, <1>5, <1>6, <1>7, <1>8, <1>9, <1>10
     DEF Next, CallerNext, LoopNext, LoopStep, QuietStep, AnswerStep, CallStep

\* With one-at-a-time steering the model answers between two steering messages,
\* whenever they arrive (agent-loop.ts:191-196, agent.ts:371-376, 475-481).
THEOREM SteersAreAnswered == Spec => []OneSteerPerTurn
<1>1. Init => HandedInv /\ SteerInv /\ OneSteerPerTurn
  BY DEF Init, NoRun, HandedInv, SteerInv, OneSteerPerTurn
<1>2. ASSUME TypeOK, BatchInv, HandedInv, SteerInv, OneSteerPerTurn,
             TypeOK', [Next]_agentVars
      PROVE  HandedInv' /\ SteerInv' /\ OneSteerPerTurn'
  BY <1>2, HandedStep, SteerStep
<1> QED
  BY <1>1, <1>2, TypeCorrect, PTL DEF Spec
=============================================================================
