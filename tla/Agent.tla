------------------------------- MODULE Agent -------------------------------
(***************************************************************************)
(* The agent (agent.ts) and its loop (agent-loop.ts).                      *)
(*                                                                         *)
(* A run starts from a prompt or continues the transcript.  It alternates  *)
(* responses of the model with the tool calls they ask for, and between    *)
(* two turns it injects the messages that callers queued meanwhile:        *)
(* steering messages after every turn, follow-ups when it would stop.      *)
(* The loop keeps its own list of messages, the context that the model     *)
(* sees; the transcript of the agent is fed by the events of the loop.     *)
(*                                                                         *)
(* Callers are concurrent with the loop: whatever they do happens between  *)
(* two of its awaits.  Each action of the loop is the code between two     *)
(* awaits at which something can change.  Event listeners are assumed not  *)
(* to throw; hooks, tools and the provider may.                            *)
(***************************************************************************)
EXTENDS Integers, SequencesExt

CONSTANTS
    OtherRoles,      \* roles of messages that the application puts into the transcript
    MaxTexts,        \* bound: messages that callers hand to the agent
    MaxResponses,    \* bound: responses that may call tools or be cut off
    MaxFailures,     \* bound: responses that may fail
    MaxCalls,        \* bound: tool calls of one response
    MaxFaults,       \* bound: resets, cleared queues and thrown errors
    Errors,          \* stop reasons of failed responses
    SteeringMode,    \* "all" or "one-at-a-time"
    FollowUpMode,    \* "all" or "one-at-a-time"
    ExecutionModes   \* how a batch of calls may be executed, or "truncated"

QueueModes == {"all", "one-at-a-time"}

ASSUME AgentAssumption ==
    /\ MaxTexts \in Nat /\ MaxResponses \in Nat /\ MaxFailures \in Nat
    /\ MaxCalls \in Nat /\ MaxFaults \in Nat
    /\ Errors \cap {"stop", "toolUse", "length", "aborted"} = {}
    /\ OtherRoles \cap {"user", "assistant", "toolResult"} = {}
    /\ {SteeringMode, FollowUpMode} \subseteq QueueModes
    /\ ExecutionModes \subseteq {"parallel", "sequential", "truncated"}

VARIABLES
    transcript,   \* state.messages
    steering,     \* the steering queue
    followUps,    \* the follow-up queue
    pendingCalls, \* state.pendingToolCalls
    run,          \* the active run: where it stands and its local variables
    responses,    \* assistant messages so far; the last one's number
    handed,       \* how each message was handed over (history)
    discarded,    \* messages dropped by a caller or a failing run (history)
    cut,          \* responses whose calls or retry an abort cut off (history)
    faults        \* bounds the model

queues == <<steering, followUps>>
history == <<handed, discarded, cut>>
agentVars == <<transcript, steering, followUps, pendingCalls, run, responses,
               handed, discarded, cut, faults>>

(***************************************************************************)
(* Messages.  A message that a caller hands over is the number of its      *)
(* turn to be handed over.  Of a response only its number, its stop reason *)
(* and the number of its tool calls matter.  Calls in a failed response    *)
(* are never looked at and count as none.                                  *)
(***************************************************************************)
User(t) == [role |-> "user", text |-> t]
Users(texts) == [i \in DOMAIN texts |-> User(texts[i])]
Assistant(n, stop, k) == [role |-> "assistant", turn |-> n, stop |-> stop, calls |-> k]
ToolResult(n, i) == [role |-> "toolResult", turn |-> n, call |-> i]

IsAssistant(m) == m.role = "assistant"
EndsWithAssistant == transcript # <<>> /\ IsAssistant(Last(transcript))

NoRun == [pc |-> "idle", prompts |-> <<>>, pending |-> <<>>, context |-> <<>>,
          skip |-> FALSE, more |-> TRUE, aborted |-> FALSE,
          mode |-> "parallel", calls |-> <<>>, terminate |-> TRUE]

Active == run.pc # "idle"
At(label) == run.pc = label

Init ==
    /\ transcript = <<>> /\ steering = <<>> /\ followUps = <<>>
    /\ pendingCalls = {} /\ run = NoRun /\ responses = 0
    /\ handed = <<>> /\ discarded = {} /\ cut = {} /\ faults = 0

\* What draining a queue takes and what it leaves.
Drained(queue, mode) ==
    IF mode = "all" \/ queue = <<>> THEN queue ELSE <<Head(queue)>>
Rest(queue, mode) == SubSeq(queue, Len(Drained(queue, mode)) + 1, Len(queue))

Steered == Drained(steering, SteeringMode)
FollowedUp == Drained(followUps, FollowUpMode)

(***************************************************************************)
(* The callers.                                                            *)
(***************************************************************************)
\* runWithLifecycle with runAgentLoop: the context holds the prompts at once.
\* Mutated form: a run on messages from the steering queue polls again.
StartPolling(prompts, skip) ==
    run' = [NoRun EXCEPT !.pc = "prompts", !.prompts = prompts,
                         !.context = transcript \o Users(prompts)]
Start(prompts, skip) ==
    run' = [NoRun EXCEPT !.pc = "prompts", !.prompts = prompts, !.skip = skip,
                         !.context = transcript \o Users(prompts)]

\* A new message, handed over in the given way.
HandOver(way) ==
    /\ Len(handed) < MaxTexts
    /\ handed' = Append(handed, way)

Prompt ==
    /\ ~Active
    /\ HandOver("prompt")
    /\ Start(<<Len(handed')>>, FALSE)
    /\ UNCHANGED <<transcript, queues, pendingCalls, responses, discarded, cut, faults>>

\* After an assistant message only queued messages let a run continue; steering
\* messages go first, and the run they start does not poll for more at once.
Continue ==
    /\ ~Active /\ transcript # <<>>
    /\ IF ~EndsWithAssistant
       THEN Start(<<>>, FALSE) /\ UNCHANGED queues
       ELSE \/ /\ steering # <<>>
               /\ Start(Steered, TRUE)
               /\ steering' = Rest(steering, SteeringMode)
               /\ UNCHANGED followUps
            \/ /\ steering = <<>> /\ followUps # <<>>
               /\ Start(FollowedUp, FALSE)
               /\ followUps' = Rest(followUps, FollowUpMode)
               /\ UNCHANGED steering
    /\ UNCHANGED <<transcript, pendingCalls, responses, history, faults>>

Steer ==
    /\ HandOver("steer")
    /\ steering' = Append(steering, Len(handed'))
    /\ UNCHANGED <<transcript, followUps, pendingCalls, run, responses, discarded, cut, faults>>

FollowUp ==
    /\ HandOver("followUp")
    /\ followUps' = Append(followUps, Len(handed'))
    /\ UNCHANGED <<transcript, steering, pendingCalls, run, responses, discarded, cut, faults>>

ClearQueues ==
    /\ faults < MaxFaults
    /\ steering' = <<>> /\ followUps' = <<>>
    /\ discarded' = discarded \cup ToSet(steering \o followUps)
    /\ faults' = faults + 1
    /\ UNCHANGED <<transcript, pendingCalls, run, responses, handed, cut>>

\* A second abort changes nothing.
Abort ==
    /\ Active /\ ~run.aborted
    /\ run' = [run EXCEPT !.aborted = TRUE]
    /\ cut' = IF At("batch") THEN cut \cup {responses} ELSE cut
    /\ UNCHANGED <<transcript, queues, pendingCalls, responses, handed, discarded, faults>>

Reset ==
    /\ ~Active /\ faults < MaxFaults
    /\ transcript' = <<>> /\ steering' = <<>> /\ followUps' = <<>>
    /\ pendingCalls' = {}
    /\ discarded' = DOMAIN handed
    /\ faults' = faults + 1
    /\ UNCHANGED <<run, responses, handed, cut>>

(***************************************************************************)
(* The loop: prompts, polls and injection.                                 *)
(***************************************************************************)
\* A message event of the loop: the agent adds the message to its transcript.
Emit(m) == transcript' = Append(transcript, m)
Goto(label) == run' = [run EXCEPT !.pc = label]

EmitPrompt ==
    /\ At("prompts") /\ run.prompts # <<>>
    /\ Emit(User(Head(run.prompts)))
    /\ run' = [run EXCEPT !.prompts = Tail(@)]
    /\ UNCHANGED <<queues, pendingCalls, responses, history, faults>>

\* The first poll, before the first response.
InitialPoll ==
    /\ At("prompts") /\ run.prompts = <<>>
    /\ run' = [run EXCEPT !.pc = "inject", !.skip = FALSE,
                          !.pending = IF run.skip THEN <<>> ELSE Steered]
    /\ steering' = IF run.skip THEN steering ELSE Rest(steering, SteeringMode)
    /\ UNCHANGED <<transcript, followUps, pendingCalls, responses, history, faults>>

\* Mutated form: the injected message is not put into the context.
InjectEventOnly ==
    /\ At("inject") /\ run.pending # <<>>
    /\ Emit(User(Head(run.pending)))
    /\ run' = [run EXCEPT !.pending = Tail(@)]
    /\ UNCHANGED <<queues, pendingCalls, responses, history, faults>>
InjectPending ==
    /\ At("inject") /\ run.pending # <<>>
    /\ Emit(User(Head(run.pending)))
    /\ run' = [run EXCEPT !.pending = Tail(@),
                          !.context = Append(@, User(Head(run.pending)))]
    /\ UNCHANGED <<queues, pendingCalls, responses, history, faults>>

\* The poll after a turn.  The loop goes on for more calls or messages.
PollSteering ==
    /\ At("poll")
    /\ run' = [run EXCEPT !.pending = Steered,
                          !.pc = IF run.more \/ Steered # <<>> THEN "prepare" ELSE "pollFollowUps"]
    /\ steering' = Rest(steering, SteeringMode)
    /\ UNCHANGED <<transcript, followUps, pendingCalls, responses, history, faults>>

PollFollowUps ==
    /\ At("pollFollowUps")
    /\ run' = [run EXCEPT !.pending = FollowedUp,
                          !.pc = IF FollowedUp # <<>> THEN "prepare" ELSE "ending"]
    /\ followUps' = Rest(followUps, FollowUpMode)
    /\ UNCHANGED <<transcript, steering, pendingCalls, responses, history, faults>>

\* The hook may take long and may hand back another context.
PrepareNextTurn(context) ==
    /\ At("prepare")
    /\ run' = [run EXCEPT !.pc = "repoll", !.context = context]
    /\ UNCHANGED <<queues, pendingCalls, responses, history, faults>>

\* What was queued meanwhile is picked up only if nothing is pending yet.
\* Mutated form: it is always picked up, and replaces what is pending.
RepollAlways ==
    /\ At("repoll")
    /\ run' = [run EXCEPT !.pc = "inject", !.pending = Steered]
    /\ steering' = Rest(steering, SteeringMode)
    /\ UNCHANGED <<transcript, followUps, pendingCalls, responses, history, faults>>
RepollSteering ==
    /\ At("repoll")
    /\ IF run.pending = <<>>
       THEN /\ run' = [run EXCEPT !.pc = "inject", !.pending = Steered]
            /\ steering' = Rest(steering, SteeringMode)
       ELSE Goto("inject") /\ UNCHANGED steering
    /\ UNCHANGED <<transcript, followUps, pendingCalls, responses, history, faults>>

(***************************************************************************)
(* The loop: the response of the model.                                    *)
(***************************************************************************)
CallModel ==
    /\ At("inject") /\ run.pending = <<>>
    /\ Goto("stream")
    /\ UNCHANGED <<transcript, queues, pendingCalls, responses, history, faults>>

\* The final message replaces the partial one in the context.
Receive(stop, k, next) ==
    LET m == Assistant(responses + 1, stop, k)
    IN  /\ Emit(m)
        /\ responses' = responses + 1
        /\ run' = [next EXCEPT !.context = Append(@, m)]
        /\ cut' = IF run.aborted /\ k > 0 THEN cut \cup {responses + 1} ELSE cut
        /\ UNCHANGED <<queues, pendingCalls, handed, discarded, faults>>

RespondFailed ==
    /\ At("stream")
    /\ \E stop \in Errors \cup {"aborted"} :
        /\ stop = "aborted" => run.aborted
        /\ stop \in Errors => responses < MaxFailures
        /\ Receive(stop, 0, [run EXCEPT !.pc = "failed"])

Respond ==
    /\ At("stream")
    /\ \E stop \in {"stop", "length"} :
        /\ stop = "length" => responses < MaxResponses
        /\ Receive(stop, 0, [run EXCEPT !.pc = "turnEnd", !.more = FALSE])

\* A response with tool calls; "length" means that it was cut off.
RespondWithCalls ==
    /\ At("stream") /\ responses < MaxResponses
    /\ \E k \in 1..MaxCalls, mode \in ExecutionModes :
        Receive(IF mode = "truncated" THEN "length" ELSE "toolUse", k,
                [run EXCEPT !.pc = "batch", !.mode = mode, !.terminate = TRUE,
                            !.calls = [i \in 1..k |-> "todo"]])

\* The provider call or a hook throws: handleRunFailure adds a failed response,
\* and what was drained but not injected is lost.
Throw ==
    /\ At("stream") \/ At("prepare") \/ At("turnEnd")
    /\ faults < MaxFaults /\ faults' = faults + 1
    /\ \E stop \in Errors \cup {"aborted"} :
        /\ (stop = "aborted") <=> run.aborted
        /\ Emit(Assistant(responses + 1, stop, 0))
    /\ responses' = responses + 1
    /\ discarded' = discarded \cup ToSet(run.pending)
    /\ run' = [run EXCEPT !.pc = "failed", !.pending = <<>>]
    /\ UNCHANGED <<queues, pendingCalls, handed, cut>>

(***************************************************************************)
(* The loop: the tool calls of one response.  A call is "todo", "started"  *)
(* (its start was emitted), "ready" (prepared), "running", "done"          *)
(* (finalized), "sent" (its result message was emitted) or "skipped".      *)
(***************************************************************************)
Call(i) == <<responses, i>>
All(statuses) == \A i \in DOMAIN run.calls : run.calls[i] \in statuses
CallIs(i, status) == At("batch") /\ i \in DOMAIN run.calls /\ run.calls[i] = status

\* The loop comes to a call: in a parallel batch when the one before is prepared
\* or refused, otherwise when its result was sent.
IsNext(i) ==
    /\ CallIs(i, "todo")
    /\ \A j \in 1..(i - 1) :
          IF run.mode = "parallel" THEN run.calls[j] \notin {"todo", "started"}
          ELSE run.calls[j] = "sent"

\* Before every call but the first the loop looks whether the run was aborted.
\* The calls of a truncated response are all refused, aborted or not.
GivesUp(i) == i > 1 /\ run.aborted /\ run.mode # "truncated"

StartCall(i) ==
    /\ IsNext(i) /\ ~GivesUp(i)
    /\ run' = [run EXCEPT !.calls[i] = "started"]
    /\ pendingCalls' = pendingCalls \cup {Call(i)}
    /\ UNCHANGED <<transcript, queues, responses, history, faults>>

SkipCalls(i) ==
    /\ IsNext(i) /\ GivesUp(i)
    /\ run' = [run EXCEPT !.calls =
                 [j \in DOMAIN @ |-> IF j >= i THEN "skipped" ELSE @[j]]]
    /\ UNCHANGED <<transcript, queues, pendingCalls, responses, history, faults>>

\* prepareToolCall fails (no such tool, invalid arguments, blocked, aborted), or
\* the response was truncated: the call is finalized unexecuted.
RefuseCall(i) ==
    /\ CallIs(i, "started")
    /\ \E terminate \in BOOLEAN :
        /\ terminate => run.mode # "truncated" /\ ~run.aborted
        /\ run' = [run EXCEPT !.calls[i] = "done", !.terminate = @ /\ terminate]
    /\ pendingCalls' = pendingCalls \ {Call(i)}
    /\ UNCHANGED <<transcript, queues, responses, history, faults>>

PrepareCall(i) ==
    /\ CallIs(i, "started")
    /\ run.mode # "truncated" /\ ~run.aborted
    /\ run' = [run EXCEPT !.calls[i] =
                 IF run.mode = "parallel" THEN "ready" ELSE "running"]
    /\ UNCHANGED <<transcript, queues, pendingCalls, responses, history, faults>>

\* When the last call of a parallel batch is prepared, all start together,
\* unless the run was aborted meanwhile.
\* Mutated form: prepared calls start in any case.
LaunchAnyway ==
    /\ At("batch") /\ All({"ready", "done", "skipped"}) /\ ~All({"done", "skipped"})
    /\ run' = [run EXCEPT !.calls =
                 [i \in DOMAIN @ |-> IF @[i] = "ready" THEN "running" ELSE @[i]]]
    /\ UNCHANGED <<transcript, queues, pendingCalls, responses, history, faults>>
LaunchCalls ==
    LET ready == {i \in DOMAIN run.calls : run.calls[i] = "ready"}
    IN  /\ At("batch") /\ All({"ready", "done", "skipped"}) /\ ready # {}
        /\ run' = [run EXCEPT !.terminate = @ /\ ~run.aborted,
                     !.calls = [i \in DOMAIN @ |->
                        IF i \notin ready THEN @[i]
                        ELSE IF run.aborted THEN "done" ELSE "running"]]
        /\ pendingCalls' = IF run.aborted THEN pendingCalls \ {Call(i) : i \in ready}
                           ELSE pendingCalls
        /\ UNCHANGED <<transcript, queues, responses, history, faults>>

\* A tool returns or throws, in any order, and its result is finalized.
\* Mutated form: the call stays among the pending ones.
FinishCallPending(i) ==
    /\ CallIs(i, "running")
    /\ \E terminate \in BOOLEAN :
        run' = [run EXCEPT !.calls[i] = "done", !.terminate = @ /\ terminate]
    /\ UNCHANGED <<transcript, queues, pendingCalls, responses, history, faults>>
FinishCall(i) ==
    /\ CallIs(i, "running")
    /\ \E terminate \in BOOLEAN :
        run' = [run EXCEPT !.calls[i] = "done", !.terminate = @ /\ terminate]
    /\ pendingCalls' = pendingCalls \ {Call(i)}
    /\ UNCHANGED <<transcript, queues, responses, history, faults>>

\* Result messages go out in the order of the calls: in a parallel batch when
\* all are done, otherwise before the next call begins.
\* Mutated form: a result goes out when its call is done.
SendWhenDone(i) ==
    /\ CallIs(i, "done")
    /\ Emit(ToolResult(responses, i))
    /\ run' = [run EXCEPT !.calls[i] = "sent"]
    /\ UNCHANGED <<queues, pendingCalls, responses, history, faults>>
SendResult(i) ==
    /\ CallIs(i, "done")
    /\ run.mode = "parallel" => All({"done", "sent", "skipped"})
    /\ \A j \in 1..(i - 1) : run.calls[j] = "sent"
    /\ Emit(ToolResult(responses, i))
    /\ run' = [run EXCEPT !.calls[i] = "sent"]
    /\ UNCHANGED <<queues, pendingCalls, responses, history, faults>>

\* The batch returns: its results enter the context.
\* Mutated form: it waits for a result of every call.
EndBatchAllSent ==
    LET sent == {i \in DOMAIN run.calls : run.calls[i] = "sent"}
    IN  /\ At("batch") /\ All({"sent"})
        /\ run' = [run EXCEPT !.pc = "turnEnd", !.calls = <<>>,
                     !.more = run.mode = "truncated" \/ ~run.terminate,
                     !.context = @ \o [i \in sent |-> ToolResult(responses, i)]]
        /\ UNCHANGED <<transcript, queues, pendingCalls, responses, history, faults>>
EndBatch ==
    LET sent == {i \in DOMAIN run.calls : run.calls[i] = "sent"}
    IN  /\ At("batch") /\ All({"sent", "skipped"})
        /\ run' = [run EXCEPT !.pc = "turnEnd", !.calls = <<>>,
                     !.more = run.mode = "truncated" \/ ~run.terminate,
                     !.context = @ \o [i \in sent |-> ToolResult(responses, i)]]
        /\ UNCHANGED <<transcript, queues, pendingCalls, responses, history, faults>>

(***************************************************************************)
(* The end of a turn and of a run.  Listeners of turn_end may append to    *)
(* the transcript.  shouldStopAfterTurn may stop the run.                  *)
(***************************************************************************)
EndTurn(appended, mayStop) ==
    /\ At("turnEnd") \/ At("failed")
    /\ transcript' = transcript \o appended
    /\ \/ At("failed") /\ Goto("ending")
       \/ mayStop /\ Goto("ending")
       \/ At("turnEnd") /\ Goto("poll")
    /\ UNCHANGED <<queues, pendingCalls, responses, history, faults>>

FinishRun ==
    /\ At("ending")
    /\ run' = NoRun /\ pendingCalls' = {}
    /\ UNCHANGED <<transcript, queues, responses, history, faults>>

(***************************************************************************)
(* The specification.                                                      *)
(***************************************************************************)
\* Steps of the loop that leave the transcript's past alone.
LoopStep ==
    \/ EmitPrompt \/ InitialPoll \/ InjectPending \/ CallModel
    \/ PollSteering \/ PollFollowUps \/ RepollSteering
    \/ Respond \/ RespondFailed \/ RespondWithCalls
    \/ \E i \in 1..MaxCalls :
         \/ StartCall(i) \/ SkipCalls(i) \/ RefuseCall(i) \/ PrepareCall(i)
         \/ FinishCall(i) \/ SendResult(i)
    \/ LaunchCalls \/ EndBatch

LoopNext ==
    \/ LoopStep
    \/ PrepareNextTurn(run.context) /\ UNCHANGED transcript
    \/ EndTurn(<<>>, TRUE)
    \/ FinishRun

CallerNext == Prompt \/ Continue \/ Steer \/ FollowUp \/ ClearQueues \/ Abort \/ Reset

Next == CallerNext \/ LoopNext \/ Throw

Spec == Init /\ [][Next]_agentVars

\* The loop, the provider and the tools keep going; callers need not.
FairSpec == Spec /\ WF_agentVars(LoopNext)

(***************************************************************************)
(* Properties.                                                             *)
(***************************************************************************)
Ways == {"prompt", "steer", "followUp"}
Text == 1..MaxTexts
Message == [role : {"user"}, text : Text]
           \cup [role : {"assistant"}, turn : Nat, calls : 0..MaxCalls,
                 stop : Errors \cup {"stop", "toolUse", "length", "aborted"}]
           \cup [role : {"toolResult"}, turn : Nat, call : 1..MaxCalls]
           \cup [role : OtherRoles, data : Nat]
\* A call that was started and has not ended.
Unended == {"started", "ready", "running"}
RunState ==
    [pc : {"idle", "prompts", "inject", "stream", "batch", "turnEnd", "failed",
           "poll", "pollFollowUps", "prepare", "repoll", "ending"},
     prompts : Seq(Text), pending : Seq(Text), context : Seq(Message),
     skip : BOOLEAN, more : BOOLEAN, aborted : BOOLEAN,
     mode : {"parallel", "sequential", "truncated"}, terminate : BOOLEAN,
     calls : Seq({"todo", "started", "ready", "running", "done", "sent", "skipped"})]

\* Type invariant: what each variable may hold; the pending calls are those that
\* were started and have not ended (agent.ts:544-575).
TypeOK ==
    /\ transcript \in Seq(Message)
    /\ steering \in Seq(Text) /\ followUps \in Seq(Text)
    /\ pendingCalls = {Call(i) : i \in {j \in DOMAIN run.calls :
                                         run.calls[j] \in Unended}}
    /\ run \in RunState
    /\ responses \in Nat /\ faults \in Nat
    /\ handed \in Seq(Ways) /\ discarded \subseteq Nat /\ cut \subseteq Nat

\* Whenever the model is asked, it sees exactly the agent's transcript, although
\* the loop and the agent keep their lists of messages apart and fill them at
\* different moments (agent-loop.ts:104-115 and 200-241,
\* agent.ts:554-557).
ModelSeesTranscript == At("stream") => run.context = transcript

\* What was handed over in one way is delivered in that order, once, and is lost
\* only if a caller faults it or a run fails with it in hand: it is in the
\* transcript, with the run, or still queued (agent.ts:125-159, 475-482).
InOrder(way, queue) ==
    LET all == transcript \o Users(run.prompts \o run.pending \o queue)
        own == {p \in DOMAIN all : all[p].role = "user" /\ handed[all[p].text] = way}
    IN  /\ {all[p].text : p \in own} = {t \in DOMAIN handed : handed[t] = way} \ discarded
        /\ \A p, q \in own : p < q => all[p].text < all[q].text
QueuesKeepOrder ==
    /\ InOrder("prompt", <<>>)
    /\ InOrder("steer", steering)
    /\ InOrder("followUp", followUps)

\* With one-at-a-time steering the model answers between two steering messages
\* (agent-loop.ts:191-196, agent.ts:371-376, 475-481).
OneSteerPerTurn ==
    SteeringMode = "one-at-a-time" =>
        \A p \in 2..Len(transcript) :
            ~ \A q \in {p - 1, p} : /\ transcript[q].role = "user"
                                    /\ handed[transcript[q].text] = "steer"

\* The results of a response follow it at once and in the order of its calls, none
\* twice and none missing, unless the run was aborted during the batch: then the
\* later ones are missing (agent-loop.ts:431-561).
CallsAreAnswered ==
    \A p \in DOMAIN transcript :
        LET m == transcript[p]
        IN  /\ m.role = "toolResult" =>
                /\ p > 1
                /\ LET before == transcript[p - 1]
                   IN  IF IsAssistant(before) THEN before.turn = m.turn /\ m.call = 1
                       ELSE before = ToolResult(m.turn, m.call - 1)
            /\ IsAssistant(m) /\ m.turn \notin cut /\ ~(At("batch") /\ m.turn = responses) =>
                \A i \in 1..m.calls :
                    p + i \in DOMAIN transcript /\ transcript[p + i] = ToolResult(m.turn, i)

\* After an abort no tool starts, not even one that was prepared before
\* (agent-loop.ts:520-529, 636-661).
AbortStartsNoTool ==
    [][\A i \in DOMAIN run.calls \cap DOMAIN run'.calls :
          run.calls[i] # "running" /\ run'.calls[i] = "running" => ~run.aborted]_agentVars

\* Every run ends: aborted, failed or answered, with whatever calls and queued
\* messages (agent-loop.ts:156-273, agent.ts:486-535).
RunsEnd == Active ~> ~Active
=============================================================================
