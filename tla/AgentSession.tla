---------------------------- MODULE AgentSession ----------------------------
(***************************************************************************)
(* The session (agent-session.ts) around the agent: it records every       *)
(* message in the session file, retries transient errors, compacts the     *)
(* transcript when the context overflows or fills, continues for messages  *)
(* that were queued too late for the loop, and keeps back what callers add *)
(* to the transcript while a run is going on.                              *)
(*                                                                         *)
(* The agent and its loop are those of module Agent.  The promise of a     *)
(* prompt goes through phases; between two of its awaits other callers and *)
(* the loop may act, except where only a microtask lies between them (the  *)
(* phases "continue" and "settle").                                        *)
(***************************************************************************)
EXTENDS Agent

CONSTANTS
    Callers,         \* calls of prompt() that may be in flight together
    MaxRetries,      \* settings.retry.maxRetries
    MaxNotes,        \* bound: bash results and custom messages
    MaxCompactions   \* bound: compaction entries

ASSUME SessionAssumption ==
    /\ Callers # {}
    /\ MaxRetries \in Nat /\ MaxNotes \in Nat /\ MaxCompactions \in Nat
    /\ Errors = {"transient", "overflow"}
    /\ OtherRoles = {"bashExecution", "custom", "compactionSummary"}

VARIABLES
    active,             \* _isAgentRunActive
    phase,              \* where each caller's prompt() stands
    entries,            \* the session's entries on the current branch
    retryAttempt,       \* _retryAttempt
    overflowAttempted,  \* _overflowRecoveryAttempted
    pendingBash,        \* bash results kept back during a run
    pendingCustom       \* custom messages kept back during a turn

pendings == <<pendingBash, pendingCustom>>
recovery == <<retryAttempt, overflowAttempted>>
sessionVars == <<active, phase, entries, recovery, pendings>>
allVars == <<agentVars, sessionVars>>

SessionInit ==
    /\ Init
    /\ active = FALSE /\ phase = [c \in Callers |-> "idle"]
    /\ entries = <<>> /\ retryAttempt = 0 /\ overflowAttempted = FALSE
    /\ pendingBash = <<>> /\ pendingCustom = <<>>

(***************************************************************************)
(* Entries and the context built from them.  The data of a compaction      *)
(* entry is the first entry it keeps, that of a note does not matter.      *)
(***************************************************************************)
Bash == [role |-> "bashExecution", data |-> 0]
Custom == [role |-> "custom", data |-> 0]
Summary(first) == [role |-> "compactionSummary", data |-> first]

IsSummary(m) == m.role = "compactionSummary"
IsNote(m) == m \in {Bash, Custom}

\* The last compaction entry, or 0.
LastSummary(all) == SelectLastInSeq(all, IsSummary)

BuildContext(all) ==
    LET s == LastSummary(all)
    IN  IF s = 0 THEN all
        ELSE <<all[s]>> \o SubSeq(all, all[s].data, s - 1) \o SubSeq(all, s + 1, Len(all))

\* Where a compaction may cut: never at a tool result, and something must be
\* left to summarize since the last boundary.
CutPoints ==
    LET s == LastSummary(entries)
        boundary == IF s = 0 THEN 1 ELSE entries[s].data
    IN  {i \in boundary..Len(entries) :
            /\ ~IsSummary(Last(entries))
            /\ entries[i].role \notin {"toolResult", "compactionSummary"}
            /\ \E j \in boundary..(i - 1) : ~IsSummary(entries[j])}

CompactAt(first) ==
    /\ Len(SelectSeq(entries, IsSummary)) < MaxCompactions
    /\ entries' = Append(entries, Summary(first))

\* Without its last message if that is a response; retries drop it.
DropResponse(messages) ==
    IF messages # <<>> /\ IsAssistant(Last(messages)) THEN Front(messages) ELSE messages

\* The rebuilt transcript of a run to be continued, without a trailing failure.
DropFailure(messages) ==
    IF IsAssistant(Last(messages)) /\ Last(messages).stop \in Errors \cup {"length"}
    THEN Front(messages) ELSE messages

LastResponse(messages) ==
    LET i == SelectLastInSeq(messages, IsAssistant)
    IN  IF i = 0 THEN Assistant(0, "stop", 0) ELSE messages[i]

\* A message that is newer than the last compaction.
Fresh(m) == \E i \in (LastSummary(entries) + 1)..Len(entries) : entries[i] = m

\* The first overflow is recovered from.  So may a length stop be: if the output
\* ended below the model's limit.
MustRecover(m) == m.stop = "overflow" /\ Fresh(m) /\ ~overflowAttempted
MayRecover(m) == MustRecover(m) \/ (m.stop = "length" /\ Fresh(m) /\ ~overflowAttempted)

(***************************************************************************)
(* The callers.                                                            *)
(***************************************************************************)
\* No caller acts where only a microtask separates two steps of a prompt.
Interruptible == \A c \in Callers : phase[c] \notin {"continue", "settle"}
GoTo(c, next) == phase' = [phase EXCEPT ![c] = next]

\* What was kept back goes to the transcript and the entries, bash results first.
\* Mutated form: custom messages are not recorded.
FlushUnsaved ==
    /\ transcript' = transcript \o pendingBash \o pendingCustom
    /\ entries' = entries \o pendingBash
    /\ pendingBash' = <<>> /\ pendingCustom' = <<>>
Flush ==
    /\ transcript' = transcript \o pendingBash \o pendingCustom
    /\ entries' = entries \o pendingBash \o pendingCustom
    /\ pendingBash' = <<>> /\ pendingCustom' = <<>>

Untouched == UNCHANGED <<queues, pendingCalls, run, responses, history, faults>>

\* prompt() of an idle session.  Of an active one it queues or is refused.
SessionPrompt(c) ==
    /\ Interruptible /\ phase[c] = "idle" /\ ~active
    /\ Len(handed) < MaxTexts
    /\ Flush /\ GoTo(c, "preflight")
    /\ Untouched /\ UNCHANGED <<active, recovery>>

\* No model, no key, or a hook throws.
RefusePrompt(c) ==
    /\ Interruptible /\ phase[c] \in {"preflight", "ready"}
    /\ GoTo(c, "idle")
    /\ UNCHANGED <<agentVars, active, entries, recovery, pendings>>

\* The check before a prompt: as after a run, but nothing is continued, and the
\* session is not active, so that notes are added while a summary is made.
Preflight(c) ==
    LET m == LastResponse(transcript)
    IN  /\ Interruptible /\ phase[c] = "preflight"
        /\ \/ /\ ~MustRecover(m) /\ GoTo(c, "ready")
              /\ UNCHANGED <<transcript, overflowAttempted>>
           \/ /\ Fresh(m) /\ m.stop # "overflow" /\ GoTo(c, "compactFirst")
              /\ UNCHANGED <<transcript, overflowAttempted>>
           \/ /\ MayRecover(m) /\ GoTo(c, "recoverFirst")
              /\ transcript' = DropResponse(transcript) /\ overflowAttempted' = TRUE
        /\ Untouched /\ UNCHANGED <<active, entries, retryAttempt, pendings>>

\* _runAutoCompaction before the prompt; as in Compact it may come to nothing.
CompactFirst(c) ==
    /\ Interruptible /\ phase[c] \in {"compactFirst", "recoverFirst"}
    /\ GoTo(c, "ready")
    /\ \/ UNCHANGED <<transcript, entries>>
       \/ \E first \in CutPoints :
            /\ CompactAt(first)
            /\ transcript' = IF phase[c] = "recoverFirst"
                             THEN DropFailure(BuildContext(entries'))
                             ELSE BuildContext(entries')
    /\ Untouched /\ UNCHANGED <<active, recovery, pendings>>

\* _runAgentPrompt: the session is active from here on, even if the agent
\* refuses because it is running.
StartRun(c) ==
    /\ Interruptible /\ phase[c] = "ready"
    /\ active' = TRUE
    /\ \/ Prompt /\ GoTo(c, "run")
       \/ Active /\ GoTo(c, "settle") /\ UNCHANGED agentVars
    /\ UNCHANGED <<entries, recovery, pendings>>

Queue ==
    /\ Interruptible /\ active
    /\ Steer \/ FollowUp
    /\ UNCHANGED sessionVars

\* A note is kept back while the session is active.
Notes == Len(SelectSeq(entries, IsNote)) + Len(pendingBash) + Len(pendingCustom)
AddNow(note) ==
    /\ transcript' = Append(transcript, note) /\ entries' = Append(entries, note)
    /\ Untouched /\ UNCHANGED pendings

RecordBashResult ==
    /\ Interruptible /\ Notes < MaxNotes
    /\ IF active
       THEN /\ pendingBash' = Append(pendingBash, Bash)
            /\ UNCHANGED <<agentVars, entries, pendingCustom>>
       ELSE AddNow(Bash)
    /\ UNCHANGED <<active, phase, recovery>>

\* Mutated form: a custom message is never kept back.
SendCustomNow ==
    /\ Interruptible /\ Notes < MaxNotes
    /\ AddNow(Custom)
    /\ UNCHANGED <<active, phase, recovery>>
SendCustomMessage ==
    /\ Interruptible /\ Notes < MaxNotes
    /\ IF active
       THEN /\ pendingCustom' = Append(pendingCustom, Custom)
            /\ UNCHANGED <<agentVars, entries, pendingBash>>
       ELSE AddNow(Custom)
    /\ UNCHANGED <<active, phase, recovery>>

(***************************************************************************)
(* After a run of the agent.                                               *)
(***************************************************************************)
\* _handlePostAgentRun ends here: queued messages need a continuation.
\* Mutated form: the queues are not looked at.
GoOnIdle(c) == GoTo(c, "settle")
GoOn(c) == GoTo(c, IF steering \o followUps # <<>> THEN "continue" ELSE "settle")

\* _checkCompaction after a run; what it compacts is decided in Compact.
\* Mutated form: an attempt to recover is not remembered.
AfterRetryForgets(c, m) ==
    \/ /\ MayRecover(m)
       /\ transcript' = DropResponse(transcript)
       /\ GoTo(c, "recover")
       /\ UNCHANGED overflowAttempted
    \/ /\ ~MustRecover(m)
       /\ GoOn(c) /\ UNCHANGED <<transcript, overflowAttempted>>
AfterRetry(c, m) ==
    \/ /\ MayRecover(m)
       /\ overflowAttempted' = TRUE
       /\ transcript' = DropResponse(transcript)
       /\ GoTo(c, "recover")
    \/ /\ Fresh(m) /\ m.stop \notin {"overflow", "aborted"}
       /\ GoTo(c, "compact")
       /\ UNCHANGED <<transcript, overflowAttempted>>
    \/ /\ ~MustRecover(m)
       /\ GoOn(c) /\ UNCHANGED <<transcript, overflowAttempted>>

Retry(c) ==
    /\ retryAttempt' = retryAttempt + 1
    /\ transcript' = DropResponse(transcript)
    /\ GoTo(c, "sleep")
    /\ UNCHANGED overflowAttempted

\* Mutated form: one retry too many.
PostRunOneMore(c) ==
    /\ phase[c] = "run" /\ ~Active
    /\ LastResponse(entries).stop = "transient" /\ retryAttempt <= MaxRetries
    /\ Retry(c)
    /\ Untouched /\ UNCHANGED <<active, entries, pendings>>
PostRun(c) ==
    /\ phase[c] = "run" /\ ~Active
    /\ LET m == LastResponse(entries)
       IN  IF m.stop = "transient" /\ retryAttempt < MaxRetries
           THEN Retry(c)
           ELSE /\ retryAttempt' = IF m.stop \in Errors THEN 0 ELSE retryAttempt
                /\ AfterRetry(c, m)
    /\ Untouched /\ UNCHANGED <<active, entries, pendings>>

\* The backoff ends, or abort() cuts it short.
WakeUp(c) ==
    /\ phase[c] = "sleep"
    /\ GoTo(c, "continue")
    /\ UNCHANGED <<agentVars, active, entries, recovery, pendings>>

AbortRetry(c) ==
    /\ Interruptible /\ phase[c] = "sleep"
    /\ retryAttempt' = 0
    /\ AfterRetry(c, LastResponse(entries))
    /\ cut' = cut \cup {responses}
    /\ UNCHANGED <<queues, pendingCalls, run, responses, handed, discarded, faults,
                   active, entries, pendings>>

SessionAbort == Interruptible /\ Abort /\ UNCHANGED sessionVars

\* _runAutoCompaction succeeds, or it fails, is cancelled or finds nothing to do.
Compact(c) ==
    /\ phase[c] \in {"recover", "compact"}
    /\ \/ GoOn(c) /\ UNCHANGED <<transcript, entries>>
       \/ \E first \in CutPoints :
            /\ CompactAt(first)
            /\ IF phase[c] = "recover"
               THEN /\ transcript' = DropFailure(BuildContext(entries'))
                    /\ GoTo(c, "continue")
               ELSE transcript' = BuildContext(entries') /\ GoOn(c)
    /\ Untouched /\ UNCHANGED <<active, recovery, pendings>>

\* agent.continue(), which throws if the agent has nothing to answer.
MayContinue ==
    /\ ~Active /\ transcript # <<>>
    /\ EndsWithAssistant => steering \o followUps # <<>>
\* Mutated form: nothing catches the refusal.
ContinueUnguarded(c) ==
    /\ phase[c] = "continue"
    /\ Continue /\ GoTo(c, "run")
    /\ UNCHANGED <<active, entries, recovery, pendings>>
ContinueRun(c) ==
    /\ phase[c] = "continue"
    /\ \/ Continue /\ GoTo(c, "run")
       \/ ~MayContinue /\ GoTo(c, "settle") /\ UNCHANGED agentVars
    /\ UNCHANGED <<active, entries, recovery, pendings>>

\* Mutated form: what was kept back is left for the next prompt.
SettleUnflushed(c) ==
    /\ phase[c] = "settle"
    /\ GoTo(c, "idle") /\ active' = FALSE
    /\ Untouched /\ UNCHANGED <<transcript, entries, recovery, pendings>>
Settle(c) ==
    /\ phase[c] = "settle"
    /\ Flush /\ GoTo(c, "idle") /\ active' = FALSE
    /\ Untouched /\ UNCHANGED recovery

(***************************************************************************)
(* The session as a listener and hook of the loop.                         *)
(***************************************************************************)
\* Every message of the loop is recorded; user messages and good responses
\* end a recovery.
Observe ==
    LET new == SubSeq(transcript', Len(transcript) + 1, Len(transcript'))
        Stopped(stops) == \E i \in DOMAIN new : IsAssistant(new[i]) /\ new[i].stop \notin stops
        user == \E i \in DOMAIN new : new[i].role = "user"
    IN  /\ entries' = entries \o new
        /\ overflowAttempted' = (overflowAttempted /\ ~user /\ ~Stopped(Errors \cup {"length"}))
        /\ retryAttempt' = IF Stopped(Errors) THEN 0 ELSE retryAttempt

ObservedStep ==
    /\ LoopStep /\ Observe
    /\ UNCHANGED <<active, phase, pendings>>

\* Custom messages follow the results of a turn; they do not reach the context
\* of the loop.
SessionEndTurn ==
    /\ EndTurn(pendingCustom, FALSE)
    /\ entries' = entries \o pendingCustom /\ pendingCustom' = <<>>
    /\ UNCHANGED <<active, phase, recovery, pendingBash>>

\* _compactBeforeNextAssistantResponse: a compaction gives the loop the new
\* transcript as its context, one that fails the transcript there is.
\* Mutated form: the loop goes on with its old context.
PrepareTurnStale ==
    /\ \/ PrepareNextTurn(run.context) /\ UNCHANGED <<transcript, entries>>
       \/ \E first \in CutPoints :
            /\ CompactAt(first)
            /\ transcript' = BuildContext(entries')
            /\ PrepareNextTurn(run.context)
    /\ UNCHANGED <<active, phase, recovery, pendings>>
PrepareTurn ==
    /\ \/ /\ PrepareNextTurn(run.context) \/ PrepareNextTurn(transcript)
          /\ UNCHANGED <<transcript, entries>>
       \/ \E first \in CutPoints :
            /\ CompactAt(first)
            /\ transcript' = BuildContext(entries')
            /\ PrepareNextTurn(transcript')
    /\ UNCHANGED <<active, phase, recovery, pendings>>

SessionFinishRun == FinishRun /\ UNCHANGED sessionVars

(***************************************************************************)
(* The specification.                                                      *)
(***************************************************************************)
SessionCallers ==
    \/ Queue \/ RecordBashResult \/ SendCustomMessage \/ SessionAbort
    \/ \E c \in Callers : SessionPrompt(c) \/ RefusePrompt(c) \/ AbortRetry(c)

SessionSteps ==
    \/ ObservedStep \/ SessionEndTurn \/ PrepareTurn \/ SessionFinishRun
    \/ \E c \in Callers :
         \/ Preflight(c) \/ CompactFirst(c) \/ StartRun(c) \/ PostRun(c) \/ WakeUp(c)
         \/ Compact(c) \/ ContinueRun(c) \/ Settle(c)

SessionNext == SessionCallers \/ SessionSteps

SessionSpec == SessionInit /\ [][SessionNext]_allVars

\* Provider, tools, timers and summaries answer; callers need not act.
SessionFairSpec == SessionSpec /\ WF_allVars(SessionSteps)

(***************************************************************************)
(* Properties.                                                             *)
(***************************************************************************)
\* What each variable may hold: no more retries than the settings allow are counted
\* (agent-session.ts:2893-2896), and a compaction keeps entries before it.
SessionTypeOK ==
    /\ active \in BOOLEAN /\ overflowAttempted \in BOOLEAN
    /\ phase \in [Callers -> {"idle", "preflight", "compactFirst", "recoverFirst", "ready",
                              "run", "sleep", "recover", "compact", "continue", "settle"}]
    /\ retryAttempt \in 0..MaxRetries
    /\ pendingBash \in Seq({Bash}) /\ pendingCustom \in Seq({Custom})
    /\ \A i \in DOMAIN entries : IsSummary(entries[i]) => entries[i].data \in 1..(i - 1)

\* An idle session has no run of the agent, no retry, compaction or continuation
\* after one, and nothing kept back (agent-session.ts:1106-1119).  This is less than
\* isIdle says at line 925: a prompt that is not yet with the agent may be at work,
\* and line 1254 may compact for it while the session is idle.
BeforeRun == {"idle", "preflight", "compactFirst", "recoverFirst", "ready"}
IdleMeansIdle ==
    ~active =>
        /\ ~Active /\ pendingBash \o pendingCustom = <<>>
        /\ \A c \in Callers : phase[c] \in BeforeRun

\* A list of messages without those in a set.
Without(messages, dropped) ==
    LET kept[n \in 0..Len(messages)] ==
          IF n = 0 THEN <<>>
          ELSE IF messages[n] \in dropped THEN kept[n - 1]
          ELSE Append(kept[n - 1], messages[n])
    IN  kept[Len(messages)]

\* Reloading the session gives the messages the agent has, apart from failed or
\* cut-off responses, which stay recorded when a retry drops them
\* (agent-session.ts:644-714, session-manager.ts:418-454).
Lasting(messages) ==
    Without(messages, [role : {"assistant"}, turn : Nat, calls : 0..MaxCalls,
                       stop : Errors \cup {"length"}])
SessionHoldsTranscript == Lasting(transcript) = Lasting(BuildContext(entries))

\* The model sees the transcript, apart from notes added during the run, also
\* when a compaction rewrites it between two turns (agent-session.ts:543-583).
WithoutNotes(messages) == Without(messages, {Bash, Custom})
ModelSeesSession == At("stream") => WithoutNotes(run.context) = WithoutNotes(transcript)

\* Recovery is bounded: the session does not wait for another retry after as many
\* transient failures in a row as retries allow, nor recover from a second
\* overflow, unless a caller added a message, a response was good or a retry was
\* cancelled in between (agent-session.ts:2166, 2895).
InARow(stop, ignored) ==
    {i \in DOMAIN entries :
        /\ IsAssistant(entries[i]) /\ entries[i].stop = stop
        /\ \A j \in i..Len(entries) :
            /\ entries[j].role # "user" /\ ~IsNote(entries[j])
            /\ IsAssistant(entries[j]) =>
                  entries[j].stop \in ignored \cup {stop} /\ entries[j].turn \notin cut}
RecoveryIsBounded ==
    \A c \in Callers :
        /\ phase[c] = "sleep" => Cardinality(InARow("transient", {})) <= MaxRetries
        /\ phase[c] = "recover" =>
              Cardinality(InARow("overflow", {"transient", "length"})) <= 1

\* A continuation of the session is one that the agent accepts
\* (agent-session.ts:2386-2388).
ContinueIsLegal == \A c \in Callers : phase[c] = "continue" => MayContinue

\* What is queued while the session is active is taken from the queue
\* (agent-session.ts:1146-1148).
QueuedIsDelivered == (active /\ steering \o followUps # <<>>) ~> (steering \o followUps = <<>>)

\* Every prompt settles (agent-session.ts:1106-1119).
SessionSettles == active ~> ~active
=============================================================================
