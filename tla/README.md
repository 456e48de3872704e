# Ramanujan in TLA+

Ramanujan is a workbench for research mathematics: a TypeScript agent session that
talks to the user, and a Python engine that computes every verdict.  The session
spawns the engine as a subprocess, one process per command; all durable state is one
append-only file, `journal.jsonl`, that every process replays when it starts and
appends to when it has something to say.  The session itself is built on an agent loop
that alternates model responses and tool calls while its callers steer, abort and add
to it.  This directory specifies the parts of that design that tests reach badly:
several processes on one journal without a lock, ids minted by two runtimes, commands
killed by a timeout, decisions taken from a journal that has grown since it was read;
and in the session, messages queued at any moment of a run, tool calls cut off in the
middle, and a transcript that retries and compactions rewrite.

## 1. The system

| component | state | operations | correct when |
|---|---|---|---|
| Journal (`journal.py`, `config/src/journal.ts`) | the lines of the file | append one line, replay all lines | it only grows, and replaying it gives every process the same past |
| Worktree store (`worktree.py`) | records and id counter, rebuilt per process | spawn, set status, fold | ids are unique, a status changes only on command |
| Claims board (`claims.py`, `dispatcher.py`) | claims and id counter, rebuilt per process | post a claim (post, kill-check, route), fold | ids are never reused, every claim is routed |
| Panel service (`panel_service.py`, `families.py`) | none | decide a path, record routing and verdict | a verdict rests on a recorded decision, Tier 0 keeps its authority, panels are independent |
| Reliability table (`reliability.py`) | counters per tag, rebuilt per request | rebuild, allow or downgrade | feedback follows the recorded panels |
| Orchestrator (`orchestrator.py`) | all of the above, last activity, budgets | panel requests, stalls, progress, contradictions, checkpoint C | stalls are found, summaries are complete |
| Question queue (`questions.py`) | id counter, rebuilt per process | post, answer, default on timeout | an answer is never replaced by a default, a default is never early |
| Engine checkpoints (`checkpoint.py`, the five stage commands) | id counter, rebuilt per process | propose | one id sequence with the session |
| Session checkpoints (`checkpoints.ts`, `extension.ts`) | records by id, id counter | adopt, propose, confirm, revise, rehydrate | decisions are kept, ids are unique, the journal agrees |
| Kill-check (`killcheck/`, `budget.py`) | none | search phases under a budget, double verification | a survival without caveat was searched to the end |
| Agent loop (`agent.ts`, `agent-loop.ts`) | transcript, two message queues, pending tool calls, the run | prompt, continue, steer, follow up, abort, reset, clear; the loop's turns | the model sees the transcript, no message is lost or reordered, every call is answered, every run ends |
| Agent session (`agent-session.ts`) | session entries, retry and recovery state, kept-back notes | prompt, queue, add a note, abort; retry, compact, continue, settle | file and transcript agree, recovery is bounded, what is queued is delivered, idle means no run and nothing kept back |
| Panel debate (`panel.ts`), card gate (`pendingCards.ts`) | positions; cards by id | sealed and open round; propose, confirm, edit, reject | not reached by the program, see section 6 |
| Consolidation, initialiser, literature, reviewer | none | long work, then one checkpoint | labels agree with the checks, refusal and failure are told apart |
| Bridge (`bridge.ts`) | none | run one engine command with a timeout | a failed command is never taken for a result |
| Providers, presets, configuration, Lean, terminal interface, extensions | files, network, screen | | outside the models |

Processes of the engine meet only in the journal, and in the JSON that a finished
command prints for the tool call that started it.  The session drives the agent through
`prompt`, `continue`, the queues and `abort`, and hears of the loop through its events
and two hooks (before a tool call, before the next turn).  What makes this hard:

* **Interleaving.** The agent loop runs the tool calls of one turn in parallel
  (`agent-loop.ts:409-424`), and users run engine commands from a terminal beside the
  session.  Nothing locks the journal.
* **Stale reads.** Each command replays first and writes later, seconds or minutes
  later for the commands that call a model.
* **Kills.** The bridge kills a command that exceeds its timeout (`bridge.ts:71-102`)
  and reports a failure, whether or not the command had written.
* **Two runtimes, one id sequence.** Engine and session both mint `cp_NNN`.
* **Restarts.** A session keeps decisions in memory and starts with none.
* **Swallowed failures.** Checkpoint events are written under `contextlib.suppress`
  or `try {} catch {}`.
* **Callers beside a run.** Every await of the loop and of a prompt lets other callers
  act: they queue messages, abort, or record notes between a tool call and its result.
* **Two lists of messages.** The loop works on its own context, the agent keeps a
  transcript, the session a file; events and compactions must keep the three together.
* **Recoveries that meet.** Retry, overflow recovery, compaction and continuation follow
  one another in any order, each leaving state for the next.

PROJECT.json lists these and the smaller hazards at their lines.

## 2. The modules

| module | role |
|---|---|
| `BoardJournal` | the events of the claims board and every fold over them; no state |
| `EngineBoard` | the engine commands on the board, as processes over one journal |
| `ClaimLedger` | what the board promises: an abstract ledger of claims |
| `Checkpoints` | the checkpoints in the engine, the journal and the session |
| `Questions` | the question queue: post, answer and check-timeouts over one journal and its mirror |
| `KillCheck` | the search for a counterexample of one claim under its time budget |
| `Orchestrator` | worktrees, claims, budgets and stalls in the memory of a process; extends `KillCheck` |
| `Agent` | the agent and its loop, with their callers |
| `AgentSession` | the session around the agent; extends `Agent` |
| `MCEngineBoard`, `MCCheckpoints`, `MCQuestions`, `MCOrchestrator` | values of the constants for TLC |
| `Maxima` | lemmas about `Max`, bounds of finite lists, and induction up to a bound |
| `EngineBoardProofs`, `CheckpointsProofs`, `QuestionsProofs`, `OrchestratorProofs` | the theorems about the engine and its journal |
| `AgentProofs`, `AgentQueueProofs`, `AgentSessionProofs` | the theorems about the agent and the session |

### The claims board: `BoardJournal`, `EngineBoard`

`journal` is the file.  An event is a record with the fields some fold reads; ids are
the numbers in `wt_NNN` and `c_NNN`.  Cards are constants with two attributes: their
tags and whether Tier 0 has a check (`is_tier0_applicable`).  A preset is the set of
families it covers, which is all that the panel looks at.

`run[p]` is the process in slot `p`: the step it is about to take, and the local
variables it carries from one step to the next.  A step boundary lies wherever the
code touches the file:

| command | steps | code |
|---|---|---|
| `worktree spawn` | `SpawnRead`, `SpawnWrite`, `SpawnRunning` | `cli.py:703-727`, `worktree.py:25-38` |
| `worktree status` | `StatusRead`, `StatusWrite` | `cli.py:744-766`, `worktree.py:40-52` |
| `claim post` | `PostRead`, `PostWrite`, `CheckWrite`, `RouteWrite` | `cli.py:789-837`, `dispatcher.py:51-115` |
| `orchestrator request-panel` | `PanelRead`, `PanelDecide`, `PanelRecord`, `PanelVerdictWrite` | `orchestrator.py:464-502`, `panel_service.py:148-243` |
| timeout | `Kill` | `bridge.ts:71-102` |

`started` counts commands (the bound of the model), `orphans` remembers the claims
whose post was killed after it appeared on the board (a history variable for the
liveness property).

Abstractions.  The kill-check of a claim is one event: which of its lines are written
depends on the search, and no fold reads them.  `request-panel` replays the journal a
few times before it decides; `PanelRead` is the last replay that feeds its locals and
`PanelDecide` the replay behind the decision (the attempted test for cards with a
check, the reliability table for the others).  A command that ends with an error
writes nothing, and is a stuttering step.  Events that no fold of the board reads
(`llm_call`, `panel_advisory`, `lean_verified`) are left out, and so are failed and
torn appends.

The card a panel judges is an input.  On the command line it always comes from the
caller's file (`cli.py:1603`) and is not compared with the board; through
`Orchestrator.request_panel` it may be omitted and is then read from the board.
`CardArgs` is the set of cards callers pass, `FromBoard` among them.  The runs let
panels judge the board's card; section 5 says what happens with any other.

### The checkpoints: `Checkpoints`

`journal` holds the checkpoint events only.  `records` and `counter` are the session's
store; `calls[c]` is the engine command that a tool call waits for.  `EngineMint`,
`EngineWrite` and `ToolAdopt` are the read, the append and the adoption of one of the
commands `initialise`, `literature`, `consolidate` and `review`; `ProposeOwn` is
`worktree_status`, the one tool that mints in the session; `Respond` is
`checkpoint_respond` with the adoption it may begin with; `Slash` is the slash command;
`Timeout` is the bridge's kill; `Restart` replaces the session, and a command still
under way goes on writing with nobody to hear it.  `BestEffort` is a write whose failure
is swallowed.

A session that confirms or revises executes synchronously in one event-loop turn, so
each of these is one action.  A tool call that finds no id in the engine's report
mints in the session (`extension.ts:445-446`); the engine always reports one
(`consolidation.py:286-287`), so this is left out.  The engine's own `confirm` and `revise`
(`checkpoint.py:72-109`) are called by no command and are left out; so is
`checkpoint propose-c` from a terminal, which mints like the other engine commands for
the session's own stage.

### The question queue: `Questions`

`journal` holds the question events only, `mirror` is `shared/questions.jsonl`, `now`
a clock that ticks between any two steps.  `run[p]` is as on the board:

| command | steps | code |
|---|---|---|
| `question post` | `PostRead`, `PostWrite`, `MirrorWrite` | `questions.py:45-90` |
| `question answer` | `AnswerWrite`, `MirrorWrite` | `questions.py:92-97` |
| `question check-timeouts` | `CheckRead`, then `DefaultWrite` and `MirrorWrite` for each expired question | `questions.py:99-134` |
| timeout | `Kill` | `bridge.ts:71-102` |

What is asked is one of a few constants, each with its `Timeout`.  A default carries
the time at which it was written (the journal stamps every line), which lets
`DefaultsAreDue` compare it with the posting.  A check that finds nothing expired
writes nothing and is a stuttering step.  `MirrorWrite` appends or fails: the code
suppresses the failure and goes on.  A failed append to the journal is left out.  The
code defaults the expired questions in the order of their posting; the model allows any
order.  Nothing in the session runs `check-timeouts` by itself, so no fairness obliges
anyone to start one.

### The orchestrator and the kill-check: `Orchestrator`, `KillCheck`

One process at a time works on the worktrees of a session (`EngineBoard` has the
concurrent ones).  `journal` holds the lines about worktrees, `progress` the last
progress report of each.  `status`, `last` and `budget` are the process's memory:
the store's records, `_last_activity` and `_budgets`.  `Start` rebuilds it from the
journal (`orchestrator.py:82-139`), `End` ends or kills the process anywhere, also
while it checks a claim.

| code | actions |
|---|---|
| `spawn_worktree`, `set_status` | `SpawnWorktree`, `SetStatus` |
| `post_and_check_claim` | `RefuseClaim`; `PostClaim`, then `CheckClaim` steps, then `FinishClaim` |
| `record_progress`, `check_stalls` | `RecordProgress`, `CheckStalls` |
| `killcheck_card` | `CheckBudget`, `EndPhase`, `Verify`, `Conclude` |

A search looks at its time budget before and after every phase; the clock may tick
between any two steps.  What a phase finds and whether the second evaluation agrees is
left open, and a phase that raises is one that found nothing.  `report` is what a check
for stalls returned, for the property about it alone; every other action clears it.
A spawn's two lines are one step here and appends succeed.  `post_and_check_claim` is
reached in process only (by tests and by programs that embed the engine); the command
`claim post` uses the dispatcher, which `EngineBoard` models.

### The agent and its loop: `Agent`

`transcript`, `steering`, `followUps` and `pendingCalls` are the agent's state; `run`
is the loop: where it stands (`pc`) and its local variables, among them `context`, the
messages that the model sees, and `calls`, the state of each tool call of the current
batch.  A message that a caller hands over is a number, a response its number, stop
reason and count of tool calls; `handed`, `discarded` and `cut` are history variables.
`OtherRoles` are the roles of the messages that a program around the agent may add to the
transcript (notes and summaries of the session); the agent alone has none.

| code | actions |
|---|---|
| `prompt`, `continue`, `steer`, `followUp`, `clear...`, `abort`, `reset` | `Prompt` ... `Reset` |
| prompts and polls (`agent-loop.ts:96-209, 257-270`) | `EmitPrompt`, `InitialPoll`, `InjectPending`, `PollSteering`, `PollFollowUps`, `PrepareNextTurn`, `RepollSteering` |
| `streamAssistantResponse` | `CallModel`, then `Respond`, `RespondFailed`, `RespondWithCalls` or `Throw` |
| a batch of tool calls, parallel, sequential or of a truncated response | `StartCall`, `SkipCalls`, `RefuseCall`, `PrepareCall`, `LaunchCalls`, `FinishCall`, `SendResult`, `EndBatch` |
| end of turn and run | `EndTurn`, `FinishRun` |

Each action is the code between two awaits at which another caller can change what the
loop reads next.  Streaming deltas, progress of tools and the contents of messages are
left out.  Listeners are assumed not to throw (one that throws in a parallel batch
would let tools run on after their batch failed).  A call is announced (`StartCall`, which
makes it pending) before the awaited preparation that refuses or prepares it; an abort in
between refuses that call and skips those behind it (`SkipCalls`).

### The session: `AgentSession`

`phase[c]` is where the promise of `prompt()` of caller `c` stands: `preflight`,
perhaps `recoverFirst` or `compactFirst` (the compaction before a prompt, whose summary is
awaited), `ready`, `run`, then `sleep` (a backoff), `recover` or `compact`, `continue` and
`settle`.  `active` is `_isAgentRunActive`, `entries` the session's entries on the
current branch, with a compaction entry naming the first entry it keeps; `pendingBash`
and `pendingCustom` are the notes kept back during a run.  Notes and summaries are
messages with one of the `OtherRoles`.

| code | actions |
|---|---|
| `prompt` | `SessionPrompt`, `RefusePrompt`, `Preflight`, `CompactFirst`, `StartRun`; `Queue` while active |
| `_handlePostAgentRun`, `_prepareRetry`, `_checkCompaction` | `PostRun`, `WakeUp`, `AbortRetry` |
| `_runAutoCompaction` | `Compact`, before a prompt `CompactFirst`, and within a run `PrepareTurn` |
| `_runAgentPrompt` | `StartRun`, `ContinueRun`, `Settle` |
| `_handleAgentEvent` | `Observe`, conjoined to every step of the loop, and `SessionEndTurn` |
| `sendCustomMessage`, `recordBashResult`, `abort` | `SendCustomMessage`, `RecordBashResult`, `SessionAbort` |

`AgentSession` extends `Agent`: the session's next-state relation uses the loop's
actions with its own hooks (`EndTurn`, `PrepareNextTurn`) in place of the default ones.
Whether a compaction is due depends on token counts and is left open, and so is what it
keeps, within `CutPoints`.  The code reads the entries and chooses the cut before it asks
for the summary, the model when the summary arrives.  With one prompt in flight only notes
are recorded in the meantime, and a note may as well have been recorded before the entries
were read.  The hook called after a compaction belongs to the same step.  The phases `continue` and `settle` last a microtask and no
caller acts in them.

Assumed: compaction is enabled and the model stays the same.  Left out: custom messages
that start a run or are steered into one, next-turn messages, the display's copies of
the queues, manual `compact()`, tree navigation, `shouldStopAfterTurn` (the session
sets none), and calls of `steer()` while the session is idle.  Provider exceptions,
`clearQueues` and `reset` occur in the run of `Agent` alone.

## 3. What is checked

### Passing runs

| run | instance | states | shows |
|---|---|---|---|
| `BoardSerial` | one slot; 2 spawns, 1 status, 2 posts, 1 panel, 1 kill; 2 cards, 2 families, 2 presets | 304 000 | types; unique worktree ids; the journal implements `ClaimLedger`; posted claims get routed |
| `BoardReliability` | one slot; 2 posts, 5 panels; 3 cards | 13 000 | low reliability is absorbing |
| `BoardConcurrent` | two slots; 1 spawn, 2 posts, 2 panels, 1 kill; 3 cards, 3 families, 3 presets | 5 777 000 | verdicts are backed by routings; granting panels are independent; verified claims were posted |
| `CheckpointsSerial` | one call at a time, no failures; 2 commands, 2 proposals, 3 decisions, 1 restart | 164 000 | types; unique ids; decisions are journaled and final; a card shows its own stage |
| `CheckpointsParallel` | two calls, 1 kill, 1 lost write, 1 slash command, 1 restart | 482 000 | a running session keeps every decision |
| `Questions` | one slot; 2 posts, 1 answer, 2 checks, 1 kill; 2 timeouts, clock to 2; an answer to an unknown id | 39 000 | types; defaults are due, written once, and follow a check; an answer stands; the mirror follows the journal |
| `Orchestrator` | 2 processes, 2 worktrees, 5 lines, clock to 2; step budget 1, threshold 1, two phases | 1 296 000 | types; memory follows the journal; budgets; stalls are justified; survival is explained |
| `Agent` | 3 messages from callers, one batch of up to 2 calls, 2 failures, 1 reset, cleared queue or exception; one-at-a-time queues | 383 000 | all promises of the loop; every run ends |
| `AgentSession` | 1 caller, 2 messages, 1 tool call, 2 failures, 1 retry, 1 compaction, 1 note | 184 000 | all promises of the session; recovery is bounded; every prompt settles |

Bounds.  Two spawns and two posts are the least for an id to collide, a post between
the steps of a panel the least for a decision to become stale, two panels the least for one to route or judge
a claim between the steps of the other, and a kill may fall between any two steps.  Three panels make a tag's record count (`MinPanelCalls`) and
two more could raise it again.  For checkpoints, two minted ids around a restart are
the least for the sequence to break, and three decisions allow revise, confirm and a
decision on what is already decided.  Two questions of different
timeouts make one check find none, one or both, and two checks let the second repeat or
overtake the first.  In the orchestrator two processes and two worktrees are the
least for memory to be rebuilt wrongly, a clock of twice the threshold lets a worktree
be active, idle and overdue, and five lines hold spawn, claim, budget stop, status and
stall.  In the agent three messages let one be pending, one queued and one in the other
queue, and two calls are the least for one to be done, running or prepared while
another is not.  In the session two failures allow retry then overflow, overflow then
overflow, and exhausted retries.  `RecoveryIsBounded` was also run with a third failure
(533 000 states), one more than the settings of the run allow in a row; the theorem covers
any number.  All bounds are constants: `Limit` (steps of each
kind), `MaxFailures`, `MaxTime`, `MaxLines`, and the `Max...` of the agent.

Two slots are exchangeable and so are two engine stages that no property names: these
are the symmetries used, only where no liveness is checked.  Deadlock is not an error:
when the bounds are used up, and in the program when nobody starts a command, the
system stops.

Serial runs.  Some promises hold only if commands do not overlap.  They are what the
code's comments claim, and the code neither enforces nor checks the assumption, so the
one-slot runs say what holds under it and the violation runs show that it is needed.

Fairness.  `FairSpec` of the board and of the questions adds weak fairness of
`Continue(p)`: a command that was started
keeps running until it ends or is killed.  Nothing obliges a user or the agent to start
a command, and nothing obliges the bridge to kill one.  Under it, every claim that
reaches the board is eventually routed or its command was killed, and every question a
check found expired is eventually defaulted or a command was killed.

`FairSpec` of the agent adds weak fairness of the loop as a whole: the provider and the
tools eventually answer or fail, and the hooks return.  `SessionFairSpec` adds the same
for timers and summaries.  Nothing obliges a caller to act, in particular nothing
depends on an abort.  Under it every run ends, every prompt settles, and what is queued
while a session is active leaves its queue.  The orchestrator's properties need none.

### Violation runs

Each states what a comment or document of the repository says and TLC refutes it.

| run | statement | what happens |
|---|---|---|
| `BoardUncheckedClaim` | such a claim must run Tier 0 first (`bridge.md:216`) | the post was killed; the first panel request records `tier0`, and the second takes that record for an attempted check |
| `SessionContinue` | the failed response is removed so that `agent.continue()` accepts the rebuilt transcript (`agent-session.ts:2386-2387`) | a transient error is retried and stays in the file; the retry overflows; the compaction keeps both; only the last one is removed, the transcript ends with the older failure, `continue()` throws and the prompt rejects |
| `StallsUnseen` | `check-stalls` detects worktrees past the threshold (`cli.py:1553`) | a new process takes its own start for everyone's last activity (`orchestrator.py:116, 122`) and finds nothing |

### Mutants

Every property of a passing run has a mutated definition beside the one it mutates
("Mutated form" in the modules): a plausible slip in the code that the run catches.

## 4. What is proved

The theorems hold for every value of the constants that the assumptions allow
(`CardsAssumption`, `EngineAssumption`; `CheckpointsAssumption`;
`QuestionsAssumption`; `KillCheckAssumption`, `OrchestratorAssumption`;
`AgentAssumption`, `SessionAssumption`): any number of processes, cards, families,
presets, questions, worktrees and commands, of messages, responses, tool calls and faults,
of retries, notes and compactions.  TLC evaluates the assumptions in the runs.

Some theorems have further hypotheses, defined beside them.  They say under which use of
the program the promise holds, and the passing runs satisfy them.  Each is there because
the promise fails without it.

| hypothesis | meaning | without it |
|---|---|---|
| `OneSlot` | engine commands run one after the other; each may still be killed anywhere | two spawns mint one id, an answer is overridden (section 5) |
| `BoardCards` | panels judge the card on the board | a claim with a check is verified by a panel (section 5) |
| `OneCall` | tool calls and commands that mint or decide checkpoints run one after the other | an id is minted twice (section 5), and with it the other three promises fail |
| `Uninterrupted` | such a call runs to its end | an id is minted twice (section 5) |
| `Writable` | appends of checkpoint events succeed | the session holds a checkpoint the journal does not |
| `NoSlash` | nobody resolves by slash command | the decision is not journaled (section 5) |
| `OneCaller` | one `prompt()` of the session at a time | the session calls itself idle in a run (section 5), the model does not see what the session records, a note lands between a response and its results, and a third failure is retried once too often |

**`EngineBoardProofs`.**

* `TypeCorrect`: `Spec => []TypeOK`.  The work is in the ids: `NextId` and the folds
  take a `Max`, and a `Max` is only a number if its set is finite and not empty.
  `Maxima` bounds the ids of a finite list of lines, by induction on its length.
* `VerdictsBacked`, `PanelsIndependent`, `VerifiedPosted`.  None of the three is
  inductive.  A verdict is written from the locals of its process, so each needs to
  know what those locals remember.  `PanelInv` says it: the path a process is about
  to give a verdict on is recorded (`DecisionRecorded`); a path that grants verdicts was
  chosen with an eligible family and a card without a check (`DecisionSound`); a card
  that came from the board was posted (`CardWasPosted`).  It is stable under the steps
  of all other processes because the journal only grows (`Growth`), which is the whole
  reason why the program may read early and write late.
* `SpawnsNeverShareIds` (`OneSlot`): `Spec => []UniqueWorktreeIds`.  `SerialInv` is what
  `PanelInv` cannot say about several processes: what a command read of the journal is
  still true when it writes.  The id it is about to write is in no line, the claim it
  checks or routes is posted, the card it judges is the board's.  A kill only ends the
  command.
* `BoardRefinesLedger` (`OneSlot`, `BoardCards`): `Spec => BoardImplementsLedger`.
  Initial states map to initial states, and each step to a step of `ClaimLedger` or a
  stutter: the append of a posting is `Publish`, of a recorded decision `Route`, of a granting
  verdict `Verify`; reads, kills and all other lines leave the ledger alone, which needs that the
  fold of an extended journal is the fold with at most one entry changed.  `MintedInv`
  keeps ids within the ledger's bound: the highest id is at most the number of posts
  started.
* `LowReliabilityAbsorbs` (`OneSlot`, `BoardCards`): a step that appends a verdict changes
  two counts of a tag at once.  `ReliabilityInv` says that a granting verdict is only
  about to be written while no tag of its card is low, and that a judged claim was posted,
  so that a later posting cannot give old verdicts a new tag.  What is left is arithmetic:
  a rate below the threshold falls with every panel that does not verify.

**`CheckpointsProofs`.**

* `TypeCorrect`: `Spec => []TypeOK`.
* `SessionKeepsDecisions`: `Spec => DecisionsKept`.  The danger is a proposal that
  overwrites a checkpoint the session holds.  The invariant `BelowCounter` excludes it:
  no id of the store is above the session's counter, because adoption raises the
  counter.  It holds under parallel calls, kills, lost writes and restarts, and although
  ids do collide.
* `CheckpointIdsAreUnique` (`OneCall`, `Uninterrupted`).  Two counters mint from one
  sequence: the engine from the journal, the session from its store.  `SequenceInv` says
  that the session's counter lags behind the journal by no more than the id of a command
  that has written and not reported yet, and that an id about to be written is in no line.
  Writes may be lost and sessions restarted: a lost write frees an id that the engine mints
  again, but which was never reached.
* `ConfirmedStaysFinal` (`OneCall`): the journal's fold forgets a confirmation only when its
  id is reached again.  Interrupted calls do make ids collide, and the theorem covers
  them: `FinalInv` says that a confirmed checkpoint is not above the session's counter,
  since whoever decides it has adopted it and a new session counts every line, and
  `WriteInv` that an id a command is about to write is in no line.
* `CardsAreOfTheirStage` (`OneCall`, `Writable`): `CardInv` says that what the session holds
  was reached in the journal for the same stage, and so was the id a command is about to
  report.
* `ConfirmedIsInJournal` (and `NoSlash`): by the same relation between store and journal.

**`QuestionsProofs`.**

* `TypeCorrect`: `Spec => []TypeOK`.
* `DefaultsDue`, `MirrorFaithful`.  Both speak about lines that are written from what
  a command read or wrote earlier, so the invariant adds `LocalsOK`: what a check still
  has to default was posted and is due, and what a command still has to mirror is in
  the journal.  It is stable because the journal only grows and the clock only
  advances; these two facts, and no lock, are why an early read is safe here.
  The run of `Questions` has one slot; these theorems cover the others.  TLC has checked
  both with two slots, too (1.7 million states).
* `QuestionsDefaultedOnce`, `AnswersAlwaysStand` (`OneSlot`).  That nobody resolved a
  question is not stable under growth, so both need a process that is alone: `SerialInv`
  says that what a check still has to default is unresolved and listed once, and that
  the id about to be posted is above every posted one.  The latter matters for an answer too:
  posting its id again would open it.

**`OrchestratorProofs`.**

* `TypeCorrect`: `Spec => []TypeOK`.  The ids of worktrees need the maximum of a finite
  set again, the fold the last status line of each worktree.
* `SurvivalExplained`: a search that ends without candidate and without caveat has
  ended all its phases; its invariant carries `found` and `ended` through the phases
  and uses that a budget once exceeded stays exceeded, because the clock only advances.
* `MemoryFollowsJournal`: a process's statuses are the fold of the journal.  Every
  action that writes one writes the other, and the fold of an extended journal is the
  fold with one entry changed.
* `BudgetsAreEnforced`: the invariant bounds the claims a process posted for a
  worktree by the steps it counted, plus the one being checked.  It holds whatever
  time budgets callers pass and although the status of a stopped worktree may be set
  back to running, because only the counter refuses.
* `StallsAreJustified`: no line about a worktree is younger than its `last`, except for
  the worktree whose claim is being posted.  This holds also across processes, since a
  new one starts its clocks no earlier than any line.

**`AgentProofs`.**  The theorems are about `Spec` of `Agent`, in every queue mode.

* `TypeCorrect`: `Spec => [](TypeOK /\ BatchInv)`.  When the batch ends, the calls still
  pending are empty only if every call was sent.  `BatchInv` says so: calls are started,
  prepared and their results sent in order, so the sent ones are an initial segment; a
  sequential batch works on one call at a time; only an abort skips a call.
* `AbortedRunsStartNoTool`: from the same invariant, one case per step of a call.
* `ModelAlwaysSeesTranscript`: the loop keeps a context of its own beside the
  transcript of the agent, and the two are equal only between their updates.
  `ContextInv` says how far apart they are: by the prompts still to be emitted, and in a
  batch by the results already sent.
* `CallsAlwaysAnswered`: `ResponseInv` gives the response that is being worked on its
  place (the last of the context) and a number no other has, so the results that follow
  are its own; `AnswersInv` says which of its calls they answer so far.
* `SteersAreAnswered`: `HandedInv` keeps each message where its way of handing over
  puts it, and `SteerInv` says that one steering message at most is in hand and none
  follows another.  `continue()` polls the queue before it starts the loop; the flag
  `skip`, which prevents the loop's own first poll, is what the proof turns on.

**`AgentQueueProofs`.**  `QueuesAlwaysKeepOrder`: `Spec => []QueuesKeepOrder`.  All
messages handed over in one way lie on a `Line`: transcript, then what the run has in
hand, then the queue.  `OrderInv` says that on each line their texts rise and are those handed
over, without the lost ones; the property speaks of the transcript alone and is not
inductive.  A step moves the borders on a line, puts messages of another kind in between,
takes out a part that is lost, or adds the newest message at the end; there is one lemma
for each, and one case per action that says which it is.  `HandsInv` is why the prompts
and the pending messages can share a place on the line: a run has messages in hand only
where it is about to emit them.

**`AgentSessionProofs`.**  The theorems are about `SessionSpec`.

* `SessionTypeCorrect`: `SessionSpec => []SessionTypeOK`, for any number of callers, from
  `SessionInv`, which adds the types and `BatchInv` of the agent.  Its steps are the
  loop's with the session's hooks, so the lemmas of `AgentProofs` serve again.
* `IdleSessionsAreIdle` (`OneCaller`): an idle session has no run, no retry, compaction or
  continuation after a run, and nothing kept back.  Only a prompt that has not started its
  run may be at work in it, and may compact (section 5).  `IdleInv` says in which
  phases a session is active and in which its agent runs.
* `ModelAlwaysSeesSession` (`OneCaller`): `SeesInv` is `ContextInv` of the agent up to
  notes, since notes added in a turn reach the transcript and not the loop's context.
  `Without`, which leaves notes out, is recursive; `WithoutIs` relates it to a property of
  its initial segments (by `UpTo` of `Maxima`), and all later lemmas are about
  appending and concatenating.
* `SessionAlwaysHoldsTranscript`, for any number of callers: every step either leaves
  transcript and entries alone, adds the same messages to both, compacts, or drops a failed
  response from the transcript alone (`HowListsChange`).  The context built from the
  entries grows with them (`BuildContextGrows`), and after a compaction is the new
  transcript.  What is dropped must be a response that the property leaves out, and a second
  prompt may have changed the transcript since the session judged its last entry.
  `OpenInv` excludes it: while the last recorded response is a failed or cut-off one, and
  wherever a loop may be about to ask for a response, something that is no response
  follows every good response of the transcript (`GoesOn`), so that no good response can be
  its last message.  TLC has checked it with two prompts in flight as well (17.7 million
  states).
* `RecoveryAlwaysBounded` (`OneCaller`): the failures in a row are accounted for by
  `retryAttempt` and `overflowAttempted`, except that between the end of a failed run
  and the moment the session looks at it the counts are one behind (`OneBehind`), and
  only while the failure is the last entry (`Blocked`), so that a note or a message ends
  the row in time.  `RecoveryInv` says for every place of the loop and every phase which
  of the two holds, and `LastInv` that the last response of the transcript is the one the
  session judged by its entries.
* `SessionCallsAlwaysAnswered` (`OneCaller`): here the transcript is also rebuilt from the
  entries, so the invariant speaks of both lists (`ListedInv`): results follow their
  responses, only an abort or the batch under way may leave some out (`Listed`), and in a
  batch both lists end with its response and the results sent so far (`Working`).  A
  compaction keeps it because it never cuts at a result, a dropped response because nothing
  follows it, and nobody but the loop touches the lists in a batch (`OthersAndBatch`).

Only model-checked:

* liveness (`PostedClaimsGetRouted`, `FoundGetsDefaulted`, `RunsEnd`, `QueuedIsDelivered`,
  `SessionSettles`), which is out of the prover's reach;
* the violation runs, whose statements are false.

## 5. Known gaps between the documents and the code that no run shows

* After a restart a checkpoint that was confirmed is adopted as pending at revision 0
  (`checkpoints.ts:64-83`).  It can be confirmed again, and its revisions are counted
  from 0; `findCheckpointInJournal` returns the journal's revision and
  `extension.ts:95` does not use it.
* `families.py:26-27` says that unregistered models never inflate the number of
  families toward the floor of two; `validate_preset` (`families.py:75`) counts the
  `unknown` bucket, so one registered family plus unregistered models passes the floor.
  The panel may still grant a verdict; `PanelsAreIndependent` asks for registered
  families other than the caller's and holds.  That the preset of a panel with a verdict
  path has two registered families is refuted by TLC in the instance of `BoardConcurrent`.
* `extension.ts:6-8` says that the session journals every propose and resolve;
  `/checkpoint confirm` and `revise` (`extension.ts:506-524`) journal nothing, so
  `ConfirmedIsJournaled` is checked without slash commands, and one of them breaks it.
  While the session runs the journal is not repaired: a confirmed checkpoint is not
  pending, and cannot be confirmed again.
* `checkpoints.ts:11` says that the model has no tool to resolve a checkpoint;
  `checkpoint_respond` is such a tool, restrained by its prompt.
* Two `worktree spawn` commands that both replay before either appends mint the same
  id, although `cli.py:710` rehydrates against it.  `UniqueWorktreeIds` fails with two
  slots.
* `request-panel` judges the card of its `--card-file` and does not compare it with the
  board's (`cli.py:1603-1614`), so a claim whose board card Tier 0 can check may become
  panel-verified; `bridge.md:215` excludes it.
* A command killed between its write and its report has taken a checkpoint id that the
  session never hears of; the session then mints the same id for its own stage
  (`checkpoints.ts:40`), although `bridge.md:64` speaks of one sequence.
* `check_timeouts` decides from one replay what is unanswered (`questions.py:104-116`);
  an answer journaled before it writes is overridden by the default in every fold.
  `AnswersStand` fails with two slots.
* Orchestrator: budgets and steps start anew in every process, and the command line
  passes no default budgets.  The comment "Override for this call if provided (not
  persistent)" (`orchestrator.py:185`) is wrong: the budget stays in force.  Posting
  never looks at the status of a worktree.  A line that cannot be parsed makes a
  process start empty (`orchestrator.py:107-108`) and mint ids again.  The verdict
  `BUDGET_EXCEEDED` (`runner.py:33`) is never returned.
* `agent-session.ts:925` says that an idle session has no active auto-compaction.
  `prompt()` awaits `_checkCompaction` (1254), which may write a summary, and only then
  `_runAgentPrompt` marks the session active (1107).  Until then `isIdle` is true, although
  the session compacts, and notes are recorded at once instead of being kept back.
  `IdleMeansIdle` states what does hold; the documented sentence, which also excludes the
  phases `compactFirst` and `recoverFirst`, is refuted by TLC in the instance of
  `AgentSession`.
* Two callers of the session's `prompt()` both pass the test of `isStreaming` before
  either starts a run.  The second one's `agent.prompt` throws, and its `finally`
  (`agent-session.ts:1113-1118`) marks the session idle in the middle of the first
  one's run.  `IdleMeansIdle` fails with two callers.
* Cancelling a retry's backoff while a message is queued continues at once
  (`agent-session.ts:1148`), although `abortRetry` means to cancel the retry.
* The comment `agent-session.ts:1146` says that the loop drains both queues before
  `agent_end`; after an abort or an error it does not, and the session continues for
  what is left.
* A custom message recorded after a failed response hides it from `_prepareRetry`
  (`agent-session.ts:2913`), and the retry then sends it.
* `abort()` does not reach a running auto-compaction.
* Custom messages added at the end of a turn reach the model only after the run, or
  after a compaction within it.

## 6. Not modelled

* The panel debate (`panel.ts`) and the gate of pending cards (`pendingCards.ts`):
  both are exported, and no entry point registers their tools, so no run of the program
  reaches them.
* Contradictions, compaction notes and checkpoint C of the orchestrator, consolidation
  labels, the encoder's retries, literature, reviewer: pure functions of the journal or
  of a model's answer, without state of their own.  Their checkpoints are in
  `Checkpoints`.
* Expression evaluation and the numeric and SMT searches: data, not control.
* Providers, model clients, Lean: external systems; they enter as open outcomes.
* Interactive mode, terminal interface, themes, export, extension loading, package
  manager, model registry, settings: screens, files and generated tables.  They make up
  most of the repository's lines; where they touch the session they do so through the
  operations modelled in `AgentSession`.
* Of the session: branches and navigation in its tree, manual compaction, switching
  models and sessions, the file format and its migration.
