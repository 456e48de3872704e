----------------------------- MODULE Questions -----------------------------
(***************************************************************************)
(* The question queue of the computational stage (questions.py).           *)
(*                                                                         *)
(* A subagent posts a question with a timeout and a default and goes on    *)
(* working.  The human may answer at any time; a check for timeouts gives  *)
(* every expired open question its default.  Posting, answering and        *)
(* checking are engine processes without a lock: each replays the journal  *)
(* once and then writes, each event first to the journal and then to a     *)
(* mirror file that the user interface reads.                              *)
(*                                                                         *)
(* Nothing runs the check by itself.  A failed append to the journal is    *)
(* not modelled; a failed append to the mirror is.                         *)
(***************************************************************************)
EXTENDS Naturals, Sequences, FiniteSetsExt

CONSTANTS
    Procs,       \* slots for concurrently running engine processes
    Asked,       \* what is asked: the text, its timeout and its default
    Timeout,     \* timeout_sec of each
    StrayIds,    \* ids that are answered although nobody posted them
    Limit,       \* bound: how often each command is started, and kills
    MaxTime      \* bound: the clock

Commands == {"post", "answer", "check", "kill"}

ASSUME QuestionsAssumption ==
    /\ Timeout \in [Asked -> Nat]
    /\ StrayIds \subseteq Nat \ {0}
    /\ Limit \in [Commands -> Nat]
    /\ MaxTime \in Nat

VARIABLES
    journal,   \* the question events of journal.jsonl
    mirror,    \* shared/questions.jsonl
    run,       \* per slot: where its command stands and its local variables
    now,       \* the clock
    started    \* how often each command was started (bounds the model)

vars == <<journal, mirror, run, now, started>>

(***************************************************************************)
(* Events.  A default is named by the question it belongs to.              *)
(***************************************************************************)
Id == Nat \ {0}

Posted(q, asked, at) ==
    [type |-> "question_posted", q |-> q, asked |-> asked, at |-> at]
Answered(q) ==
    [type |-> "answered", q |-> q]
Defaulted(q, asked, at) ==
    [type |-> "defaulted", q |-> q, asked |-> asked, at |-> at]

Posting == [type : {"question_posted"}, q : Id, asked : Asked, at : Nat]

Event == Posting
         \cup [type : {"defaulted"}, q : Id, asked : Asked, at : Nat]
         \cup [type : {"answered"}, q : Id]

\* A question that a check found expired, and when it was posted.
Item == [q : Id, asked : Asked, at : Nat]

Idle == [pc |-> "idle"]

RunState ==
    {Idle}
    \cup [pc : {"post"}, event : Posting]
    \cup [pc : {"default"}, todo : SUBSET Item]
    \cup [pc : {"mirror"}, event : Event, todo : SUBSET Item]

(***************************************************************************)
(* Folds of the journal.                                                   *)
(***************************************************************************)
PostsOf(j, q) ==
    {i \in DOMAIN j : j[i].type = "question_posted" /\ j[i].q = q}

ResolutionsOf(j, q) ==
    {i \in DOMAIN j : j[i].type \in {"answered", "defaulted"} /\ j[i].q = q}

QuestionIds(j) == {q \in {j[i].q : i \in DOMAIN j} : PostsOf(j, q) # {}}

\* Only the latest posting of an id counts.
LastPost(j, q) == j[Max(PostsOf(j, q))]

\* fold_questions: the latest event of an id decides.
StatusOf(j, q) ==
    LET events == PostsOf(j, q) \cup ResolutionsOf(j, q)
    IN  IF events = {} THEN "none"
        ELSE IF Max(events) \in PostsOf(j, q) THEN "open" ELSE j[Max(events)].type

\* Mutated form: the counter is not incremented.
NextIdNotIncremented(j) == Max({j[i].q : i \in DOMAIN j} \cup {0})
\* Answers and defaults keep their id from being minted, too.
NextId(j) == 1 + Max({j[i].q : i \in DOMAIN j} \cup {0})

ItemOf(j, q) == [q |-> q, asked |-> LastPost(j, q).asked, at |-> LastPost(j, q).at]

\* Mutated forms: a question is due at its deadline; answers are overlooked;
\* defaults are overlooked.
ExpiredAtDeadline(j, time) ==
    {item \in {ItemOf(j, q) : q \in QuestionIds(j)} :
        /\ ResolutionsOf(j, item.q) = {}
        /\ time >= item.at + Timeout[item.asked]}
ExpiredAnswered(j, time) ==
    {item \in {ItemOf(j, q) : q \in QuestionIds(j)} :
        /\ \A i \in ResolutionsOf(j, item.q) : j[i].type # "defaulted"
        /\ time > item.at + Timeout[item.asked]}
ExpiredAgain(j, time) ==
    {item \in {ItemOf(j, q) : q \in QuestionIds(j)} :
        /\ \A i \in ResolutionsOf(j, item.q) : j[i].type # "answered"
        /\ time > item.at + Timeout[item.asked]}
\* The open questions whose timeout has passed.
Expired(j, time) ==
    {item \in {ItemOf(j, q) : q \in QuestionIds(j)} :
        /\ ResolutionsOf(j, item.q) = {}
        /\ time > item.at + Timeout[item.asked]}

(***************************************************************************)
(* Behaviour                                                               *)
(***************************************************************************)
Init ==
    /\ journal = <<>>
    /\ mirror = <<>>
    /\ run = [p \in Procs |-> Idle]
    /\ now = 0
    /\ started = [c \in Commands |-> 0]

Start(c) ==
    /\ started[c] < Limit[c]
    /\ started' = [started EXCEPT ![c] = @ + 1]

Enter(p, state) == run' = [run EXCEPT ![p] = state]

\* An event in the journal still has to reach the mirror.
Write(p, event, todo) ==
    /\ journal' = Append(journal, event)
    /\ Enter(p, [pc |-> "mirror", event |-> event, todo |-> todo])

(***************************************************************************)
(* question post: replay, mint an id, write.                               *)
(***************************************************************************)
PostRead(p) ==
    /\ run[p].pc = "idle"
    /\ Start("post")
    /\ \E asked \in Asked :
          Enter(p, [pc |-> "post", event |-> Posted(NextId(journal), asked, now)])
    /\ UNCHANGED <<journal, mirror, now>>

\* Mutated form: the question only reaches the mirror.
PostMirrorOnly(p) ==
    /\ run[p].pc = "post"
    /\ Enter(p, [pc |-> "mirror", event |-> run[p].event, todo |-> {}])
    /\ UNCHANGED <<journal, mirror, now, started>>

PostWrite(p) ==
    /\ run[p].pc = "post"
    /\ Write(p, run[p].event, {})
    /\ UNCHANGED <<mirror, now, started>>

(***************************************************************************)
(* question answer: write, whatever the state of the question.             *)
(***************************************************************************)
AnswerWrite(p) ==
    /\ run[p].pc = "idle"
    /\ Start("answer")
    /\ \E q \in QuestionIds(journal) \cup StrayIds :
          Write(p, Answered(q), {})
    /\ UNCHANGED <<mirror, now>>

(***************************************************************************)
(* question check-timeouts: replay, then default what had expired by then. *)
(* The code goes through the questions in the order of their posting; any  *)
(* order is allowed here.                                                  *)
(***************************************************************************)
CheckRead(p) ==
    /\ run[p].pc = "idle"
    /\ Expired(journal, now) # {}
    /\ Start("check")
    /\ Enter(p, [pc |-> "default", todo |-> Expired(journal, now)])
    /\ UNCHANGED <<journal, mirror, now>>

\* Mutated form: the check ends after its first default.
DefaultFirst(p) ==
    /\ run[p].pc = "default"
    /\ \E item \in run[p].todo : Write(p, Defaulted(item.q, item.asked, now), {})
    /\ UNCHANGED <<mirror, now, started>>

DefaultWrite(p) ==
    /\ run[p].pc = "default"
    /\ \E item \in run[p].todo :
          Write(p, Defaulted(item.q, item.asked, now), run[p].todo \ {item})
    /\ UNCHANGED <<mirror, now, started>>

\* The mirror is best-effort; the command goes on either way.
MirrorWrite(p) ==
    /\ run[p].pc = "mirror"
    /\ mirror' \in {mirror, Append(mirror, run[p].event)}
    /\ Enter(p, IF run[p].todo = {} THEN Idle
                ELSE [pc |-> "default", todo |-> run[p].todo])
    /\ UNCHANGED <<journal, now, started>>

Kill(p) ==
    /\ run[p].pc # "idle"
    /\ Start("kill")
    /\ Enter(p, Idle)
    /\ UNCHANGED <<journal, mirror, now>>

Tick ==
    /\ now < MaxTime
    /\ now' = now + 1
    /\ UNCHANGED <<journal, mirror, run, started>>

Continue(p) == PostWrite(p) \/ DefaultWrite(p) \/ MirrorWrite(p)

Next ==
    \/ \E p \in Procs : \/ PostRead(p) \/ AnswerWrite(p) \/ CheckRead(p)
                        \/ Continue(p) \/ Kill(p)
    \/ Tick

Spec == Init /\ [][Next]_vars

\* A started command keeps running; nobody has to start one.
FairSpec == Spec /\ \A p \in Procs : WF_vars(Continue(p))
-----------------------------------------------------------------------------
(***************************************************************************)
(* Properties of any number of concurrent, killable commands.              *)
(***************************************************************************)

\* Journal, mirror and commands are well formed; ids are numbered from 1.
TypeOK ==
    /\ journal \in Seq(Event)
    /\ mirror \in Seq(Event)
    /\ run \in [Procs -> RunState]
    /\ now \in Nat
    /\ started \in [Commands -> Nat]

\* A default is the default of a question that was posted under its id, and is
\* written only after that question's timeout has passed, however long after
\* the check read the journal.
DefaultsAreDue ==
    \A i \in DOMAIN journal :
        journal[i].type = "defaulted" =>
            \E k \in PostsOf(journal, journal[i].q) :
                /\ k < i
                /\ journal[k].asked = journal[i].asked
                /\ journal[i].at > journal[k].at + Timeout[journal[k].asked]

\* The mirror shows nothing that is not in the journal (questions.py: "the
\* journal is the source of truth").
MirrorFollowsJournal ==
    \A m \in DOMAIN mirror : \E i \in DOMAIN journal : journal[i] = mirror[m]

(***************************************************************************)
(* Properties of commands that run one at a time, and may be killed.       *)
(***************************************************************************)

\* An answered question is never defaulted: a default is for the unanswered
\* (questions.py: "If unanswered past timeout_sec, the system applies
\* timeout_default").
AnswersStand ==
    [][\A q \in QuestionIds(journal) :
           StatusOf(journal, q) = "answered" =>
               StatusOf(journal', q) = "answered"]_vars

\* A question is defaulted once, also when a check was killed and run again.
DefaultedOnce ==
    \A i, k \in DOMAIN journal :
        /\ journal[i].type = "defaulted"
        /\ journal[k].type = "defaulted"
        /\ journal[i].q = journal[k].q
        => i = k

\* What a check found expired is defaulted in the end, all of it, unless a
\* command is killed.
FoundGetsDefaulted ==
    \A p \in Procs :
        \A q \in 1..Limit["post"] :
            (run[p].pc = "default" /\ \E item \in run[p].todo : item.q = q)
                ~> (StatusOf(journal, q) = "defaulted" \/ started["kill"] > 0)
=============================================================================
