-------------------------- MODULE QuestionsProofs --------------------------
(***************************************************************************)
(* Proofs about Questions, for every value of its constants.               *)
(***************************************************************************)
EXTENDS Questions, Maxima, SequenceTheorems

(***************************************************************************)
(* What the folds of a well-formed journal return.                         *)
(***************************************************************************)

\* Every line names a question, and all but answers say which and when.
LEMMA EventFields ==
    ASSUME NEW j \in Seq(Event)
    PROVE  /\ DOMAIN j = 1..Len(j) /\ Len(j) \in Nat
           /\ \A i \in DOMAIN j :
                 /\ j[i] \in Event
                 /\ j[i].q \in Id
                 /\ j[i].type = "question_posted" =>
                       j[i].asked \in Asked /\ j[i].at \in Nat
<1>1. DOMAIN j = 1..Len(j) /\ Len(j) \in Nat /\ \A i \in 1..Len(j) : j[i] \in Event
  BY LenProperties, ElementOfSeq
<1>2. \A e \in Event : /\ e.q \in Id
                       /\ e.type = "question_posted" =>
                             e.asked \in Asked /\ e.at \in Nat
  BY DEF Event, Posting
<1> QED BY <1>1, <1>2

\* A minted id is a proper one.
LEMMA NextIdType ==
    ASSUME NEW j \in Seq(Event)
    PROVE  NextId(j) \in Id
<1> DEFINE f == [i \in 1..Len(j) |-> j[i].q]
           S == {j[i].q : i \in DOMAIN j}
<1>1. f \in [1..Len(j) -> Nat] /\ Len(j) \in Nat
  BY EventFields DEF Id
<1>2. S \subseteq {f[i] : i \in 1..Len(j)}
  BY EventFields
<1> HIDE DEF f, S
<1>3. Max(S \cup {0}) \in Nat
  BY <1>1, <1>2, MaxOfListed
<1> QED BY <1>3 DEF NextId, S, Id

\* What a check finds expired is a question that was posted, and is due.
LEMMA ExpiredIsDue ==
    ASSUME NEW j \in Seq(Event), NEW time \in Nat, NEW item \in Expired(j, time)
    PROVE  /\ item \in Item
           /\ time > item.at + Timeout[item.asked]
           /\ \E k \in PostsOf(j, item.q) : /\ j[k].asked = item.asked
                                            /\ j[k].at = item.at
<1>1. PICK q \in QuestionIds(j) : item = ItemOf(j, q)
  BY DEF Expired
<1>2. time > item.at + Timeout[item.asked]
  BY DEF Expired
<1> DEFINE S == PostsOf(j, q)
<1>3. S \in SUBSET Nat /\ S # {} /\ Len(j) \in Nat /\ \A i \in S : i <= Len(j)
  BY EventFields DEF QuestionIds, PostsOf
<1>4. \A i \in S : q \in Id /\ j[i].asked \in Asked /\ j[i].at \in Nat
  BY EventFields DEF PostsOf
<1> HIDE DEF S
<1>5. Max(S) \in S
  BY <1>3, MaxInSet
<1>6. item = [q |-> q, asked |-> j[Max(S)].asked, at |-> j[Max(S)].at]
  BY <1>1 DEF ItemOf, LastPost, S
<1>7. item \in Item
  BY <1>4, <1>5, <1>6 DEF Item
<1>8. \E k \in S : j[k].asked = item.asked /\ j[k].at = item.at
  BY <1>5, <1>6
<1> QED BY <1>2, <1>6, <1>7, <1>8 DEF S

(***************************************************************************)
(* The invariant.  A default is written from what a check read earlier and *)
(* a mirror line from what was written earlier, so it speaks about the     *)
(* locals: what they hold is in the journal, and what was due stays due.   *)
(***************************************************************************)
ItemsAreDue(j, r, time) ==
    r.pc \in {"default", "mirror"} =>
        \A item \in r.todo :
            /\ time > item.at + Timeout[item.asked]
            /\ \E k \in PostsOf(j, item.q) : /\ j[k].asked = item.asked
                                             /\ j[k].at = item.at

EventIsJournaled(j, r) ==
    r.pc = "mirror" => \E i \in DOMAIN j : j[i] = r.event

LocalsOK == \A p \in Procs : /\ ItemsAreDue(journal, run[p], now)
                             /\ EventIsJournaled(journal, run[p])

Inv == TypeOK /\ LocalsOK /\ DefaultsAreDue /\ MirrorFollowsJournal

\* The locals of a command, by the step it is about to take.
LEMMA RunFields ==
    ASSUME TypeOK, NEW p \in Procs
    PROVE  /\ run[p].pc \in {"idle", "post", "default", "mirror"}
           /\ run[p].pc = "post" => run[p].event \in Posting
           /\ run[p].pc = "mirror" => run[p].event \in Event
           /\ run[p].pc \in {"default", "mirror"} => run[p].todo \in SUBSET Item
<1>1. run[p] \in RunState
  BY DEF TypeOK
<1>2. CASE run[p] = Idle
  BY <1>2 DEF Idle
<1>3. CASE run[p] \in [pc : {"post"}, event : Posting]
  BY <1>3
<1>4. CASE run[p] \in [pc : {"default"}, todo : SUBSET Item]
  BY <1>4
<1>5. CASE run[p] \in [pc : {"mirror"}, event : Event, todo : SUBSET Item]
  BY <1>5
<1> QED BY <1>1, <1>2, <1>3, <1>4, <1>5 DEF RunState

\* Entering a well-formed state leaves all commands well formed.
LEMMA EnterType ==
    ASSUME run \in [Procs -> RunState], NEW p \in Procs, NEW state \in RunState,
           Enter(p, state)
    PROVE  /\ run' \in [Procs -> RunState]
           /\ run'[p] = state
           /\ \A o \in Procs \ {p} : run'[o] = run[o]
BY DEF Enter

\* Starting a command keeps the counters natural numbers.
LEMMA StartType ==
    ASSUME started \in [Commands -> Nat], NEW c \in Commands, Start(c)
    PROVE  started' \in [Commands -> Nat]
BY DEF Start

\* A write appends its event and remembers it for the mirror.
LEMMA WriteType ==
    ASSUME TypeOK, NEW p \in Procs, NEW event \in Event,
           NEW todo \in SUBSET Item, Write(p, event, todo)
    PROVE  /\ journal' \in Seq(Event)
           /\ journal' = Append(journal, event)
           /\ run' \in [Procs -> RunState]
           /\ run'[p] = [pc |-> "mirror", event |-> event, todo |-> todo]
           /\ \A o \in Procs \ {p} : run'[o] = run[o]
<1>1. [pc |-> "mirror", event |-> event, todo |-> todo] \in RunState
  BY DEF RunState
<1> QED BY <1>1, EnterType, AppendProperties DEF Write, TypeOK

\* What a command holds stays true while the journal grows and time passes.
LEMMA LocalsStable ==
    ASSUME NEW j \in Seq(Event), NEW e \in Event, NEW r \in RunState,
           NEW t1 \in Nat, NEW t2 \in Nat, t1 <= t2,
           NEW k, k = j \/ k = Append(j, e),
           ItemsAreDue(j, r, t1), EventIsJournaled(j, r)
    PROVE  ItemsAreDue(k, r, t2) /\ EventIsJournaled(k, r)
<1>1. \A i \in DOMAIN j : i \in DOMAIN k /\ k[i] = j[i]
  BY AppendProperties, LenProperties
<1>2. \A q : \A i \in PostsOf(j, q) : i \in PostsOf(k, q) /\ k[i] = j[i]
  BY <1>1 DEF PostsOf
<1>3. EventIsJournaled(k, r)
  BY <1>1 DEF EventIsJournaled
<1>4. ASSUME r.pc \in {"default", "mirror"}, NEW item \in r.todo
      PROVE  /\ t2 > item.at + Timeout[item.asked]
             /\ \E i \in PostsOf(k, item.q) : /\ k[i].asked = item.asked
                                              /\ k[i].at = item.at
  <2>1. r.todo \in SUBSET Item
    BY <1>4 DEF RunState, Idle
  <2>2. item.at \in Nat /\ Timeout[item.asked] \in Nat
    BY <2>1, <1>4, QuestionsAssumption DEF Item
  <2>3. t1 > item.at + Timeout[item.asked]
    BY <1>4 DEF ItemsAreDue
  <2>4. t2 > item.at + Timeout[item.asked]
    BY <2>2, <2>3
  <2>5. PICK i \in PostsOf(j, item.q) : j[i].asked = item.asked /\ j[i].at = item.at
    BY <1>4 DEF ItemsAreDue
  <2>6. \E m \in PostsOf(k, item.q) : k[m].asked = item.asked /\ k[m].at = item.at
    BY <2>5, <1>2
  <2> QED BY <2>4, <2>6
<1> QED BY <1>3, <1>4 DEF ItemsAreDue

(***************************************************************************)
(* Each part of the invariant, for a step that writes at most one event.   *)
(***************************************************************************)
Grows(e) == journal' = journal \/ journal' = Append(journal, e)

\* A default may be written for a posted question whose timeout has passed.
MayWrite(e) ==
    e.type = "defaulted" =>
        \E k \in PostsOf(journal, e.q) :
            /\ journal[k].asked = e.asked
            /\ e.at > journal[k].at + Timeout[journal[k].asked]

\* If the locals of the command taking the step are right, all are.
LEMMA LocalsStep ==
    ASSUME Inv, NEW p \in Procs, NEW e \in Event, Grows(e), now' = now,
           \A o \in Procs \ {p} : run'[o] = run[o],
           ItemsAreDue(journal', run'[p], now'), EventIsJournaled(journal', run'[p])
    PROVE  LocalsOK'
<1>1. ASSUME NEW o \in Procs \ {p}
      PROVE  /\ ItemsAreDue(journal', run'[o], now')
             /\ EventIsJournaled(journal', run'[o])
  <2>1. journal \in Seq(Event) /\ run[o] \in RunState /\ now \in Nat
    BY DEF Inv, TypeOK
  <2>2. ItemsAreDue(journal, run[o], now) /\ EventIsJournaled(journal, run[o])
    BY DEF Inv, LocalsOK
  <2>3. now <= now
    BY <2>1
  <2>4. ItemsAreDue(journal', run[o], now) /\ EventIsJournaled(journal', run[o])
    BY <2>1, <2>2, <2>3, LocalsStable DEF Grows
  <2> QED BY <2>4
<1> QED BY <1>1 DEF LocalsOK

\* No line in the journal ceases to be due, and the new one is.
LEMMA DueStep ==
    ASSUME Inv, NEW e \in Event, Grows(e), MayWrite(e)
    PROVE  DefaultsAreDue'
<1> SUFFICES ASSUME NEW i \in DOMAIN journal', journal'[i].type = "defaulted"
             PROVE  \E k \in PostsOf(journal', journal'[i].q) :
                       /\ k < i
                       /\ journal'[k].asked = journal'[i].asked
                       /\ journal'[i].at > journal'[k].at
                                             + Timeout[journal'[k].asked]
  BY DEF DefaultsAreDue
<1>1. journal \in Seq(Event)
  BY DEF Inv, TypeOK
<1>2. /\ DOMAIN journal = 1..Len(journal) /\ Len(journal) \in Nat
      /\ \A k \in DOMAIN journal : k \in DOMAIN journal' /\ journal'[k] = journal[k]
  BY <1>1, AppendProperties, LenProperties DEF Grows
<1>3. \A q : \A k \in PostsOf(journal, q) :
         k \in PostsOf(journal', q) /\ journal'[k] = journal[k] /\ k \in DOMAIN journal
  BY <1>2 DEF PostsOf
<1>4. CASE i \in DOMAIN journal
  <2>1. journal[i].type = "defaulted" /\ journal'[i] = journal[i]
    BY <1>2, <1>4
  <2>2. PICK k \in PostsOf(journal, journal[i].q) :
           /\ k < i
           /\ journal[k].asked = journal[i].asked
           /\ journal[i].at > journal[k].at + Timeout[journal[k].asked]
    BY <1>4, <2>1 DEF Inv, DefaultsAreDue
  <2> QED BY <1>3, <2>1, <2>2
<1>5. CASE i \notin DOMAIN journal
  <2>1. journal' = Append(journal, e) /\ i = Len(journal) + 1 /\ journal'[i] = e
    BY <1>1, <1>2, <1>5, AppendProperties, LenProperties DEF Grows
  <2>2. PICK k \in PostsOf(journal, e.q) :
           /\ journal[k].asked = e.asked
           /\ e.at > journal[k].at + Timeout[journal[k].asked]
    BY <2>1 DEF MayWrite
  <2>3. k < i
    BY <1>2, <1>3, <2>1
  <2> QED BY <1>3, <2>1, <2>2, <2>3
<1> QED BY <1>4, <1>5

\* The mirror only takes what is in the journal.
LEMMA MirrorStep ==
    ASSUME Inv, NEW e \in Event, Grows(e), NEW m \in Event,
           \/ mirror' = mirror
           \/ mirror' = Append(mirror, m) /\ \E i \in DOMAIN journal : journal[i] = m
    PROVE  MirrorFollowsJournal'
<1>1. journal \in Seq(Event) /\ mirror \in Seq(Event)
  BY DEF Inv, TypeOK
<1>2. \A i \in DOMAIN journal : i \in DOMAIN journal' /\ journal'[i] = journal[i]
  BY <1>1, AppendProperties, LenProperties DEF Grows
<1>3. CASE mirror' = mirror
  <2>1. \A n \in DOMAIN mirror' : \E i \in DOMAIN journal : journal[i] = mirror'[n]
    BY <1>3 DEF Inv, MirrorFollowsJournal
  <2> QED BY <1>2, <2>1 DEF MirrorFollowsJournal
<1>4. CASE mirror' = Append(mirror, m) /\ \E i \in DOMAIN journal : journal[i] = m
  <2>1. \A n \in DOMAIN mirror' :
           mirror'[n] = m \/ (n \in DOMAIN mirror /\ mirror'[n] = mirror[n])
    BY <1>1, <1>4, AppendProperties, LenProperties
  <2>2. \A n \in DOMAIN mirror' : \E i \in DOMAIN journal : journal[i] = mirror'[n]
    BY <1>4, <2>1 DEF Inv, MirrorFollowsJournal
  <2> QED BY <1>2, <2>2 DEF MirrorFollowsJournal
<1> QED BY <1>3, <1>4

(***************************************************************************)
(* The steps.                                                              *)
(***************************************************************************)

\* The invariant holds before the first command.
LEMMA InvInit == Init => Inv
<1> SUFFICES ASSUME Init PROVE Inv
  OBVIOUS
<1> USE DEF Init
<1>1. TypeOK
  BY DEF TypeOK, RunState, Idle
<1>2. LocalsOK
  BY DEF LocalsOK, ItemsAreDue, EventIsJournaled, Idle
<1>3. DefaultsAreDue /\ MirrorFollowsJournal
  BY DEF DefaultsAreDue, MirrorFollowsJournal
<1> QED BY <1>1, <1>2, <1>3 DEF Inv

\* A write that is allowed keeps the invariant.
LEMMA WriteStep ==
    ASSUME Inv, NEW p \in Procs, NEW e \in Event, NEW todo \in SUBSET Item,
           Write(p, e, todo), MayWrite(e), UNCHANGED <<mirror, now>>,
           started' \in [Commands -> Nat],
           \A item \in todo :
               /\ now > item.at + Timeout[item.asked]
               /\ \E k \in PostsOf(journal, item.q) :
                     journal[k].asked = item.asked /\ journal[k].at = item.at
    PROVE  Inv'
<1>1. TypeOK /\ journal \in Seq(Event)
  BY DEF Inv, TypeOK
<1>2. /\ journal' \in Seq(Event) /\ journal' = Append(journal, e)
      /\ run' \in [Procs -> RunState]
      /\ run'[p] = [pc |-> "mirror", event |-> e, todo |-> todo]
      /\ \A o \in Procs \ {p} : run'[o] = run[o]
  BY <1>1, WriteType
<1>3. TypeOK'
  BY <1>1, <1>2 DEF TypeOK
<1>4. Grows(e)
  BY <1>2 DEF Grows
<1>5. EventIsJournaled(journal', run'[p])
  <2>1. Len(journal) + 1 \in DOMAIN journal' /\ journal'[Len(journal) + 1] = e
    BY <1>1, <1>2, AppendProperties, LenProperties
  <2> QED BY <1>2, <2>1 DEF EventIsJournaled
<1>6. ItemsAreDue(journal', run'[p], now')
  <2>1. \A q : \A k \in PostsOf(journal, q) :
           k \in PostsOf(journal', q) /\ journal'[k] = journal[k]
    BY <1>1, <1>2, AppendProperties, LenProperties DEF PostsOf
  <2>2. run'[p].todo = todo
    BY <1>2
  <2> QED BY <2>1, <2>2 DEF ItemsAreDue
<1>7. LocalsOK'
  BY <1>2, <1>4, <1>5, <1>6, LocalsStep
<1>8. DefaultsAreDue' /\ MirrorFollowsJournal'
  BY <1>4, DueStep, MirrorStep
<1> QED BY <1>3, <1>7, <1>8 DEF Inv

\* A step that leaves the journal alone keeps the invariant if the command
\* taking it enters a right state.
LEMMA QuietStep ==
    ASSUME Inv, NEW p \in Procs, NEW state \in RunState, Enter(p, state),
           UNCHANGED <<journal, now>>, started' \in [Commands -> Nat],
           NEW m \in Event,
           \/ mirror' = mirror
           \/ mirror' = Append(mirror, m) /\ \E i \in DOMAIN journal : journal[i] = m,
           ItemsAreDue(journal, state, now), EventIsJournaled(journal, state)
    PROVE  Inv'
<1>1. /\ run' \in [Procs -> RunState] /\ run'[p] = state
      /\ \A o \in Procs \ {p} : run'[o] = run[o]
  BY EnterType DEF Inv, TypeOK
<1>2. mirror' \in Seq(Event)
  <2>1. mirror \in Seq(Event)
    BY DEF Inv, TypeOK
  <2>2. Append(mirror, m) \in Seq(Event)
    BY <2>1, AppendProperties
  <2> QED BY <2>1, <2>2
<1>3. TypeOK'
  BY <1>1, <1>2 DEF Inv, TypeOK
<1>4. Grows(m)
  BY DEF Grows
<1>5. LocalsOK'
  BY <1>1, <1>4, LocalsStep
<1>6. DefaultsAreDue'
  BY DEF Inv, DefaultsAreDue, PostsOf
<1>7. MirrorFollowsJournal'
  BY <1>4, MirrorStep
<1> QED BY <1>3, <1>5, <1>6, <1>7 DEF Inv

\* A posting may always be written.
LEMMA PostingIsEvent ==
    ASSUME NEW e \in Posting PROVE e \in Event /\ MayWrite(e)
BY DEF Posting, Event, MayWrite

\* There are events, whatever is asked.
LEMMA SomeEvent == \E e : e \in Event
<1>1. Answered(1) \in Event
  BY DEF Answered, Event, Id
<1> QED BY <1>1

\* Replaying for a post keeps the invariant: the question has a proper id.
LEMMA PostReadStep ==
    ASSUME Inv, NEW p \in Procs, PostRead(p) PROVE Inv'
<1>1. PICK asked \in Asked :
         Enter(p, [pc |-> "post", event |-> Posted(NextId(journal), asked, now)])
  BY DEF PostRead
<1> DEFINE e == Posted(NextId(journal), asked, now)
           state == [pc |-> "post", event |-> e]
<1>2. e \in Posting
  <2>1. journal \in Seq(Event) /\ now \in Nat
    BY DEF Inv, TypeOK
  <2>2. NextId(journal) \in Id
    BY <2>1, NextIdType
  <2> QED BY <2>1, <2>2 DEF Posted, Posting
<1>3. state \in RunState /\ e \in Event
  BY <1>2, PostingIsEvent DEF RunState
<1>4. ItemsAreDue(journal, state, now) /\ EventIsJournaled(journal, state)
  BY DEF ItemsAreDue, EventIsJournaled
<1>5. started' \in [Commands -> Nat] /\ UNCHANGED <<journal, mirror, now>>
  BY StartType DEF PostRead, Inv, TypeOK, Commands
<1>6. Enter(p, state)
  BY <1>1
<1> HIDE DEF e, state
<1> QED BY <1>3, <1>4, <1>5, <1>6, QuietStep

\* Writing a posted question keeps it.
LEMMA PostWriteStep ==
    ASSUME Inv, NEW p \in Procs, PostWrite(p) PROVE Inv'
<1>1. run[p].event \in Posting
  BY RunFields DEF Inv, PostWrite
<1>2. run[p].event \in Event /\ MayWrite(run[p].event)
  BY <1>1, PostingIsEvent
<1>3. /\ Write(p, run[p].event, {})
      /\ UNCHANGED <<mirror, now>>
      /\ started' \in [Commands -> Nat]
  BY DEF PostWrite, Inv, TypeOK
<1> QED BY <1>2, <1>3, WriteStep

\* Writing an answer keeps it, whatever the id.
LEMMA AnswerWriteStep ==
    ASSUME Inv, NEW p \in Procs, AnswerWrite(p) PROVE Inv'
<1>1. PICK q \in QuestionIds(journal) \cup StrayIds : Write(p, Answered(q), {})
  BY DEF AnswerWrite
<1>2. q \in Id
  <2>1. journal \in Seq(Event)
    BY DEF Inv, TypeOK
  <2> QED BY <2>1, EventFields, QuestionsAssumption DEF QuestionIds, Id
<1>3. Answered(q) \in Event /\ MayWrite(Answered(q))
  BY <1>2 DEF Answered, Event, MayWrite
<1>4. started' \in [Commands -> Nat] /\ UNCHANGED <<mirror, now>>
  BY StartType DEF AnswerWrite, Inv, TypeOK, Commands
<1> QED BY <1>1, <1>3, <1>4, WriteStep

\* Replaying for a check keeps it: what the check found is due.
LEMMA CheckReadStep ==
    ASSUME Inv, NEW p \in Procs, CheckRead(p) PROVE Inv'
<1> DEFINE found == Expired(journal, now)
           state == [pc |-> "default", todo |-> found]
<1>1. \A item \in found :
         /\ item \in Item
         /\ now > item.at + Timeout[item.asked]
         /\ \E k \in PostsOf(journal, item.q) : /\ journal[k].asked = item.asked
                                                /\ journal[k].at = item.at
  BY ExpiredIsDue DEF Inv, TypeOK
<1>2. Enter(p, state) /\ UNCHANGED <<journal, mirror, now>>
  BY DEF CheckRead
<1>3. started' \in [Commands -> Nat]
  BY StartType DEF CheckRead, Inv, TypeOK, Commands
<1> HIDE DEF found
<1>4. state \in RunState
  BY <1>1 DEF RunState
<1>5. ItemsAreDue(journal, state, now) /\ EventIsJournaled(journal, state)
  BY <1>1 DEF ItemsAreDue, EventIsJournaled
<1> HIDE DEF state
<1> QED BY <1>2, <1>3, <1>4, <1>5, SomeEvent, QuietStep

\* Writing a default keeps it: it is due, and the rest of the check's finds
\* stay due.
LEMMA DefaultWriteStep ==
    ASSUME Inv, NEW p \in Procs, DefaultWrite(p) PROVE Inv'
<1>1. PICK item \in run[p].todo :
         Write(p, Defaulted(item.q, item.asked, now), run[p].todo \ {item})
  BY DEF DefaultWrite
<1> DEFINE e == Defaulted(item.q, item.asked, now)
           rest == run[p].todo \ {item}
<1>2. run[p].todo \in SUBSET Item /\ now \in Nat
  BY RunFields DEF Inv, TypeOK, DefaultWrite
<1>3. \A one \in run[p].todo :
         /\ now > one.at + Timeout[one.asked]
         /\ \E k \in PostsOf(journal, one.q) :
               journal[k].asked = one.asked /\ journal[k].at = one.at
  BY DEF Inv, LocalsOK, ItemsAreDue, DefaultWrite
<1>4. e \in Event
  BY <1>2 DEF Item, Defaulted, Event
<1>5. MayWrite(e)
  BY <1>3 DEF MayWrite, Defaulted
<1>6. rest \in SUBSET Item /\ rest \subseteq run[p].todo
  BY <1>2
<1>7. UNCHANGED <<mirror, now>> /\ started' \in [Commands -> Nat]
  BY DEF DefaultWrite, Inv, TypeOK
<1>8. Write(p, e, rest)
  BY <1>1
<1> HIDE DEF e, rest
<1> QED BY <1>3, <1>4, <1>5, <1>6, <1>7, <1>8, WriteStep

\* Writing to the mirror keeps it: the line is in the journal.
LEMMA MirrorWriteStep ==
    ASSUME Inv, NEW p \in Procs, MirrorWrite(p) PROVE Inv'
<1> DEFINE state == IF run[p].todo = {} THEN Idle
                    ELSE [pc |-> "default", todo |-> run[p].todo]
<1>1. run[p].event \in Event /\ run[p].todo \in SUBSET Item
  BY RunFields DEF Inv, MirrorWrite
<1>2. /\ \E i \in DOMAIN journal : journal[i] = run[p].event
      /\ ItemsAreDue(journal, run[p], now) /\ run[p].pc = "mirror"
  BY DEF Inv, LocalsOK, EventIsJournaled, MirrorWrite
<1>3. state \in RunState
  BY <1>1 DEF RunState
<1>4. ItemsAreDue(journal, state, now) /\ EventIsJournaled(journal, state)
  BY <1>2 DEF ItemsAreDue, EventIsJournaled, Idle
<1>5. /\ Enter(p, state) /\ UNCHANGED <<journal, now>>
      /\ started' \in [Commands -> Nat]
      /\ mirror' = mirror \/ mirror' = Append(mirror, run[p].event)
  BY DEF MirrorWrite, Inv, TypeOK
<1> HIDE DEF state
<1> QED BY <1>1, <1>2, <1>3, <1>4, <1>5, QuietStep

\* A kill keeps it: the command forgets its locals.
LEMMA KillStep ==
    ASSUME Inv, NEW p \in Procs, Kill(p) PROVE Inv'
<1>1. Idle \in RunState
  BY DEF RunState
<1>2. ItemsAreDue(journal, Idle, now) /\ EventIsJournaled(journal, Idle)
  BY DEF ItemsAreDue, EventIsJournaled, Idle
<1>3. started' \in [Commands -> Nat]
  BY StartType DEF Kill, Inv, TypeOK, Commands
<1>4. Enter(p, Idle) /\ UNCHANGED <<journal, mirror, now>>
  BY DEF Kill
<1> QED BY <1>1, <1>2, <1>3, <1>4, SomeEvent, QuietStep

\* The passing of time keeps it: what was due stays due.
LEMMA TickStep ==
    ASSUME Inv, Tick PROVE Inv'
<1>1. now \in Nat /\ now' = now + 1 /\ UNCHANGED <<journal, mirror, run, started>>
  BY DEF Tick, Inv, TypeOK
<1>2. TypeOK'
  BY <1>1 DEF Inv, TypeOK
<1>3. ASSUME NEW p \in Procs
      PROVE  /\ ItemsAreDue(journal', run'[p], now')
             /\ EventIsJournaled(journal', run'[p])
  <2>1. journal \in Seq(Event) /\ run[p] \in RunState
    BY DEF Inv, TypeOK
  <2>2. ItemsAreDue(journal, run[p], now) /\ EventIsJournaled(journal, run[p])
    BY DEF Inv, LocalsOK
  <2>3. now' \in Nat /\ now <= now'
    BY <1>1
  <2>4. ItemsAreDue(journal, run[p], now') /\ EventIsJournaled(journal, run[p])
    BY <1>1, <2>1, <2>2, <2>3, SomeEvent, LocalsStable
  <2> QED BY <1>1, <2>4
<1>4. LocalsOK'
  BY <1>3 DEF LocalsOK
<1>5. DefaultsAreDue' /\ MirrorFollowsJournal'
  BY <1>1 DEF Inv, DefaultsAreDue, MirrorFollowsJournal, PostsOf
<1> QED BY <1>2, <1>4, <1>5 DEF Inv

\* Every step keeps the invariant.
LEMMA InvNext == Inv /\ [Next]_vars => Inv'
<1> SUFFICES ASSUME Inv, [Next]_vars PROVE Inv'
  OBVIOUS
<1>1. ASSUME NEW p \in Procs, PostRead(p) PROVE Inv'
  BY <1>1, PostReadStep
<1>2. ASSUME NEW p \in Procs, AnswerWrite(p) PROVE Inv'
  BY <1>2, AnswerWriteStep
<1>3. ASSUME NEW p \in Procs, CheckRead(p) PROVE Inv'
  BY <1>3, CheckReadStep
<1>4. ASSUME NEW p \in Procs, PostWrite(p) PROVE Inv'
  BY <1>4, PostWriteStep
<1>5. ASSUME NEW p \in Procs, DefaultWrite(p) PROVE Inv'
  BY <1>5, DefaultWriteStep
<1>6. ASSUME NEW p \in Procs, MirrorWrite(p) PROVE Inv'
  BY <1>6, MirrorWriteStep
<1>7. ASSUME NEW p \in Procs, Kill(p) PROVE Inv'
  BY <1>7, KillStep
<1>8. CASE Tick
  BY <1>8, TickStep
<1>9. CASE UNCHANGED vars
  BY <1>9 DEF vars, Inv, TypeOK, LocalsOK, ItemsAreDue, EventIsJournaled,
              DefaultsAreDue, MirrorFollowsJournal, PostsOf
<1> QED BY <1>1, <1>2, <1>3, <1>4, <1>5, <1>6, <1>7, <1>8, <1>9
        DEF Next, Continue

(***************************************************************************)
(* The theorems.                                                           *)
(***************************************************************************)

\* The invariant holds in every reachable state.
LEMMA InvHolds == Spec => []Inv
<1>1. Init => Inv
  BY InvInit
<1>2. Inv /\ [Next]_vars => Inv'
  BY InvNext
<1> QED BY <1>1, <1>2, PTL DEF Spec

\* Journal, mirror and locals are always well formed; in particular every
\* minted id is a positive number.
THEOREM TypeCorrect == Spec => []TypeOK
<1>1. Inv => TypeOK
  BY DEF Inv
<1> QED BY <1>1, InvHolds, PTL

\* However posts, answers, checks and kills interleave, a default is the one of
\* a question posted before it and is never applied before its timeout
\* (check_timeouts).
THEOREM DefaultsDue == Spec => []DefaultsAreDue
<1>1. Inv => DefaultsAreDue
  BY DEF Inv
<1> QED BY <1>1, InvHolds, PTL

\* The mirror never shows an event the journal does not have, also when its
\* own appends fail or a command is killed between the two (_append_shared).
THEOREM MirrorFaithful == Spec => []MirrorFollowsJournal
<1>1. Inv => MirrorFollowsJournal
  BY DEF Inv
<1> QED BY <1>1, InvHolds, PTL

(***************************************************************************)
(* Commands that run one at a time, and may be killed.  What a command     *)
(* read stays true until it writes: the id it minted is in no event, and   *)
(* what a check found unresolved is unresolved still, each question once.  *)
(***************************************************************************)
OneSlot == \A p, o \in Procs : p = o

MintIsNew(j, r) == r.pc = "post" => \A i \in DOMAIN j : j[i].q # r.event.q

FindsAreOpen(j, r) ==
    r.pc \in {"default", "mirror"} =>
        \A item \in r.todo :
            /\ ResolutionsOf(j, item.q) = {}
            /\ \A other \in r.todo : other.q = item.q => other = item

SerialInv == \A p \in Procs : MintIsNew(journal, run[p]) /\ FindsAreOpen(journal, run[p])

\* What an event adds to the events of a question.
LEMMA EventsAfter ==
    ASSUME NEW j \in Seq(Event), NEW e \in Event, NEW q
    PROVE  /\ PostsOf(Append(j, e), q) = PostsOf(j, q) \cup
                (IF e.type = "question_posted" /\ e.q = q THEN {Len(j) + 1} ELSE {})
           /\ ResolutionsOf(Append(j, e), q) = ResolutionsOf(j, q) \cup
                (IF e.type \in {"answered", "defaulted"} /\ e.q = q THEN {Len(j) + 1} ELSE {})
           /\ DOMAIN Append(j, e) = DOMAIN j \cup {Len(j) + 1}
           /\ \A i \in DOMAIN j : Append(j, e)[i] = j[i] /\ i < Len(j) + 1
           /\ Append(j, e)[Len(j) + 1] = e
<1> DEFINE more == Append(j, e)
           new == Len(j) + 1
<1>1. /\ DOMAIN j = 1..Len(j) /\ Len(j) \in Nat
      /\ more \in Seq(Event) /\ Len(more) = new
      /\ \A i \in 1..Len(j) : more[i] = j[i]
      /\ more[new] = e
  BY LenProperties, AppendProperties
<1>2. DOMAIN more = 1..new
  BY <1>1, LenProperties
<1> HIDE DEF more
<1>3. DOMAIN more = DOMAIN j \cup {new} /\ \A i \in DOMAIN j : more[i] = j[i] /\ i < new
  BY <1>1, <1>2
<1> HIDE DEF new
<1>4. PostsOf(more, q) = PostsOf(j, q) \cup
         (IF e.type = "question_posted" /\ e.q = q THEN {new} ELSE {})
  BY <1>1, <1>3 DEF PostsOf
<1>5. ResolutionsOf(more, q) = ResolutionsOf(j, q) \cup
         (IF e.type \in {"answered", "defaulted"} /\ e.q = q THEN {new} ELSE {})
  BY <1>1, <1>3 DEF ResolutionsOf
<1> QED
  BY <1>1, <1>3, <1>4, <1>5 DEF more, new

\* A minted id is in no event, answers to unknown questions included.
LEMMA NextIdIsNew ==
    ASSUME NEW j \in Seq(Event), NEW i \in DOMAIN j
    PROVE  j[i].q # NextId(j)
<1> DEFINE f == [k \in 1..Len(j) |-> j[k].q]
           S == {j[k].q : k \in DOMAIN j}
           m == Max(S \cup {0})
<1>1. f \in [1..Len(j) -> Nat] /\ Len(j) \in Nat
  BY EventFields DEF Id
<1>2. S \subseteq {f[k] : k \in 1..Len(j)}
  BY EventFields
<1>3. j[i].q \in S /\ j[i].q \in Nat
  BY EventFields DEF Id
<1>4. NextId(j) = 1 + m
  BY DEF NextId
<1> HIDE DEF f, S
<1>5. m \in Nat /\ \A x \in S : x <= m
  BY <1>1, <1>2, MaxOfListed
<1> HIDE DEF m
<1>6. j[i].q <= m
  BY <1>3, <1>5
<1> QED
  BY <1>3, <1>4, <1>5, <1>6

\* An event leaves the resolutions of other questions alone.
LEMMA OthersStay ==
    ASSUME NEW j \in Seq(Event), NEW e \in Event, NEW q, e.q # q
    PROVE  ResolutionsOf(Append(j, e), q) = ResolutionsOf(j, q)
<1>1. ResolutionsOf(Append(j, e), q) = ResolutionsOf(j, q) \cup
         (IF e.type \in {"answered", "defaulted"} /\ e.q = q THEN {Len(j) + 1} ELSE {})
  BY EventsAfter
<1> QED
  BY <1>1

\* What a step of a serial command writes: a question nobody named before, an
\* answer, or the default of a question without any resolution.
LEMMA Written ==
    ASSUME Inv, SerialInv, [Next]_vars
    PROVE  \/ journal' = journal
           \/ \E e \in Event :
                 /\ journal' = Append(journal, e)
                 /\ e.type = "question_posted" => \A i \in DOMAIN journal : journal[i].q # e.q
                 /\ e.type = "defaulted" => ResolutionsOf(journal, e.q) = {}
<1>1. journal \in Seq(Event) /\ now \in Nat
  BY DEF Inv, TypeOK
<1>2. ASSUME NEW p \in Procs, PostWrite(p)
      PROVE  \E e \in Event :
                /\ journal' = Append(journal, e)
                /\ e.type = "question_posted" => \A i \in DOMAIN journal : journal[i].q # e.q
                /\ e.type = "defaulted" => ResolutionsOf(journal, e.q) = {}
  <2>1. run[p].event \in Posting /\ journal' = Append(journal, run[p].event)
    BY <1>2, RunFields DEF Inv, PostWrite, Write
  <2>2. run[p].event \in Event /\ run[p].event.type = "question_posted"
    BY <2>1 DEF Posting, Event
  <2> QED
    BY <1>2, <2>1, <2>2 DEF SerialInv, MintIsNew, PostWrite
<1>3. ASSUME NEW p \in Procs, AnswerWrite(p)
      PROVE  \E e \in Event : e.type = "answered" /\ journal' = Append(journal, e)
  <2>1. PICK q \in QuestionIds(journal) \cup StrayIds : Write(p, Answered(q), {})
    BY <1>3 DEF AnswerWrite
  <2>2. q \in Id
    BY <1>1, EventFields, QuestionsAssumption DEF QuestionIds, Id
  <2>3. Answered(q) \in Event /\ Answered(q).type = "answered"
    BY <2>2 DEF Answered, Event
  <2> QED
    BY <2>1, <2>3 DEF Write
<1>4. ASSUME NEW p \in Procs, DefaultWrite(p)
      PROVE  \E e \in Event : /\ e.type = "defaulted" /\ journal' = Append(journal, e)
                              /\ ResolutionsOf(journal, e.q) = {}
  <2>1. PICK item \in run[p].todo :
          Write(p, Defaulted(item.q, item.asked, now), run[p].todo \ {item})
    BY <1>4 DEF DefaultWrite
  <2> DEFINE e == Defaulted(item.q, item.asked, now)
  <2>2. run[p].todo \in SUBSET Item
    BY <1>4, RunFields DEF Inv, DefaultWrite
  <2>3. e \in Event /\ e.type = "defaulted" /\ e.q = item.q
    BY <1>1, <2>2 DEF Item, Defaulted, Event
  <2>4. journal' = Append(journal, e)
    BY <2>1 DEF Write
  <2> HIDE DEF e
  <2>5. ResolutionsOf(journal, item.q) = {}
    BY <1>4 DEF SerialInv, FindsAreOpen, DefaultWrite
  <2> QED
    BY <2>3, <2>4, <2>5
<1>5. ASSUME NEW p \in Procs, PostRead(p) \/ CheckRead(p) \/ MirrorWrite(p) \/ Kill(p)
      PROVE  journal' = journal
  BY <1>5 DEF PostRead, CheckRead, MirrorWrite, Kill
<1>6. Tick \/ UNCHANGED vars => journal' = journal
  BY DEF Tick, vars
<1> QED
  BY <1>2, <1>3, <1>4, <1>5, <1>6 DEF Next, Continue

\* A command keeps what it holds true of the journal, its own events included.
LEMMA SerialStep ==
    ASSUME OneSlot, Inv, SerialInv, [Next]_vars
    PROVE  SerialInv'
<1>1. /\ journal \in Seq(Event) /\ now \in Nat /\ run \in [Procs -> RunState]
      /\ TypeOK
  BY DEF Inv, TypeOK
<1>2. \A p, o \in Procs : p = o
  BY DEF OneSlot
<1>3. ASSUME NEW p \in Procs, NEW state, Enter(p, state),
             MintIsNew(journal', state), FindsAreOpen(journal', state)
      PROVE  SerialInv'
  <2>1. run'[p] = state
    BY <1>1, <1>3 DEF Enter
  <2> QED
    BY <1>2, <1>3, <2>1 DEF SerialInv
<1>4. ASSUME NEW p \in Procs, PostRead(p) PROVE SerialInv'
  <2>1. PICK asked \in Asked :
          Enter(p, [pc |-> "post", event |-> Posted(NextId(journal), asked, now)])
    BY <1>4 DEF PostRead
  <2> DEFINE state == [pc |-> "post", event |-> Posted(NextId(journal), asked, now)]
  <2>2. journal' = journal
    BY <1>4 DEF PostRead
  <2>3. state.pc = "post" /\ state.event.q = NextId(journal)
    BY DEF Posted
  <2>4. Enter(p, state)
    BY <2>1
  <2> HIDE DEF state
  <2>5. MintIsNew(journal', state)
    BY <1>1, <2>2, <2>3, NextIdIsNew DEF MintIsNew
  <2> QED
    BY <1>3, <2>3, <2>4, <2>5 DEF FindsAreOpen
<1>5. ASSUME NEW p \in Procs, PostWrite(p) \/ AnswerWrite(p) PROVE SerialInv'
  <2>1. PICK event : Write(p, event, {})
    BY <1>5 DEF PostWrite, AnswerWrite
  <2>2. Enter(p, [pc |-> "mirror", event |-> event, todo |-> {}])
    BY <2>1 DEF Write
  <2> QED
    BY <1>3, <2>2 DEF MintIsNew, FindsAreOpen
<1>6. ASSUME NEW p \in Procs, CheckRead(p) PROVE SerialInv'
  <2> DEFINE found == Expired(journal, now)
  <2>1. Enter(p, [pc |-> "default", todo |-> found]) /\ journal' = journal
    BY <1>6 DEF CheckRead
  <2>2. ASSUME NEW item \in found
        PROVE  /\ ResolutionsOf(journal, item.q) = {}
               /\ item = ItemOf(journal, item.q)
    <3>1. PICK q \in QuestionIds(journal) : item = ItemOf(journal, q)
      BY DEF Expired
    <3>2. item.q = q
      BY <3>1 DEF ItemOf
    <3>3. ResolutionsOf(journal, item.q) = {}
      BY DEF Expired
    <3> QED
      BY <3>1, <3>2, <3>3
  <2> HIDE DEF found
  <2>3. \A item \in found : \A other \in found : other.q = item.q => other = item
    BY <2>2
  <2> QED
    BY <1>3, <2>1, <2>2, <2>3 DEF MintIsNew, FindsAreOpen
<1>7. ASSUME NEW p \in Procs, DefaultWrite(p) PROVE SerialInv'
  <2>1. PICK item \in run[p].todo :
          Write(p, Defaulted(item.q, item.asked, now), run[p].todo \ {item})
    BY <1>7 DEF DefaultWrite
  <2> DEFINE e == Defaulted(item.q, item.asked, now)
             rest == run[p].todo \ {item}
  <2>2. run[p].todo \in SUBSET Item
    BY <1>1, <1>7, RunFields DEF DefaultWrite
  <2>3. e \in Event /\ e.q = item.q
    BY <1>1, <2>2 DEF Item, Defaulted, Event
  <2>4. /\ journal' = Append(journal, e)
        /\ Enter(p, [pc |-> "mirror", event |-> e, todo |-> rest])
    BY <2>1 DEF Write
  <2>5. \A one \in run[p].todo :
           /\ ResolutionsOf(journal, one.q) = {}
           /\ \A other \in run[p].todo : other.q = one.q => other = one
    BY <1>7 DEF SerialInv, FindsAreOpen, DefaultWrite
  <2>6. rest \in SUBSET run[p].todo /\ \A one \in rest : one.q # item.q
    BY <2>5
  <2> HIDE DEF e, rest
  <2>7. \A one \in rest : /\ ResolutionsOf(Append(journal, e), one.q) = {}
                          /\ \A other \in rest : other.q = one.q => other = one
    <3>1. ASSUME NEW one \in rest
          PROVE  ResolutionsOf(Append(journal, e), one.q) = {}
      <4>1. one.q # e.q /\ ResolutionsOf(journal, one.q) = {}
        BY <2>3, <2>5, <2>6
      <4> QED
        BY <1>1, <2>3, <4>1, OthersStay
    <3> QED
      BY <2>5, <2>6, <3>1
  <2> QED
    BY <1>3, <2>4, <2>7 DEF MintIsNew, FindsAreOpen
<1>8. ASSUME NEW p \in Procs, MirrorWrite(p) PROVE SerialInv'
  <2>1. /\ Enter(p, IF run[p].todo = {} THEN Idle ELSE [pc |-> "default", todo |-> run[p].todo])
        /\ journal' = journal
    BY <1>8 DEF MirrorWrite
  <2>2. FindsAreOpen(journal, run[p]) /\ run[p].pc = "mirror"
    BY <1>8 DEF SerialInv, MirrorWrite
  <2>3. CASE run[p].todo = {}
    BY <1>3, <2>1, <2>3 DEF MintIsNew, FindsAreOpen, Idle
  <2>4. CASE run[p].todo # {}
    BY <1>3, <2>1, <2>2, <2>4 DEF MintIsNew, FindsAreOpen
  <2> QED
    BY <2>3, <2>4
<1>9. ASSUME NEW p \in Procs, Kill(p) PROVE SerialInv'
  BY <1>3, <1>9 DEF Kill, MintIsNew, FindsAreOpen, Idle
<1>10. CASE Tick \/ UNCHANGED vars
  BY <1>10 DEF Tick, vars, SerialInv
<1> QED
  BY <1>4, <1>5, <1>6, <1>7, <1>8, <1>9, <1>10 DEF Next, Continue

LEMMA SerialInvHolds ==
    ASSUME OneSlot
    PROVE  Spec => [](Inv /\ SerialInv)
<1>1. Init => SerialInv
  BY DEF Init, Idle, SerialInv, MintIsNew, FindsAreOpen
<1>2. Inv /\ SerialInv /\ [Next]_vars => SerialInv'
  BY SerialStep
<1> QED
  BY <1>1, <1>2, InvHolds, PTL DEF Spec

\* Commands that run one at a time default a question at most once, also when
\* a check was killed and run again.
THEOREM QuestionsDefaultedOnce ==
    ASSUME OneSlot
    PROVE  Spec => []DefaultedOnce
<1>1. Init => DefaultedOnce
  BY DEF Init, DefaultedOnce
<1>2. ASSUME Inv, SerialInv, DefaultedOnce, [Next]_vars PROVE DefaultedOnce'
  <2>1. journal \in Seq(Event)
    BY <1>2 DEF Inv, TypeOK
  <2>2. CASE journal' = journal
    BY <1>2, <2>2 DEF DefaultedOnce
  <2>3. ASSUME NEW e \in Event, journal' = Append(journal, e),
               e.type = "defaulted" => ResolutionsOf(journal, e.q) = {}
        PROVE  DefaultedOnce'
    <3>1. /\ DOMAIN Append(journal, e) = DOMAIN journal \cup {Len(journal) + 1}
          /\ \A i \in DOMAIN journal : Append(journal, e)[i] = journal[i]
          /\ Append(journal, e)[Len(journal) + 1] = e
      BY <2>1, EventsAfter
    <3>2. e.type = "defaulted" =>
             \A i \in DOMAIN journal : ~(journal[i].type = "defaulted" /\ journal[i].q = e.q)
      BY <2>3 DEF ResolutionsOf
    <3> QED
      BY <1>2, <2>3, <3>1, <3>2 DEF DefaultedOnce
  <2> QED
    BY <1>2, <2>2, <2>3, Written
<1> QED
  BY <1>1, <1>2, SerialInvHolds, PTL DEF Spec

\* Commands that run one at a time never default a question that was answered,
\* nor open it again: an answer stands.
THEOREM AnswersAlwaysStand ==
    ASSUME OneSlot
    PROVE  Spec => AnswersStand
<1>1. ASSUME Inv, SerialInv, [Next]_vars
      PROVE  \A q \in QuestionIds(journal) :
                StatusOf(journal, q) = "answered" => StatusOf(journal', q) = "answered"
  <2> SUFFICES ASSUME NEW q \in QuestionIds(journal), StatusOf(journal, q) = "answered"
               PROVE  StatusOf(journal', q) = "answered"
    OBVIOUS
  <2>1. journal \in Seq(Event)
    BY <1>1 DEF Inv, TypeOK
  <2>2. CASE journal' = journal
    BY <2>2
  <2>3. ASSUME NEW e \in Event, journal' = Append(journal, e),
               e.type = "question_posted" => \A i \in DOMAIN journal : journal[i].q # e.q,
               e.type = "defaulted" => ResolutionsOf(journal, e.q) = {}
        PROVE  StatusOf(journal', q) = "answered"
    <3> DEFINE S == PostsOf(journal, q) \cup ResolutionsOf(journal, q)
               T == PostsOf(journal', q) \cup ResolutionsOf(journal', q)
               new == Len(journal) + 1
    <3>1. /\ PostsOf(journal', q) = PostsOf(journal, q) \cup
                (IF e.type = "question_posted" /\ e.q = q THEN {new} ELSE {})
          /\ ResolutionsOf(journal', q) = ResolutionsOf(journal, q) \cup
                (IF e.type \in {"answered", "defaulted"} /\ e.q = q THEN {new} ELSE {})
          /\ \A i \in DOMAIN journal : journal'[i] = journal[i] /\ i < new
          /\ journal'[new] = e
      <4>1. /\ PostsOf(Append(journal, e), q) = PostsOf(journal, q) \cup
                  (IF e.type = "question_posted" /\ e.q = q THEN {new} ELSE {})
            /\ ResolutionsOf(Append(journal, e), q) = ResolutionsOf(journal, q) \cup
                  (IF e.type \in {"answered", "defaulted"} /\ e.q = q THEN {new} ELSE {})
            /\ \A i \in DOMAIN journal : Append(journal, e)[i] = journal[i] /\ i < new
            /\ Append(journal, e)[new] = e
        <5>1. PostsOf(Append(journal, e), q) = PostsOf(journal, q) \cup
                 (IF e.type = "question_posted" /\ e.q = q THEN {Len(journal) + 1} ELSE {})
          BY <2>1, EventsAfter
        <5>2. ResolutionsOf(Append(journal, e), q) = ResolutionsOf(journal, q) \cup
                 (IF e.type \in {"answered", "defaulted"} /\ e.q = q
                  THEN {Len(journal) + 1} ELSE {})
          BY <2>1, EventsAfter
        <5>3. /\ \A i \in DOMAIN journal :
                    Append(journal, e)[i] = journal[i] /\ i < Len(journal) + 1
              /\ Append(journal, e)[Len(journal) + 1] = e
          BY <2>1, EventsAfter
        <5> QED
          BY <5>1, <5>2, <5>3
      <4> HIDE DEF new
      <4> QED
        BY <2>3, <4>1
    <3>2. S \in SUBSET Nat /\ S \subseteq DOMAIN journal /\ Len(journal) \in Nat
          /\ \A i \in S : i <= Len(journal)
      BY <2>1, EventFields DEF PostsOf, ResolutionsOf
    <3>3. S # {} /\ PostsOf(journal, q) # {}
      BY DEF QuestionIds
    <3>4. Max(S) \notin PostsOf(journal, q) /\ journal[Max(S)].type = "answered"
      BY <3>3 DEF StatusOf
    <3> HIDE DEF S
    <3>5. Max(S) \in S
      BY <3>2, <3>3, MaxInSet
    <3>6. CASE e.q # q
      <4>1. PostsOf(journal', q) = PostsOf(journal, q) /\ T = S
        BY <3>1, <3>6 DEF S
      <4>2. journal'[Max(S)] = journal[Max(S)]
        BY <3>1, <3>2, <3>5
      <4> HIDE DEF T
      <4> QED
        BY <3>3, <3>4, <4>1, <4>2 DEF StatusOf, T
    <3>7. CASE e.q = q
      <4>1. e.type # "question_posted"
        BY <2>3, <3>3, <3>7 DEF PostsOf
      <4>2. e.type # "defaulted"
        BY <2>3, <3>4, <3>5, <3>7 DEF S
      <4>3. e.type = "answered"
        BY <4>1, <4>2 DEF Event, Posting
      <4>4. PostsOf(journal', q) = PostsOf(journal, q) /\ T = S \cup {new}
        BY <3>1, <3>7, <4>3 DEF S
      <4> HIDE DEF T
      <4>5. new \in Nat /\ \A i \in S : i \in Nat /\ i <= new
        BY <3>2
      <4> HIDE DEF new
      <4>6. new \in T /\ T \in SUBSET Nat /\ \A i \in T : i <= new
        BY <4>4, <4>5
      <4>9. \A x \in T : x <= Max(T)
        BY <4>5, <4>6, MaxInSet
      <4>10. Max(T) \in T
        BY <4>5, <4>6, MaxInSet
      <4>7. Max(T) = new
        <5>1. new <= Max(T) /\ Max(T) <= new /\ Max(T) \in Nat
          BY <4>6, <4>9, <4>10
        <5> QED
          BY <4>5, <5>1
      <4>8. new \notin PostsOf(journal, q)
        <5>1. \A i \in PostsOf(journal, q) : i <= Len(journal)
          BY <3>2 DEF S
        <5> QED
          BY <3>2, <5>1 DEF new
      <4> QED
        BY <3>1, <4>3, <4>4, <4>5, <4>7, <4>8 DEF StatusOf, T
    <3> QED
      BY <3>6, <3>7
  <2> QED
    BY <1>1, <2>2, <2>3, Written
<1> QED
  BY <1>1, SerialInvHolds, PTL DEF Spec, AnswersStand
=============================================================================
