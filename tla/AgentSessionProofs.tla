-------------------------- MODULE AgentSessionProofs --------------------------
(***************************************************************************)
(* Proofs about the session around the agent.  Its types, and that it      *)
(* holds the transcript, are proved for any number of callers of prompt(); *)
(* the other theorems are about one prompt in flight at a time, which is   *)
(* what the session's test of isStreaming is meant to ensure.              *)
(***************************************************************************)
EXTENDS AgentSession, AgentProofs, Maxima, FiniteSetTheorems

(***************************************************************************)
(* Messages, entries and the context built from them.                      *)
(***************************************************************************)
NoteKinds == {Bash, Custom}
NoSummaries(messages) == \A i \in DOMAIN messages : ~IsSummary(messages[i])

\* A compaction entry keeps entries before it.
Grounded(all) ==
    \A i \in DOMAIN all : IsSummary(all[i]) => all[i].data \in 1..(i - 1)

LEMMA NotesAreMessages ==
    /\ NoteKinds \subseteq Message
    /\ \A m \in NoteKinds : /\ ~IsSummary(m) /\ ~IsAssistant(m) /\ IsNote(m)
                            /\ m.role \notin {"user", "toolResult"}
    /\ \A n \in Nat : Summary(n) \in Message /\ IsSummary(Summary(n)) /\ Summary(n).data = n
    /\ \A n \in Nat : ~IsAssistant(Summary(n)) /\ ~IsNote(Summary(n)) /\ Summary(n).role # "user"
<1>1. Bash \in Message /\ Custom \in Message
  BY SessionAssumption DEF Bash, Custom, Message
<1>2. \A n \in Nat : Summary(n) \in Message
  BY SessionAssumption DEF Summary, Message
<1> QED
  BY <1>1, <1>2 DEF NoteKinds, Bash, Custom, Summary, IsSummary, IsAssistant, IsNote

LEMMA NotesAreLists ==
    ASSUME NEW notes \in Seq(NoteKinds)
    PROVE  /\ notes \in Seq(Message) /\ NoSummaries(notes)
           /\ \A i \in DOMAIN notes : notes[i] \in NoteKinds
<1>1. \A i \in DOMAIN notes : notes[i] \in NoteKinds
  BY LenProperties, ElementOfSeq
<1>2. notes \in Seq(Message)
  BY NotesAreMessages, SeqMonotonic
<1> QED
  BY <1>1, <1>2, NotesAreMessages DEF NoSummaries

\* The last compaction entry is the last one.
LEMMA LastSummaryIsLast ==
    ASSUME NEW all \in Seq(Message)
    PROVE  /\ LastSummary(all) \in 0..Len(all)
           /\ LastSummary(all) # 0 => IsSummary(all[LastSummary(all)])
           /\ \A i \in 1..Len(all) : IsSummary(all[i]) => i <= LastSummary(all)
<1> DEFINE I == {i \in 1..Len(all) : IsSummary(all[i])}
<1>1. Len(all) \in Nat
  BY LenProperties
<1>2. LastSummary(all) = IF I # {} THEN Max(I) ELSE 0
  BY DEF LastSummary, SelectLastInSeq
<1>3. CASE I = {}
  BY <1>1, <1>2, <1>3
<1>4. CASE I # {}
  <2>1. I \in SUBSET Nat /\ \A i \in I : i <= Len(all)
    BY <1>1
  <2> HIDE DEF I
  <2>2. Max(I) \in I /\ \A i \in I : i <= Max(I)
    BY <1>1, <1>4, <2>1, MaxInSet
  <2> QED
    BY <1>1, <1>2, <1>4, <2>2 DEF I
<1> QED
  BY <1>3, <1>4

\* The position of the last compaction entry is known by what is after it.
LEMMA LastSummaryUnique ==
    ASSUME NEW all \in Seq(Message), NEW s \in 0..Len(all),
           s # 0 => IsSummary(all[s]),
           \A i \in 1..Len(all) : IsSummary(all[i]) => i <= s
    PROVE  LastSummary(all) = s
<1>1. Len(all) \in Nat
  BY LenProperties
<1> QED
  BY <1>1, LastSummaryIsLast

\* The last response, and the default one where there is none.
LEMMA LastResponseIsLast ==
    ASSUME NEW all \in Seq(Message)
    PROVE  \/ /\ \A i \in 1..Len(all) : ~IsAssistant(all[i])
              /\ LastResponse(all) = Assistant(0, "stop", 0)
           \/ \E p \in 1..Len(all) :
                /\ IsAssistant(all[p]) /\ LastResponse(all) = all[p]
                /\ \A i \in (p + 1)..Len(all) : ~IsAssistant(all[i])
<1> DEFINE I == {i \in 1..Len(all) : IsAssistant(all[i])}
           p == SelectLastInSeq(all, IsAssistant)
<1>1. Len(all) \in Nat
  BY LenProperties
<1>2. p = IF I # {} THEN Max(I) ELSE 0
  BY DEF SelectLastInSeq
<1>3. LastResponse(all) = IF p = 0 THEN Assistant(0, "stop", 0) ELSE all[p]
  BY DEF LastResponse
<1> HIDE DEF p
<1>4. CASE I = {}
  BY <1>2, <1>3, <1>4
<1>5. CASE I # {}
  <2>1. I \in SUBSET Nat /\ \A i \in I : i <= Len(all)
    BY <1>1
  <2> HIDE DEF I
  <2>2. Max(I) \in I /\ \A i \in I : i <= Max(I)
    BY <1>1, <1>5, <2>1, MaxInSet
  <2>3. p \in 1..Len(all) /\ IsAssistant(all[p]) /\ p # 0
    BY <1>1, <1>2, <1>5, <2>2 DEF I
  <2>4. \A i \in (p + 1)..Len(all) : ~IsAssistant(all[i])
    BY <1>1, <1>2, <1>5, <2>2, <2>3 DEF I
  <2> QED
    BY <1>3, <2>3, <2>4
<1> QED
  BY <1>4, <1>5

\* The last response is known by what is after it.
LEMMA LastResponseUnique ==
    ASSUME NEW all \in Seq(Message), NEW p \in 1..Len(all), IsAssistant(all[p]),
           \A i \in (p + 1)..Len(all) : ~IsAssistant(all[i])
    PROVE  LastResponse(all) = all[p]
<1>1. Len(all) \in Nat
  BY LenProperties
<1>2. PICK q \in 1..Len(all) : /\ IsAssistant(all[q]) /\ LastResponse(all) = all[q]
                               /\ \A i \in (q + 1)..Len(all) : ~IsAssistant(all[i])
  BY LastResponseIsLast
<1>3. p = q
  BY <1>1, <1>2
<1> QED
  BY <1>2, <1>3

LEMMA BuildContextType ==
    ASSUME NEW all \in Seq(Message), Grounded(all)
    PROVE  BuildContext(all) \in Seq(Message)
<1> DEFINE s == LastSummary(all)
<1>1. /\ Len(all) \in Nat /\ s \in 0..Len(all) /\ DOMAIN all = 1..Len(all)
      /\ s # 0 => IsSummary(all[s])
  BY LenProperties, LastSummaryIsLast
<1> HIDE DEF s
<1>2. CASE s = 0
  BY <1>2 DEF BuildContext, s
<1>3. CASE s # 0
  <2>1. all[s].data \in 1..(s - 1) /\ all[s] \in Message
    BY <1>1, <1>3, ElementOfSeq DEF Grounded
  <2>2. \A i \in 1..Len(all) : all[i] \in Message
    BY ElementOfSeq
  <2>3. SubSeq(all, all[s].data, s - 1) \in Seq(Message)
    BY <1>1, <2>1, <2>2, SubSeqProperties
  <2>4. SubSeq(all, s + 1, Len(all)) \in Seq(Message)
    BY <1>1, <2>2, SubSeqProperties
  <2>5. <<all[s]>> \in Seq(Message)
    BY <2>1
  <2>6. <<all[s]>> \o SubSeq(all, all[s].data, s - 1) \o SubSeq(all, s + 1, Len(all)) \in Seq(Message)
    BY <2>3, <2>4, <2>5, ConcatProperties
  <2> QED
    BY <1>3, <2>6 DEF BuildContext, s
<1> QED
  BY <1>2, <1>3

\* Where a compaction may cut, and the entries after it.
LEMMA CutPointsArePast ==
    ASSUME entries \in Seq(Message), Grounded(entries), NEW first \in CutPoints
    PROVE  /\ first \in 1..Len(entries) /\ entries # <<>>
           /\ Append(entries, Summary(first)) \in Seq(Message)
           /\ Grounded(Append(entries, Summary(first)))
<1> DEFINE s == LastSummary(entries)
           b == IF s = 0 THEN 1 ELSE entries[s].data
<1>1. /\ Len(entries) \in Nat /\ s \in 0..Len(entries) /\ DOMAIN entries = 1..Len(entries)
      /\ s # 0 => IsSummary(entries[s])
  BY LenProperties, LastSummaryIsLast
<1>2. b \in Nat /\ b >= 1
  BY <1>1 DEF Grounded
<1>3. first \in b..Len(entries)
  BY DEF CutPoints
<1>4. first \in 1..Len(entries)
  BY <1>1, <1>2, <1>3
<1> DEFINE after == Append(entries, Summary(first))
<1>5. /\ after \in Seq(Message) /\ Len(after) = Len(entries) + 1
      /\ \A i \in 1..Len(entries) : after[i] = entries[i]
      /\ after[Len(entries) + 1] = Summary(first)
  BY <1>1, <1>4, NotesAreMessages, AppendProperties
<1>6. DOMAIN after = 1..(Len(entries) + 1)
  BY <1>5, LenProperties
<1> HIDE DEF after
<1>7. Grounded(after)
  <2> SUFFICES ASSUME NEW i \in 1..(Len(entries) + 1), IsSummary(after[i])
               PROVE  after[i].data \in 1..(i - 1)
    BY <1>6 DEF Grounded
  <2>1. CASE i = Len(entries) + 1
    BY <1>1, <1>4, <1>5, <2>1, NotesAreMessages
  <2>2. CASE i # Len(entries) + 1
    BY <1>1, <1>5, <2>2 DEF Grounded
  <2> QED
    BY <2>1, <2>2
<1>8. entries # <<>>
  BY <1>1, <1>4, EmptySeq
<1> QED
  BY <1>4, <1>5, <1>7, <1>8 DEF after

\* Entries that are no compactions need no ground.
LEMMA GroundedGrows ==
    ASSUME NEW all \in Seq(Message), Grounded(all),
           NEW new \in Seq(Message), NoSummaries(new)
    PROVE  all \o new \in Seq(Message) /\ Grounded(all \o new)
<1>1. /\ all \o new \in Seq(Message) /\ Len(all \o new) = Len(all) + Len(new)
      /\ Len(all) \in Nat /\ Len(new) \in Nat /\ DOMAIN new = 1..Len(new)
      /\ DOMAIN all = 1..Len(all)
      /\ \A i \in 1..(Len(all) + Len(new)) :
            (all \o new)[i] = IF i <= Len(all) THEN all[i] ELSE new[i - Len(all)]
  BY ConcatProperties, LenProperties
<1>2. DOMAIN (all \o new) = 1..(Len(all) + Len(new))
  BY <1>1, LenProperties
<1>3. ASSUME NEW i \in 1..(Len(all) + Len(new)), IsSummary((all \o new)[i])
      PROVE  (all \o new)[i].data \in 1..(i - 1)
  <2>1. CASE i <= Len(all)
    <3>1. i \in DOMAIN all /\ (all \o new)[i] = all[i]
      BY <1>1, <2>1
    <3> QED
      BY <1>3, <3>1 DEF Grounded
  <2>2. CASE ~(i <= Len(all))
    <3>1. i - Len(all) \in DOMAIN new /\ (all \o new)[i] = new[i - Len(all)]
      BY <1>1, <2>2
    <3> QED
      BY <1>3, <3>1 DEF NoSummaries
  <2> QED
    BY <2>1, <2>2
<1> QED
  BY <1>1, <1>2, <1>3 DEF Grounded

\* What is recorded after a compaction is in the context.
LEMMA BuildContextGrows ==
    ASSUME NEW all \in Seq(Message), Grounded(all),
           NEW new \in Seq(Message), NoSummaries(new)
    PROVE  BuildContext(all \o new) = BuildContext(all) \o new
<1> DEFINE s == LastSummary(all)
           more == all \o new
<1>1. /\ Len(all) \in Nat /\ s \in 0..Len(all) /\ DOMAIN all = 1..Len(all)
      /\ s # 0 => IsSummary(all[s])
      /\ \A i \in 1..Len(all) : IsSummary(all[i]) => i <= s
  BY LenProperties, LastSummaryIsLast
<1>2. /\ more \in Seq(Message) /\ Len(more) = Len(all) + Len(new)
      /\ Len(new) \in Nat /\ DOMAIN new = 1..Len(new)
      /\ \A i \in 1..(Len(all) + Len(new)) :
            more[i] = IF i <= Len(all) THEN all[i] ELSE new[i - Len(all)]
  BY ConcatProperties, LenProperties
<1> HIDE DEF s, more
<1>3. LastSummary(more) = s
  <2>1. s \in 0..Len(more) /\ (s # 0 => IsSummary(more[s]))
    BY <1>1, <1>2
  <2>2. ASSUME NEW i \in 1..Len(more), IsSummary(more[i]) PROVE i <= s
    <3>1. CASE i <= Len(all)
      BY <1>1, <1>2, <2>2, <3>1
    <3>2. CASE ~(i <= Len(all))
      <4>1. i - Len(all) \in DOMAIN new /\ more[i] = new[i - Len(all)]
        BY <1>1, <1>2, <3>2
      <4> QED
        BY <2>2, <4>1 DEF NoSummaries
    <3> QED
      BY <3>1, <3>2
  <2> QED
    BY <1>2, <2>1, <2>2, LastSummaryUnique
<1>4. CASE s = 0
  BY <1>3, <1>4 DEF BuildContext, more, s
<1>5. CASE s # 0
  <2> DEFINE d == all[s].data
             middle == SubSeq(all, d, s - 1)
             end == SubSeq(all, s + 1, Len(all))
  <2>1. /\ d \in 1..(s - 1) /\ s \in 1..Len(all)
        /\ all[s] \in Message /\ more[s] = all[s] /\ more[s].data = d
        /\ \A i \in 1..Len(all) : all[i] \in Message
    <3>1. \A i \in 1..Len(all) : all[i] \in Message
      BY ElementOfSeq, Zenon
    <3>2. s \in 1..Len(all) /\ Len(all) \in Nat
      BY <1>1, <1>2, <1>5
    <3>3. more[s] = all[s]
      BY <1>2, <3>2
    <3>4. d \in 1..(s - 1)
      BY <1>1, <1>5, <3>2 DEF Grounded
    <3> QED
      BY <3>1, <3>2, <3>3, <3>4
  <2> HIDE DEF d
  <2>2. middle \in Seq(Message) /\ end \in Seq(Message) /\ <<all[s]>> \in Seq(Message)
    BY <1>1, <2>1, SubSeqProperties
  <2>3. SubSeq(more, d, s - 1) = middle
    BY <1>1, <1>2, <2>1, SubSeqOfConcat1 DEF more
  <2>4. SubSeq(more, s + 1, Len(more)) = end \o new
    <3>1. /\ SubSeq(more, s + 1, Len(more)) \in Seq(Message)
          /\ Len(SubSeq(more, s + 1, Len(more))) = Len(more) - s
          /\ \A i \in 1..(Len(more) - s) : SubSeq(more, s + 1, Len(more))[i] = more[s + i]
      <4>1. \A i \in 1..Len(more) : more[i] \in Message
        BY <1>2, ElementOfSeq
      <4>2. \A i \in (s + 1)..Len(more) : more[i] \in Message
        BY <1>1, <4>1
      <4>3. /\ SubSeq(more, s + 1, Len(more)) \in Seq(Message)
            /\ Len(SubSeq(more, s + 1, Len(more)))
                 = IF s + 1 <= Len(more) THEN Len(more) - (s + 1) + 1 ELSE 0
            /\ \A i \in 1..(Len(more) - (s + 1) + 1) :
                  SubSeq(more, s + 1, Len(more))[i] = more[s + 1 + i - 1]
        BY <1>1, <1>2, <4>2, SubSeqProperties
      <4> QED
        BY <1>1, <1>2, <4>3
    <3>2. /\ Len(end) = Len(all) - s
          /\ \A i \in 1..(Len(all) - s) : end[i] = all[s + i]
      <4>1. \A i \in (s + 1)..Len(all) : all[i] \in Message
        BY <1>1, <2>1
      <4>2. /\ Len(end) = IF s + 1 <= Len(all) THEN Len(all) - (s + 1) + 1 ELSE 0
            /\ \A i \in 1..(Len(all) - (s + 1) + 1) : end[i] = all[s + 1 + i - 1]
        BY <1>1, <4>1, SubSeqProperties
      <4>3. ASSUME NEW i \in 1..(Len(all) - s) PROVE end[i] = all[s + i]
        <5>1. i \in 1..(Len(all) - (s + 1) + 1) /\ s + 1 + i - 1 = s + i
          BY <1>1
        <5>2. end[i] = all[s + 1 + i - 1]
          BY <4>2, <5>1
        <5> QED
          BY <5>1, <5>2
      <4>4. Len(end) = Len(all) - s
        <5>1. CASE s + 1 <= Len(all)
          BY <1>1, <4>2, <5>1
        <5>2. CASE ~(s + 1 <= Len(all))
          <6>1. s + 1 \in Int /\ Len(all) \in Int /\ Len(all) < s + 1 /\ Len(all) - s = 0
            <7>1. Len(all) \in Nat /\ s \in 0..Len(all)
              BY <1>1
            <7> QED
              BY <5>2, <7>1
          <6>2. end = <<>>
            BY <6>1, SubSeqEmpty, Zenon
          <6> HIDE DEF end
          <6> QED
            BY <6>1, <6>2, EmptySeq
        <5> QED
          BY <5>1, <5>2
      <4> HIDE DEF end
      <4> QED
        BY <4>3, <4>4
    <3> HIDE DEF end
    <3>3. /\ end \o new \in Seq(Message) /\ Len(end \o new) = Len(end) + Len(new)
          /\ \A i \in 1..(Len(end) + Len(new)) :
                (end \o new)[i] = IF i <= Len(end) THEN end[i] ELSE new[i - Len(end)]
      BY <2>2, ConcatProperties
    <3>4. ASSUME NEW i \in 1..(Len(more) - s)
          PROVE  SubSeq(more, s + 1, Len(more))[i] = (end \o new)[i]
      <4>1. CASE i <= Len(end)
        BY <1>1, <1>2, <3>1, <3>2, <3>3, <4>1
      <4>2. CASE ~(i <= Len(end))
        <5>1. more[s + i] = new[s + i - Len(all)] /\ s + i - Len(all) = i - Len(end)
          BY <1>1, <1>2, <3>2, <4>2
        <5>2. (end \o new)[i] = new[i - Len(end)]
          BY <1>1, <1>2, <3>2, <3>3, <4>2
        <5> QED
          BY <3>1, <5>1, <5>2
      <4> QED
        BY <4>1, <4>2
    <3>5. Len(SubSeq(more, s + 1, Len(more))) = Len(end \o new)
      BY <1>1, <1>2, <3>1, <3>2, <3>3
    <3> QED
      BY <3>1, <3>3, <3>4, <3>5, SeqEqual
  <2>5. BuildContext(more) = <<all[s]>> \o middle \o (end \o new)
    BY <1>3, <1>5, <2>1, <2>3, <2>4 DEF BuildContext
  <2>6. BuildContext(all) = <<all[s]>> \o middle \o end
    BY <1>5 DEF BuildContext, s, d
  <2> HIDE DEF middle, end
  <2>7. <<all[s]>> \o middle \in Seq(Message)
    BY <2>2, ConcatProperties
  <2>8. <<all[s]>> \o middle \o (end \o new) = (<<all[s]>> \o middle \o end) \o new
    BY <2>2, <2>7, Regroup
  <2> QED
    BY <2>5, <2>6, <2>8 DEF more
<1> QED
  BY <1>4, <1>5

\* The context after a compaction: the summary and the entries it keeps.
LEMMA BuildContextCompacted ==
    ASSUME NEW all \in Seq(Message), NEW first \in 1..Len(all)
    PROVE  /\ BuildContext(Append(all, Summary(first)))
                = <<Summary(first)>> \o SubSeq(all, first, Len(all))
           /\ BuildContext(Append(all, Summary(first))) \in Seq(Message)
           /\ Len(BuildContext(Append(all, Summary(first)))) > 1
           /\ Last(BuildContext(Append(all, Summary(first)))) = Last(all)
<1> DEFINE after == Append(all, Summary(first))
           n == Len(all)
           kept == SubSeq(all, first, n)
<1>1. /\ n \in Nat /\ first \in Nat /\ Summary(first) \in Message
      /\ \A i \in 1..n : all[i] \in Message
  BY LenProperties, ElementOfSeq, NotesAreMessages
<1>2. /\ after \in Seq(Message) /\ Len(after) = n + 1
      /\ \A i \in 1..n : after[i] = all[i]
      /\ after[n + 1] = Summary(first)
  BY <1>1, AppendProperties
<1> HIDE DEF after
<1>3. LastSummary(after) = n + 1
  BY <1>1, <1>2, NotesAreMessages, LastSummaryUnique
<1>4. SubSeq(after, first, n) = kept
  <2>1. \A i \in first..n : after[i] \in Message /\ all[i] \in Message
    BY <1>1, <1>2
  <2>2. /\ SubSeq(after, first, n) \in Seq(Message)
        /\ Len(SubSeq(after, first, n)) = n - first + 1
        /\ \A i \in 1..(n - first + 1) : SubSeq(after, first, n)[i] = after[first + i - 1]
    BY <1>1, <2>1, SubSeqProperties
  <2>3. /\ kept \in Seq(Message) /\ Len(kept) = n - first + 1
        /\ \A i \in 1..(n - first + 1) : kept[i] = all[first + i - 1]
    BY <1>1, <2>1, SubSeqProperties
  <2>4. \A i \in 1..(n - first + 1) : SubSeq(after, first, n)[i] = kept[i]
    BY <1>1, <1>2, <2>2, <2>3
  <2> QED
    BY <2>2, <2>3, <2>4, SeqEqual
<1>5. /\ kept \in Seq(Message) /\ Len(kept) = n - first + 1
      /\ kept[n - first + 1] = all[n]
  <2>1. \A i \in first..n : all[i] \in Message
    BY <1>1
  <2>2. /\ kept \in Seq(Message) /\ Len(kept) = n - first + 1
        /\ \A i \in 1..(n - first + 1) : kept[i] = all[first + i - 1]
    BY <1>1, <2>1, SubSeqProperties
  <2> QED
    BY <1>1, <2>2
<1> HIDE DEF kept
<1>6. BuildContext(after) = <<Summary(first)>> \o kept \o SubSeq(after, n + 2, n + 1)
  <2>1. n + 1 # 0 /\ (n + 1) - 1 = n /\ (n + 1) + 1 = n + 2
    BY <1>1
  <2>2. after[n + 1].data = first
    BY <1>1, <1>2, NotesAreMessages
  <2> QED
    BY <1>2, <1>3, <1>4, <2>1, <2>2 DEF BuildContext
<1>7. SubSeq(after, n + 2, n + 1) = <<>>
  BY <1>1, SubSeqEmpty
<1>8. <<Summary(first)>> \in Seq(Message) /\ Len(<<Summary(first)>>) = 1
  BY <1>1
<1>9. /\ <<Summary(first)>> \o kept \in Seq(Message)
      /\ Len(<<Summary(first)>> \o kept) = 1 + (n - first + 1)
      /\ (<<Summary(first)>> \o kept)[1 + (n - first + 1)] = kept[n - first + 1]
  <2> DEFINE one == <<Summary(first)>>
  <2>1. one \in Seq(Message) /\ Len(one) = 1
    BY <1>8
  <2> HIDE DEF one
  <2>2. /\ one \o kept \in Seq(Message) /\ Len(one \o kept) = Len(one) + Len(kept)
        /\ \A i \in 1..(Len(one) + Len(kept)) :
              (one \o kept)[i] = IF i <= Len(one) THEN one[i] ELSE kept[i - Len(one)]
    BY <1>5, <2>1, ConcatProperties
  <2>3. (one \o kept)[1 + (n - first + 1)] = kept[n - first + 1]
    BY <1>1, <1>5, <2>1, <2>2
  <2> QED
    BY <1>5, <2>1, <2>2, <2>3 DEF one
<1>10. BuildContext(after) = <<Summary(first)>> \o kept
  BY <1>6, <1>7, <1>9, ConcatEmptySeq
<1> QED
  BY <1>1, <1>5, <1>9, <1>10 DEF after, kept, Last

\* Without its last message.
LEMMA FrontType ==
    ASSUME NEW s \in Seq(Message), s # <<>>
    PROVE  /\ Front(s) \in Seq(Message) /\ Last(s) \in Message
           /\ s = Append(Front(s), Last(s))
<1>1. Len(s) \in Nat \ {0} /\ \A i \in 1..Len(s) : s[i] \in Message
  BY EmptySeq, ElementOfSeq
<1>2. /\ Front(s) \in Seq(Message) /\ Len(Front(s)) = Len(s) - 1
      /\ \A i \in 1..(Len(s) - 1) : Front(s)[i] = s[i]
  <2>1. /\ SubSeq(s, 1, Len(s) - 1) \in Seq(Message)
        /\ Len(SubSeq(s, 1, Len(s) - 1))
             = IF 1 <= Len(s) - 1 THEN Len(s) - 1 - 1 + 1 ELSE 0
        /\ \A i \in 1..(Len(s) - 1 - 1 + 1) : SubSeq(s, 1, Len(s) - 1)[i] = s[1 + i - 1]
    BY <1>1, SubSeqProperties
  <2>2. ASSUME NEW i \in 1..(Len(s) - 1) PROVE SubSeq(s, 1, Len(s) - 1)[i] = s[i]
    <3>1. i \in 1..(Len(s) - 1 - 1 + 1) /\ 1 + i - 1 = i
      BY <1>1
    <3>2. SubSeq(s, 1, Len(s) - 1)[i] = s[1 + i - 1]
      BY <2>1, <3>1
    <3> QED
      BY <3>1, <3>2
  <2>3. Len(SubSeq(s, 1, Len(s) - 1)) = Len(s) - 1
    <3>1. CASE 1 <= Len(s) - 1
      BY <1>1, <2>1, <3>1
    <3>2. CASE ~(1 <= Len(s) - 1)
      <4>1. 1 \in Int /\ Len(s) - 1 \in Int /\ Len(s) - 1 < 1 /\ Len(s) - 1 = 0
        <5> DEFINE n == Len(s)
        <5>1. n \in Nat \ {0} /\ ~(1 <= n - 1)
          BY <1>1, <3>2
        <5> HIDE DEF n
        <5>2. 1 \in Int /\ n - 1 \in Int /\ n - 1 < 1 /\ n - 1 = 0
          BY <5>1
        <5> QED
          BY <5>2 DEF n
      <4>2. SubSeq(s, 1, Len(s) - 1) = <<>>
        BY <4>1, SubSeqEmpty, Zenon
      <4> QED
        BY <4>1, <4>2, EmptySeq
    <3> QED
      BY <3>1, <3>2
  <2> DEFINE front == SubSeq(s, 1, Len(s) - 1)
  <2>4. /\ front \in Seq(Message) /\ Len(front) = Len(s) - 1
        /\ \A i \in 1..(Len(s) - 1) : front[i] = s[i]
    BY <2>1, <2>2, <2>3, Zenon
  <2> HIDE DEF front
  <2>5. Front(s) = front
    BY DEF Front, front
  <2> QED
    BY <2>4, <2>5
<1>3. Last(s) \in Message
  BY <1>1 DEF Last
<1>4. /\ Append(Front(s), Last(s)) \in Seq(Message)
      /\ Len(Append(Front(s), Last(s))) = Len(s)
      /\ \A i \in 1..Len(s) : Append(Front(s), Last(s))[i] = s[i]
  BY <1>1, <1>2, <1>3, AppendProperties DEF Last
<1> QED
  BY <1>2, <1>3, <1>4, SeqEqual

LEMMA DropTypes ==
    ASSUME NEW s \in Seq(Message)
    PROVE  /\ DropResponse(s) \in Seq(Message)
           /\ s # <<>> => DropFailure(s) \in Seq(Message)
  BY FrontType DEF DropResponse, DropFailure

(***************************************************************************)
(* What a step does to the transcript and the entries: nothing, it adds    *)
(* the same messages to both, it compacts, or it drops a failed response   *)
(* from the transcript alone.                                              *)
(***************************************************************************)
Noted ==
    \E notes \in Seq(NoteKinds) :
        transcript' = transcript \o notes /\ entries' = entries \o notes
Extended ==
    \E new \in Seq(Message) :
        NoSummaries(new) /\ transcript' = transcript \o new /\ entries' = entries \o new
Compacted ==
    \E first \in CutPoints :
        /\ entries' = Append(entries, Summary(first))
        /\ transcript' \in {BuildContext(entries'), DropFailure(BuildContext(entries'))}
Dropped ==
    /\ UNCHANGED entries /\ transcript' = DropResponse(transcript)
    /\ \/ MayRecover(LastResponse(transcript))
       \/ MayRecover(LastResponse(entries)) \/ LastResponse(entries).stop = "transient"

SessionInv ==
    TypeOK /\ BatchInv /\ SessionTypeOK /\ entries \in Seq(Message)

\* A step of the loop adds at most one message, and no compaction.
LEMMA LoopStepEmits ==
    ASSUME TypeOK, BatchInv, LoopStep
    PROVE  \/ UNCHANGED transcript
           \/ \E m \in Message : /\ m.role \in {"user", "assistant", "toolResult"}
                                 /\ transcript' = Append(transcript, m)
<1>1. ASSUME NEW texts \in Seq(Text), texts # <<>>
      PROVE  User(Head(texts)) \in Message /\ User(Head(texts)).role = "user"
  <2>1. Head(texts) \in Text
    BY <1>1, HeadTailProperties
  <2> QED
    BY <2>1 DEF User, Message
<1>2. ASSUME NEW stop \in Errors \cup {"stop", "toolUse", "length", "aborted"},
             NEW k \in 0..MaxCalls
      PROVE  Assistant(responses + 1, stop, k) \in Message
             /\ Assistant(responses + 1, stop, k).role = "assistant"
  BY DEF Assistant, Message, TypeOK
<1>3. ASSUME NEW i \in 1..MaxCalls
      PROVE  ToolResult(responses, i) \in Message /\ ToolResult(responses, i).role = "toolResult"
  BY DEF ToolResult, Message, TypeOK
<1>4. run.prompts \in Seq(Text) /\ run.pending \in Seq(Text)
  BY DEF TypeOK, RunState
<1>5. CASE EmitPrompt
  BY <1>1, <1>4, <1>5 DEF EmitPrompt, Emit
<1>6. CASE InjectPending
  BY <1>1, <1>4, <1>6 DEF InjectPending, Emit
<1>7. CASE Respond
  <2>1. PICK stop \in {"stop", "length"} : Emit(Assistant(responses + 1, stop, 0))
    BY <1>7 DEF Respond, Receive
  <2> QED
    BY <1>2, <2>1, AgentAssumption DEF Emit
<1>8. CASE RespondFailed
  <2>1. PICK stop \in Errors \cup {"aborted"} : Emit(Assistant(responses + 1, stop, 0))
    BY <1>8 DEF RespondFailed, Receive
  <2>2. stop \in Errors \cup {"stop", "toolUse", "length", "aborted"} /\ 0 \in 0..MaxCalls
    BY AgentAssumption
  <2>3. Assistant(responses + 1, stop, 0) \in Message
        /\ Assistant(responses + 1, stop, 0).role = "assistant"
    BY <1>2, <2>2
  <2> QED
    BY <2>1, <2>3 DEF Emit
<1>9. CASE RespondWithCalls
  <2>1. PICK k \in 1..MaxCalls, mode \in ExecutionModes :
          Emit(Assistant(responses + 1, IF mode = "truncated" THEN "length" ELSE "toolUse", k))
    BY <1>9 DEF RespondWithCalls, Receive
  <2> DEFINE stop == IF mode = "truncated" THEN "length" ELSE "toolUse"
  <2>2. k \in 0..MaxCalls /\ stop \in Errors \cup {"stop", "toolUse", "length", "aborted"}
    BY AgentAssumption
  <2>3. transcript' = Append(transcript, Assistant(responses + 1, stop, k))
    BY <2>1 DEF Emit
  <2> HIDE DEF stop
  <2> QED
    BY <1>2, <2>2, <2>3
<1>10. CASE \E i \in 1..MaxCalls : SendResult(i)
  BY <1>3, <1>10 DEF SendResult, Emit
<1>11. CASE \/ InitialPoll \/ CallModel \/ PollSteering \/ PollFollowUps \/ RepollSteering
            \/ LaunchCalls \/ EndBatch
            \/ \E i \in 1..MaxCalls : \/ StartCall(i) \/ SkipCalls(i) \/ RefuseCall(i)
                                    \/ PrepareCall(i) \/ FinishCall(i)
  BY <1>11 DEF InitialPoll, CallModel, PollSteering, PollFollowUps, RepollSteering,
       LaunchCalls, EndBatch, StartCall, SkipCalls, RefuseCall, PrepareCall, FinishCall
<1> QED
  BY <1>5, <1>6, <1>7, <1>8, <1>9, <1>10, <1>11 DEF LoopStep

\* What the session records of such a step.
LEMMA ObserveNothing ==
    ASSUME SessionInv, Observe, UNCHANGED transcript
    PROVE  UNCHANGED <<entries, recovery>>
<1>1. SubSeq(transcript', Len(transcript) + 1, Len(transcript')) = <<>>
  <2>1. Len(transcript) \in Nat
    BY LenProperties DEF SessionInv, TypeOK
  <2>2. Len(transcript) + 1 \in Int /\ Len(transcript) \in Int
        /\ Len(transcript) < Len(transcript) + 1
    BY <2>1
  <2> QED
    BY <2>2, SubSeqEmpty, Zenon
<1>2. DOMAIN <<>> = {} /\ entries \o <<>> = entries
  BY ConcatEmptySeq DEF SessionInv
<1>3. overflowAttempted \in BOOLEAN
  BY DEF SessionInv, SessionTypeOK
<1> QED
  BY <1>1, <1>2, <1>3 DEF Observe, recovery

LEMMA ObserveMessage ==
    ASSUME SessionInv, Observe, NEW m \in Message, transcript' = Append(transcript, m)
    PROVE  /\ entries' = Append(entries, m)
           /\ overflowAttempted' = (overflowAttempted /\ m.role # "user"
                /\ ~(IsAssistant(m) /\ m.stop \notin Errors \cup {"length"}))
           /\ retryAttempt' = IF IsAssistant(m) /\ m.stop \notin Errors THEN 0 ELSE retryAttempt
<1> DEFINE n == Len(transcript)
           new == SubSeq(transcript', Len(transcript) + 1, Len(transcript'))
<1>1. /\ n \in Nat /\ transcript' \in Seq(Message) /\ Len(transcript') = n + 1
      /\ transcript'[n + 1] = m
  BY LenProperties, AppendProperties DEF SessionInv, TypeOK
<1>2. new = <<m>>
  <2>1. new = SubSeq(transcript', n + 1, n + 1)
    BY <1>1
  <2>2. \A i \in (n + 1)..(n + 1) : transcript'[i] \in Message
    BY <1>1
  <2>3. n + 1 \in Int /\ n + 1 <= n + 1 /\ n + 1 - (n + 1) + 1 = 1 /\ n + 1 + 1 - 1 = n + 1
    BY <1>1
  <2> DEFINE one == SubSeq(transcript', n + 1, n + 1)
  <2>4. /\ one \in Seq(Message)
        /\ Len(one) = IF n + 1 <= n + 1 THEN n + 1 - (n + 1) + 1 ELSE 0
        /\ \A i \in 1..(n + 1 - (n + 1) + 1) : one[i] = transcript'[n + 1 + i - 1]
    BY <2>2, <2>3, SubSeqProperties
  <2> HIDE DEF n, one
  <2>5. one \in Seq(Message) /\ Len(one) = 1 /\ one[1] = m
    <3>1. Len(one) = 1
      BY <2>3, <2>4
    <3>2. 1 \in 1..(n + 1 - (n + 1) + 1)
      BY <2>3
    <3>3. one[1] = transcript'[n + 1 + 1 - 1]
      BY <2>4, <3>2
    <3> QED
      BY <1>1, <2>3, <2>4, <3>1, <3>3
  <2>6. <<m>> \in Seq(Message) /\ Len(<<m>>) = 1 /\ <<m>>[1] = m
    OBVIOUS
  <2>7. one = <<m>>
    BY <2>5, <2>6, SeqEqual
  <2> QED
    BY <2>1, <2>7 DEF one
<1> HIDE DEF new
<1>3. entries \o <<m>> = Append(entries, m)
  BY AppendIsConcat DEF SessionInv
<1>4. DOMAIN <<m>> = {1} /\ <<m>>[1] = m
  OBVIOUS
<1>5. /\ entries' = entries \o new
      /\ overflowAttempted' = (overflowAttempted
            /\ ~(\E i \in DOMAIN new : new[i].role = "user")
            /\ ~(\E i \in DOMAIN new :
                    IsAssistant(new[i]) /\ new[i].stop \notin Errors \cup {"length"}))
      /\ retryAttempt' = IF \E i \in DOMAIN new :
                              IsAssistant(new[i]) /\ new[i].stop \notin Errors
                         THEN 0 ELSE retryAttempt
  BY DEF Observe, new
<1>6. /\ (\E i \in DOMAIN new : new[i].role = "user") <=> m.role = "user"
      /\ (\E i \in DOMAIN new : IsAssistant(new[i]) /\ new[i].stop \notin Errors \cup {"length"})
            <=> (IsAssistant(m) /\ m.stop \notin Errors \cup {"length"})
      /\ (\E i \in DOMAIN new : IsAssistant(new[i]) /\ new[i].stop \notin Errors)
            <=> (IsAssistant(m) /\ m.stop \notin Errors)
  BY <1>2, <1>4
<1>7. entries' = Append(entries, m)
  BY <1>2, <1>3, <1>5
<1>8. retryAttempt' = IF IsAssistant(m) /\ m.stop \notin Errors THEN 0 ELSE retryAttempt
  BY <1>5, <1>6
<1>9. overflowAttempted' = (overflowAttempted /\ m.role # "user"
                /\ ~(IsAssistant(m) /\ m.stop \notin Errors \cup {"length"}))
  BY <1>5, <1>6
<1> QED
  BY <1>7, <1>8, <1>9

\* What was kept back is a list of notes.
LEMMA PendingsAreNotes ==
    ASSUME SessionInv
    PROVE  /\ pendingBash \in Seq(NoteKinds) /\ pendingCustom \in Seq(NoteKinds)
           /\ pendingBash \o pendingCustom \in Seq(NoteKinds)
<1>1. {Bash} \subseteq NoteKinds /\ {Custom} \subseteq NoteKinds
  BY DEF NoteKinds
<1>2. pendingBash \in Seq(NoteKinds) /\ pendingCustom \in Seq(NoteKinds)
  BY <1>1, SeqMonotonic DEF SessionInv, SessionTypeOK
<1> QED
  BY <1>2, ConcatProperties

LEMMA FlushAddsNotes ==
    ASSUME SessionInv, Flush
    PROVE  \E notes \in Seq(NoteKinds) :
              /\ transcript' = transcript \o notes /\ entries' = entries \o notes
              /\ notes = pendingBash \o pendingCustom
<1>1. /\ pendingBash \in Seq(Message) /\ pendingCustom \in Seq(Message)
      /\ transcript \in Seq(Message) /\ entries \in Seq(Message)
  BY PendingsAreNotes, NotesAreLists DEF SessionInv, TypeOK
<1>2. /\ transcript \o pendingBash \o pendingCustom = transcript \o (pendingBash \o pendingCustom)
      /\ entries \o pendingBash \o pendingCustom = entries \o (pendingBash \o pendingCustom)
  BY <1>1, Regroup
<1> QED
  BY <1>2, PendingsAreNotes DEF Flush

LEMMA AddNowAddsNote ==
    ASSUME SessionInv, NEW note \in NoteKinds, AddNow(note)
    PROVE  /\ <<note>> \in Seq(NoteKinds)
           /\ transcript' = transcript \o <<note>> /\ entries' = entries \o <<note>>
<1>1. <<note>> \in Seq(NoteKinds) /\ note \in Message
  BY NotesAreMessages
<1>2. transcript' = transcript \o <<note>> /\ entries' = entries \o <<note>>
  BY <1>1, AppendIsConcat DEF AddNow, SessionInv, TypeOK
<1> QED
  BY <1>1, <1>2

\* A prompt of the agent, and a continuation, leave the transcript alone.
LEMMA StartsLeaveLists ==
    /\ Prompt => UNCHANGED <<transcript, cut, responses>> /\ run'.pc = "prompts"
    /\ Continue => UNCHANGED <<transcript, cut, responses, handed>> /\ run'.pc = "prompts"
  BY DEF Prompt, Continue, Start, NoRun, history

\* The steps of others than the loop.
LEMMA HowOthersChange ==
    ASSUME SessionInv, [SessionNext]_allVars, ~ObservedStep
    PROVE  UNCHANGED <<transcript, entries>> \/ Noted \/ Compacted \/ Dropped
<1> DEFINE Goal == UNCHANGED <<transcript, entries>> \/ Noted \/ Compacted \/ Dropped
<1> SUFFICES Goal
  OBVIOUS
<1>1. CASE UNCHANGED allVars
  BY <1>1 DEF allVars, agentVars, sessionVars
<1>2. CASE Queue \/ SessionAbort \/ SessionFinishRun
  BY <1>2 DEF Queue, SessionAbort, SessionFinishRun, Steer, FollowUp, Abort, FinishRun,
       sessionVars
<1>3. CASE RecordBashResult \/ SendCustomMessage
  <2>1. CASE active
    BY <1>3, <2>1 DEF RecordBashResult, SendCustomMessage, agentVars
  <2>2. CASE ~active
    BY <1>3, <2>2, AddNowAddsNote DEF RecordBashResult, SendCustomMessage, NoteKinds, Noted
  <2> QED
    BY <2>1, <2>2
<1>4. CASE SessionEndTurn
  BY <1>4, PendingsAreNotes DEF SessionEndTurn, EndTurn, Noted
<1>5. CASE PrepareTurn
  BY <1>5 DEF PrepareTurn, CompactAt, Compacted
<1>6. ASSUME NEW c \in Callers, SessionPrompt(c) \/ Settle(c)
      PROVE  Goal
  <2>1. Flush
    BY <1>6 DEF SessionPrompt, Settle
  <2> QED
    BY <2>1, FlushAddsNotes DEF Noted
<1>7. ASSUME NEW c \in Callers, RefusePrompt(c) \/ StartRun(c) \/ WakeUp(c) \/ ContinueRun(c)
      PROVE  Goal
  BY <1>7, StartsLeaveLists DEF RefusePrompt, StartRun, WakeUp, ContinueRun, agentVars
<1>8. ASSUME NEW c \in Callers, Preflight(c)
      PROVE  Goal
  BY <1>8 DEF Preflight, Dropped
<1>9. ASSUME NEW c \in Callers, PostRun(c)
       PROVE  Goal
  BY <1>9 DEF PostRun, Retry, AfterRetry, Dropped
<1>10. ASSUME NEW c \in Callers, AbortRetry(c)
       PROVE  Goal
  BY <1>10 DEF AbortRetry, AfterRetry, Dropped
<1>11. ASSUME NEW c \in Callers, Compact(c)
       PROVE  Goal
  BY <1>11 DEF Compact, CompactAt, Compacted
<1>12. ASSUME NEW c \in Callers, CompactFirst(c)
       PROVE  Goal
  BY <1>12 DEF CompactFirst, CompactAt, Compacted
<1> QED
  BY <1>1, <1>2, <1>3, <1>4, <1>5, <1>6, <1>7, <1>8, <1>9, <1>10, <1>11, <1>12
     DEF SessionNext, SessionCallers, SessionSteps

LEMMA HowListsChange ==
    ASSUME SessionInv, [SessionNext]_allVars
    PROVE  UNCHANGED <<transcript, entries>> \/ Extended \/ Compacted \/ Dropped
<1>1. CASE ObservedStep
  <2>1. CASE UNCHANGED transcript
    BY <1>1, <2>1, ObserveNothing DEF ObservedStep
  <2>2. CASE \E m \in Message : /\ m.role \in {"user", "assistant", "toolResult"}
                                /\ transcript' = Append(transcript, m)
    <3>1. PICK m \in Message : /\ m.role \in {"user", "assistant", "toolResult"}
                               /\ transcript' = Append(transcript, m)
      BY <2>2
    <3>2. entries' = Append(entries, m)
      BY <1>1, <3>1, ObserveMessage DEF ObservedStep
    <3>3. transcript' = transcript \o <<m>> /\ entries' = entries \o <<m>>
      BY <3>1, <3>2, AppendIsConcat DEF SessionInv, TypeOK
    <3>4. <<m>> \in Seq(Message) /\ NoSummaries(<<m>>)
      BY <3>1 DEF NoSummaries, IsSummary
    <3> QED
      BY <3>3, <3>4 DEF Extended
  <2> QED
    BY <1>1, <2>1, <2>2, LoopStepEmits DEF ObservedStep, SessionInv
<1>2. CASE ~ObservedStep
  <2>1. Noted => Extended
    BY NotesAreLists DEF Noted, Extended
  <2> QED
    BY <1>2, <2>1, HowOthersChange
<1> QED
  BY <1>1, <1>2

(***************************************************************************)
(* Types.                                                                  *)
(***************************************************************************)
LEMMA ListTypes ==
    ASSUME SessionInv, [SessionNext]_allVars
    PROVE  transcript' \in Seq(Message) /\ entries' \in Seq(Message) /\ Grounded(entries')
<1>1. transcript \in Seq(Message) /\ entries \in Seq(Message) /\ Grounded(entries)
  BY DEF SessionInv, TypeOK, SessionTypeOK, Grounded
<1>2. CASE UNCHANGED <<transcript, entries>>
  BY <1>1, <1>2
<1>3. CASE Extended
  <2>1. PICK new \in Seq(Message) : /\ NoSummaries(new)
                                    /\ transcript' = transcript \o new
                                    /\ entries' = entries \o new
    BY <1>3 DEF Extended
  <2>2. entries \o new \in Seq(Message) /\ Grounded(entries \o new)
    BY <1>1, <2>1, GroundedGrows
  <2> QED
    BY <1>1, <2>1, <2>2, ConcatProperties
<1>4. CASE Compacted
  <2>1. PICK first \in CutPoints :
           /\ entries' = Append(entries, Summary(first))
           /\ transcript' \in {BuildContext(entries'), DropFailure(BuildContext(entries'))}
    BY <1>4 DEF Compacted
  <2>2. /\ first \in 1..Len(entries) /\ entries' \in Seq(Message) /\ Grounded(entries')
    BY <1>1, <2>1, CutPointsArePast
  <2>3. BuildContext(entries') \in Seq(Message) /\ Len(BuildContext(entries')) > 1
    BY <1>1, <2>1, <2>2, BuildContextCompacted
  <2>4. BuildContext(entries') # <<>>
    BY <2>3, EmptySeq
  <2> QED
    BY <2>1, <2>2, <2>3, <2>4, DropTypes
<1>5. CASE Dropped
  BY <1>1, <1>5, DropTypes DEF Dropped
<1> QED
  BY <1>2, <1>3, <1>4, <1>5, HowListsChange

\* Steps of the session that leave the run alone.
LEMMA RunLeft ==
    ASSUME TypeOK, BatchInv, transcript' \in Seq(Message),
           UNCHANGED <<queues, pendingCalls, run, responses, handed, discarded, faults>>,
           cut' \subseteq Nat, cut \subseteq cut'
    PROVE  TypeOK' /\ BatchInv'
<1>1. At("batch") /\ run'.aborted => responses \in cut'
  BY DEF BatchInv
<1>2. /\ BatchInv'
      /\ pendingCalls' = {Call(i) : i \in {j \in DOMAIN run.calls :
                                         run.calls[j] \in Unended}}'
  BY <1>1, SameBatch DEF TypeOK
<1> QED
  BY <1>2 DEF TypeOK, queues

\* The session's own hooks of a turn.
LEMMA HookTypes ==
    ASSUME TypeOK, BatchInv, transcript' \in Seq(Message),
           \/ EndTurn(pendingCustom, FALSE)
           \/ \E context \in Seq(Message) : PrepareNextTurn(context)
    PROVE  TypeOK' /\ BatchInv'
<1>1. ~At("batch") /\ run'.pc \in {"ending", "poll", "repoll"} /\ run'.calls = run.calls
      /\ run' \in RunState
  BY DEF EndTurn, PrepareNextTurn, Goto, At, TypeOK, RunState
<1>2. run'.calls = <<>> /\ pendingCalls' = {} /\ pendingCalls = {}
  BY <1>1, NoBatch DEF EndTurn, PrepareNextTurn
<1>3. BatchInv' /\ pendingCalls' = {Call(i) : i \in {j \in DOMAIN run.calls :
                                         run.calls[j] \in Unended}}'
  BY <1>1, <1>2, NoBatchAfter
<1>4. UNCHANGED <<queues, responses, history, faults>>
  BY DEF EndTurn, PrepareNextTurn
<1> QED
  BY <1>1, <1>3, <1>4 DEF TypeOK, queues, history

LEMMA SessionAgentType ==
    ASSUME SessionInv, [SessionNext]_allVars
    PROVE  TypeOK' /\ BatchInv'
<1> USE DEF SessionInv
<1>1. transcript' \in Seq(Message)
  BY ListTypes
<1>2. ASSUME Untouched PROVE TypeOK' /\ BatchInv'
  BY <1>1, <1>2, RunLeft DEF Untouched, history, TypeOK
<1>3. ASSUME UNCHANGED agentVars PROVE TypeOK' /\ BatchInv'
  BY <1>1, <1>3, RunLeft DEF agentVars, queues, TypeOK
<1>4. CASE UNCHANGED allVars
  BY <1>3, <1>4 DEF allVars
<1>5. CASE Queue \/ SessionAbort
  BY <1>5, CallerType DEF Queue, SessionAbort, CallerNext
<1>6. CASE RecordBashResult \/ SendCustomMessage
  BY <1>2, <1>3, <1>6 DEF RecordBashResult, SendCustomMessage, AddNow
<1>7. CASE ObservedStep
  BY <1>7, TurnType, BatchType DEF ObservedStep, LoopStep
<1>8. CASE SessionEndTurn
  BY <1>1, <1>8, HookTypes DEF SessionEndTurn
<1>9. CASE PrepareTurn
  <2>1. run.context \in Seq(Message) /\ transcript \in Seq(Message)
    BY DEF TypeOK, RunState
  <2>2. \E context \in Seq(Message) : PrepareNextTurn(context)
    BY <1>1, <1>9, <2>1 DEF PrepareTurn
  <2> QED
    BY <1>1, <2>2, HookTypes
<1>10. CASE SessionFinishRun
  BY <1>10, TurnType DEF SessionFinishRun
<1>11. ASSUME NEW c \in Callers, StartRun(c) \/ ContinueRun(c)
       PROVE  TypeOK' /\ BatchInv'
  BY <1>3, <1>11, CallerType DEF StartRun, ContinueRun, CallerNext
<1>12. ASSUME NEW c \in Callers, RefusePrompt(c) \/ WakeUp(c)
       PROVE  TypeOK' /\ BatchInv'
  BY <1>3, <1>12 DEF RefusePrompt, WakeUp
<1>13. ASSUME NEW c \in Callers,
              SessionPrompt(c) \/ Settle(c) \/ Preflight(c) \/ CompactFirst(c)
                \/ PostRun(c) \/ Compact(c)
       PROVE  TypeOK' /\ BatchInv'
  BY <1>2, <1>13 DEF SessionPrompt, Settle, Preflight, CompactFirst, PostRun, Compact
<1>14. ASSUME NEW c \in Callers, AbortRetry(c)
       PROVE  TypeOK' /\ BatchInv'
  <2>1. UNCHANGED <<queues, pendingCalls, run, responses, handed, discarded, faults>>
    BY <1>14 DEF AbortRetry
  <2>2. cut' \subseteq Nat /\ cut \subseteq cut'
    BY <1>14 DEF AbortRetry, TypeOK
  <2> QED
    BY <1>1, <2>1, <2>2, RunLeft
<1> QED
  BY <1>4, <1>5, <1>6, <1>7, <1>8, <1>9, <1>10, <1>11, <1>12, <1>13, <1>14
     DEF SessionNext, SessionCallers, SessionSteps

\* The variables of the session itself.
LEMMA SessionOwnType ==
    ASSUME SessionInv, [SessionNext]_allVars
    PROVE  SessionTypeOK'
<1> DEFINE Phases == {"idle", "preflight", "compactFirst", "recoverFirst", "ready",
                      "run", "sleep", "recover", "compact", "continue", "settle"}
           Own == /\ active' \in BOOLEAN /\ overflowAttempted' \in BOOLEAN
                  /\ phase' \in [Callers -> Phases] /\ retryAttempt' \in 0..MaxRetries
           Kept == pendingBash' \in Seq({Bash}) /\ pendingCustom' \in Seq({Custom})
<1>1. /\ active \in BOOLEAN /\ overflowAttempted \in BOOLEAN
      /\ phase \in [Callers -> Phases] /\ retryAttempt \in 0..MaxRetries
      /\ pendingBash \in Seq({Bash}) /\ pendingCustom \in Seq({Custom})
      /\ <<>> \in Seq({Bash}) /\ <<>> \in Seq({Custom}) /\ MaxRetries \in Nat
  BY SessionAssumption, EmptySeq DEF SessionInv, SessionTypeOK
<1>2. \A c \in Callers : \A p \in Phases : GoTo(c, p) => phase' \in [Callers -> Phases]
  BY <1>1 DEF GoTo
<1>3. \A c \in Callers : GoOn(c) => phase' \in [Callers -> Phases]
  BY <1>1 DEF GoOn, GoTo
<1> SUFFICES Own /\ Kept
  BY ListTypes DEF SessionTypeOK, Grounded
<1>4. CASE UNCHANGED allVars
  BY <1>1, <1>4 DEF allVars, sessionVars, recovery, pendings
<1>5. CASE Queue \/ SessionAbort \/ SessionFinishRun
  BY <1>1, <1>5 DEF Queue, SessionAbort, SessionFinishRun, sessionVars, recovery, pendings
<1>6. CASE RecordBashResult \/ SendCustomMessage
  <2>1. Append(pendingBash, Bash) \in Seq({Bash}) /\ Append(pendingCustom, Custom) \in Seq({Custom})
    BY <1>1, AppendProperties
  <2> QED
    BY <1>1, <1>6, <2>1 DEF RecordBashResult, SendCustomMessage, AddNow, recovery, pendings
<1>7. CASE ObservedStep
  <2>1. overflowAttempted' \in BOOLEAN
    BY <1>1, <1>7 DEF ObservedStep, Observe
  <2>2. retryAttempt' \in {0, retryAttempt}
    BY <1>7 DEF ObservedStep, Observe
  <2> QED
    BY <1>1, <1>7, <2>1, <2>2 DEF ObservedStep, pendings
<1>8. CASE SessionEndTurn \/ PrepareTurn
  BY <1>1, <1>8 DEF SessionEndTurn, PrepareTurn, recovery, pendings
<1>9. ASSUME NEW c \in Callers, SessionPrompt(c) \/ Settle(c)
      PROVE  Own /\ Kept
  BY <1>1, <1>2, <1>9 DEF SessionPrompt, Settle, Flush, recovery
<1>10. ASSUME NEW c \in Callers, RefusePrompt(c) \/ StartRun(c) \/ WakeUp(c) \/ ContinueRun(c)
       PROVE  Own /\ Kept
  BY <1>1, <1>2, <1>10 DEF RefusePrompt, StartRun, WakeUp, ContinueRun, recovery, pendings
<1>11. ASSUME NEW c \in Callers, Preflight(c)
       PROVE  Own /\ Kept
  BY <1>1, <1>2, <1>11 DEF Preflight, pendings
<1>16. ASSUME NEW c \in Callers, CompactFirst(c)
       PROVE  Own /\ Kept
  BY <1>1, <1>2, <1>16 DEF CompactFirst, recovery, pendings
<1>12. ASSUME NEW c \in Callers, NEW m, AfterRetry(c, m)
       PROVE  overflowAttempted' \in BOOLEAN /\ phase' \in [Callers -> Phases]
  BY <1>1, <1>2, <1>3, <1>12 DEF AfterRetry
<1>13. ASSUME NEW c \in Callers, PostRun(c)
       PROVE  Own /\ Kept
  <2>1. CASE LastResponse(entries).stop = "transient" /\ retryAttempt < MaxRetries
    BY <1>1, <1>2, <1>13, <2>1 DEF PostRun, Retry, pendings
  <2>2. CASE ~(LastResponse(entries).stop = "transient" /\ retryAttempt < MaxRetries)
    <3>1. AfterRetry(c, LastResponse(entries)) /\ retryAttempt' \in {0, retryAttempt}
      BY <1>13, <2>2 DEF PostRun
    <3> QED
      BY <1>1, <1>12, <1>13, <3>1 DEF PostRun, pendings
  <2> QED
    BY <2>1, <2>2
<1>14. ASSUME NEW c \in Callers, AbortRetry(c)
       PROVE  Own /\ Kept
  BY <1>1, <1>12, <1>14 DEF AbortRetry, pendings
<1>15. ASSUME NEW c \in Callers, Compact(c)
       PROVE  Own /\ Kept
  BY <1>1, <1>2, <1>3, <1>15 DEF Compact, recovery, pendings
<1> QED
  BY <1>4, <1>5, <1>6, <1>7, <1>8, <1>9, <1>10, <1>11, <1>13, <1>14, <1>15, <1>16
     DEF SessionNext, SessionCallers, SessionSteps

LEMMA SessionStart == SessionInit => SessionInv
<1> SUFFICES ASSUME SessionInit PROVE SessionInv
  OBVIOUS
<1>1. TypeOK /\ BatchInv
  BY InitType DEF SessionInit
<1>2. /\ entries \in Seq(Message) /\ DOMAIN entries = {}
      /\ pendingBash \in Seq({Bash}) /\ pendingCustom \in Seq({Custom})
  BY EmptySeq DEF SessionInit
<1>3. retryAttempt \in 0..MaxRetries
  BY SessionAssumption DEF SessionInit
<1>4. /\ active \in BOOLEAN /\ overflowAttempted \in BOOLEAN
      /\ phase \in [Callers -> {"idle", "preflight", "compactFirst", "recoverFirst", "ready",
                                "run", "sleep", "recover", "compact", "continue", "settle"}]
  BY DEF SessionInit
<1>5. SessionTypeOK
  BY <1>2, <1>3, <1>4 DEF SessionTypeOK
<1> QED
  BY <1>1, <1>2, <1>5 DEF SessionInv

LEMMA SessionInvStep == SessionInv /\ [SessionNext]_allVars => SessionInv'
  BY ListTypes, SessionAgentType, SessionOwnType DEF SessionInv

\* Whatever callers do and however responses fail, the session's variables stay well
\* formed, the retries counted never exceed the settings, and a compaction keeps
\* entries before it (agent-session.ts:2893-2896, 2350-2353).
THEOREM SessionTypeCorrect == SessionSpec => []SessionTypeOK
<1>1. SessionInv => SessionTypeOK
  BY DEF SessionInv
<1> QED
  BY <1>1, SessionStart, SessionInvStep, PTL DEF SessionSpec

(***************************************************************************)
(* One prompt at a time: which phases a session has when it is active, and *)
(* when its agent runs.                                                    *)
(***************************************************************************)
OneCaller == \A c, d \in Callers : c = d

IdleInv ==
    /\ \A c \in Callers : active <=> phase[c] \notin BeforeRun
    /\ Active => \A c \in Callers : phase[c] = "run"
    /\ ~active => pendingBash = <<>> /\ pendingCustom = <<>>

\* With one caller its phase is the phase of all.
LEMMA OnePhase ==
    ASSUME OneCaller, SessionInv, NEW c \in Callers
    PROVE  /\ \A p : GoTo(c, p) => \A d \in Callers : phase'[d] = p
           /\ GoOn(c) => \A d \in Callers : phase'[d] \in {"continue", "settle"}
           /\ \A d \in Callers : d = c
<1>1. \A p : GoTo(c, p) => \A d \in Callers : phase'[d] = p
  BY DEF OneCaller, GoTo, SessionInv, SessionTypeOK
<1> QED
  BY <1>1 DEF OneCaller, GoOn

\* Only a run makes steps of the loop.
LEMMA LoopRuns ==
    /\ LoopStep => Active
    /\ \A messages : EndTurn(messages, FALSE) => Active
    /\ \A messages : PrepareNextTurn(messages) => Active
  BY DEF LoopStep, EmitPrompt, InitialPoll, InjectPending, CallModel, PollSteering,
       PollFollowUps, RepollSteering, Respond, RespondFailed, RespondWithCalls,
       StartCall, SkipCalls, IsNext, RefuseCall, PrepareCall, FinishCall, SendResult, CallIs,
       LaunchCalls, EndBatch, EndTurn, PrepareNextTurn, Active, At

LEMMA IdleStep ==
    ASSUME OneCaller, SessionInv, IdleInv, [SessionNext]_allVars
    PROVE  IdleInv'
<1>1. PICK one \in Callers : TRUE
  BY SessionAssumption
<1>2. CASE UNCHANGED allVars
  BY <1>2 DEF allVars, agentVars, sessionVars, pendings, IdleInv, Active
<1>3. CASE Queue \/ SessionAbort
  <2>1. run'.pc = run.pc
    BY <1>3 DEF Queue, SessionAbort, Steer, FollowUp, Abort, SessionInv, TypeOK, RunState
  <2> QED
    BY <1>3, <2>1 DEF Queue, SessionAbort, sessionVars, pendings, IdleInv, Active
<1>4. CASE RecordBashResult \/ SendCustomMessage
  <2>1. run' = run
    BY <1>4 DEF RecordBashResult, SendCustomMessage, AddNow, Untouched, agentVars
  <2>2. ~active => UNCHANGED pendings
    BY <1>4 DEF RecordBashResult, SendCustomMessage, AddNow
  <2>3. UNCHANGED <<active, phase>>
    BY <1>4 DEF RecordBashResult, SendCustomMessage
  <2> QED
    BY <2>1, <2>2, <2>3 DEF pendings, IdleInv, Active
<1>5. CASE ObservedStep \/ SessionEndTurn \/ PrepareTurn
  <2>1. UNCHANGED <<active, phase>> /\ Active
    BY <1>5, LoopRuns DEF ObservedStep, SessionEndTurn, PrepareTurn
  <2>2. active
    BY <1>1, <2>1 DEF IdleInv, BeforeRun
  <2> QED
    BY <2>1, <2>2 DEF IdleInv
<1>6. CASE SessionFinishRun
  BY <1>6 DEF SessionFinishRun, FinishRun, NoRun, sessionVars, pendings, IdleInv, Active
<1>7. ASSUME NEW c \in Callers,
             SessionPrompt(c) \/ RefusePrompt(c) \/ Preflight(c) \/ CompactFirst(c)
      PROVE  IdleInv'
  <2>1. /\ \A d \in Callers : phase'[d] \in BeforeRun
        /\ phase[c] \in BeforeRun /\ UNCHANGED <<active, run>>
    BY <1>7, OnePhase DEF SessionPrompt, RefusePrompt, Preflight, CompactFirst, Untouched,
       agentVars, BeforeRun
  <2>2. ~active /\ ~Active
    BY <2>1 DEF IdleInv, BeforeRun
  <2>3. pendingBash' = <<>> /\ pendingCustom' = <<>>
    BY <1>7, <2>2 DEF SessionPrompt, RefusePrompt, Preflight, CompactFirst, Flush, pendings,
       IdleInv
  <2> QED
    BY <2>1, <2>2, <2>3 DEF IdleInv, Active
<1>8. ASSUME NEW c \in Callers, StartRun(c)
      PROVE  IdleInv'
  <2>1. phase[c] = "ready" /\ active'
    BY <1>8 DEF StartRun
  <2>2. ~Active
    BY <2>1 DEF IdleInv
  <2>3. \A d \in Callers : phase'[d] = "run"
    BY <1>8, <2>2, OnePhase DEF StartRun
  <2> QED
    BY <2>1, <2>3 DEF IdleInv, BeforeRun
<1>9. ASSUME NEW c \in Callers, AfterRetry(c, LastResponse(entries))
      PROVE  \A d \in Callers : phase'[d] \in {"recover", "compact", "continue", "settle"}
  BY <1>9, OnePhase DEF AfterRetry
<1>10. ASSUME NEW c \in Callers, PostRun(c) \/ AbortRetry(c)
       PROVE  IdleInv'
  <2>1. /\ \A d \in Callers : phase'[d] \in {"sleep", "recover", "compact", "continue", "settle"}
        /\ UNCHANGED run /\ UNCHANGED <<active, pendings>>
    BY <1>9, <1>10, OnePhase DEF PostRun, AbortRetry, Retry, Untouched
  <2>2. active /\ ~Active
    BY <1>10 DEF PostRun, AbortRetry, IdleInv, BeforeRun
  <2> QED
    BY <2>1, <2>2 DEF IdleInv, BeforeRun, Active
<1>11. ASSUME NEW c \in Callers, WakeUp(c) \/ Compact(c)
       PROVE  IdleInv'
  <2>1. /\ \A d \in Callers : phase'[d] \in {"continue", "settle"}
        /\ UNCHANGED run /\ UNCHANGED <<active, pendings>>
        /\ phase[c] \in {"sleep", "recover", "compact"}
    BY <1>11, OnePhase DEF WakeUp, Compact, Untouched, agentVars
  <2>2. active /\ ~Active
    BY <2>1 DEF IdleInv, BeforeRun
  <2> QED
    BY <2>1, <2>2 DEF IdleInv, BeforeRun, Active
<1>12. ASSUME NEW c \in Callers, ContinueRun(c)
       PROVE  IdleInv'
  <2>1. phase[c] = "continue" /\ UNCHANGED active
    BY <1>12 DEF ContinueRun
  <2>2. active /\ ~Active
    BY <2>1 DEF IdleInv, BeforeRun
  <2>3. \/ \A d \in Callers : phase'[d] = "run"
        \/ (\A d \in Callers : phase'[d] = "settle") /\ UNCHANGED run
    BY <1>12, OnePhase DEF ContinueRun, agentVars
  <2> QED
    BY <2>1, <2>2, <2>3 DEF IdleInv, BeforeRun, Active
<1>13. ASSUME NEW c \in Callers, Settle(c)
       PROVE  IdleInv'
  <2>1. /\ phase[c] = "settle" /\ UNCHANGED run /\ active' = FALSE
        /\ pendingBash' = <<>> /\ pendingCustom' = <<>>
        /\ \A d \in Callers : phase'[d] = "idle"
    BY <1>13, OnePhase DEF Settle, Flush, Untouched
  <2>2. ~Active
    BY <2>1 DEF IdleInv
  <2> QED
    BY <2>1, <2>2 DEF IdleInv, BeforeRun, Active
<1> QED
  BY <1>2, <1>3, <1>4, <1>5, <1>6, <1>7, <1>8, <1>10, <1>11, <1>12, <1>13
     DEF SessionNext, SessionCallers, SessionSteps

LEMMA IdleStart == SessionInit => IdleInv
<1> SUFFICES ASSUME SessionInit PROVE IdleInv
  OBVIOUS
<1>1. ~active /\ pendingBash = <<>> /\ pendingCustom = <<>> /\ \A c \in Callers : phase[c] = "idle"
  BY DEF SessionInit
<1>2. ~Active
  BY DEF SessionInit, Init, NoRun, Active
<1> QED
  BY <1>1, <1>2 DEF IdleInv, BeforeRun

LEMMA IdleSuffices == IdleInv => IdleMeansIdle
  BY SessionAssumption, ConcatEmptySeq, EmptySeq DEF IdleInv, BeforeRun, IdleMeansIdle

\* With one prompt in flight, a session that calls itself idle has no run, no retry, no
\* compaction and no continuation after a run, and keeps nothing back, however its
\* prompt ended; what may be at work is a prompt that the agent does not have yet,
\* with its own compaction (agent-session.ts:1106-1119, 1254).
THEOREM IdleSessionsAreIdle ==
    ASSUME OneCaller
    PROVE  SessionSpec => []IdleMeansIdle
<1>1. SessionInv /\ IdleInv /\ [SessionNext]_allVars => IdleInv'
  BY IdleStep
<1> QED
  BY <1>1, SessionStart, IdleStart, SessionInvStep, IdleSuffices, PTL DEF SessionSpec

(***************************************************************************)
(* A list without some of its messages.                                    *)
(***************************************************************************)
\* What a list keeps of its first messages, one after the other.
Keeps(f, s, dropped) ==
    /\ DOMAIN f = 0..Len(s) /\ f[0] = <<>>
    /\ \A n \in 1..Len(s) :
          f[n] = IF s[n] \in dropped THEN f[n - 1] ELSE Append(f[n - 1], s[n])

LEMMA KeepsOne ==
    ASSUME NEW s \in Seq(Message), NEW dropped, NEW f, NEW g,
           Keeps(f, s, dropped), Keeps(g, s, dropped)
    PROVE  f[Len(s)] = g[Len(s)]
<1> DEFINE S == {n \in 0..Len(s) : f[n] = g[n]}
<1>1. Len(s) \in Nat
  BY LenProperties
<1>2. 0 \in S
  BY <1>1 DEF Keeps
<1>3. ASSUME NEW n \in 1..Len(s), n - 1 \in S PROVE n \in S
  BY <1>1, <1>3 DEF Keeps
<1>4. \A n \in 0..Len(s) : n \in S
  <2> HIDE DEF S
  <2> QED
    BY <1>1, <1>2, <1>3, UpTo
<1> QED
  BY <1>1, <1>4

\* The list with one message more.
LEMMA KeepsMore ==
    ASSUME NEW s \in Seq(Message), NEW m \in Message, NEW dropped, NEW f,
           Keeps(f, s, dropped)
    PROVE  \E g : /\ Keeps(g, Append(s, m), dropped)
                  /\ g[Len(s) + 1] = IF m \in dropped THEN f[Len(s)] ELSE Append(f[Len(s)], m)
<1> DEFINE n == Len(s)
           last == IF m \in dropped THEN f[n] ELSE Append(f[n], m)
           g == [i \in 0..(n + 1) |-> IF i = n + 1 THEN last ELSE f[i]]
           more == Append(s, m)
<1>1. /\ n \in Nat /\ Len(more) = n + 1 /\ more[n + 1] = m
      /\ \A i \in 1..n : more[i] = s[i]
  BY LenProperties, AppendProperties
<1>2. /\ DOMAIN f = 0..n /\ f[0] = <<>>
      /\ \A i \in 1..n : f[i] = IF s[i] \in dropped THEN f[i - 1] ELSE Append(f[i - 1], s[i])
  BY DEF Keeps
<1>3. last = IF m \in dropped THEN f[n] ELSE Append(f[n], m)
  OBVIOUS
<1> HIDE DEF n, more, last
<1>4. DOMAIN g = 0..(n + 1) /\ g[n + 1] = last /\ \A i \in 0..n : g[i] = f[i]
  BY <1>1
<1> HIDE DEF g
<1>5. ASSUME NEW i \in 1..(n + 1)
      PROVE  g[i] = IF more[i] \in dropped THEN g[i - 1] ELSE Append(g[i - 1], more[i])
  <2>1. CASE i = n + 1
    <3>1. i - 1 = n /\ n \in 0..n
      BY <1>1, <2>1
    <3> QED
      BY <1>1, <1>3, <1>4, <2>1, <3>1
  <2>2. CASE i # n + 1
    <3>1. i \in 1..n /\ i - 1 \in 0..n /\ i \in 0..n
      BY <1>1, <2>2
    <3> QED
      BY <1>1, <1>2, <1>4, <3>1
  <2> QED
    BY <2>1, <2>2
<1>6. g[0] = <<>> /\ DOMAIN g = 0..Len(more)
  <2>1. 0 \in 0..n
    BY <1>1
  <2> QED
    BY <1>1, <1>2, <1>4, <2>1
<1>7. Keeps(g, more, dropped)
  BY <1>1, <1>5, <1>6 DEF Keeps
<1> QED
  BY <1>3, <1>4, <1>7 DEF n, more

\* A prefix of a list grows by the next message.
LEMMA PrefixGrows ==
    ASSUME NEW s \in Seq(Message), NEW n \in 1..Len(s)
    PROVE  /\ SubSeq(s, 1, n - 1) \in Seq(Message) /\ s[n] \in Message
           /\ SubSeq(s, 1, n) \in Seq(Message)
           /\ SubSeq(s, 1, n) = Append(SubSeq(s, 1, n - 1), s[n])
<1>1. Len(s) \in Nat /\ 1 \in 1..Len(s)
  BY LenProperties
<1>2. \A i \in 1..Len(s) : s[i] \in Message
  BY ElementOfSeq
<1>3. SubSeq(s, 1, n - 1) \in Seq(Message) /\ SubSeq(s, 1, n) \in Seq(Message)
  <2>1. \A i \in 1..n : s[i] \in Message
    BY <1>1, <1>2
  <2>2. (\A i \in 1..(n - 1) : s[i] \in Message) /\ n \in Int /\ n - 1 \in Int /\ 1 \in Int
    BY <1>1, <1>2
  <2> QED
    BY <2>1, <2>2, SubSeqProperties
<1>4. SubSeq(s, 1, n) = SubSeq(s, 1, n - 1) \o <<s[n]>>
  BY <1>1, SubSeqRecursiveSecond
<1> QED
  BY <1>2, <1>3, <1>4, AppendIsConcat

\* A list is in every set of lists that has the empty one and grows by the list's
\* messages.
LEMMA GrowsInto ==
    ASSUME NEW s \in Seq(Message), NEW T, <<>> \in T,
           \A p \in T : \A m \in Message : (\E i \in 1..Len(s) : m = s[i]) => Append(p, m) \in T
    PROVE  s \in T
<1> DEFINE S == {n \in 0..Len(s) : SubSeq(s, 1, n) \in T}
<1>1. Len(s) \in Nat
  BY LenProperties
<1>2. 0 \in S
  <2>1. SubSeq(s, 1, 0) = <<>>
    <3>1. 1 \in Int /\ 0 \in Int /\ 0 < 1
      OBVIOUS
    <3> QED
      BY <3>1, SubSeqEmpty, Zenon
  <2>2. 0 \in 0..Len(s)
    BY <1>1
  <2> QED
    BY <2>1, <2>2
<1>3. ASSUME NEW n \in 1..Len(s), n - 1 \in S PROVE n \in S
  <2>1. s[n] \in Message /\ SubSeq(s, 1, n) = Append(SubSeq(s, 1, n - 1), s[n])
    BY PrefixGrows
  <2>2. SubSeq(s, 1, n - 1) \in T
    BY <1>3
  <2>3. SubSeq(s, 1, n) \in T
    BY <2>1, <2>2
  <2>4. n \in 0..Len(s)
    BY <1>1
  <2> QED
    BY <2>3, <2>4
<1>4. \A n \in 0..Len(s) : n \in S
  <2> HIDE DEF S
  <2> QED
    BY <1>1, <1>2, <1>3, UpTo
<1>5. Len(s) \in 0..Len(s)
  BY <1>1
<1>6. SubSeq(s, 1, Len(s)) \in T
  BY <1>4, <1>5
<1> QED
  BY <1>6, SubSeqFull

\* Every list keeps something, and Without is what it has kept at its end.
LEMMA KeepsExists ==
    ASSUME NEW s \in Seq(Message), NEW dropped
    PROVE  \E f : Keeps(f, s, dropped)
<1> DEFINE T == {p \in Seq(Message) : \E f : Keeps(f, p, dropped)}
<1>1. <<>> \in T
  <2> DEFINE f == [n \in 0..0 |-> <<>>]
  <2>1. Len(<<>>) = 0 /\ <<>> \in Seq(Message)
    BY EmptySeq
  <2>2. DOMAIN f = 0..0 /\ f[0] = <<>> /\ \A n \in 1..0 : FALSE
    OBVIOUS
  <2>3. Keeps(f, <<>>, dropped)
    BY <2>1, <2>2 DEF Keeps
  <2> QED
    BY <2>1, <2>3
<1>2. ASSUME NEW p \in T, NEW m \in Message PROVE Append(p, m) \in T
  <2>1. PICK f : Keeps(f, p, dropped)
    OBVIOUS
  <2>2. \E g : Keeps(g, Append(p, m), dropped)
    BY <2>1, KeepsMore
  <2>3. Append(p, m) \in Seq(Message)
    BY AppendProperties
  <2> QED
    BY <2>2, <2>3
<1>3. s \in T
  <2> HIDE DEF T
  <2> QED
    BY <1>1, <1>2, GrowsInto
<1> QED
  BY <1>3

LEMMA WithoutIs ==
    ASSUME NEW s \in Seq(Message), NEW dropped, NEW f, Keeps(f, s, dropped)
    PROVE  Without(s, dropped) = f[Len(s)]
<1> DEFINE Body(g) == [n \in 0..Len(s) |->
                         IF n = 0 THEN <<>>
                         ELSE IF s[n] \in dropped THEN g[n - 1]
                         ELSE Append(g[n - 1], s[n])]
           kept == CHOOSE g : g = Body(g)
<1>1. Len(s) \in Nat
  BY LenProperties
<1>2. ASSUME NEW g, g = Body(g) PROVE Keeps(g, s, dropped)
  <2>1. DOMAIN g = 0..Len(s) /\ 0 \in 0..Len(s)
    BY <1>1, <1>2
  <2>2. \A n \in 0..Len(s) : g[n] = Body(g)[n]
    BY <1>2
  <2>3. g[0] = <<>>
    BY <2>1, <2>2
  <2>4. ASSUME NEW n \in 1..Len(s)
        PROVE  g[n] = IF s[n] \in dropped THEN g[n - 1] ELSE Append(g[n - 1], s[n])
    <3>1. n \in 0..Len(s) /\ n # 0
      BY <1>1
    <3> QED
      BY <2>2, <3>1
  <2> QED
    BY <2>1, <2>3, <2>4 DEF Keeps
<1>3. \E g : g = Body(g)
  <2> DEFINE h == [n \in 0..Len(s) |-> f[n]]
  <2>1. \A n \in 1..Len(s) : n - 1 \in 0..Len(s) /\ n # 0
    BY <1>1
  <2>2. h = Body(h)
    <3>1. ASSUME NEW n \in 0..Len(s) PROVE h[n] = Body(h)[n]
      <4>1. CASE n = 0
        BY <4>1 DEF Keeps
      <4>2. CASE n # 0
        <5>1. n \in 1..Len(s)
          BY <1>1, <4>2
        <5>2. h[n] = f[n] /\ h[n - 1] = f[n - 1]
          BY <2>1, <5>1
        <5> QED
          BY <4>2, <5>1, <5>2 DEF Keeps
      <4> QED
        BY <4>1, <4>2
    <3> QED
      BY <3>1
  <2> QED
    BY <2>2
<1>4. kept = Body(kept)
  <2> HIDE DEF Body
  <2> QED
    BY <1>3
<1>5. Without(s, dropped) = kept[Len(s)]
  BY DEF Without
<1> HIDE DEF kept, Body
<1>6. Keeps(kept, s, dropped)
  BY <1>2, <1>4
<1> QED
  BY <1>5, <1>6, KeepsOne

LEMMA WithoutMore ==
    ASSUME NEW s \in Seq(Message), NEW m \in Message, NEW dropped
    PROVE  Without(Append(s, m), dropped)
              = IF m \in dropped THEN Without(s, dropped) ELSE Append(Without(s, dropped), m)
<1>1. PICK f : Keeps(f, s, dropped)
  BY KeepsExists
<1>2. PICK g : /\ Keeps(g, Append(s, m), dropped)
               /\ g[Len(s) + 1] = IF m \in dropped THEN f[Len(s)] ELSE Append(f[Len(s)], m)
  BY <1>1, KeepsMore
<1>3. Append(s, m) \in Seq(Message) /\ Len(Append(s, m)) = Len(s) + 1
  BY AppendProperties
<1>4. Without(s, dropped) = f[Len(s)]
  BY <1>1, WithoutIs
<1>5. Without(Append(s, m), dropped) = g[Len(s) + 1]
  BY <1>2, <1>3, WithoutIs
<1> QED
  BY <1>2, <1>4, <1>5

LEMMA WithoutNone ==
    ASSUME NEW dropped PROVE Without(<<>>, dropped) = <<>>
<1>1. <<>> \in Seq(Message) /\ Len(<<>>) = 0
  BY EmptySeq
<1>2. PICK f : Keeps(f, <<>>, dropped)
  BY <1>1, KeepsExists
<1> QED
  BY <1>1, <1>2, WithoutIs DEF Keeps

LEMMA WithoutType ==
    ASSUME NEW s \in Seq(Message), NEW dropped
    PROVE  Without(s, dropped) \in Seq(Message)
<1> DEFINE T == {p \in Seq(Message) : Without(p, dropped) \in Seq(Message)}
<1>1. <<>> \in T
  BY WithoutNone, EmptySeq
<1>2. ASSUME NEW p \in T, NEW m \in Message PROVE Append(p, m) \in T
  <2>1. Append(p, m) \in Seq(Message) /\ Append(Without(p, dropped), m) \in Seq(Message)
    BY AppendProperties
  <2>2. p \in Seq(Message) /\ Without(p, dropped) \in Seq(Message)
    OBVIOUS
  <2>3. CASE m \in dropped
    <3>1. Without(Append(p, m), dropped) = Without(p, dropped)
      BY <2>2, <2>3, WithoutMore
    <3> QED
      BY <2>1, <2>2, <3>1
  <2>4. CASE m \notin dropped
    <3>1. Without(Append(p, m), dropped) = Append(Without(p, dropped), m)
      BY <2>2, <2>4, WithoutMore
    <3> QED
      BY <2>1, <3>1
  <2> QED
    BY <2>3, <2>4
<1>3. s \in T
  <2> HIDE DEF T
  <2> QED
    BY <1>1, <1>2, GrowsInto
<1> QED
  BY <1>3

LEMMA AppendAtEnd ==
    ASSUME NEW s \in Seq(Message), NEW t \in Seq(Message), NEW m \in Message
    PROVE  s \o Append(t, m) = Append(s \o t, m)
<1>1. /\ <<m>> \in Seq(Message) /\ s \o t \in Seq(Message)
      /\ Append(t, m) = t \o <<m>>
  BY ConcatProperties, AppendIsConcat
<1>2. Append(s \o t, m) = (s \o t) \o <<m>>
  BY <1>1, AppendIsConcat
<1> QED
  BY <1>1, <1>2, Regroup

LEMMA WithoutConcat ==
    ASSUME NEW s \in Seq(Message), NEW t \in Seq(Message), NEW dropped
    PROVE  Without(s \o t, dropped) = Without(s, dropped) \o Without(t, dropped)
<1> DEFINE T == {p \in Seq(Message) :
                   Without(s \o p, dropped) = Without(s, dropped) \o Without(p, dropped)}
<1>1. Without(s, dropped) \in Seq(Message)
  BY WithoutType
<1>2. <<>> \in T
  <2>1. s \o <<>> = s /\ Without(s, dropped) \o <<>> = Without(s, dropped)
    BY <1>1, ConcatEmptySeq
  <2> QED
    BY <2>1, WithoutNone, EmptySeq
<1>3. ASSUME NEW p \in T, NEW m \in Message PROVE Append(p, m) \in T
  <2>1. p \in Seq(Message) /\ Without(s \o p, dropped) = Without(s, dropped) \o Without(p, dropped)
    OBVIOUS
  <2>2. /\ s \o p \in Seq(Message) /\ Append(p, m) \in Seq(Message)
        /\ s \o Append(p, m) = Append(s \o p, m)
    BY <2>1, ConcatProperties, AppendProperties, AppendAtEnd
  <2>3. Without(p, dropped) \in Seq(Message)
    BY <2>1, WithoutType
  <2>4. Without(s, dropped) \o Append(Without(p, dropped), m)
          = Append(Without(s, dropped) \o Without(p, dropped), m)
    BY <1>1, <2>3, AppendAtEnd
  <2>5. Without(Append(s \o p, m), dropped)
          = IF m \in dropped THEN Without(s \o p, dropped) ELSE Append(Without(s \o p, dropped), m)
    BY <2>2, WithoutMore, ZenonT(30)
  <2>6. Without(Append(p, m), dropped)
          = IF m \in dropped THEN Without(p, dropped) ELSE Append(Without(p, dropped), m)
    BY <2>1, WithoutMore, Zenon
  <2>7. Without(s \o Append(p, m), dropped) = Without(s, dropped) \o Without(Append(p, m), dropped)
    BY <2>1, <2>2, <2>4, <2>5, <2>6
  <2> QED
    BY <2>2, <2>7
<1>4. t \in T
  <2> HIDE DEF T
  <2> QED
    BY <1>2, <1>3, GrowsInto
<1> QED
  BY <1>4

LEMMA WithoutAll ==
    ASSUME NEW s \in Seq(Message), NEW dropped, \A i \in 1..Len(s) : s[i] \in dropped
    PROVE  Without(s, dropped) = <<>>
<1> DEFINE T == {p \in Seq(Message) : Without(p, dropped) = <<>>}
<1>1. <<>> \in T
  BY WithoutNone, EmptySeq
<1>2. ASSUME NEW p \in T, NEW m \in Message, m \in dropped PROVE Append(p, m) \in T
  <2>1. Append(p, m) \in Seq(Message) /\ Without(Append(p, m), dropped) = <<>>
    BY <1>2, WithoutMore, AppendProperties
  <2> QED
    BY <2>1
<1>3. s \in T
  <2> HIDE DEF T
  <2> QED
    BY <1>1, <1>2, GrowsInto
<1> QED
  BY <1>3

(***************************************************************************)
(* What the model sees.                                                    *)
(***************************************************************************)
Calm == {"inject", "stream", "turnEnd", "poll", "pollFollowUps", "prepare", "repoll"}

SeesInv ==
    /\ At("prompts") => run.context = transcript \o Users(run.prompts)
    /\ run.pc \in Calm => WithoutNotes(run.context) = WithoutNotes(transcript)
    /\ At("batch") =>
          \A n \in 0..Len(run.calls) :
             Sent = 1..n => WithoutNotes(run.context \o Results(n)) = WithoutNotes(transcript)

LEMMA NotesVanish ==
    ASSUME NEW s \in Seq(Message), NEW notes \in Seq(NoteKinds)
    PROVE  WithoutNotes(s \o notes) = WithoutNotes(s)
<1>1. notes \in Seq(Message) /\ \A i \in 1..Len(notes) : notes[i] \in NoteKinds
  BY NotesAreLists, ElementOfSeq
<1>2. Without(notes, NoteKinds) = <<>>
  BY <1>1, WithoutAll
<1>3. Without(s, NoteKinds) \in Seq(Message)
  BY WithoutType
<1>4. Without(s \o notes, NoteKinds) = Without(s, NoteKinds) \o Without(notes, NoteKinds)
  BY <1>1, WithoutConcat
<1>5. Without(s \o notes, NoteKinds) = Without(s, NoteKinds)
  BY <1>2, <1>3, <1>4, ConcatEmptySeq
<1> QED
  BY <1>5 DEF WithoutNotes, NoteKinds

LEMMA SameWithMore ==
    ASSUME NEW s \in Seq(Message), NEW t \in Seq(Message), NEW m \in Message,
           WithoutNotes(s) = WithoutNotes(t)
    PROVE  WithoutNotes(Append(s, m)) = WithoutNotes(Append(t, m))
<1>1. Without(s, NoteKinds) = Without(t, NoteKinds)
  BY DEF WithoutNotes, NoteKinds
<1>2. /\ Without(Append(s, m), NoteKinds)
           = IF m \in NoteKinds THEN Without(s, NoteKinds) ELSE Append(Without(s, NoteKinds), m)
      /\ Without(Append(t, m), NoteKinds)
           = IF m \in NoteKinds THEN Without(t, NoteKinds) ELSE Append(Without(t, NoteKinds), m)
  BY WithoutMore
<1>3. Without(Append(s, m), NoteKinds) = Without(Append(t, m), NoteKinds)
  BY <1>1, <1>2
<1> QED
  BY <1>3 DEF WithoutNotes, NoteKinds

\* The steps of the loop.
LEMMA LoopSees ==
    ASSUME SessionInv, SeesInv, LoopStep, TypeOK', BatchInv'
    PROVE  SeesInv'
<1> USE DEF At
<1>1. /\ transcript \in Seq(Message) /\ run.context \in Seq(Message) /\ run \in RunState
      /\ TypeOK /\ BatchInv
  BY DEF SessionInv, TypeOK, RunState
<1>2. ASSUME run'.pc \notin {"prompts", "batch"},
             run'.pc \in Calm => WithoutNotes(run'.context) = WithoutNotes(transcript')
      PROVE  SeesInv'
  BY <1>2 DEF SeesInv, WithoutNotes
<1>3. ASSUME run.pc \in Calm, run'.pc \notin {"prompts", "batch"},
             run'.context = run.context, UNCHANGED transcript
      PROVE  SeesInv'
  BY <1>2, <1>3 DEF SeesInv
<1>4. CASE EmitPrompt
  <2>1. /\ At("prompts") /\ run.prompts # <<>> /\ run.prompts \in Seq(Text)
        /\ transcript' = Append(transcript, User(Head(run.prompts)))
        /\ run'.prompts = Tail(run.prompts)
        /\ run'.pc = run.pc /\ run'.context = run.context
    BY <1>1, <1>4 DEF EmitPrompt, Emit, RunState
  <2>2. transcript' \o Users(run'.prompts) = transcript \o Users(run.prompts)
    BY <1>1, <2>1, MovePrompt
  <2>3. run'.context = transcript' \o Users(run'.prompts)
    BY <2>1, <2>2 DEF SeesInv
  <2> QED
    BY <2>1, <2>3 DEF SeesInv, Users, User, Calm
<1>5. CASE InitialPoll
  <2>1. /\ At("prompts") /\ run.prompts = <<>> /\ transcript' = transcript
        /\ run'.pc = "inject" /\ run'.context = run.context
    BY <1>1, <1>5 DEF InitialPoll, RunState
  <2>2. Users(<<>>) = <<>>
    BY DEF Users
  <2>3. transcript \o <<>> = transcript
    BY <1>1, ConcatEmptySeq
  <2> QED
    BY <1>2, <2>1, <2>2, <2>3 DEF SeesInv
<1>6. CASE InjectPending
  <2>1. /\ run'.context = Append(run.context, User(Head(run.pending)))
        /\ transcript' = Append(transcript, User(Head(run.pending)))
        /\ run'.pc = "inject" /\ run.pc = "inject"
        /\ run.pending \in Seq(Text) /\ run.pending # <<>>
    BY <1>1, <1>6 DEF InjectPending, Emit, RunState
  <2>2. User(Head(run.pending)) \in Message
    BY <2>1, HeadTailProperties DEF User, Message
  <2>3. WithoutNotes(run'.context) = WithoutNotes(transcript')
    BY <1>1, <2>1, <2>2, SameWithMore DEF SeesInv, Calm
  <2> QED
    BY <1>2, <2>1, <2>3
<1>7. CASE CallModel \/ PollSteering \/ PollFollowUps \/ RepollSteering
  <2>1. /\ run.pc \in Calm /\ run'.pc \notin {"prompts", "batch"}
        /\ run'.context = run.context /\ transcript' = transcript
    <3>1. CASE RepollSteering
      <4>1. \/ run' = [run EXCEPT !.pc = "inject", !.pending = Steered]
            \/ run' = [run EXCEPT !.pc = "inject"]
        BY <3>1, Zenon DEF RepollSteering, Goto
      <4>2. At("repoll") /\ transcript' = transcript
        BY <3>1 DEF RepollSteering
      <4> QED
        BY <1>1, <4>1, <4>2 DEF RunState, Calm
    <3> QED
      BY <1>1, <1>7, <3>1 DEF CallModel, PollSteering, PollFollowUps, Goto, RunState, Calm
  <2> QED
    BY <1>3, <2>1
<1>8. CASE RespondFailed
  <2>1. PICK stop : Receive(stop, 0, [run EXCEPT !.pc = "failed"])
    BY <1>8 DEF RespondFailed
  <2>2. run'.pc = "failed"
    BY <1>1, <2>1 DEF Receive, RunState
  <2> QED
    BY <1>2, <2>2 DEF Calm
<1>9. CASE Respond
  <2>1. PICK stop \in {"stop", "length"} :
          Receive(stop, 0, [run EXCEPT !.pc = "turnEnd", !.more = FALSE])
    BY <1>9 DEF Respond
  <2> DEFINE m == Assistant(responses + 1, stop, 0)
  <2>2. m \in Message
    BY <1>1, AgentAssumption DEF Assistant, Message, TypeOK
  <2>3. /\ run.pc = "stream" /\ run'.pc = "turnEnd"
        /\ run'.context = Append(run.context, m) /\ transcript' = Append(transcript, m)
    BY <1>1, <1>9, <2>1 DEF Respond, Receive, Emit, RunState
  <2> HIDE DEF m
  <2>4. WithoutNotes(run'.context) = WithoutNotes(transcript')
    BY <1>1, <2>2, <2>3, SameWithMore DEF SeesInv, Calm
  <2> QED
    BY <1>2, <2>3, <2>4
<1>10. CASE RespondWithCalls
  <2>1. PICK k \in 1..MaxCalls, mode \in ExecutionModes :
          Receive(IF mode = "truncated" THEN "length" ELSE "toolUse", k,
                  [run EXCEPT !.pc = "batch", !.mode = mode, !.terminate = TRUE,
                              !.calls = [i \in 1..k |-> "todo"]])
    BY <1>10 DEF RespondWithCalls
  <2> DEFINE stop == IF mode = "truncated" THEN "length" ELSE "toolUse"
             m == Assistant(responses + 1, stop, k)
  <2>2. m \in Message
    <3>1. stop \in {"length", "toolUse"} /\ k \in 0..MaxCalls /\ responses + 1 \in Nat
      BY <1>1, AgentAssumption DEF TypeOK
    <3> HIDE DEF stop
    <3> QED
      BY <3>1 DEF Assistant, Message
  <2>3. /\ run.pc = "stream" /\ run'.pc = "batch" /\ run'.calls = [i \in 1..k |-> "todo"]
        /\ run'.context = Append(run.context, m) /\ transcript' = Append(transcript, m)
    <3> DEFINE calling == [run EXCEPT !.pc = "batch", !.mode = mode, !.terminate = TRUE,
                                      !.calls = [i \in 1..k |-> "todo"]]
    <3>1. /\ run.pc = "stream" /\ transcript' = Append(transcript, m)
          /\ run' = [calling EXCEPT !.context = Append(@, m)]
      BY <1>10, <2>1 DEF RespondWithCalls, Receive, Emit
    <3> HIDE DEF m
    <3> QED
      BY <1>1, <3>1 DEF RunState
  <2> HIDE DEF m
  <2>4. WithoutNotes(run'.context) = WithoutNotes(transcript')
    BY <1>1, <2>2, <2>3, SameWithMore DEF SeesInv, Calm
  <2>5. run'.context \o Results(0)' = run'.context
    <3>1. Results(0)' = <<>> /\ run'.context \in Seq(Message)
      BY DEF Results, TypeOK, RunState
    <3> QED
      BY <3>1, ConcatEmptySeq
  <2>6. Sent' = {}
    BY <2>3 DEF Sent
  <2>7. \A n \in Nat : 1..n = {} => n = 0
    OBVIOUS
  <2>8. \A n \in 0..Len(run.calls)' : Sent' = 1..n => n = 0
    BY <2>6, <2>7
  <2> QED
    BY <2>3, <2>4, <2>5, <2>8 DEF SeesInv, WithoutNotes, Calm
<1>11. CASE CallStep
  <2>1. /\ At("batch") /\ Sent' = Sent /\ Len(run'.calls) = Len(run.calls)
        /\ run'.pc = run.pc /\ run'.context = run.context
        /\ UNCHANGED <<transcript, responses>>
    BY <1>1, <1>11, CallStepSends
  <2>2. \A n \in 0..Len(run.calls) : Results(n)' = Results(n)
    BY <2>1 DEF Results, ToolResult
  <2> QED
    BY <2>1, <2>2 DEF SeesInv, WithoutNotes, Calm
<1>12. ASSUME NEW i \in 1..MaxCalls, SendResult(i) PROVE SeesInv'
  <2>1. /\ At("batch") /\ i \in 1..Len(run.calls) /\ Len(run'.calls) = Len(run.calls)
        /\ Sent = 1..(i - 1) /\ Sent' = 1..i
        /\ run'.pc = run.pc /\ run'.context = run.context
        /\ transcript' = Append(transcript, ToolResult(responses, i))
        /\ UNCHANGED responses
    BY <1>1, <1>12, SendResultSends
  <2> DEFINE n == i - 1
             m == ToolResult(responses, i)
  <2>2. n \in Nat /\ n + 1 = i /\ n + 1 <= MaxCalls /\ n \in 0..Len(run.calls)
    BY <1>12, <2>1, AgentAssumption
  <2>3. m \in Message
    BY <1>1, <1>12 DEF ToolResult, Message, TypeOK
  <2>4. WithoutNotes(run.context \o Results(n)) = WithoutNotes(transcript)
    BY <2>1, <2>2 DEF SeesInv
  <2>5. /\ Results(n) \in Seq(Message)
        /\ run.context \o Results(i) = Append(run.context \o Results(n), m)
    <3> HIDE DEF n
    <3>1. /\ Results(n) \in Seq(Message)
          /\ run.context \o Results(n + 1)
               = Append(run.context \o Results(n), ToolResult(responses, n + 1))
      BY <1>1, <2>2, GrowResults
    <3> QED
      BY <2>2, <3>1
  <2>6. WithoutNotes(run.context \o Results(i)) = WithoutNotes(transcript')
    <3> HIDE DEF m, n
    <3>1. run.context \o Results(n) \in Seq(Message)
      BY <1>1, <2>5, ConcatProperties
    <3>2. WithoutNotes(Append(run.context \o Results(n), m)) = WithoutNotes(Append(transcript, m))
      BY <1>1, <2>3, <2>4, <3>1, SameWithMore
    <3>3. transcript' = Append(transcript, m)
      BY <2>1 DEF m
    <3> QED
      BY <2>5, <3>2, <3>3
  <2>7. Results(i)' = Results(i)
    BY <2>1 DEF Results, ToolResult
  <2>8. \A k \in Nat : 1..i = 1..k => k = i
    BY <1>12, <2>2
  <2>9. \A k \in 0..Len(run.calls)' : Sent' = 1..k => k = i
    BY <2>1, <2>2, <2>8
  <2> QED
    BY <2>1, <2>6, <2>7, <2>9 DEF SeesInv, WithoutNotes, Calm
<1>13. CASE EndBatch
  <2>1. PICK n \in 0..Len(run.calls) : Sent = 1..n
    BY <1>1 DEF BatchInv
  <2>2. run'.pc = "turnEnd" /\ run'.context = run.context \o Results(n) /\ transcript' = transcript
    <3>1. /\ transcript' = transcript
          /\ run' = [run EXCEPT !.pc = "turnEnd", !.calls = <<>>,
                       !.more = run.mode = "truncated" \/ ~run.terminate,
                       !.context = run.context \o [i \in Sent |-> ToolResult(responses, i)]]
      BY <1>13 DEF EndBatch, Sent
    <3>2. /\ run'.pc = "turnEnd"
          /\ run'.context = run.context \o [i \in Sent |-> ToolResult(responses, i)]
      BY <1>1, <3>1 DEF RunState
    <3> QED
      BY <2>1, <3>1, <3>2 DEF Results
  <2>3. WithoutNotes(run.context \o Results(n)) = WithoutNotes(transcript)
    BY <1>13, <2>1 DEF SeesInv, EndBatch
  <2> QED
    BY <1>2, <2>2, <2>3
<1> QED
  BY <1>4, <1>5, <1>6, <1>7, <1>8, <1>9, <1>10, <1>11, <1>12, <1>13 DEF LoopStep, CallStep

LEMMA SeesStep ==
    ASSUME OneCaller, SessionInv, IdleInv, SeesInv, SessionInv', [SessionNext]_allVars
    PROVE  SeesInv'
<1> USE DEF At
<1>1. /\ transcript \in Seq(Message) /\ run.context \in Seq(Message) /\ run \in RunState
      /\ TypeOK' /\ BatchInv'
  BY DEF SessionInv, TypeOK, RunState
<1>2. ASSUME run'.pc \notin {"prompts", "batch"},
             run'.pc \in Calm => WithoutNotes(run'.context) = WithoutNotes(transcript')
      PROVE  SeesInv'
  BY <1>2 DEF SeesInv, WithoutNotes
<1>3. ASSUME ~Active, UNCHANGED run PROVE SeesInv'
  BY <1>3 DEF Active, SeesInv, Calm
<1>4. ASSUME UNCHANGED <<transcript, responses>>, run'.pc = run.pc,
             run'.context = run.context, run'.prompts = run.prompts,
             run'.calls = run.calls
      PROVE  SeesInv'
  <2>1. Sent' = Sent /\ Users(run.prompts)' = Users(run.prompts)
        /\ \A n : Results(n)' = Results(n)
    BY <1>4 DEF Sent, Users, User, Results, ToolResult
  <2> QED
    BY <1>4, <2>1 DEF SeesInv, WithoutNotes
<1>5. CASE UNCHANGED allVars
  BY <1>4, <1>5 DEF allVars, agentVars
<1>6. CASE Queue \/ SessionAbort
  <2>1. /\ UNCHANGED <<transcript, responses>> /\ run'.pc = run.pc
        /\ run'.context = run.context /\ run'.prompts = run.prompts /\ run'.calls = run.calls
    BY <1>1, <1>6 DEF Queue, SessionAbort, Steer, FollowUp, Abort, RunState
  <2> QED
    BY <1>4, <2>1
<1>7. CASE RecordBashResult \/ SendCustomMessage
  <2>1. CASE active
    BY <1>4, <1>7, <2>1 DEF RecordBashResult, SendCustomMessage, agentVars
  <2>2. CASE ~active
    <3>1. ~Active
      BY <2>2, SessionAssumption DEF IdleInv, BeforeRun
    <3> QED
      BY <1>3, <1>7, <2>2, <3>1 DEF RecordBashResult, SendCustomMessage, AddNow, Untouched
  <2> QED
    BY <2>1, <2>2
<1>8. CASE ObservedStep
  BY <1>1, <1>8, LoopSees DEF ObservedStep
<1>9. CASE SessionEndTurn
  <2>1. WithoutNotes(transcript \o pendingCustom) = WithoutNotes(transcript)
    BY <1>1, PendingsAreNotes, NotesVanish
  <2>2. /\ transcript' = transcript \o pendingCustom /\ run'.context = run.context
        /\ run'.pc = "ending" \/ (run.pc = "turnEnd" /\ run'.pc = "poll")
    BY <1>1, <1>9 DEF SessionEndTurn, EndTurn, Goto, RunState
  <2> QED
    BY <1>2, <2>1, <2>2 DEF SeesInv, Calm
<1>10. CASE PrepareTurn
  <2>1. /\ run.pc = "prepare" /\ run'.pc = "repoll"
        /\ \/ run'.context = transcript'
           \/ run'.context = run.context /\ UNCHANGED transcript
    BY <1>1, <1>10 DEF PrepareTurn, PrepareNextTurn, RunState
  <2> QED
    BY <1>2, <2>1 DEF SeesInv, Calm
<1>11. CASE SessionFinishRun
  BY <1>2, <1>11 DEF SessionFinishRun, FinishRun, NoRun, Calm
<1>12. ASSUME NEW c \in Callers,
              SessionPrompt(c) \/ RefusePrompt(c) \/ Preflight(c) \/ CompactFirst(c)
                \/ PostRun(c) \/ WakeUp(c) \/ AbortRetry(c) \/ Compact(c) \/ Settle(c)
       PROVE  SeesInv'
  <2>1. UNCHANGED run
    BY <1>12 DEF SessionPrompt, RefusePrompt, Preflight, CompactFirst, PostRun, WakeUp,
       AbortRetry, Compact, Settle, Untouched, agentVars
  <2>2. ~Active
    BY <1>12 DEF SessionPrompt, RefusePrompt, Preflight, CompactFirst, PostRun, WakeUp,
       AbortRetry, Compact, Settle, IdleInv, BeforeRun
  <2> QED
    BY <1>3, <2>1, <2>2
<1>13. ASSUME NEW c \in Callers, StartRun(c) \/ ContinueRun(c)
       PROVE  SeesInv'
  <2>1. phase[c] # "run"
    BY <1>13 DEF StartRun, ContinueRun
  <2>2. ~Active
    BY <2>1 DEF IdleInv
  <2>3. CASE UNCHANGED agentVars
    BY <1>3, <2>2, <2>3 DEF agentVars
  <2>4. CASE Prompt \/ Continue
    <3>1. PICK prompts, skip : Start(prompts, skip)
      BY <2>4 DEF Prompt, Continue
    <3>2. /\ run'.pc = "prompts" /\ run'.context = transcript \o Users(run'.prompts)
          /\ transcript' = transcript
      BY <2>4, <3>1 DEF Start, NoRun, Prompt, Continue
    <3> QED
      BY <3>2 DEF SeesInv, Users, User, Calm
  <2> QED
    BY <1>13, <2>3, <2>4 DEF StartRun, ContinueRun
<1> QED
  BY <1>5, <1>6, <1>7, <1>8, <1>9, <1>10, <1>11, <1>12, <1>13
     DEF SessionNext, SessionCallers, SessionSteps

\* With one prompt in flight the model is always asked with the transcript that the
\* agent and the session hold, apart from notes added during the run, whatever was
\* compacted, dropped or continued before (agent-session.ts:543-583).
THEOREM ModelAlwaysSeesSession ==
    ASSUME OneCaller
    PROVE  SessionSpec => []ModelSeesSession
<1>1. SessionInit => SeesInv
  BY DEF SessionInit, Init, NoRun, SeesInv, At, Calm
<1>2. SessionInv /\ IdleInv /\ [SessionNext]_allVars => IdleInv'
  BY IdleStep
<1>3. SessionInv /\ IdleInv /\ SeesInv /\ SessionInv' /\ [SessionNext]_allVars => SeesInv'
  BY SeesStep
<1>4. SeesInv => ModelSeesSession
  BY DEF SeesInv, ModelSeesSession, At, Calm
<1> QED
  BY <1>1, <1>2, <1>3, <1>4, SessionStart, IdleStart, SessionInvStep, PTL DEF SessionSpec

(***************************************************************************)
(* The steps of the loop by what they add to the transcript.               *)
(***************************************************************************)
\* A message of a caller.
Says ==
    \E m \in Message :
        /\ m.role = "user" /\ transcript' = Append(transcript, m)
        /\ run.pc \in {"prompts", "inject"} /\ run'.pc = run.pc
        /\ UNCHANGED <<responses, cut>>

\* Nothing.
Moves ==
    /\ UNCHANGED <<transcript, responses, cut>>
    /\ \/ At("prompts") /\ run.prompts = <<>> /\ run'.pc = "inject"
       \/ At("inject") /\ run'.pc = "stream"
       \/ /\ run.pc \in {"batch", "poll", "pollFollowUps", "repoll"}
          /\ run'.pc \in {"inject", "batch", "turnEnd", "pollFollowUps", "prepare", "ending"}

\* A response.
Responds(stop, k) ==
    /\ At("stream") /\ Assistant(responses + 1, stop, k) \in Message
    /\ transcript' = Append(transcript, Assistant(responses + 1, stop, k))
    /\ responses' = responses + 1 /\ cut \subseteq cut'
    /\ \/ run'.pc \in {"batch", "turnEnd"} /\ stop \in {"stop", "toolUse", "length"}
       \/ run'.pc = "failed" /\ stop \in Errors \cup {"aborted"}

\* A result.
Reports ==
    \E m \in Message :
        /\ m.role = "toolResult" /\ transcript' = Append(transcript, m)
        /\ At("batch") /\ run'.pc = run.pc
        /\ UNCHANGED <<responses, cut>>

LEMMA LoopMoves ==
    ASSUME TypeOK, BatchInv, LoopStep
    PROVE  Says \/ Moves \/ (\E stop, k : Responds(stop, k)) \/ Reports
<1> USE DEF At
<1>1. run \in RunState /\ responses \in Nat
  BY DEF TypeOK
<1>2. ASSUME NEW texts \in Seq(Text), texts # <<>>
      PROVE  User(Head(texts)) \in Message /\ User(Head(texts)).role = "user"
  <2>1. Head(texts) \in Text
    BY <1>2, HeadTailProperties
  <2> QED
    BY <2>1 DEF User, Message
<1>3. CASE EmitPrompt
  <2>1. /\ transcript' = Append(transcript, User(Head(run.prompts))) /\ run'.pc = run.pc
        /\ run.pc = "prompts" /\ UNCHANGED <<responses, cut>>
        /\ run.prompts \in Seq(Text) /\ run.prompts # <<>>
    BY <1>1, <1>3 DEF EmitPrompt, Emit, RunState, history
  <2> QED
    BY <1>2, <2>1 DEF Says
<1>4. CASE InjectPending
  <2>1. /\ transcript' = Append(transcript, User(Head(run.pending))) /\ run'.pc = run.pc
        /\ run.pc = "inject" /\ UNCHANGED <<responses, cut>>
        /\ run.pending \in Seq(Text) /\ run.pending # <<>>
    BY <1>1, <1>4 DEF InjectPending, Emit, RunState, history
  <2> QED
    BY <1>2, <2>1 DEF Says
<1>5. CASE InitialPoll \/ CallModel
  BY <1>1, <1>5 DEF InitialPoll, CallModel, Goto, Moves, RunState, history
<1>6. CASE PollSteering \/ PollFollowUps
  BY <1>1, <1>6 DEF PollSteering, PollFollowUps, Moves, RunState, history
<1>7. CASE RepollSteering
  <2>1. \/ run' = [run EXCEPT !.pc = "inject", !.pending = Steered]
        \/ run' = [run EXCEPT !.pc = "inject"]
    BY <1>7, Zenon DEF RepollSteering, Goto
  <2>2. run.pc = "repoll" /\ UNCHANGED <<transcript, responses, cut>>
    BY <1>7 DEF RepollSteering, history
  <2> QED
    BY <1>1, <2>1, <2>2 DEF RunState, Moves
<1>8. CASE CallStep
  <2>1. run.pc = "batch" /\ run'.pc = run.pc /\ UNCHANGED <<transcript, responses, history>>
    BY <1>8, CallStepSends
  <2> QED
    BY <2>1 DEF Moves, history
<1>9. CASE EndBatch
  BY <1>1, <1>9 DEF EndBatch, Moves, RunState, history
<1>10. ASSUME NEW i \in 1..MaxCalls, SendResult(i) PROVE Reports
  <2>1. /\ transcript' = Append(transcript, ToolResult(responses, i))
        /\ run.pc = "batch" /\ run'.pc = run.pc /\ UNCHANGED <<responses, history>>
    BY <1>10, SendResultSends
  <2>2. ToolResult(responses, i) \in Message /\ ToolResult(responses, i).role = "toolResult"
    BY <1>1 DEF ToolResult, Message
  <2> QED
    BY <2>1, <2>2 DEF Reports, history
<1>11. CASE RespondFailed
  <2>1. PICK stop \in Errors \cup {"aborted"} : Receive(stop, 0, [run EXCEPT !.pc = "failed"])
    BY <1>11 DEF RespondFailed
  <2>2. run'.pc = "failed" /\ run.pc = "stream"
    BY <1>1, <1>11, <2>1 DEF Receive, RespondFailed, RunState
  <2>3. /\ transcript' = Append(transcript, Assistant(responses + 1, stop, 0))
        /\ responses' = responses + 1 /\ cut \subseteq cut'
    BY <2>1 DEF Receive, Emit
  <2>4. Assistant(responses + 1, stop, 0) \in Message
    BY <1>1, AgentAssumption DEF Assistant, Message
  <2> QED
    BY <2>1, <2>2, <2>3, <2>4 DEF Responds
<1>12. CASE Respond
  <2>1. PICK stop \in {"stop", "length"} :
          Receive(stop, 0, [run EXCEPT !.pc = "turnEnd", !.more = FALSE])
    BY <1>12 DEF Respond
  <2>2. run'.pc = "turnEnd" /\ run.pc = "stream"
    BY <1>1, <1>12, <2>1 DEF Receive, Respond, RunState
  <2>3. /\ transcript' = Append(transcript, Assistant(responses + 1, stop, 0))
        /\ responses' = responses + 1 /\ cut \subseteq cut'
    BY <2>1 DEF Receive, Emit
  <2>4. Assistant(responses + 1, stop, 0) \in Message
    BY <1>1, AgentAssumption DEF Assistant, Message
  <2> QED
    BY <2>1, <2>2, <2>3, <2>4 DEF Responds
<1>13. CASE RespondWithCalls
  <2>1. PICK k \in 1..MaxCalls, mode \in ExecutionModes :
          Receive(IF mode = "truncated" THEN "length" ELSE "toolUse", k,
                  [run EXCEPT !.pc = "batch", !.mode = mode, !.terminate = TRUE,
                              !.calls = [i \in 1..k |-> "todo"]])
    BY <1>13 DEF RespondWithCalls
  <2> DEFINE stop == IF mode = "truncated" THEN "length" ELSE "toolUse"
             calling == [run EXCEPT !.pc = "batch", !.mode = mode, !.terminate = TRUE,
                                    !.calls = [i \in 1..k |-> "todo"]]
             m == Assistant(responses + 1, stop, k)
  <2>2. /\ transcript' = Append(transcript, m) /\ run' = [calling EXCEPT !.context = Append(@, m)]
        /\ responses' = responses + 1 /\ cut \subseteq cut' /\ run.pc = "stream"
    BY <1>13, <2>1 DEF Receive, Emit, RespondWithCalls
  <2>3. stop \in {"length", "toolUse"} /\ k \in 0..MaxCalls /\ responses + 1 \in Nat
    BY <1>1, AgentAssumption
  <2>4. run'.pc = "batch"
    <3> HIDE DEF m
    <3> QED
      BY <1>1, <2>2 DEF RunState
  <2> HIDE DEF stop
  <2>5. m \in Message
    BY <2>3 DEF Assistant, Message
  <2>6. Responds(stop, k)
    BY <2>2, <2>3, <2>4, <2>5 DEF Responds
  <2> QED
    BY <2>6
<1> QED
  BY <1>3, <1>4, <1>5, <1>6, <1>7, <1>8, <1>9, <1>10, <1>11, <1>12, <1>13
     DEF LoopStep, CallStep

(***************************************************************************)
(* The last response.                                                      *)
(***************************************************************************)
LEMMA ResponseAppended ==
    ASSUME NEW s \in Seq(Message), NEW m \in Message
    PROVE  /\ IsAssistant(m) => LastResponse(Append(s, m)) = m
           /\ ~IsAssistant(m) => LastResponse(Append(s, m)) = LastResponse(s)
           /\ Append(s, m) # <<>> /\ Last(Append(s, m)) = m
<1> DEFINE n == Len(s)
           more == Append(s, m)
<1>1. /\ n \in Nat /\ more \in Seq(Message) /\ Len(more) = n + 1 /\ more[n + 1] = m
      /\ \A i \in 1..n : more[i] = s[i]
  BY LenProperties, AppendProperties
<1>2. more # <<>> /\ Last(more) = m
  <2> HIDE DEF more
  <2> QED
    BY <1>1, EmptySeq DEF Last
<1>3. ASSUME IsAssistant(m) PROVE LastResponse(more) = m
  <2>1. n + 1 \in 1..Len(more) /\ \A i \in (n + 1 + 1)..Len(more) : ~IsAssistant(more[i])
    BY <1>1
  <2> HIDE DEF more
  <2> QED
    BY <1>1, <1>3, <2>1, LastResponseUnique
<1>4. ASSUME ~IsAssistant(m) PROVE LastResponse(more) = LastResponse(s)
  <2>1. CASE /\ \A i \in 1..n : ~IsAssistant(s[i])
             /\ LastResponse(s) = Assistant(0, "stop", 0)
    <3>1. \A i \in 1..Len(more) : ~IsAssistant(more[i])
      <4>1. ASSUME NEW i \in 1..Len(more) PROVE ~IsAssistant(more[i])
        <5>1. i \in 1..n \/ i = n + 1
          <6> HIDE DEF more, n
          <6> QED
            BY <1>1
        <5> QED
          BY <1>1, <1>4, <2>1, <5>1
      <4> QED
        BY <4>1
    <3> HIDE DEF more
    <3> QED
      BY <1>1, <2>1, <3>1, LastResponseIsLast
  <2>2. CASE \E p \in 1..n :
                /\ IsAssistant(s[p]) /\ LastResponse(s) = s[p]
                /\ \A i \in (p + 1)..n : ~IsAssistant(s[i])
    <3>1. PICK p \in 1..n : /\ IsAssistant(s[p]) /\ LastResponse(s) = s[p]
                            /\ \A i \in (p + 1)..n : ~IsAssistant(s[i])
      BY <2>2
    <3>2. p \in 1..Len(more) /\ more[p] = s[p]
      <4>1. p \in 1..(n + 1)
        <5> HIDE DEF n
        <5> QED
          BY <1>1
      <4> QED
        BY <1>1, <4>1
    <3>3. ASSUME NEW i \in (p + 1)..Len(more) PROVE ~IsAssistant(more[i])
      <4>1. (i \in (p + 1)..n /\ i \in 1..n) \/ i = n + 1
        <5> HIDE DEF more, n
        <5> QED
          BY <1>1
      <4> QED
        BY <1>1, <1>4, <3>1, <4>1
    <3>4. LastResponse(more) = more[p]
      <4> HIDE DEF more
      <4> QED
        BY <1>1, <3>1, <3>2, <3>3, LastResponseUnique
    <3> QED
      BY <3>1, <3>2, <3>4
  <2> QED
    BY <2>1, <2>2, LastResponseIsLast
<1> QED
  BY <1>2, <1>3, <1>4

\* Notes do not change it, and a list that ends with a note does not end with it.
LEMMA NotesAtEnd ==
    ASSUME NEW s \in Seq(Message), NEW notes \in Seq(NoteKinds)
    PROVE  /\ LastResponse(s \o notes) = LastResponse(s)
           /\ notes # <<>> => s \o notes # <<>> /\ ~IsAssistant(Last(s \o notes))
<1> DEFINE T == {p \in Seq(Message) :
                   /\ LastResponse(s \o p) = LastResponse(s)
                   /\ p # <<>> => s \o p # <<>> /\ ~IsAssistant(Last(s \o p))}
<1>1. notes \in Seq(Message) /\ \A i \in 1..Len(notes) : ~IsAssistant(notes[i])
  BY NotesAreLists, NotesAreMessages, ElementOfSeq
<1>2. <<>> \in T
  BY ConcatEmptySeq, EmptySeq
<1>3. ASSUME NEW p \in T, NEW m \in Message, ~IsAssistant(m) PROVE Append(p, m) \in T
  <2>1. s \o p \in Seq(Message) /\ Append(p, m) \in Seq(Message)
        /\ s \o Append(p, m) = Append(s \o p, m)
    BY ConcatProperties, AppendProperties, AppendAtEnd
  <2>2. /\ LastResponse(Append(s \o p, m)) = LastResponse(s \o p)
        /\ Append(s \o p, m) # <<>> /\ Last(Append(s \o p, m)) = m
    BY <1>3, <2>1, ResponseAppended
  <2> QED
    BY <1>3, <2>1, <2>2
<1>4. notes \in T
  <2> HIDE DEF T
  <2> QED
    BY <1>1, <1>2, <1>3, GrowsInto
<1> QED
  BY <1>4

(***************************************************************************)
(* The entries hold the transcript.                                        *)
(***************************************************************************)
\* Responses that failed or were cut off.
Passing == [role : {"assistant"}, turn : Nat, calls : 0..MaxCalls, stop : Errors \cup {"length"}]

LEMMA PassingResponses ==
    ASSUME NEW m \in Message, IsAssistant(m), m.stop \in Errors \cup {"length"}
    PROVE  m \in Passing
<1>1. m \notin [role : {"user"}, text : Text] /\ m \notin [role : {"toolResult"}, turn : Nat, call : 1..MaxCalls]
      /\ m \notin [role : OtherRoles, data : Nat]
  BY AgentAssumption DEF IsAssistant
<1>2. m \in [role : {"assistant"}, turn : Nat, calls : 0..MaxCalls,
             stop : Errors \cup {"stop", "toolUse", "length", "aborted"}]
  BY <1>1 DEF Message
<1> QED
  BY <1>2 DEF Passing

\* A list without its last message, if that is such a response.
LEMMA DropsPassing ==
    ASSUME NEW s \in Seq(Message), s # <<>>, IsAssistant(Last(s)),
           Last(s).stop \in Errors \cup {"length"}
    PROVE  Without(Front(s), Passing) = Without(s, Passing)
<1>1. /\ Front(s) \in Seq(Message) /\ Last(s) \in Message /\ s = Append(Front(s), Last(s))
      /\ Last(s) \in Passing
  BY FrontType, PassingResponses
<1>2. Without(Append(Front(s), Last(s)), Passing) = Without(Front(s), Passing)
  BY <1>1, WithoutMore
<1> QED
  BY <1>1, <1>2

HoldsInv == Without(transcript, Passing) = Without(BuildContext(entries), Passing)

(***************************************************************************)
(* Good responses and what follows them.                                   *)
(***************************************************************************)
Good(m) == IsAssistant(m) /\ m.stop \notin Errors \cup {"length"}

\* Every good response is followed by something else than responses.
GoesOn(s) ==
    \A i \in 1..Len(s) : Good(s[i]) => \E j \in (i + 1)..Len(s) : ~IsAssistant(s[j])

LEMMA GoesOnMore ==
    ASSUME NEW s \in Seq(Message), NEW m \in Message
    PROVE  GoesOn(Append(s, m)) <=> (~IsAssistant(m) \/ (~Good(m) /\ GoesOn(s)))
<1> DEFINE n == Len(s)
           more == Append(s, m)
<1>1. /\ n \in Nat /\ Len(more) = n + 1 /\ more[n + 1] = m
      /\ \A i \in 1..n : more[i] = s[i]
  BY LenProperties, AppendProperties
<1>2. GoesOn(s) <=> \A i \in 1..n : Good(s[i]) => \E j \in (i + 1)..n : ~IsAssistant(s[j])
  BY DEF GoesOn
<1>3. GoesOn(more) <=> \A i \in 1..(n + 1) : Good(more[i]) => \E j \in (i + 1)..(n + 1) : ~IsAssistant(more[j])
  BY <1>1 DEF GoesOn
<1> HIDE DEF n, more
<1>4. ASSUME ~IsAssistant(m) PROVE GoesOn(more)
  <2>1. ASSUME NEW i \in 1..(n + 1), Good(more[i])
        PROVE  \E j \in (i + 1)..(n + 1) : ~IsAssistant(more[j])
    <3>1. i # n + 1
      BY <1>1, <1>4, <2>1 DEF Good
    <3>2. n + 1 \in (i + 1)..(n + 1)
      BY <1>1, <3>1
    <3> QED
      BY <1>1, <1>4, <3>2
  <2> QED
    BY <1>3, <2>1
<1>5. ASSUME Good(m) PROVE ~GoesOn(more)
  <2>1. n + 1 \in 1..(n + 1) /\ (n + 1 + 1)..(n + 1) = {}
    BY <1>1
  <2> QED
    BY <1>1, <1>3, <1>5, <2>1
<1>6. ASSUME IsAssistant(m), ~Good(m), GoesOn(s) PROVE GoesOn(more)
  <2>1. ASSUME NEW i \in 1..(n + 1), Good(more[i])
        PROVE  \E j \in (i + 1)..(n + 1) : ~IsAssistant(more[j])
    <3>1. i \in 1..n
      BY <1>1, <1>6, <2>1
    <3>2. PICK j \in (i + 1)..n : ~IsAssistant(s[j])
      BY <1>1, <1>2, <1>6, <2>1, <3>1
    <3>3. j \in 1..n /\ j \in (i + 1)..(n + 1)
      BY <1>1, <3>1
    <3> QED
      BY <1>1, <3>2, <3>3
  <2> QED
    BY <1>3, <2>1
<1>7. ASSUME IsAssistant(m), GoesOn(more) PROVE GoesOn(s)
  <2>1. ASSUME NEW i \in 1..n, Good(s[i])
        PROVE  \E j \in (i + 1)..n : ~IsAssistant(s[j])
    <3>1. i \in 1..(n + 1) /\ Good(more[i])
      BY <1>1, <2>1
    <3>2. PICK j \in (i + 1)..(n + 1) : ~IsAssistant(more[j])
      BY <1>3, <1>7, <3>1
    <3>3. j # n + 1
      BY <1>1, <1>7, <3>2
    <3>4. j \in (i + 1)..n /\ j \in 1..n
      BY <1>1, <3>3
    <3> QED
      BY <1>1, <3>2, <3>4
  <2> QED
    BY <1>2, <2>1
<1> QED
  BY <1>4, <1>5, <1>6, <1>7 DEF more, Good

\* The passing responses do not matter for it.
LEMMA GoesOnIs ==
    ASSUME NEW s \in Seq(Message)
    PROVE  GoesOn(s) <=> \/ Without(s, Passing) = <<>>
                         \/ ~IsAssistant(Last(Without(s, Passing)))
<1> DEFINE Ends(w) == w = <<>> \/ ~IsAssistant(Last(w))
           T == {p \in Seq(Message) : GoesOn(p) <=> Ends(Without(p, Passing))}
<1>1. <<>> \in T
  <2>1. Len(<<>>) = 0 /\ <<>> \in Seq(Message)
    BY EmptySeq
  <2> QED
    BY <2>1, WithoutNone DEF GoesOn
<1>2. ASSUME NEW p \in T, NEW m \in Message PROVE Append(p, m) \in T
  <2>1. /\ p \in Seq(Message) /\ Append(p, m) \in Seq(Message)
        /\ Without(p, Passing) \in Seq(Message)
    BY AppendProperties, WithoutType
  <2>2. Without(Append(p, m), Passing)
          = IF m \in Passing THEN Without(p, Passing) ELSE Append(Without(p, Passing), m)
    BY <2>1, WithoutMore
  <2>3. GoesOn(Append(p, m)) <=> (~IsAssistant(m) \/ (~Good(m) /\ GoesOn(p)))
    BY <2>1, GoesOnMore
  <2>4. m \in Passing <=> IsAssistant(m) /\ ~Good(m)
    BY PassingResponses DEF Good, Passing, IsAssistant
  <2>5. CASE m \in Passing
    BY <2>1, <2>2, <2>3, <2>4, <2>5
  <2>6. CASE m \notin Passing
    <3>1. /\ Append(Without(p, Passing), m) # <<>>
          /\ Last(Append(Without(p, Passing), m)) = m
      BY <2>1, ResponseAppended
    <3>2. Ends(Without(Append(p, m), Passing)) <=> ~IsAssistant(m)
      BY <2>2, <2>6, <3>1
    <3> QED
      BY <2>1, <2>3, <2>4, <2>6, <3>2
  <2> QED
    BY <2>5, <2>6
<1>3. s \in T
  <2> HIDE DEF T
  <2> QED
    BY <1>1, <1>2, GrowsInto
<1> QED
  BY <1>3

\* A list that ends with a response, and one that does not.
LEMMA GoesOnEnd ==
    ASSUME NEW s \in Seq(Message), s # <<>>
    PROVE  /\ ~IsAssistant(Last(s)) => GoesOn(s)
           /\ IsAssistant(Last(s)) /\ GoesOn(s) => ~Good(Last(s)) /\ GoesOn(Front(s))
<1>1. Front(s) \in Seq(Message) /\ Last(s) \in Message /\ s = Append(Front(s), Last(s))
  BY FrontType
<1>2. GoesOn(Append(Front(s), Last(s)))
         <=> (~IsAssistant(Last(s)) \/ (~Good(Last(s)) /\ GoesOn(Front(s))))
  BY <1>1, GoesOnMore
<1> QED
  BY <1>1, <1>2

LEMMA GoesOnConcat ==
    ASSUME NEW s \in Seq(Message), NEW t \in Seq(Message)
    PROVE  /\ GoesOn(s \o t) => GoesOn(t)
           /\ GoesOn(t) /\ (\A i \in 1..Len(s) : ~Good(s[i])) => GoesOn(s \o t)
<1> DEFINE a == Len(s)
           b == Len(t)
           st == s \o t
<1>1. /\ a \in Nat /\ b \in Nat /\ Len(st) = a + b
      /\ \A i \in 1..(a + b) : st[i] = IF i <= a THEN s[i] ELSE t[i - a]
  BY LenProperties, ConcatProperties
<1>2. /\ GoesOn(t) <=> \A i \in 1..b : Good(t[i]) => \E j \in (i + 1)..b : ~IsAssistant(t[j])
      /\ GoesOn(st) <=> \A i \in 1..(a + b) :
                           Good(st[i]) => \E j \in (i + 1)..(a + b) : ~IsAssistant(st[j])
  BY <1>1 DEF GoesOn
<1> HIDE DEF a, b, st
<1>3. \A i \in 1..b : a + i \in 1..(a + b) /\ st[a + i] = t[i]
  <2>1. ASSUME NEW i \in 1..b PROVE a + i \in 1..(a + b) /\ st[a + i] = t[i]
    <3>1. a + i \in 1..(a + b) /\ ~(a + i <= a) /\ (a + i) - a = i
      BY <1>1
    <3>2. st[a + i] = t[(a + i) - a]
      BY <1>1, <3>1
    <3> QED
      BY <3>1, <3>2
  <2> QED
    BY <2>1
<1>4. ASSUME GoesOn(st) PROVE GoesOn(t)
  <2>1. ASSUME NEW i \in 1..b, Good(t[i]) PROVE \E j \in (i + 1)..b : ~IsAssistant(t[j])
    <3>1. PICK j \in (a + i + 1)..(a + b) : ~IsAssistant(st[j])
      BY <1>2, <1>3, <1>4, <2>1
    <3>2. j - a \in (i + 1)..b /\ j - a \in 1..b /\ a + (j - a) = j
      BY <1>1
    <3>3. st[j] = t[j - a]
      BY <1>3, <3>2
    <3> QED
      BY <3>1, <3>2, <3>3
  <2> QED
    BY <1>2, <2>1
<1>5. ASSUME GoesOn(t), \A i \in 1..a : ~Good(s[i]) PROVE GoesOn(st)
  <2>1. ASSUME NEW i \in 1..(a + b), Good(st[i])
        PROVE  \E j \in (i + 1)..(a + b) : ~IsAssistant(st[j])
    <3>1. ~(i <= a)
      BY <1>1, <1>5, <2>1
    <3>2. i - a \in 1..b /\ st[i] = t[i - a]
      BY <1>1, <3>1
    <3>3. PICK j \in (i - a + 1)..b : ~IsAssistant(t[j])
      BY <1>2, <1>5, <2>1, <3>2
    <3>4. a + j \in (i + 1)..(a + b) /\ j \in 1..b
      BY <1>1, <3>2
    <3>5. st[a + j] = t[j]
      BY <1>3, <3>4
    <3> QED
      BY <3>3, <3>4, <3>5
  <2> QED
    BY <1>2, <2>1
<1> QED
  BY <1>4, <1>5 DEF a, st

LEMMA GoesOnSuffix ==
    ASSUME NEW s \in Seq(Message), NEW p \in 1..(Len(s) + 1)
    PROVE  /\ SubSeq(s, p, Len(s)) \in Seq(Message)
           /\ GoesOn(SubSeq(s, p, Len(s))) <=>
                 \A i \in p..Len(s) : Good(s[i]) => \E j \in (i + 1)..Len(s) : ~IsAssistant(s[j])
<1> DEFINE n == Len(s)
           t == SubSeq(s, p, n)
<1>1. n \in Nat /\ \A i \in 1..n : s[i] \in Message
  BY LenProperties, ElementOfSeq
<1>2. /\ t \in Seq(Message) /\ Len(t) = n - p + 1
      /\ \A i \in 1..(n - p + 1) : t[i] = s[p + i - 1]
  <2>1. CASE p <= n
    <3>1. \A i \in p..n : s[i] \in Message
      BY <1>1
    <3> QED
      BY <1>1, <2>1, <3>1, SubSeqProperties
  <2>2. CASE p = n + 1
    <3>1. t = <<>>
      BY <1>1, <2>2, SubSeqEmpty
    <3>2. n - p + 1 = 0
      BY <1>1, <2>2
    <3> QED
      BY <3>1, <3>2, EmptySeq
  <2> QED
    BY <1>1, <2>1, <2>2
<1>3. GoesOn(t) <=> \A i \in 1..(n - p + 1) :
                       Good(t[i]) => \E j \in (i + 1)..(n - p + 1) : ~IsAssistant(t[j])
  BY <1>2 DEF GoesOn
<1> HIDE DEF n, t
<1>4. ASSUME GoesOn(t), NEW i \in p..n, Good(s[i])
      PROVE  \E j \in (i + 1)..n : ~IsAssistant(s[j])
  <2>1. i - p + 1 \in 1..(n - p + 1) /\ p + (i - p + 1) - 1 = i
    BY <1>1
  <2>2. t[i - p + 1] = s[i]
    BY <1>2, <2>1
  <2>3. PICK j \in (i - p + 1 + 1)..(n - p + 1) : ~IsAssistant(t[j])
    BY <1>3, <1>4, <2>1, <2>2
  <2>4. j \in 1..(n - p + 1) /\ p + j - 1 \in (i + 1)..n
    BY <1>1, <2>1
  <2> QED
    BY <1>2, <2>3, <2>4
<1>5. ASSUME \A i \in p..n : Good(s[i]) => \E j \in (i + 1)..n : ~IsAssistant(s[j]),
             NEW i \in 1..(n - p + 1), Good(t[i])
      PROVE  \E j \in (i + 1)..(n - p + 1) : ~IsAssistant(t[j])
  <2>1. p + i - 1 \in p..n /\ t[i] = s[p + i - 1]
    BY <1>1, <1>2
  <2>2. PICK j \in (p + i - 1 + 1)..n : ~IsAssistant(s[j])
    BY <1>5, <2>1
  <2>3. j - p + 1 \in (i + 1)..(n - p + 1) /\ j - p + 1 \in 1..(n - p + 1) /\ p + (j - p + 1) - 1 = j
    BY <1>1
  <2>4. t[j - p + 1] = s[j]
    BY <1>2, <2>3
  <2> QED
    BY <2>2, <2>3, <2>4
<1> QED
  BY <1>2, <1>3, <1>4, <1>5 DEF n, t

\* A compaction keeps it: what it puts first is no response.
LEMMA CompactionGoesOn ==
    ASSUME SessionInv, HoldsInv, GoesOn(transcript), NEW first \in CutPoints
    PROVE  GoesOn(BuildContext(Append(entries, Summary(first))))
<1> DEFINE n == Len(entries)
           s == LastSummary(entries)
           context == BuildContext(entries)
<1>1. /\ transcript \in Seq(Message) /\ entries \in Seq(Message) /\ Grounded(entries)
      /\ context \in Seq(Message) /\ n \in Nat /\ DOMAIN entries = 1..n
  BY BuildContextType, LenProperties DEF SessionInv, TypeOK, SessionTypeOK, Grounded
<1>2. s \in 0..n /\ (s # 0 => IsSummary(entries[s]))
  BY <1>1, LastSummaryIsLast
<1>3. GoesOn(context)
  <2>1. Without(transcript, Passing) = Without(context, Passing)
    BY DEF HoldsInv
  <2> HIDE DEF context
  <2> QED
    BY <1>1, <2>1, GoesOnIs
<1>4. s + 1 \in 1..(n + 1) /\ SubSeq(entries, s + 1, n) \in Seq(Message)
  <2>1. s + 1 \in 1..(n + 1)
    BY <1>1, <1>2
  <2> HIDE DEF s
  <2> QED
    BY <1>1, <2>1, GoesOnSuffix
<1>5. GoesOn(SubSeq(entries, s + 1, n))
  <2>1. CASE s = 0
    <3>1. SubSeq(entries, s + 1, n) = entries /\ context = entries
      BY <1>1, <2>1, SubSeqFull DEF BuildContext
    <3> QED
      BY <1>3, <3>1
  <2>2. CASE s # 0
    <3>1. entries[s].data \in 1..(s - 1) /\ entries[s] \in Message
      BY <1>1, <1>2, <2>2, ElementOfSeq DEF Grounded
    <3> DEFINE kept == SubSeq(entries, entries[s].data, s - 1)
    <3>2. kept \in Seq(Message)
      <4>1. \A i \in entries[s].data..(s - 1) : entries[i] \in Message
        BY <1>1, <1>2, <3>1, ElementOfSeq
      <4>2. entries[s].data \in Int /\ s - 1 \in Int
        BY <1>2, <3>1
      <4> HIDE DEF s
      <4> QED
        BY <4>1, <4>2, SubSeqProperties
    <3>3. context = <<entries[s]>> \o kept \o SubSeq(entries, s + 1, n)
      BY <2>2 DEF BuildContext
    <3>4. <<entries[s]>> \o kept \in Seq(Message)
      <4>1. <<entries[s]>> \in Seq(Message)
        BY <3>1
      <4> HIDE DEF kept
      <4> QED
        BY <3>2, <4>1, ConcatProperties
    <3> HIDE DEF context, kept, s, n
    <3> QED
      BY <1>3, <1>4, <3>3, <3>4, GoesOnConcat
  <2> QED
    BY <2>1, <2>2
<1>6. \A i \in 1..n : Good(entries[i]) => \E j \in (i + 1)..n : ~IsAssistant(entries[j])
  <2>1. ASSUME NEW i \in 1..n, Good(entries[i])
        PROVE  \E j \in (i + 1)..n : ~IsAssistant(entries[j])
    <3>1. CASE i \in (s + 1)..n
      <4> HIDE DEF s
      <4> QED
        BY <1>1, <1>4, <1>5, <2>1, <3>1, GoesOnSuffix
    <3>2. CASE i \notin (s + 1)..n
      <4>1. s # 0 /\ i <= s
        <5> HIDE DEF s
        <5> QED
          BY <1>1, <1>2, <3>2
      <4>2. ~IsAssistant(entries[s])
        BY <1>2, <4>1 DEF IsSummary, IsAssistant
      <4>3. i # s
        BY <2>1, <4>2 DEF Good
      <4>4. s \in (i + 1)..n
        <5> HIDE DEF s
        <5> QED
          BY <1>1, <1>2, <4>1, <4>3
      <4> QED
        BY <4>2, <4>4
    <3> QED
      BY <3>1, <3>2
  <2> QED
    BY <2>1
<1>7. first \in 1..n
  BY <1>1, CutPointsArePast
<1>8. SubSeq(entries, first, n) \in Seq(Message) /\ GoesOn(SubSeq(entries, first, n))
  <2>1. first \in 1..(n + 1) /\ \A i \in first..n : i \in 1..n
    BY <1>1, <1>7
  <2> QED
    BY <1>1, <1>6, <2>1, GoesOnSuffix
<1> DEFINE one == <<Summary(first)>>
<1>9. one \in Seq(Message) /\ Len(one) = 1 /\ \A i \in 1..Len(one) : ~Good(one[i])
  <2>1. first \in Nat
    BY <1>1, <1>7
  <2>2. Summary(first) \in Message /\ ~IsAssistant(Summary(first))
    BY <2>1, NotesAreMessages
  <2> QED
    BY <2>2 DEF Good
<1> HIDE DEF one
<1>10. GoesOn(one \o SubSeq(entries, first, n))
  BY <1>8, <1>9, GoesOnConcat
<1> QED
  BY <1>1, <1>7, <1>10, BuildContextCompacted DEF one

\* Where the loop may be about to ask for a response, the transcript goes on; so it
\* does while the last response recorded is a failed one or cut off.
OpenInv ==
    /\ LastResponse(entries).stop \in Errors \cup {"length"} => GoesOn(transcript)
    /\ At("prompts") => run.prompts # <<>> \/ GoesOn(transcript)
    /\ run.pc \in {"inject", "prepare", "repoll"} => run.pending # <<>> \/ GoesOn(transcript)
    /\ At("stream") => GoesOn(transcript)
    /\ At("batch") => /\ run.calls # <<>> /\ run.calls[1] # "skipped"
                      /\ run.calls[1] = "sent" => GoesOn(transcript)
    /\ run.pc \in {"turnEnd", "poll"} /\ run.more => GoesOn(transcript)

LEMMA OthersGoOn ==
    ASSUME SessionInv, HoldsInv, [SessionNext]_allVars, ~ObservedStep
    PROVE  /\ GoesOn(transcript) => GoesOn(transcript')
           /\ LastResponse(entries') = LastResponse(entries)
<1>1. transcript \in Seq(Message) /\ entries \in Seq(Message) /\ Grounded(entries)
  BY DEF SessionInv, TypeOK, SessionTypeOK, Grounded
<1>2. CASE UNCHANGED <<transcript, entries>>
  BY <1>2
<1>3. CASE Noted
  <2>1. PICK notes \in Seq(NoteKinds) :
           transcript' = transcript \o notes /\ entries' = entries \o notes
    BY <1>3 DEF Noted
  <2>2. LastResponse(entries \o notes) = LastResponse(entries)
    BY <1>1, NotesAtEnd
  <2>3. transcript \o notes \in Seq(Message) /\ (notes = <<>> => transcript \o notes = transcript)
    BY <1>1, NotesAreLists, ConcatProperties, ConcatEmptySeq
  <2>4. notes # <<>> => GoesOn(transcript \o notes)
    BY <1>1, <2>3, NotesAtEnd, GoesOnEnd
  <2> QED
    BY <2>1, <2>2, <2>3, <2>4
<1>4. CASE Compacted
  <2>1. PICK first \in CutPoints :
           /\ entries' = Append(entries, Summary(first))
           /\ transcript' \in {BuildContext(entries'), DropFailure(BuildContext(entries'))}
    BY <1>4 DEF Compacted
  <2>2. first \in 1..Len(entries) /\ first \in Nat
    <3>1. first \in 1..Len(entries) /\ Len(entries) \in Nat
      BY <1>1, CutPointsArePast, LenProperties
    <3> QED
      BY <3>1
  <2>3. LastResponse(Append(entries, Summary(first))) = LastResponse(entries)
    BY <1>1, <2>2, NotesAreMessages, ResponseAppended
  <2> DEFINE rebuilt == BuildContext(Append(entries, Summary(first)))
  <2>4. rebuilt \in Seq(Message) /\ rebuilt # <<>>
    <3>1. rebuilt \in Seq(Message) /\ Len(rebuilt) > 1
      BY <1>1, <2>2, BuildContextCompacted
    <3> QED
      BY <3>1, EmptySeq
  <2>5. GoesOn(transcript) => GoesOn(rebuilt)
    BY CompactionGoesOn
  <2>6. transcript' \in {rebuilt, DropFailure(rebuilt)}
    BY <2>1
  <2> HIDE DEF rebuilt
  <2>7. GoesOn(rebuilt) => GoesOn(DropFailure(rebuilt))
    BY <2>4, GoesOnEnd DEF DropFailure
  <2> QED
    BY <2>1, <2>3, <2>5, <2>6, <2>7
<1>5. CASE Dropped
  <2>1. GoesOn(transcript) => GoesOn(DropResponse(transcript))
    BY <1>1, GoesOnEnd DEF DropResponse
  <2> QED
    BY <1>5, <2>1 DEF Dropped
<1> QED
  BY <1>2, <1>3, <1>4, <1>5, HowOthersChange

\* It is enough that no place of the loop loses it.
LEMMA OpenEverywhere ==
    ASSUME GoesOn(transcript'), run'.pc # "batch"
    PROVE  OpenInv'
  BY DEF OpenInv, At, GoesOn, Good

LEMMA OthersOpen ==
    ASSUME SessionInv, HoldsInv, OpenInv, [SessionNext]_allVars, ~ObservedStep
    PROVE  OpenInv'
<1> USE DEF At
<1>1. /\ transcript \in Seq(Message) /\ run \in RunState
      /\ GoesOn(transcript) => GoesOn(transcript')
      /\ LastResponse(entries') = LastResponse(entries)
  BY OthersGoOn DEF SessionInv, TypeOK
<1> DEFINE Goes == GoesOn(transcript)
           Goes1 == GoesOn(transcript')
<1>2. /\ LastResponse(entries).stop \in Errors \cup {"length"} => Goes
      /\ run.pc = "prompts" => run.prompts # <<>> \/ Goes
      /\ run.pc \in {"inject", "prepare", "repoll"} => run.pending # <<>> \/ Goes
      /\ run.pc = "stream" => Goes
      /\ run.pc = "batch" => /\ run.calls # <<>> /\ run.calls[1] # "skipped"
                             /\ run.calls[1] = "sent" => Goes
      /\ run.pc \in {"turnEnd", "poll"} /\ run.more => Goes
  BY DEF OpenInv
<1>3. \/ ~(/\ LastResponse(entries').stop \in Errors \cup {"length"} => Goes1
           /\ run'.pc = "prompts" => run'.prompts # <<>> \/ Goes1
           /\ run'.pc \in {"inject", "prepare", "repoll"} => run'.pending # <<>> \/ Goes1
           /\ run'.pc = "stream" => Goes1
           /\ run'.pc = "batch" => /\ run'.calls # <<>> /\ run'.calls[1] # "skipped"
                                   /\ run'.calls[1] = "sent" => Goes1
           /\ run'.pc \in {"turnEnd", "poll"} /\ run'.more => Goes1)
      \/ OpenInv'
  BY DEF OpenInv, GoesOn, Good
<1>4. Goes => Goes1
  BY <1>1
<1> HIDE DEF Goes, Goes1
<1>5. CASE UNCHANGED run
  BY <1>1, <1>2, <1>3, <1>4, <1>5
<1>6. CASE SessionAbort
  <2>1. run' = [run EXCEPT !.aborted = TRUE]
    BY <1>6 DEF SessionAbort, Abort
  <2>2. /\ run'.pc = run.pc /\ run'.prompts = run.prompts /\ run'.pending = run.pending
        /\ run'.calls = run.calls /\ run'.more = run.more
    BY <1>1, <2>1 DEF RunState
  <2> QED
    BY <1>1, <1>2, <1>3, <1>4, <2>2
<1>7. CASE SessionEndTurn
  <2>1. /\ run.pc = "turnEnd" \/ run.pc = "failed"
        /\ \/ run.pc = "failed" /\ run' = [run EXCEPT !.pc = "ending"]
           \/ run.pc = "turnEnd" /\ run' = [run EXCEPT !.pc = "poll"]
    BY <1>7 DEF SessionEndTurn, EndTurn, Goto
  <2>2. \/ run'.pc = "ending"
        \/ run.pc = "turnEnd" /\ run'.pc = "poll" /\ run'.more = run.more
    BY <1>1, <2>1 DEF RunState
  <2> QED
    BY <1>1, <1>2, <1>3, <1>4, <2>2
<1>8. CASE PrepareTurn
  <2>1. /\ run.pc = "prepare"
        /\ \E context : run' = [run EXCEPT !.pc = "repoll", !.context = context]
    BY <1>8 DEF PrepareTurn, PrepareNextTurn
  <2>2. run'.pc = "repoll" /\ run'.pending = run.pending
    BY <1>1, <2>1 DEF RunState
  <2> QED
    BY <1>1, <1>2, <1>3, <1>4, <2>1, <2>2
<1>9. CASE SessionFinishRun
  <2>1. run'.pc = "idle"
    BY <1>9 DEF SessionFinishRun, FinishRun, NoRun
  <2> QED
    BY <1>1, <1>2, <1>3, <1>4, <2>1
<1>10. CASE Prompt
  <2>1. run'.pc = "prompts" /\ run'.prompts = <<Len(handed')>>
    BY <1>10 DEF Prompt, Start, NoRun
  <2>2. run'.prompts # <<>>
    BY <2>1
  <2> QED
    BY <1>1, <1>2, <1>3, <1>4, <2>1, <2>2
<1>11. CASE Continue
  <2>1. CASE ~EndsWithAssistant
    <3>1. transcript # <<>> /\ ~IsAssistant(Last(transcript)) /\ run'.pc = "prompts"
      BY <1>11, <2>1 DEF Continue, EndsWithAssistant, Start, NoRun
    <3>2. Goes
      BY <1>1, <3>1, GoesOnEnd DEF Goes
    <3> QED
      BY <1>1, <1>2, <1>3, <1>4, <3>1, <3>2
  <2>2. CASE EndsWithAssistant
    <3>1. \/ steering # <<>> /\ Start(Steered, TRUE)
          \/ followUps # <<>> /\ Start(FollowedUp, FALSE)
      BY <1>11, <2>2 DEF Continue
    <3>2. /\ steering # <<>> => Steered # <<>>
          /\ followUps # <<>> => FollowedUp # <<>>
      BY DEF Steered, FollowedUp, Drained
    <3>3. run'.pc = "prompts" /\ run'.prompts # <<>>
      BY <3>1, <3>2 DEF Start, NoRun
    <3> QED
      BY <1>1, <1>2, <1>3, <1>4, <3>3
  <2> QED
    BY <2>1, <2>2
<1>12. CASE \/ UNCHANGED allVars \/ Queue \/ RecordBashResult \/ SendCustomMessage
            \/ \E c \in Callers : \/ SessionPrompt(c) \/ RefusePrompt(c) \/ AbortRetry(c)
                                  \/ Preflight(c) \/ CompactFirst(c) \/ PostRun(c)
                                  \/ WakeUp(c) \/ Compact(c) \/ Settle(c)
  <2>1. UNCHANGED run
    BY <1>12 DEF allVars, agentVars, Queue, Steer, FollowUp, RecordBashResult,
       SendCustomMessage, AddNow, SessionPrompt, RefusePrompt, AbortRetry, Preflight,
       CompactFirst, PostRun, WakeUp, Compact, Settle, Untouched
  <2> QED
    BY <1>5, <2>1
<1>13. ASSUME NEW c \in Callers, StartRun(c) \/ ContinueRun(c)
       PROVE  Prompt \/ Continue \/ UNCHANGED run
  BY <1>13 DEF StartRun, ContinueRun, agentVars
<1> QED
  BY <1>5, <1>6, <1>7, <1>8, <1>9, <1>10, <1>11, <1>12, <1>13
     DEF SessionNext, SessionCallers, SessionSteps

LEMMA HasFirst ==
    ASSUME NEW S, NEW s \in Seq(S), s # <<>>
    PROVE  1 \in DOMAIN s
<1>1. Len(s) \in Nat \ {0} /\ DOMAIN s = 1..Len(s)
  BY EmptySeq, LenProperties
<1> QED
  BY <1>1

\* The first call of a batch is never skipped.
LEMMA FirstCall ==
    ASSUME TypeOK, BatchInv, OpenInv, CallStep \/ \E i \in 1..MaxCalls : SendResult(i)
    PROVE  /\ run.pc = "batch" /\ run'.pc = "batch"
           /\ run'.calls # <<>> /\ run'.calls[1] # "skipped"
<1> USE DEF At
<1>1. run \in RunState /\ run.calls \in Seq(Statuses)
  BY DEF TypeOK, RunState, Statuses
<1>2. TypeOK' /\ run.pc = "batch" /\ run'.pc = run.pc /\ Len(run'.calls) = Len(run.calls)
  <2>1. CASE CallStep
    <3>1. TypeOK'
      BY <2>1, BatchType DEF CallStep
    <3> QED
      BY <2>1, <3>1, CallStepSends
  <2>2. ASSUME NEW i \in 1..MaxCalls, SendResult(i)
        PROVE  TypeOK' /\ run.pc = "batch" /\ run'.pc = run.pc /\ Len(run'.calls) = Len(run.calls)
    <3>1. TypeOK'
      BY <2>2, BatchType
    <3> QED
      BY <2>2, <3>1, SendResultSends
  <2> QED
    BY <2>1, <2>2
<1>3. run.calls # <<>> /\ run.calls[1] # "skipped" /\ 1 \in DOMAIN run.calls
  <2>1. run.calls # <<>> /\ run.calls[1] # "skipped"
    BY <1>2 DEF OpenInv
  <2> QED
    BY <1>1, <2>1, HasFirst
<1>4. run'.calls # <<>>
  <2>1. Len(run.calls) # 0
    BY <1>1, <1>3, EmptySeq
  <2> QED
    BY <1>2, <2>1, EmptySeq
<1>5. ASSUME NEW i \in DOMAIN run.calls,
             NEW st \in {"started", "done", "ready", "running", "sent"},
             run'.calls = [run.calls EXCEPT ![i] = st]
      PROVE  run'.calls[1] # "skipped"
  BY <1>1, <1>3, <1>5
<1>6. CASE LaunchCalls
  <2> DEFINE ready == {i \in DOMAIN run.calls : run.calls[i] = "ready"}
             calls == [i \in DOMAIN run.calls |->
                         IF i \notin ready THEN run.calls[i]
                         ELSE IF run.aborted THEN "done" ELSE "running"]
  <2>1. run' = [run EXCEPT !.terminate = @ /\ ~run.aborted, !.calls = calls]
    BY <1>6 DEF LaunchCalls
  <2>2. calls[1] # "skipped"
    BY <1>3
  <2> HIDE DEF calls
  <2>3. run'.calls = calls
    BY <1>1, <2>1 DEF RunState
  <2> QED
    BY <1>2, <1>4, <2>2, <2>3
<1>7. ASSUME NEW i \in 1..MaxCalls, StartCall(i) \/ RefuseCall(i)
      PROVE  run'.calls[1] # "skipped"
  <2>1. i \in DOMAIN run.calls
    BY <1>7 DEF StartCall, RefuseCall, IsNext, CallIs
  <2>2. \/ run'.calls = [run.calls EXCEPT ![i] = "started"]
        \/ run'.calls = [run.calls EXCEPT ![i] = "done"]
    BY <1>1, <1>7 DEF StartCall, RefuseCall, RunState
  <2> QED
    BY <1>5, <2>1, <2>2
<1>11. ASSUME NEW i \in 1..MaxCalls, SkipCalls(i)
       PROVE  run'.calls[1] # "skipped"
  <2> DEFINE calls == [j \in DOMAIN run.calls |-> IF j >= i THEN "skipped" ELSE run.calls[j]]
  <2>1. i > 1 /\ run' = [run EXCEPT !.calls = calls]
    BY <1>11 DEF SkipCalls, GivesUp
  <2>2. calls[1] # "skipped"
    BY <1>3, <2>1
  <2> HIDE DEF calls
  <2>3. run'.calls = calls
    BY <1>1, <2>1 DEF RunState
  <2> QED
    BY <2>2, <2>3
<1>8. ASSUME NEW i \in 1..MaxCalls, PrepareCall(i)
      PROVE  run'.calls[1] # "skipped"
  <2> DEFINE st == IF run.mode = "parallel" THEN "ready" ELSE "running"
  <2>1. i \in DOMAIN run.calls
    BY <1>8 DEF PrepareCall, CallIs
  <2>2. run' = [run EXCEPT !.calls[i] = st] /\ st \in {"ready", "running"}
    BY <1>8 DEF PrepareCall
  <2> HIDE DEF st
  <2>3. run'.calls = [run.calls EXCEPT ![i] = st]
    BY <1>1, <2>2 DEF RunState
  <2> QED
    BY <1>5, <2>1, <2>2, <2>3
<1>9. ASSUME NEW i \in 1..MaxCalls, FinishCall(i)
      PROVE  run'.calls[1] # "skipped"
  <2>1. i \in DOMAIN run.calls
    BY <1>9 DEF FinishCall, CallIs
  <2>2. run'.calls = [run.calls EXCEPT ![i] = "done"]
    BY <1>1, <1>9 DEF FinishCall, RunState
  <2> QED
    BY <1>5, <2>1, <2>2
<1>10. ASSUME NEW i \in 1..MaxCalls, SendResult(i)
       PROVE  run'.calls[1] # "skipped"
  <2>1. i \in DOMAIN run.calls
    BY <1>10 DEF SendResult, CallIs
  <2>2. run'.calls = [run.calls EXCEPT ![i] = "sent"]
    BY <1>1, <1>10 DEF SendResult, RunState
  <2> QED
    BY <1>5, <2>1, <2>2
<1> QED
  BY <1>2, <1>4, <1>6, <1>7, <1>8, <1>9, <1>10, <1>11 DEF CallStep

LEMMA LoopOpens ==
    ASSUME SessionInv, OpenInv, ObservedStep
    PROVE  OpenInv'
<1> USE DEF At
<1>1. /\ transcript \in Seq(Message) /\ entries \in Seq(Message) /\ run \in RunState
      /\ TypeOK /\ BatchInv /\ responses \in Nat
  BY DEF SessionInv, TypeOK
<1>2. LoopStep /\ Observe
  BY DEF ObservedStep
<1>3. UNCHANGED transcript => UNCHANGED <<transcript, entries>>
  BY <1>2, ObserveNothing
\* Nothing is added.
<1>4. ASSUME UNCHANGED transcript, GoesOn(transcript), run'.pc # "batch"
      PROVE  OpenInv'
  BY <1>4, OpenEverywhere DEF GoesOn, Good
<1>5. ASSUME UNCHANGED transcript, run'.pc \in {"pollFollowUps", "ending"}
      PROVE  OpenInv'
  BY <1>3, <1>5 DEF OpenInv, GoesOn, Good
<1>6. ASSUME UNCHANGED transcript, run'.pc \in {"inject", "prepare"}, run'.pending # <<>>
      PROVE  OpenInv'
  BY <1>3, <1>6 DEF OpenInv, GoesOn, Good
\* A message other than a response.
<1>7. ASSUME NEW m \in Message, ~IsAssistant(m), transcript' = Append(transcript, m)
      PROVE  GoesOn(transcript')
  BY <1>1, <1>7, GoesOnMore
\* A response.
<1>8. ASSUME NEW m \in Message, IsAssistant(m), transcript' = Append(transcript, m),
             run.pc = "stream",
             run'.pc = "failed" \/ (run'.pc = "turnEnd" /\ ~run'.more)
               \/ (run'.pc = "batch" /\ run'.calls # <<>> /\ run'.calls[1] = "todo")
      PROVE  OpenInv'
  <2>1. GoesOn(transcript)
    BY <1>8 DEF OpenInv
  <2>2. ~Good(m) => GoesOn(transcript')
    BY <1>1, <1>8, <2>1, GoesOnMore
  <2>3. entries' = Append(entries, m)
    BY <1>2, <1>8, ObserveMessage
  <2>4. LastResponse(entries') = m
    BY <1>1, <1>8, <2>3, ResponseAppended
  <2>5. LastResponse(entries').stop \in Errors \cup {"length"} => GoesOn(transcript')
    BY <2>2, <2>4 DEF Good
  <2> QED
    BY <1>8, <2>5 DEF OpenInv, GoesOn, Good
<1>9. ASSUME NEW texts \in Seq(Text), texts # <<>>
      PROVE  User(Head(texts)) \in Message /\ ~IsAssistant(User(Head(texts)))
  <2>1. Head(texts) \in Text
    BY <1>9, HeadTailProperties
  <2> QED
    BY <2>1 DEF User, Message, IsAssistant
<1>10. CASE EmitPrompt
  <2>1. /\ transcript' = Append(transcript, User(Head(run.prompts))) /\ run'.pc = "prompts"
        /\ run.prompts \in Seq(Text) /\ run.prompts # <<>>
    BY <1>1, <1>10 DEF EmitPrompt, Emit, RunState
  <2> QED
    BY <1>7, <1>9, <2>1, OpenEverywhere
<1>11. CASE InjectPending
  <2>1. /\ transcript' = Append(transcript, User(Head(run.pending))) /\ run'.pc = "inject"
        /\ run.pending \in Seq(Text) /\ run.pending # <<>>
    BY <1>1, <1>11 DEF InjectPending, Emit, RunState
  <2> QED
    BY <1>7, <1>9, <2>1, OpenEverywhere
<1>12. CASE InitialPoll
  <2>1. /\ UNCHANGED transcript /\ run.pc = "prompts" /\ run.prompts = <<>> /\ run'.pc = "inject"
    BY <1>1, <1>12 DEF InitialPoll, RunState
  <2> QED
    BY <1>4, <2>1 DEF OpenInv
<1>13. CASE CallModel
  <2>1. /\ UNCHANGED transcript /\ run.pc = "inject" /\ run.pending = <<>> /\ run'.pc = "stream"
    BY <1>1, <1>13 DEF CallModel, Goto, RunState
  <2> QED
    BY <1>4, <2>1 DEF OpenInv
<1>14. CASE PollSteering
  <2>1. /\ UNCHANGED transcript /\ run.pc = "poll" /\ run'.pending = Steered
        /\ run'.pc = IF run.more \/ Steered # <<>> THEN "prepare" ELSE "pollFollowUps"
    BY <1>1, <1>14 DEF PollSteering, RunState
  <2>2. CASE Steered # <<>>
    BY <1>6, <2>1, <2>2
  <2>3. CASE Steered = <<>> /\ run.more
    BY <1>4, <2>1, <2>3 DEF OpenInv
  <2>4. CASE Steered = <<>> /\ ~run.more
    BY <1>5, <2>1, <2>4
  <2> QED
    BY <2>2, <2>3, <2>4
<1>15. CASE PollFollowUps
  <2>1. /\ UNCHANGED transcript /\ run'.pending = FollowedUp
        /\ run'.pc = IF FollowedUp # <<>> THEN "prepare" ELSE "ending"
    BY <1>1, <1>15 DEF PollFollowUps, RunState
  <2> QED
    BY <1>5, <1>6, <2>1
<1>16. CASE RepollSteering
  <2>1. UNCHANGED transcript /\ run.pc = "repoll"
    BY <1>16 DEF RepollSteering
  <2>2. CASE run.pending = <<>>
    <3>1. run'.pc = "inject"
      BY <1>1, <1>16, <2>2 DEF RepollSteering, RunState
    <3> QED
      BY <1>4, <2>1, <2>2, <3>1 DEF OpenInv
  <2>3. CASE run.pending # <<>>
    <3>1. run'.pc = "inject" /\ run'.pending = run.pending
      BY <1>1, <1>16, <2>3 DEF RepollSteering, Goto, RunState
    <3> QED
      BY <1>6, <2>1, <2>3, <3>1
  <2> QED
    BY <2>2, <2>3
<1>17. CASE RespondFailed
  <2>1. PICK stop \in Errors \cup {"aborted"} : Receive(stop, 0, [run EXCEPT !.pc = "failed"])
    BY <1>17 DEF RespondFailed
  <2> DEFINE m == Assistant(responses + 1, stop, 0)
  <2>2. run'.pc = "failed" /\ run.pc = "stream" /\ transcript' = Append(transcript, m)
    BY <1>1, <1>17, <2>1 DEF Receive, Emit, RespondFailed, RunState
  <2>3. m \in Message /\ IsAssistant(m)
    BY <1>1, AgentAssumption DEF Assistant, Message, IsAssistant
  <2> HIDE DEF m
  <2> QED
    BY <1>8, <2>2, <2>3
<1>18. CASE Respond
  <2>1. PICK stop \in {"stop", "length"} :
          Receive(stop, 0, [run EXCEPT !.pc = "turnEnd", !.more = FALSE])
    BY <1>18 DEF Respond
  <2> DEFINE m == Assistant(responses + 1, stop, 0)
  <2>2. /\ run'.pc = "turnEnd" /\ ~run'.more /\ run.pc = "stream"
        /\ transcript' = Append(transcript, m)
    BY <1>1, <1>18, <2>1 DEF Receive, Emit, Respond, RunState
  <2>3. m \in Message /\ IsAssistant(m)
    BY <1>1, AgentAssumption DEF Assistant, Message, IsAssistant
  <2> HIDE DEF m
  <2> QED
    BY <1>8, <2>2, <2>3
<1>19. CASE RespondWithCalls
  <2>1. PICK k \in 1..MaxCalls, mode \in ExecutionModes :
          Receive(IF mode = "truncated" THEN "length" ELSE "toolUse", k,
                  [run EXCEPT !.pc = "batch", !.mode = mode, !.terminate = TRUE,
                              !.calls = [i \in 1..k |-> "todo"]])
    BY <1>19 DEF RespondWithCalls
  <2> DEFINE stop == IF mode = "truncated" THEN "length" ELSE "toolUse"
             calls == [i \in 1..k |-> "todo"]
             m == Assistant(responses + 1, stop, k)
  <2>2. /\ transcript' = Append(transcript, m) /\ run.pc = "stream"
        /\ run' = [[run EXCEPT !.pc = "batch", !.mode = mode, !.terminate = TRUE,
                               !.calls = calls] EXCEPT !.context = Append(@, m)]
    BY <1>19, <2>1 DEF Receive, Emit, RespondWithCalls
  <2>3. stop \in {"length", "toolUse"} /\ k \in 0..MaxCalls /\ 1 \in 1..k
    BY AgentAssumption
  <2>4. calls # <<>> /\ calls[1] = "todo"
    <3>1. calls[1] = "todo" /\ 1 \in DOMAIN calls
      BY <2>3
    <3>2. 1 \notin DOMAIN <<>>
      OBVIOUS
    <3> HIDE DEF calls
    <3> QED
      BY <3>1, <3>2
  <2> HIDE DEF stop, calls
  <2>5. m \in Message /\ IsAssistant(m)
    BY <1>1, <2>3, AgentAssumption DEF Assistant, Message, IsAssistant
  <2> HIDE DEF m
  <2>6. run'.pc = "batch" /\ run'.calls = calls
    BY <1>1, <2>2 DEF RunState
  <2> QED
    BY <1>8, <2>2, <2>4, <2>5, <2>6
<1>20. ASSUME NEW i \in 1..MaxCalls, SendResult(i) PROVE OpenInv'
  <2>1. transcript' = Append(transcript, ToolResult(responses, i))
    BY <1>1, <1>20, SendResultSends
  <2>2. ToolResult(responses, i) \in Message /\ ~IsAssistant(ToolResult(responses, i))
    BY <1>1 DEF ToolResult, Message, IsAssistant
  <2>3. GoesOn(transcript')
    BY <1>7, <2>1, <2>2
  <2> QED
    BY <1>1, <1>20, <2>3, FirstCall DEF OpenInv, GoesOn, Good
<1>21. CASE CallStep
  <2>1. /\ run.pc = "batch" /\ run'.pc = "batch" /\ UNCHANGED transcript
        /\ run'.calls # <<>> /\ run'.calls[1] # "skipped"
    BY <1>1, <1>21, FirstCall, CallStepSends
  <2>2. run'.calls[1] = "sent" => run.calls[1] = "sent"
    <3>1. /\ Sent' = Sent /\ run'.calls \in Seq(Statuses)
      <4>1. TypeOK'
        BY <1>1, <1>21, BatchType DEF CallStep
      <4> QED
        BY <1>1, <1>21, <4>1, CallStepSends DEF TypeOK, RunState, Statuses
    <3>2. 1 \in DOMAIN run'.calls
      BY <2>1, <3>1, HasFirst
    <3> QED
      BY <3>1, <3>2 DEF Sent
  <2> QED
    BY <1>3, <2>1, <2>2 DEF OpenInv, GoesOn, Good
<1>22. CASE EndBatch
  <2>1. UNCHANGED transcript /\ run.pc = "batch" /\ run'.pc = "turnEnd"
    BY <1>1, <1>22 DEF EndBatch, RunState
  <2>2. run.calls # <<>> /\ run.calls[1] # "skipped" /\ run.calls \in Seq(Statuses)
    BY <1>1, <2>1 DEF OpenInv, RunState, Statuses
  <2>3. 1 \in DOMAIN run.calls
    BY <2>2, HasFirst
  <2>4. run.calls[1] = "sent"
    BY <1>22, <2>2, <2>3 DEF EndBatch, All
  <2> QED
    BY <1>4, <2>1, <2>4 DEF OpenInv
<1> QED
  BY <1>2, <1>10, <1>11, <1>12, <1>13, <1>14, <1>15, <1>16, <1>17, <1>18, <1>19, <1>20,
     <1>21, <1>22 DEF LoopStep, CallStep

LEMMA OpenStart == SessionInit => OpenInv
  BY DEF SessionInit, Init, NoRun, OpenInv, At, GoesOn

LEMMA HoldsStep ==
    ASSUME SessionInv, OpenInv, HoldsInv, [SessionNext]_allVars
    PROVE  HoldsInv'
<1>1. /\ transcript \in Seq(Message) /\ entries \in Seq(Message) /\ Grounded(entries)
      /\ BuildContext(entries) \in Seq(Message)
  BY BuildContextType DEF SessionInv, TypeOK, SessionTypeOK, Grounded
<1>2. CASE UNCHANGED <<transcript, entries>>
  <2>1. BuildContext(entries') = BuildContext(entries)
    BY <1>2
  <2> QED
    BY <1>2, <2>1 DEF HoldsInv, Passing
<1>3. CASE Extended
  <2>1. PICK new \in Seq(Message) : /\ NoSummaries(new)
                                    /\ transcript' = transcript \o new
                                    /\ entries' = entries \o new
    BY <1>3 DEF Extended
  <2> DEFINE context == BuildContext(entries)
  <2>2. BuildContext(entries \o new) = context \o new
    BY <1>1, <2>1, BuildContextGrows
  <2>3. BuildContext(entries') = BuildContext(entries \o new)
    BY <2>1
  <2>4. context \in Seq(Message) /\ Without(transcript, Passing) = Without(context, Passing)
    BY <1>1 DEF HoldsInv
  <2> HIDE DEF context
  <2>5. /\ Without(transcript \o new, Passing) = Without(transcript, Passing) \o Without(new, Passing)
        /\ Without(context \o new, Passing) = Without(context, Passing) \o Without(new, Passing)
    <3>1. transcript \in Seq(Message) /\ context \in Seq(Message) /\ new \in Seq(Message)
      BY <1>1, <2>4
    <3>2. Without(transcript \o new, Passing) = Without(transcript, Passing) \o Without(new, Passing)
      BY <3>1, WithoutConcat
    <3>3. Without(context \o new, Passing) = Without(context, Passing) \o Without(new, Passing)
      BY <3>1, WithoutConcat
    <3> QED
      BY <3>2, <3>3
  <2>6. Without(transcript \o new, Passing) = Without(context \o new, Passing)
    BY <2>4, <2>5
  <2>7. Without(transcript', Passing) = Without(BuildContext(entries'), Passing)
    BY <2>1, <2>2, <2>3, <2>6
  <2> QED
    BY <2>7 DEF HoldsInv, Passing
<1>4. CASE Compacted
  <2>1. PICK first \in CutPoints :
           /\ entries' = Append(entries, Summary(first))
           /\ transcript' \in {BuildContext(entries'), DropFailure(BuildContext(entries'))}
    BY <1>4 DEF Compacted
  <2>2. first \in 1..Len(entries)
    BY <1>1, CutPointsArePast
  <2> DEFINE rebuilt == BuildContext(Append(entries, Summary(first)))
  <2>3. rebuilt \in Seq(Message) /\ Len(rebuilt) > 1
    BY <1>1, <2>2, BuildContextCompacted
  <2>4. BuildContext(entries') = rebuilt
    BY <2>1
  <2> HIDE DEF rebuilt
  <2>5. rebuilt # <<>>
    BY <2>3, EmptySeq
  <2>6. Without(DropFailure(rebuilt), Passing) = Without(rebuilt, Passing)
    BY <2>3, <2>5, DropsPassing DEF DropFailure
  <2>7. transcript' = rebuilt \/ transcript' = DropFailure(rebuilt)
    BY <2>1, <2>4
  <2>8. Without(transcript', Passing) = Without(rebuilt, Passing)
    BY <2>6, <2>7
  <2> QED
    BY <2>4, <2>8 DEF HoldsInv, Passing
<1>5. CASE Dropped
  <2>1. transcript # <<>> /\ IsAssistant(Last(transcript)) =>
            Last(transcript).stop \in Errors \cup {"length"}
    <3>1. SUFFICES ASSUME transcript # <<>>, IsAssistant(Last(transcript))
                   PROVE  Last(transcript).stop \in Errors \cup {"length"}
      OBVIOUS
    <3>2. CASE MayRecover(LastResponse(transcript))
      <4>1. /\ Front(transcript) \in Seq(Message) /\ Last(transcript) \in Message
            /\ transcript = Append(Front(transcript), Last(transcript))
        BY <1>1, <3>1, FrontType
      <4>2. LastResponse(Append(Front(transcript), Last(transcript))) = Last(transcript)
        BY <3>1, <4>1, ResponseAppended
      <4>3. LastResponse(transcript) = Last(transcript)
        BY <4>1, <4>2
      <4> QED
        BY <3>2, <4>3, SessionAssumption DEF MayRecover, MustRecover
    <3>3. CASE LastResponse(entries).stop = "transient" \/ MayRecover(LastResponse(entries))
      <4>1. LastResponse(entries).stop \in Errors \cup {"length"}
        BY <3>3, SessionAssumption DEF MayRecover, MustRecover
      <4>2. ~Good(Last(transcript))
        BY <1>1, <3>1, <4>1, GoesOnEnd DEF OpenInv
      <4> QED
        BY <3>1, <4>2 DEF Good
    <3> QED
      BY <1>5, <3>2, <3>3 DEF Dropped
  <2>2. Without(DropResponse(transcript), Passing) = Without(transcript, Passing)
    BY <1>1, <2>1, DropsPassing DEF DropResponse
  <2>3. transcript' = DropResponse(transcript) /\ BuildContext(entries') = BuildContext(entries)
    BY <1>5 DEF Dropped
  <2>4. Without(transcript', Passing) = Without(BuildContext(entries'), Passing)
    BY <2>2, <2>3 DEF HoldsInv
  <2> QED
    BY <2>4 DEF HoldsInv, Passing
<1> QED
  BY <1>2, <1>3, <1>4, <1>5, HowListsChange

LEMMA HoldsStart == SessionInit => HoldsInv
<1> SUFFICES ASSUME SessionInit PROVE HoldsInv
  OBVIOUS
<1>1. transcript = <<>> /\ entries = <<>>
  BY DEF SessionInit, Init
<1>2. BuildContext(<<>>) = <<>>
  <2>1. <<>> \in Seq(Message) /\ Len(<<>>) = 0
    BY EmptySeq
  <2>2. LastSummary(<<>>) \in 0..Len(<<>>)
    BY <2>1, LastSummaryIsLast, Zenon
  <2>3. LastSummary(<<>>) = 0
    BY <2>1, <2>2
  <2> QED
    BY <2>3 DEF BuildContext
<1> QED
  BY <1>1, <1>2 DEF HoldsInv

\* Reloading the session at any moment gives the messages that the agent has, apart
\* from failed or cut-off responses, through every interleaving of turns, retries,
\* compactions, notes and prompts of several callers
\* (agent-session.ts:644-714, session-manager.ts:418-454).
THEOREM SessionAlwaysHoldsTranscript == SessionSpec => []SessionHoldsTranscript
<1>1. SessionInv /\ OpenInv /\ HoldsInv /\ [SessionNext]_allVars => OpenInv'
  BY LoopOpens, OthersOpen
<1>2. SessionInv /\ OpenInv /\ HoldsInv /\ [SessionNext]_allVars => HoldsInv'
  BY HoldsStep
<1>3. HoldsInv => SessionHoldsTranscript
  BY DEF HoldsInv, SessionHoldsTranscript, Lasting, Passing
<1> QED
  BY <1>1, <1>2, <1>3, SessionStart, OpenStart, HoldsStart, SessionInvStep,
     PTL DEF SessionSpec

(***************************************************************************)
(* With one prompt at a time, the last response of the transcript is the   *)
(* one the session judges by its entries.                                  *)
(***************************************************************************)
\* A run that has a response, or has ended and was not looked at yet.
Answering == {"batch", "turnEnd", "failed", "poll", "pollFollowUps", "prepare", "repoll", "ending"}
AfterResponse == run.pc \in Answering \/ (At("idle") /\ \E c \in Callers : phase[c] = "run")
Sleeping == \E c \in Callers : phase[c] = "sleep"

\* Then the transcript ends with the last response of the entries, if with any.
LastInv ==
    /\ AfterResponse /\ EndsWithAssistant => Last(transcript) = LastResponse(entries)
    /\ AfterResponse \/ Sleeping => LastResponse(entries).turn = responses
    /\ Sleeping => LastResponse(entries).stop = "transient"

LEMMA LoopKeepsLast ==
    ASSUME SessionInv, LastInv, IdleInv, ObservedStep
    PROVE  LastInv'
<1> USE DEF At
<1>1. transcript \in Seq(Message) /\ entries \in Seq(Message)
  BY DEF SessionInv, TypeOK
<1>2. LoopStep /\ Observe /\ UNCHANGED <<active, phase>> /\ Active
  BY LoopRuns DEF ObservedStep
<1>3. ~Sleeping /\ ~Sleeping'
  BY <1>2 DEF IdleInv, Sleeping
<1>4. ASSUME run'.pc \in {"prompts", "inject", "stream"} PROVE LastInv'
  BY <1>3, <1>4 DEF LastInv, AfterResponse, Answering
<1>5. CASE Says
  BY <1>4, <1>5 DEF Says
<1>6. CASE Moves
  <2>1. UNCHANGED <<transcript, entries, responses>>
    BY <1>2, <1>6, ObserveNothing DEF Moves
  <2>2. CASE run.pc \in Answering
    <3>1. AfterResponse
      BY <2>2 DEF AfterResponse
    <3> QED
      BY <1>3, <2>1, <3>1 DEF LastInv, EndsWithAssistant
  <2>3. CASE run.pc \notin Answering
    BY <1>4, <1>6, <2>3 DEF Moves, Answering
  <2> QED
    BY <2>2, <2>3
<1>7. ASSUME NEW stop, NEW k, Responds(stop, k) PROVE LastInv'
  <2> DEFINE m == Assistant(responses + 1, stop, k)
  <2>1. m \in Message /\ IsAssistant(m) /\ m.turn = responses + 1
    BY <1>7 DEF Responds, Assistant, IsAssistant
  <2>2. transcript' = Append(transcript, m) /\ responses' = responses + 1
    BY <1>7 DEF Responds
  <2> HIDE DEF m
  <2>3. entries' = Append(entries, m)
    BY <1>2, <2>1, <2>2, ObserveMessage
  <2>4. LastResponse(entries') = m /\ Last(transcript') = m
    BY <1>1, <2>1, <2>2, <2>3, ResponseAppended
  <2> QED
    BY <1>3, <2>1, <2>2, <2>4 DEF LastInv
<1>8. CASE Reports
  <2>1. PICK m \in Message : /\ m.role = "toolResult" /\ transcript' = Append(transcript, m)
                             /\ run.pc = "batch" /\ UNCHANGED responses
    BY <1>8 DEF Reports
  <2>2. ~IsAssistant(m) /\ AfterResponse
    BY <2>1 DEF IsAssistant, AfterResponse, Answering
  <2>3. entries' = Append(entries, m)
    BY <1>2, <2>1, ObserveMessage
  <2>4. LastResponse(entries') = LastResponse(entries) /\ Last(transcript') = m
    BY <1>1, <2>1, <2>2, <2>3, ResponseAppended
  <2> QED
    BY <1>3, <2>1, <2>2, <2>4 DEF LastInv, EndsWithAssistant
<1> QED
  BY <1>2, <1>5, <1>6, <1>7, <1>8, LoopMoves DEF SessionInv

LEMMA LastStep ==
    ASSUME OneCaller, SessionInv, IdleInv, LastInv, IdleInv', [SessionNext]_allVars
    PROVE  LastInv'
<1> USE DEF At
<1>1. transcript \in Seq(Message) /\ entries \in Seq(Message) /\ run \in RunState
  BY DEF SessionInv, TypeOK
<1>2. ASSUME ~AfterResponse', ~Sleeping' PROVE LastInv'
  BY <1>2 DEF LastInv
<1>3. ASSUME UNCHANGED <<transcript, entries, responses>>, AfterResponse' => AfterResponse,
             Sleeping' => Sleeping
      PROVE  LastInv'
  BY <1>3 DEF LastInv, EndsWithAssistant
<1>4. ASSUME UNCHANGED <<transcript, entries, responses, phase>>, run'.pc = run.pc
      PROVE  LastInv'
  BY <1>3, <1>4 DEF AfterResponse, Sleeping
<1>5. CASE UNCHANGED allVars
  BY <1>4, <1>5 DEF allVars, agentVars, sessionVars
<1>6. CASE Queue \/ SessionAbort
  BY <1>1, <1>4, <1>6 DEF Queue, SessionAbort, Steer, FollowUp, Abort, sessionVars, RunState
<1>7. CASE RecordBashResult \/ SendCustomMessage
  <2>1. CASE active
    BY <1>4, <1>7, <2>1 DEF RecordBashResult, SendCustomMessage, agentVars
  <2>2. CASE ~active
    <3>1. ~active' /\ UNCHANGED <<run, phase>>
      BY <1>7, <2>2 DEF RecordBashResult, SendCustomMessage, AddNow, Untouched
    <3>2. ~AfterResponse' /\ ~Sleeping'
      BY <3>1, SessionAssumption DEF IdleInv, BeforeRun, AfterResponse, Sleeping, Active, Answering
    <3> QED
      BY <1>2, <3>2
  <2> QED
    BY <2>1, <2>2
<1>8. CASE ObservedStep
  BY <1>8, LoopKeepsLast
<1>9. CASE SessionEndTurn
  <2>1. pendingCustom \in Seq(NoteKinds)
    BY PendingsAreNotes
  <2>2. /\ transcript' = transcript \o pendingCustom /\ entries' = entries \o pendingCustom
        /\ run.pc \in Answering /\ UNCHANGED <<phase, responses>>
    BY <1>9 DEF SessionEndTurn, EndTurn, Answering
  <2>3. AfterResponse /\ (Sleeping' <=> Sleeping)
    BY <2>2 DEF AfterResponse, Sleeping
  <2>4. LastResponse(entries') = LastResponse(entries)
    BY <1>1, <2>1, <2>2, NotesAtEnd
  <2>5. CASE pendingCustom = <<>>
    <3>1. transcript' = transcript
      BY <1>1, <2>2, <2>5, ConcatEmptySeq
    <3> QED
      BY <2>2, <2>3, <2>4, <3>1 DEF LastInv, EndsWithAssistant
  <2>6. CASE pendingCustom # <<>>
    <3>1. ~EndsWithAssistant'
      BY <1>1, <2>1, <2>2, <2>6, NotesAtEnd DEF EndsWithAssistant
    <3> QED
      BY <2>2, <2>3, <2>4, <3>1 DEF LastInv
  <2> QED
    BY <2>5, <2>6
<1>10. CASE PrepareTurn
  <2>1. run.pc = "prepare" /\ run'.pc = "repoll" /\ UNCHANGED <<phase, responses>>
    BY <1>1, <1>10 DEF PrepareTurn, PrepareNextTurn, RunState
  <2>2. AfterResponse /\ (Sleeping' <=> Sleeping)
    BY <2>1 DEF AfterResponse, Answering, Sleeping
  <2>3. CASE UNCHANGED <<transcript, entries>>
    BY <1>3, <2>1, <2>2, <2>3
  <2>4. CASE \E first \in CutPoints : CompactAt(first) /\ transcript' = BuildContext(entries')
    <3>1. PICK first \in CutPoints :
             /\ entries' = Append(entries, Summary(first)) /\ transcript' = BuildContext(entries')
      BY <2>4 DEF CompactAt
    <3>2. first \in 1..Len(entries) /\ entries # <<>>
      BY <1>1, CutPointsArePast DEF SessionInv, SessionTypeOK, Grounded
    <3>3. Last(transcript') = Last(entries)
      BY <1>1, <3>1, <3>2, BuildContextCompacted
    <3>4. Summary(first) \in Message /\ ~IsAssistant(Summary(first))
      <4>1. first \in Nat
        BY <1>1, <3>2, LenProperties
      <4> QED
        BY <4>1, NotesAreMessages DEF Summary, IsAssistant
    <3>5. LastResponse(entries') = LastResponse(entries)
      BY <1>1, <3>1, <3>4, ResponseAppended
    <3>6. IsAssistant(Last(entries)) => Last(entries) = LastResponse(entries)
      <4>1. entries = Append(Front(entries), Last(entries))
            /\ Front(entries) \in Seq(Message) /\ Last(entries) \in Message
        BY <1>1, <3>2, FrontType
      <4>2. IsAssistant(Last(entries)) =>
                LastResponse(Append(Front(entries), Last(entries))) = Last(entries)
        BY <4>1, ResponseAppended
      <4> QED
        BY <4>1, <4>2
    <3> QED
      BY <2>1, <2>2, <3>3, <3>5, <3>6 DEF LastInv, EndsWithAssistant
  <2> QED
    BY <1>10, <2>3, <2>4 DEF PrepareTurn
<1>11. CASE SessionFinishRun
  <2>1. AfterResponse
    BY <1>11 DEF SessionFinishRun, FinishRun, AfterResponse, Answering
  <2> QED
    BY <1>3, <1>11, <2>1 DEF SessionFinishRun, FinishRun, sessionVars, Sleeping
<1>12. ASSUME NEW c \in Callers,
              SessionPrompt(c) \/ RefusePrompt(c) \/ Preflight(c) \/ CompactFirst(c)
                \/ WakeUp(c) \/ AbortRetry(c) \/ Compact(c) \/ Settle(c)
       PROVE  LastInv'
  <2>1. ~Active /\ UNCHANGED run
    BY <1>12 DEF SessionPrompt, RefusePrompt, Preflight, CompactFirst, WakeUp, AbortRetry,
       Compact, Settle, IdleInv, Untouched, agentVars
  <2>2. phase'[c] \notin {"run", "sleep"}
    BY <1>12, OnePhase DEF SessionPrompt, RefusePrompt, Preflight, CompactFirst, WakeUp,
       AbortRetry, AfterRetry, Compact, Settle
  <2>3. ~AfterResponse' /\ ~Sleeping'
    BY <2>1, <2>2 DEF OneCaller, Active, AfterResponse, Answering, Sleeping
  <2> QED
    BY <1>2, <2>3
<1>13. ASSUME NEW c \in Callers, StartRun(c) \/ ContinueRun(c)
       PROVE  LastInv'
  <2>1. CASE Prompt \/ Continue
    <3>1. run'.pc = "prompts" /\ phase'[c] = "run"
      BY <1>13, <2>1, StartsLeaveLists, OnePhase DEF StartRun, ContinueRun, Prompt, Continue,
         Active, MayContinue, agentVars
    <3> QED
      BY <1>2, <3>1 DEF OneCaller, AfterResponse, Answering, Sleeping
  <2>2. CASE ~(Prompt \/ Continue)
    <3>1. phase'[c] = "settle" /\ UNCHANGED run /\ ~Active
      BY <1>13, <2>2, OnePhase DEF StartRun, ContinueRun, agentVars, IdleInv
    <3> QED
      BY <1>2, <3>1 DEF OneCaller, Active, AfterResponse, Answering, Sleeping
  <2> QED
    BY <2>1, <2>2
<1>14. ASSUME NEW c \in Callers, PostRun(c)
       PROVE  LastInv'
  <2>1. /\ phase[c] = "run" /\ ~Active /\ UNCHANGED <<run, entries, responses>>
    BY <1>14 DEF PostRun, Untouched
  <2>2. AfterResponse
    BY <2>1 DEF AfterResponse, Active
  <2>3. phase'[c] # "run"
    BY <1>14, OnePhase DEF PostRun, Retry, AfterRetry
  <2>4. ~AfterResponse'
    BY <2>1, <2>3 DEF OneCaller, Active, AfterResponse, Answering
  <2>5. Sleeping' => LastResponse(entries).stop = "transient"
    BY <1>14, OnePhase DEF PostRun, AfterRetry, Sleeping
  <2> QED
    BY <2>1, <2>2, <2>4, <2>5 DEF LastInv
<1> QED
  BY <1>5, <1>6, <1>7, <1>8, <1>9, <1>10, <1>11, <1>12, <1>13, <1>14
     DEF SessionNext, SessionCallers, SessionSteps

LEMMA LastStart == SessionInit => LastInv
  BY DEF SessionInit, Init, NoRun, LastInv, AfterResponse, Answering, Sleeping, At

(***************************************************************************)
(* Failures in a row.                                                      *)
(***************************************************************************)
\* A message that ends a row of responses with the given stop reasons.
Breaks(m, cuts, stops) ==
    \/ m.role = "user" \/ IsNote(m)
    \/ IsAssistant(m) /\ (m.stop \notin stops \/ m.turn \in cuts)

Row(s, cuts, stop, ignored) ==
    {i \in 1..Len(s) : /\ IsAssistant(s[i]) /\ s[i].stop = stop
                       /\ \A j \in i..Len(s) : ~Breaks(s[j], cuts, ignored \cup {stop})}

LEMMA RowIs ==
    ASSUME SessionInv, NEW stop, NEW ignored
    PROVE  InARow(stop, ignored) = Row(entries, cut, stop, ignored)
<1>1. DOMAIN entries = 1..Len(entries)
  BY LenProperties DEF SessionInv
<1> QED
  BY <1>1 DEF InARow, Row, Breaks

LEMMA RowAppended ==
    ASSUME NEW s \in Seq(Message), NEW m \in Message, NEW cuts, NEW stop, NEW ignored
    PROVE  /\ Breaks(m, cuts, ignored \cup {stop}) => Row(Append(s, m), cuts, stop, ignored) = {}
           /\ ~(IsAssistant(m) /\ m.stop = stop) =>
                 Row(Append(s, m), cuts, stop, ignored) \subseteq Row(s, cuts, stop, ignored)
           /\ Row(Append(s, m), cuts, stop, ignored)
                 \subseteq Row(s, cuts, stop, ignored) \cup {Len(s) + 1}
<1> DEFINE n == Len(s)
           more == Append(s, m)
           stops == ignored \cup {stop}
           old == Row(s, cuts, stop, ignored)
           new == Row(more, cuts, stop, ignored)
<1>1. /\ n \in Nat /\ Len(more) = n + 1 /\ more[n + 1] = m
      /\ \A i \in 1..n : more[i] = s[i]
  BY LenProperties, AppendProperties
<1>2. \A i : i \in old <=> /\ i \in 1..n /\ IsAssistant(s[i]) /\ s[i].stop = stop
                           /\ \A j \in i..n : ~Breaks(s[j], cuts, stops)
  BY DEF Row
<1>3. \A i : i \in new <=> /\ i \in 1..(n + 1) /\ IsAssistant(more[i]) /\ more[i].stop = stop
                           /\ \A j \in i..(n + 1) : ~Breaks(more[j], cuts, stops)
  <2>1. \A i : i \in new <=> /\ i \in 1..Len(more) /\ IsAssistant(more[i]) /\ more[i].stop = stop
                             /\ \A j \in i..Len(more) : ~Breaks(more[j], cuts, stops)
    BY DEF Row
  <2> HIDE DEF more, new
  <2> QED
    BY <1>1, <2>1
<1> HIDE DEF n, more, stops, old, new
<1>4. ASSUME NEW i \in new PROVE i \in old \/ i = n + 1
  <2>1. CASE i = n + 1
    BY <2>1
  <2>2. CASE i # n + 1
    <3>1. i \in 1..n
      BY <1>1, <1>3, <2>2
    <3>2. ASSUME NEW j \in i..n PROVE ~Breaks(s[j], cuts, stops)
      <4>1. j \in 1..n /\ j \in i..(n + 1)
        BY <1>1, <3>1
      <4> QED
        BY <1>1, <1>3, <4>1
    <3> QED
      BY <1>1, <1>2, <1>3, <3>1, <3>2
  <2> QED
    BY <2>1, <2>2
<1>5. ASSUME Breaks(m, cuts, stops) PROVE new = {}
  <2>1. ASSUME NEW i \in new PROVE FALSE
    <3>1. i \in 1..(n + 1)
      BY <1>3
    <3>2. n + 1 \in i..(n + 1)
      BY <1>1, <3>1
    <3> QED
      BY <1>1, <1>3, <1>5, <3>2
  <2> QED
    BY <2>1
<1>6. ASSUME ~(IsAssistant(m) /\ m.stop = stop) PROVE new \subseteq old
  BY <1>1, <1>3, <1>4, <1>6
<1> QED
  BY <1>4, <1>5, <1>6 DEF n, more, stops, old, new

\* Notes end every row.
LEMMA NotesBreak ==
    ASSUME NEW s \in Seq(Message), NEW notes \in Seq(NoteKinds), notes # <<>>,
           NEW cuts, NEW stop, NEW ignored
    PROVE  Row(s \o notes, cuts, stop, ignored) = {}
<1>1. notes \in Seq(Message) /\ \A i \in 1..Len(notes) : notes[i] \in NoteKinds
  BY NotesAreLists, ElementOfSeq
<1>2. /\ Front(notes) \in Seq(Message) /\ Last(notes) \in Message
      /\ notes = Append(Front(notes), Last(notes))
  BY <1>1, FrontType
<1>3. Last(notes) \in NoteKinds
  <2>1. Len(notes) \in 1..Len(notes)
    BY EmptySeq
  <2> QED
    BY <1>1, <2>1 DEF Last
<1>4. s \o Front(notes) \in Seq(Message)
      /\ s \o Append(Front(notes), Last(notes)) = Append(s \o Front(notes), Last(notes))
  BY <1>2, ConcatProperties, AppendAtEnd
<1>5. Breaks(Last(notes), cuts, ignored \cup {stop})
  BY <1>3 DEF Breaks, IsNote, NoteKinds
<1> DEFINE before == s \o Front(notes)
<1>6. s \o notes = Append(before, Last(notes)) /\ before \in Seq(Message)
  BY <1>2, <1>4
<1> HIDE DEF before
<1>7. Row(Append(before, Last(notes)), cuts, stop, ignored) = {}
  BY <1>2, <1>5, <1>6, RowAppended
<1> QED
  BY <1>6, <1>7

\* A response that is cut off ends the rows it is in.
LEMMA RowCut ==
    ASSUME NEW s, NEW cuts, NEW more, cuts \subseteq more, NEW stop, NEW ignored
    PROVE  Row(s, more, stop, ignored) \subseteq Row(s, cuts, stop, ignored)
  BY DEF Row, Breaks

\* A row ends with the last response.
LEMMA RowLast ==
    ASSUME NEW s \in Seq(Message), NEW cuts, NEW stop, NEW ignored,
           Row(s, cuts, stop, ignored) # {}
    PROVE  /\ LastResponse(s).stop \in ignored \cup {stop}
           /\ LastResponse(s).turn \notin cuts
<1>1. PICK i \in 1..Len(s) : /\ IsAssistant(s[i])
                             /\ \A j \in i..Len(s) : ~Breaks(s[j], cuts, ignored \cup {stop})
  BY DEF Row
<1>2. PICK p \in 1..Len(s) : /\ IsAssistant(s[p]) /\ LastResponse(s) = s[p]
                             /\ \A j \in (p + 1)..Len(s) : ~IsAssistant(s[j])
  BY <1>1, LastResponseIsLast
<1>3. p \in i..Len(s)
  <2>1. Len(s) \in Nat
    BY LenProperties
  <2>2. i \notin (p + 1)..Len(s)
    BY <1>1, <1>2
  <2> DEFINE n == Len(s)
  <2>3. n \in Nat /\ i \in 1..n /\ p \in 1..n /\ i \notin (p + 1)..n
    BY <2>1, <2>2
  <2> HIDE DEF n
  <2>4. p \in i..n
    BY <2>3
  <2> QED
    BY <2>4 DEF n
<1>4. ~Breaks(s[p], cuts, ignored \cup {stop})
  BY <1>1, <1>3
<1> QED
  BY <1>2, <1>4 DEF Breaks

LEMMA RowSize ==
    ASSUME NEW s \in Seq(Message), NEW cuts, NEW stop, NEW ignored
    PROVE  IsFiniteSet(Row(s, cuts, stop, ignored))
<1>1. Len(s) \in Int /\ 1 \in Int
  BY LenProperties
<1>2. IsFiniteSet(1..Len(s))
  BY <1>1, FS_Interval
<1>3. Row(s, cuts, stop, ignored) \in SUBSET (1..Len(s))
  BY DEF Row
<1> QED
  BY <1>2, <1>3, FS_Subset

LEMMA NotMore ==
    ASSUME NEW S, IsFiniteSet(S), NEW R
    PROVE  /\ Cardinality(S) \in Nat
           /\ R \subseteq S => IsFiniteSet(R) /\ Cardinality(R) <= Cardinality(S)
           /\ \A x : R \subseteq S \cup {x} =>
                        IsFiniteSet(R) /\ Cardinality(R) <= Cardinality(S) + 1
<1>1. Cardinality(S) \in Nat
  BY FS_CardinalityType
<1>2. ASSUME R \subseteq S PROVE IsFiniteSet(R) /\ Cardinality(R) <= Cardinality(S)
  <2>1. R \in SUBSET S
    BY <1>2
  <2> QED
    BY <2>1, FS_Subset
<1>3. ASSUME NEW x, R \subseteq S \cup {x}
      PROVE  IsFiniteSet(R) /\ Cardinality(R) <= Cardinality(S) + 1
  <2> DEFINE more == S \cup {x}
  <2>1. /\ IsFiniteSet(more)
        /\ Cardinality(more) = IF x \in S THEN Cardinality(S) ELSE Cardinality(S) + 1
    BY FS_AddElement
  <2>2. R \in SUBSET more
    BY <1>3
  <2> HIDE DEF more
  <2>3. IsFiniteSet(R) /\ Cardinality(R) <= Cardinality(more)
    BY <2>1, <2>2, FS_Subset
  <2>4. Cardinality(R) \in Nat
    BY <2>3, FS_CardinalityType
  <2> QED
    BY <1>1, <2>1, <2>3, <2>4
<1> QED
  BY <1>1, <1>2, <1>3

(***************************************************************************)
(* Recovery is bounded.  The failures in a row are accounted for by the    *)
(* attempts counted, but for one that a run has just ended with: until it  *)
(* is looked at, and as long as nothing comes after it, the counts are one *)
(* behind.                                                                 *)
(***************************************************************************)
Transients == Row(entries, cut, "transient", {})
Overflows == Row(entries, cut, "overflow", {"transient", "length"})

Accounted ==
    /\ Cardinality(Transients) <= retryAttempt
    /\ ~overflowAttempted => Overflows = {}
Blocked == EndsWithAssistant /\ entries # <<>> /\ IsAssistant(Last(entries))
OneBehind ==
    /\ Cardinality(Transients) <= retryAttempt + 1
    /\ Transients # {} => Blocked
    /\ ~overflowAttempted /\ Overflows # {} =>
          /\ LastResponse(entries).stop = "overflow"
          /\ Cardinality(Overflows) <= 1 /\ Blocked

InPhase(p) == \E c \in Callers : phase[c] = p
Serving == {"batch", "turnEnd", "poll", "pollFollowUps", "prepare", "repoll"}
Ended == run.pc \in {"failed", "ending"} \/ (At("idle") /\ InPhase("run"))

RecoveryInv ==
    /\ At("prompts") => run.prompts # <<>> \/ Accounted
    /\ run.pc \in {"inject", "stream"} => Accounted
    /\ run.pc \in Serving => Transients = {} /\ Accounted
    /\ Ended => OneBehind
    /\ InPhase("sleep") => Accounted
    /\ InPhase("recover") =>
          Transients = {} /\ overflowAttempted /\ Cardinality(Overflows) <= 1
    /\ InPhase("compact") => Accounted \/ Blocked
    /\ InPhase("continue") => Accounted \/ EndsWithAssistant

\* The rows after a step.
LEMMA RowSizes ==
    ASSUME SessionInv
    PROVE  /\ IsFiniteSet(Transients) /\ IsFiniteSet(Overflows)
           /\ Cardinality(Transients) \in Nat /\ Cardinality(Overflows) \in Nat
           /\ Cardinality({}) = 0 /\ retryAttempt \in Nat /\ retryAttempt <= MaxRetries
<1>1. IsFiniteSet(Transients) /\ IsFiniteSet(Overflows)
  BY RowSize DEF SessionInv, Transients, Overflows
<1>2. Cardinality(Transients) \in Nat /\ Cardinality(Overflows) \in Nat
  BY <1>1, FS_CardinalityType
<1>3. retryAttempt \in 0..MaxRetries /\ MaxRetries \in Nat
  BY SessionAssumption DEF SessionInv, SessionTypeOK
<1>4. Cardinality({}) = 0
  BY FS_EmptySet
<1> QED
  BY <1>1, <1>2, <1>3, <1>4

LEMMA RowsSame ==
    ASSUME UNCHANGED entries, cut \subseteq cut'
    PROVE  Transients' \subseteq Transients /\ Overflows' \subseteq Overflows
<1>1. /\ Transients' = Row(entries, cut', "transient", {})
      /\ Overflows' = Row(entries, cut', "overflow", {"transient", "length"})
  BY DEF Transients, Overflows, Row, Breaks, IsAssistant, IsNote, Bash, Custom
<1> QED
  BY <1>1, RowCut DEF Transients, Overflows

LEMMA RowsAfter ==
    ASSUME SessionInv, NEW m \in Message, entries' = Append(entries, m), cut \subseteq cut'
    PROVE  /\ m.role = "user" \/ IsNote(m) => Transients' = {} /\ Overflows' = {}
           /\ ~IsAssistant(m) => Transients' \subseteq Transients /\ Overflows' \subseteq Overflows
           /\ IsAssistant(m) =>
                 /\ m.stop # "transient" => Transients' = {}
                 /\ Transients' \subseteq Transients \cup {Len(entries) + 1}
                 /\ m.stop \notin {"overflow", "transient", "length"} => Overflows' = {}
                 /\ m.stop # "overflow" => Overflows' \subseteq Overflows
                 /\ Overflows' \subseteq Overflows \cup {Len(entries) + 1}
<1> DEFINE T == Row(entries, cut', "transient", {})
           O == Row(entries, cut', "overflow", {"transient", "length"})
           after == Append(entries, m)
<1>1. /\ Transients' = Row(after, cut', "transient", {})
      /\ Overflows' = Row(after, cut', "overflow", {"transient", "length"})
  BY DEF Transients, Overflows, Row, Breaks, IsAssistant, IsNote, Bash, Custom
<1>2. T \subseteq Transients /\ O \subseteq Overflows
  BY RowCut DEF Transients, Overflows
<1>3. entries \in Seq(Message)
  BY DEF SessionInv
<1>4. /\ Breaks(m, cut', {} \cup {"transient"}) => Transients' = {}
      /\ ~(IsAssistant(m) /\ m.stop = "transient") => Transients' \subseteq T
      /\ Transients' \subseteq T \cup {Len(entries) + 1}
  BY <1>1, <1>3, RowAppended
<1>5. /\ Breaks(m, cut', {"transient", "length"} \cup {"overflow"}) => Overflows' = {}
      /\ ~(IsAssistant(m) /\ m.stop = "overflow") => Overflows' \subseteq O
      /\ Overflows' \subseteq O \cup {Len(entries) + 1}
  BY <1>1, <1>3, RowAppended
<1> HIDE DEF T, O
<1> QED
  BY <1>2, <1>4, <1>5 DEF Breaks

\* Where the rows are empty everything is accounted for.
LEMMA EmptyRows ==
    ASSUME SessionInv, Transients = {}, Overflows = {}
    PROVE  Accounted /\ OneBehind
  BY RowSizes DEF Accounted, OneBehind

LEMMA AccountedIsBehind ==
    ASSUME SessionInv, Transients = {}, Accounted
    PROVE  OneBehind
  BY RowSizes DEF Accounted, OneBehind

\* Rows that have not grown.
LEMMA StillAccounted ==
    ASSUME SessionInv, SessionInv', Accounted, UNCHANGED recovery,
           Transients' \subseteq Transients, Overflows' \subseteq Overflows
    PROVE  Accounted' /\ (Transients = {} => Transients' = {})
<1>1. Cardinality(Transients)' <= Cardinality(Transients)
  BY RowSizes, NotMore
<1>2. Cardinality(Transients)' \in Nat /\ Cardinality(Transients) \in Nat /\ retryAttempt \in Nat
  <2>1. Cardinality(Transients') \in Nat
    BY RowSizes, NotMore
  <2> QED
    BY <2>1, RowSizes
<1> QED
  BY <1>1, <1>2 DEF Accounted, recovery

LEMMA LoopRecovers ==
    ASSUME SessionInv, SessionInv', IdleInv, RecoveryInv, ObservedStep
    PROVE  RecoveryInv'
<1> USE DEF At
<1>1. LoopStep /\ Observe /\ UNCHANGED <<active, phase>> /\ Active
  BY LoopRuns DEF ObservedStep
<1>2. \A p \in {"sleep", "recover", "compact", "continue"} : ~InPhase(p)'
  BY <1>1 DEF IdleInv, InPhase
<1>3. transcript \in Seq(Message) /\ entries \in Seq(Message)
  BY DEF SessionInv, TypeOK
<1>4. ASSUME Accounted', run'.pc \in {"prompts", "inject", "stream"} PROVE RecoveryInv'
  BY <1>2, <1>4 DEF RecoveryInv, Serving, Ended
<1>5. ASSUME Accounted', Transients' = {}, run'.pc \in Serving PROVE RecoveryInv'
  BY <1>2, <1>5 DEF RecoveryInv, Serving, Ended
<1>6. ASSUME OneBehind', run'.pc \in {"failed", "ending"} PROVE RecoveryInv'
  BY <1>2, <1>6 DEF RecoveryInv, Serving
<1>7. CASE Says
  <2>1. PICK m \in Message :
           /\ m.role = "user" /\ transcript' = Append(transcript, m)
           /\ run.pc \in {"prompts", "inject"} /\ run'.pc = run.pc
           /\ UNCHANGED <<responses, cut>>
    BY <1>7 DEF Says
  <2>2. entries' = Append(entries, m)
    BY <1>1, <2>1, ObserveMessage
  <2>3. Transients' = {} /\ Overflows' = {}
    BY <2>1, <2>2, RowsAfter
  <2>4. Accounted'
    BY <2>3, EmptyRows, RowSizes DEF Accounted, SessionInv, SessionTypeOK
  <2> QED
    BY <1>4, <2>1, <2>4
<1>8. CASE Moves
  <2>1. UNCHANGED <<transcript, entries, responses, cut>> /\ UNCHANGED recovery
    BY <1>1, <1>8, ObserveNothing DEF Moves
  <2>2. Transients' \subseteq Transients /\ Overflows' \subseteq Overflows
    BY <2>1, RowsSame
  <2>3. Accounted => Accounted' /\ (Transients = {} => Transients' = {})
    BY <2>1, <2>2, StillAccounted
  <2>4. CASE run.pc \in {"prompts", "inject"}
    <3>1. Accounted /\ run'.pc \in {"inject", "stream"}
      BY <1>8, <2>4 DEF Moves, RecoveryInv
    <3> QED
      BY <1>4, <2>3, <3>1
  <2>5. CASE run.pc \in {"batch", "poll", "pollFollowUps", "repoll"}
    <3>1. /\ Transients = {} /\ Accounted
          /\ run'.pc \in {"inject", "batch", "turnEnd", "pollFollowUps", "prepare", "ending"}
      BY <1>8, <2>5 DEF Moves, RecoveryInv, Serving
    <3>2. Transients' = {} /\ Accounted'
      BY <2>3, <3>1
    <3>3. OneBehind'
      <4>1. (SessionInv /\ Transients = {} /\ Accounted)'
        BY <3>2
      <4> QED
        BY <4>1, AccountedIsBehind, PTL
    <3> QED
      BY <1>4, <1>5, <1>6, <3>1, <3>2, <3>3 DEF Serving
  <2> QED
    BY <1>8, <2>4, <2>5 DEF Moves
<1>9. ASSUME NEW stop, NEW k, Responds(stop, k) PROVE RecoveryInv'
  <2> DEFINE m == Assistant(responses + 1, stop, k)
  <2>1. m \in Message /\ IsAssistant(m) /\ m.stop = stop /\ m.role # "user"
    BY <1>9 DEF Responds, Assistant, IsAssistant
  <2>2. /\ transcript' = Append(transcript, m) /\ cut \subseteq cut' /\ run.pc = "stream"
        /\ \/ run'.pc \in {"batch", "turnEnd"} /\ stop \in {"stop", "toolUse", "length"}
           \/ run'.pc = "failed" /\ stop \in Errors \cup {"aborted"}
    BY <1>9 DEF Responds
  <2> HIDE DEF m
  <2>3. /\ entries' = Append(entries, m)
        /\ overflowAttempted' = (overflowAttempted /\ ~(stop \notin Errors \cup {"length"}))
        /\ retryAttempt' = IF stop \notin Errors THEN 0 ELSE retryAttempt
    BY <1>1, <2>1, <2>2, ObserveMessage
  <2>4. /\ stop # "transient" => Transients' = {}
        /\ Transients' \subseteq Transients \cup {Len(entries) + 1}
        /\ stop \notin {"overflow", "transient", "length"} => Overflows' = {}
        /\ stop # "overflow" => Overflows' \subseteq Overflows
        /\ Overflows' \subseteq Overflows \cup {Len(entries) + 1}
    BY <2>1, <2>2, <2>3, RowsAfter
  <2>5. Accounted
    BY <2>2 DEF RecoveryInv
  <2>6. Errors = {"transient", "overflow"}
    BY SessionAssumption
  <2>7. CASE run'.pc \in {"batch", "turnEnd"} /\ stop \in {"stop", "toolUse", "length"}
    <3>1. Transients' = {}
      BY <2>4, <2>7
    <3>2. ~overflowAttempted' => Overflows' = {}
      BY <2>3, <2>4, <2>5, <2>6, <2>7 DEF Accounted
    <3>3. Accounted'
      <4>1. (Cardinality(Transients) <= retryAttempt)'
        <5>1. Cardinality({}) = 0 /\ (retryAttempt \in Nat)'
          BY RowSizes, PTL
        <5> QED
          BY <3>1, <5>1
      <4> QED
        BY <3>2, <4>1 DEF Accounted
    <3> QED
      BY <1>5, <2>7, <3>1, <3>3 DEF Serving
  <2>8. CASE run'.pc = "failed" /\ stop \in Errors \cup {"aborted"}
    <3>1. Blocked' /\ LastResponse(entries') = m
      BY <1>3, <2>1, <2>2, <2>3, ResponseAppended DEF Blocked, EndsWithAssistant
    <3>2. Cardinality(Transients') <= retryAttempt' + 1
      <4>1. CASE stop = "transient"
        <5>1. Cardinality(Transients') <= Cardinality(Transients) + 1
          BY <2>4, RowSizes, NotMore
        <5>2. retryAttempt' = retryAttempt /\ Cardinality(Transients) <= retryAttempt
          BY <2>3, <2>5, <2>6, <4>1 DEF Accounted
        <5>3. Cardinality(Transients') \in Nat
          BY <2>4, RowSizes, NotMore, FS_CardinalityType
        <5> QED
          BY <5>1, <5>2, <5>3, RowSizes
      <4>2. CASE stop # "transient"
        <5>1. Cardinality(Transients') = 0
          BY <2>4, <4>2, RowSizes
        <5>2. retryAttempt' \in 0..MaxRetries
          BY DEF SessionInv, SessionTypeOK
        <5>3. \A n \in 0..MaxRetries : 0 <= n + 1
          OBVIOUS
        <5>4. 0 <= retryAttempt' + 1
          BY <5>2, <5>3, Zenon
        <5> QED
          BY <5>1, <5>4, Zenon
      <4> QED
        BY <4>1, <4>2
    <3>3. ASSUME ~overflowAttempted', Overflows' # {}
          PROVE  stop = "overflow" /\ Cardinality(Overflows') <= 1
      <4>1. stop = "overflow" \/ stop = "transient"
        BY <2>4, <2>6, <2>8, <3>3
      <4>2. ~overflowAttempted
        BY <2>3, <2>6, <3>3, <4>1
      <4>3. Overflows = {}
        BY <2>5, <4>2 DEF Accounted
      <4>4. stop = "overflow"
        BY <2>4, <3>3, <4>3
      <4>5. Cardinality(Overflows') <= Cardinality(Overflows) + 1 /\ Cardinality(Overflows) = 0
        BY <2>4, <4>3, RowSizes, NotMore
      <4> QED
        BY <4>4, <4>5
    <3>4. OneBehind'
      BY <2>1, <3>1, <3>2, <3>3 DEF OneBehind
    <3> QED
      BY <1>6, <2>8, <3>4
  <2> QED
    BY <2>2, <2>7, <2>8
<1>10. CASE Reports
  <2>1. PICK m \in Message :
           /\ m.role = "toolResult" /\ transcript' = Append(transcript, m)
           /\ run.pc = "batch" /\ run'.pc = run.pc /\ UNCHANGED <<responses, cut>>
    BY <1>10 DEF Reports
  <2>2. ~IsAssistant(m) /\ m.role # "user"
    BY <2>1 DEF IsAssistant
  <2>3. entries' = Append(entries, m) /\ UNCHANGED recovery
    <3>1. overflowAttempted \in BOOLEAN
      BY DEF SessionInv, SessionTypeOK
    <3> QED
      BY <1>1, <2>1, <2>2, <3>1, ObserveMessage DEF recovery
  <2>4. Transients' \subseteq Transients /\ Overflows' \subseteq Overflows
    BY <2>1, <2>2, <2>3, RowsAfter
  <2>5. Transients = {} /\ Accounted
    BY <2>1 DEF RecoveryInv, Serving
  <2>6. Accounted' /\ Transients' = {}
    BY <2>3, <2>4, <2>5, StillAccounted
  <2> QED
    BY <1>5, <2>1, <2>6 DEF Serving
<1> QED
  BY <1>1, <1>7, <1>8, <1>9, <1>10, LoopMoves DEF SessionInv

\* A step that leaves the lists and the counts alone, though it may cut a response off.
LEMMA StillBehind ==
    ASSUME SessionInv, SessionInv', UNCHANGED <<transcript, entries, recovery>>, cut \subseteq cut'
    PROVE  /\ Accounted => Accounted'
           /\ Transients = {} => Transients' = {}
           /\ Blocked => Blocked'
           /\ EndsWithAssistant => EndsWithAssistant'
           /\ OneBehind => OneBehind'
           /\ Cardinality(Overflows)' <= Cardinality(Overflows)
<1>1. Transients' \subseteq Transients /\ Overflows' \subseteq Overflows
  BY RowsSame
<1>2. Accounted => Accounted'
  BY <1>1, StillAccounted
<1>3. (Blocked => Blocked') /\ (EndsWithAssistant => EndsWithAssistant')
  BY DEF Blocked, EndsWithAssistant
<1>4. /\ Cardinality(Transients') <= Cardinality(Transients)
      /\ Cardinality(Overflows') <= Cardinality(Overflows)
      /\ Cardinality(Transients') \in Nat /\ Cardinality(Overflows') \in Nat
      /\ Cardinality(Transients) \in Nat /\ Cardinality(Overflows) \in Nat
  BY <1>1, RowSizes, NotMore
<1>5. ASSUME OneBehind PROVE OneBehind'
  <2>1. Cardinality(Transients') <= retryAttempt + 1
    BY <1>4, <1>5, RowSizes DEF OneBehind
  <2>2. retryAttempt' = retryAttempt /\ overflowAttempted' = overflowAttempted /\ entries' = entries
    BY DEF recovery
  <2>3. Transients' # {} => Blocked'
    BY <1>1, <1>3, <1>5 DEF OneBehind
  <2>4. ASSUME ~overflowAttempted', Overflows' # {}
        PROVE  LastResponse(entries').stop = "overflow" /\ Cardinality(Overflows') <= 1 /\ Blocked'
    <3>1. ~overflowAttempted /\ Overflows # {}
      BY <1>1, <2>2, <2>4
    <3>2. LastResponse(entries).stop = "overflow" /\ Cardinality(Overflows) <= 1 /\ Blocked
      BY <1>5, <3>1 DEF OneBehind
    <3>3. Cardinality(Overflows') <= 1
      BY <1>4, <3>2
    <3> QED
      BY <1>3, <2>2, <3>2, <3>3
  <2> QED
    BY <2>1, <2>2, <2>3, <2>4 DEF OneBehind
<1> QED
  BY <1>1, <1>2, <1>3, <1>4, <1>5

LEMMA SameRecovery ==
    ASSUME SessionInv, SessionInv', RecoveryInv, UNCHANGED <<transcript, entries, recovery, phase>>,
           run'.pc = run.pc, run'.prompts = run.prompts, cut \subseteq cut'
    PROVE  RecoveryInv'
<1>1. /\ Accounted => Accounted'
      /\ Transients = {} => Transients' = {}
      /\ Blocked => Blocked'
      /\ EndsWithAssistant => EndsWithAssistant'
      /\ OneBehind => OneBehind'
      /\ Cardinality(Overflows)' <= Cardinality(Overflows)
  BY StillBehind
<1>2. \A p : InPhase(p)' = InPhase(p)
  BY DEF InPhase
<1>3. (Ended' <=> Ended) /\ overflowAttempted' = overflowAttempted
  BY <1>2 DEF Ended, At, recovery
<1>4. Cardinality(Overflows) <= 1 => Cardinality(Overflows)' <= 1
  <2>1. Cardinality(Overflows') \in Nat /\ Cardinality(Overflows) \in Nat
    <3>1. Overflows' \subseteq Overflows
      BY RowsSame
    <3> QED
      BY <3>1, RowSizes, NotMore, FS_CardinalityType
  <2> QED
    BY <1>1, <2>1
<1> QED
  BY <1>1, <1>2, <1>3, <1>4 DEF RecoveryInv, At

\* Between two runs only the phase of the prompt matters.
LEMMA PhaseRecovers ==
    ASSUME OneCaller, NEW c \in Callers, ~Active', phase'[c] # "run",
           phase'[c] = "sleep" => Accounted',
           phase'[c] = "recover" =>
              Transients' = {} /\ overflowAttempted' /\ Cardinality(Overflows)' <= 1,
           phase'[c] = "compact" => Accounted' \/ Blocked',
           phase'[c] = "continue" => Accounted' \/ EndsWithAssistant'
    PROVE  RecoveryInv'
<1>1. \A p : InPhase(p)' => phase'[c] = p
  BY DEF OneCaller, InPhase
<1>2. run'.pc = "idle"
  BY DEF Active
<1>3. ~Ended'
  BY <1>1, <1>2 DEF Ended
<1> QED
  BY <1>1, <1>2, <1>3 DEF RecoveryInv, At, Serving

\* After a run.
LEMMA PostRecovers ==
    ASSUME OneCaller, SessionInv, SessionInv', IdleInv, RecoveryInv, NEW c \in Callers, PostRun(c)
    PROVE  RecoveryInv'
<1> DEFINE m == LastResponse(entries)
<1>1. phase[c] = "run" /\ ~Active /\ UNCHANGED <<entries, cut, run>>
  BY DEF PostRun, Untouched, history
<1>2. OneBehind
  BY <1>1 DEF RecoveryInv, Ended, InPhase, Active, At
<1>3. Transients' \subseteq Transients /\ Overflows' \subseteq Overflows
  BY <1>1, RowsSame
<1>4. /\ Cardinality(Transients') <= Cardinality(Transients)
      /\ Cardinality(Overflows') <= Cardinality(Overflows)
      /\ Cardinality(Transients') \in Nat /\ Cardinality(Overflows') \in Nat
      /\ Cardinality(Transients) \in Nat /\ Cardinality(Overflows) \in Nat
      /\ Cardinality({}) = 0
  BY <1>3, RowSizes, NotMore
<1>5. ~Active'
  BY <1>1 DEF Active
<1>6. /\ Transients # {} => m.stop = "transient"
      /\ ~overflowAttempted /\ Overflows # {} => m.stop = "overflow"
  <2>1. Transients # {} => m.stop \in {} \cup {"transient"}
    BY RowLast DEF Transients, SessionInv
  <2> QED
    BY <1>2, <2>1 DEF OneBehind
<1>7. CASE m.stop = "transient" /\ retryAttempt < MaxRetries
  <2>1. retryAttempt' = retryAttempt + 1 /\ UNCHANGED overflowAttempted /\ phase'[c] = "sleep"
    BY <1>7, OnePhase DEF PostRun, Retry
  <2>2. Cardinality(Transients') <= retryAttempt'
    <3>1. Cardinality(Transients') <= retryAttempt + 1
      BY <1>2, <1>4, RowSizes DEF OneBehind
    <3> QED
      BY <2>1, <3>1
  <2>3. ~overflowAttempted' => Overflows' = {}
    BY <1>3, <1>6, <1>7, <2>1
  <2>4. Accounted'
    BY <2>2, <2>3 DEF Accounted
  <2> QED
    BY <1>5, <2>1, <2>4, PhaseRecovers
<1>8. CASE ~(m.stop = "transient" /\ retryAttempt < MaxRetries)
  <2>1. AfterRetry(c, m)
    BY <1>8 DEF PostRun
  <2>2. retryAttempt' \in 0..MaxRetries
    BY DEF SessionInv, SessionTypeOK
  <2>3. 0 <= retryAttempt'
    <3>1. \A n \in 0..MaxRetries : 0 <= n
      OBVIOUS
    <3> QED
      BY <2>2, <3>1, Zenon
  <2>4. CASE MayRecover(m) /\ overflowAttempted' = TRUE /\ phase'[c] = "recover"
    <3>1. m.stop \in {"overflow", "length"} /\ ~overflowAttempted
      BY <2>4 DEF MayRecover, MustRecover
    <3>2. Transients' = {}
      BY <1>3, <1>6, <3>1
    <3>3. Cardinality(Overflows) <= 1
      BY <1>2, <1>4, <3>1 DEF OneBehind
    <3>4. Cardinality(Overflows') <= 1
      BY <1>4, <3>3
    <3> QED
      BY <1>5, <2>4, <3>2, <3>4, PhaseRecovers
  <2>5. CASE /\ UNCHANGED <<transcript, overflowAttempted>>
             /\ phase'[c] \in {"compact", "continue", "settle"}
    <3>1. CASE Transients # {} \/ (~overflowAttempted /\ Overflows # {})
      <4>1. Blocked
        BY <1>2, <3>1 DEF OneBehind
      <4>2. Blocked' /\ EndsWithAssistant'
        BY <1>1, <2>5, <4>1 DEF Blocked, EndsWithAssistant
      <4> QED
        BY <1>5, <2>5, <4>2, PhaseRecovers
    <3>2. CASE ~(Transients # {} \/ (~overflowAttempted /\ Overflows # {}))
      <4>1. Transients' = {} /\ (~overflowAttempted' => Overflows' = {})
        BY <1>3, <2>5, <3>2
      <4>2. Cardinality(Transients') = 0
        BY <1>4, <4>1
      <4>3. Accounted'
        BY <2>3, <4>1, <4>2 DEF Accounted
      <4> QED
        BY <1>5, <2>5, <4>3, PhaseRecovers
    <3> QED
      BY <3>1, <3>2
  <2>6. \/ MayRecover(m) /\ overflowAttempted' = TRUE /\ phase'[c] = "recover"
        \/ /\ UNCHANGED <<transcript, overflowAttempted>>
           /\ phase'[c] \in {"compact", "continue", "settle"}
    BY <2>1, OnePhase DEF AfterRetry
  <2> QED
    BY <2>4, <2>5, <2>6
<1> QED
  BY <1>7, <1>8

\* A retry that is cancelled ends the row it would have continued.
LEMMA AbortRecovers ==
    ASSUME OneCaller, SessionInv, SessionInv', IdleInv, LastInv, RecoveryInv,
           NEW c \in Callers, AbortRetry(c)
    PROVE  RecoveryInv'
<1> DEFINE m == LastResponse(entries)
<1>1. /\ phase[c] = "sleep" /\ UNCHANGED <<entries, run>> /\ cut' = cut \cup {responses}
      /\ retryAttempt' = 0 /\ AfterRetry(c, m)
  BY DEF AbortRetry
<1>2. m.turn = responses /\ m.stop = "transient"
  BY <1>1 DEF LastInv, Sleeping
<1>3. ~Active'
  BY <1>1 DEF IdleInv, Active
<1>4. Transients' = {} /\ Overflows' = {}
  <2>1. entries \in Seq(Message) /\ m.turn \in cut'
    BY <1>1, <1>2 DEF SessionInv
  <2>2. /\ Transients' = Row(entries, cut', "transient", {})
        /\ Overflows' = Row(entries, cut', "overflow", {"transient", "length"})
    BY <1>1 DEF Transients, Overflows, Row, Breaks, IsAssistant, IsNote, Bash, Custom
  <2> QED
    BY <2>1, <2>2, RowLast
<1>5. Accounted'
  <2>1. Cardinality({}) = 0
    BY RowSizes
  <2> QED
    BY <1>1, <1>4, <2>1 DEF Accounted
<1>6. phase'[c] \in {"compact", "continue", "settle"}
  BY <1>1, <1>2, OnePhase DEF AfterRetry, MayRecover, MustRecover
<1> QED
  BY <1>3, <1>5, <1>6, PhaseRecovers

\* A compaction entry ends no row and is in none.
LEMMA SummaryKeepsRows ==
    ASSUME SessionInv, SessionInv', NEW first \in CutPoints, cut \subseteq cut',
           entries' = Append(entries, Summary(first))
    PROVE  /\ Transients' \subseteq Transients /\ Overflows' \subseteq Overflows
           /\ UNCHANGED recovery /\ Accounted => Accounted' /\ (Transients = {} => Transients' = {})
           /\ first \in 1..Len(entries) /\ entries # <<>> /\ entries \in Seq(Message)
<1>1. first \in 1..Len(entries) /\ entries # <<>> /\ entries \in Seq(Message)
  BY CutPointsArePast DEF SessionInv, SessionTypeOK, Grounded
<1>2. first \in Nat
  BY <1>1, LenProperties
<1>3. Summary(first) \in Message /\ ~IsAssistant(Summary(first))
  BY <1>2, NotesAreMessages
<1>4. Transients' \subseteq Transients /\ Overflows' \subseteq Overflows
  BY <1>3, RowsAfter
<1> QED
  BY <1>1, <1>4, StillAccounted

\* A run that starts begins with messages of the user or where everything is accounted for.
LEMMA StartRecovers ==
    ASSUME OneCaller, NEW c \in Callers, phase'[c] = "run", run'.pc = "prompts",
           run'.prompts # <<>> \/ Accounted'
    PROVE  RecoveryInv'
<1>1. \A p : InPhase(p)' => p = "run"
  BY DEF OneCaller, InPhase
<1>2. ~Ended'
  BY DEF Ended, At
<1> QED
  BY <1>1, <1>2 DEF RecoveryInv, At, Serving

\* What the session adds at the end of a turn ends every row.
LEMMA TurnRecovers ==
    ASSUME OneCaller, SessionInv, SessionInv', IdleInv, RecoveryInv, SessionEndTurn
    PROVE  RecoveryInv'
<1> USE DEF At
<1>1. /\ transcript' = transcript \o pendingCustom /\ entries' = entries \o pendingCustom
      /\ \/ run.pc = "failed" /\ run'.pc = "ending"
         \/ run.pc = "turnEnd" /\ run'.pc = "poll"
      /\ UNCHANGED <<cut, active, phase, recovery>>
  BY DEF SessionEndTurn, EndTurn, Goto, history, SessionInv, TypeOK, RunState
<1>2. \A p \in {"sleep", "recover", "compact", "continue"} : ~InPhase(p)'
  BY <1>1, LoopRuns DEF SessionEndTurn, IdleInv, InPhase
<1>3. transcript \in Seq(Message) /\ entries \in Seq(Message) /\ pendingCustom \in Seq(NoteKinds)
  BY PendingsAreNotes DEF SessionInv, TypeOK
<1>4. /\ Accounted /\ Transients = {} => Accounted' /\ Transients' = {}
      /\ OneBehind => OneBehind'
  <2>1. CASE pendingCustom = <<>>
    <3>1. UNCHANGED <<transcript, entries, recovery>>
      BY <1>1, <1>3, <2>1, ConcatEmptySeq
    <3> QED
      BY <1>1, <3>1, StillBehind
  <2>2. CASE pendingCustom # <<>>
    <3>1. Transients' = {} /\ Overflows' = {}
      <4>1. /\ Row(entries \o pendingCustom, cut', "transient", {}) = {}
            /\ Row(entries \o pendingCustom, cut', "overflow", {"transient", "length"}) = {}
        BY <1>3, <2>2, NotesBreak
      <4>2. /\ Transients' = Row(entries', cut', "transient", {})
            /\ Overflows' = Row(entries', cut', "overflow", {"transient", "length"})
        BY DEF Transients, Overflows, Row, Breaks, IsAssistant, IsNote, Bash, Custom
      <4> QED
        BY <1>1, <4>1, <4>2
    <3>2. (SessionInv /\ Transients = {} /\ Overflows = {})'
      BY <3>1
    <3> QED
      BY <3>1, <3>2, EmptyRows, PTL
  <2> QED
    BY <2>1, <2>2
<1>5. CASE run.pc = "failed" /\ run'.pc = "ending"
  <2>1. OneBehind
    BY <1>5 DEF RecoveryInv, Ended
  <2> QED
    BY <1>2, <1>4, <1>5, <2>1 DEF RecoveryInv, Serving
<1>6. CASE run.pc = "turnEnd" /\ run'.pc = "poll"
  <2>1. Accounted /\ Transients = {}
    BY <1>6 DEF RecoveryInv, Serving
  <2> QED
    BY <1>2, <1>4, <1>6, <2>1 DEF RecoveryInv, Serving, Ended
<1> QED
  BY <1>1, <1>5, <1>6

\* A compaction after a run.
LEMMA CompactRecovers ==
    ASSUME OneCaller, SessionInv, SessionInv', IdleInv, RecoveryInv, NEW c \in Callers, Compact(c)
    PROVE  RecoveryInv'
<1>1. /\ phase[c] \in {"recover", "compact"} /\ UNCHANGED <<run, cut>> /\ UNCHANGED recovery
  BY DEF Compact, Untouched, history
<1>2. ~Active'
  BY <1>1 DEF IdleInv, Active
<1>3. phase'[c] \in {"continue", "settle"}
  BY OnePhase DEF Compact
<1>4. ASSUME Accounted' \/ EndsWithAssistant' PROVE RecoveryInv'
  BY <1>2, <1>3, <1>4, PhaseRecovers
<1>5. ASSUME phase[c] = "recover" PROVE Accounted
  <2>1. Transients = {} /\ overflowAttempted
    BY <1>5 DEF RecoveryInv, InPhase
  <2>2. Cardinality({}) <= retryAttempt
    BY RowSizes
  <2> QED
    BY <2>1, <2>2 DEF Accounted
<1>6. phase[c] = "compact" => Accounted \/ Blocked
  BY DEF RecoveryInv, InPhase
<1>7. CASE UNCHANGED <<transcript, entries>>
  <2>1. (Accounted => Accounted') /\ (EndsWithAssistant => EndsWithAssistant')
    BY <1>1, <1>7, StillBehind
  <2> QED
    BY <1>1, <1>4, <1>5, <1>6, <2>1 DEF Blocked
<1>8. ASSUME NEW first \in CutPoints, CompactAt(first),
             phase[c] # "recover" => transcript' = BuildContext(entries')
      PROVE  RecoveryInv'
  <2>1. entries' = Append(entries, Summary(first))
    BY <1>8 DEF CompactAt
  <2>2. /\ Accounted => Accounted'
        /\ first \in 1..Len(entries) /\ entries # <<>> /\ entries \in Seq(Message)
    BY <1>1, <2>1, SummaryKeepsRows
  <2>3. CASE Accounted
    BY <1>4, <2>2, <2>3
  <2>4. CASE ~Accounted
    <3>1. transcript' = BuildContext(Append(entries, Summary(first))) /\ Blocked
      BY <1>1, <1>5, <1>6, <1>8, <2>1, <2>4
    <3>2. /\ transcript' \in Seq(Message) /\ Len(transcript') > 1
          /\ Last(transcript') = Last(entries)
      BY <2>2, <3>1, BuildContextCompacted
    <3>3. transcript' # <<>>
      BY <3>2, EmptySeq
    <3>4. EndsWithAssistant'
      BY <3>1, <3>2, <3>3 DEF EndsWithAssistant, Blocked
    <3> QED
      BY <1>4, <3>4
  <2> QED
    BY <2>3, <2>4
<1> QED
  BY <1>7, <1>8 DEF Compact

\* A continuation: with messages of the user if the transcript ends with a response.
LEMMA ContinueRecovers ==
    ASSUME OneCaller, SessionInv, SessionInv', IdleInv, RecoveryInv, NEW c \in Callers, ContinueRun(c)
    PROVE  RecoveryInv'
<1>1. phase[c] = "continue" /\ UNCHANGED <<entries, recovery>>
  BY DEF ContinueRun
<1>2. CASE GoTo(c, "settle") /\ UNCHANGED agentVars
  <2>1. phase'[c] = "settle" /\ UNCHANGED run
    BY <1>2, OnePhase DEF agentVars
  <2>2. ~Active'
    BY <1>1, <2>1 DEF IdleInv, Active
  <2> QED
    BY <2>1, <2>2, PhaseRecovers
<1>3. CASE Continue /\ GoTo(c, "run")
  <2>1. phase'[c] = "run"
    BY <1>3, OnePhase
  <2>2. UNCHANGED <<transcript, cut>> /\ run'.pc = "prompts"
    BY <1>3, StartsLeaveLists
  <2>3. CASE ~EndsWithAssistant
    <3>1. Accounted
      BY <1>1, <2>3 DEF RecoveryInv, InPhase
    <3>2. Accounted'
      BY <1>1, <2>2, <3>1, StillBehind
    <3> QED
      BY <2>1, <2>2, <3>2, StartRecovers
  <2>4. CASE EndsWithAssistant
    <3>1. \/ steering # <<>> /\ run'.prompts = Steered
          \/ followUps # <<>> /\ run'.prompts = FollowedUp
      BY <1>3, <2>4 DEF Continue, Start, NoRun
    <3>2. run'.prompts # <<>>
      BY <3>1, EmptySeq DEF Steered, FollowedUp, Drained
    <3> QED
      BY <2>1, <2>2, <3>2, StartRecovers
  <2> QED
    BY <2>3, <2>4
<1> QED
  BY <1>2, <1>3 DEF ContinueRun

LEMMA RecoveryStep ==
    ASSUME OneCaller, SessionInv, SessionInv', IdleInv, LastInv, RecoveryInv,
           [SessionNext]_allVars
    PROVE  RecoveryInv'
<1> USE DEF At
<1>1. run \in RunState /\ \A c \in Callers : Active => phase[c] = "run"
  BY DEF SessionInv, TypeOK, IdleInv
<1>2. ASSUME NEW c \in Callers, ~Active',
             phase'[c] \in BeforeRun \cup {"settle"}
      PROVE  RecoveryInv'
  BY <1>2, PhaseRecovers DEF BeforeRun
<1>3. CASE UNCHANGED allVars
  BY <1>3, SameRecovery DEF allVars, agentVars, sessionVars
<1>4. CASE Queue \/ SessionAbort
  <2>1. /\ UNCHANGED <<transcript, entries, recovery, phase>> /\ cut \subseteq cut'
        /\ run'.pc = run.pc /\ run'.prompts = run.prompts
    BY <1>1, <1>4 DEF Queue, SessionAbort, Steer, FollowUp, Abort, sessionVars, RunState
  <2> QED
    BY <2>1, SameRecovery
<1>5. CASE RecordBashResult \/ SendCustomMessage
  <2>1. CASE active
    <3>1. UNCHANGED <<transcript, entries, recovery, phase, run, cut>>
      BY <1>5, <2>1 DEF RecordBashResult, SendCustomMessage, agentVars
    <3> QED
      BY <3>1, SameRecovery
  <2>2. CASE ~active
    <3>1. PICK c \in Callers : TRUE
      BY SessionAssumption
    <3>2. ~Active' /\ phase'[c] \in BeforeRun
      BY <1>5, <2>2 DEF RecordBashResult, SendCustomMessage, AddNow, Untouched, IdleInv,
           BeforeRun, Active
    <3> QED
      BY <1>2, <3>2
  <2> QED
    BY <2>1, <2>2
<1>6. CASE ObservedStep
  BY <1>6, LoopRecovers
<1>7. CASE SessionEndTurn
  BY <1>7, TurnRecovers
<1>8. CASE PrepareTurn
  <2>1. /\ run.pc = "prepare" /\ run'.pc = "repoll" /\ UNCHANGED <<cut, phase, recovery>>
    BY <1>1, <1>8 DEF PrepareTurn, PrepareNextTurn, RunState, history
  <2>2. Accounted /\ Transients = {}
    BY <2>1 DEF RecoveryInv, Serving
  <2>3. Accounted' /\ Transients' = {}
    <3>1. CASE UNCHANGED <<transcript, entries>>
      BY <2>1, <2>2, <3>1, StillBehind
    <3>2. CASE \E first \in CutPoints : CompactAt(first)
      BY <2>1, <2>2, <3>2, SummaryKeepsRows DEF CompactAt
    <3> QED
      BY <1>8, <3>1, <3>2 DEF PrepareTurn
  <2>4. \A p \in {"sleep", "recover", "compact", "continue"} : ~InPhase(p)'
    BY <1>1, <2>1 DEF Active, InPhase
  <2> QED
    BY <2>1, <2>3, <2>4 DEF RecoveryInv, Serving, Ended
<1>9. CASE SessionFinishRun
  <2>1. /\ run.pc = "ending" /\ run'.pc = "idle"
        /\ UNCHANGED <<transcript, cut, entries, phase, recovery>>
    BY <1>9 DEF SessionFinishRun, FinishRun, NoRun, sessionVars, history
  <2>2. OneBehind'
    BY <2>1, StillBehind DEF RecoveryInv, Ended
  <2>3. \A p \in {"sleep", "recover", "compact", "continue"} : ~InPhase(p)'
    BY <1>1, <2>1 DEF Active, InPhase
  <2> QED
    BY <2>1, <2>2, <2>3 DEF RecoveryInv, Serving
<1>10. ASSUME NEW c \in Callers,
              \/ SessionPrompt(c) \/ RefusePrompt(c) \/ Preflight(c) \/ CompactFirst(c)
              \/ Settle(c)
       PROVE  RecoveryInv'
  <2>1. phase[c] # "run" /\ UNCHANGED run
    BY <1>10 DEF SessionPrompt, RefusePrompt, Preflight, CompactFirst, Settle, Untouched,
       agentVars
  <2>2. phase'[c] \in BeforeRun
    BY <1>10, OnePhase DEF SessionPrompt, RefusePrompt, Preflight, CompactFirst, Settle,
       BeforeRun
  <2> QED
    BY <1>1, <1>2, <2>1, <2>2 DEF Active
<1>11. ASSUME NEW c \in Callers, StartRun(c)
       PROVE  RecoveryInv'
  <2>1. phase[c] = "ready" /\ ~Active
    BY <1>1, <1>11 DEF StartRun
  <2>2. Prompt /\ phase'[c] = "run"
    BY <1>11, <2>1, OnePhase DEF StartRun
  <2>3. run'.pc = "prompts" /\ run'.prompts = <<Len(handed')>>
    BY <2>2 DEF Prompt, Start, NoRun
  <2>4. run'.prompts # <<>>
    BY <2>3
  <2> QED
    BY <2>2, <2>3, <2>4, StartRecovers
<1>12. ASSUME NEW c \in Callers, WakeUp(c)
       PROVE  RecoveryInv'
  <2>1. /\ phase[c] = "sleep" /\ phase'[c] = "continue" /\ UNCHANGED <<run, cut>>
        /\ UNCHANGED <<transcript, entries, recovery>>
    BY <1>12, OnePhase DEF WakeUp, agentVars
  <2>2. ~Active'
    BY <1>1, <2>1 DEF Active
  <2>3. Accounted
    BY <2>1 DEF RecoveryInv, InPhase
  <2>4. Accounted'
    BY <2>1, <2>3, StillBehind
  <2> QED
    BY <2>1, <2>2, <2>4, PhaseRecovers
<1> QED
  BY <1>3, <1>4, <1>5, <1>6, <1>7, <1>8, <1>9, <1>10, <1>11, <1>12,
     PostRecovers, AbortRecovers, CompactRecovers, ContinueRecovers
     DEF SessionNext, SessionCallers, SessionSteps

LEMMA RecoveryStart == SessionInit => RecoveryInv
  BY DEF SessionInit, Init, NoRun, RecoveryInv, Serving, Ended, InPhase, At

LEMMA RecoverySuffices ==
    ASSUME SessionInv, RecoveryInv
    PROVE  RecoveryIsBounded
<1>1. /\ InARow("transient", {}) = Transients
      /\ InARow("overflow", {"transient", "length"}) = Overflows
  BY RowIs DEF Transients, Overflows
<1>2. ASSUME NEW c \in Callers, phase[c] = "sleep"
      PROVE  Cardinality(Transients) <= MaxRetries
  <2>1. Cardinality(Transients) <= retryAttempt
    BY <1>2 DEF RecoveryInv, InPhase, Accounted
  <2> QED
    BY <2>1, RowSizes, SessionAssumption
<1>3. ASSUME NEW c \in Callers, phase[c] = "recover"
      PROVE  Cardinality(Overflows) <= 1
  BY <1>3 DEF RecoveryInv, InPhase
<1> QED
  BY <1>1, <1>2, <1>3 DEF RecoveryIsBounded

\* With one prompt in flight, the session never waits for another retry after more
\* transient failures in a row than the settings allow, and never recovers from a
\* second overflow, whatever turns, compactions and notes come between them
\* (agent-session.ts:2166, 2895).
THEOREM RecoveryAlwaysBounded ==
    ASSUME OneCaller
    PROVE  SessionSpec => []RecoveryIsBounded
<1>1. SessionInv /\ IdleInv /\ [SessionNext]_allVars => IdleInv'
  BY IdleStep
<1>2. SessionInv /\ IdleInv /\ LastInv /\ IdleInv' /\ [SessionNext]_allVars => LastInv'
  BY LastStep
<1>3. SessionInv /\ SessionInv' /\ IdleInv /\ LastInv /\ RecoveryInv /\ [SessionNext]_allVars
        => RecoveryInv'
  BY RecoveryStep
<1>4. SessionInv /\ RecoveryInv => RecoveryIsBounded
  BY RecoverySuffices
<1> QED
  BY <1>1, <1>2, <1>3, <1>4, SessionStart, IdleStart, LastStart, RecoveryStart, SessionInvStep,
     PTL DEF SessionSpec

(***************************************************************************)
(* The results of calls in the transcript and the entries.  Both lists     *)
(* need the same: they differ, but a compaction makes one from the other.  *)
(***************************************************************************)
\* No response has a number above r; results follow their responses, and only the
\* responses in a given set may lack some.
Listed(s, r, lacking) ==
    /\ \A p \in DOMAIN s : Follows(s, p)
    /\ \A p \in DOMAIN s : IsAssistant(s[p]) =>
          s[p].turn <= r /\ (s[p].turn \in lacking \/ Answered(s, p))

\* The list ends with response r, which asks for k calls, and the results of n.
Working(s, r, k, n) ==
    /\ n < Len(s) /\ IsAssistant(s[Len(s) - n])
    /\ s[Len(s) - n].turn = r /\ s[Len(s) - n].calls = k
    /\ \A i \in 1..n : s[Len(s) - n + i] = ToolResult(r, i)
    /\ \A p \in 1..Len(s) : p # Len(s) - n /\ IsAssistant(s[p]) => s[p].turn < r

LEMMA ListedMore ==
    ASSUME NEW s \in Seq(Message), NEW r \in Nat, NEW lacking, Listed(s, r, lacking),
           NEW q \in Nat, r <= q, NEW more, lacking \subseteq more
    PROVE  Listed(s, q, more)
<1>1. \A p \in DOMAIN s : IsAssistant(s[p]) => s[p].turn \in Nat
  <2>1. \A x \in Message : IsAssistant(x) => x.turn \in Nat
    BY AgentAssumption DEF Message, IsAssistant
  <2> QED
    BY <2>1, LenProperties, ElementOfSeq
<1> QED
  BY <1>1 DEF Listed

\* A message that needs no answer yet, and is none.
LEMMA ListedAppend ==
    ASSUME NEW s \in Seq(Message), NEW r \in Nat, NEW lacking, Listed(s, r, lacking),
           NEW m \in Message, m.role # "toolResult",
           IsAssistant(m) => m.turn <= r /\ (m.turn \in lacking \/ m.calls = 0)
    PROVE  Listed(Append(s, m), r, lacking)
<1> DEFINE n == Len(s)
           t == Append(s, m)
<1>1. /\ n \in Nat /\ DOMAIN s = 1..n /\ DOMAIN t = 1..(n + 1) /\ t[n + 1] = m
  <2>1. t \in Seq(Message) /\ Len(t) = n + 1 /\ t[n + 1] = m
    BY AppendProperties
  <2> HIDE DEF t
  <2> QED
    BY <2>1, LenProperties
<1>2. \A p \in DOMAIN s :
        /\ t[p] = s[p]
        /\ Follows(s, p) => Follows(t, p)
        /\ Answered(s, p) => Answered(t, p)
  BY AppendKeeps
<1> HIDE DEF t, n
<1>3. \A p \in DOMAIN t : p \in DOMAIN s \/ p = n + 1
  BY <1>1
<1>4. Follows(t, n + 1)
  BY <1>1 DEF Follows
<1>5. m.calls = 0 => Answered(t, n + 1)
  BY <1>1 DEF Answered
<1>6. \A p \in DOMAIN t : Follows(t, p)
  BY <1>2, <1>3, <1>4 DEF Listed
<1>7. ASSUME NEW p \in DOMAIN t, IsAssistant(t[p])
      PROVE  t[p].turn <= r /\ (t[p].turn \in lacking \/ Answered(t, p))
  BY <1>1, <1>2, <1>3, <1>5, <1>7 DEF Listed
<1> QED
  BY <1>6, <1>7 DEF Listed, t

LEMMA ListedNotes ==
    ASSUME NEW s \in Seq(Message), NEW r \in Nat, NEW lacking, Listed(s, r, lacking),
           NEW notes \in Seq(NoteKinds)
    PROVE  Listed(s \o notes, r, lacking)
<1> DEFINE T == {p \in Seq(Message) : Listed(s \o p, r, lacking)}
<1>1. /\ notes \in Seq(Message)
      /\ \A i \in 1..Len(notes) : ~IsAssistant(notes[i]) /\ notes[i].role # "toolResult"
  BY NotesAreLists, NotesAreMessages, ElementOfSeq
<1>2. <<>> \in T
  BY ConcatEmptySeq, EmptySeq
<1>3. ASSUME NEW p \in T, NEW m \in Message, ~IsAssistant(m), m.role # "toolResult"
      PROVE  Append(p, m) \in T
  <2>1. s \o p \in Seq(Message) /\ Append(p, m) \in Seq(Message)
        /\ s \o Append(p, m) = Append(s \o p, m)
    BY ConcatProperties, AppendProperties, AppendAtEnd
  <2>2. Listed(Append(s \o p, m), r, lacking)
    BY <1>3, <2>1, ListedAppend
  <2> QED
    BY <2>1, <2>2
<1>4. notes \in T
  <2> HIDE DEF T
  <2> QED
    BY <1>1, <1>2, <1>3, GrowsInto
<1> QED
  BY <1>4

\* Without its last message, if that is a response.
LEMMA ListedFront ==
    ASSUME NEW s \in Seq(Message), NEW r, NEW lacking, Listed(s, r, lacking),
           s # <<>>, IsAssistant(Last(s))
    PROVE  Listed(Front(s), r, lacking)
<1> DEFINE f == Front(s)
           n == Len(f)
<1>1. f \in Seq(Message) /\ Last(s) \in Message /\ s = Append(f, Last(s))
  BY FrontType
<1>2. /\ n \in Nat /\ DOMAIN f = 1..n /\ s[n + 1] = Last(s)
      /\ DOMAIN s = 1..(n + 1) /\ \A p \in 1..n : s[p] = f[p]
  <2> HIDE DEF f
  <2>1. Len(s) = n + 1 /\ s[n + 1] = Last(s) /\ \A p \in 1..n : s[p] = f[p]
    BY <1>1, AppendProperties
  <2> QED
    BY <1>1, <2>1, LenProperties
<1> HIDE DEF f, n
<1>3. ASSUME NEW p \in DOMAIN f PROVE Follows(f, p)
  <2>1. Follows(s, p) /\ p \in 1..n /\ s[p] = f[p]
    BY <1>2 DEF Listed
  <2>2. p > 1 => p - 1 \in 1..n
    BY <1>2, <2>1
  <2>3. p > 1 => s[p - 1] = f[p - 1]
    BY <1>2, <2>2
  <2> QED
    BY <2>1, <2>3 DEF Follows
<1>4. ASSUME NEW p \in DOMAIN f, IsAssistant(f[p])
      PROVE  f[p].turn <= r /\ (f[p].turn \in lacking \/ Answered(f, p))
  <2>1. p \in DOMAIN s /\ s[p] = f[p]
    BY <1>2
  <2>2. s[p].turn <= r /\ (s[p].turn \in lacking \/ Answered(s, p))
    BY <1>4, <2>1 DEF Listed
  <2>3. ASSUME Answered(s, p), NEW i \in 1..s[p].calls
        PROVE  p + i \in DOMAIN f /\ f[p + i] = ToolResult(f[p].turn, i)
    <3>1. p + i \in DOMAIN s /\ s[p + i] = ToolResult(f[p].turn, i)
      BY <2>1, <2>3 DEF Answered
    <3>2. p + i # n + 1
      BY <1>2, <3>1 DEF IsAssistant, ToolResult
    <3>3. p + i \in 1..n
      BY <1>2, <3>1, <3>2
    <3> QED
      BY <1>2, <3>1, <3>3
  <2>4. Answered(s, p) => Answered(f, p)
    BY <2>1, <2>3 DEF Answered
  <2> QED
    BY <2>1, <2>2, <2>4
<1> QED
  BY <1>3, <1>4 DEF Listed, f

\* What a compaction keeps does not begin with a result.
LEMMA ListedCompacted ==
    ASSUME NEW s \in Seq(Message), NEW r, NEW lacking, Listed(s, r, lacking),
           NEW first \in 1..Len(s), s[first].role # "toolResult"
    PROVE  Listed(BuildContext(Append(s, Summary(first))), r, lacking)
<1> DEFINE n == Len(s)
           kept == SubSeq(s, first, n)
           t == <<Summary(first)>> \o kept
<1>1. n \in Nat /\ DOMAIN s = 1..n /\ first \in 1..n /\ first \in Nat /\ Summary(first) \in Message
  <2>1. n \in Nat /\ DOMAIN s = 1..n /\ first \in Nat
    BY LenProperties
  <2> QED
    BY <2>1, NotesAreMessages
<1>2. /\ kept \in Seq(Message) /\ Len(kept) = n - first + 1
      /\ \A i \in 1..(n - first + 1) : kept[i] = s[first + i - 1]
  <2>1. \A i \in first..n : s[i] \in Message
    BY <1>1, ElementOfSeq
  <2> HIDE DEF n
  <2>2. first \in Int /\ n \in Int /\ first <= n
    BY <1>1
  <2> QED
    BY <2>1, <2>2, SubSeqProperties
<1>3. /\ <<Summary(first)>> \in Seq(Message) /\ Len(<<Summary(first)>>) = 1
      /\ <<Summary(first)>>[1] = Summary(first)
  BY <1>1
<1> DEFINE z == n - first + 2
<1>4. /\ DOMAIN t = 1..z /\ t[1] = Summary(first)
      /\ \A i \in 2..z : t[i] = kept[i - 1]
  <2> DEFINE one == <<Summary(first)>>
  <2> HIDE DEF one, kept, n
  <2>1. /\ one \o kept \in Seq(Message) /\ Len(one \o kept) = 1 + Len(kept)
        /\ \A i \in 1..(1 + Len(kept)) :
              (one \o kept)[i] = IF i <= 1 THEN one[i] ELSE kept[i - 1]
    BY <1>2, <1>3, ConcatProperties DEF one
  <2>2. 1 + Len(kept) = z /\ 1 \in 1..z /\ \A i \in 2..z : i \in 1..z /\ ~(i <= 1)
    BY <1>1, <1>2
  <2>3. DOMAIN (one \o kept) = 1..Len(one \o kept)
    BY <2>1, LenProperties
  <2> HIDE DEF z
  <2>4. (one \o kept)[1] = one[1]
    BY <2>1, <2>2
  <2>5. \A i \in 2..z : (one \o kept)[i] = kept[i - 1]
    BY <2>1, <2>2
  <2> QED
    BY <1>3, <2>1, <2>2, <2>3, <2>4, <2>5 DEF one
<1> HIDE DEF t
<1>5. ASSUME NEW i \in 2..z
      PROVE  /\ first + i - 2 \in DOMAIN s /\ t[i] = s[first + i - 2]
  <2> HIDE DEF n, kept
  <2>1. i - 1 \in 1..(n - first + 1) /\ first + (i - 1) - 1 = first + i - 2
        /\ first + i - 2 \in 1..n
    BY <1>1
  <2> QED
    BY <1>1, <1>2, <1>4, <2>1
<1>6. ~IsAssistant(t[1]) /\ t[1].role # "toolResult"
  BY <1>4 DEF Summary, IsAssistant
<1> HIDE DEF kept, n, z
<1>7. \A i \in DOMAIN t : i \in Int /\ (i = 1 \/ i \in 2..z)
  BY <1>4
<1>8. ASSUME NEW i \in DOMAIN t PROVE Follows(t, i)
  <2>1. CASE i = 1
    BY <1>6, <2>1 DEF Follows
  <2>2. CASE i \in 2..z
    <3> DEFINE p == first + i - 2
    <3>1. p \in DOMAIN s /\ t[i] = s[p] /\ Follows(s, p)
      BY <1>5, <2>2 DEF Listed
    <3>2. CASE i = 2
      <4>1. p = first
        BY <1>1, <3>2
      <4> QED
        BY <3>1, <4>1 DEF Follows
    <3>3. CASE i # 2
      <4>1. i - 1 \in 2..z /\ first + (i - 1) - 2 = p - 1 /\ i > 1
        BY <1>1, <1>7, <2>2, <3>3 DEF z
      <4>2. t[i - 1] = s[p - 1]
        BY <1>5, <4>1
      <4> HIDE DEF p
      <4> QED
        BY <3>1, <4>1, <4>2 DEF Follows
    <3> QED
      BY <3>2, <3>3
  <2> QED
    BY <1>7, <2>1, <2>2
<1>9. ASSUME NEW i \in DOMAIN t, IsAssistant(t[i])
      PROVE  t[i].turn <= r /\ (t[i].turn \in lacking \/ Answered(t, i))
  <2> DEFINE p == first + i - 2
  <2>1. i \in 2..z /\ i \in Int
    BY <1>6, <1>7, <1>9
  <2>2. p \in DOMAIN s /\ t[i] = s[p]
    BY <1>5, <2>1
  <2>3. s[p].turn <= r /\ (s[p].turn \in lacking \/ Answered(s, p))
    BY <1>9, <2>2 DEF Listed
  <2>4. ASSUME Answered(s, p), NEW j \in 1..s[p].calls
        PROVE  i + j \in DOMAIN t /\ t[i + j] = ToolResult(t[i].turn, j)
    <3>1. p + j \in DOMAIN s /\ s[p + j] = ToolResult(t[i].turn, j)
      BY <2>2, <2>4 DEF Answered
    <3>2. j \in Int /\ j >= 1
      <4>1. s[p].calls \in Nat
        <5>1. \A x \in Message : IsAssistant(x) => x.calls \in Nat
          BY AgentAssumption DEF Message, IsAssistant
        <5> QED
          BY <1>1, <1>9, <2>2, <5>1, ElementOfSeq
      <4> QED
        BY <4>1
    <3>3. i + j \in 2..z /\ first + (i + j) - 2 = p + j
      BY <1>1, <2>1, <3>1, <3>2 DEF z
    <3>4. i + j \in DOMAIN t
      BY <1>1, <1>4, <3>3 DEF z
    <3>5. t[i + j] = s[p + j]
      BY <1>5, <3>3
    <3> QED
      BY <3>1, <3>4, <3>5
  <2> HIDE DEF p
  <2>5. Answered(s, p) => Answered(t, i)
    BY <2>2, <2>4 DEF Answered
  <2> QED
    BY <2>2, <2>3, <2>5
<1>10. Listed(t, r, lacking)
  BY <1>8, <1>9 DEF Listed
<1>11. BuildContext(Append(s, Summary(first))) = t
  BY BuildContextCompacted DEF t, kept, n
<1> QED
  BY <1>10, <1>11

\* A response and its results.
LEMMA ListedResponse ==
    ASSUME NEW s \in Seq(Message), NEW r \in Nat, NEW lacking, Listed(s, r, lacking),
           NEW m \in Message, IsAssistant(m), m.turn = r + 1
    PROVE  /\ Listed(Append(s, m), r + 1, lacking \cup {r + 1})
           /\ Working(Append(s, m), r + 1, m.calls, 0)
<1> DEFINE n == Len(s)
           t == Append(s, m)
<1>1. Listed(s, r + 1, lacking \cup {r + 1})
  <2>1. r + 1 \in Nat /\ r <= r + 1 /\ lacking \subseteq lacking \cup {r + 1}
    OBVIOUS
  <2> DEFINE more == lacking \cup {r + 1}
             q == r + 1
  <2>2. q \in Nat /\ r <= q /\ lacking \subseteq more
    BY <2>1
  <2> HIDE DEF more, q
  <2>3. Listed(s, q, more)
    BY <2>2, ListedMore
  <2> QED
    BY <2>3 DEF more, q
<1>2. Listed(t, r + 1, lacking \cup {r + 1})
  <2> DEFINE more == lacking \cup {r + 1}
             q == r + 1
  <2>1. /\ q \in Nat /\ Listed(s, q, more) /\ m.role # "toolResult"
        /\ m.turn <= q /\ m.turn \in more
    BY <1>1 DEF IsAssistant
  <2> HIDE DEF more, q
  <2>2. Listed(Append(s, m), q, more)
    BY <2>1, ListedAppend
  <2> QED
    BY <2>2 DEF more, q
<1>3. /\ n \in Nat /\ Len(t) = n + 1 /\ t[n + 1] = m /\ \A p \in 1..n : t[p] = s[p]
      /\ DOMAIN s = 1..n
  BY AppendProperties, LenProperties
<1>4. \A p \in 1..n : IsAssistant(s[p]) => s[p].turn \in Nat /\ s[p].turn <= r
  <2>1. \A x \in Message : IsAssistant(x) => x.turn \in Nat
    BY AgentAssumption DEF Message, IsAssistant
  <2> QED
    BY <1>3, <2>1, ElementOfSeq DEF Listed
<1> HIDE DEF t, n
<1>5. Working(t, r + 1, m.calls, 0)
  <2>1. 0 < Len(t) /\ Len(t) - 0 = n + 1
    BY <1>3
  <2>2. ASSUME NEW p \in 1..Len(t), p # n + 1, IsAssistant(t[p])
        PROVE  t[p].turn < r + 1
    <3>1. p \in 1..n
      BY <1>3, <2>2
    <3> QED
      BY <1>3, <1>4, <2>2, <3>1
  <2> QED
    BY <1>3, <2>1, <2>2 DEF Working
<1> QED
  BY <1>2, <1>5 DEF t

LEMMA ListedResult ==
    ASSUME NEW s \in Seq(Message), NEW r \in Nat, NEW lacking, Listed(s, r, lacking),
           NEW k, NEW n \in Nat, Working(s, r, k, n), n + 1 \in 1..MaxCalls
    PROVE  /\ Listed(Append(s, ToolResult(r, n + 1)), r, lacking)
           /\ Working(Append(s, ToolResult(r, n + 1)), r, k, n + 1)
<1> DEFINE m == ToolResult(r, n + 1)
           l == Len(s)
           t == Append(s, m)
<1>1. /\ m \in Message /\ ~IsAssistant(m) /\ m.role = "toolResult"
      /\ m.turn = r /\ m.call = n + 1
  BY DEF ToolResult, Message, IsAssistant
<1>2. /\ l \in Nat /\ Len(t) = l + 1 /\ t[l + 1] = m /\ \A p \in 1..l : t[p] = s[p]
      /\ DOMAIN s = 1..l /\ DOMAIN t = 1..(l + 1)
  <2> HIDE DEF m
  <2>1. t \in Seq(Message) /\ Len(t) = l + 1 /\ t[l + 1] = m /\ \A p \in 1..l : t[p] = s[p]
    BY <1>1, AppendProperties
  <2> HIDE DEF t
  <2> QED
    BY <2>1, LenProperties
<1>3. \A p \in DOMAIN s :
        /\ Follows(s, p) => Follows(t, p)
        /\ Answered(s, p) => Answered(t, p)
  <2> HIDE DEF m
  <2> QED
    BY <1>1, AppendKeeps
<1>4. /\ n < l /\ IsAssistant(s[l - n]) /\ s[l - n].turn = r /\ s[l - n].calls = k
      /\ \A i \in 1..n : s[l - n + i] = ToolResult(r, i)
      /\ \A p \in 1..l : p # l - n /\ IsAssistant(s[p]) => s[p].turn < r
  BY DEF Working
<1> HIDE DEF t, l
<1>5. Follows(t, l + 1)
  <2>1. l + 1 > 1 /\ (l + 1) - 1 = l /\ l \in 1..l /\ t[l] = s[l]
    BY <1>2, <1>4
  <2>2. CASE n = 0
    <3>1. l - n = l /\ m.call = 1
      BY <1>1, <1>2, <2>2
    <3> HIDE DEF m
    <3> QED
      BY <1>1, <1>2, <1>4, <2>1, <3>1 DEF Follows
  <2>3. CASE n # 0
    <3>1. n \in 1..n /\ l - n + n = l /\ m.call - 1 = n
      BY <1>1, <1>2, <2>3
    <3>2. s[l] = ToolResult(r, n)
      BY <1>4, <3>1
    <3>3. ~IsAssistant(s[l])
      BY <3>2 DEF ToolResult, IsAssistant
    <3> HIDE DEF m
    <3> QED
      BY <1>1, <1>2, <2>1, <3>1, <3>2, <3>3 DEF Follows
  <2> QED
    BY <2>2, <2>3
<1> HIDE DEF m
<1>6. Listed(t, r, lacking)
  <2>1. \A p \in DOMAIN t : p \in DOMAIN s \/ p = l + 1
    BY <1>2
  <2>2. \A p \in DOMAIN t : Follows(t, p)
    BY <1>3, <1>5, <2>1 DEF Listed
  <2>3. ASSUME NEW p \in DOMAIN t, IsAssistant(t[p])
        PROVE  t[p].turn <= r /\ (t[p].turn \in lacking \/ Answered(t, p))
    <3>1. p \in DOMAIN s /\ t[p] = s[p]
      BY <1>1, <1>2, <2>1, <2>3
    <3> QED
      BY <1>3, <2>3, <3>1 DEF Listed
  <2> QED
    BY <2>2, <2>3 DEF Listed
<1>7. Working(t, r, k, n + 1)
  <2>1. n + 1 < Len(t) /\ Len(t) - (n + 1) = l - n /\ l - n \in 1..l
    BY <1>2, <1>4
  <2>2. t[l - n] = s[l - n]
    BY <1>2, <2>1
  <2>3. ASSUME NEW i \in 1..(n + 1) PROVE t[l - n + i] = ToolResult(r, i)
    <3>1. CASE i = n + 1
      <4>1. l - n + i = l + 1
        BY <1>2, <3>1
      <4> QED
        BY <1>2, <3>1, <4>1 DEF m
    <3>2. CASE i # n + 1
      <4>1. i \in 1..n /\ l - n + i \in 1..l
        BY <1>2, <1>4, <3>2
      <4> QED
        BY <1>2, <1>4, <4>1
    <3> QED
      BY <3>1, <3>2
  <2>4. ASSUME NEW p \in 1..Len(t), p # l - n, IsAssistant(t[p])
        PROVE  t[p].turn < r
    <3>1. p # l + 1
      BY <1>1, <1>2, <2>4
    <3>2. p \in 1..l
      BY <1>2, <2>4, <3>1
    <3> QED
      BY <1>2, <1>4, <2>4, <3>2
  <2> QED
    BY <1>4, <2>1, <2>2, <2>3, <2>4 DEF Working
<1> QED
  BY <1>6, <1>7 DEF t, m

\* With all its results the response lacks none.
LEMMA ListedDone ==
    ASSUME NEW s \in Seq(Message), NEW r \in Nat, NEW lacking,
           Listed(s, r, lacking \cup {r}), NEW k \in Nat, Working(s, r, k, k)
    PROVE  Listed(s, r, lacking)
<1> DEFINE l == Len(s)
<1>1. l \in Nat /\ DOMAIN s = 1..l
  BY LenProperties
<1>2. /\ k < l /\ IsAssistant(s[l - k]) /\ s[l - k].turn = r /\ s[l - k].calls = k
      /\ \A i \in 1..k : s[l - k + i] = ToolResult(r, i)
      /\ \A p \in 1..l : p # l - k /\ IsAssistant(s[p]) => s[p].turn < r
  BY DEF Working
<1> HIDE DEF l
<1>3. Answered(s, l - k)
  <2>1. \A i \in 1..k : l - k + i \in DOMAIN s
    BY <1>1, <1>2
  <2> QED
    BY <1>2, <2>1 DEF Answered
<1>4. ASSUME NEW p \in DOMAIN s, IsAssistant(s[p]), s[p].turn \notin lacking
      PROVE  Answered(s, p)
  <2>1. CASE p = l - k
    BY <1>3, <2>1
  <2>2. CASE p # l - k
    <3>1. s[p].turn < r
      BY <1>1, <1>2, <1>4, <2>2
    <3>2. s[p].turn # r
      BY <3>1
    <3> QED
      BY <1>4, <3>2 DEF Listed
  <2> QED
    BY <2>1, <2>2
<1> QED
  BY <1>4 DEF Listed

Unfinished == IF At("batch") THEN cut \cup {responses} ELSE cut

\* What holds of both lists.
ListedInv ==
    /\ Listed(transcript, responses, Unfinished) /\ Listed(entries, responses, Unfinished)
    /\ At("batch") => \A n \in 0..Len(run.calls) : Sent = 1..n =>
          /\ Working(transcript, responses, Len(run.calls), n)
          /\ Working(entries, responses, Len(run.calls), n)

LEMMA ListedAfter ==
    ASSUME NEW lacking, Listed(transcript', responses', lacking), Listed(entries', responses', lacking),
           \/ run'.pc # "batch" /\ lacking = cut'
           \/ /\ run'.pc = "batch" /\ lacking = cut' \cup {responses'}
              /\ \A n \in 0..Len(run'.calls) : Sent' = 1..n =>
                    /\ Working(transcript', responses', Len(run'.calls), n)
                    /\ Working(entries', responses', Len(run'.calls), n)
    PROVE  ListedInv'
  BY DEF ListedInv, Unfinished, Listed, Working, Follows, Answered, IsAssistant, ToolResult, At

\* Steps that leave both lists alone.
LEMMA ListsLeft ==
    ASSUME TypeOK, entries \in Seq(Message), ListedInv,
           UNCHANGED <<transcript, entries, responses>>, cut \subseteq cut',
           \/ ~At("batch") /\ run'.pc # "batch"
           \/ /\ At("batch") /\ run'.pc = "batch" /\ Sent' = Sent
              /\ Len(run'.calls) = Len(run.calls)
    PROVE  ListedInv'
<1>1. transcript \in Seq(Message) /\ entries \in Seq(Message) /\ responses \in Nat
      /\ responses <= responses
  BY DEF TypeOK
<1>2. CASE ~At("batch") /\ run'.pc # "batch"
  <2>1. Listed(transcript, responses, cut') /\ Listed(entries, responses, cut')
    BY <1>1, <1>2, ListedMore DEF ListedInv, Unfinished
  <2>2. Listed(transcript', responses', cut') /\ Listed(entries', responses', cut')
    BY <2>1
  <2> QED
    BY <1>2, <2>2, ListedAfter
<1>3. CASE At("batch") /\ run'.pc = "batch" /\ Sent' = Sent /\ Len(run'.calls) = Len(run.calls)
  <2> DEFINE lacking == cut' \cup {responses}
  <2>1. Unfinished \subseteq lacking
    BY <1>3 DEF Unfinished
  <2>2. lacking = cut' \cup {responses'}
    OBVIOUS
  <2> HIDE DEF lacking
  <2>3. Listed(transcript, responses, lacking) /\ Listed(entries, responses, lacking)
    BY <1>1, <2>1, ListedMore DEF ListedInv
  <2>4. Listed(transcript', responses', lacking) /\ Listed(entries', responses', lacking)
    BY <2>3
  <2>5. \A n \in 0..Len(run'.calls) : Sent' = 1..n =>
           /\ Working(transcript', responses', Len(run'.calls), n)
           /\ Working(entries', responses', Len(run'.calls), n)
    BY <1>3 DEF ListedInv
  <2> QED
    BY <1>3, <2>2, <2>4, <2>5, ListedAfter
<1> QED
  BY <1>2, <1>3

\* With one prompt in flight only the loop touches the lists during a batch.
LEMMA OthersAndBatch ==
    ASSUME OneCaller, SessionInv, IdleInv, [SessionNext]_allVars, ~ObservedStep
    PROVE  /\ UNCHANGED responses /\ cut \subseteq cut'
           /\ ~At("batch") => run'.pc # "batch"
           /\ At("batch") => /\ UNCHANGED <<transcript, entries>>
                             /\ run'.pc = "batch" /\ run'.calls = run.calls
<1> DEFINE Goal ==
      /\ UNCHANGED responses /\ cut \subseteq cut'
      /\ ~At("batch") => run'.pc # "batch"
      /\ At("batch") => /\ UNCHANGED <<transcript, entries>>
                        /\ run'.pc = "batch" /\ run'.calls = run.calls
<1> SUFFICES Goal
  OBVIOUS
<1> USE DEF At
<1>1. /\ run \in RunState
      /\ run.pc = "batch" => active /\ \A c \in Callers : phase[c] = "run"
  BY SessionAssumption DEF SessionInv, TypeOK, IdleInv, BeforeRun, Active
<1>2. CASE UNCHANGED allVars \/ Queue
  BY <1>2 DEF allVars, agentVars, sessionVars, Queue, Steer, FollowUp
<1>3. CASE SessionAbort
  <2>1. /\ run' = [run EXCEPT !.aborted = TRUE] /\ UNCHANGED <<transcript, entries, responses>>
        /\ cut \subseteq cut'
    BY <1>3 DEF SessionAbort, Abort, sessionVars
  <2> QED
    BY <1>1, <2>1 DEF RunState
<1>4. CASE RecordBashResult \/ SendCustomMessage
  <2>1. UNCHANGED <<run, responses, cut>>
    BY <1>4 DEF RecordBashResult, SendCustomMessage, AddNow, Untouched, agentVars, history
  <2>2. active => UNCHANGED <<transcript, entries>>
    BY <1>4 DEF RecordBashResult, SendCustomMessage, agentVars
  <2> QED
    BY <1>1, <2>1, <2>2
<1>5. CASE SessionEndTurn
  <2>1. /\ run.pc \in {"turnEnd", "failed"} /\ UNCHANGED <<responses, cut>>
        /\ \/ run' = [run EXCEPT !.pc = "ending"]
           \/ run' = [run EXCEPT !.pc = "poll"]
    BY <1>5 DEF SessionEndTurn, EndTurn, Goto, history
  <2> QED
    BY <1>1, <2>1 DEF RunState
<1>6. CASE PrepareTurn
  <2>1. /\ run.pc = "prepare" /\ UNCHANGED <<responses, cut>>
        /\ \E context : run' = [run EXCEPT !.pc = "repoll", !.context = context]
    BY <1>6 DEF PrepareTurn, PrepareNextTurn, history
  <2> QED
    BY <1>1, <2>1 DEF RunState
<1>7. CASE SessionFinishRun
  BY <1>7 DEF SessionFinishRun, FinishRun, NoRun, history
<1>8. ASSUME NEW c \in Callers,
             \/ SessionPrompt(c) \/ RefusePrompt(c) \/ Preflight(c) \/ CompactFirst(c)
             \/ WakeUp(c) \/ Compact(c) \/ Settle(c)
      PROVE  Goal
  <2>1. UNCHANGED <<run, responses, cut>>
    BY <1>8 DEF SessionPrompt, RefusePrompt, Preflight, CompactFirst, WakeUp, Compact, Settle,
         Untouched, agentVars, history
  <2>2. phase[c] # "run"
    BY <1>8 DEF SessionPrompt, RefusePrompt, Preflight, CompactFirst, WakeUp, Compact, Settle
  <2> QED
    BY <1>1, <2>1, <2>2
<1>9. ASSUME NEW c \in Callers, StartRun(c) \/ ContinueRun(c)
      PROVE  Goal
  <2>1. phase[c] # "run"
    BY <1>9 DEF StartRun, ContinueRun
  <2>2. \/ UNCHANGED <<run, responses, cut>>
        \/ UNCHANGED <<responses, cut>> /\ run'.pc = "prompts"
    BY <1>9, StartsLeaveLists DEF StartRun, ContinueRun, agentVars, history
  <2> QED
    BY <1>1, <2>1, <2>2
<1>10. ASSUME NEW c \in Callers, PostRun(c)
       PROVE  Goal
  <2>1. UNCHANGED <<run, responses, cut>> /\ run.pc = "idle"
    BY <1>10 DEF PostRun, Untouched, Active, history
  <2> QED
    BY <2>1
<1>11. ASSUME NEW c \in Callers, AbortRetry(c)
       PROVE  Goal
  <2>1. UNCHANGED <<run, responses>> /\ cut \subseteq cut' /\ phase[c] # "run"
    BY <1>11 DEF AbortRetry
  <2> QED
    BY <1>1, <2>1
<1> QED
  BY <1>2, <1>3, <1>4, <1>5, <1>6, <1>7, <1>8, <1>9, <1>10, <1>11
     DEF SessionNext, SessionCallers, SessionSteps

LEMMA OthersList ==
    ASSUME OneCaller, SessionInv, IdleInv, ListedInv, [SessionNext]_allVars, ~ObservedStep
    PROVE  ListedInv'
<1>1. /\ TypeOK /\ transcript \in Seq(Message) /\ entries \in Seq(Message) /\ Grounded(entries)
      /\ responses \in Nat
  BY DEF SessionInv, TypeOK, SessionTypeOK, Grounded
<1>2. /\ UNCHANGED responses /\ cut \subseteq cut'
      /\ ~At("batch") => run'.pc # "batch"
      /\ At("batch") => /\ UNCHANGED <<transcript, entries>>
                        /\ run'.pc = "batch" /\ run'.calls = run.calls
  BY OthersAndBatch
<1>3. CASE UNCHANGED <<transcript, entries>>
  <2>1. At("batch") => Sent' = Sent /\ Len(run'.calls) = Len(run.calls)
    BY <1>2 DEF Sent
  <2> QED
    BY <1>1, <1>2, <1>3, <2>1, ListsLeft
<1>4. ASSUME ~At("batch")
      PROVE  Listed(transcript, responses, cut') /\ Listed(entries, responses, cut')
  BY <1>1, <1>2, <1>4, ListedMore DEF ListedInv, Unfinished
<1>5. ASSUME ~At("batch"),
             Listed(transcript', responses, cut'), Listed(entries', responses, cut')
      PROVE  ListedInv'
  <2>1. Listed(transcript', responses', cut') /\ Listed(entries', responses', cut')
    BY <1>2, <1>5
  <2> QED
    BY <1>2, <1>5, <2>1, ListedAfter
<1>6. CASE ~At("batch") /\ Noted
  <2>1. PICK notes \in Seq(NoteKinds) :
           transcript' = transcript \o notes /\ entries' = entries \o notes
    BY <1>6 DEF Noted
  <2>2. Listed(transcript \o notes, responses, cut') /\ Listed(entries \o notes, responses, cut')
    BY <1>1, <1>4, <1>6, ListedNotes
  <2> QED
    BY <1>5, <1>6, <2>1, <2>2
<1>7. CASE ~At("batch") /\ Compacted
  <2>1. PICK first \in CutPoints :
           /\ entries' = Append(entries, Summary(first))
           /\ transcript' \in {BuildContext(entries'), DropFailure(BuildContext(entries'))}
    BY <1>7 DEF Compacted
  <2>2. /\ first \in 1..Len(entries) /\ first \in Nat
        /\ entries[first].role # "toolResult"
    <3>1. first \in 1..Len(entries) /\ Len(entries) \in Nat
      BY <1>1, CutPointsArePast, LenProperties
    <3>2. entries[first].role # "toolResult"
      BY DEF CutPoints
    <3> QED
      BY <3>1, <3>2
  <2>3. Summary(first) \in Message /\ ~IsAssistant(Summary(first)) /\ Summary(first).role # "toolResult"
    BY <2>2, NotesAreMessages DEF Summary
  <2>4. Listed(Append(entries, Summary(first)), responses, cut')
    BY <1>1, <1>4, <1>7, <2>3, ListedAppend
  <2> DEFINE rebuilt == BuildContext(Append(entries, Summary(first)))
  <2>5. rebuilt \in Seq(Message) /\ rebuilt # <<>>
    <3>1. rebuilt \in Seq(Message) /\ Len(rebuilt) > 1
      BY <1>1, <2>2, BuildContextCompacted
    <3> QED
      BY <3>1, EmptySeq
  <2>6. Listed(rebuilt, responses, cut')
    BY <1>1, <1>4, <1>7, <2>2, ListedCompacted
  <2>7. transcript' \in {rebuilt, DropFailure(rebuilt)}
    BY <2>1
  <2> HIDE DEF rebuilt
  <2>8. Listed(DropFailure(rebuilt), responses, cut')
    BY <2>5, <2>6, ListedFront DEF DropFailure
  <2> QED
    BY <1>5, <1>7, <2>1, <2>4, <2>6, <2>7, <2>8
<1>8. CASE ~At("batch") /\ Dropped
  <2>1. Listed(DropResponse(transcript), responses, cut')
    BY <1>1, <1>4, <1>8, ListedFront DEF DropResponse
  <2> QED
    BY <1>4, <1>5, <1>8, <2>1 DEF Dropped
<1> QED
  BY <1>2, <1>3, <1>6, <1>7, <1>8, HowOthersChange

LEMMA LoopLists ==
    ASSUME SessionInv, ListedInv, ObservedStep
    PROVE  ListedInv'
<1> USE DEF At
<1>1. /\ transcript \in Seq(Message) /\ entries \in Seq(Message) /\ run \in RunState
      /\ TypeOK /\ BatchInv /\ responses \in Nat /\ responses <= responses
  BY DEF SessionInv, TypeOK
<1>2. LoopStep /\ Observe
  BY DEF ObservedStep
<1>3. UNCHANGED transcript => UNCHANGED <<transcript, entries>>
  BY <1>2, ObserveNothing
<1>4. ASSUME NEW m \in Message, transcript' = Append(transcript, m)
      PROVE  entries' = Append(entries, m)
  BY <1>2, <1>4, ObserveMessage
<1>5. Listed(transcript, responses, Unfinished) /\ Listed(entries, responses, Unfinished)
  BY DEF ListedInv
\* A message that asks for no tool.
<1>6. ASSUME run.pc # "batch", run'.pc # "batch", cut \subseteq cut',
             NEW m \in Message, m.role # "toolResult", transcript' = Append(transcript, m),
             responses' \in Nat, responses <= responses',
             IsAssistant(m) => m.turn <= responses' /\ m.calls = 0
      PROVE  ListedInv'
  <2>1. Unfinished \subseteq cut'
    BY <1>6 DEF Unfinished
  <2>2. Listed(transcript, responses', cut') /\ Listed(entries, responses', cut')
    BY <1>1, <1>5, <1>6, <2>1, ListedMore
  <2>3. Listed(Append(transcript, m), responses', cut') /\ Listed(Append(entries, m), responses', cut')
    BY <1>1, <1>6, <2>2, ListedAppend
  <2>4. Listed(transcript', responses', cut') /\ Listed(entries', responses', cut')
    BY <1>4, <1>6, <2>3
  <2> QED
    BY <1>6, <2>4, ListedAfter
<1>7. ASSUME NEW texts \in Seq(Text), texts # <<>>
      PROVE  User(Head(texts)) \in Message /\ User(Head(texts)).role = "user"
  <2>1. Head(texts) \in Text
    BY <1>7, HeadTailProperties
  <2> QED
    BY <2>1 DEF User, Message
<1>8. CASE EmitPrompt \/ InjectPending
  <2>1. PICK texts \in Seq(Text) :
           texts # <<>> /\ transcript' = Append(transcript, User(Head(texts)))
    BY <1>1, <1>8 DEF EmitPrompt, InjectPending, Emit, RunState
  <2>2. run.pc # "batch" /\ run'.pc # "batch" /\ UNCHANGED <<responses, cut>>
    BY <1>1, <1>8 DEF EmitPrompt, InjectPending, RunState, history
  <2>3. User(Head(texts)) \in Message /\ User(Head(texts)).role = "user"
    BY <1>7, <2>1
  <2> DEFINE m == User(Head(texts))
  <2>4. m \in Message /\ m.role # "toolResult" /\ ~IsAssistant(m) /\ transcript' = Append(transcript, m)
    BY <2>1, <2>3 DEF IsAssistant
  <2> HIDE DEF m
  <2> QED
    BY <1>1, <1>6, <2>2, <2>4
<1>9. CASE InitialPoll \/ CallModel \/ PollSteering \/ PollFollowUps \/ RepollSteering
  <2>1. /\ run.pc # "batch" /\ UNCHANGED <<transcript, responses, cut>>
    BY <1>9 DEF InitialPoll, CallModel, PollSteering, PollFollowUps, RepollSteering, history
  <2>2. run'.pc # "batch"
    <3>1. CASE InitialPoll \/ CallModel \/ PollSteering \/ PollFollowUps
      BY <1>1, <3>1 DEF InitialPoll, CallModel, PollSteering, PollFollowUps, Goto, RunState
    <3>2. CASE RepollSteering
      <4>1. \/ run' = [run EXCEPT !.pc = "inject", !.pending = Steered]
            \/ run' = [run EXCEPT !.pc = "inject"]
        BY <3>2, Zenon DEF RepollSteering, Goto
      <4> QED
        BY <1>1, <4>1 DEF RunState
    <3> QED
      BY <1>9, <3>1, <3>2
  <2> QED
    BY <1>1, <1>3, <2>1, <2>2, ListsLeft
<1>10. CASE Respond \/ RespondFailed
  <2>1. PICK stop \in Errors \cup {"stop", "length", "aborted"} :
          transcript' = Append(transcript, Assistant(responses + 1, stop, 0))
    BY <1>10 DEF Respond, RespondFailed, Receive, Emit
  <2>2. run.pc = "stream" /\ run'.pc # "batch"
    <3>1. CASE Respond
      BY <1>1, <3>1 DEF Respond, Receive, RunState
    <3>2. CASE RespondFailed
      BY <1>1, <3>2 DEF RespondFailed, Receive, RunState
    <3> QED
      BY <1>10, <3>1, <3>2
  <2>3. responses' = responses + 1 /\ cut \subseteq cut'
    BY <1>10 DEF Respond, RespondFailed, Receive
  <2> DEFINE m == Assistant(responses + 1, stop, 0)
  <2>4. /\ m \in Message /\ m.role = "assistant" /\ m.turn = responses' /\ m.calls = 0
        /\ responses' \in Nat /\ responses <= responses' /\ responses' <= responses'
    BY <1>1, <2>3, AgentAssumption DEF Assistant, Message
  <2> HIDE DEF m
  <2> QED
    BY <1>6, <2>1, <2>2, <2>3, <2>4 DEF m
<1>11. CASE RespondWithCalls
  <2>1. PICK k \in 1..MaxCalls, mode \in ExecutionModes :
          Receive(IF mode = "truncated" THEN "length" ELSE "toolUse", k,
                  [run EXCEPT !.pc = "batch", !.mode = mode, !.terminate = TRUE,
                              !.calls = [i \in 1..k |-> "todo"]])
    BY <1>11 DEF RespondWithCalls
  <2> DEFINE stop == IF mode = "truncated" THEN "length" ELSE "toolUse"
             calls == [i \in 1..k |-> "todo"]
             m == Assistant(responses + 1, stop, k)
  <2>2. /\ transcript' = Append(transcript, m) /\ run.pc = "stream"
        /\ responses' = responses + 1 /\ cut \subseteq cut'
        /\ run' = [[run EXCEPT !.pc = "batch", !.mode = mode, !.terminate = TRUE,
                               !.calls = calls] EXCEPT !.context = Append(@, m)]
    BY <1>11, <2>1 DEF Receive, Emit, RespondWithCalls
  <2>3. stop \in {"length", "toolUse"} /\ k \in 0..MaxCalls /\ k \in Nat /\ k >= 1
    BY AgentAssumption
  <2>4. Len(calls) = k /\ {i \in DOMAIN calls : calls[i] = "sent"} = {}
    <3>1. calls \in [1..k -> {"todo"}]
      OBVIOUS
    <3>2. calls \in Seq({"todo"}) /\ Len(calls) = k
      <4> HIDE DEF calls
      <4> QED
        BY <2>3, <3>1, FunctionIsSeq
    <3> QED
      BY <3>2
  <2> HIDE DEF stop, calls
  <2>5. m \in Message /\ IsAssistant(m) /\ m.turn = responses + 1 /\ m.calls = k
    BY <1>1, <2>3, AgentAssumption DEF Assistant, Message, IsAssistant
  <2> HIDE DEF m
  <2>6. run'.pc = "batch" /\ run'.calls = calls
    BY <1>1, <2>2 DEF RunState
  <2>7. Sent' = {} /\ Len(run'.calls) = k
    BY <2>4, <2>6 DEF Sent
  <2> DEFINE lacking == cut' \cup {responses'}
  <2>8. /\ Listed(transcript', responses', lacking) /\ Listed(entries', responses', lacking)
        /\ Working(transcript', responses', k, 0) /\ Working(entries', responses', k, 0)
    <3>1. entries' = Append(entries, m)
      BY <1>4, <2>2, <2>5
    <3>2. /\ Listed(Append(transcript, m), responses + 1, Unfinished \cup {responses + 1})
          /\ Working(Append(transcript, m), responses + 1, k, 0)
      BY <1>1, <1>5, <2>5, ListedResponse
    <3>3. /\ Listed(Append(entries, m), responses + 1, Unfinished \cup {responses + 1})
          /\ Working(Append(entries, m), responses + 1, k, 0)
      BY <1>1, <1>5, <2>5, ListedResponse
    <3> DEFINE before == Unfinished \cup {responses + 1}
    <3>4. before \subseteq lacking
      BY <2>2 DEF Unfinished
    <3>5. /\ responses' \in Nat /\ responses' <= responses'
          /\ transcript' \in Seq(Message) /\ entries' \in Seq(Message)
      BY <1>1, <2>2, <2>5, <3>1, AppendProperties
    <3>6. /\ Listed(transcript', responses', before) /\ Listed(entries', responses', before)
          /\ Working(transcript', responses', k, 0) /\ Working(entries', responses', k, 0)
      BY <2>2, <3>1, <3>2, <3>3
    <3> HIDE DEF lacking, before
    <3> QED
      BY <3>4, <3>5, <3>6, ListedMore
  <2>9. ASSUME NEW n \in 0..Len(run'.calls), Sent' = 1..n
        PROVE  n = 0
    BY <2>3, <2>7, <2>9
  <2>10. \A n \in 0..Len(run'.calls) : Sent' = 1..n =>
           /\ Working(transcript', responses', Len(run'.calls), n)
           /\ Working(entries', responses', Len(run'.calls), n)
    BY <2>7, <2>8, <2>9
  <2>11. lacking = cut' \cup {responses'}
    OBVIOUS
  <2> HIDE DEF lacking
  <2> QED
    BY <2>6, <2>8, <2>10, <2>11, ListedAfter
<1>12. ASSUME NEW i \in 1..MaxCalls, SendResult(i) PROVE ListedInv'
  <2>1. /\ run.pc = "batch" /\ i \in 1..Len(run.calls) /\ Len(run'.calls) = Len(run.calls)
        /\ Sent = 1..(i - 1) /\ Sent' = 1..i /\ run'.pc = "batch"
        /\ transcript' = Append(transcript, ToolResult(responses, i))
        /\ UNCHANGED <<responses, cut>>
    BY <1>1, <1>12, SendResultSends DEF history
  <2> DEFINE n == i - 1
             k == Len(run.calls)
             m == ToolResult(responses, i)
  <2>2. n \in Nat /\ n + 1 = i /\ n \in 0..k /\ n + 1 \in 1..MaxCalls /\ k \in Nat
    <3>1. k \in Nat /\ i \in Nat /\ i >= 1 /\ i <= k
      <4>1. run.calls \in Seq(Statuses)
        BY <1>1 DEF RunState, Statuses
      <4>2. k \in Nat
        BY <4>1, LenProperties
      <4> QED
        BY <2>1, <4>2
    <3> HIDE DEF k
    <3> QED
      BY <3>1, AgentAssumption
  <2>3. Working(transcript, responses, k, n) /\ Working(entries, responses, k, n)
    BY <2>1, <2>2 DEF ListedInv
  <2>4. entries' = Append(entries, m)
    <3>1. m \in Message
      BY <1>1 DEF ToolResult, Message
    <3> HIDE DEF m
    <3>2. transcript' = Append(transcript, m)
      BY <2>1 DEF m
    <3> QED
      BY <1>4, <3>1, <3>2
  <2> HIDE DEF n, k
  <2> DEFINE lacking == cut' \cup {responses'}
  <2>5. /\ Listed(transcript, responses, Unfinished) /\ Listed(entries, responses, Unfinished)
        /\ Unfinished = lacking
    BY <1>5, <2>1 DEF Unfinished
  <2>6. /\ Listed(Append(transcript, m), responses, lacking)
        /\ Working(Append(transcript, m), responses, k, i)
        /\ Listed(Append(entries, m), responses, lacking)
        /\ Working(Append(entries, m), responses, k, i)
    <3> HIDE DEF lacking, m
    <3>1. m = ToolResult(responses, n + 1)
      BY <2>2 DEF m
    <3>2. /\ Listed(Append(transcript, m), responses, lacking)
          /\ Working(Append(transcript, m), responses, k, n + 1)
      BY <1>1, <2>2, <2>3, <2>5, <3>1, ListedResult
    <3>3. /\ Listed(Append(entries, m), responses, lacking)
          /\ Working(Append(entries, m), responses, k, n + 1)
      BY <1>1, <2>2, <2>3, <2>5, <3>1, ListedResult
    <3> QED
      BY <2>2, <3>2, <3>3
  <2>7. lacking = cut' \cup {responses'}
    OBVIOUS
  <2> HIDE DEF lacking
  <2>8. /\ Listed(transcript', responses', lacking) /\ Listed(entries', responses', lacking)
        /\ Working(transcript', responses', k, i) /\ Working(entries', responses', k, i)
    BY <2>1, <2>4, <2>6
  <2>9. ASSUME NEW j \in 0..Len(run'.calls), Sent' = 1..j
        PROVE  j = i
    <3>1. 1..j = 1..i /\ j \in Nat /\ i \in Nat
      BY <2>1, <2>2, <2>9 DEF k
    <3> QED
      BY <3>1
  <2>10. \A j \in 0..Len(run'.calls) : Sent' = 1..j =>
           /\ Working(transcript', responses', Len(run'.calls), j)
           /\ Working(entries', responses', Len(run'.calls), j)
    BY <2>1, <2>8, <2>9 DEF k
  <2> QED
    BY <2>1, <2>7, <2>8, <2>10, ListedAfter
<1>13. CASE CallStep
  <2>1. /\ run.pc = "batch" /\ run'.pc = "batch" /\ Sent' = Sent
        /\ Len(run'.calls) = Len(run.calls) /\ UNCHANGED <<transcript, responses, cut>>
    BY <1>1, <1>13, CallStepSends DEF history
  <2> QED
    BY <1>1, <1>3, <2>1, ListsLeft
\* A batch ends with all its results, or an abort skipped some.
<1>14. CASE EndBatch
  <2>1. /\ run.pc = "batch" /\ UNCHANGED <<transcript, responses, cut>>
        /\ run'.pc = "turnEnd" /\ All({"sent", "skipped"})
    BY <1>1, <1>14 DEF EndBatch, history, RunState
  <2>2. Listed(transcript, responses, cut) /\ Listed(entries, responses, cut)
    <3>1. CASE responses \in cut
      <4>1. Unfinished = cut
        BY <3>1 DEF Unfinished
      <4> QED
        BY <1>5, <4>1
    <3>2. CASE responses \notin cut
      <4> DEFINE k == Len(run.calls)
      <4>1. k \in Nat /\ DOMAIN run.calls = 1..k
        <5>1. run.calls \in Seq(Statuses)
          BY <1>1 DEF RunState, Statuses
        <5> QED
          BY <5>1, LenProperties
      <4>2. \A j \in DOMAIN run.calls : run.calls[j] = "sent"
        BY <1>1, <2>1, <3>2 DEF BatchInv, All
      <4>3. k \in 0..k /\ Sent = 1..k
        BY <4>1, <4>2 DEF Sent
      <4>4. Working(transcript, responses, k, k) /\ Working(entries, responses, k, k)
        BY <2>1, <4>3 DEF ListedInv
      <4>5. Unfinished = cut \cup {responses}
        BY <2>1 DEF Unfinished
      <4> HIDE DEF k
      <4> QED
        BY <1>1, <1>5, <4>1, <4>4, <4>5, ListedDone
    <3> QED
      BY <3>1, <3>2
  <2>3. Listed(transcript', responses', cut') /\ Listed(entries', responses', cut')
    BY <1>3, <2>1, <2>2
  <2> QED
    BY <2>1, <2>3, ListedAfter
<1> QED
  BY <1>2, <1>8, <1>9, <1>10, <1>11, <1>12, <1>13, <1>14 DEF LoopStep, CallStep

LEMMA ListedStart == SessionInit => ListedInv
<1> SUFFICES ASSUME SessionInit PROVE ListedInv
  OBVIOUS
<1>1. transcript = <<>> /\ entries = <<>> /\ run.pc = "idle"
  BY DEF SessionInit, Init, NoRun
<1>2. DOMAIN <<>> = {}
  OBVIOUS
<1>3. Listed(<<>>, responses, Unfinished)
  BY <1>2 DEF Listed
<1> QED
  BY <1>1, <1>3 DEF ListedInv, At

LEMMA ListedSuffices == ListedInv => CallsAreAnswered
<1> SUFFICES ASSUME ListedInv PROVE CallsAreAnswered
  OBVIOUS
<1>1. AnswersInv
  BY DEF ListedInv, Listed, Unfinished, AnswersInv
<1> QED
  BY <1>1, AnswersSuffice

\* With one prompt in flight the results of a response follow it at once and in order,
\* none missing unless an abort cut the batch, also after retries dropped responses
\* and compactions rebuilt the transcript from the entries
\* (agent-loop.ts:431-561, agent-session.ts:644-714).
THEOREM SessionCallsAlwaysAnswered ==
    ASSUME OneCaller PROVE SessionSpec => []CallsAreAnswered
<1>1. SessionInv /\ IdleInv /\ ListedInv /\ [SessionNext]_allVars => ListedInv'
  BY LoopLists, OthersList
<1>2. SessionInv /\ IdleInv /\ [SessionNext]_allVars => IdleInv'
  BY IdleStep
<1> QED
  BY <1>1, <1>2, ListedSuffices, SessionStart, IdleStart, ListedStart, SessionInvStep,
     PTL DEF SessionSpec
=============================================================================
