--------------------------- MODULE AgentQueueProofs ---------------------------
(***************************************************************************)
(* A proof that the agent delivers what it is handed in order and once,    *)
(* for any number of messages and in all modes of both queues.             *)
(*                                                                         *)
(* What was handed over in one way lies on a line: the transcript, then    *)
(* the messages that the run has in hand, then those that still wait.      *)
(* Every step either moves the borders between the three, puts messages    *)
(* of another kind in between, takes out a part that is lost for good, or  *)
(* adds the newest message at the end.                                     *)
(***************************************************************************)
EXTENDS AgentProofs

Waiting(way) ==
    IF way = "steer" THEN steering ELSE IF way = "followUp" THEN followUps ELSE <<>>
Hand == run.prompts \o run.pending
Line(way) == transcript \o (Users(Hand) \o Users(Waiting(way)))

\* The messages of a line that were handed over in the given way, their texts,
\* and their order.
Own(line, ways, way) ==
    {p \in DOMAIN line : line[p].role = "user" /\ ways[line[p].text] = way}
Texts(line, ways, way) == {line[p].text : p \in Own(line, ways, way)}
Rising(line, ways, way) ==
    \A p, q \in Own(line, ways, way) : p < q => line[p].text < line[q].text
Below(line, ways, way, n) == \A p \in Own(line, ways, way) : line[p].text < n
KnownLine(line, ways) ==
    \A p \in DOMAIN line : line[p].role = "user" => line[p].text \in DOMAIN ways
Ordered(line, ways, way, lost) ==
    /\ Texts(line, ways, way) = {t \in DOMAIN ways : ways[t] = way} \ lost
    /\ Rising(line, ways, way)

(***************************************************************************)
(* The invariants.                                                         *)
(***************************************************************************)
\* A run has messages in hand only where it is about to emit them, so that one
\* kind is gone before the next is fetched; only known messages are lost.
HandsInv ==
    /\ run.prompts # <<>> => At("prompts")
    /\ run.pending # <<>> => run.pc \in {"inject", "prepare", "repoll"}
    /\ discarded \subseteq DOMAIN handed

OrderInv == \A way \in Ways : Ordered(Line(way), handed, way, discarded)

(***************************************************************************)
(* Lines with parts taken out, put in and put last.                        *)
(***************************************************************************)
\* A part in the middle of a list of messages.
LEMMA Splice ==
    ASSUME NEW a \in Seq(Message), NEW b \in Seq(Message), NEW c \in Seq(Message)
    PROVE  /\ a \o c \in Seq(Message) /\ a \o (b \o c) \in Seq(Message)
           /\ Len(a) \in Nat /\ Len(b) \in Nat /\ Len(c) \in Nat
           /\ DOMAIN a = 1..Len(a) /\ DOMAIN b = 1..Len(b) /\ DOMAIN c = 1..Len(c)
           /\ DOMAIN (a \o c) = 1..(Len(a) + Len(c))
           /\ DOMAIN (a \o (b \o c)) = 1..(Len(a) + Len(b) + Len(c))
           /\ \A p \in 1..Len(a) : (a \o c)[p] = a[p] /\ (a \o (b \o c))[p] = a[p]
           /\ \A p \in 1..Len(b) : (a \o (b \o c))[Len(a) + p] = b[p]
           /\ \A p \in 1..Len(c) :
                /\ (a \o c)[Len(a) + p] = c[p]
                /\ (a \o (b \o c))[Len(a) + Len(b) + p] = c[p]
<1>1. /\ Len(a) \in Nat /\ Len(b) \in Nat /\ Len(c) \in Nat
      /\ DOMAIN a = 1..Len(a) /\ DOMAIN b = 1..Len(b) /\ DOMAIN c = 1..Len(c)
  BY LenProperties
<1>2. /\ a \o c \in Seq(Message) /\ Len(a \o c) = Len(a) + Len(c)
      /\ \A p \in 1..(Len(a) + Len(c)) :
            (a \o c)[p] = IF p <= Len(a) THEN a[p] ELSE c[p - Len(a)]
  BY ConcatProperties
<1>3. /\ b \o c \in Seq(Message) /\ Len(b \o c) = Len(b) + Len(c)
      /\ \A p \in 1..(Len(b) + Len(c)) :
            (b \o c)[p] = IF p <= Len(b) THEN b[p] ELSE c[p - Len(b)]
  BY ConcatProperties
<1> DEFINE bc == b \o c
<1> HIDE DEF bc
<1>4. /\ a \o bc \in Seq(Message) /\ Len(a \o bc) = Len(a) + Len(bc)
      /\ \A p \in 1..(Len(a) + Len(bc)) :
            (a \o bc)[p] = IF p <= Len(a) THEN a[p] ELSE bc[p - Len(a)]
  BY <1>3, ConcatProperties DEF bc
<1>5. /\ DOMAIN (a \o c) = 1..(Len(a) + Len(c))
      /\ DOMAIN (a \o bc) = 1..(Len(a) + Len(b) + Len(c))
  BY <1>1, <1>2, <1>3, <1>4, LenProperties DEF bc
<1>6. \A p \in 1..Len(a) : (a \o c)[p] = a[p] /\ (a \o bc)[p] = a[p]
  BY <1>1, <1>2, <1>3, <1>4 DEF bc
<1>7. \A p \in 1..Len(b) : (a \o bc)[Len(a) + p] = b[p]
  <2> TAKE p \in 1..Len(b)
  <2>1. Len(a) + p \in 1..(Len(a) + Len(bc)) /\ ~(Len(a) + p <= Len(a))
    BY <1>1, <1>3 DEF bc
  <2>2. (a \o bc)[Len(a) + p] = bc[p]
    BY <1>1, <1>4, <2>1
  <2> QED
    BY <1>1, <1>3, <2>2 DEF bc
<1>8. ASSUME NEW p \in 1..Len(c)
      PROVE  /\ (a \o c)[Len(a) + p] = c[p]
             /\ (a \o bc)[Len(a) + Len(b) + p] = c[p]
  <2>1. /\ Len(a) + p \in 1..(Len(a) + Len(c)) /\ ~(Len(a) + p <= Len(a))
        /\ Len(b) + p \in 1..(Len(b) + Len(c)) /\ ~(Len(b) + p <= Len(b))
        /\ Len(a) + Len(b) + p \in 1..(Len(a) + Len(bc))
        /\ ~(Len(a) + Len(b) + p <= Len(a))
    BY <1>1, <1>3 DEF bc
  <2>2. (a \o bc)[Len(a) + Len(b) + p] = bc[Len(b) + p]
    BY <1>1, <1>4, <2>1
  <2>3. bc[Len(b) + p] = c[p]
    BY <1>1, <1>3, <2>1 DEF bc
  <2>4. (a \o c)[Len(a) + p] = c[p]
    BY <1>1, <1>2, <2>1
  <2> QED
    BY <2>2, <2>3, <2>4
<1> QED
  BY <1>1, <1>2, <1>4, <1>5, <1>6, <1>7, <1>8 DEF bc

\* Taking a part out of the middle takes its texts and leaves the others in order.
LEMMA TakeOut ==
    ASSUME NEW a \in Seq(Message), NEW b \in Seq(Message), NEW c \in Seq(Message),
           NEW ways, NEW way, DOMAIN ways \subseteq Nat,
           KnownLine(a \o (b \o c), ways), Rising(a \o (b \o c), ways, way)
    PROVE  /\ Rising(a \o c, ways, way)
           /\ Texts(a \o c, ways, way) = Texts(a \o (b \o c), ways, way) \ Texts(b, ways, way)
<1> DEFINE short == a \o c
           long == a \o (b \o c)
           f(p) == IF p <= Len(a) THEN p ELSE p + Len(b)
<1> HIDE DEF short, long
<1>1. /\ Len(a) \in Nat /\ Len(b) \in Nat /\ Len(c) \in Nat
      /\ DOMAIN b = 1..Len(b)
      /\ DOMAIN short = 1..(Len(a) + Len(c))
      /\ DOMAIN long = 1..(Len(a) + Len(b) + Len(c))
      /\ \A p \in 1..Len(a) : short[p] = a[p] /\ long[p] = a[p]
      /\ \A p \in 1..Len(b) : long[Len(a) + p] = b[p]
      /\ \A p \in 1..Len(c) :
           short[Len(a) + p] = c[p] /\ long[Len(a) + Len(b) + p] = c[p]
  BY Splice DEF short, long
<1>2. ASSUME NEW p \in DOMAIN short
      PROVE  f(p) \in DOMAIN long /\ long[f(p)] = short[p]
  <2>1. CASE p <= Len(a)
    BY <1>1, <2>1
  <2>2. CASE ~(p <= Len(a))
    <3>1. PICK i \in 1..Len(c) : p = Len(a) + i
      <4>1. p - Len(a) \in 1..Len(c) /\ p = Len(a) + (p - Len(a))
        BY <1>1, <2>2
      <4> QED
        BY <4>1
    <3>2. f(p) = Len(a) + Len(b) + i
      BY <1>1, <2>2, <3>1
    <3> QED
      BY <1>1, <3>1, <3>2
  <2> QED
    BY <2>1, <2>2
<1>3. ASSUME NEW q \in DOMAIN long
      PROVE  \/ \E p \in DOMAIN short : q = f(p)
             \/ \E i \in DOMAIN b : q = Len(a) + i /\ long[q] = b[i]
  <2>1. CASE q <= Len(a)
    BY <1>1, <2>1
  <2>2. CASE ~(q <= Len(a)) /\ q <= Len(a) + Len(b)
    <3>1. q - Len(a) \in DOMAIN b /\ q = Len(a) + (q - Len(a))
      BY <1>1, <2>2
    <3> QED
      BY <1>1, <3>1
  <2>3. CASE ~(q <= Len(a) + Len(b))
    <3>1. q - Len(b) \in DOMAIN short /\ q = f(q - Len(b))
      BY <1>1, <2>3
    <3> QED
      BY <3>1
  <2> QED
    BY <2>1, <2>2, <2>3
<1>4. \A p, q \in DOMAIN short : p < q => f(p) < f(q)
  BY <1>1
<1>5. \A p \in DOMAIN short : p \in Own(short, ways, way) <=> f(p) \in Own(long, ways, way)
  BY <1>2 DEF Own
<1>6. \A i \in DOMAIN b :
        /\ Len(a) + i \in DOMAIN long
        /\ long[Len(a) + i] = b[i]
        /\ i \in Own(b, ways, way) <=> Len(a) + i \in Own(long, ways, way)
  BY <1>1 DEF Own
<1>7. Rising(short, ways, way)
  <2> SUFFICES ASSUME NEW p \in Own(short, ways, way), NEW q \in Own(short, ways, way), p < q
               PROVE  short[p].text < short[q].text
    BY DEF Rising
  <2>1. p \in DOMAIN short /\ q \in DOMAIN short
    BY DEF Own
  <2>2. f(p) \in Own(long, ways, way) /\ f(q) \in Own(long, ways, way) /\ f(p) < f(q)
    BY <1>4, <1>5, <2>1
  <2>3. long[f(p)].text < long[f(q)].text
    BY <2>2 DEF Rising, long
  <2> QED
    BY <1>2, <2>1, <2>3
<1>8. ASSUME NEW p \in Own(short, ways, way), NEW i \in Own(b, ways, way)
      PROVE  short[p].text # b[i].text
  <2>1. p \in DOMAIN short /\ i \in DOMAIN b
    BY DEF Own
  <2>2. f(p) \in Own(long, ways, way) /\ Len(a) + i \in Own(long, ways, way)
    <3>1. f(p) \in Own(long, ways, way)
      BY <1>5, <2>1
    <3>2. Len(a) + i \in Own(long, ways, way)
      BY <1>6, <2>1
    <3> QED
      BY <3>1, <3>2
  <2>3. f(p) < Len(a) + i \/ Len(a) + i < f(p)
    BY <1>1, <2>1
  <2>4. \/ long[f(p)].text < long[Len(a) + i].text
        \/ long[Len(a) + i].text < long[f(p)].text
    BY <2>2, <2>3 DEF Rising, long
  <2>5. long[f(p)].text \in Nat /\ long[Len(a) + i].text \in Nat
    <3>1. KnownLine(long, ways)
      BY DEF long
    <3> QED
      BY <2>2, <3>1 DEF KnownLine, Own
  <2>6. long[f(p)].text # long[Len(a) + i].text
    BY <2>4, <2>5
  <2>7. long[f(p)] = short[p] /\ long[Len(a) + i] = b[i]
    <3>1. long[f(p)] = short[p]
      BY <1>2, <2>1
    <3>2. long[Len(a) + i] = b[i]
      BY <1>6, <2>1
    <3> QED
      BY <3>1, <3>2
  <2> QED
    BY <2>6, <2>7
<1>9. Texts(short, ways, way) \subseteq Texts(long, ways, way) \ Texts(b, ways, way)
  <2> SUFFICES ASSUME NEW p \in Own(short, ways, way)
               PROVE  short[p].text \in Texts(long, ways, way) /\ short[p].text \notin Texts(b, ways, way)
    BY DEF Texts
  <2>1. p \in DOMAIN short
    BY DEF Own
  <2>2. f(p) \in Own(long, ways, way) /\ long[f(p)] = short[p]
    BY <1>2, <1>5, <2>1
  <2> QED
    BY <1>8, <2>2 DEF Texts
<1>10. Texts(long, ways, way) \subseteq Texts(short, ways, way) \cup Texts(b, ways, way)
  <2> SUFFICES ASSUME NEW q \in Own(long, ways, way)
               PROVE  long[q].text \in Texts(short, ways, way) \cup Texts(b, ways, way)
    BY DEF Texts
  <2>1. q \in DOMAIN long
    BY DEF Own
  <2>2. CASE \E p \in DOMAIN short : q = f(p)
    <3>1. PICK p \in DOMAIN short : q = f(p)
      BY <2>2
    <3>2. p \in Own(short, ways, way) /\ long[q] = short[p]
      BY <1>2, <1>5, <3>1
    <3> QED
      BY <3>2 DEF Texts
  <2>3. CASE \E i \in DOMAIN b : q = Len(a) + i /\ long[q] = b[i]
    <3>1. PICK i \in DOMAIN b : q = Len(a) + i /\ long[q] = b[i]
      BY <2>3
    <3>2. i \in Own(b, ways, way)
      BY <1>6, <3>1
    <3> QED
      BY <3>1, <3>2 DEF Texts
  <2> QED
    BY <1>3, <2>1, <2>2, <2>3
<1>11. Texts(long, ways, way) \ Texts(b, ways, way) \subseteq Texts(short, ways, way)
  BY <1>10
<1>12. Texts(short, ways, way) = Texts(long, ways, way) \ Texts(b, ways, way)
  BY <1>9, <1>11
<1>13. Rising(a \o c, ways, way)
  BY <1>7 DEF short
<1>14. Texts(a \o c, ways, way) = Texts(a \o (b \o c), ways, way) \ Texts(b, ways, way)
  BY <1>12 DEF short, long
<1> QED
  BY <1>13, <1>14

\* Messages that are not the way's own change nothing for it.
LEMMA PutIn ==
    ASSUME NEW a \in Seq(Message), NEW b \in Seq(Message), NEW c \in Seq(Message),
           NEW ways, NEW way, Own(b, ways, way) = {}, Rising(a \o c, ways, way)
    PROVE  /\ Rising(a \o (b \o c), ways, way)
           /\ Texts(a \o (b \o c), ways, way) = Texts(a \o c, ways, way)
<1> DEFINE short == a \o c
           long == a \o (b \o c)
           g(p) == IF p <= Len(a) THEN p ELSE p - Len(b)
<1> HIDE DEF short, long
<1>1. /\ Len(a) \in Nat /\ Len(b) \in Nat /\ Len(c) \in Nat
      /\ DOMAIN b = 1..Len(b)
      /\ DOMAIN short = 1..(Len(a) + Len(c))
      /\ DOMAIN long = 1..(Len(a) + Len(b) + Len(c))
      /\ \A p \in 1..Len(a) : short[p] = a[p] /\ long[p] = a[p]
      /\ \A p \in 1..Len(b) : long[Len(a) + p] = b[p]
      /\ \A p \in 1..Len(c) :
           short[Len(a) + p] = c[p] /\ long[Len(a) + Len(b) + p] = c[p]
  BY Splice DEF short, long
<1>2. ASSUME NEW q \in Own(long, ways, way)
      PROVE  /\ g(q) \in Own(short, ways, way) /\ long[q] = short[g(q)]
             /\ q \in DOMAIN long /\ (q <= Len(a) \/ q > Len(a) + Len(b))
  <2>0. q \in 1..(Len(a) + Len(b) + Len(c))
    BY <1>1 DEF Own
  <2>1. CASE q <= Len(a)
    <3>1. q \in DOMAIN short /\ long[q] = short[q] /\ g(q) = q
      BY <1>1, <2>0, <2>1
    <3> QED
      BY <1>1, <2>0, <2>1, <3>1 DEF Own
  <2>2. CASE ~(q <= Len(a)) /\ q <= Len(a) + Len(b)
    <3>1. q - Len(a) \in 1..Len(b) /\ q = Len(a) + (q - Len(a))
      BY <1>1, <2>0, <2>2
    <3>2. long[q] = b[q - Len(a)]
      BY <1>1, <3>1
    <3>3. q - Len(a) \in Own(b, ways, way)
      BY <1>1, <3>1, <3>2 DEF Own
    <3> QED
      BY <3>3
  <2>3. CASE ~(q <= Len(a) + Len(b))
    <3>1. /\ q - Len(a) - Len(b) \in 1..Len(c)
          /\ q = Len(a) + Len(b) + (q - Len(a) - Len(b))
          /\ g(q) = Len(a) + (q - Len(a) - Len(b))
          /\ g(q) \in DOMAIN short
      BY <1>1, <2>0, <2>3
    <3>2. long[q] = short[g(q)]
      BY <1>1, <3>1
    <3> QED
      BY <1>1, <2>0, <2>3, <3>1, <3>2 DEF Own
  <2> QED
    BY <2>1, <2>2, <2>3
<1>3. ASSUME NEW p \in Own(short, ways, way)
      PROVE  \E q \in Own(long, ways, way) : long[q] = short[p]
  <2>0. p \in 1..(Len(a) + Len(c))
    BY <1>1 DEF Own
  <2>1. CASE p <= Len(a)
    <3>1. p \in DOMAIN long /\ long[p] = short[p]
      BY <1>1, <2>0, <2>1
    <3> QED
      BY <3>1 DEF Own
  <2>2. CASE ~(p <= Len(a))
    <3>1. /\ p - Len(a) \in 1..Len(c) /\ p = Len(a) + (p - Len(a))
          /\ p + Len(b) = Len(a) + Len(b) + (p - Len(a))
          /\ p + Len(b) \in DOMAIN long
      BY <1>1, <2>0, <2>2
    <3>2. long[p + Len(b)] = short[p]
      BY <1>1, <3>1
    <3> QED
      BY <3>1, <3>2 DEF Own
  <2> QED
    BY <2>1, <2>2
<1>4. Rising(long, ways, way)
  <2> SUFFICES ASSUME NEW p \in Own(long, ways, way), NEW q \in Own(long, ways, way), p < q
               PROVE  long[p].text < long[q].text
    BY DEF Rising
  <2>1. g(p) < g(q)
    BY <1>1, <1>2
  <2> QED
    BY <1>2, <2>1 DEF Rising, short
<1>5. Texts(long, ways, way) \subseteq Texts(short, ways, way)
  BY <1>2 DEF Texts
<1>6. Texts(short, ways, way) \subseteq Texts(long, ways, way)
  BY <1>3 DEF Texts
<1> QED
  BY <1>4, <1>5, <1>6 DEF short, long

\* A message at the end, newer than all.
LEMMA PutLast ==
    ASSUME NEW a \in Seq(Message), NEW m \in Message, NEW ways, NEW way,
           m.role = "user", ways[m.text] = way, Rising(a, ways, way),
           Below(a, ways, way, m.text)
    PROVE  /\ Rising(Append(a, m), ways, way)
           /\ Texts(Append(a, m), ways, way) = Texts(a, ways, way) \cup {m.text}
<1> DEFINE b == Append(a, m)
<1>1. /\ Len(a) \in Nat /\ DOMAIN a = 1..Len(a)
      /\ b \in Seq(Message) /\ Len(b) = Len(a) + 1
      /\ \A p \in 1..Len(a) : b[p] = a[p]
      /\ b[Len(a) + 1] = m
  BY AppendProperties, LenProperties
<1>2. DOMAIN b = 1..(Len(a) + 1)
  BY <1>1, LenProperties
<1> HIDE DEF b
<1>3. Own(b, ways, way) = Own(a, ways, way) \cup {Len(a) + 1}
  <2>1. Len(a) + 1 \in Own(b, ways, way)
    BY <1>1, <1>2 DEF Own
  <2>2. ASSUME NEW p \in DOMAIN a
        PROVE  p \in Own(b, ways, way) <=> p \in Own(a, ways, way)
    BY <1>1, <1>2 DEF Own
  <2>3. DOMAIN b = DOMAIN a \cup {Len(a) + 1}
    BY <1>1, <1>2
  <2>4. Own(b, ways, way) \subseteq DOMAIN b /\ Own(a, ways, way) \subseteq DOMAIN a
    BY DEF Own
  <2> QED
    BY <2>1, <2>2, <2>3, <2>4
<1>4. \A p \in Own(a, ways, way) : p \in 1..Len(a) /\ b[p] = a[p]
  BY <1>1 DEF Own
<1>5. Rising(b, ways, way)
  <2> SUFFICES ASSUME NEW p \in Own(b, ways, way), NEW q \in Own(b, ways, way), p < q
               PROVE  b[p].text < b[q].text
    BY DEF Rising
  <2>1. p \in 1..(Len(a) + 1) /\ q \in 1..(Len(a) + 1)
    BY <1>2 DEF Own
  <2>2. p \in Own(a, ways, way)
    BY <1>1, <1>3, <2>1
  <2>3. CASE q = Len(a) + 1
    BY <1>1, <1>4, <2>2, <2>3 DEF Below
  <2>4. CASE q \in Own(a, ways, way)
    BY <1>4, <2>2, <2>4 DEF Rising
  <2> QED
    BY <1>3, <2>3, <2>4
<1>6. Texts(b, ways, way) = Texts(a, ways, way) \cup {m.text}
  BY <1>1, <1>3, <1>4 DEF Texts
<1> QED
  BY <1>5, <1>6 DEF b

(***************************************************************************)
(* The line of a way and its parts.                                        *)
(***************************************************************************)
LEMMA UsersConcat ==
    ASSUME NEW s \in Seq(Text), NEW t \in Seq(Text)
    PROVE  Users(s \o t) = Users(s) \o Users(t)
<1>1. /\ s \o t \in Seq(Text) /\ Len(s \o t) = Len(s) + Len(t)
      /\ \A i \in 1..(Len(s) + Len(t)) :
            (s \o t)[i] = IF i <= Len(s) THEN s[i] ELSE t[i - Len(s)]
  BY ConcatProperties
<1>2. Len(s) \in Nat /\ Len(t) \in Nat
  BY LenProperties
<1>3. /\ Users(s) \in Seq(Message) /\ Len(Users(s)) = Len(s)
      /\ \A i \in 1..Len(s) : Users(s)[i] = User(s[i])
  BY UsersProperties
<1>4. /\ Users(t) \in Seq(Message) /\ Len(Users(t)) = Len(t)
      /\ \A i \in 1..Len(t) : Users(t)[i] = User(t[i])
  BY UsersProperties
<1>5. /\ Users(s \o t) \in Seq(Message) /\ Len(Users(s \o t)) = Len(s) + Len(t)
      /\ \A i \in 1..(Len(s) + Len(t)) : Users(s \o t)[i] = User((s \o t)[i])
  BY <1>1, UsersProperties
<1> DEFINE u == Users(s) \o Users(t)
<1>6. /\ u \in Seq(Message) /\ Len(u) = Len(s) + Len(t)
      /\ \A i \in 1..(Len(s) + Len(t)) :
            u[i] = IF i <= Len(s) THEN Users(s)[i] ELSE Users(t)[i - Len(s)]
  <2>1. /\ u \in Seq(Message) /\ Len(u) = Len(Users(s)) + Len(Users(t))
        /\ \A i \in 1..(Len(Users(s)) + Len(Users(t))) :
              u[i] = IF i <= Len(Users(s)) THEN Users(s)[i]
                     ELSE Users(t)[i - Len(Users(s))]
    <3>1. Users(s) \in Seq(Message) /\ Users(t) \in Seq(Message)
      BY <1>3, <1>4
    <3> QED
      BY <3>1, ConcatProperties, Zenon
  <2> QED
    BY <1>3, <1>4, <2>1
<1> HIDE DEF u
<1>7. ASSUME NEW i \in 1..(Len(s) + Len(t))
      PROVE  Users(s \o t)[i] = u[i]
  <2>1. CASE i <= Len(s)
    <3>1. i \in 1..Len(s)
      BY <1>2, <2>1
    <3> QED
      BY <1>1, <1>3, <1>5, <1>6, <2>1, <3>1
  <2>2. CASE ~(i <= Len(s))
    <3>1. i - Len(s) \in 1..Len(t)
      BY <1>2, <2>2
    <3> QED
      BY <1>1, <1>4, <1>5, <1>6, <2>2, <3>1
  <2> QED
    BY <2>1, <2>2
<1>8. Users(s \o t) = u
  BY <1>5, <1>6, <1>7, SeqEqual
<1> QED
  BY <1>8 DEF u

\* The invariant is the property.
LEMMA OrderIsProperty == TypeOK => (QueuesKeepOrder <=> OrderInv)
<1> SUFFICES ASSUME TypeOK PROVE QueuesKeepOrder <=> OrderInv
  OBVIOUS
<1>1. /\ run.prompts \in Seq(Text) /\ run.pending \in Seq(Text) /\ Hand \in Seq(Text)
      /\ \A way \in Ways : Waiting(way) \in Seq(Text)
  BY ConcatProperties, EmptySeq DEF TypeOK, RunState, Hand, Waiting
<1>2. ASSUME NEW way \in Ways
      PROVE  InOrder(way, Waiting(way)) <=> Ordered(Line(way), handed, way, discarded)
  <2>1. transcript \o Users(run.prompts \o run.pending \o Waiting(way)) = Line(way)
    BY <1>1, UsersConcat DEF Line, Hand
  <2> QED
    BY <2>1 DEF InOrder, Ordered, Texts, Own, Rising
<1>3. /\ Ways = {"prompt", "steer", "followUp"} /\ Waiting("prompt") = <<>>
      /\ Waiting("steer") = steering /\ Waiting("followUp") = followUps
  BY DEF Ways, Waiting
<1>4. QueuesKeepOrder <=> \A way \in Ways : InOrder(way, Waiting(way))
  BY <1>3, Zenon DEF QueuesKeepOrder
<1> QED
  BY <1>2, <1>4 DEF OrderInv

LEMMA DrainConcat ==
    ASSUME NEW queue \in Seq(Text), NEW mode \in QueueModes
    PROVE  Drained(queue, mode) \o Rest(queue, mode) = queue
<1>1. DOMAIN queue = 1..Len(queue) /\ Len(queue) \in Nat
  BY LenProperties
<1>2. CASE mode = "all" \/ queue = <<>>
  <2>1. Drained(queue, mode) = queue
    BY <1>2 DEF Drained
  <2>2. Rest(queue, mode) = <<>>
    BY <2>1, <1>1, SubSeqEmpty DEF Rest
  <2> QED
    BY <2>1, <2>2, ConcatEmptySeq
<1>3. CASE mode # "all" /\ queue # <<>>
  <2>1. Drained(queue, mode) = <<Head(queue)>>
    BY <1>3 DEF Drained
  <2>2. Rest(queue, mode) = Tail(queue)
    BY <2>1, <1>3, TailIsSubSeq DEF Rest
  <2>3. Len(queue) > 0 /\ Head(queue) = queue[1] /\ queue[1] \in Text
    BY <1>1, <1>3, EmptySeq, ElementOfSeq
  <2>4. <<queue[1]>> = SubSeq(queue, 1, 1)
    <3>1. SubSeq(queue, 1, 1) = SubSeq(queue, 1, 0) \o <<queue[1]>>
      BY <1>1, <2>3, SubSeqRecursiveSecond
    <3>2. SubSeq(queue, 1, 0) = <<>>
      BY SubSeqEmpty
    <3>3. <<queue[1]>> \in Seq(Text)
      BY <2>3
    <3> QED
      BY <3>1, <3>2, <3>3, ConcatEmptySeq
  <2>5. SubSeq(queue, 1, 1) \o SubSeq(queue, 2, Len(queue)) = SubSeq(queue, 1, Len(queue))
    BY <1>1, <2>3, ConcatAdjacentSubSeq
  <2> QED
    BY <1>3, <2>1, <2>2, <2>3, <2>4, <2>5, TailIsSubSeq, SubSeqFull
<1> QED
  BY <1>2, <1>3

\* Messages made of texts are the way's own if the texts are.
LEMMA UsersOwn ==
    ASSUME NEW texts \in Seq(Text), NEW ways, NEW way
    PROVE  /\ Texts(Users(texts), ways, way) = {t \in ToSet(texts) : ways[t] = way}
           /\ (\A i \in DOMAIN texts : ways[texts[i]] # way) =>
                 Own(Users(texts), ways, way) = {}
<1>1. /\ DOMAIN texts = 1..Len(texts) /\ DOMAIN Users(texts) = 1..Len(texts)
      /\ \A i \in 1..Len(texts) : Users(texts)[i] = User(texts[i])
  BY UsersProperties, LenProperties
<1>2. \A i \in 1..Len(texts) :
        Users(texts)[i].role = "user" /\ Users(texts)[i].text = texts[i]
  BY <1>1 DEF User
<1>3. Own(Users(texts), ways, way) = {i \in 1..Len(texts) : ways[texts[i]] = way}
  BY <1>1, <1>2 DEF Own
<1>4. Texts(Users(texts), ways, way) = {texts[i] : i \in Own(Users(texts), ways, way)}
  BY <1>2, <1>3 DEF Texts
<1>5. ToSet(texts) = {texts[i] : i \in 1..Len(texts)}
  BY <1>1 DEF ToSet
<1> QED
  BY <1>1, <1>3, <1>4, <1>5

\* A line whose texts are handed over looks the same when another one is.
LEMMA OwnStays ==
    ASSUME NEW line, NEW ways, NEW more, NEW way, KnownLine(line, ways),
           \A t \in DOMAIN ways : more[t] = ways[t]
    PROVE  /\ Own(line, more, way) = Own(line, ways, way)
           /\ Texts(line, more, way) = Texts(line, ways, way)
           /\ Rising(line, more, way) <=> Rising(line, ways, way)
<1>1. Own(line, more, way) = Own(line, ways, way)
  BY DEF Own, KnownLine
<1> QED
  BY <1>1 DEF Texts, Rising

LEMMA ElementsIn ==
    ASSUME NEW S, NEW D, NEW s \in Seq(S), \A i \in DOMAIN s : s[i] \in D
    PROVE  s \in Seq(D)
<1>1. DOMAIN s = 1..Len(s) /\ Len(s) \in Nat /\ s \in [1..Len(s) -> S]
  BY LenProperties
<1>2. s \in [1..Len(s) -> D]
  BY <1>1
<1> QED
  BY <1>1, <1>2, SeqDef

\* The parts of a line.
LEMMA LineParts ==
    ASSUME TypeOK, HandedInv, NEW way \in Ways
    PROVE  /\ Hand \in Seq(Text) /\ Waiting(way) \in Seq(Text)
           /\ transcript \in Seq(Message)
           /\ Users(Hand) \in Seq(Message) /\ Users(Waiting(way)) \in Seq(Message)
           /\ Line(way) \in Seq(Message)
           /\ KnownLine(Line(way), handed)
<1>1. /\ run.prompts \in Seq(Text) /\ run.pending \in Seq(Text)
      /\ Waiting(way) \in Seq(Text) /\ transcript \in Seq(Message)
  BY EmptySeq DEF TypeOK, RunState, Waiting
<1>2. Hand \in Seq(Text)
  BY <1>1, ConcatProperties DEF Hand
<1>3. /\ Users(Hand) \in Seq(Message) /\ Users(Waiting(way)) \in Seq(Message)
      /\ DOMAIN Users(Hand) = 1..Len(Hand)
      /\ DOMAIN Users(Waiting(way)) = 1..Len(Waiting(way))
      /\ \A i \in 1..Len(Hand) : Users(Hand)[i].text = Hand[i]
      /\ \A i \in 1..Len(Waiting(way)) : Users(Waiting(way))[i].text = Waiting(way)[i]
  <2>1. ASSUME NEW texts \in Seq(Text)
        PROVE  /\ Users(texts) \in Seq(Message)
               /\ DOMAIN Users(texts) = 1..Len(texts)
               /\ \A i \in 1..Len(texts) : Users(texts)[i].text = texts[i]
    <3>1. /\ Users(texts) \in Seq(Message)
          /\ DOMAIN Users(texts) = 1..Len(texts)
          /\ \A i \in 1..Len(texts) : Users(texts)[i] = User(texts[i])
      BY UsersProperties
    <3>2. \A t : User(t).text = t
      BY DEF User
    <3> QED
      BY <3>1, <3>2
  <2> QED
    BY <1>1, <1>2, <2>1
<1>4. \A i \in 1..Len(Hand) : Hand[i] \in DOMAIN handed
  <2>1. run.prompts \in Seq(DOMAIN handed) /\ run.pending \in Seq(DOMAIN handed)
    BY <1>1, ElementsIn DEF HandedInv
  <2>2. Hand \in Seq(DOMAIN handed)
    BY <2>1, ConcatProperties DEF Hand
  <2> QED
    BY <2>2, ElementOfSeq
<1>5. \A i \in 1..Len(Waiting(way)) : Waiting(way)[i] \in DOMAIN handed
  <2>1. DOMAIN Waiting(way) = 1..Len(Waiting(way))
    BY <1>1, LenProperties
  <2>2. CASE way = "steer"
    BY <2>1, <2>2 DEF Waiting, HandedInv
  <2>3. CASE way = "followUp"
    BY <2>1, <2>3 DEF Waiting, HandedInv
  <2>4. CASE way = "prompt"
    BY <2>4 DEF Waiting
  <2> QED
    BY <2>2, <2>3, <2>4 DEF Ways
<1>6. Line(way) \in Seq(Message)
  BY <1>1, <1>3, Splice DEF Line
<1>7. KnownLine(Line(way), handed)
  <2> DEFINE h == Users(Hand)
             u == Users(Waiting(way))
             line == Line(way)
  <2>1. /\ Len(transcript) \in Nat /\ Len(h) \in Nat /\ Len(u) \in Nat
        /\ DOMAIN transcript = 1..Len(transcript)
        /\ DOMAIN h = 1..Len(h) /\ DOMAIN u = 1..Len(u)
        /\ DOMAIN line = 1..(Len(transcript) + Len(h) + Len(u))
        /\ \A p \in 1..Len(transcript) : line[p] = transcript[p]
        /\ \A p \in 1..Len(h) : line[Len(transcript) + p] = h[p]
        /\ \A p \in 1..Len(u) : line[Len(transcript) + Len(h) + p] = u[p]
    BY <1>1, <1>3, Splice DEF Line
  <2>2. /\ \A p \in 1..Len(h) : h[p].text \in DOMAIN handed
        /\ \A p \in 1..Len(u) : u[p].text \in DOMAIN handed
    BY <1>3, <1>4, <1>5, <2>1
  <2> HIDE DEF h, u, line
  <2>3. ASSUME NEW p \in DOMAIN line, line[p].role = "user"
        PROVE  line[p].text \in DOMAIN handed
    <3>1. CASE p <= Len(transcript)
      BY <2>1, <2>3, <3>1 DEF HandedInv
    <3>2. CASE ~(p <= Len(transcript)) /\ p <= Len(transcript) + Len(h)
      <4>1. p - Len(transcript) \in 1..Len(h) /\ p = Len(transcript) + (p - Len(transcript))
        BY <2>1, <3>2
      <4> QED
        BY <2>1, <2>2, <4>1
    <3>3. CASE ~(p <= Len(transcript) + Len(h))
      <4>1. /\ p - Len(transcript) - Len(h) \in 1..Len(u)
            /\ p = Len(transcript) + Len(h) + (p - Len(transcript) - Len(h))
        BY <2>1, <3>3
      <4> QED
        BY <2>1, <2>2, <4>1
    <3> QED
      BY <3>1, <3>2, <3>3
  <2> QED
    BY <2>3 DEF KnownLine, line
<1> QED
  BY <1>1, <1>2, <1>3, <1>6, <1>7

\* The parts of a line without the middle one.
LEMMA HandEmpty ==
    ASSUME TypeOK, HandedInv, NEW way \in Ways, Hand = <<>>
    PROVE  Line(way) = transcript \o Users(Waiting(way))
<1>1. Users(Hand) = <<>>
  <2>1. <<>> \in Seq(Text)
    BY EmptySeq
  <2>2. Users(<<>>) \in Seq(Message) /\ Len(Users(<<>>)) = 0
    BY <2>1, EmptySeq, UsersProperties
  <2> QED
    BY <2>2, EmptySeq
<1> QED
  BY <1>1, LineParts, ConcatEmptySeq DEF Line

(***************************************************************************)
(* What each step does to the lines.                                       *)
(***************************************************************************)
\* Which parts of the lines a step touches.
Still == UNCHANGED <<transcript, run.prompts, run.pending, steering, followUps>>

LEMMA QuietStays ==
    ASSUME TypeOK, BatchInv, HandsInv, QuietStep, ~ClearQueues, ~Reset
    PROVE  /\ Still /\ UNCHANGED <<handed, discarded>>
<1> USE DEF At, queues, history, Still
<1>1. CASE CallStep
  <2>1. run'.prompts = run.prompts /\ run'.pending = run.pending
    BY <1>1 DEF CallStep, LaunchCalls, StartCall, SkipCalls, RefuseCall,
       PrepareCall, FinishCall, TypeOK, RunState
  <2> QED
    BY <1>1, <2>1 DEF CallStep, LaunchCalls, StartCall, SkipCalls, RefuseCall,
       PrepareCall, FinishCall
<1>2. CASE EndTurn(<<>>, TRUE)
  <2>1. transcript' = transcript
    BY <1>2, ConcatEmptySeq DEF EndTurn, TypeOK
  <2>2. run'.prompts = run.prompts /\ run'.pending = run.pending
    BY <1>2 DEF EndTurn, Goto, TypeOK, RunState
  <2> QED
    BY <1>2, <2>1, <2>2 DEF EndTurn
<1>3. CASE FinishRun
  BY <1>3 DEF FinishRun, NoRun, HandsInv
<1>4. CASE EndBatch
  BY <1>4 DEF EndBatch, TypeOK, RunState
<1>5. CASE CallModel \/ (PrepareNextTurn(run.context) /\ UNCHANGED transcript)
  BY <1>5 DEF CallModel, PrepareNextTurn, Goto, TypeOK, RunState
<1>6. CASE Abort
  BY <1>6 DEF Abort, TypeOK, RunState
<1>7. CASE UNCHANGED agentVars
  BY <1>7 DEF agentVars
<1> QED
  BY <1>1, <1>2, <1>3, <1>4, <1>5, <1>6, <1>7 DEF QuietStep

LEMMA ToSetConcat ==
    ASSUME NEW S, NEW s \in Seq(S), NEW t \in Seq(S)
    PROVE  ToSet(s \o t) = ToSet(s) \cup ToSet(t)
<1>1. /\ DOMAIN s = 1..Len(s) /\ Len(s) \in Nat
      /\ DOMAIN t = 1..Len(t) /\ Len(t) \in Nat
      /\ DOMAIN (s \o t) = 1..(Len(s) + Len(t))
      /\ \A i \in 1..(Len(s) + Len(t)) :
           (s \o t)[i] = IF i <= Len(s) THEN s[i] ELSE t[i - Len(s)]
  BY ConcatProperties, LenProperties
<1>2. ASSUME NEW i \in DOMAIN s
      PROVE  i \in DOMAIN (s \o t) /\ (s \o t)[i] = s[i]
  BY <1>1
<1>3. ASSUME NEW i \in DOMAIN t
      PROVE  Len(s) + i \in DOMAIN (s \o t) /\ (s \o t)[Len(s) + i] = t[i]
  BY <1>1
<1>4. ASSUME NEW i \in DOMAIN (s \o t)
      PROVE  \/ i \in DOMAIN s /\ (s \o t)[i] = s[i]
             \/ i - Len(s) \in DOMAIN t /\ (s \o t)[i] = t[i - Len(s)]
  BY <1>1
<1>5. ToSet(s) \subseteq ToSet(s \o t)
  BY <1>2 DEF ToSet
<1>6. ToSet(t) \subseteq ToSet(s \o t)
  BY <1>3 DEF ToSet
<1>7. ToSet(s \o t) \subseteq ToSet(s) \cup ToSet(t)
  BY <1>4 DEF ToSet
<1> QED
  BY <1>5, <1>6, <1>7

\* A part in the middle is lost.
LEMMA Lose ==
    ASSUME NEW a \in Seq(Message), NEW b \in Seq(Message), NEW c \in Seq(Message),
           NEW ways, NEW way, NEW lost, NEW gone, DOMAIN ways \subseteq Nat,
           KnownLine(a \o (b \o c), ways), Ordered(a \o (b \o c), ways, way, lost),
           \A t \in DOMAIN ways : ways[t] = way =>
              (t \in gone <=> t \in Texts(b, ways, way))
    PROVE  Ordered(a \o c, ways, way, lost \cup gone)
<1>2. /\ Rising(a \o c, ways, way)
      /\ Texts(a \o c, ways, way) = Texts(a \o (b \o c), ways, way) \ Texts(b, ways, way)
  <2>1. Rising(a \o (b \o c), ways, way)
    BY DEF Ordered
  <2> QED
    BY <2>1, TakeOut
<1>3. Texts(a \o c, ways, way) = {t \in DOMAIN ways : ways[t] = way} \ (lost \cup gone)
  <2> DEFINE mine == {t \in DOMAIN ways : ways[t] = way}
             own == Texts(b, ways, way)
             all == Texts(a \o (b \o c), ways, way)
             rest == Texts(a \o c, ways, way)
  <2>1. \A t \in mine : t \in gone <=> t \in own
    OBVIOUS
  <2>2. all = mine \ lost
    BY DEF Ordered
  <2>3. rest = all \ own
    BY <1>2
  <2> HIDE DEF mine, own, all, rest
  <2>4. rest = mine \ (lost \cup gone)
    BY <2>1, <2>2, <2>3
  <2> QED
    BY <2>4 DEF mine, rest
<1> QED
  BY <1>2, <1>3 DEF Ordered

\* Other messages come in between.
LEMMA Gain ==
    ASSUME NEW a \in Seq(Message), NEW b \in Seq(Message), NEW c \in Seq(Message),
           NEW ways, NEW way, NEW lost, Own(b, ways, way) = {},
           Ordered(a \o c, ways, way, lost)
    PROVE  Ordered(a \o (b \o c), ways, way, lost)
  BY PutIn DEF Ordered

\* The head of the messages in hand goes to the transcript.
LEMMA MoveHead ==
    ASSUME NEW a \in Seq(Message), NEW c \in Seq(Message),
           NEW texts \in Seq(Text), texts # <<>>
    PROVE  Append(a, User(Head(texts))) \o (Users(Tail(texts)) \o c)
              = a \o (Users(texts) \o c)
<1> DEFINE u == User(Head(texts))
           r == Users(Tail(texts))
<1>1. Head(texts) \in Text /\ Tail(texts) \in Seq(Text)
  BY HeadTailProperties
<1>2. u \in Message /\ <<u>> \in Seq(Message) /\ r \in Seq(Message)
  <2>1. u \in Message
    BY <1>1 DEF User, Message
  <2>2. \A m \in Message : <<m>> \in Seq(Message)
    OBVIOUS
  <2> QED
    BY <1>1, <2>1, <2>2, UsersProperties
<1>3. Users(texts) = <<u>> \o r
  <2>1. Len(texts) \in Nat /\ Len(texts) > 0 /\ Head(texts) = texts[1]
    BY EmptySeq, LenProperties
  <2>2. /\ Len(Tail(texts)) = Len(texts) - 1
        /\ \A i \in 1..(Len(texts) - 1) : Tail(texts)[i] = texts[i + 1]
    BY HeadTailProperties
  <2>3. /\ Users(texts) \in Seq(Message) /\ Len(Users(texts)) = Len(texts)
        /\ \A i \in 1..Len(texts) : Users(texts)[i] = User(texts[i])
    BY UsersProperties
  <2>4. /\ Len(r) = Len(texts) - 1
        /\ \A i \in 1..(Len(texts) - 1) : r[i] = User(texts[i + 1])
    BY <1>1, <2>2, UsersProperties
  <2> HIDE DEF u, r
  <2>5. Len(<<u>>) = 1 /\ <<u>>[1] = u
    OBVIOUS
  <2>6. /\ <<u>> \o r \in Seq(Message) /\ Len(<<u>> \o r) = Len(texts)
        /\ \A i \in 1..Len(texts) :
             (<<u>> \o r)[i] = IF i <= 1 THEN <<u>>[i] ELSE r[i - 1]
    <3>1. /\ <<u>> \o r \in Seq(Message) /\ Len(<<u>> \o r) = Len(<<u>>) + Len(r)
          /\ \A i \in 1..(Len(<<u>>) + Len(r)) :
               (<<u>> \o r)[i] = IF i <= Len(<<u>>) THEN <<u>>[i] ELSE r[i - Len(<<u>>)]
      BY <1>2, ConcatProperties, Zenon
    <3>2. Len(<<u>>) + Len(r) = Len(texts)
      BY <2>1, <2>4, <2>5
    <3> QED
      BY <2>5, <3>1, <3>2, Zenon
  <2>7. ASSUME NEW i \in 1..Len(texts)
        PROVE  Users(texts)[i] = (<<u>> \o r)[i]
    <3>1. CASE i = 1
      <4>1. (<<u>> \o r)[i] = u
        BY <2>1, <2>5, <2>6, <3>1
      <4> QED
        BY <2>1, <2>3, <3>1, <4>1 DEF u
    <3>2. CASE i # 1
      <4>1. (<<u>> \o r)[i] = r[i - 1] /\ i - 1 \in 1..(Len(texts) - 1) /\ i - 1 + 1 = i
        BY <2>1, <2>6, <3>2
      <4> QED
        BY <2>3, <2>4, <4>1
    <3> QED
      BY <3>1, <3>2
  <2> QED
    BY <2>3, <2>6, <2>7, SeqEqual
<1>4. Append(a, u) = a \o <<u>>
  BY <1>2, AppendIsConcat
<1> HIDE DEF u, r
<1>5. (a \o <<u>>) \o (r \o c) = a \o (<<u>> \o (r \o c))
  <2>1. r \o c \in Seq(Message)
    BY <1>2, ConcatProperties
  <2> QED
    BY <1>2, <2>1, Regroup
<1>6. <<u>> \o (r \o c) = (<<u>> \o r) \o c
  BY <1>2, Regroup
<1> QED
  BY <1>3, <1>4, <1>5, <1>6 DEF u, r

\* What a step does to the parts of the lines.
PollsQueue(way, mode) ==
    /\ UNCHANGED <<transcript, handed, discarded>>
    /\ Hand = <<>> /\ Hand' = Drained(Waiting(way), mode)
    /\ Waiting(way)' = Rest(Waiting(way), mode)
    /\ \A w \in Ways \ {way} : Waiting(w)' = Waiting(w)
StillLines ==
    /\ UNCHANGED <<transcript, handed, discarded>>
    /\ Hand' = Hand /\ \A w \in Ways : Waiting(w)' = Waiting(w)
HandsOver(way) ==
    /\ UNCHANGED <<transcript, discarded>> /\ HandOver(way)
    /\ \/ /\ way = "prompt" /\ Hand = <<>> /\ Hand' = <<Len(handed')>>
          /\ \A w \in Ways : Waiting(w)' = Waiting(w)
       \/ /\ way # "prompt" /\ Hand' = Hand
          /\ Waiting(way)' = Append(Waiting(way), Len(handed'))
          /\ \A w \in Ways \ {way} : Waiting(w)' = Waiting(w)

LEMMA HandsAre ==
    ASSUME TypeOK, HandsInv
    PROVE  /\ run.prompts = <<>> => Hand = run.pending
           /\ run.pending = <<>> => Hand = run.prompts
           /\ ~At("prompts") => run.prompts = <<>>
           /\ run.pc \notin {"inject", "prepare", "repoll"} => run.pending = <<>>
<1>1. run.prompts \in Seq(Text) /\ run.pending \in Seq(Text)
  BY DEF TypeOK, RunState
<1> QED
  BY <1>1, ConcatEmptySeq DEF Hand, HandsInv

LEMMA PollSteps ==
    ASSUME TypeOK, HandsInv,
           \/ InitialPoll \/ PollSteering \/ PollFollowUps \/ RepollSteering \/ Continue
    PROVE  \/ StillLines
           \/ PollsQueue("steer", SteeringMode)
           \/ PollsQueue("followUp", FollowUpMode)
<1> USE DEF queues, history, At
<1>0. /\ Waiting("steer") = steering /\ Waiting("followUp") = followUps
      /\ Waiting("prompt") = <<>> /\ Waiting("steer")' = steering'
      /\ Waiting("followUp")' = followUps' /\ Waiting("prompt")' = <<>>
      /\ Ways = {"prompt", "steer", "followUp"}
  BY DEF Waiting, Ways
<1>1. /\ run.prompts \in Seq(Text) /\ run.pending \in Seq(Text)
      /\ <<>> \in Seq(Text) /\ Steered \in Seq(Text) /\ FollowedUp \in Seq(Text)
  <2>1. /\ steering \in Seq(Text) /\ followUps \in Seq(Text)
        /\ SteeringMode \in QueueModes /\ FollowUpMode \in QueueModes
    BY AgentAssumption DEF TypeOK
  <2> QED
    BY <2>1, EmptySeq, DrainProperties DEF TypeOK, RunState, Steered, FollowedUp
<1>2. \A s \in Seq(Text) : s \o <<>> = s /\ <<>> \o s = s
  BY ConcatEmptySeq
<1>3. CASE InitialPoll
  <2>1. /\ run.prompts = <<>> /\ run.pending = <<>> /\ run'.prompts = <<>>
        /\ run'.pending = IF run.skip THEN <<>> ELSE Steered
        /\ steering' = IF run.skip THEN steering ELSE Rest(steering, SteeringMode)
        /\ UNCHANGED <<transcript, handed, discarded, followUps>>
    BY <1>3, HandsAre DEF InitialPoll, TypeOK, RunState
  <2>2. Hand = <<>> /\ Hand' = run'.pending
    BY <1>1, <1>2, <2>1 DEF Hand
  <2>3. CASE run.skip
    BY <1>0, <2>1, <2>2, <2>3 DEF StillLines
  <2>4. CASE ~run.skip
    BY <1>0, <2>1, <2>2, <2>4 DEF PollsQueue, Steered
  <2> QED
    BY <2>3, <2>4
<1>4. CASE PollSteering
  <2>1. /\ run.prompts = <<>> /\ run.pending = <<>> /\ run'.prompts = <<>>
        /\ run'.pending = Steered /\ steering' = Rest(steering, SteeringMode)
        /\ UNCHANGED <<transcript, handed, discarded, followUps>>
    BY <1>4, HandsAre DEF PollSteering, TypeOK, RunState
  <2>2. Hand = <<>> /\ Hand' = Steered
    BY <1>1, <1>2, <2>1 DEF Hand
  <2> QED
    BY <1>0, <2>1, <2>2 DEF PollsQueue, Steered
<1>5. CASE PollFollowUps
  <2>1. /\ run.prompts = <<>> /\ run.pending = <<>> /\ run'.prompts = <<>>
        /\ run'.pending = FollowedUp /\ followUps' = Rest(followUps, FollowUpMode)
        /\ UNCHANGED <<transcript, handed, discarded, steering>>
    BY <1>5, HandsAre DEF PollFollowUps, TypeOK, RunState
  <2>2. Hand = <<>> /\ Hand' = FollowedUp
    BY <1>1, <1>2, <2>1 DEF Hand
  <2> QED
    BY <1>0, <2>1, <2>2 DEF PollsQueue, FollowedUp
<1>6. CASE RepollSteering
  <2>1. /\ run.pc = "repoll" /\ UNCHANGED <<transcript, handed, discarded, followUps>>
        /\ IF run.pending = <<>>
           THEN /\ run' = [run EXCEPT !.pc = "inject", !.pending = Steered]
                /\ steering' = Rest(steering, SteeringMode)
           ELSE run' = [run EXCEPT !.pc = "inject"] /\ steering' = steering
    BY <1>6, Zenon DEF RepollSteering, Goto
  <2>2. run.prompts = <<>> /\ run'.prompts = <<>>
    BY <2>1, HandsAre DEF TypeOK, RunState
  <2>3. CASE run.pending = <<>>
    <3>1. run'.pending = Steered /\ steering' = Rest(steering, SteeringMode)
      BY <2>1, <2>3 DEF TypeOK, RunState
    <3>2. Hand = <<>> /\ Hand' = Steered
      BY <1>1, <1>2, <2>2, <2>3, <3>1 DEF Hand
    <3> QED
      BY <1>0, <2>1, <3>1, <3>2 DEF PollsQueue, Steered
  <2>4. CASE run.pending # <<>>
    <3>1. run'.pending = run.pending /\ steering' = steering
      BY <2>1, <2>4 DEF TypeOK, RunState
    <3>2. Hand' = Hand
      BY <2>2, <3>1 DEF Hand
    <3> QED
      BY <1>0, <2>1, <3>1, <3>2 DEF StillLines
  <2> QED
    BY <2>3, <2>4
<1>7. CASE Continue
  <2>1. run.prompts = <<>> /\ run.pending = <<>>
    BY <1>7, HandsAre DEF Continue, Active
  <2>2. ASSUME NEW prompts \in Seq(Text), NEW skip, Start(prompts, skip)
        PROVE  Hand = <<>> /\ Hand' = prompts
    <3>1. run'.prompts = prompts /\ run'.pending = <<>>
      BY <2>2 DEF Start, NoRun
    <3> QED
      BY <1>1, <1>2, <2>1, <3>1 DEF Hand
  <2>3. UNCHANGED <<transcript, handed, discarded>>
    BY <1>7 DEF Continue
  <2>4. CASE Start(<<>>, FALSE) /\ UNCHANGED queues
    BY <1>0, <1>1, <2>2, <2>3, <2>4 DEF StillLines
  <2>5. CASE /\ Start(Steered, TRUE) /\ steering' = Rest(steering, SteeringMode)
             /\ UNCHANGED followUps
    BY <1>0, <1>1, <2>2, <2>3, <2>5 DEF PollsQueue, Steered
  <2>6. CASE /\ Start(FollowedUp, FALSE) /\ followUps' = Rest(followUps, FollowUpMode)
             /\ UNCHANGED steering
    BY <1>0, <1>1, <2>2, <2>3, <2>6 DEF PollsQueue, FollowedUp
  <2> QED
    BY <1>7, <2>4, <2>5, <2>6 DEF Continue
<1> QED
  BY <1>3, <1>4, <1>5, <1>6, <1>7

LEMMA HandOverSteps ==
    ASSUME TypeOK, HandsInv, Prompt \/ Steer \/ FollowUp
    PROVE  \E way \in Ways : HandsOver(way)
<1>0. /\ Waiting("steer") = steering /\ Waiting("followUp") = followUps
      /\ Waiting("prompt") = <<>> /\ Waiting("steer")' = steering'
      /\ Waiting("followUp")' = followUps' /\ Waiting("prompt")' = <<>>
      /\ Ways = {"prompt", "steer", "followUp"}
  BY DEF Waiting, Ways
<1>1. CASE Prompt
  <2>1. /\ run'.prompts = <<Len(handed')>> /\ run'.pending = <<>>
        /\ run.prompts = <<>> /\ run.pending = <<>>
    BY <1>1, HandsAre DEF Prompt, Start, NoRun, Active, At
  <2>2. Len(handed') \in Nat
    BY <1>1, HandedGrows, AppendProperties, LenProperties DEF Prompt, HandOver, TypeOK, Ways
  <2>3. <<Len(handed')>> \o <<>> = <<Len(handed')>> /\ <<>> \o <<>> = <<>>
    <3>1. <<Len(handed')>> \in Seq(Nat) /\ <<>> \in Seq(Nat)
      BY <2>2, EmptySeq
    <3> QED
      BY <3>1, ConcatEmptySeq
  <2>4. Hand = <<>> /\ Hand' = <<Len(handed')>>
    BY <2>1, <2>3 DEF Hand
  <2> QED
    BY <1>0, <1>1, <2>4 DEF HandsOver, Prompt, queues
<1>2. CASE Steer
  BY <1>0, <1>2 DEF HandsOver, Steer, Hand
<1>3. CASE FollowUp
  BY <1>0, <1>3 DEF HandsOver, FollowUp, Hand
<1> QED
  BY <1>1, <1>2, <1>3

(***************************************************************************)
(* Each step keeps the order.                                              *)
(***************************************************************************)
\* Each kind of step keeps the order of each way.
LEMMA StillOrder ==
    ASSUME OrderInv, StillLines, NEW way \in Ways
    PROVE  Ordered(Line(way), handed, way, discarded)'
  BY DEF OrderInv, StillLines, Line

LEMMA PollOrder ==
    ASSUME TypeOK, HandedInv, OrderInv, NEW way \in Ways,
           NEW polled \in {"steer", "followUp"}, NEW mode \in QueueModes,
           PollsQueue(polled, mode)
    PROVE  Ordered(Line(way), handed, way, discarded)'
<1> DEFINE drained == Drained(Waiting(polled), mode)
<1>1. polled \in Ways
  BY DEF Ways
<1>2. Waiting(polled) \in Seq(Text) /\ Waiting(way) \in Seq(Text)
      /\ transcript \in Seq(Message) /\ Users(Waiting(way)) \in Seq(Message)
  BY <1>1, LineParts
<1>3. drained \in Seq(Text) /\ Rest(Waiting(polled), mode) \in Seq(Text)
      /\ \A i \in DOMAIN drained : i \in DOMAIN Waiting(polled) /\ drained[i] = Waiting(polled)[i]
  BY <1>2, DrainProperties
<1>4. Line(way) = transcript \o Users(Waiting(way))
  BY HandEmpty DEF PollsQueue
<1>5. Ordered(Line(way), handed, way, discarded)
  BY DEF OrderInv
<1>6. Line(way)' = transcript \o (Users(drained) \o Users(Waiting(way)'))
  BY DEF Line, PollsQueue
<1>7. CASE way = polled
  <2>1. Users(drained) \o Users(Waiting(way)') = Users(Waiting(way))
    <3>1. Waiting(way)' = Rest(Waiting(polled), mode)
      BY <1>7 DEF PollsQueue
    <3>2. drained \o Rest(Waiting(polled), mode) = Waiting(polled)
      BY <1>2, DrainConcat
    <3>3. Users(drained \o Rest(Waiting(polled), mode))
            = Users(drained) \o Users(Rest(Waiting(polled), mode))
      BY <1>3, UsersConcat
    <3> QED
      BY <1>7, <3>1, <3>2, <3>3
  <2> QED
    BY <1>4, <1>5, <1>6, <2>1 DEF PollsQueue
<1>8. CASE way # polled
  <2>1. \A i \in DOMAIN drained : handed[drained[i]] # way
    <3>1. \A i \in DOMAIN Waiting(polled) : handed[Waiting(polled)[i]] = polled
      BY DEF HandedInv, Waiting
    <3> QED
      BY <1>3, <1>8, <3>1
  <2>2. Own(Users(drained), handed, way) = {} /\ Users(drained) \in Seq(Message)
    BY <1>3, <2>1, UsersOwn, UsersProperties
  <2>3. Waiting(way)' = Waiting(way)
    BY <1>8 DEF PollsQueue
  <2>4. Ordered(transcript \o (Users(drained) \o Users(Waiting(way))), handed, way, discarded)
    BY <1>2, <1>4, <1>5, <2>2, Gain
  <2> QED
    BY <1>6, <2>3, <2>4 DEF PollsQueue
<1> QED
  BY <1>7, <1>8

LEMMA HandOverOrder ==
    ASSUME TypeOK, TypeOK', HandedInv, HandsInv, OrderInv, NEW way \in Ways,
           NEW given \in Ways, HandsOver(given)
    PROVE  Ordered(Line(way), handed, way, discarded)'
<1> DEFINE n == Len(handed')
           u == User(n)
<1>1. /\ DOMAIN handed = 1..Len(handed) /\ DOMAIN handed' = 1..n
      /\ n = Len(handed) + 1 /\ Len(handed) \in Nat /\ handed'[n] = given
      /\ \A t \in DOMAIN handed : t \in DOMAIN handed' /\ handed'[t] = handed[t]
  <2>1. handed \in Seq(Ways) /\ handed' = Append(handed, given)
    BY DEF TypeOK, HandsOver, HandOver
  <2>2. n = Len(handed) + 1
    BY <2>1, AppendProperties
  <2> QED
    BY <2>1, <2>2, HandedGrows, LenProperties DEF HandsOver
<1>2. n \in Text
  BY <1>1, AgentAssumption, LenProperties DEF HandsOver, HandOver, Text, TypeOK
<1>3. u \in Message /\ u.role = "user" /\ u.text = n /\ <<u>> \in Seq(Message)
  <2>1. u \in Message /\ u.role = "user" /\ u.text = n
    BY <1>2 DEF User, Message
  <2>2. \A m \in Message : <<m>> \in Seq(Message)
    OBVIOUS
  <2> QED
    BY <2>1, <2>2
<1>4. /\ Hand \in Seq(Text) /\ Waiting(way) \in Seq(Text)
      /\ transcript \in Seq(Message)
      /\ Users(Hand) \in Seq(Message) /\ Users(Waiting(way)) \in Seq(Message)
      /\ Line(way) \in Seq(Message) /\ KnownLine(Line(way), handed)
  BY LineParts
<1>5. <<n>> \in Seq(Text) /\ Users(<<n>>) = <<u>>
  <2>1. <<n>> \in Seq(Text) /\ Len(<<n>>) = 1 /\ <<n>>[1] = n
    BY <1>2
  <2>2. /\ Users(<<n>>) \in Seq(Message) /\ Len(Users(<<n>>)) = 1
        /\ Users(<<n>>)[1] = u
    <3>1. /\ Users(<<n>>) \in Seq(Message) /\ Len(Users(<<n>>)) = Len(<<n>>)
          /\ \A i \in 1..Len(<<n>>) : Users(<<n>>)[i] = User(<<n>>[i])
      BY <2>1, UsersProperties
    <3>2. 1 \in 1..Len(<<n>>)
      BY <2>1
    <3> QED
      BY <2>1, <3>1, <3>2
  <2>3. Len(<<u>>) = 1 /\ <<u>>[1] = u
    OBVIOUS
  <2> QED
    BY <1>3, <2>1, <2>2, <2>3, SeqEqual
<1> HIDE DEF u
<1>6. /\ Texts(Line(way), handed', way) = {t \in DOMAIN handed : handed[t] = way} \ discarded
      /\ Rising(Line(way), handed', way)
  <2>1. Ordered(Line(way), handed, way, discarded)
    BY DEF OrderInv
  <2>2. \A t \in DOMAIN handed : handed'[t] = handed[t]
    BY <1>1
  <2> QED
    <3>1. /\ Texts(Line(way), handed', way) = Texts(Line(way), handed, way)
          /\ Rising(Line(way), handed', way) <=> Rising(Line(way), handed, way)
      BY <1>4, <2>2, OwnStays, Zenon
    <3> QED
      BY <2>1, <3>1 DEF Ordered
<1>7. CASE way = given
  <2>1. Line(way)' = Append(Line(way), u)
    <3>1. CASE way = "prompt"
      <4>1. Hand = <<>> /\ Hand' = <<n>> /\ Waiting(way) = <<>> /\ Waiting(way)' = <<>>
        BY <1>7, <3>1 DEF HandsOver, Waiting
      <4>2. Users(<<>>) = <<>>
        <5>1. <<>> \in Seq(Text) /\ Len(<<>>) = 0
          BY EmptySeq
        <5>2. Users(<<>>) \in Seq(Message) /\ Len(Users(<<>>)) = 0
          BY <5>1, UsersProperties
        <5> QED
          BY <5>2, EmptySeq
      <4>3. Line(way) = transcript
        <5>1. Line(way) = transcript \o <<>>
          BY <4>1, <4>2, HandEmpty
        <5> QED
          BY <1>4, <5>1, ConcatEmptySeq
      <4>4. Line(way)' = transcript \o (<<u>> \o <<>>)
        BY <1>5, <4>1, <4>2 DEF Line, HandsOver
      <4> QED
        BY <1>3, <1>4, <4>3, <4>4, ConcatEmptySeq, AppendIsConcat
    <3>2. CASE way # "prompt"
      <4>1. Hand' = Hand /\ Waiting(way)' = Append(Waiting(way), n)
        BY <1>7, <3>2 DEF HandsOver
      <4>2. Users(Waiting(way)') = Users(Waiting(way)) \o <<u>>
        <5>1. Waiting(way)' = Waiting(way) \o <<n>>
          BY <1>2, <1>4, <4>1, AppendIsConcat
        <5>2. Users(Waiting(way) \o <<n>>) = Users(Waiting(way)) \o Users(<<n>>)
          BY <1>4, <1>5, UsersConcat
        <5> QED
          BY <1>5, <5>1, <5>2
      <4>3. Line(way)' = transcript \o (Users(Hand) \o (Users(Waiting(way)) \o <<u>>))
        BY <4>1, <4>2 DEF Line, HandsOver
      <4>4. Users(Hand) \o (Users(Waiting(way)) \o <<u>>)
              = (Users(Hand) \o Users(Waiting(way))) \o <<u>>
        BY <1>3, <1>4, Regroup
      <4>5. Users(Hand) \o Users(Waiting(way)) \in Seq(Message)
        BY <1>4, ConcatProperties
      <4>6. transcript \o ((Users(Hand) \o Users(Waiting(way))) \o <<u>>) = Line(way) \o <<u>>
        <5> DEFINE rest == Users(Hand) \o Users(Waiting(way))
        <5>1. rest \in Seq(Message) /\ Line(way) = transcript \o rest
          BY <4>5 DEF Line
        <5> HIDE DEF rest
        <5>2. transcript \o (rest \o <<u>>) = (transcript \o rest) \o <<u>>
          BY <1>3, <1>4, <5>1, Regroup
        <5> QED
          BY <5>1, <5>2 DEF rest
      <4> QED
        BY <1>3, <1>4, <4>3, <4>4, <4>6, AppendIsConcat
    <3> QED
      BY <3>1, <3>2
  <2>2. Below(Line(way), handed', way, u.text)
    BY <1>1, <1>3, <1>4 DEF Own, KnownLine, Below
  <2>3. /\ Rising(Append(Line(way), u), handed', way)
        /\ Texts(Append(Line(way), u), handed', way) = Texts(Line(way), handed', way) \cup {n}
    <3>1. handed'[u.text] = way
      BY <1>1, <1>3, <1>7
    <3> QED
      <4> DEFINE line == Line(way)
                 more == handed'
      <4>1. line \in Seq(Message) /\ Rising(line, more, way) /\ Below(line, more, way, u.text)
            /\ more[u.text] = way
        BY <1>4, <1>6, <2>2, <3>1
      <4> HIDE DEF line, more
      <4>2. /\ Rising(Append(line, u), more, way)
            /\ Texts(Append(line, u), more, way) = Texts(line, more, way) \cup {u.text}
        <5>1. u \in Message /\ u.role = "user"
          BY <1>3
        <5> QED
          BY <4>1, <5>1, PutLast, ZenonT(30)
      <4> QED
        BY <1>3, <4>2 DEF line, more
  <2>4. {t \in DOMAIN handed' : handed'[t] = way} \ discarded
          = ({t \in DOMAIN handed : handed[t] = way} \ discarded) \cup {n}
    <3>1. n \notin discarded
      BY <1>1 DEF HandsInv
    <3>2. DOMAIN handed' = DOMAIN handed \cup {n}
      BY <1>1
    <3> QED
      BY <1>1, <1>7, <3>1, <3>2
  <2> QED
    BY <1>6, <2>1, <2>3, <2>4 DEF Ordered, HandsOver
<1>8. CASE way # given
  <2>1. {t \in DOMAIN handed' : handed'[t] = way} = {t \in DOMAIN handed : handed[t] = way}
    <3>1. DOMAIN handed' = DOMAIN handed \cup {n} /\ n \notin DOMAIN handed
      BY <1>1
    <3> QED
      BY <1>1, <1>8, <3>1
  <2>2. Ordered(Line(way), handed', way, discarded)
    BY <1>6, <2>1 DEF Ordered
  <2>3. Waiting(way)' = Waiting(way)
    BY <1>8 DEF HandsOver
  <2>4. CASE Hand' = Hand
    BY <2>2, <2>3, <2>4 DEF Line, HandsOver
  <2>5. CASE Hand' # Hand
    <3>1. Hand = <<>> /\ Hand' = <<n>>
      BY <2>5 DEF HandsOver
    <3>2. Line(way) = transcript \o Users(Waiting(way))
      BY <3>1, HandEmpty
    <3>3. Own(<<u>>, handed', way) = {}
      <4>1. \A i \in DOMAIN <<n>> : handed'[<<n>>[i]] # way
        BY <1>1, <1>8
      <4> QED
        BY <1>5, <4>1, UsersOwn
    <3>4. Ordered(transcript \o (<<u>> \o Users(Waiting(way))), handed', way, discarded)
      BY <1>3, <1>4, <2>2, <3>2, <3>3, Gain
    <3> QED
      BY <1>5, <2>3, <3>1, <3>4 DEF Line, HandsOver
  <2> QED
    BY <2>4, <2>5
<1> QED
  BY <1>7, <1>8

\* Messages in hand or queued are lost.
LEMMA QuietOrder ==
    ASSUME TypeOK, BatchInv, HandedInv, HandsInv, OrderInv, QuietStep, NEW way \in Ways
    PROVE  Ordered(Line(way), handed, way, discarded)'
<1>0. /\ Hand \in Seq(Text) /\ Waiting(way) \in Seq(Text)
      /\ transcript \in Seq(Message)
      /\ Users(Hand) \in Seq(Message) /\ Users(Waiting(way)) \in Seq(Message)
      /\ Line(way) \in Seq(Message) /\ KnownLine(Line(way), handed)
      /\ steering \in Seq(Text) /\ followUps \in Seq(Text)
  BY LineParts DEF TypeOK
<1>1. <<>> \in Seq(Message) /\ Users(<<>>) = <<>>
  <2>1. <<>> \in Seq(Text) /\ Len(<<>>) = 0
    BY EmptySeq
  <2>2. Users(<<>>) \in Seq(Message) /\ Len(Users(<<>>)) = 0
    BY <2>1, UsersProperties
  <2> QED
    BY <2>2, EmptySeq
<1>2. CASE ClearQueues
  <2>1. /\ UNCHANGED <<transcript, run, handed>>
        /\ steering' = <<>> /\ followUps' = <<>>
        /\ discarded' = discarded \cup ToSet(steering \o followUps)
    BY <1>2 DEF ClearQueues
  <2>2. Hand' = Hand /\ Waiting(way)' = <<>>
    BY <2>1 DEF Hand, Waiting
  <2> DEFINE shown == transcript \o Users(Hand)
             lost == Users(Waiting(way))
  <2>3. shown \in Seq(Message) /\ lost \in Seq(Message)
    BY <1>0, ConcatProperties
  <2>4. Line(way) = shown \o (lost \o <<>>)
    <3>1. lost \o <<>> = lost
      BY <1>0, ConcatEmptySeq
    <3>2. (transcript \o Users(Hand)) \o lost = transcript \o (Users(Hand) \o lost)
      <4>1. /\ transcript \in Seq(Message) /\ Users(Hand) \in Seq(Message)
            /\ lost \in Seq(Message)
        BY <1>0
      <4> HIDE DEF lost
      <4> QED
        BY <4>1, Regroup
    <3> QED
      BY <3>1, <3>2 DEF Line
  <2>5. Line(way)' = shown \o <<>>
    <3>1. Line(way)' = transcript \o (Users(Hand) \o <<>>)
      BY <1>1, <2>1, <2>2 DEF Line
    <3> QED
      BY <1>0, <2>3, <3>1, ConcatEmptySeq
  <2>6. \A t \in DOMAIN handed : handed[t] = way =>
          (t \in ToSet(steering \o followUps) <=> t \in Texts(lost, handed, way))
    <3>1. ToSet(steering \o followUps) = ToSet(steering) \cup ToSet(followUps)
      BY <1>0, ToSetConcat
    <3>2. Texts(lost, handed, way) = {t \in ToSet(Waiting(way)) : handed[t] = way}
      BY <1>0, UsersOwn
    <3>3. /\ \A t \in ToSet(steering) : handed[t] = "steer"
          /\ \A t \in ToSet(followUps) : handed[t] = "followUp"
      BY DEF HandedInv, ToSet
    <3>4. /\ way = "steer" => Waiting(way) = steering
          /\ way = "followUp" => Waiting(way) = followUps
          /\ way = "prompt" => ToSet(Waiting(way)) = {}
      BY DEF Waiting, ToSet
    <3> QED
      BY <3>1, <3>2, <3>3, <3>4 DEF Ways
  <2>7. DOMAIN handed \subseteq Nat
    BY LenProperties DEF TypeOK
  <2>8. Ordered(shown \o (lost \o <<>>), handed, way, discarded)
        /\ KnownLine(shown \o (lost \o <<>>), handed)
    BY <1>0, <2>4 DEF OrderInv
  <2> HIDE DEF shown, lost
  <2>9. Ordered(shown \o <<>>, handed, way, discarded \cup ToSet(steering \o followUps))
    BY <1>1, <2>3, <2>6, <2>7, <2>8, Lose
  <2> QED
    BY <2>1, <2>5, <2>9
<1>3. CASE Reset
  <2>1. /\ run.prompts = <<>> /\ run.pending = <<>> /\ run' = run
        /\ transcript' = <<>> /\ steering' = <<>> /\ followUps' = <<>>
        /\ handed' = handed /\ discarded' = DOMAIN handed
    BY <1>3, HandsAre DEF Reset, Active, At
  <2>2. Hand' = <<>> /\ Waiting(way)' = <<>>
    <3>1. <<>> \o <<>> = <<>>
      BY <1>1, ConcatEmptySeq
    <3> QED
      BY <2>1, <3>1 DEF Hand, Waiting
  <2>3. Line(way)' = <<>>
    BY <1>1, <2>1, <2>2, ConcatEmptySeq DEF Line
  <2>4. Own(<<>>, handed, way) = {}
    BY DEF Own
  <2> QED
    BY <2>1, <2>3, <2>4 DEF Ordered, Texts, Rising
<1>4. CASE ~ClearQueues /\ ~Reset
  <2>1. Still /\ UNCHANGED <<handed, discarded>>
    BY <1>4, QuietStays
  <2>2. StillLines
    BY <2>1 DEF Still, StillLines, Hand, Waiting
  <2> QED
    BY <2>2, StillOrder
<1> QED
  BY <1>2, <1>3, <1>4

LEMMA AnswerOrder ==
    ASSUME TypeOK, BatchInv, HandedInv, HandsInv, OrderInv, AnswerStep, NEW way \in Ways
    PROVE  Ordered(Line(way), handed, way, discarded)'
<1>0. /\ Hand \in Seq(Text) /\ Waiting(way) \in Seq(Text)
      /\ transcript \in Seq(Message)
      /\ Users(Hand) \in Seq(Message) /\ Users(Waiting(way)) \in Seq(Message)
      /\ Line(way) \in Seq(Message) /\ KnownLine(Line(way), handed)
  BY LineParts
<1>1. /\ UNCHANGED <<handed, queues>> /\ run'.prompts = run.prompts
      /\ \E m \in Message : m.role # "user" /\ transcript' = Append(transcript, m)
  BY AnswerKeeps
<1>2. PICK m \in Message : m.role # "user" /\ transcript' = Append(transcript, m)
  BY <1>1
<1>3. <<m>> \in Seq(Message) /\ transcript' = transcript \o <<m>>
  <2>1. \A x \in Message : <<x>> \in Seq(Message)
    OBVIOUS
  <2> QED
    BY <1>0, <1>2, <2>1, AppendIsConcat
<1>4. Own(<<m>>, handed, way) = {}
  BY <1>2 DEF Own
<1>5. Waiting(way)' = Waiting(way)
  BY <1>1 DEF Waiting, queues
<1>6. ASSUME NEW c \in Seq(Message)
      PROVE  (transcript \o <<m>>) \o c = transcript \o (<<m>> \o c)
  BY <1>0, <1>3, Regroup, SMTT(30)
<1>7. CASE Throw
  <2>1. /\ run.prompts = <<>> /\ run'.prompts = <<>> /\ run'.pending = <<>>
        /\ discarded' = discarded \cup ToSet(run.pending)
    BY <1>1, <1>7, HandsAre DEF Throw, At, TypeOK, RunState
  <2>2. Hand = run.pending /\ Hand' = <<>>
    <3>1. <<>> \in Seq(Text) /\ <<>> \o <<>> = <<>>
      BY EmptySeq, ConcatEmptySeq
    <3> QED
      BY <2>1, <3>1, HandsAre DEF Hand
  <2>3. Users(<<>>) = <<>>
    <3>1. <<>> \in Seq(Text) /\ Len(<<>>) = 0
      BY EmptySeq
    <3>2. Users(<<>>) \in Seq(Message) /\ Len(Users(<<>>)) = 0
      BY <3>1, UsersProperties
    <3> QED
      BY <3>2, EmptySeq
  <2>4. Line(way)' = transcript \o (<<m>> \o Users(Waiting(way)))
    <3>1. Line(way)' = (transcript \o <<m>>) \o (<<>> \o Users(Waiting(way)))
      BY <1>3, <1>5, <2>2, <2>3 DEF Line
    <3> QED
      BY <1>0, <1>6, <3>1, ConcatEmptySeq
  <2>5. \A t \in DOMAIN handed : handed[t] = way =>
          (t \in ToSet(run.pending) <=> t \in Texts(Users(Hand), handed, way))
    BY <1>0, <2>2, UsersOwn
  <2>6. DOMAIN handed \subseteq Nat
    BY LenProperties DEF TypeOK
  <2>7. /\ Ordered(transcript \o (Users(Hand) \o Users(Waiting(way))), handed, way, discarded)
        /\ KnownLine(transcript \o (Users(Hand) \o Users(Waiting(way))), handed)
    BY <1>0 DEF OrderInv, Line
  <2>8. Ordered(transcript \o Users(Waiting(way)), handed, way,
                discarded \cup ToSet(run.pending))
    BY <1>0, <2>5, <2>6, <2>7, Lose
  <2>9. Ordered(transcript \o (<<m>> \o Users(Waiting(way))), handed, way,
                discarded \cup ToSet(run.pending))
    BY <1>0, <1>3, <1>4, <2>8, Gain
  <2> QED
    BY <1>1, <2>1, <2>4, <2>9
<1>8. CASE ~Throw
  <2>1. run'.pending = run.pending /\ discarded' = discarded
    <3>1. CASE Respond
      BY <3>1 DEF Respond, Receive, TypeOK, RunState
    <3>2. CASE RespondFailed
      BY <3>2 DEF RespondFailed, Receive, TypeOK, RunState
    <3>3. CASE RespondWithCalls
      BY <3>3 DEF RespondWithCalls, Receive, TypeOK, RunState
    <3>4. ASSUME NEW i \in 1..MaxCalls, SendResult(i)
          PROVE  run'.pending = run.pending /\ discarded' = discarded
      BY <3>4 DEF SendResult, TypeOK, RunState, history
    <3> QED
      BY <1>8, <3>1, <3>2, <3>3, <3>4 DEF AnswerStep
  <2>2. Hand' = Hand
    BY <1>1, <2>1 DEF Hand
  <2> DEFINE rest == Users(Hand) \o Users(Waiting(way))
  <2>3. rest \in Seq(Message)
    BY <1>0, ConcatProperties
  <2>4. Line(way)' = (transcript \o <<m>>) \o rest /\ Line(way) = transcript \o rest
    BY <1>3, <1>5, <2>2 DEF Line
  <2>5. Ordered(Line(way), handed, way, discarded)
    BY DEF OrderInv
  <2> HIDE DEF rest
  <2>6. Ordered(transcript \o (<<m>> \o rest), handed, way, discarded)
    BY <1>0, <1>3, <1>4, <2>3, <2>4, <2>5, Gain
  <2> QED
    BY <1>1, <1>6, <2>1, <2>3, <2>4, <2>6
<1> QED
  BY <1>7, <1>8

LEMMA MoveOrder ==
    ASSUME TypeOK, BatchInv, HandedInv, HandsInv, OrderInv,
           EmitPrompt \/ InjectPending, NEW way \in Ways
    PROVE  Ordered(Line(way), handed, way, discarded)'
<1>0. /\ Hand \in Seq(Text) /\ transcript \in Seq(Message)
      /\ Users(Waiting(way)) \in Seq(Message)
      /\ run.prompts \in Seq(Text) /\ run.pending \in Seq(Text) /\ <<>> \in Seq(Text)
  BY LineParts, EmptySeq DEF TypeOK, RunState
<1>1. /\ Hand # <<>> /\ Hand' = Tail(Hand)
      /\ transcript' = Append(transcript, User(Head(Hand)))
      /\ UNCHANGED <<handed, discarded, queues>>
  <2>1. CASE EmitPrompt
    <3>1. /\ run.pending = <<>> /\ run.prompts # <<>> /\ run'.pending = <<>>
          /\ run'.prompts = Tail(run.prompts)
          /\ transcript' = Append(transcript, User(Head(run.prompts)))
          /\ UNCHANGED <<handed, discarded, queues>>
      BY <2>1, HandsAre DEF EmitPrompt, Emit, At, TypeOK, RunState, history
    <3>2. Tail(run.prompts) \in Seq(Text)
      BY <1>0, <3>1, HeadTailProperties
    <3> QED
      BY <1>0, <3>1, <3>2, ConcatEmptySeq DEF Hand
  <2>2. CASE InjectPending
    <3>1. /\ run.prompts = <<>> /\ run.pending # <<>> /\ run'.prompts = <<>>
          /\ run'.pending = Tail(run.pending)
          /\ transcript' = Append(transcript, User(Head(run.pending)))
          /\ UNCHANGED <<handed, discarded, queues>>
      BY <2>2, HandsAre DEF InjectPending, Emit, At, TypeOK, RunState, history
    <3>2. Tail(run.pending) \in Seq(Text)
      BY <1>0, <3>1, HeadTailProperties
    <3> QED
      BY <1>0, <3>1, <3>2, ConcatEmptySeq DEF Hand
  <2> QED
    BY <2>1, <2>2
<1>2. Waiting(way)' = Waiting(way)
  BY <1>1 DEF Waiting, queues
<1>3. Line(way)' = Line(way)
  <2>1. Line(way)' = Append(transcript, User(Head(Hand)))
                       \o (Users(Tail(Hand)) \o Users(Waiting(way)))
    BY <1>1, <1>2 DEF Line
  <2> QED
    BY <1>0, <1>1, <2>1, MoveHead DEF Line
<1> QED
  BY <1>1, <1>3 DEF OrderInv

LEMMA OrderStep ==
    ASSUME TypeOK, TypeOK', BatchInv, HandedInv, HandsInv, OrderInv, [Next]_agentVars
    PROVE  OrderInv'
<1> SUFFICES ASSUME NEW way \in Ways
             PROVE  Ordered(Line(way), handed, way, discarded)'
  BY DEF OrderInv, Ways
<1>1. CASE QuietStep
  BY <1>1, QuietOrder
<1>2. CASE AnswerStep
  BY <1>2, AnswerOrder
<1>3. CASE EmitPrompt \/ InjectPending
  BY <1>3, MoveOrder
<1>4. CASE InitialPoll \/ PollSteering \/ PollFollowUps \/ RepollSteering \/ Continue
  <2>1. SteeringMode \in QueueModes /\ FollowUpMode \in QueueModes
    BY AgentAssumption
  <2> QED
    BY <1>4, <2>1, PollSteps, PollOrder, StillOrder
<1>5. CASE Prompt \/ Steer \/ FollowUp
  BY <1>5, HandOverSteps, HandOverOrder
<1> QED
  BY <1>1, <1>2, <1>3, <1>4, <1>5
     DEF Next, CallerNext, LoopNext, LoopStep, QuietStep, AnswerStep, CallStep

LEMMA HandsStep ==
    ASSUME TypeOK, BatchInv, HandedInv, HandsInv, TypeOK', [Next]_agentVars
    PROVE  HandsInv'
<1> USE DEF queues, history, At
<1>0. /\ ToSet(steering \o followUps) \subseteq DOMAIN handed
      /\ ToSet(run.pending) \subseteq DOMAIN handed
  <2>1. ToSet(steering \o followUps) = ToSet(steering) \cup ToSet(followUps)
    BY ToSetConcat DEF TypeOK
  <2>2. /\ ToSet(steering) \subseteq DOMAIN handed
        /\ ToSet(followUps) \subseteq DOMAIN handed
        /\ ToSet(run.pending) \subseteq DOMAIN handed
    BY DEF HandedInv, ToSet
  <2> QED
    BY <2>1, <2>2
<1>1. CASE QuietStep
  <2>1. CASE ClearQueues
    BY <1>0, <2>1 DEF ClearQueues, HandsInv
  <2>2. CASE Reset
    BY <2>2 DEF Reset, HandsInv
  <2>3. CASE CallStep
    <3>1. run.pc = "batch" /\ run'.pc = run.pc
      BY <2>3, CallStepSends
    <3>2. /\ run'.prompts = run.prompts /\ run'.pending = run.pending
          /\ UNCHANGED <<handed, discarded>>
      BY <2>3 DEF CallStep, LaunchCalls, StartCall, SkipCalls, RefuseCall,
         PrepareCall, FinishCall, TypeOK, RunState
    <3> QED
      BY <3>1, <3>2 DEF HandsInv
  <2>4. CASE EndTurn(<<>>, TRUE) \/ EndBatch
    BY <2>4 DEF EndTurn, EndBatch, Goto, TypeOK, RunState, HandsInv
  <2>5. CASE FinishRun \/ UNCHANGED agentVars
    BY <2>5 DEF FinishRun, NoRun, agentVars, HandsInv
  <2>6. CASE CallModel \/ Abort
    BY <2>6 DEF CallModel, Abort, Goto, TypeOK, RunState, HandsInv
  <2>7. CASE PrepareNextTurn(run.context) /\ UNCHANGED transcript
    BY <2>7 DEF PrepareNextTurn, TypeOK, RunState, HandsInv
  <2> QED
    BY <1>1, <2>1, <2>2, <2>3, <2>4, <2>5, <2>6, <2>7 DEF QuietStep
<1>2. CASE AnswerStep
  <2>1. CASE Throw
    <3>1. /\ run.pc # "prompts" /\ run'.prompts = run.prompts /\ run'.pending = <<>>
          /\ handed' = handed /\ discarded' = discarded \cup ToSet(run.pending)
      BY <2>1 DEF Throw, TypeOK, RunState
    <3> QED
      BY <1>0, <3>1 DEF HandsInv
  <2>2. CASE Respond \/ RespondFailed \/ RespondWithCalls
    <3>1. run.pc = "stream" /\ run'.prompts = run.prompts /\ run'.pending = run.pending
          /\ UNCHANGED <<handed, discarded>>
      <4>1. CASE Respond
        BY <4>1 DEF Respond, Receive, TypeOK, RunState
      <4>2. CASE RespondFailed
        BY <4>2 DEF RespondFailed, Receive, TypeOK, RunState
      <4>3. CASE RespondWithCalls
        BY <4>3 DEF RespondWithCalls, Receive, TypeOK, RunState
      <4> QED
        BY <2>2, <4>1, <4>2, <4>3
    <3> QED
      BY <3>1 DEF HandsInv
  <2>3. ASSUME NEW i \in 1..MaxCalls, SendResult(i)
        PROVE  HandsInv'
    BY <2>3 DEF SendResult, HandsInv, TypeOK, RunState
  <2> QED
    BY <1>2, <2>1, <2>2, <2>3 DEF AnswerStep
<1>3. CASE EmitPrompt \/ InjectPending
  BY <1>3 DEF EmitPrompt, InjectPending, HandsInv, TypeOK, RunState
<1>4. CASE InitialPoll \/ PollSteering \/ PollFollowUps
  BY <1>4 DEF InitialPoll, PollSteering, PollFollowUps, HandsInv, TypeOK, RunState
<1>5. CASE RepollSteering
  <2>1. /\ \/ run' = [run EXCEPT !.pc = "inject", !.pending = Steered]
           \/ run' = [run EXCEPT !.pc = "inject"]
        /\ run.pc = "repoll" /\ UNCHANGED <<handed, discarded>>
    BY <1>5, Zenon DEF RepollSteering, Goto
  <2> QED
    BY <2>1 DEF HandsInv, TypeOK, RunState
<1>6. CASE Prompt
  <2>1. /\ run'.pc = "prompts" /\ run'.pending = <<>> /\ HandOver("prompt")
        /\ discarded' = discarded
    BY <1>6 DEF Prompt, Start, NoRun
  <2>2. DOMAIN handed \subseteq DOMAIN handed'
    BY <2>1, HandedGrows DEF Ways
  <2> QED
    BY <2>1, <2>2 DEF HandsInv
<1>7. CASE Steer \/ FollowUp
  <2>1. /\ run' = run /\ discarded' = discarded /\ \E way \in Ways : HandOver(way)
    BY <1>7 DEF Steer, FollowUp, Ways
  <2>2. DOMAIN handed \subseteq DOMAIN handed'
    BY <2>1, HandedGrows
  <2> QED
    BY <2>1, <2>2 DEF HandsInv
<1>8. CASE Continue
  BY <1>8 DEF Continue, Start, NoRun, HandsInv
<1> QED
  BY <1>1, <1>2, <1>3, <1>4, <1>5, <1>6, <1>7, <1>8
     DEF Next, CallerNext, LoopNext, LoopStep, QuietStep, AnswerStep, CallStep

\* What was handed over in one way is delivered in that order, once, and is lost
\* only if a caller faults it or a run fails with it in hand (agent.ts:125-159,
\* 475-482), for any number of messages, in all modes of both queues.
THEOREM QueuesAlwaysKeepOrder == Spec => []QueuesKeepOrder
<1>1. Init => HandedInv /\ HandsInv /\ OrderInv
  <2> SUFFICES ASSUME Init PROVE HandedInv /\ HandsInv /\ OrderInv
    OBVIOUS
  <2>1. HandedInv /\ HandsInv
    BY DEF Init, NoRun, HandedInv, HandsInv
  <2>2. <<>> \o <<>> = <<>> /\ Users(<<>>) = <<>>
    <3>1. <<>> \in Seq(Text) /\ Len(<<>>) = 0
      BY EmptySeq
    <3>2. Users(<<>>) \in Seq(Message) /\ Len(Users(<<>>)) = 0
      BY <3>1, UsersProperties
    <3> QED
      BY <3>1, <3>2, EmptySeq, ConcatEmptySeq
  <2>3. ASSUME NEW way \in Ways
        PROVE  Ordered(Line(way), handed, way, discarded)
    <3>1. Hand = <<>> /\ Waiting(way) = <<>> /\ transcript = <<>> /\ handed = <<>>
      BY <2>2 DEF Init, NoRun, Hand, Waiting
    <3>2. Line(way) = <<>>
      BY <2>2, <3>1 DEF Line
    <3>3. Own(<<>>, <<>>, way) = {}
      BY DEF Own
    <3> QED
      BY <3>1, <3>2, <3>3 DEF Ordered, Texts, Rising
  <2> QED
    BY <2>1, <2>3 DEF OrderInv
<1>2. ASSUME TypeOK, BatchInv, HandedInv, HandsInv, OrderInv, TypeOK', [Next]_agentVars
      PROVE  HandedInv' /\ HandsInv' /\ OrderInv'
  BY <1>2, HandedStep, HandsStep, OrderStep
<1> QED
  BY <1>1, <1>2, TypeCorrect, OrderIsProperty, PTL DEF Spec
=============================================================================
