--------------------------- MODULE CompactorProofs ---------------------------
(***************************************************************************)
(* Theorems about Compactor, for any threshold, number of messages kept    *)
(* and number of messages added.  The inductive invariant IInv places what *)
(* a task has cut in the context it cut it from (CutFits): messages that   *)
(* were added since come behind it, and undisturbed there are none.        *)
(***************************************************************************)
EXTENDS Compactor, SequenceTheorems, TLAPS

\* There is at most one task, and the flag is up as long as there is one.
OneTask == (compressing <=> tasks = 1) /\ (task.pc = "summarize" => tasks = 1)

\* What the task has cut is the beginning of the context, piece by piece.
CutFits ==
  task.pc = "summarize" =>
    /\ Len(task.front) + Len(task.head) + Len(task.tail) <= Len(messages)
    /\ ~disturbed => Len(task.front) + Len(task.head) + Len(task.tail) = Len(messages)
    /\ \A i \in 1 .. Len(task.front) : task.front[i] = messages[i]
    /\ \A i \in 1 .. Len(task.head) : task.head[i] = messages[Len(task.front) + i]
    /\ \A i \in 1 .. Len(task.tail) :
         task.tail[i] = messages[Len(task.front) + Len(task.head) + i]
    /\ Len(task.head) > 0 /\ Len(task.tail) = KeepRecent
    /\ first = 0 => Len(task.front) = 1

\* Messages speak for what was added, and undisturbed for all of it.
Covers ==
  /\ \A n \in 1 .. Len(messages) : messages[n].speaksFor \subseteq first .. added
  /\ ~disturbed =>
       \A k \in first .. added : \E n \in 1 .. Len(messages) : k \in messages[n].speaksFor

\* Undisturbed, the last messages added are the last of the context.
RecentLast ==
  ~disturbed =>
    \A k \in 0 .. KeepRecent - 1 : k < added =>
      /\ k < Len(messages)
      /\ messages[Len(messages) - k].speaksFor = {added - k}
      /\ messages[Len(messages) - k].role # "system"

IInv ==
  /\ TypeOK /\ OneTask /\ CutFits
  /\ PromptStaysFirst /\ OrderKept /\ Covers /\ RecentLast
-----------------------------------------------------------------------------
(* Parts of the state *)

LEMMA MessagesTyped ==
  ASSUME TypeOK
  PROVE  /\ Len(messages) \in Nat
         /\ \A n \in 1 .. Len(messages) : messages[n] \in Message
         /\ added \in Nat /\ added <= MaxMessages /\ MaxMessages \in Nat
         /\ KeepRecent \in Nat \ {0} /\ first \in {0, 1}
<1>1. messages \in Seq(Message) /\ added \in 0 .. MaxMessages /\ first \in {0, 1}
  BY DEF TypeOK
<1> QED
  BY <1>1, SizesAssumption, ElementOfSeq

LEMMA TaskTyped ==
  ASSUME TypeOK
  PROVE  /\ task = Idle \/ task.pc = "summarize"
         /\ Idle.pc = "idle" /\ Idle \in Task
         /\ task.pc = "summarize" =>
              /\ task.front \in Seq(Message) /\ Len(task.front) \in Nat
              /\ task.head \in Seq(Message) /\ Len(task.head) \in Nat
              /\ task.tail \in Seq(Message) /\ Len(task.tail) \in Nat
BY DEF TypeOK, Task, Idle

\* The context begins with the prompt, if the call has one.
LEMMA PromptIsFirst ==
  ASSUME TypeOK
  PROVE  PromptStaysFirst <=> (first = 0 => Len(messages) > 0 /\ messages[1] = Prompt)
<1>1. messages \in Seq(Message)
  BY DEF TypeOK
<1>2. messages # << >> => Len(messages) > 0 /\ Head(messages) = messages[1]
  BY <1>1, EmptySeq
<1>3. Len(messages) > 0 => messages # << >>
  BY <1>1
<1> QED
  BY <1>2, <1>3 DEF PromptStaysFirst
\* Places in three pieces that follow each other.
LEMMA Places ==
  ASSUME NEW f \in Nat, NEW h \in Nat, NEW t \in Nat, NEW l \in Nat, f + h + t <= l
  PROVE  /\ \A i \in 1 .. f : i \in 1 .. l
         /\ \A i \in 1 .. h : f + i \in 1 .. l
         /\ \A i \in 1 .. t : f + h + i \in 1 .. l
OBVIOUS

-----------------------------------------------------------------------------
(* A message is added *)

LEMMA Appended ==
  ASSUME TypeOK, NEW role \in {"user", "assistant"}, Add(role)
  PROVE  /\ messages' \in Seq(Message) /\ added' = added + 1 /\ added' \in 0 .. MaxMessages
         /\ Len(messages') = Len(messages) + 1
         /\ \A n \in 1 .. Len(messages) : messages'[n] = messages[n]
         /\ messages'[Len(messages) + 1] = [role |-> role, speaksFor |-> {added + 1}]
         /\ disturbed' = (disturbed \/ task # Idle)
<1>1. added \in 0 .. MaxMessages /\ added < MaxMessages /\ messages \in Seq(Message)
  BY DEF Add, TypeOK
<1>2. added + 1 \in 0 .. MaxMessages
  BY <1>1, SizesAssumption
<1>3. [role |-> role, speaksFor |-> {added + 1}] \in Message
  BY <1>2 DEF Message, Roles
<1> QED
  BY <1>1, <1>2, <1>3, AppendProperties DEF Add

\* The invariant on the context survives a message, whatever becomes of the flag.
LEMMA AddKeeps ==
  ASSUME IInv, NEW role \in {"user", "assistant"}, Add(role), UNCHANGED <<task, first>>
  PROVE  /\ messages' \in Seq(Message) /\ added' \in 0 .. MaxMessages /\ disturbed' \in BOOLEAN
         /\ CutFits' /\ PromptStaysFirst' /\ OrderKept' /\ Covers' /\ RecentLast'
<1> DEFINE L == Len(messages)
<1>1. /\ TypeOK /\ CutFits /\ PromptStaysFirst /\ OrderKept /\ Covers /\ RecentLast
  BY DEF IInv
<1>2. /\ messages' \in Seq(Message) /\ added' = added + 1 /\ added' \in 0 .. MaxMessages
      /\ Len(messages') = L + 1
      /\ \A n \in 1 .. L : messages'[n] = messages[n]
      /\ messages'[L + 1] = [role |-> role, speaksFor |-> {added + 1}]
      /\ disturbed' = (disturbed \/ task # Idle)
  BY <1>1, Appended
<1>3. /\ L \in Nat /\ added \in Nat /\ first \in {0, 1} /\ KeepRecent \in Nat \ {0}
      /\ disturbed \in BOOLEAN
  BY <1>1, MessagesTyped DEF TypeOK
<1>4. \A n \in 1 .. L + 1 : n \in 1 .. L \/ n = L + 1
  BY <1>3
<1>5. messages'[L + 1].speaksFor = {added + 1} /\ messages'[L + 1].role = role
  BY <1>2
<1>6. CutFits'
  <2> SUFFICES ASSUME task.pc = "summarize" PROVE CutFits'
    BY DEF CutFits
  <2>1. disturbed'
    BY <1>1, <1>2, TaskTyped
  <2> DEFINE f == Len(task.front)
             h == Len(task.head)
             t == Len(task.tail)
  <2>2. f \in Nat /\ h \in Nat /\ t \in Nat
    BY <1>1, TaskTyped
  <2>3. /\ f + h + t <= L
        /\ \A i \in 1 .. f : task.front[i] = messages[i]
        /\ \A i \in 1 .. h : task.head[i] = messages[f + i]
        /\ \A i \in 1 .. t : task.tail[i] = messages[f + h + i]
        /\ h > 0 /\ t = KeepRecent /\ (first = 0 => f = 1)
    BY <1>1 DEF CutFits
  <2>4. /\ \A i \in 1 .. f : task.front[i] = messages'[i]
        /\ \A i \in 1 .. h : task.head[i] = messages'[f + i]
        /\ \A i \in 1 .. t : task.tail[i] = messages'[f + h + i]
    <3>1. /\ \A i \in 1 .. f : i \in 1 .. L
          /\ \A i \in 1 .. h : f + i \in 1 .. L
          /\ \A i \in 1 .. t : f + h + i \in 1 .. L
      BY <1>3, <2>2, <2>3, Places
    <3> QED
      BY <1>2, <2>3, <3>1
  <2> HIDE DEF f, h, t
  <2>5. f + h + t <= Len(messages')
    BY <1>2, <1>3, <2>2, <2>3
  <2>6. task' = task /\ first' = first
    OBVIOUS
  <2>7. CutFits' <=>
          /\ f + h + t <= Len(messages') /\ (~disturbed' => f + h + t = Len(messages'))
          /\ \A i \in 1 .. f : task.front[i] = messages'[i]
          /\ \A i \in 1 .. h : task.head[i] = messages'[f + i]
          /\ \A i \in 1 .. t : task.tail[i] = messages'[f + h + i]
          /\ h > 0 /\ t = KeepRecent /\ (first = 0 => f = 1)
    BY <2>6 DEF CutFits, f, h, t
  <2> QED
    BY <2>1, <2>3, <2>4, <2>5, <2>7
<1>7. PromptStaysFirst'
  <2>1. first = 0 => messages'[1] = Prompt
    BY <1>1, <1>2, <1>3, PromptIsFirst
  <2>2. messages' # << >> /\ Head(messages') = messages'[1]
    BY <1>2, <1>3
  <2> QED
    BY <2>1, <2>2 DEF PromptStaysFirst
<1>8. OrderKept'
  <2> SUFFICES ASSUME NEW m \in 1 .. L + 1, NEW n \in 1 .. L + 1, m < n,
                      NEW i \in messages'[m].speaksFor, NEW j \in messages'[n].speaksFor
               PROVE  i < j
    BY <1>2 DEF OrderKept
  <2>1. m \in 1 .. L
    BY <1>3
  <2>2. i \in messages[m].speaksFor /\ i \in first .. added
    BY <1>1, <1>2, <2>1 DEF Covers
  <2>3. CASE n \in 1 .. L
    BY <1>1, <1>2, <2>1, <2>2, <2>3 DEF OrderKept
  <2>4. CASE n = L + 1
    BY <1>3, <1>5, <2>2, <2>4
  <2> QED
    BY <1>4, <2>3, <2>4
<1>9. Covers'
  <2>1. \A n \in 1 .. Len(messages') : messages'[n].speaksFor \subseteq first .. added'
    <3> TAKE n \in 1 .. Len(messages')
    <3>1. CASE n \in 1 .. L
      <4>1. messages[n].speaksFor \subseteq first .. added
        BY <1>1, <3>1 DEF Covers
      <4> QED
        BY <1>2, <1>3, <3>1, <4>1
    <3>2. CASE n = L + 1
      BY <1>2, <1>3, <1>5, <3>2
    <3> QED
      BY <1>2, <1>4, <3>1, <3>2
  <2>2. ASSUME ~disturbed', NEW k \in first .. added'
        PROVE  \E n \in 1 .. Len(messages') : k \in messages'[n].speaksFor
    <3>1. CASE k = added + 1
      <4>1. L + 1 \in 1 .. Len(messages')
        BY <1>2, <1>3
      <4> QED
        BY <1>5, <3>1, <4>1
    <3>2. CASE k # added + 1
      <4>1. k \in first .. added
        BY <1>2, <1>3, <3>2
      <4>2. PICK n \in 1 .. L : k \in messages[n].speaksFor
        BY <1>1, <1>2, <2>2, <4>1 DEF Covers
      <4>3. n \in 1 .. Len(messages') /\ messages'[n] = messages[n]
        BY <1>2, <1>3
      <4> QED
        BY <4>2, <4>3
    <3> QED
      BY <3>1, <3>2
  <2> QED
    BY <2>1, <2>2 DEF Covers
<1>10. RecentLast'
  <2> SUFFICES ASSUME ~disturbed', NEW k \in 0 .. KeepRecent - 1, k < added'
               PROVE  /\ k < Len(messages')
                      /\ messages'[Len(messages') - k].speaksFor = {added' - k}
                      /\ messages'[Len(messages') - k].role # "system"
    BY DEF RecentLast
  <2>1. CASE k = 0
    <3>1. Len(messages') - k = L + 1 /\ added' - k = added + 1 /\ k < Len(messages')
      BY <1>2, <1>3, <2>1
    <3> QED
      BY <1>5, <3>1
  <2>2. CASE k # 0
    <3>1. k - 1 \in 0 .. KeepRecent - 1 /\ k - 1 < added /\ ~disturbed
      BY <1>2, <1>3, <2>2
    <3>2. /\ k - 1 < L
          /\ messages[L - (k - 1)].speaksFor = {added - (k - 1)}
          /\ messages[L - (k - 1)].role # "system"
      BY <1>1, <3>1 DEF RecentLast
    <3>3. /\ Len(messages') - k = L - (k - 1) /\ added' - k = added - (k - 1)
          /\ L - (k - 1) \in 1 .. L /\ k < Len(messages')
      BY <1>2, <1>3, <2>2, <3>2
    <3>4. messages'[L - (k - 1)] = messages[L - (k - 1)]
      BY <1>2, <3>3
    <3> QED
      BY <3>2, <3>3, <3>4
  <2> QED
    BY <2>1, <2>2
<1> QED
  BY <1>2, <1>3, <1>6, <1>7, <1>8, <1>9, <1>10
-----------------------------------------------------------------------------
(* A compression *)

\* The system message at the front, if there is one.
LEMMA LeadIs ==
  ASSUME TypeOK, PromptStaysFirst
  PROVE  /\ Lead \in Seq(Message) /\ Len(Lead) \in {0, 1} /\ Len(Lead) <= Len(messages)
         /\ \A i \in 1 .. Len(Lead) : Lead[i] = messages[i]
         /\ first = 0 => Len(Lead) = 1
<1>1. messages \in Seq(Message) /\ Len(messages) \in Nat
  BY MessagesTyped DEF TypeOK
<1>2. CASE HasSystem
  <2>1. messages # << >>
    BY <1>2 DEF HasSystem
  <2>2. Len(messages) > 0 /\ Head(messages) = messages[1] /\ Head(messages) \in Message
    BY <1>1, <2>1, EmptySeq, HeadTailProperties
  <2>3. Lead = <<messages[1]>>
    BY <1>2, <2>2 DEF Lead
  <2> QED
    BY <1>1, <2>2, <2>3
<1>3. CASE ~HasSystem
  <2>1. Lead = << >>
    BY <1>3 DEF Lead
  <2>2. first # 0
    BY <1>3 DEF HasSystem, PromptStaysFirst, Prompt
  <2> QED
    BY <1>1, <2>1, <2>2
<1> QED
  BY <1>2, <1>3

\* The pieces a body is cut into.
LEMMA Pieces ==
  ASSUME NEW s \in Seq(Message), NEW f \in Nat, f <= Len(s), NEW k \in Nat
  PROVE  LET body == SubSeq(s, f + 1, Len(s))
             cut == Len(body) - k
         IN  /\ Len(body) = Len(s) - f
             /\ cut > 0 =>
                  /\ SubSeq(body, 1, cut) \in Seq(Message)
                  /\ SubSeq(body, cut + 1, Len(body)) \in Seq(Message)
                  /\ Len(SubSeq(body, 1, cut)) = cut
                  /\ Len(SubSeq(body, cut + 1, Len(body))) = k
                  /\ \A i \in 1 .. cut : SubSeq(body, 1, cut)[i] = s[f + i]
                  /\ \A i \in 1 .. k : SubSeq(body, cut + 1, Len(body))[i] = s[f + cut + i]
<1> DEFINE body == SubSeq(s, f + 1, Len(s))
           b == Len(body)
           cut == b - k
           head == SubSeq(body, 1, cut)
           tail == SubSeq(body, cut + 1, b)
<1>1. Len(s) \in Nat /\ \A i \in f + 1 .. Len(s) : s[i] \in Message
  BY ElementOfSeq
<1>2. /\ body \in Seq(Message) /\ Len(body) = (IF f + 1 <= Len(s) THEN Len(s) - (f + 1) + 1 ELSE 0)
      /\ \A i \in 1 .. Len(s) - (f + 1) + 1 : body[i] = s[(f + 1) + i - 1]
  BY <1>1, SubSeqProperties
<1>3. b = Len(s) - f /\ b \in Nat
  BY <1>1, <1>2
<1>4. \A i \in 1 .. b : body[i] = s[f + i] /\ body[i] \in Message
  <2>1. \A i \in 1 .. b : body[i] \in Message
    BY <1>2, ElementOfSeq
  <2>2. \A i \in 1 .. b : i \in 1 .. Len(s) - (f + 1) + 1 /\ (f + 1) + i - 1 = f + i
    BY <1>1, <1>3
  <2> QED
    BY <1>2, <2>1, <2>2
<1> HIDE DEF body, b
<1>5. ASSUME cut > 0
      PROVE  /\ head \in Seq(Message) /\ Len(head) = cut
             /\ \A i \in 1 .. cut : head[i] = s[f + i]
  <2>1. cut \in 1 .. b /\ \A i \in 1 .. cut : i \in 1 .. b
    BY <1>3, <1>5
  <2>2. /\ head \in Seq(Message) /\ Len(head) = (IF 1 <= cut THEN cut - 1 + 1 ELSE 0)
        /\ \A i \in 1 .. cut - 1 + 1 : head[i] = body[1 + i - 1]
    BY <1>3, <1>4, <2>1, SubSeqProperties
  <2>3. /\ (IF 1 <= cut THEN cut - 1 + 1 ELSE 0) = cut
        /\ \A i \in 1 .. cut : i \in 1 .. cut - 1 + 1 /\ 1 + i - 1 = i
    BY <1>3, <2>1
  <2>4. \A i \in 1 .. cut : head[i] = body[i]
    BY <2>2, <2>3
  <2>5. \A i \in 1 .. cut : body[i] = s[f + i]
    BY <1>4, <2>1
  <2> HIDE DEF head, cut
  <2> QED
    BY <2>2, <2>3, <2>4, <2>5
<1>6. ASSUME cut > 0
      PROVE  /\ tail \in Seq(Message) /\ Len(tail) = k
             /\ \A i \in 1 .. k : tail[i] = s[f + cut + i]
  <2>1. /\ cut + 1 \in Int /\ b \in Int
        /\ \A i \in cut + 1 .. b : i \in 1 .. b
        /\ \A i \in 1 .. k : cut + i \in 1 .. b
    BY <1>3, <1>6
  <2>2. /\ tail \in Seq(Message)
        /\ Len(tail) = (IF cut + 1 <= b THEN b - (cut + 1) + 1 ELSE 0)
        /\ \A i \in 1 .. b - (cut + 1) + 1 : tail[i] = body[(cut + 1) + i - 1]
    <3>1. \A i \in cut + 1 .. b : body[i] \in Message
      BY <1>4, <2>1
    <3> HIDE DEF cut
    <3> QED
      BY <2>1, <3>1, SubSeqProperties
  <2>3. /\ (IF cut + 1 <= b THEN b - (cut + 1) + 1 ELSE 0) = k
        /\ \A i \in 1 .. k : i \in 1 .. b - (cut + 1) + 1 /\ (cut + 1) + i - 1 = cut + i
        /\ \A i \in 1 .. k : f + (cut + i) = f + cut + i
    BY <1>3, <1>6
  <2>4. \A i \in 1 .. k : tail[i] = body[cut + i] /\ body[cut + i] = s[f + (cut + i)]
    BY <1>4, <2>1, <2>2, <2>3
  <2>5. \A i \in 1 .. k : tail[i] = s[f + cut + i]
    BY <2>3, <2>4
  <2> HIDE DEF tail, cut
  <2> QED
    BY <2>2, <2>3, <2>5
<1> QED
  BY <1>3, <1>5, <1>6 DEF body, b

\* The task is over.
LEMMA FinishKeeps ==
  ASSUME TypeOK, OneTask, tasks = 1, Finish
  PROVE  /\ compressing' \in BOOLEAN /\ tasks' \in 0 .. 1 /\ task' \in Task
         /\ OneTask' /\ task'.pc = "idle"
<1>1. compressing' = FALSE /\ tasks' = 0 /\ task' = Idle
  BY DEF Finish
<1>2. task'.pc = "idle" /\ task' \in Task
  BY <1>1, TaskTyped
<1>3. tasks' # 1 /\ tasks' \in 0 .. 1
  BY <1>1
<1> QED
  BY <1>1, <1>2, <1>3 DEF OneTask

LEMMA BeginKeepsIInv == ASSUME IInv, Begin PROVE IInv'
<1> DEFINE f == Len(Lead)
           body == SubSeq(messages, f + 1, Len(messages))
           cut == Len(body) - KeepRecent
<1>1. /\ TypeOK /\ OneTask /\ PromptStaysFirst /\ OrderKept /\ Covers /\ RecentLast
      /\ tasks = 1 /\ task = Idle /\ UNCHANGED <<messages, added, disturbed, first>>
  BY DEF IInv, Begin, TypeOK
<1>2. PromptStaysFirst' /\ OrderKept' /\ Covers' /\ RecentLast'
  BY <1>1 DEF PromptStaysFirst, OrderKept, Covers, RecentLast
<1>3. CASE Finish
  <2>1. CutFits'
    BY <1>1, <1>3, FinishKeeps DEF CutFits
  <2> QED
    BY <1>1, <1>2, <1>3, <2>1, FinishKeeps DEF IInv, TypeOK
<1>4. CASE /\ Len(body) > KeepRecent
           /\ task' = [pc |-> "summarize", front |-> Lead, head |-> SubSeq(body, 1, cut),
                       tail |-> SubSeq(body, cut + 1, Len(body))]
           /\ UNCHANGED <<compressing, tasks>>
  <2>1. /\ messages \in Seq(Message) /\ Len(messages) \in Nat /\ KeepRecent \in Nat \ {0}
        /\ Lead \in Seq(Message) /\ f \in {0, 1} /\ f <= Len(messages)
        /\ \A i \in 1 .. f : Lead[i] = messages[i]
        /\ first = 0 => f = 1
    BY <1>1, LeadIs, MessagesTyped DEF TypeOK
  <2>2. /\ Len(body) = Len(messages) - f
        /\ cut > 0 =>
             /\ SubSeq(body, 1, cut) \in Seq(Message)
             /\ SubSeq(body, cut + 1, Len(body)) \in Seq(Message)
             /\ Len(SubSeq(body, 1, cut)) = cut
             /\ Len(SubSeq(body, cut + 1, Len(body))) = KeepRecent
             /\ \A i \in 1 .. cut : SubSeq(body, 1, cut)[i] = messages[f + i]
             /\ \A i \in 1 .. KeepRecent :
                  SubSeq(body, cut + 1, Len(body))[i] = messages[f + cut + i]
    <3>1. f \in Nat /\ KeepRecent \in Nat
      BY <2>1
    <3> HIDE DEF f
    <3> QED
      BY <2>1, <3>1, Pieces
  <2> HIDE DEF f, body
  <2>3. cut > 0 /\ f + cut + KeepRecent = Len(messages) /\ cut \in Int
    BY <1>4, <2>1, <2>2
  <2>4. /\ task'.pc = "summarize" /\ task'.front = Lead
        /\ task'.head = SubSeq(body, 1, cut)
        /\ task'.tail = SubSeq(body, cut + 1, Len(body))
    BY <1>4
  <2> HIDE DEF cut
  <2>5. task' \in Task
    BY <1>4, <2>1, <2>2, <2>3 DEF Task
  <2>6. CutFits'
    <3>1. Len(task'.front) = f /\ Len(task'.head) = cut /\ Len(task'.tail) = KeepRecent
      BY <2>2, <2>3, <2>4 DEF f
    <3>2. /\ \A i \in 1 .. f : task'.front[i] = messages'[i]
          /\ \A i \in 1 .. cut : task'.head[i] = messages'[f + i]
          /\ \A i \in 1 .. KeepRecent : task'.tail[i] = messages'[f + cut + i]
      BY <1>1, <2>1, <2>2, <2>3, <2>4
    <3>3. f + cut + KeepRecent = Len(messages') /\ f + cut + KeepRecent <= Len(messages')
      BY <1>1, <2>1, <2>3
    <3>4. first' = 0 => f = 1
      BY <1>1, <2>1
    <3> QED
      BY <2>3, <3>1, <3>2, <3>3, <3>4 DEF CutFits
  <2> QED
    BY <1>1, <1>2, <1>4, <2>4, <2>5, <2>6 DEF IInv, TypeOK, OneTask
<1> QED
  <2>1. Len(body) \in Nat /\ KeepRecent \in Nat
    <3>1. /\ messages \in Seq(Message) /\ Len(messages) \in Nat /\ KeepRecent \in Nat
          /\ Len(Lead) \in {0, 1} /\ Len(Lead) <= Len(messages)
      BY <1>1, LeadIs, MessagesTyped DEF TypeOK
    <3>2. Len(body) = Len(messages) - Len(Lead)
      BY <3>1, Pieces
    <3> QED
      BY <3>1, <3>2
  <2>2. IF Len(body) <= KeepRecent THEN Finish
        ELSE /\ task' = [pc |-> "summarize", front |-> Lead, head |-> SubSeq(body, 1, cut),
                         tail |-> SubSeq(body, cut + 1, Len(body))]
             /\ UNCHANGED <<compressing, tasks>>
    BY DEF Begin, Split
  <2> HIDE DEF body, cut
  <2> QED
    BY <1>3, <1>4, <2>1, <2>2

\* A front, a message and a tail.
LEMMA ThreePieces ==
  ASSUME NEW S, NEW s \in Seq(S), NEW e \in S, NEW t \in Seq(S),
         NEW f \in Nat, NEW k \in Nat, Len(s) = f, Len(t) = k
  PROVE  /\ s \o <<e>> \o t \in Seq(S) /\ Len(s \o <<e>> \o t) = f + 1 + k
         /\ \A i \in 1 .. f : (s \o <<e>> \o t)[i] = s[i]
         /\ (s \o <<e>> \o t)[f + 1] = e
         /\ \A i \in 1 .. k : (s \o <<e>> \o t)[f + 1 + i] = t[i]
<1> DEFINE mid == <<e>>
           one == s \o mid
           all == one \o t
<1>1. mid \in Seq(S) /\ Len(mid) = 1 /\ mid[1] = e
  OBVIOUS
<1> HIDE DEF mid
<1>2. /\ one \in Seq(S) /\ Len(one) = Len(s) + Len(mid)
      /\ \A i \in 1 .. Len(s) + Len(mid) :
           one[i] = IF i <= Len(s) THEN s[i] ELSE mid[i - Len(s)]
  BY <1>1, ConcatProperties
<1> HIDE DEF one
<1>3. /\ all \in Seq(S) /\ Len(all) = Len(one) + Len(t)
      /\ \A i \in 1 .. Len(one) + Len(t) :
           all[i] = IF i <= Len(one) THEN one[i] ELSE t[i - Len(one)]
  <2>1. one \in Seq(S)
    BY <1>2
  <2> QED
    BY <2>1, ConcatProperties
<1> HIDE DEF all
<1>4. Len(s) + Len(mid) = f + 1 /\ Len(one) + Len(t) = f + 1 + k
  BY <1>1, <1>2
<1>5. /\ \A i \in 1 .. f + 1 : one[i] = IF i <= f THEN s[i] ELSE mid[i - f]
      /\ \A i \in 1 .. f + 1 + k : all[i] = IF i <= f + 1 THEN one[i] ELSE t[i - (f + 1)]
  BY <1>1, <1>2, <1>3, <1>4
<1>6. \A i \in 1 .. f : i \in 1 .. f + 1 /\ i \in 1 .. f + 1 + k /\ i <= f /\ i <= f + 1
  OBVIOUS
<1>7. f + 1 \in 1 .. f + 1 /\ f + 1 \in 1 .. f + 1 + k /\ ~(f + 1 <= f) /\ f + 1 - f = 1
  OBVIOUS
<1>8. \A i \in 1 .. k :
        f + 1 + i \in 1 .. f + 1 + k /\ ~(f + 1 + i <= f + 1) /\ f + 1 + i - (f + 1) = i
  OBVIOUS
<1>9. \A i \in 1 .. f : all[i] = s[i]
  BY <1>5, <1>6
<1>10. all[f + 1] = e
  <2>1. all[f + 1] = one[f + 1]
    BY <1>5, <1>7
  <2>2. one[f + 1] = mid[1]
    BY <1>5, <1>7
  <2> QED
    BY <1>1, <2>1, <2>2
<1>11. \A i \in 1 .. k : all[f + 1 + i] = t[i]
  BY <1>5, <1>8
<1> QED
  BY <1>3, <1>4, <1>9, <1>10, <1>11 DEF all, one, mid

\* What the context becomes: the front, the summary of the head, and the tail.
LEMMA NewMessagesAre ==
  ASSUME TypeOK, CutFits, task.pc = "summarize"
  PROVE  /\ NewMessages \in Seq(Message)
         /\ Len(NewMessages) = Len(task.front) + 1 + KeepRecent
         /\ \A i \in 1 .. Len(task.front) : NewMessages[i] = messages[i]
         /\ NewMessages[Len(task.front) + 1] = Summary
         /\ \A i \in 1 .. KeepRecent :
              NewMessages[Len(task.front) + 1 + i]
                = messages[Len(task.front) + Len(task.head) + i]
<1> DEFINE front == task.front
           tail == task.tail
           f == Len(front)
           h == Len(task.head)
<1>1. /\ front \in Seq(Message) /\ f \in Nat
      /\ task.head \in Seq(Message) /\ h \in Nat
      /\ tail \in Seq(Message) /\ Len(tail) = KeepRecent /\ KeepRecent \in Nat
      /\ \A i \in 1 .. f : front[i] = messages[i]
      /\ \A i \in 1 .. KeepRecent : tail[i] = messages[f + h + i]
  BY TaskTyped, SizesAssumption DEF CutFits
<1>2. Summary \in Message
  <2>1. Content(task.head) \subseteq 0 .. MaxMessages
    <3> SUFFICES ASSUME NEW m \in ToSet(task.head) PROVE m.speaksFor \subseteq 0 .. MaxMessages
      BY DEF Content
    <3>1. m \in Message
      BY <1>1, LenProperties DEF ToSet
    <3> QED
      BY <3>1 DEF Message
  <2> QED
    BY <2>1 DEF Summary, Message, Roles
<1>3. NewMessages = front \o <<Summary>> \o tail
  BY DEF NewMessages
<1> HIDE DEF front, tail
<1>4. /\ NewMessages \in Seq(Message) /\ Len(NewMessages) = f + 1 + KeepRecent
      /\ \A i \in 1 .. f : NewMessages[i] = front[i]
      /\ NewMessages[f + 1] = Summary
      /\ \A i \in 1 .. KeepRecent : NewMessages[f + 1 + i] = tail[i]
  BY <1>1, <1>2, <1>3, ThreePieces
<1> HIDE DEF f, h
<1>5. /\ \A i \in 1 .. f : NewMessages[i] = messages[i]
      /\ \A i \in 1 .. KeepRecent : NewMessages[f + 1 + i] = messages[f + h + i]
  BY <1>1, <1>4
<1> QED
  BY <1>4, <1>5 DEF f, h, front

\* The summary speaks for what the head speaks for.
LEMMA SummarySpeaks ==
  ASSUME TypeOK, CutFits, task.pc = "summarize"
  PROVE  \A k : k \in Summary.speaksFor <=>
           \E i \in 1 .. Len(task.head) :
             k \in messages[Len(task.front) + i].speaksFor
<1>1. /\ DOMAIN task.head = 1 .. Len(task.head)
      /\ \A i \in 1 .. Len(task.head) : task.head[i] = messages[Len(task.front) + i]
  BY TaskTyped, LenProperties DEF CutFits
<1>2. Summary.speaksFor = UNION {m.speaksFor : m \in ToSet(task.head)}
  BY DEF Summary, Content
<1>3. ToSet(task.head) = {task.head[i] : i \in 1 .. Len(task.head)}
  BY <1>1 DEF ToSet
<1> QED
  BY <1>1, <1>2, <1>3

LEMMA SetMessagesKeepsIInv == ASSUME IInv, SetMessages PROVE IInv'
<1> DEFINE f == Len(task.front)
           h == Len(task.head)
           L == Len(messages)
           K == KeepRecent
<1>1. /\ TypeOK /\ OneTask /\ CutFits /\ PromptStaysFirst /\ OrderKept /\ Covers /\ RecentLast
      /\ task.pc = "summarize" /\ tasks = 1 /\ messages' = NewMessages /\ Finish
      /\ UNCHANGED <<added, disturbed, first>>
  BY DEF IInv, SetMessages, OneTask
<1>2. /\ f \in Nat /\ h \in Nat \ {0} /\ L \in Nat /\ K \in Nat \ {0}
      /\ f + h + K <= L /\ (~disturbed => f + h + K = L)
      /\ first = 0 => f = 1
  <2> DEFINE t == Len(task.tail)
  <2>1. f \in Nat /\ h \in Nat /\ t \in Nat /\ L \in Nat /\ K \in Nat \ {0}
    BY <1>1, TaskTyped, MessagesTyped
  <2>2. /\ f + h + t <= L /\ (~disturbed => f + h + t = L)
        /\ h > 0 /\ t = K /\ (first = 0 => f = 1)
    BY <1>1 DEF CutFits
  <2> HIDE DEF f, h, t, L
  <2> QED
    BY <2>1, <2>2
<1>3. /\ messages' \in Seq(Message) /\ Len(messages') = f + 1 + K
      /\ \A i \in 1 .. f : messages'[i] = messages[i]
      /\ messages'[f + 1] = Summary
      /\ \A i \in 1 .. K : messages'[f + 1 + i] = messages[f + h + i]
  BY <1>1, NewMessagesAre
<1>4. \A k : k \in Summary.speaksFor <=>
        \E i \in 1 .. h : k \in messages[f + i].speaksFor
  BY <1>1, SummarySpeaks
<1> HIDE DEF f, h, L
<1>5. \A n \in 1 .. Len(messages') :
        n \in 1 .. f \/ n = f + 1 \/ \E i \in 1 .. K : n = f + 1 + i
  <2> TAKE n \in 1 .. Len(messages')
  <2>1. CASE n > f + 1
    <3>1. n - (f + 1) \in 1 .. K /\ n = f + 1 + (n - (f + 1))
      BY <1>2, <1>3, <2>1
    <3> QED
      BY <3>1
  <2>2. CASE n <= f + 1
    BY <1>2, <1>3, <2>2
  <2> QED
    BY <1>2, <1>3, <2>1, <2>2
\* Every message of the new context speaks for messages of the old one, which
\* lie in the same order.
<1>6. \A n \in 1 .. Len(messages') : \A k \in messages'[n].speaksFor :
        \E o \in 1 .. L :
          /\ k \in messages[o].speaksFor
          /\ n <= f => o = n
          /\ n = f + 1 => f < o /\ o <= f + h
          /\ n > f + 1 => o = n + h - 1
  <2> TAKE n \in 1 .. Len(messages')
  <2> TAKE k \in messages'[n].speaksFor
  <2>1. CASE n \in 1 .. f
    <3>1. n \in 1 .. L /\ messages'[n] = messages[n] /\ n <= f /\ ~(n > f + 1) /\ n # f + 1
      BY <1>2, <1>3, <2>1
    <3> QED
      BY <3>1
  <2>2. CASE n = f + 1
    <3>1. PICK i \in 1 .. h : k \in messages[f + i].speaksFor
      BY <1>3, <1>4, <2>2
    <3>2. f + i \in 1 .. L /\ f < f + i /\ f + i <= f + h /\ ~(n <= f) /\ ~(n > f + 1)
      BY <1>2, <2>2
    <3> QED
      BY <3>1, <3>2
  <2>3. CASE \E i \in 1 .. K : n = f + 1 + i
    <3>1. PICK i \in 1 .. K : n = f + 1 + i
      BY <2>3
    <3>2. /\ f + h + i \in 1 .. L /\ f + h + i = n + h - 1
          /\ n > f + 1 /\ ~(n <= f) /\ n # f + 1
      BY <1>2, <3>1
    <3>3. k \in messages[f + h + i].speaksFor
      BY <1>3, <3>1
    <3> QED
      BY <3>2, <3>3
  <2> QED
    BY <1>5, <2>1, <2>2, <2>3
<1>7. OrderKept'
  <2> SUFFICES ASSUME NEW m \in 1 .. Len(messages'), NEW n \in 1 .. Len(messages'), m < n,
                      NEW i \in messages'[m].speaksFor, NEW j \in messages'[n].speaksFor
               PROVE  i < j
    BY DEF OrderKept
  <2>1. PICK o \in 1 .. L : /\ i \in messages[o].speaksFor
                            /\ m <= f => o = m
                            /\ m = f + 1 => f < o /\ o <= f + h
                            /\ m > f + 1 => o = m + h - 1
    BY <1>6
  <2>2. PICK p \in 1 .. L : /\ j \in messages[p].speaksFor
                            /\ n <= f => p = n
                            /\ n = f + 1 => f < p /\ p <= f + h
                            /\ n > f + 1 => p = n + h - 1
    BY <1>6
  <2>3. o < p
    BY <1>2, <1>3, <2>1, <2>2
  <2> QED
    BY <1>1, <2>1, <2>2, <2>3 DEF OrderKept, L
<1>8. PromptStaysFirst'
  <2> SUFFICES ASSUME first = 0 PROVE messages' # << >> /\ Head(messages') = Prompt
    BY <1>1 DEF PromptStaysFirst
  <2>1. messages[1] = Prompt
    BY <1>1, PromptIsFirst
  <2>2. messages'[1] = Prompt /\ Len(messages') > 0
    BY <1>2, <1>3, <2>1
  <2> QED
    BY <1>3, <2>2
<1>9. Covers'
  <2>1. \A n \in 1 .. Len(messages') : messages'[n].speaksFor \subseteq first' .. added'
    BY <1>1, <1>6 DEF Covers, L
  <2>2. ASSUME ~disturbed', NEW k \in first' .. added'
        PROVE  \E n \in 1 .. Len(messages') : k \in messages'[n].speaksFor
    <3>1. PICK o \in 1 .. L : k \in messages[o].speaksFor
      BY <1>1, <2>2 DEF Covers, L
    <3>2. o \in Nat /\ f + h + K = L
      BY <1>1, <1>2, <2>2
    <3>3. CASE o <= f
      <4>1. o \in 1 .. f /\ o \in 1 .. Len(messages')
        BY <1>2, <1>3, <3>2, <3>3
      <4> QED
        BY <1>3, <3>1, <4>1
    <3>4. CASE f < o /\ o <= f + h
      <4>1. o - f \in 1 .. h /\ f + (o - f) = o /\ f + 1 \in 1 .. Len(messages')
        BY <1>2, <1>3, <3>2, <3>4
      <4>2. k \in Summary.speaksFor
        BY <1>4, <3>1, <4>1
      <4> QED
        BY <1>3, <4>1, <4>2
    <3>5. CASE f + h < o
      <4>1. /\ o - (f + h) \in 1 .. K /\ f + h + (o - (f + h)) = o
            /\ f + 1 + (o - (f + h)) \in 1 .. Len(messages')
        BY <1>2, <1>3, <3>1, <3>2, <3>5
      <4>2. messages'[f + 1 + (o - (f + h))] = messages[o]
        BY <1>3, <4>1
      <4> QED
        BY <3>1, <4>1, <4>2
    <3> QED
      BY <1>2, <3>2, <3>3, <3>4, <3>5
  <2> QED
    BY <2>1, <2>2 DEF Covers
<1>10. RecentLast'
  <2> SUFFICES ASSUME ~disturbed, NEW k \in 0 .. K - 1, k < added
               PROVE  /\ k < Len(messages')
                      /\ messages'[Len(messages') - k].speaksFor = {added - k}
                      /\ messages'[Len(messages') - k].role # "system"
    BY <1>1 DEF RecentLast
  <2>1. /\ k < Len(messages') /\ K - k \in 1 .. K
        /\ Len(messages') - k = f + 1 + (K - k) /\ L - k = f + h + (K - k)
    BY <1>2, <1>3
  <2>2. messages'[Len(messages') - k] = messages[L - k]
    BY <1>3, <2>1
  <2>3. messages[L - k].speaksFor = {added - k} /\ messages[L - k].role # "system"
    BY <1>1 DEF RecentLast, L
  <2> QED
    BY <2>1, <2>2, <2>3
<1>11. /\ compressing' \in BOOLEAN /\ tasks' \in 0 .. 1 /\ task' \in Task
       /\ OneTask' /\ task'.pc = "idle"
  BY <1>1, FinishKeeps
<1>12. CutFits'
  BY <1>11 DEF CutFits
<1> QED
  BY <1>1, <1>3, <1>7, <1>8, <1>9, <1>10, <1>11, <1>12 DEF IInv, TypeOK

LEMMA SummarizeFailsKeepsIInv == ASSUME IInv, SummarizeFails PROVE IInv'
<1>1. /\ TypeOK /\ OneTask /\ PromptStaysFirst /\ OrderKept /\ Covers /\ RecentLast
      /\ tasks = 1 /\ Finish /\ UNCHANGED <<messages, added, disturbed, first>>
  BY DEF IInv, SummarizeFails, OneTask
<1>2. PromptStaysFirst' /\ OrderKept' /\ Covers' /\ RecentLast'
  BY <1>1 DEF PromptStaysFirst, OrderKept, Covers, RecentLast
<1>3. /\ compressing' \in BOOLEAN /\ tasks' \in 0 .. 1 /\ task' \in Task
      /\ OneTask' /\ task'.pc = "idle"
  BY <1>1, FinishKeeps
<1>4. CutFits'
  BY <1>3 DEF CutFits
<1> QED
  BY <1>1, <1>2, <1>3, <1>4 DEF IInv, TypeOK
-----------------------------------------------------------------------------
(* Every step *)

LEMMA UserTurnKeepsIInv == ASSUME IInv, UserTurn PROVE IInv'
<1>1. /\ Add("user") /\ UNCHANGED <<compressing, tasks, task, first>>
      /\ TypeOK /\ OneTask
  BY DEF IInv, UserTurn
<1>2. /\ messages' \in Seq(Message) /\ added' \in 0 .. MaxMessages /\ disturbed' \in BOOLEAN
      /\ CutFits' /\ PromptStaysFirst' /\ OrderKept' /\ Covers' /\ RecentLast'
  BY <1>1, AddKeeps
<1>3. TypeOK'
  BY <1>1, <1>2 DEF TypeOK
<1>4. OneTask'
  BY <1>1 DEF OneTask
<1> QED
  BY <1>2, <1>3, <1>4 DEF IInv

LEMMA AssistantTurnKeepsIInv == ASSUME IInv, AssistantTurn PROVE IInv'
<1>1. /\ Add("assistant") /\ UNCHANGED <<task, first>>
      /\ TypeOK /\ OneTask
  BY DEF IInv, AssistantTurn
<1>2. /\ messages' \in Seq(Message) /\ added' \in 0 .. MaxMessages /\ disturbed' \in BOOLEAN
      /\ CutFits' /\ PromptStaysFirst' /\ OrderKept' /\ Covers' /\ RecentLast'
  BY <1>1, AddKeeps
<1>3. compressing' \in BOOLEAN /\ tasks' \in 0 .. 1 /\ OneTask'
  <2>1. CASE ~compressing /\ compressing' = TRUE /\ tasks' = tasks + 1
    <3>1. tasks = 0 /\ task.pc # "summarize"
      BY <1>1, <2>1 DEF OneTask, TypeOK
    <3>2. tasks' = 1 /\ tasks' \in 0 .. 1
      BY <2>1, <3>1
    <3> QED
      BY <1>1, <2>1, <3>1, <3>2 DEF OneTask
  <2>2. CASE UNCHANGED <<compressing, tasks>>
    BY <1>1, <2>2 DEF OneTask, TypeOK
  <2> QED
    BY <2>1, <2>2 DEF AssistantTurn, Schedules
<1>4. TypeOK'
  BY <1>1, <1>2, <1>3 DEF TypeOK
<1> QED
  BY <1>2, <1>3, <1>4 DEF IInv

LEMMA InitIsIInv == Init => IInv
<1> SUFFICES ASSUME Init PROVE IInv
  OBVIOUS
<1>1. /\ first \in {0, 1} /\ added = 0 /\ compressing = FALSE /\ tasks = 0
      /\ task = Idle /\ disturbed = FALSE
      /\ messages = IF first = 0 THEN <<Prompt>> ELSE << >>
  BY DEF Init
<1>2. Prompt \in Message /\ Prompt.speaksFor = {0}
  BY SizesAssumption DEF Prompt, Message, Roles
<1>3. /\ messages \in Seq(Message)
      /\ first = 0 => Len(messages) = 1 /\ messages[1] = Prompt
      /\ first = 1 => Len(messages) = 0
  BY <1>1, <1>2
<1>4. task \in Task /\ task.pc # "summarize"
  BY <1>1 DEF Task, Idle
<1>5. TypeOK /\ OneTask /\ CutFits
  <2>1. added \in 0 .. MaxMessages /\ tasks \in 0 .. 1 /\ tasks # 1
    BY <1>1, SizesAssumption
  <2>2. TypeOK
    BY <1>1, <1>3, <1>4, <2>1 DEF TypeOK
  <2>3. OneTask /\ CutFits
    BY <1>1, <1>4, <2>1 DEF OneTask, CutFits
  <2> QED
    BY <2>2, <2>3
<1>6. PromptStaysFirst
  BY <1>3, <1>5, PromptIsFirst
<1>7. \A n \in 1 .. Len(messages) : first = 0 /\ n = 1 /\ messages[n].speaksFor = {0}
  BY <1>1, <1>2, <1>3
<1>8. OrderKept
  <2> SUFFICES ASSUME NEW m \in 1 .. Len(messages), NEW n \in 1 .. Len(messages), m < n
               PROVE  FALSE
    BY DEF OrderKept
  <2> QED
    BY <1>7
<1>9. Covers
  <2>1. \A n \in 1 .. Len(messages) : messages[n].speaksFor \subseteq first .. added
    BY <1>1, <1>7
  <2>2. \A k \in first .. added : k = 0 /\ first = 0
    BY <1>1
  <2>3. first = 0 => 1 \in 1 .. Len(messages) /\ messages[1].speaksFor = {0}
    BY <1>2, <1>3
  <2> QED
    BY <2>1, <2>2, <2>3 DEF Covers
<1>10. RecentLast
  BY <1>1, SizesAssumption DEF RecentLast
<1> QED
  BY <1>5, <1>6, <1>8, <1>9, <1>10 DEF IInv

LEMMA StepKeepsIInv == IInv /\ [Next]_vars => IInv'
<1> SUFFICES ASSUME IInv, [Next]_vars PROVE IInv'
  OBVIOUS
<1>1. CASE UserTurn
  BY <1>1, UserTurnKeepsIInv
<1>2. CASE AssistantTurn
  BY <1>2, AssistantTurnKeepsIInv
<1>3. CASE Begin
  BY <1>3, BeginKeepsIInv
<1>4. CASE SetMessages
  BY <1>4, SetMessagesKeepsIInv
<1>5. CASE SummarizeFails
  BY <1>5, SummarizeFailsKeepsIInv
<1>6. CASE UNCHANGED vars
  BY <1>6 DEF vars, IInv, TypeOK, OneTask, CutFits, PromptStaysFirst, OrderKept, Covers,
              RecentLast
<1> QED
  BY <1>1, <1>2, <1>3, <1>4, <1>5, <1>6 DEF Next, Compress

\* The inductive invariant holds throughout: a task has cut what is still the
\* beginning of the context.
THEOREM CompactorInvariant == Spec => []IInv
<1> QED
  BY InitIsIInv, StepKeepsIInv, PTL DEF Spec

\* The variables stay within their types, however many messages are added: in
\* particular _compressing lets at most one _compress task exist, so that the
\* lock it takes is never contended.
THEOREM CompactorTypeCorrect == Spec => []TypeOK
<1>1. IInv => TypeOK
  BY DEF IInv
<1> QED
  BY <1>1, CompactorInvariant, PTL

\* Whatever is added while summaries are under way, set_messages leaves the
\* system prompt first and the conversation in order, nothing in it said twice.
THEOREM ContextInOrderHolds == Spec => []ContextInOrder
<1>1. IInv => ContextInOrder
  BY DEF IInv, ContextInOrder
<1> QED
  BY <1>1, CompactorInvariant, PTL

\* What the context speaks for is what its messages speak for, place by place.
LEMMA ContentIs ==
  ASSUME TypeOK
  PROVE  \A k : k \in Content(messages) <=>
           \E n \in 1 .. Len(messages) : k \in messages[n].speaksFor
<1>1. DOMAIN messages = 1 .. Len(messages)
  BY LenProperties DEF TypeOK
<1>2. Content(messages) = UNION {m.speaksFor : m \in ToSet(messages)}
  BY DEF Content
<1>3. ToSet(messages) = {messages[n] : n \in 1 .. Len(messages)}
  BY <1>1 DEF ToSet
<1> QED
  BY <1>2, <1>3

\* When nothing was added while a summary was under way, compaction loses
\* nothing: the context speaks for the whole conversation and the last
\* _KEEP_RECENT_MESSAGES messages are in it word for word.
THEOREM NothingForgottenWhenQuietHolds == Spec => []NothingForgottenWhenQuiet
<1>1. ASSUME IInv, ~disturbed PROVE Content(messages) = first .. added
  <2>1. TypeOK /\ Covers
    BY <1>1 DEF IInv
  <2>2. \A k : k \in Content(messages) <=>
          \E n \in 1 .. Len(messages) : k \in messages[n].speaksFor
    BY <2>1, ContentIs
  <2> QED
    BY <1>1, <2>1, <2>2 DEF Covers
<1>2. ASSUME IInv, ~disturbed, NEW n \in 1 .. added, n > added - KeepRecent
      PROVE  \E m \in ToSet(messages) : m.speaksFor = {n} /\ m.role # "system"
  <2> DEFINE k == added - n
             p == Len(messages) - k
  <2>1. TypeOK /\ RecentLast
    BY <1>2 DEF IInv
  <2>2. Len(messages) \in Nat /\ added \in Nat /\ KeepRecent \in Nat \ {0}
    BY <2>1, MessagesTyped
  <2>3. k \in 0 .. KeepRecent - 1 /\ k < added /\ added - k = n
    BY <1>2, <2>2
  <2> HIDE DEF k
  <2>4. k < Len(messages) /\ messages[p].speaksFor = {n} /\ messages[p].role # "system"
    BY <1>2, <2>1, <2>3 DEF RecentLast
  <2>5. p \in 1 .. Len(messages)
    BY <2>2, <2>3, <2>4
  <2>6. messages[p] \in ToSet(messages)
    <3>1. DOMAIN messages = 1 .. Len(messages)
      BY <2>1, LenProperties DEF TypeOK
    <3> QED
      BY <2>5, <3>1 DEF ToSet
  <2> QED
    BY <2>4, <2>6
<1>3. IInv => NothingForgottenWhenQuiet
  BY <1>1, <1>2 DEF NothingForgottenWhenQuiet
<1> QED
  BY <1>3, CompactorInvariant, PTL
=============================================================================
