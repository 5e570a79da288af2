-------------------------- MODULE InterviewerProofs --------------------------
(***************************************************************************)
(* Theorems about Interviewer, for any questions, any number of frames     *)
(* waiting, and whatever fails, is talked over or cancelled.  The          *)
(* inductive invariant IInv says that the queue is what is left of the     *)
(* script (QueueIsLeft), which prompt the candidate was given last (Asked),*)
(* how far the records have got (Recorded), what holds as long as nobody   *)
(* talks over a handler (InTurn), that no answer runs ahead of the         *)
(* questions (Behind) and who moved the session where (HandingOver).       *)
(***************************************************************************)
EXTENDS Interviewer, SequenceTheorems, TLAPS

\* The queue is an end of the questions, all of them before the main stage.
QueueIsLeft ==
  /\ Len(queue) <= Len(Questions)
  /\ \A i \in 1 .. Len(queue) : queue[i] = Questions[Len(Questions) - Len(queue) + i]
  /\ stage # "main" => Len(queue) = Len(Questions)

\* The place in the script of what is to be recorded next.
Upcoming == IF stage = "main" THEN Len(Script) + 1 - Len(queue) ELSE 1

\* What the candidate was asked, and what is done with an answer.
Asked ==
  /\ asked = "nothing" => stage = "greeting" /\ inbox = 0 /\ ~talking
  /\ stage = "greeting" => asked \in {"nothing", "greeting"} /\ ~done /\ handler = Waiting
  /\ stage # "greeting" /\ ~done =>
       asked = CurrentQuestion /\ (stage = "main" => queue # << >>)
  /\ done => stage = "main" /\ (queue = << >> \/ late)
  /\ handler.pc = "record" =>
       stage # "greeting" /\ ~done /\ handler.question = CurrentQuestion
  /\ handler.pc \in {"completed", "scoring", "end"} \/ over = "ending" => done
  /\ talking => inbox < MaxInbox

\* How far the records have got: to the question before, or, if its handler was
\* cancelled, to the one to be recorded next.
Recorded ==
  /\ \A n \in 1 .. Len(recorded) :
       /\ At(n) <= Upcoming
       /\ "barge-in" \notin mishaps => At(n) < Upcoming
  /\ "tool" \notin mishaps =>
       \A i \in 1 .. Upcoming - 1 :
         \E n \in 1 .. Len(recorded) : recorded[n].question = Script[i]

\* A candidate who waits for the next question answers the question asked last.
InTurn ==
  "overlap" \notin mishaps =>
    /\ talking => handler = Waiting /\ inbox = 0
    /\ inbox > 0 => inbox = 1 /\ handler = Waiting /\ heard.to = asked
    /\ handler.pc = "record" => handler.to = handler.question

\* Nothing that was spoken, heard or is being recorded is ahead of the question
\* to be recorded next.
Behind ==
  /\ Place(asked) <= Upcoming
  /\ Place(heard.to) <= Upcoming
  /\ handler.pc = "record" => Place(handler.to) <= Upcoming

\* Who has moved the session, and where it is, before and during the hand-over.
HandingOver ==
  /\ mover = "call" => session \in {"completed", "scoring"} /\ done
  /\ over = "ending" => handler = Waiting
  /\ "tool" \notin mishaps =>
       /\ handler.pc = "completed" => mover # "call"
       /\ handler.pc = "scoring" =>
            mover # "join" /\ (mover = "call" => session = "completed")
       /\ handler.pc = "end" \/ over = "ending" =>
            /\ mover = "call" => session = "scoring"
            /\ mover = "join" => session # "in_progress"

IInv ==
  /\ TypeOK /\ QueueIsLeft /\ Asked /\ Behind
  /\ Recorded /\ RecordsInOrder /\ InTurn /\ AnswersFit
-----------------------------------------------------------------------------
(* The script *)

LEMMA QuestionsTyped ==
  /\ Questions \in Seq(ToSet(Questions)) /\ Len(Questions) \in Nat
  /\ \A i \in 1 .. Len(Questions) :
       /\ Questions[i] \in ToSet(Questions)
       /\ Questions[i] # SelfIntro /\ Questions[i] \notin Phrases
  /\ \A i, j \in 1 .. Len(Questions) : Questions[i] = Questions[j] => i = j
<1>1. /\ Questions \in Seq(ToSet(Questions)) /\ IsInjective(Questions)
      /\ ToSet(Questions) \cap ({SelfIntro} \cup Phrases) = {}
  BY QuestionsAssumption
<1>2. Len(Questions) \in Nat /\ DOMAIN Questions = 1 .. Len(Questions)
  BY <1>1, LenProperties
<1>3. \A i \in 1 .. Len(Questions) : Questions[i] \in ToSet(Questions)
  BY <1>2 DEF ToSet
<1> QED
  BY <1>1, <1>2, <1>3 DEF IsInjective

\* The script is the self-introduction and the questions, each at one place.
LEMMA ScriptFacts ==
  /\ Len(Script) = Len(Questions) + 1
  /\ Script[1] = SelfIntro
  /\ \A i \in 1 .. Len(Questions) : Script[i + 1] = Questions[i]
  /\ ToSet(Script) = {Script[i] : i \in 1 .. Len(Script)}
  /\ \A i, j \in 1 .. Len(Script) : Script[i] = Script[j] => i = j
  /\ \A i \in 1 .. Len(Script) : Script[i] \notin Phrases
<1> DEFINE S == {SelfIntro} \cup ToSet(Questions)
<1>1. Questions \in Seq(S) /\ Len(Questions) \in Nat
  BY QuestionsTyped, SeqMonotonic
<1>2. <<SelfIntro>> \in Seq(S) /\ Len(<<SelfIntro>>) = 1 /\ <<SelfIntro>>[1] = SelfIntro
  OBVIOUS
<1>3. /\ Script \in Seq(S)
      /\ Len(Script) = 1 + Len(Questions)
      /\ \A i \in 1 .. 1 + Len(Questions) :
           Script[i] = IF i <= 1 THEN <<SelfIntro>>[i] ELSE Questions[i - 1]
  BY <1>1, <1>2, ConcatProperties DEF Script
<1>4. Script[1] = SelfIntro
  BY <1>1, <1>2, <1>3
<1>5. \A i \in 1 .. Len(Questions) : Script[i + 1] = Questions[i]
  BY <1>1, <1>3
<1>6. ToSet(Script) = {Script[i] : i \in 1 .. Len(Script)}
  BY <1>3, LenProperties DEF ToSet
<1>7. \A i \in 1 .. Len(Script) : i = 1 \/ (i - 1 \in 1 .. Len(Questions) /\ Script[i] = Questions[i - 1])
  BY <1>1, <1>3
<1>8. \A i, j \in 1 .. Len(Script) : Script[i] = Script[j] => i = j
  <2> TAKE i, j \in 1 .. Len(Script)
  <2> HAVE Script[i] = Script[j]
  <2>1. CASE i = 1 \/ j = 1
    BY <1>4, <1>7, <2>1, QuestionsTyped
  <2>2. CASE i # 1 /\ j # 1
    <3>1. i - 1 = j - 1
      BY <1>7, <2>2, QuestionsTyped
    <3>2. i \in Int /\ j \in Int
      BY <1>1, <1>3
    <3> QED
      BY <3>1, <3>2
  <2> QED
    BY <2>1, <2>2
<1>9. \A i \in 1 .. Len(Script) : Script[i] \notin Phrases
  BY <1>4, <1>7, QuestionsTyped DEF SelfIntro, Phrases
<1> QED
  BY <1>1, <1>3, <1>4, <1>5, <1>6, <1>8, <1>9

\* Position finds the place.
LEMMA PositionOf == \A i \in 1 .. Len(Script) : Position(Script[i]) = i
BY ScriptFacts DEF Position

\* Phrases come before the script.
LEMMA PlaceOf ==
  /\ \A p \in Phrases : Place(p) = 0
  /\ \A i \in 1 .. Len(Script) : Place(Script[i]) = i
  /\ \A p \in Prompts : Place(p) \in Nat
<1>1. \A p \in Phrases : Place(p) = 0
  BY DEF Place
<1>2. \A i \in 1 .. Len(Script) : Place(Script[i]) = i
  BY ScriptFacts, PositionOf DEF Place
<1>3. \A p \in ToSet(Script) : Place(p) \in Nat
  BY <1>2, ScriptFacts, QuestionsTyped
<1> QED
  BY <1>1, <1>2, <1>3 DEF Prompts

\* What the queue says of the script.
LEMMA QueueOfScript ==
  ASSUME TypeOK, QueueIsLeft
  PROVE  /\ Len(queue) \in 0 .. Len(Questions) /\ Len(Questions) \in Nat
         /\ Upcoming \in 1 .. Len(Script) + 1
         /\ Upcoming = Len(Script) + 1 => queue = << >>
<1>1. Len(queue) \in Nat /\ Len(queue) <= Len(Questions) /\ Len(Questions) \in Nat
  BY QuestionsTyped DEF TypeOK, QueueIsLeft
<1>2. Len(queue) = 0 => queue = << >>
  BY EmptySeq DEF TypeOK
<1> QED
  BY <1>1, <1>2, ScriptFacts DEF Upcoming

\* The question an answer is stored under is the one to be recorded next.
LEMMA CurrentIsUpcoming ==
  ASSUME TypeOK, QueueIsLeft, stage # "greeting", stage = "main" => queue # << >>
  PROVE  /\ Upcoming \in 1 .. Len(Script)
         /\ CurrentQuestion = Script[Upcoming]
         /\ CurrentQuestion \in ToSet(Script) /\ CurrentQuestion \notin Phrases
<1>1. stage \in {"self_intro", "main"}
  BY DEF TypeOK
<1>2. /\ Len(queue) \in 0 .. Len(Questions) /\ Len(Questions) \in Nat
      /\ Len(Script) = Len(Questions) + 1
  BY QueueOfScript, ScriptFacts
<1>3. CASE stage = "self_intro"
  BY <1>2, <1>3, ScriptFacts DEF Upcoming, CurrentQuestion
<1>4. CASE stage = "main"
  <2>1. queue # << >> /\ queue \in Seq(ToSet(Questions))
    BY <1>4 DEF TypeOK
  <2>2. Len(queue) \in 1 .. Len(Questions) /\ Head(queue) = queue[1]
    BY <1>2, <2>1, EmptySeq
  <2>3. Head(queue) = Questions[Len(Questions) - Len(queue) + 1]
    BY <1>2, <2>2 DEF QueueIsLeft
  <2>4. Upcoming = (Len(Questions) - Len(queue) + 1) + 1
    BY <1>2, <1>4, <2>2 DEF Upcoming
  <2>5. Len(Questions) - Len(queue) + 1 \in 1 .. Len(Questions)
    BY <1>2, <2>2
  <2>6. Script[Upcoming] = Head(queue) /\ Upcoming \in 1 .. Len(Script)
    BY <1>2, <2>3, <2>4, <2>5, ScriptFacts
  <2> QED
    BY <1>4, <2>6, ScriptFacts DEF CurrentQuestion
<1> QED
  BY <1>1, <1>3, <1>4
-----------------------------------------------------------------------------
(* What a step does to the records *)

LEMMA AtTyped ==
  ASSUME TypeOK
  PROVE  /\ Len(recorded) \in Nat
         /\ \A n \in 1 .. Len(recorded) :
              At(n) \in 1 .. Len(Script) /\ Script[At(n)] = recorded[n].question
<1>1. /\ Len(recorded) \in Nat
      /\ \A n \in 1 .. Len(recorded) : recorded[n].question \in ToSet(Script)
  <2>1. recorded \in Seq([question : ToSet(Script), to : Prompts])
    BY DEF TypeOK
  <2>2. \A n \in 1 .. Len(recorded) : recorded[n] \in [question : ToSet(Script), to : Prompts]
    BY <2>1, ElementOfSeq
  <2> QED
    BY <2>1, <2>2
<1> QED
  BY <1>1, ScriptFacts, PositionOf DEF At

\* Nothing is recorded, and the question stays the same.
LEMMA RecordsStay ==
  ASSUME QueueIsLeft, Recorded, RecordsInOrder, AnswersFit,
         UNCHANGED <<queue, recorded>>, stage' = "main" <=> stage = "main",
         mishaps \subseteq mishaps'
  PROVE  QueueIsLeft' /\ Recorded' /\ RecordsInOrder' /\ AnswersFit'
<1>1. Upcoming' = Upcoming
  BY DEF Upcoming
<1>2. Recorded' /\ RecordsInOrder'
  BY <1>1 DEF Recorded, RecordsInOrder, At
<1> QED
  BY <1>2 DEF QueueIsLeft, AnswersFit, At

\* Nothing is ahead, and the question stays the same.
LEMMA StaysBehind ==
  ASSUME TypeOK, QueueIsLeft, Behind, UNCHANGED queue, stage' = "main" <=> stage = "main",
         Place(asked') <= Upcoming, heard'.to \in {heard.to, asked},
         handler'.pc = "record" =>
           handler'.to = heard.to \/ (handler.pc = "record" /\ handler'.to = handler.to)
  PROVE  Behind'
<1>1. Upcoming' = Upcoming
  BY DEF Upcoming
<1> QED
  BY <1>1 DEF Behind

\* A turn is recorded under the question that is up.
LEMMA Appending ==
  ASSUME TypeOK, Recorded, RecordsInOrder, Upcoming \in 1 .. Len(Script),
         NEW to \in Prompts, mishaps \subseteq mishaps',
         recorded' = Append(recorded, [question |-> Script[Upcoming], to |-> to])
  PROVE  /\ recorded' \in Seq([question : ToSet(Script), to : Prompts])
         /\ RecordsInOrder'
         /\ \A n \in 1 .. Len(recorded') : At(n)' <= Upcoming
         /\ "tool" \notin mishaps =>
              \A i \in 1 .. Upcoming :
                \E n \in 1 .. Len(recorded') : recorded'[n].question = Script[i]
         /\ /\ AnswersFit /\ Place(to) <= Upcoming
            /\ "overlap" \notin mishaps => to = Script[Upcoming]
            => AnswersFit'
<1> DEFINE r == [question |-> Script[Upcoming], to |-> to]
           k == Len(recorded)
<1>1. r \in [question : ToSet(Script), to : Prompts]
  BY ScriptFacts
<1>2. /\ recorded' \in Seq([question : ToSet(Script), to : Prompts])
      /\ Len(recorded') = k + 1 /\ k \in Nat
      /\ \A n \in 1 .. k : recorded'[n] = recorded[n]
      /\ recorded'[k + 1] = r
  BY <1>1, AtTyped, AppendProperties DEF TypeOK
<1>3. \A n \in 1 .. k : At(n)' = At(n) /\ At(n) \in 1 .. Len(Script) /\ At(n) <= Upcoming
  <2>1. \A n \in 1 .. k : At(n)' = At(n)
    BY <1>2 DEF At
  <2>2. \A n \in 1 .. k : At(n) \in 1 .. Len(Script) /\ At(n) <= Upcoming
    BY AtTyped DEF Recorded
  <2> QED
    BY <2>1, <2>2
<1>4. \A n \in 1 .. Len(recorded') : n = k + 1 => At(n)' = Upcoming
  BY <1>2, PositionOf DEF At
<1>5. \A n \in 1 .. Len(recorded') : n \in 1 .. k \/ n = k + 1
  BY <1>2
<1>6. RecordsInOrder'
  <2> SUFFICES ASSUME NEW m \in 1 .. Len(recorded'), NEW n \in 1 .. Len(recorded'), m < n
               PROVE  At(m)' <= At(n)' /\ ("barge-in" \notin mishaps' => At(m)' # At(n)')
    BY DEF RecordsInOrder
  <2>1. m \in 1 .. k
    BY <1>2
  <2>2. CASE n \in 1 .. k
    <3>1. At(m) <= At(n) /\ ("barge-in" \notin mishaps => At(m) # At(n))
      BY <2>1, <2>2 DEF RecordsInOrder
    <3>2. At(m)' = At(m) /\ At(n)' = At(n)
      BY <1>3, <2>1, <2>2
    <3> QED
      BY <3>1, <3>2
  <2>3. CASE n = k + 1
    <3>1. At(m)' = At(m) /\ At(n)' = Upcoming
      BY <1>3, <1>4, <2>1, <2>3
    <3>2. At(m) <= Upcoming /\ ("barge-in" \notin mishaps => At(m) < Upcoming)
      BY <2>1 DEF Recorded
    <3>3. At(m) \in Nat /\ Upcoming \in Nat
      BY <1>3, <2>1, ScriptFacts, QuestionsTyped
    <3> QED
      BY <3>1, <3>2, <3>3
  <2> QED
    BY <1>5, <2>2, <2>3
<1>7. \A n \in 1 .. Len(recorded') : At(n)' <= Upcoming
  BY <1>3, <1>4, <1>5
<1>8. ASSUME "tool" \notin mishaps, NEW i \in 1 .. Upcoming
      PROVE  \E n \in 1 .. Len(recorded') : recorded'[n].question = Script[i]
  <2>1. CASE i = Upcoming
    <3>1. recorded'[k + 1].question = Script[i] /\ k + 1 \in 1 .. Len(recorded')
      BY <1>2, <2>1
    <3> QED
      BY <3>1
  <2>2. CASE i # Upcoming
    <3>1. i \in 1 .. Upcoming - 1
      BY <2>2
    <3>2. PICK n \in 1 .. k : recorded[n].question = Script[i]
      BY <1>8, <3>1 DEF Recorded
    <3>3. n \in 1 .. Len(recorded') /\ recorded'[n] = recorded[n]
      BY <1>2
    <3> QED
      BY <3>2, <3>3
  <2> QED
    BY <2>1, <2>2
<1>9. ASSUME AnswersFit, Place(to) <= Upcoming, "overlap" \notin mishaps => to = Script[Upcoming]
      PROVE  AnswersFit'
  <2> SUFFICES ASSUME NEW n \in 1 .. Len(recorded')
               PROVE  /\ Place(recorded'[n].to) <= At(n)'
                      /\ "overlap" \notin mishaps => recorded'[n].to = recorded'[n].question
    BY DEF AnswersFit
  <2>1. CASE n \in 1 .. k
    BY <1>2, <1>3, <1>9, <2>1 DEF AnswersFit
  <2>2. CASE n = k + 1
    BY <1>2, <1>4, <1>9, <2>2
  <2> QED
    BY <1>5, <2>1, <2>2
<1> QED
  BY <1>2, <1>6, <1>7, <1>8, <1>9

\* The next question is up.
LEMMA Advancing ==
  ASSUME TypeOK, QueueIsLeft, stage # "greeting", stage = "main" => queue # << >>,
         stage' = "main", queue' = Popped(queue)
  PROVE  /\ queue' \in Seq(ToSet(Questions)) /\ QueueIsLeft'
         /\ Upcoming' = Upcoming + 1
         /\ queue' # << >> =>
              /\ Upcoming' \in 1 .. Len(Script) /\ Head(queue') = Script[Upcoming']
              /\ Head(queue') \in ToSet(Script)
<1>1. /\ Len(queue) \in 0 .. Len(Questions) /\ Len(Questions) \in Nat
      /\ Len(Script) = Len(Questions) + 1 /\ queue \in Seq(ToSet(Questions))
      /\ stage \in {"self_intro", "main"}
  BY QueueOfScript, ScriptFacts DEF TypeOK
<1>2. ASSUME stage = "main"
      PROVE  /\ queue' \in Seq(ToSet(Questions)) /\ QueueIsLeft'
             /\ Upcoming' = Upcoming + 1
  <2>1. queue # << >> /\ queue' = Tail(queue)
    BY <1>2 DEF Popped
  <2>2. /\ queue' \in Seq(ToSet(Questions))
        /\ Len(queue') = Len(queue) - 1 /\ Len(queue) > 0
        /\ \A i \in 1 .. Len(queue') : queue'[i] = queue[i + 1]
    BY <1>1, <2>1, HeadTailProperties, EmptySeq
  <2>3. \A i \in 1 .. Len(queue') :
          queue'[i] = Questions[Len(Questions) - Len(queue') + i]
    <3> TAKE i \in 1 .. Len(queue')
    <3>1. i + 1 \in 1 .. Len(queue) /\ queue'[i] = queue[i + 1]
      BY <1>1, <2>2
    <3>2. queue[i + 1] = Questions[Len(Questions) - Len(queue) + (i + 1)]
      BY <3>1 DEF QueueIsLeft
    <3>3. Len(Questions) - Len(queue) + (i + 1) = Len(Questions) - Len(queue') + i
      BY <1>1, <2>2
    <3> QED
      BY <3>1, <3>2, <3>3
  <2>4. QueueIsLeft' /\ Upcoming' = Upcoming + 1
    BY <1>1, <1>2, <2>2, <2>3 DEF QueueIsLeft, Upcoming
  <2> QED
    BY <2>2, <2>4
<1>3. ASSUME stage # "main"
      PROVE  /\ queue' \in Seq(ToSet(Questions)) /\ QueueIsLeft'
             /\ Upcoming' = Upcoming + 1
  <2>1. queue' = queue /\ Len(queue) = Len(Questions)
    BY <1>3 DEF Popped, QueueIsLeft
  <2>2. QueueIsLeft' /\ Upcoming' = Upcoming + 1
    BY <1>1, <1>3, <2>1 DEF QueueIsLeft, Upcoming
  <2> QED
    BY <1>1, <2>1, <2>2
<1>4. /\ queue' \in Seq(ToSet(Questions)) /\ QueueIsLeft'
      /\ Upcoming' = Upcoming + 1
  BY <1>2, <1>3
<1>5. ASSUME queue' # << >>
      PROVE  Upcoming' \in 1 .. Len(Script) /\ Head(queue') = Script[Upcoming']
  <2>1. Len(queue') \in 1 .. Len(Questions) /\ Head(queue') = queue'[1]
    BY <1>1, <1>4, <1>5, EmptySeq DEF QueueIsLeft
  <2>2. Head(queue') = Questions[Len(Questions) - Len(queue') + 1]
    BY <1>4, <2>1 DEF QueueIsLeft
  <2>3. Upcoming' = (Len(Questions) - Len(queue') + 1) + 1
    BY <1>1, <2>1 DEF Upcoming
  <2>4. Len(Questions) - Len(queue') + 1 \in 1 .. Len(Questions)
    BY <1>1, <2>1
  <2> QED
    BY <1>1, <2>2, <2>3, <2>4, ScriptFacts
<1> QED
  BY <1>4, <1>5, ScriptFacts
-----------------------------------------------------------------------------
(* Steps that record nothing *)

\* CurrentQuestion is read off the stage and the queue.
LEMMA CurrentStays ==
  ASSUME UNCHANGED <<stage, queue>>
  PROVE  CurrentQuestion' = CurrentQuestion
BY DEF CurrentQuestion

\* The prompts and kinds there are.
LEMMA HandlerTyped ==
  ASSUME TypeOK
  PROVE  /\ handler.pc \in {"waiting", "completed", "scoring", "end", "record"}
         /\ handler.pc = "record" =>
              handler.question \in ToSet(Script) /\ handler.to \in Prompts
         /\ handler = Waiting <=> handler.pc = "waiting"
BY DEF TypeOK, Handler, Waiting

LEMMA StartKeepsIInv == ASSUME IInv, Start PROVE IInv'
<1>1. /\ asked = "nothing" /\ asked' = "greeting"
      /\ UNCHANGED <<stage, queue, done, handler, late, inbox, candidate, recorded,
                     session, mover, forwarded, over, mishaps>>
  BY DEF Start, row
<1>2. QueueIsLeft' /\ Recorded' /\ RecordsInOrder' /\ AnswersFit'
  BY <1>1, RecordsStay DEF IInv
<1>3. TypeOK'
  BY <1>1 DEF IInv, TypeOK, candidate, Prompts, Phrases
<1>4. Asked' /\ InTurn'
  BY <1>1, CurrentStays DEF IInv, Asked, InTurn, candidate
<1>5. Behind'
  <2>1. Upcoming \in Nat /\ Place(asked') = 0
    BY <1>1, PlaceOf, QueueOfScript, ScriptFacts, QuestionsTyped DEF IInv, Phrases
  <2> QED
    BY <1>1, <2>1, StaysBehind DEF IInv, candidate
<1> QED
  BY <1>2, <1>3, <1>4, <1>5 DEF IInv

LEMMA TalkKeepsIInv == ASSUME IInv, Talk PROVE IInv'
<1>1. CASE StartTalking
  <2>1. /\ asked # "nothing" /\ ~talking /\ inbox < MaxInbox /\ talking' = TRUE
        /\ mishaps' = IF handler # Waiting \/ inbox > 0 THEN mishaps \cup {"overlap"} ELSE mishaps
        /\ UNCHANGED <<stage, queue, done, handler, asked, late, inbox, heard, recorded,
                       session, mover, forwarded, over>>
    BY <1>1 DEF StartTalking, Mishap, call, row
  <2>2. QueueIsLeft' /\ Recorded' /\ RecordsInOrder' /\ AnswersFit'
    BY <2>1, RecordsStay DEF IInv
  <2>3. TypeOK'
    BY <2>1 DEF IInv, TypeOK, Mishaps
  <2>4. Asked'
    BY <2>1, CurrentStays DEF IInv, Asked
  <2>5. InTurn'
    <3>1. inbox \in Nat
      BY DEF IInv, TypeOK
    <3> QED
      BY <2>1, <3>1 DEF IInv, InTurn
  <2>6. Behind'
    BY <2>1, StaysBehind DEF IInv, Behind
  <2> QED
    BY <2>2, <2>3, <2>4, <2>5, <2>6 DEF IInv
<1>2. ASSUME NEW kind \in Kinds, StopTalking(kind) PROVE IInv'
  <2>1. /\ talking /\ talking' = FALSE
        /\ heard' = [kind |-> kind, to |-> asked] /\ inbox' = inbox + 1
        /\ UNCHANGED <<stage, queue, done, handler, asked, late, recorded, session,
                       mover, forwarded, over, mishaps>>
    BY <1>2 DEF StopTalking, call, row
  <2>2. QueueIsLeft' /\ Recorded' /\ RecordsInOrder' /\ AnswersFit'
    BY <2>1, RecordsStay DEF IInv
  <2>3. inbox \in 0 .. MaxInbox /\ inbox < MaxInbox /\ asked # "nothing" /\ MaxInbox \in Nat
    BY <2>1, BoundsAssumption DEF IInv, TypeOK, Asked
  <2>4. TypeOK'
    <3>1. inbox' \in 0 .. MaxInbox
      BY <2>1, <2>3
    <3>2. heard' \in [kind : Kinds, to : Prompts]
      BY <2>1 DEF IInv, TypeOK
    <3> QED
      BY <2>1, <3>1, <3>2 DEF IInv, TypeOK
  <2>5. Asked'
    BY <2>1, <2>3, CurrentStays DEF IInv, Asked
  <2>6. InTurn'
    BY <2>1, <2>3 DEF IInv, InTurn
  <2>7. Behind'
    BY <2>1, StaysBehind DEF IInv, Behind
  <2> QED
    BY <2>2, <2>4, <2>5, <2>6, <2>7 DEF IInv
<1> QED
  BY <1>1, <1>2 DEF Talk

\* The clock, the client, the recruiters and the pipeline.
LEMMA AsideKeepsIInv ==
  ASSUME IInv, UNCHANGED <<call, inbox, candidate, recorded, forwarded, mishaps>>,
         late => late', late' \in BOOLEAN, session' \in States, mover' \in Movers,
         over' \in {"no", "ending", "down"}, over' = "ending" => over = "ending"
  PROVE  IInv'
<1>1. UNCHANGED <<stage, queue, done, handler, asked, inbox, heard, talking, recorded, forwarded,
                  mishaps>>
  BY DEF call, candidate
<1>2. QueueIsLeft' /\ Recorded' /\ RecordsInOrder' /\ AnswersFit'
  BY <1>1, RecordsStay DEF IInv
<1>3. TypeOK'
  BY <1>1 DEF IInv, TypeOK
<1>4. Asked' /\ InTurn'
  BY <1>1, CurrentStays DEF IInv, Asked, InTurn
<1>5. Behind'
  BY <1>1, StaysBehind DEF IInv, Behind
<1> QED
  BY <1>2, <1>3, <1>4, <1>5 DEF IInv

LEMMA TakeFrameKeepsIInv == ASSUME IInv, TakeFrame PROVE IInv'
<1>1. /\ handler = Waiting /\ inbox > 0 /\ inbox' = inbox - 1
      /\ UNCHANGED <<late, heard, talking, recorded, session, mover, over, mishaps>>
  BY DEF TakeFrame, candidate, row
<1>2. /\ inbox \in 0 .. MaxInbox /\ MaxInbox \in Nat
      /\ TypeOK /\ QueueIsLeft /\ Asked /\ InTurn /\ Behind
      /\ handler.pc = "waiting" /\ asked # "nothing"
  BY <1>1, BoundsAssumption DEF IInv, TypeOK, Asked, Waiting
<1>3. "overlap" \notin mishaps => inbox = 1 /\ inbox' = 0 /\ heard.to = asked /\ ~talking
  BY <1>1, <1>2 DEF InTurn
<1>4. CASE Forward
  <2>1. done /\ forwarded' = TRUE /\ UNCHANGED <<stage, queue, done, handler, asked>>
    BY <1>4 DEF Forward, call
  <2>2. QueueIsLeft' /\ Recorded' /\ RecordsInOrder' /\ AnswersFit'
    BY <1>1, <2>1, RecordsStay DEF IInv
  <2>3. TypeOK'
    BY <1>1, <1>2, <2>1 DEF TypeOK
  <2>4. Asked' /\ InTurn'
    BY <1>1, <1>2, <1>3, <2>1, CurrentStays DEF Asked, InTurn
  <2>5. Behind'
    BY <1>1, <1>2, <2>1, StaysBehind DEF Behind
  <2> QED
    BY <2>2, <2>3, <2>4, <2>5 DEF IInv
<1>5. CASE ~done /\ AnswerGreeting /\ UNCHANGED forwarded
  <2>1. /\ ~done /\ stage = "greeting" /\ stage' = "self_intro" /\ asked' = SelfIntro
        /\ UNCHANGED <<queue, done, handler, forwarded>>
    BY <1>5 DEF AnswerGreeting
  <2>2. QueueIsLeft' /\ Recorded' /\ RecordsInOrder' /\ AnswersFit'
    BY <1>1, <2>1, RecordsStay DEF IInv
  <2>3. SelfIntro \in Prompts /\ SelfIntro # "nothing" /\ CurrentQuestion' = SelfIntro
    BY <2>1, ScriptFacts, QuestionsTyped DEF Prompts, CurrentQuestion, SelfIntro
  <2>4. TypeOK'
    BY <1>1, <1>2, <2>1, <2>3 DEF TypeOK
  <2>5. Asked' /\ InTurn'
    BY <1>1, <1>2, <1>3, <2>1, <2>3 DEF Asked, InTurn, Waiting
  <2>6. Behind'
    <3>1. Upcoming = 1 /\ Place(SelfIntro) = 1
      BY <2>1, PlaceOf, ScriptFacts, QuestionsTyped DEF Upcoming
    <3> QED
      BY <1>1, <1>2, <2>1, <3>1, StaysBehind
  <2> QED
    BY <2>2, <2>4, <2>5, <2>6 DEF IInv
<1>6. CASE stage # "greeting" /\ ~done /\ UNCHANGED <<stage, queue, done, forwarded>>
             /\ (AskAgain \/ Confirm)
  <2>1. QueueIsLeft' /\ Recorded' /\ RecordsInOrder' /\ AnswersFit'
    BY <1>1, <1>6, RecordsStay DEF IInv
  <2>2. /\ CurrentQuestion \in ToSet(Script) /\ CurrentQuestion \notin Phrases
        /\ asked = CurrentQuestion /\ CurrentQuestion' = CurrentQuestion
        /\ CurrentQuestion \in Prompts
    BY <1>2, <1>6, CurrentIsUpcoming, CurrentStays DEF Asked, Prompts
  <2>3. CASE asked' = CurrentQuestion /\ UNCHANGED handler
    <3>1. TypeOK'
      BY <1>1, <1>2, <1>6, <2>2, <2>3 DEF TypeOK
    <3>2. Asked' /\ InTurn'
      BY <1>1, <1>2, <1>3, <1>6, <2>2, <2>3 DEF Asked, InTurn, Phrases
    <3>3. Behind'
      BY <1>1, <1>2, <1>6, <2>2, <2>3, StaysBehind DEF Behind
    <3> QED
      BY <2>1, <3>1, <3>2, <3>3 DEF IInv
  <2>4. CASE /\ handler' = [pc |-> "record", question |-> CurrentQuestion, to |-> heard.to]
             /\ UNCHANGED asked
    <3>1. heard.to \in Prompts
      BY <1>2 DEF TypeOK
    <3>2. handler' \in Handler /\ handler'.pc = "record" /\ handler'.to = heard.to
          /\ handler'.question = CurrentQuestion
      BY <2>2, <2>4, <3>1 DEF Handler
    <3>3. TypeOK'
      BY <1>1, <1>2, <1>6, <2>2, <2>4, <3>2 DEF TypeOK
    <3>4. Asked' /\ InTurn'
      BY <1>1, <1>2, <1>3, <1>6, <2>2, <2>4, <3>2 DEF Asked, InTurn, Phrases
    <3>5. Behind'
      BY <1>1, <1>2, <1>6, <2>4, <3>2, StaysBehind DEF Behind
    <3> QED
      BY <2>1, <3>3, <3>4, <3>5 DEF IInv
  <2> QED
    BY <1>6, <2>3, <2>4 DEF AskAgain, Confirm
<1> QED
  BY <1>4, <1>5, <1>6 DEF TakeFrame, AskAgain, Confirm
-----------------------------------------------------------------------------
(* Steps of a handler that was suspended *)

\* record_turn has answered: the turn is recorded, or its call failed, and the
\* next question is asked, or the call wrapped up.
LEMMA RecordTurnKeepsIInv == ASSUME IInv, RecordTurn PROVE IInv'
<1>1. /\ handler.pc = "record" /\ stage' = "main"
      /\ AskCurrent(Popped(queue))
      /\ UNCHANGED <<late, inbox, heard, talking, session, mover, forwarded, over>>
  BY DEF RecordTurn, candidate, row
<1>2. /\ TypeOK /\ QueueIsLeft /\ Asked /\ Recorded /\ RecordsInOrder /\ InTurn /\ AnswersFit /\ Behind
  BY DEF IInv
<1>3. /\ stage # "greeting" /\ ~done /\ (stage = "main" => queue # << >>)
      /\ handler.question = CurrentQuestion /\ handler.to \in Prompts
      /\ handler # Waiting
  BY <1>1, <1>2, HandlerTyped DEF Asked, Waiting
<1>4. Upcoming \in 1 .. Len(Script) /\ CurrentQuestion = Script[Upcoming]
  BY <1>2, <1>3, CurrentIsUpcoming
<1>5. queue' = Popped(queue)
  BY <1>1 DEF AskCurrent
<1>6. /\ queue' \in Seq(ToSet(Questions)) /\ QueueIsLeft'
      /\ Upcoming' = Upcoming + 1
      /\ queue' # << >> =>
           /\ Upcoming' \in 1 .. Len(Script) /\ Head(queue') = Script[Upcoming']
           /\ Head(queue') \in ToSet(Script)
  BY <1>1, <1>2, <1>3, <1>5, Advancing
<1>7. \/ /\ recorded' = Append(recorded, [question |-> Script[Upcoming], to |-> handler.to])
         /\ UNCHANGED mishaps
      \/ recorded' = recorded /\ mishaps' = mishaps \cup {"tool"}
  BY <1>3, <1>4 DEF RecordTurn, Mishap
<1>8. /\ mishaps \subseteq mishaps' /\ mishaps' \subseteq Mishaps
      /\ ("overlap" \in mishaps' => "overlap" \in mishaps)
  BY <1>2, <1>7 DEF TypeOK, Mishaps
<1>9. \/ /\ done' = TRUE /\ asked' = "goodbye" /\ handler' = [pc |-> "completed"]
         /\ queue' = << >> \/ late
      \/ /\ done' = done /\ asked' = Head(queue') /\ handler' = Waiting
         /\ queue' # << >>
  BY <1>1, <1>5 DEF AskCurrent, NothingToAsk
<1>10. /\ recorded' \in Seq([question : ToSet(Script), to : Prompts])
       /\ Recorded' /\ RecordsInOrder' /\ AnswersFit'
  <2>1. Upcoming \in Nat /\ Len(Script) \in Nat
    BY <1>4, ScriptFacts, QuestionsTyped
  <2>2. CASE /\ recorded' = Append(recorded, [question |-> Script[Upcoming], to |-> handler.to])
             /\ UNCHANGED mishaps
    <3>1. /\ recorded' \in Seq([question : ToSet(Script), to : Prompts])
          /\ RecordsInOrder'
          /\ \A n \in 1 .. Len(recorded') : At(n)' <= Upcoming
          /\ "tool" \notin mishaps =>
               \A i \in 1 .. Upcoming :
                 \E n \in 1 .. Len(recorded') : recorded'[n].question = Script[i]
          /\ /\ AnswersFit /\ Place(handler.to) <= Upcoming
             /\ "overlap" \notin mishaps => handler.to = Script[Upcoming]
             => AnswersFit'
      BY <1>2, <1>3, <1>4, <1>8, <2>2, Appending
    <3>2. \A n \in 1 .. Len(recorded') : At(n)' \in Int
      <4>1. \A n \in 1 .. Len(recorded') : recorded'[n] \in [question : ToSet(Script), to : Prompts]
        BY <3>1, ElementOfSeq
      <4>2. \A q \in ToSet(Script) : Position(q) \in 1 .. Len(Script)
        BY ScriptFacts, PositionOf
      <4> QED
        BY <2>1, <4>1, <4>2 DEF At
    <3>3. Recorded'
      <4>1. \A n \in 1 .. Len(recorded') : At(n)' < Upcoming'
        BY <1>6, <2>1, <3>1, <3>2
      <4>2. Upcoming' - 1 = Upcoming
        BY <1>6, <2>1
      <4>3. \A n \in 1 .. Len(recorded') : At(n)' <= Upcoming'
        BY <1>6, <2>1, <3>2, <4>1
      <4> QED
        BY <2>2, <3>1, <4>1, <4>2, <4>3 DEF Recorded
    <3>4. AnswersFit'
      BY <1>1, <1>2, <1>3, <1>4, <3>1 DEF Behind, InTurn
    <3> QED
      BY <3>1, <3>3, <3>4
  <2>3. CASE recorded' = recorded /\ mishaps' = mishaps \cup {"tool"}
    <3>1. \A n \in 1 .. Len(recorded) : At(n)' = At(n) /\ At(n) \in 1 .. Len(Script)
      BY <1>2, <2>3, AtTyped DEF At
    <3>2. Recorded'
      <4>1. \A n \in 1 .. Len(recorded) :
              At(n) <= Upcoming /\ ("barge-in" \notin mishaps => At(n) < Upcoming)
        BY <1>2 DEF Recorded
      <4>2. \A n \in 1 .. Len(recorded') :
              At(n)' <= Upcoming' /\ ("barge-in" \notin mishaps' => At(n)' < Upcoming')
        BY <1>6, <2>1, <2>3, <3>1, <4>1
      <4> QED
        BY <2>3, <4>2 DEF Recorded
    <3>3. RecordsInOrder'
      BY <1>2, <2>3, <3>1 DEF RecordsInOrder
    <3>4. AnswersFit'
      BY <1>2, <2>3, <3>1 DEF AnswersFit
    <3> QED
      BY <1>2, <2>3, <3>2, <3>3, <3>4 DEF TypeOK
  <2> QED
    BY <1>7, <2>2, <2>3
<1>11. TypeOK' /\ Asked' /\ InTurn'
  <2>1. CASE /\ done' = TRUE /\ asked' = "goodbye" /\ handler' = [pc |-> "completed"]
             /\ queue' = << >> \/ late
    <3>1. TypeOK'
      BY <1>1, <1>2, <1>6, <1>8, <1>10, <2>1 DEF TypeOK, Handler, Prompts, Phrases
    <3>2. Asked' /\ InTurn'
      BY <1>1, <1>2, <1>3, <1>8, <2>1 DEF Asked, InTurn
    <3> QED
      BY <3>1, <3>2
  <2>2. CASE /\ done' = done /\ asked' = Head(queue') /\ handler' = Waiting
             /\ queue' # << >>
    <3>1. /\ asked' \in ToSet(Script) /\ asked' \notin Phrases
          /\ CurrentQuestion' = asked' /\ handler'.pc = "waiting"
      BY <1>1, <1>6, <2>2, ScriptFacts DEF CurrentQuestion, Waiting
    <3>2. TypeOK'
      BY <1>1, <1>2, <1>6, <1>8, <1>10, <2>2, <3>1 DEF TypeOK, Handler, Waiting, Prompts
    <3>3. Asked' /\ InTurn'
      BY <1>1, <1>2, <1>3, <1>8, <2>2, <3>1 DEF Asked, InTurn, Phrases
    <3> QED
      BY <3>2, <3>3
  <2> QED
    BY <1>9, <2>1, <2>2
<1>12. Behind'
  <2>1. /\ \A p \in Prompts : Place(p) \in Int
        /\ heard.to \in Prompts /\ Upcoming \in Int /\ Len(Script) \in Nat
    BY <1>2, <1>4, PlaceOf, ScriptFacts, QuestionsTyped DEF TypeOK
  <2>2. Place(heard'.to) <= Upcoming'
    BY <1>1, <1>2, <1>6, <2>1 DEF Behind
  <2>3. handler'.pc # "record"
    BY <1>9 DEF Waiting
  <2>4. Place(asked') <= Upcoming'
    <3>1. CASE asked' = "goodbye"
      BY <1>6, <2>1, <1>4, <3>1, PlaceOf DEF Phrases
    <3>2. CASE queue' # << >> /\ asked' = Head(queue')
      BY <1>6, <2>1, <3>2, PlaceOf
    <3> QED
      BY <1>9, <3>1, <3>2
  <2> QED
    BY <2>2, <2>3, <2>4 DEF Behind
<1> QED
  BY <1>6, <1>10, <1>11, <1>12 DEF IInv

\* advance_state leaves the session in a state, and only a failure is remembered.
LEMMA AdvanceStateTyped ==
  ASSUME TypeOK, NEW to \in {"completed", "scoring"}, NEW ok \in BOOLEAN,
         AdvanceState(to, ok)
  PROVE  /\ session' \in States /\ mover' \in Movers
         /\ mishaps' \in {mishaps, mishaps \cup {"tool"}}
BY DEF AdvanceState, Move, Mishap, TypeOK, States, Movers, row

\* The steps of _wrap_up.
LEMMA WrapUpKeepsIInv == ASSUME IInv, Complete \/ HandToScoring \/ PushEnd PROVE IInv'
<1>1. /\ UNCHANGED <<stage, queue, done, asked, late, inbox, heard, talking, recorded,
                     forwarded>>
      /\ handler.pc \in {"completed", "scoring", "end"}
      /\ handler' \in {Waiting, [pc |-> "scoring"], [pc |-> "end"]}
      /\ over' = over \/ over' = "ending"
  BY DEF Complete, HandToScoring, PushEnd, candidate
<1>2. session' \in States /\ mover' \in Movers /\ mishaps' \in {mishaps, mishaps \cup {"tool"}}
  BY AdvanceStateTyped DEF Complete, HandToScoring, PushEnd, IInv, TypeOK, row
<1>3. QueueIsLeft' /\ Recorded' /\ RecordsInOrder' /\ AnswersFit'
  BY <1>1, <1>2, RecordsStay DEF IInv
<1>4. TypeOK'
  BY <1>1, <1>2 DEF IInv, TypeOK, Handler, Waiting, Mishaps
<1>5. handler'.pc \in {"waiting", "scoring", "end"} /\ handler # Waiting /\ done
  BY <1>1 DEF Waiting, IInv, Asked
<1>6. Asked'
  BY <1>1, <1>5, CurrentStays DEF IInv, Asked
<1>7. InTurn'
  BY <1>1, <1>2, <1>5 DEF IInv, InTurn
<1>8. Behind'
  BY <1>1, <1>5, StaysBehind DEF IInv, Behind
<1> QED
  BY <1>3, <1>4, <1>6, <1>7, <1>8 DEF IInv

\* A barge-in drops what was waiting; the turn may have been stored.
LEMMA InterruptKeepsIInv == ASSUME IInv, Interrupt PROVE IInv'
<1>1. /\ talking /\ (handler # Waiting \/ inbox > 0)
      /\ handler' = Waiting /\ inbox' = 0 /\ mishaps' = mishaps \cup {"barge-in"}
      /\ UNCHANGED <<stage, queue, done, asked, late, heard, talking, forwarded, over>>
  BY DEF Interrupt, Mishap, candidate
<1>2. TypeOK /\ QueueIsLeft /\ Asked /\ Recorded /\ RecordsInOrder /\ InTurn /\ AnswersFit /\ Behind
  BY DEF IInv
<1>3. "overlap" \in mishaps
  BY <1>1, <1>2 DEF InTurn, TypeOK
<1>4. inbox \in 0 .. MaxInbox /\ inbox < MaxInbox /\ MaxInbox \in Nat /\ handler'.pc = "waiting"
  BY <1>1, <1>2, BoundsAssumption DEF TypeOK, Asked, Waiting
<1>5. session' \in States /\ mover' \in Movers
  BY <1>2 DEF Interrupt, Move, TypeOK, Edges, States, Terminal, Movers, row
<1>6. Asked' /\ InTurn'
  BY <1>1, <1>2, <1>3, <1>4, CurrentStays DEF Asked, InTurn
<1>7. QueueIsLeft' /\ Behind'
  BY <1>1, <1>2, <1>4, StaysBehind DEF QueueIsLeft, Behind
<1>8. Upcoming' = Upcoming /\ mishaps \subseteq mishaps'
  BY <1>1 DEF Upcoming
<1>9. /\ recorded' \in Seq([question : ToSet(Script), to : Prompts])
      /\ Recorded' /\ RecordsInOrder' /\ AnswersFit'
  <2>1. CASE UNCHANGED recorded
    BY <1>1, <1>2, <1>8, <2>1, RecordsStay DEF TypeOK
  <2>2. CASE /\ handler.pc = "record"
             /\ recorded' = Append(recorded, [question |-> handler.question, to |-> handler.to])
    <3>1. /\ Upcoming \in 1 .. Len(Script)
          /\ handler.question = Script[Upcoming] /\ handler.to \in Prompts
      BY <1>2, <2>2, CurrentIsUpcoming, HandlerTyped DEF Asked
    <3>2. /\ recorded' \in Seq([question : ToSet(Script), to : Prompts])
          /\ RecordsInOrder'
          /\ \A n \in 1 .. Len(recorded') : At(n)' <= Upcoming
          /\ "tool" \notin mishaps =>
               \A i \in 1 .. Upcoming :
                 \E n \in 1 .. Len(recorded') : recorded'[n].question = Script[i]
          /\ AnswersFit'
      BY <1>2, <1>3, <1>8, <2>2, <3>1, Appending DEF Behind
    <3>3. Upcoming \in Nat
      BY <3>1, ScriptFacts, QuestionsTyped
    <3>4. Recorded'
      <4>1. \A i \in 1 .. Upcoming' - 1 : i \in 1 .. Upcoming
        BY <1>8, <3>3
      <4>2. "barge-in" \in mishaps' /\ ("tool" \notin mishaps' => "tool" \notin mishaps)
        BY <1>1
      <4> QED
        BY <1>8, <3>2, <4>1, <4>2 DEF Recorded
    <3> QED
      BY <3>2, <3>4
  <2> QED
    BY <2>1, <2>2 DEF Interrupt
<1>10. TypeOK'
  BY <1>1, <1>2, <1>4, <1>5, <1>9 DEF TypeOK, Handler, Waiting, Mishaps
<1> QED
  BY <1>6, <1>7, <1>9, <1>10 DEF IInv
-----------------------------------------------------------------------------
(* The invariants *)

LEMMA InitIsIInv == Init => IInv
<1> SUFFICES ASSUME Init PROVE IInv
  OBVIOUS
<1>1. /\ stage = "greeting" /\ queue = Questions /\ done = FALSE /\ late = FALSE
      /\ handler = Waiting /\ handler.pc = "waiting" /\ inbox = 0
      /\ heard = [kind |-> "repeat", to |-> "nothing"] /\ talking = FALSE
      /\ asked = "nothing" /\ recorded = << >> /\ Len(recorded) = 0
      /\ session \in Entry /\ mover = "join" /\ forwarded = FALSE /\ over = "no" /\ mishaps = {}
  BY DEF Init, Waiting
<1>2. TypeOK
  <2>1. heard \in [kind : Kinds, to : Prompts] /\ asked \in Prompts
    BY <1>1 DEF Kinds, Prompts, Phrases
  <2>2. recorded \in Seq([question : ToSet(Script), to : Prompts])
    BY <1>1
  <2>3. inbox \in 0 .. MaxInbox
    BY <1>1, BoundsAssumption
  <2>4. handler \in Handler
    BY <1>1 DEF Handler, Waiting
  <2> QED
    BY <1>1, <2>1, <2>2, <2>3, <2>4, EntryAssumption, QuestionsTyped DEF TypeOK, Movers
<1>3. QueueIsLeft
  BY <1>1, QuestionsTyped DEF QueueIsLeft
<1>4. Upcoming = 1
  BY <1>1 DEF Upcoming
<1>5. Recorded /\ RecordsInOrder /\ AnswersFit
  BY <1>1, <1>4 DEF Recorded, RecordsInOrder, AnswersFit
<1>6. Asked /\ InTurn
  BY <1>1 DEF Asked, InTurn
<1>7. Behind
  <2>1. Place("nothing") = 0
    BY PlaceOf DEF Phrases
  <2> QED
    BY <1>1, <1>4, <2>1 DEF Behind
<1> QED
  BY <1>2, <1>3, <1>5, <1>6, <1>7 DEF IInv

LEMMA InvStep == ASSUME IInv, [Next]_vars PROVE IInv'
<1>1. CASE TimeUp \/ HangUp \/ PipelineEnds
  <2>1. /\ UNCHANGED <<call, inbox, candidate, recorded, session, mover, forwarded, mishaps>>
        /\ (late => late') /\ late' \in BOOLEAN
        /\ over' \in {"no", "ending", "down"} /\ (over' = "ending" => over = "ending")
    <3>1. late \in BOOLEAN /\ over \in {"no", "ending", "down"}
      BY DEF IInv, TypeOK
    <3>2. CASE TimeUp
      BY <3>1, <3>2 DEF TimeUp, row
    <3>3. CASE HangUp \/ PipelineEnds
      BY <3>1, <3>3 DEF HangUp, PipelineEnds, row
    <3> QED
      BY <1>1, <3>2, <3>3
  <2> QED
    BY <2>1, AsideKeepsIInv DEF IInv, TypeOK
<1>2. ASSUME NEW to \in States, OthersMove(to) PROVE IInv'
  <2>1. /\ UNCHANGED <<call, late, inbox, candidate, recorded, forwarded, over, mishaps>>
        /\ session' \in States /\ mover' \in Movers
    BY <1>2 DEF OthersMove, Move, Movers
  <2> QED
    BY <2>1, AsideKeepsIInv DEF IInv, TypeOK
<1>3. CASE UNCHANGED vars
  BY <1>3, AsideKeepsIInv DEF vars, row, IInv, TypeOK
<1> QED
  BY <1>1, <1>2, <1>3, StartKeepsIInv, TalkKeepsIInv, TakeFrameKeepsIInv, RecordTurnKeepsIInv,
     WrapUpKeepsIInv, InterruptKeepsIInv
  DEF Next, Handle

\* advance_state moves a session along an edge or leaves it.
LEMMA AdvanceStateMoves ==
  ASSUME NEW to \in {"completed", "scoring"}, NEW ok \in BOOLEAN, AdvanceState(to, ok)
  PROVE  /\ \/ UNCHANGED <<session, mover>>
            \/ session' = to /\ mover' = "call" /\ <<session, to>> \in Edges
         /\ mishaps' = mishaps \/ mishaps' = mishaps \cup {"tool"}
         /\ "tool" \notin mishaps' =>
              IF ok THEN <<session, to>> \in Edges /\ session' = to /\ mover' = "call"
              ELSE <<session, to>> \notin Edges /\ UNCHANGED <<session, mover>>
BY DEF AdvanceState, Move, Mishap, row

\* The edges that lead to the states of a hand-over.
LEMMA HandOverEdges ==
  /\ \A x : <<x, "completed">> \in Edges <=> x = "in_progress"
  /\ \A x : <<x, "scoring">> \in Edges <=> x = "completed"
BY DEF Edges, States, Terminal

LEMMA HandingOverStep ==
  ASSUME IInv, HandingOver, [Next]_vars
  PROVE  HandingOver'
<1>1. Asked /\ TypeOK
  BY DEF IInv
<1>2. CASE UNCHANGED <<session, mover, done, handler, over, mishaps>>
  BY <1>2 DEF HandingOver
<1>3. CASE Talk \/ PipelineEnds \/ HangUp
  <2>1. /\ UNCHANGED <<session, mover, done, handler>> /\ mishaps \subseteq mishaps'
        /\ over' = over \/ over' = "down"
    BY <1>3 DEF Talk, StartTalking, StopTalking, PipelineEnds, HangUp, call, row, Mishap
  <2> QED
    BY <2>1 DEF HandingOver
<1>4. ASSUME NEW to \in States, OthersMove(to) PROVE HandingOver'
  <2>1. mover' = "others" /\ UNCHANGED <<done, handler, over, mishaps>>
    BY <1>4 DEF OthersMove, Move, call
  <2> QED
    BY <2>1 DEF HandingOver
<1>5. CASE TakeFrame
  <2>1. /\ UNCHANGED <<session, mover, done, over, mishaps>> /\ handler = Waiting
        /\ handler' = Waiting \/ (handler'.pc = "record" /\ ~done)
    BY <1>5 DEF TakeFrame, Forward, AnswerGreeting, AskAgain, Confirm, call, row
  <2>2. over = "ending" => done
    BY <1>1 DEF Asked
  <2> QED
    BY <2>1, <2>2 DEF HandingOver, Waiting
<1>6. CASE RecordTurn
  <2>1. /\ ~done /\ UNCHANGED <<session, mover, over>> /\ mishaps \subseteq mishaps'
        /\ over # "ending"
    BY <1>1, <1>6 DEF RecordTurn, Asked, Mishap, row
  <2>2. \/ done' = TRUE /\ handler' = [pc |-> "completed"]
        \/ done' = done /\ handler' = Waiting
    BY <1>6 DEF RecordTurn, AskCurrent
  <2> QED
    BY <2>1, <2>2 DEF HandingOver, Waiting
<1>7. CASE Complete
  <2>1. PICK ok \in BOOLEAN :
          AdvanceState("completed", ok) /\ handler' = [pc |-> IF ok THEN "scoring" ELSE "end"]
    BY <1>7 DEF Complete
  <2>2. /\ done /\ UNCHANGED <<done, over>> /\ handler.pc = "completed" /\ over # "ending"
        /\ handler'.pc = IF ok THEN "scoring" ELSE "end"
    BY <1>1, <1>7, <2>1 DEF Complete, Asked, HandingOver, Waiting
  <2>3. /\ \/ UNCHANGED <<session, mover>>
           \/ session' = "completed" /\ mover' = "call"
        /\ mishaps \subseteq mishaps'
        /\ "tool" \notin mishaps' =>
             IF ok THEN session' = "completed" /\ mover' = "call"
             ELSE session # "in_progress" /\ UNCHANGED <<session, mover>>
    BY <2>1, AdvanceStateMoves, HandOverEdges
  <2> QED
    BY <2>2, <2>3 DEF HandingOver
<1>8. CASE HandToScoring
  <2>1. PICK ok \in BOOLEAN : AdvanceState("scoring", ok) /\ handler' = [pc |-> "end"]
    BY <1>8 DEF HandToScoring
  <2>2. /\ done /\ UNCHANGED <<done, over>> /\ handler.pc = "scoring" /\ handler'.pc = "end"
        /\ over # "ending"
    BY <1>1, <1>8, <2>1 DEF HandToScoring, Asked, HandingOver, Waiting
  <2>3. /\ \/ UNCHANGED <<session, mover>>
           \/ session' = "scoring" /\ mover' = "call"
        /\ mishaps \subseteq mishaps'
        /\ "tool" \notin mishaps' =>
             IF ok THEN session' = "scoring" /\ mover' = "call"
             ELSE session # "completed" /\ UNCHANGED <<session, mover>>
    BY <2>1, AdvanceStateMoves, HandOverEdges
  <2> QED
    BY <2>2, <2>3 DEF HandingOver
<1>9. CASE PushEnd
  <2>1. /\ handler.pc = "end" /\ handler' = Waiting /\ handler'.pc = "waiting"
        /\ UNCHANGED <<done, session, mover, mishaps>>
    BY <1>9 DEF PushEnd, Waiting, row
  <2> QED
    BY <2>1 DEF HandingOver
<1>10. CASE Interrupt
  <2>1. /\ handler' = Waiting /\ handler'.pc = "waiting" /\ UNCHANGED <<done, over>>
        /\ handler.pc # "end" /\ mishaps' = mishaps \cup {"barge-in"}
        /\ \/ UNCHANGED <<session, mover>>
           \/ /\ session' = handler.pc /\ mover' = "call"
              /\ <<session, handler.pc>> \in Edges
    BY <1>10 DEF Interrupt, Move, Waiting, Mishap, row
  <2>2. handler.pc \in {"waiting", "completed", "scoring", "end", "record"}
    BY <1>1, HandlerTyped
  <2>3. \/ UNCHANGED <<session, mover>>
        \/ /\ handler.pc \in {"completed", "scoring"}
           /\ session' = handler.pc /\ mover' = "call"
    <3>1. <<session, "waiting">> \notin Edges /\ <<session, "record">> \notin Edges
      BY <1>1 DEF TypeOK, Edges, States, Terminal
    <3> QED
      BY <2>1, <2>2, <3>1
  <2>4. handler.pc \in {"completed", "scoring"} => done /\ handler # Waiting
    BY <1>1 DEF Asked, Waiting
  <2> QED
    BY <2>1, <2>3, <2>4 DEF HandingOver
<1>11. CASE Start \/ TimeUp \/ UNCHANGED vars
  <2>1. UNCHANGED <<session, mover, done, handler, over, mishaps>>
    BY <1>11 DEF Start, TimeUp, vars, call, row
  <2> QED
    BY <1>2, <2>1
<1> QED
  BY <1>3, <1>4, <1>5, <1>6, <1>7, <1>8, <1>9, <1>10, <1>11 DEF Next, Handle

\* IInv holds throughout.
LEMMA IInvHolds == Spec => []IInv
<1>1. IInv /\ [Next]_vars => IInv'
  BY InvStep
<1> QED
  BY <1>1, InitIsIInv, PTL DEF Spec

\* Stage, queue, frames and records keep their types for any questions: in
\* particular no question is ever taken from an empty queue.
THEOREM InterviewerTypeCorrect == Spec => []TypeOK
<1>1. IInv => TypeOK
  BY DEF IInv
<1> QED
  BY <1>1, IInvHolds, PTL

\* However tools fail and candidates barge in, record_turn stores the script in
\* its order, with nothing twice and, if the call came to its end, nothing left out.
THEOREM ScriptIsStoredHolds == Spec => []ScriptIsStored
<1>1. ASSUME IInv PROVE ScriptIsStored
  <2>1. /\ TypeOK /\ QueueIsLeft /\ Asked /\ Recorded /\ RecordsInOrder
    BY <1>1 DEF IInv
  <2>2. ASSUME over = "ending", ~late, "tool" \notin mishaps, NEW q \in ToSet(Script)
        PROVE  \E n \in 1 .. Len(recorded) : recorded[n].question = q
    <3>1. stage = "main" /\ queue = << >>
      BY <2>1, <2>2 DEF Asked
    <3>2. Upcoming - 1 = Len(Script)
      BY <3>1, ScriptFacts, QuestionsTyped DEF Upcoming
    <3>3. PICK i \in 1 .. Len(Script) : q = Script[i]
      BY ScriptFacts
    <3> QED
      BY <2>1, <2>2, <3>2, <3>3 DEF Recorded
  <2> QED
    BY <2>1, <2>2 DEF ScriptIsStored, NothingSkipped
<1> QED
  BY <1>1, IInvHolds, PTL

\* self._queue[0] never fails, and is the question the candidate was asked last.
THEOREM QuestionPendingHolds == Spec => []QuestionPending
<1>1. ASSUME IInv PROVE QuestionPending
  BY <1>1 DEF IInv, Asked, QuestionPending, CurrentQuestion
<1> QED
  BY <1>1, IInvHolds, PTL

\* Through overlaps, barge-ins and failed tools no answer is stored under a question
\* that came before the prompt it was given to, although frames carry no question;
\* a candidate who waits for the next question has each stored under the very one.
THEOREM AnswersFitHolds == Spec => []AnswersFit
<1>1. IInv => AnswersFit
  BY DEF IInv
<1> QED
  BY <1>1, IInvHolds, PTL

\* Whatever state the session was in when the call began and wherever others move it
\* meanwhile, the call completes it only when it has finished, and then hands it to
\* scoring unless a tool failed or somebody else moved it last.
THEOREM HandsOverWhenFinishedHolds == Spec => []HandsOverWhenFinished
<1>1. Init => HandingOver
  BY DEF Init, HandingOver, Waiting
<1>2. IInv /\ HandingOver /\ [Next]_vars => HandingOver'
  BY HandingOverStep
<1>3. ASSUME IInv, HandingOver PROVE HandsOverWhenFinished
  <2>1. done => queue = << >> \/ late
    BY <1>3 DEF IInv, Asked
  <2>2. mover \in {"join", "call", "others"}
    BY <1>3 DEF IInv, TypeOK, Movers
  <2> QED
    BY <1>3, <2>1, <2>2 DEF HandingOver, HandsOverWhenFinished, CompletesWhenFinished,
                            HandedToScoring
<1> QED
  BY <1>1, <1>2, <1>3, IInvHolds, PTL DEF Spec
=============================================================================
