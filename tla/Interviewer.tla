---------------------------- MODULE Interviewer ----------------------------
(***************************************************************************)
(* pipelines/queue_interviewer.py: one call of the AI service, which asks  *)
(* a fixed queue of questions, stores each confirmed answer through the    *)
(* record_turn tool and wraps the call up through advance_state.  Frames   *)
(* are handled one at a time, but a handler awaits its tool calls, and     *)
(* the candidate, the clock and the recruiters go on meanwhile.  A frame   *)
(* carries the call's one shared LLMContext, not the text that caused it.  *)
(***************************************************************************)
EXTENDS Naturals, Sequences, SequencesExt, SessionGraph

CONSTANTS
  Questions,    \* the generated questions, in order
  Entry,        \* states join.Start may have left the session in
  ToolsMayFail, \* whether tool calls may fail, or their answers be lost
  Overlap,      \* whether the candidate may talk while a frame is handled
  BargeIn,      \* whether an interruption may cancel the handler
  MaxInbox,     \* bound: context frames waiting
  MaxRecords    \* bound: turns recorded in the call

SelfIntro == "self-intro"

\* What is spoken beside the questions of the script.
Phrases == {"nothing", "greeting", "goodbye"}

\* Questions are items of the plan and told apart, whatever their texts are.
ASSUME QuestionsAssumption ==
  /\ Questions \in Seq(ToSet(Questions)) /\ IsInjective(Questions)
  /\ ToSet(Questions) \cap ({SelfIntro} \cup Phrases) = {}
ASSUME EntryAssumption == Entry \subseteq States
ASSUME FlagsAssumption == {ToolsMayFail, Overlap, BargeIn} \subseteq BOOLEAN
ASSUME BoundsAssumption == {MaxInbox, MaxRecords} \subseteq Nat

VARIABLES
  stage,     \* _stage
  queue,     \* _queue
  done,      \* _done
  late,      \* the clock is past _deadline
  handler,   \* where process_frame is suspended
  inbox,     \* LLMContextFrames not handled yet
  heard,     \* the last user message of the shared context
  talking,   \* the candidate is in the middle of an utterance
  asked,     \* what was spoken to the candidate last
  recorded,  \* the turns record_turn has stored for this call
  session,   \* interview_sessions.state
  mover,     \* ghost: who moved the session last
  forwarded, \* a context frame was passed on to the LLM node
  over,      \* whether the pipeline runs, was told to end, or is down
  mishaps    \* ghost: what went wrong in the call so far

call == <<stage, queue, done, handler, asked>>
candidate == <<heard, talking>>
row == <<session, mover>>
vars == <<call, late, inbox, candidate, recorded, row, forwarded, over,
          mishaps>>

\* Everything the interviewer asks and records, in order.
Script == <<SelfIntro>> \o Questions

Position(q) == CHOOSE n \in 1 .. Len(Script) : Script[n] = q

Prompts == Phrases \cup ToSet(Script)

Kinds == {"repeat", "confirmed"}

Handler ==
  [pc : {"waiting", "completed", "scoring", "end"}]
  \cup [pc : {"record"}, question : ToSet(Script), to : Prompts]

Waiting == [pc |-> "waiting"]

Movers == {"join", "call", "others"}

Up == over # "down"

\* overlap: the candidate talked over the handling of an earlier utterance;
\* barge-in: that cancelled the handling; tool: a tool call failed.
Mishaps == {"overlap", "barge-in", "tool"}

Mishap(kind, happens) == mishaps' = IF happens THEN mishaps \cup {kind} ELSE mishaps

Init ==
  /\ stage = "greeting"
  /\ queue = Questions
  /\ done = FALSE
  /\ late = FALSE
  /\ handler = Waiting
  /\ inbox = 0
  /\ heard = [kind |-> "repeat", to |-> "nothing"]
  /\ talking = FALSE
  /\ asked = "nothing"
  /\ recorded = << >>
  /\ session \in Entry
  /\ mover = "join"
  /\ forwarded = FALSE
  /\ over = "no"
  /\ mishaps = {}
-----------------------------------------------------------------------------
\* StartFrame: the deadline is set and the greeting spoken.
Start ==
  /\ asked = "nothing"
  /\ Up
  /\ asked' = "greeting"
  /\ UNCHANGED <<stage, queue, done, handler, late, inbox, candidate, recorded,
                 row, forwarded, over, mishaps>>

\* A voice starts an utterance.
StartTalking ==
  /\ asked # "nothing" /\ Up /\ ~talking
  /\ Overlap \/ (handler = Waiting /\ inbox = 0)
  /\ inbox < MaxInbox
  /\ talking' = TRUE
  /\ Mishap("overlap", handler # Waiting \/ inbox > 0)
  /\ UNCHANGED <<call, late, inbox, heard, recorded, row, forwarded, over>>

\* The aggregator detects the end of the utterance: the text joins the context
\* and a frame that refers to the context is queued.
StopTalking(kind) ==
  /\ talking
  /\ Up
  /\ talking' = FALSE
  /\ heard' = [kind |-> kind, to |-> asked]
  /\ inbox' = inbox + 1
  /\ UNCHANGED <<call, late, recorded, row, forwarded, over, mishaps>>

\* time.monotonic() reaches the deadline.
TimeUp ==
  /\ asked # "nothing"
  /\ ~late
  /\ late' = TRUE
  /\ UNCHANGED <<call, inbox, candidate, recorded, row, forwarded, over, mishaps>>

\* A step of the session's graph, by whomever.
Move(who, to) == <<session, to>> \in Edges /\ session' = to /\ mover' = who

\* Anyone else moves the session anywhere it may go: a recruiter over HTTP,
\* another connection's start or wrap-up, a scorer.
OthersMove(to) ==
  /\ Move("others", to)
  /\ UNCHANGED <<call, late, inbox, candidate, recorded, forwarded, over, mishaps>>

\* The end frame has come through.
PipelineEnds ==
  /\ over = "ending"
  /\ over' = "down"
  /\ UNCHANGED <<call, late, inbox, candidate, recorded, row, forwarded, mishaps>>

\* The client disconnects, in the middle of a handler or not.
HangUp ==
  /\ over = "no"
  /\ over' = "down"
  /\ UNCHANGED <<call, late, inbox, candidate, recorded, row, forwarded, mishaps>>
-----------------------------------------------------------------------------
\* not self._queue or self._time_up()
NothingToAsk(rest) == rest = << >> \/ late

\* _ask_current with the queue it finds, up to the first await of _wrap_up.
AskCurrent(rest) ==
  /\ queue' = rest
  /\ IF NothingToAsk(rest)
     THEN /\ done' = TRUE
          /\ asked' = "goodbye"
          /\ handler' = [pc |-> "completed"]
     ELSE /\ asked' = Head(rest)
          /\ handler' = Waiting
          /\ UNCHANGED done

\* Seeded fault: the question is taken from the wrong end of the queue.
LastQuestion == IF stage = "self_intro" THEN SelfIntro ELSE Last(queue)

\* The question a confirmed answer is stored under.
CurrentQuestion == IF stage = "self_intro" THEN SelfIntro ELSE Head(queue)

\* _handle_greeting_answer: the mood only picks the reaction.
AnswerGreeting ==
  /\ stage = "greeting"
  /\ stage' = "self_intro"
  /\ asked' = SelfIntro
  /\ UNCHANGED <<queue, done, handler>>

\* Seeded fault: what is repeated is the first question of the call.
AskIntroAgain ==
  /\ stage # "greeting"
  /\ heard.kind = "repeat"
  /\ asked' = SelfIntro
  /\ UNCHANGED <<stage, queue, done, handler>>

\* classify_answer says "repeat": the same question again.
AskAgain ==
  /\ stage # "greeting"
  /\ heard.kind = "repeat"
  /\ asked' = CurrentQuestion
  /\ UNCHANGED <<stage, queue, done, handler>>

\* classify_answer says "confirmed": call record_turn.
Confirm ==
  /\ stage # "greeting"
  /\ heard.kind = "confirmed"
  /\ Len(recorded) < MaxRecords
  /\ handler' = [pc |-> "record", question |-> CurrentQuestion, to |-> heard.to]
  /\ UNCHANGED <<stage, queue, done, asked>>

\* not self._done is false: the frame goes down the pipeline to the LLM node.
Forward == done /\ forwarded' = TRUE /\ UNCHANGED call

\* process_frame takes the next LLMContextFrame.
TakeFrame ==
  /\ handler = Waiting /\ inbox > 0 /\ Up
  /\ inbox' = inbox - 1
  /\ \/ Forward
     \/ ~done /\ (AnswerGreeting \/ AskAgain \/ Confirm) /\ UNCHANGED forwarded
  /\ UNCHANGED <<late, candidate, recorded, row, over, mishaps>>

\* Seeded fault: an answer that could not be stored is asked for again.
AskIfNotStored ==
  /\ handler.pc = "record" /\ Up
  /\ \/ /\ recorded' = Append(recorded, [question |-> handler.question, to |-> handler.to])
        /\ AskCurrent(IF stage = "main" THEN Tail(queue) ELSE queue)
        /\ UNCHANGED mishaps
     \/ /\ ToolsMayFail
        /\ recorded' \in {recorded, Append(recorded,
                            [question |-> handler.question, to |-> handler.to])}
        /\ AskCurrent(queue)
        /\ Mishap("tool", TRUE)
  /\ stage' = "main"
  /\ UNCHANGED <<late, inbox, candidate, row, forwarded, over>>

\* popleft, which the handler of the self-introduction does not do.
Popped(rest) == IF stage = "main" THEN Tail(rest) ELSE rest

\* record_turn answers, or fails and is only logged; the interview goes on.
RecordTurn ==
  /\ handler.pc = "record" /\ Up
  /\ \/ /\ recorded' = Append(recorded, [question |-> handler.question, to |-> handler.to])
        /\ UNCHANGED mishaps
     \/ ToolsMayFail /\ Mishap("tool", TRUE) /\ UNCHANGED recorded
  /\ stage' = "main"
  /\ AskCurrent(Popped(queue))
  /\ UNCHANGED <<late, inbox, candidate, row, forwarded, over>>

\* What advance_state does to the session: ok tells whether the tool answers.
AdvanceState(to, ok) ==
  LET legal == <<session, to>> \in Edges IN
  IF ok THEN Move("call", to) /\ UNCHANGED mishaps
  ELSE \/ ~legal /\ UNCHANGED <<row, mishaps>>
       \/ ToolsMayFail /\ Mishap("tool", TRUE) /\ (Move("call", to) \/ UNCHANGED row)

\* Seeded fault: scoring is left to someone else.
CompleteOnly ==
  /\ handler.pc = "completed" /\ Up
  /\ \E ok \in BOOLEAN : AdvanceState("completed", ok)
  /\ handler' = [pc |-> "end"]
  /\ UNCHANGED <<stage, queue, done, asked, late, inbox, candidate, recorded,
                 forwarded, over>>

\* Seeded fault: a failed advance_state ends the handler without the end frame.
CompleteOrGiveUp ==
  /\ handler.pc = "completed" /\ Up
  /\ \E ok \in BOOLEAN :
       /\ AdvanceState("completed", ok)
       /\ handler' = IF ok THEN [pc |-> "scoring"] ELSE Waiting
  /\ UNCHANGED <<stage, queue, done, asked, late, inbox, candidate, recorded,
                 forwarded, over>>

\* _wrap_up: advance_state to "completed"; an error skips the second call.
Complete ==
  /\ handler.pc = "completed" /\ Up
  /\ \E ok \in BOOLEAN :
       /\ AdvanceState("completed", ok)
       /\ handler' = [pc |-> IF ok THEN "scoring" ELSE "end"]
  /\ UNCHANGED <<stage, queue, done, asked, late, inbox, candidate, recorded,
                 forwarded, over>>

\* _wrap_up: advance_state to "scoring".
HandToScoring ==
  /\ handler.pc = "scoring" /\ Up
  /\ \E ok \in BOOLEAN : AdvanceState("scoring", ok)
  /\ handler' = [pc |-> "end"]
  /\ UNCHANGED <<stage, queue, done, asked, late, inbox, candidate, recorded,
                 forwarded, over>>

\* EndWorkerFrame leaves the stage; the pipeline is not down yet and frames
\* that wait behind the handler are still taken.
PushEnd ==
  /\ handler.pc = "end" /\ Up
  /\ handler' = Waiting
  /\ over' = "ending"
  /\ UNCHANGED <<stage, queue, done, asked, late, inbox, candidate, recorded,
                 row, forwarded, mishaps>>

\* A barge-in: the frames waiting are dropped and the handler is cancelled at
\* its await; the tool call it had sent may have taken effect.
Interrupt ==
  /\ BargeIn /\ talking /\ Up
  /\ handler # Waiting \/ inbox > 0
  /\ handler.pc # "end"
  /\ handler' = Waiting
  /\ inbox' = 0
  /\ Mishap("barge-in", TRUE)
  /\ \/ UNCHANGED <<recorded, row>>
     \/ /\ handler.pc = "record"
        /\ recorded' = Append(recorded, [question |-> handler.question, to |-> handler.to])
        /\ UNCHANGED row
     \/ Move("call", handler.pc) /\ UNCHANGED recorded
  /\ UNCHANGED <<stage, queue, done, asked, late, candidate, forwarded, over>>
-----------------------------------------------------------------------------
\* The steps of the interviewer stage.
Handle == TakeFrame \/ RecordTurn \/ Complete \/ HandToScoring \/ PushEnd

Talk == StartTalking \/ \E kind \in Kinds : StopTalking(kind)

Next ==
  \/ Start \/ Talk \/ TimeUp \/ HangUp \/ PipelineEnds \/ Interrupt
  \/ \E to \in States : OthersMove(to)
  \/ Handle

\* The event loop runs a handler that can run, and every tool call returns.
Fairness == WF_vars(Start) /\ WF_vars(Handle) /\ WF_vars(PipelineEnds)

Spec == Init /\ [][Next]_vars /\ Fairness

\* A candidate who takes every turn and in the end gives every answer.
CooperativeSpec ==
  Spec /\ WF_vars(StartTalking) /\ SF_vars(StopTalking("confirmed"))

\* A candidate who goes on talking, in a call that goes on.
TalkativeSpec ==
  Spec /\ WF_vars(TimeUp) /\ WF_vars(StartTalking)
       /\ WF_vars(\E kind \in Kinds : StopTalking(kind))
-----------------------------------------------------------------------------
TypeOK ==
  /\ stage \in {"greeting", "self_intro", "main"}
  /\ queue \in Seq(ToSet(Questions))
  /\ {done, late, talking, forwarded} \subseteq BOOLEAN
  /\ handler \in Handler
  /\ inbox \in 0 .. MaxInbox
  /\ heard \in [kind : Kinds, to : Prompts]
  /\ asked \in Prompts
  /\ recorded \in Seq([question : ToSet(Script), to : Prompts])
  /\ session \in States /\ mover \in Movers
  /\ over \in {"no", "ending", "down"}
  /\ mishaps \subseteq Mishaps

At(n) == Position(recorded[n].question)

\* Turns are stored in the order of the script, and none twice unless its
\* handler was cancelled: the queue moves on even if the tool failed after it
\* took effect.
RecordsInOrder ==
  \A m, n \in 1 .. Len(recorded) : m < n =>
    /\ At(m) <= At(n)
    /\ "barge-in" \notin mishaps => At(m) # At(n)

\* A call that ended by itself before its deadline stored every question of the
\* script, unless a tool call failed: a barge-in skips nothing.
NothingSkipped ==
  over = "ending" /\ ~late /\ "tool" \notin mishaps =>
    \A q \in ToSet(Script) : \E n \in 1 .. Len(recorded) : recorded[n].question = q

\* Through failed tools, barge-ins and answers that pile up, what is stored is
\* the script: in its order, with nothing twice and nothing left out.
ScriptIsStored == RecordsInOrder /\ NothingSkipped

\* Whenever an answer may be taken up in the main stage there is a question to
\* put it to, the one asked last: self._queue[0] never fails.
QuestionPending ==
  stage = "main" /\ ~done =>
    /\ queue # << >>
    /\ handler = Waiting => asked = Head(queue)

\* The place of a prompt in the call: what comes before the script is at 0.
Place(p) == IF p \in Phrases THEN 0 ELSE Position(p)

\* Whatever is talked over, repeated or cancelled, no answer is stored under a
\* question that came before the prompt it was given to: answers may fall behind
\* the questions, never run ahead of them.  While the candidate waits for the
\* next question before talking, each is stored under the very question.
AnswersFit ==
  \A n \in 1 .. Len(recorded) :
    /\ Place(recorded[n].to) <= At(n)
    /\ "overlap" \notin mishaps => recorded[n].to = recorded[n].question

\* The call itself takes the session to "completed" and on only when no question
\* is left or the time was up, however others have moved it before.
CompletesWhenFinished ==
  mover = "call" =>
    session \in {"completed", "scoring"} /\ done /\ (queue = << >> \/ late)

\* A call that ended by itself, its tools working, has handed its session to
\* scoring, unless somebody else moved the session last, "completed" included,
\* or it never was in progress.
HandedToScoring ==
  over = "ending" /\ "tool" \notin mishaps =>
    CASE mover = "call" -> session = "scoring"
      [] mover = "join" -> session # "in_progress"
      [] mover = "others" -> TRUE

\* The call hands its session over when the interview is over and not before, with
\* recruiters, scorers and other connections at the same session.
HandsOverWhenFinished == CompletesWhenFinished /\ HandedToScoring

\* The call ends once the candidate gives the answers, whether tools work and
\* the session can be moved or not, as long as the candidate lets an answer be
\* handled before talking again.
CallEnds == (asked = "greeting") ~> (~Up \/ "overlap" \in mishaps)

\* pipelines/assembly.py:72: the stage "never forwards the candidate's answer
\* to self.llm, so the LLM node stays wired but unused for the duration of the
\* call".
NeverForwards == Up => ~forwarded

\* frontend useCountdown.ts:7: "The backend's own deadline check is what
\* actually ends the call".
DeadlineEndsTheCall == late ~> ~Up

=============================================================================
