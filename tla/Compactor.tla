----------------------------- MODULE Compactor -----------------------------
(***************************************************************************)
(* pipelines/context_compactor.py: the background task that replaces the   *)
(* older part of a call's LLM context by a summary, while the aggregators  *)
(* go on appending to the same context.  Messages are numbered; a message  *)
(* is the set of numbers it speaks for, so a summary speaks for many.      *)
(***************************************************************************)
EXTENDS Naturals, Sequences, FiniteSets, SequencesExt

CONSTANTS
  KeepRecent,   \* _KEEP_RECENT_MESSAGES
  Threshold,    \* context_compress_words, in messages; 0 turns it off
  LlmMayFail,   \* whether the summarization request may fail
  MaxMessages   \* bound: messages added in the call

ASSUME LlmMayFailAssumption == LlmMayFail \in BOOLEAN
ASSUME SizesAssumption ==
  KeepRecent \in Nat \ {0} /\ Threshold \in Nat /\ MaxMessages \in Nat

VARIABLES
  messages,     \* the LLMContext
  added,        \* messages added so far
  compressing,  \* _compressing
  tasks,        \* _compress tasks created and not finished
  task,         \* where the one that holds the lock is suspended
  disturbed,    \* ghost: a message was added while a summary was under way
  first         \* ghost: the first message number, 0 with a system prompt

vars == <<messages, added, compressing, tasks, task, disturbed, first>>

Roles == {"system", "user", "assistant"}

Message == [role : Roles, speaksFor : SUBSET (0 .. MaxMessages)]

\* The system prompt is message 0.
Prompt == [role |-> "system", speaksFor |-> {0}]

Idle == [pc |-> "idle"]

Task ==
  [pc : {"idle"}]
  \cup [pc : {"summarize"}, front : Seq(Message), head : Seq(Message), tail : Seq(Message)]

Init ==
  /\ first \in {0, 1}
  /\ messages = IF first = 0 THEN <<Prompt>> ELSE << >>
  /\ added = 0
  /\ compressing = FALSE
  /\ tasks = 0
  /\ task = Idle
  /\ disturbed = FALSE

\* A message joins the context.
Add(role) ==
  /\ added < MaxMessages
  /\ added' = added + 1
  /\ messages' = Append(messages, [role |-> role, speaksFor |-> {added + 1}])
  /\ disturbed' = (disturbed \/ task # Idle)

\* The candidate's turn joins the context.
UserTurn ==
  /\ Add("user")
  /\ UNCHANGED <<compressing, tasks, task, first>>

\* The condition of maybe_schedule.
Schedules(words) == ~(Threshold = 0 \/ words < Threshold \/ compressing)

\* The assistant's turn joins the context and ends: ContextCompactionTrigger
\* calls maybe_schedule.
AssistantTurn ==
  /\ Add("assistant")
  /\ IF Schedules(Len(messages'))
     THEN compressing' = TRUE /\ tasks' = tasks + 1
     ELSE UNCHANGED <<compressing, tasks>>
  /\ UNCHANGED <<task, first>>

\* Seeded fault: an early return skips the reset of the flag.
FinishSilently ==
  /\ UNCHANGED compressing
  /\ tasks' = tasks - 1
  /\ task' = Idle

\* The task is over: the finally clause.
Finish ==
  /\ compressing' = FALSE
  /\ tasks' = tasks - 1
  /\ task' = Idle

HasSystem == messages # << >> /\ Head(messages).role = "system"

\* The system message at the front, which is not part of the body.
Lead == IF HasSystem THEN <<Head(messages)>> ELSE << >>

\* Seeded fault: one recent message fewer than intended is kept.
SplitOneLess(body) == Len(body) - KeepRecent + 1

\* Where the body is cut: what comes after stays verbatim.
Split(body) == Len(body) - KeepRecent

\* _compress takes the lock and cuts the context, or finds it too short.
Begin ==
  /\ tasks > 0
  /\ task = Idle
  /\ LET body == SubSeq(messages, Len(Lead) + 1, Len(messages))
         cut == Split(body)
     IN  IF Len(body) <= KeepRecent
         THEN Finish
         ELSE /\ task' = [pc |-> "summarize", front |-> Lead,
                          head |-> SubSeq(body, 1, cut),
                          tail |-> SubSeq(body, cut + 1, Len(body))]
              /\ UNCHANGED <<compressing, tasks>>
  /\ UNCHANGED <<messages, added, disturbed, first>>

\* What a sequence of messages speaks for.
Content(msgs) == UNION {m.speaksFor : m \in ToSet(msgs)}

\* The summary of the head of the body.
Summary == [role |-> "system", speaksFor |-> Content(task.head)]

\* Seeded fault: the summary goes behind the recent messages.
SummaryLast == task.front \o task.tail \o <<Summary>>

NewMessages == task.front \o <<Summary>> \o task.tail

\* The summary has arrived: set_messages with what was cut before the request.
SetMessages ==
  /\ task.pc = "summarize"
  /\ messages' = NewMessages
  /\ Finish
  /\ UNCHANGED <<added, disturbed, first>>

\* The request failed or timed out: the context stays as it is.
SummarizeFails ==
  /\ LlmMayFail
  /\ task.pc = "summarize"
  /\ Finish
  /\ UNCHANGED <<messages, added, disturbed, first>>

Compress == Begin \/ SetMessages \/ SummarizeFails

Next == UserTurn \/ AssistantTurn \/ Compress

\* The event loop runs the task, and the request has a 10-second timeout.
Spec == Init /\ [][Next]_vars /\ WF_vars(Compress)
-----------------------------------------------------------------------------
TypeOK ==
  /\ messages \in Seq(Message)
  /\ added \in 0 .. MaxMessages
  /\ compressing \in BOOLEAN
  /\ tasks \in 0 .. 1
  /\ task \in Task
  /\ disturbed \in BOOLEAN
  /\ first \in {0, 1}

PromptStaysFirst == first = 0 => messages # << >> /\ Head(messages) = Prompt

\* What a message speaks for lies wholly before what the next one speaks for.
OrderKept ==
  \A m, n \in 1 .. Len(messages) : m < n =>
    \A i \in messages[m].speaksFor, j \in messages[n].speaksFor : i < j

\* Through any number of compactions and whatever was appended meanwhile, the
\* system prompt stays the first message, the conversation stays in order and
\* nothing in it is said twice.
ContextInOrder == PromptStaysFirst /\ OrderKept

\* As long as no message is added while a summary is under way, the context
\* speaks for the whole conversation, in messages or in summaries, and the most
\* recent messages are there word for word.
NothingForgottenWhenQuiet ==
  ~disturbed =>
    /\ Content(messages) = first .. added
    /\ \A n \in 1 .. added :
         n > added - KeepRecent =>
           \E m \in ToSet(messages) : m.speaksFor = {n} /\ m.role # "system"

\* A compression that is scheduled comes to an end and the next may start.
CompressionEnds == compressing ~> ~compressing

=============================================================================
