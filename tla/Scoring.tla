------------------------------ MODULE Scoring ------------------------------
(***************************************************************************)
(* services/scoring over score_repo and llmjudge, for one interview        *)
(* session.  Each recorded turn is scored by a goroutine of its own; the   *)
(* move into "scoring" starts one goroutine more, which reads the scores   *)
(* there are by then, asks the judge for an overall score, stores it and   *)
(* advances the session to "scored".  All of them live in the server       *)
(* process only.  A recruiter opens the interview's detail page meanwhile. *)
(*                                                                         *)
(* Everyone else's moves of the session are atomic steps along the graph,  *)
(* which is what Sessions implements; there is one overall goroutine,      *)
(* which is what ScoringStartsOnce states there.                           *)
(***************************************************************************)
EXTENDS Integers, FiniteSets, SessionGraph

CONSTANTS
  MaxTurns,        \* bound: turns recorded
  Entry,           \* states the session may be found in when scoring matters
  HasPrimary,      \* whether an OpenRouter key is configured
  PrimaryReplies,  \* what the primary judge may answer
  FallbackReplies, \* what the local judge may answer
  NoResult,        \* a reply without a result: unreachable, not 200, not JSON
  NoScoreField,    \* a JSON reply that has no "score" member
  DbMayFail,       \* whether database round trips may fail
  MayCrash         \* whether the server may go down

ASSUME MaxTurnsAssumption == MaxTurns \in Nat
ASSUME EntryAssumption == Entry \subseteq States \ ScoringOrLater
ASSUME FlagsAssumption == {HasPrimary, DbMayFail, MayCrash} \subseteq BOOLEAN
ASSUME RepliesAssumption ==
  /\ NoResult \notin Int
  /\ NoScoreField \notin Int \cup {NoResult}
  /\ PrimaryReplies \cup FallbackReplies \subseteq Int \cup {NoResult, NoScoreField}

VARIABLES
  row,        \* interview_sessions.state
  scoredBy,   \* actor of the event that moved the session to "scored", or ""
  turns,      \* responses are numbered 1 .. turns (Transcript!NoGaps)
  turnScore,  \* scores rows with rubric_item = 'turn': turn -> value
  overall,    \* the scores row with rubric_item = 'overall', or NoOverall
  scorer,     \* the ScoreTurn goroutine of each turn
  job,        \* the ScoreOverall goroutine
  page,       \* the recruiter's GET /interviews/{id}
  faulted     \* ghost: a round trip, a judge or the server has failed

vars == <<row, scoredBy, turns, turnScore, overall, scorer, job, page, faulted>>

NoOverall == [value |-> -1]

\* Ghost fields: basis is the set of turns the judge was shown, of the number
\* of turns recorded when they were read.
Overall == [value : 0 .. 100, basis : SUBSET (1 .. MaxTurns), of : 0 .. MaxTurns]

Turn == 1 .. MaxTurns

Ended == [pc |-> "ended"]

Scorer == [pc : {"none", "judge", "ended"}] \cup [pc : {"store"}, value : 0 .. 100]

Job ==
  [pc : {"none", "read", "validate", "ended"}]
  \cup [pc : {"apply"}, cur : States]
  \cup [pc : {"judge"}, basis : SUBSET Turn, of : 0 .. MaxTurns]
  \cup [pc : {"store"}, basis : SUBSET Turn, of : 0 .. MaxTurns, value : 0 .. 100]

Page ==
  [pc : {"closed"}]
  \cup [pc : {"first", "second", "shown"},
        state : States, by : {"", "others", "scoring-service"},
        overall : Overall \cup {NoOverall}, turns : SUBSET Turn,
        missed : SUBSET {"first", "second"}]

Init ==
  /\ row \in Entry
  /\ scoredBy = ""
  /\ turns = 0
  /\ turnScore = << >>
  /\ overall = NoOverall
  /\ scorer = [t \in Turn |-> [pc |-> "none"]]
  /\ job = [pc |-> "none"]
  /\ page = [pc |-> "closed"]
  /\ faulted = FALSE
-----------------------------------------------------------------------------
\* parseScoreJSON: a reply that is JSON but lacks the member scores zero.
Parse(reply) == IF reply = NoScoreField THEN 0 ELSE reply

\* withFallback.Score: the replies a call of the judge may end with.
JudgeReplies ==
  IF ~HasPrimary THEN FallbackReplies
  ELSE (PrimaryReplies \ {NoResult})
       \cup (IF NoResult \in PrimaryReplies THEN FallbackReplies ELSE {})

\* Seeded fault: the score is stored as the judge gave it.
AsJudged(v) == v

Clamp(v) == IF v < 0 THEN 0 ELSE IF v > 100 THEN 100 ELSE v
-----------------------------------------------------------------------------
\* record_turn commits a turn and starts its scorer; the scorer is missing when
\* the second OrgOf failed.  The tool does not look at the session's state.
RecordTurn ==
  /\ turns < MaxTurns
  /\ turns' = turns + 1
  /\ \/ scorer' = [scorer EXCEPT ![turns + 1] = [pc |-> "judge"]] /\ UNCHANGED faulted
     \/ DbMayFail /\ faulted' = TRUE /\ UNCHANGED scorer
  /\ UNCHANGED <<row, scoredBy, turnScore, overall, job, page>>

\* PlanData and the judge's answer for turn t.
JudgeTurn(t) ==
  /\ scorer[t].pc = "judge"
  /\ \/ /\ DbMayFail \/ NoResult \in JudgeReplies
        /\ scorer' = [scorer EXCEPT ![t] = Ended]
        /\ faulted' = TRUE
     \/ \E reply \in JudgeReplies \ {NoResult} :
          /\ scorer' = [scorer EXCEPT ![t] = [pc |-> "store", value |-> Clamp(Parse(reply))]]
          /\ UNCHANGED faulted
  /\ UNCHANGED <<row, scoredBy, turns, turnScore, overall, job, page>>

WithScore(t) ==
  [u \in DOMAIN turnScore \cup {t} |-> IF u = t THEN scorer[t].value ELSE turnScore[u]]

\* Seeded fault: the turn of a session that has ended gets no score.
StoreWhileOpen(t) ==
  /\ scorer[t].pc = "store"
  /\ turnScore' = IF row \in Terminal THEN turnScore ELSE WithScore(t)
  /\ scorer' = [scorer EXCEPT ![t] = Ended]
  /\ UNCHANGED <<row, scoredBy, turns, overall, job, page, faulted>>

\* RecordTurnScore: an upsert, which may fail.
RecordTurnScore(t) ==
  /\ scorer[t].pc = "store"
  /\ \/ turnScore' = WithScore(t) /\ UNCHANGED faulted
     \/ DbMayFail /\ faulted' = TRUE /\ UNCHANGED turnScore
  /\ scorer' = [scorer EXCEPT ![t] = Ended]
  /\ UNCHANGED <<row, scoredBy, turns, overall, job, page>>

\* Anyone but the scoring service moves the session; entering "scoring" starts
\* the overall goroutine unless the answer of the commit is lost.
Move(to) ==
  /\ <<row, to>> \in Edges
  /\ row' = to
  /\ scoredBy' = IF to = "scored" THEN "others" ELSE scoredBy
  /\ \/ /\ job' = IF to = "scoring" THEN [pc |-> "read"] ELSE job
        /\ UNCHANGED faulted
     \/ DbMayFail /\ faulted' = TRUE /\ UNCHANGED job
  /\ UNCHANGED <<turns, turnScore, overall, scorer, page>>

\* Seeded fault: an interview without scored turns is judged all the same.
NeverEmpty(basis) == FALSE

NothingScored(basis) == basis = {}

\* ScoreOverall reads the turn scores there are by now.
TurnScores ==
  /\ job.pc = "read"
  /\ job' = IF NothingScored(DOMAIN turnScore) THEN Ended
            ELSE [pc |-> "judge", basis |-> DOMAIN turnScore, of |-> turns]
  /\ UNCHANGED <<row, scoredBy, turns, turnScore, overall, scorer, page, faulted>>

\* The judge's verdict on the whole interview.
JudgeOverall ==
  /\ job.pc = "judge"
  /\ \E reply \in JudgeReplies :
       /\ job' = IF reply = NoResult THEN Ended
                 ELSE [pc |-> "store", basis |-> job.basis, of |-> job.of,
                       value |-> Clamp(Parse(reply))]
       /\ faulted' = (faulted \/ reply = NoResult)
  /\ UNCHANGED <<row, scoredBy, turns, turnScore, overall, scorer, page>>

\* Seeded fault: an overall score that could not be stored is let go.
StoreIfPossible ==
  /\ job.pc = "store"
  /\ \/ overall' = [value |-> job.value, basis |-> job.basis, of |-> job.of]
     \/ DbMayFail /\ UNCHANGED overall
  /\ job' = [pc |-> "validate"]
  /\ UNCHANGED <<row, scoredBy, turns, turnScore, scorer, page, faulted>>

\* Seeded fault: the session is left to someone else to advance.
StoreAndStop ==
  /\ job.pc = "store"
  /\ overall' = [value |-> job.value, basis |-> job.basis, of |-> job.of]
  /\ job' = Ended
  /\ UNCHANGED <<row, scoredBy, turns, turnScore, scorer, page, faulted>>

\* RecordOverallScore: an upsert, and the goroutine goes on only if it worked.
RecordOverallScore ==
  /\ job.pc = "store"
  /\ overall' = [value |-> job.value, basis |-> job.basis, of |-> job.of]
  /\ job' = [pc |-> "validate"]
  /\ UNCHANGED <<row, scoredBy, turns, turnScore, scorer, page, faulted>>

\* Advance to "scored": the read of the row and the check of the edge.
ValidateScored ==
  /\ job.pc = "validate"
  /\ job' = IF Validate(row, "scored") = "ok" THEN [pc |-> "apply", cur |-> row] ELSE Ended
  /\ UNCHANGED <<row, scoredBy, turns, turnScore, overall, scorer, page, faulted>>

\* Advance to "scored": the compare-and-swap.
ApplyScored ==
  /\ job.pc = "apply"
  /\ IF row = job.cur
     THEN row' = "scored" /\ scoredBy' = "scoring-service"
     ELSE UNCHANGED <<row, scoredBy>>
  /\ job' = Ended
  /\ UNCHANGED <<turns, turnScore, overall, scorer, page, faulted>>

\* A database round trip of ScoreOverall fails, or its answer is lost.
JobError ==
  /\ DbMayFail
  /\ job.pc \in {"read", "store", "validate", "apply"}
  /\ job' = Ended
  /\ faulted' = TRUE
  /\ UNCHANGED <<row, scoredBy, turns, turnScore, overall, scorer, page>>

\* The server goes down and comes up again: nothing resumes a goroutine.
Crash ==
  /\ MayCrash
  /\ scorer' = [t \in Turn |-> IF scorer[t].pc = "none" THEN scorer[t] ELSE Ended]
  /\ job' = IF job.pc = "none" THEN job ELSE Ended
  /\ page' = [pc |-> "closed"]
  /\ faulted' = TRUE
  /\ UNCHANGED <<row, scoredBy, turns, turnScore, overall>>
-----------------------------------------------------------------------------
\* InterviewService.Get: the row.
ReadRow ==
  /\ page.pc \in {"closed", "shown"}
  /\ page' = [pc |-> "first", state |-> row, by |-> scoredBy,
              overall |-> NoOverall, turns |-> {}, missed |-> {}]
  /\ UNCHANGED <<row, scoredBy, turns, turnScore, overall, scorer, job, faulted>>

\* Seeded fault: the turn scores are loaded before the overall score.
TurnsFirst(load) ==
  IF load = "first" THEN [page EXCEPT !.turns = DOMAIN turnScore]
                    ELSE [page EXCEPT !.overall = overall]

\* attachScores: the overall score is loaded first, then the turn scores.
Load(load) ==
  IF load = "first" THEN [page EXCEPT !.overall = overall]
                    ELSE [page EXCEPT !.turns = DOMAIN turnScore]

Following(load) == IF load = "first" THEN "second" ELSE "shown"

\* One of the two queries of attachScores; one that fails is only logged.
AttachScores ==
  /\ page.pc \in {"first", "second"}
  /\ \/ page' = [Load(page.pc) EXCEPT !.pc = Following(page.pc)]
     \/ /\ DbMayFail
        /\ page' = [page EXCEPT !.pc = Following(page.pc), !.missed = @ \cup {page.pc}]
  /\ UNCHANGED <<row, scoredBy, turns, turnScore, overall, scorer, job, faulted>>
-----------------------------------------------------------------------------
ScoreTurn(t) == JudgeTurn(t) \/ RecordTurnScore(t)

ScoreOverall ==
  \/ TurnScores \/ JudgeOverall \/ RecordOverallScore
  \/ ValidateScored \/ ApplyScored \/ JobError

Next ==
  \/ RecordTurn
  \/ \E t \in Turn : ScoreTurn(t)
  \/ \E to \in States : Move(to)
  \/ ScoreOverall
  \/ Crash
  \/ ReadRow \/ AttachScores

\* A goroutine that is started is run, and a judge that does not answer is
\* given up after the HTTP client's 30 seconds.
Fairness == (\A t \in Turn : WF_vars(ScoreTurn(t))) /\ WF_vars(ScoreOverall)

Spec == Init /\ [][Next]_vars /\ Fairness
-----------------------------------------------------------------------------
\* Every score that is stored, in flight or shown lies in 0 .. 100, whatever
\* the judges answer.
TypeOK ==
  /\ row \in States
  /\ scoredBy \in {"", "others", "scoring-service"}
  /\ turns \in 0 .. MaxTurns
  /\ DOMAIN turnScore \subseteq Turn /\ turnScore \in [DOMAIN turnScore -> 0 .. 100]
  /\ overall \in Overall \cup {NoOverall}
  /\ scorer \in [Turn -> Scorer]
  /\ job \in Job
  /\ page \in Page
  /\ faulted \in BOOLEAN

\* A session that the scoring service called scored has an overall score,
\* through failures and crashes at any point (the order in ScoreOverall).
ScoredHasOverall == scoredBy = "scoring-service" => overall # NoOverall

\* An overall score rests on scores that exist, of turns that were recorded
\* before it was computed, and exists only for a session handed to scoring.
OverallRestsOnTurns ==
  /\ DOMAIN turnScore \subseteq 1 .. turns
  /\ overall # NoOverall =>
       /\ overall.basis # {}
       /\ overall.basis \subseteq DOMAIN turnScore \cap 1 .. overall.of
       /\ row \in ScoringOrLater

\* What a recruiter is shown is never torn in a way that contradicts itself:
\* the turns behind the overall score are shown with it, and a session shown as
\* scored by the service is shown with a score, unless the load of the missing
\* part was seen to fail (the order in Get and attachScores).
PageIsCoherent ==
  page.pc = "shown" =>
    /\ page.overall # NoOverall /\ "second" \notin page.missed
         => page.overall.basis \subseteq page.turns
    /\ page.by = "scoring-service" /\ "first" \notin page.missed
         => page.overall # NoOverall

\* Every turn that is recorded gets its score, even in a session that ended,
\* unless the database, both judges or the server fail on the way.
EveryTurnIsScored ==
  \A t \in Turn : (t <= turns) ~> (t \in DOMAIN turnScore \/ faulted)

\* An interview that had one scored turn when it was handed to scoring reaches
\* an end by itself, under the same conditions.
ScoringEnds ==
  (job.pc = "read" /\ turnScore # << >>) ~> (row \in Terminal \/ faulted)

\* services/scoring/scoring.go:1 and migrations/0006: the overall score is
\* computed "once every turn is in", "once all turns are scored".
OverallCoversEveryTurn == overall # NoOverall => overall.basis = 1 .. overall.of
=============================================================================
