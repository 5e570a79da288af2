--------------------------- MODULE ScoringProofs ---------------------------
(***************************************************************************)
(* Theorems about Scoring, for any number of turns, any judges and any     *)
(* failures and crashes.  The inductive invariant IInv says what the       *)
(* goroutines and the page hold between their round trips: a verdict rests *)
(* on scores that are still there when it is stored, the session is moved  *)
(* on only behind a stored score, and what a page read earlier is          *)
(* compatible with whatever it reads later.                                *)
(***************************************************************************)
EXTENDS Scoring, Sequences, TLAPS

\* A turn has a scorer only after it was recorded.
ScorersOfTurns == \A t \in Turn : scorer[t].pc # "none" => t <= turns

\* The overall goroutine runs for a session that was handed to scoring, holds a
\* verdict on turns that have scores, and advances behind a stored score.
JobIsJustified ==
  /\ job.pc # "none" => row \in ScoringOrLater
  /\ job.pc \in {"judge", "store"} =>
       job.basis # {} /\ job.basis \subseteq DOMAIN turnScore \cap 1 .. job.of
  /\ job.pc \in {"validate", "apply"} => overall # NoOverall

\* A page that has read a session the service called scored will find a score,
\* and the turns behind a score it has read.
PageReads ==
  page.pc # "closed" =>
    /\ page.by = "scoring-service" => overall # NoOverall
    /\ page.pc = "first" => page.overall = NoOverall
    /\ page.overall # NoOverall => page.overall.basis \subseteq DOMAIN turnScore
    /\ page.pc # "first" /\ page.by = "scoring-service" /\ "first" \notin page.missed
         => page.overall # NoOverall

\* The inductive invariant.
IInv ==
  /\ TypeOK
  /\ ScorersOfTurns /\ JobIsJustified /\ PageReads
  /\ ScoredHasOverall /\ OverallRestsOnTurns /\ PageIsCoherent
-----------------------------------------------------------------------------
(* The judges and the graph *)

\* Whatever a judge answers, what is made of it is a score.
LEMMA RepliesAreScores ==
  \A reply \in JudgeReplies \ {NoResult} : Clamp(Parse(reply)) \in 0 .. 100
<1> SUFFICES ASSUME NEW reply \in JudgeReplies \ {NoResult}
             PROVE  Clamp(Parse(reply)) \in 0 .. 100
  OBVIOUS
<1>1. reply \in Int \cup {NoScoreField}
  BY RepliesAssumption DEF JudgeReplies
<1>2. Parse(reply) \in Int
  BY <1>1 DEF Parse
<1> QED
  BY <1>2 DEF Clamp

\* A session handed to scoring stays handed over, and is handed over once.
LEMMA HandedOverOnce ==
  ASSUME NEW from, NEW to, <<from, to>> \in Edges
  PROVE  /\ to \in States
         /\ from \in ScoringOrLater => to \in ScoringOrLater /\ to # "scoring"
         /\ to = "scoring" => to \in ScoringOrLater
  BY DEF Edges, States, Terminal, ScoringOrLater
-----------------------------------------------------------------------------
(* Types *)

LEMMA InitTyped == Init => TypeOK
<1> SUFFICES ASSUME Init PROVE TypeOK
  OBVIOUS
<1>1. row \in States
  BY EntryAssumption DEF Init
<1>2. /\ DOMAIN turnScore \subseteq Turn
      /\ turnScore \in [DOMAIN turnScore -> 0 .. 100]
  <2>1. turnScore = << >>
    BY Zenon DEF Init
  <2>2. << >> \in Seq(0 .. 100) /\ Len(<< >>) = 0
    OBVIOUS
  <2>3. DOMAIN << >> = {}
    BY <2>2
  <2>4. << >> \in [{} -> 0 .. 100]
    BY <2>2, <2>3
  <2> QED
    BY <2>1, <2>3, <2>4
<1>3. turns \in 0 .. MaxTurns
  <2>1. turns = 0
    BY Zenon DEF Init
  <2> QED
    BY <2>1, MaxTurnsAssumption
<1>4. scorer \in [Turn -> Scorer] /\ job \in Job /\ page \in Page
  BY DEF Init, Scorer, Job, Page
<1> QED
  BY <1>1, <1>2, <1>3, <1>4 DEF Init, TypeOK

\* A score that is added leaves the others.
LEMMA WithScoreAdds ==
  ASSUME TypeOK, NEW t \in Turn, scorer[t].pc = "store"
  PROVE  /\ DOMAIN WithScore(t) = DOMAIN turnScore \cup {t}
         /\ WithScore(t) \in [DOMAIN WithScore(t) -> 0 .. 100]
<1>1. scorer[t].value \in 0 .. 100
  BY DEF TypeOK, Scorer
<1>2. \A u \in DOMAIN turnScore : turnScore[u] \in 0 .. 100
  BY DEF TypeOK
<1>3. \A u \in DOMAIN turnScore \cup {t} :
        (IF u = t THEN scorer[t].value ELSE turnScore[u]) \in 0 .. 100
  BY <1>1, <1>2
<1> QED
  BY <1>3 DEF WithScore

\* A page that has begun to load.
Opened ==
  [pc : {"first", "second", "shown"},
   state : States, by : {"", "others", "scoring-service"},
   overall : Overall \cup {NoOverall}, turns : SUBSET Turn,
   missed : SUBSET {"first", "second"}]

\* What a query of the page, which may fail, leaves of it.
LEMMA Loads ==
  ASSUME TypeOK, AttachScores
  PROVE  /\ page \in Opened /\ page' \in Opened
         /\ page'.by = page.by
         /\ \/ /\ page.pc = "first" /\ page'.pc = "second"
               /\ \/ page'.overall = overall /\ page'.missed = page.missed
                  \/ page'.overall = page.overall /\ "first" \in page'.missed
            \/ /\ page.pc = "second" /\ page'.pc = "shown" /\ page'.overall = page.overall
               /\ \/ page'.turns = DOMAIN turnScore /\ page'.missed = page.missed
                  \/ "second" \in page'.missed /\ page.missed \subseteq page'.missed
<1>1. page \in Opened
  BY DEF AttachScores, TypeOK, Page, Opened
<1>2. overall \in Overall \cup {NoOverall} /\ DOMAIN turnScore \in SUBSET Turn
  BY DEF TypeOK
<1>3. ASSUME page.pc = "first"
      PROVE  \/ page' = [[page EXCEPT !.overall = overall] EXCEPT !.pc = "second"]
             \/ page' = [page EXCEPT !.pc = "second", !.missed = page.missed \cup {"first"}]
  BY <1>3 DEF AttachScores, Load, Following
<1>4. ASSUME page.pc = "second"
      PROVE  \/ page' = [[page EXCEPT !.turns = DOMAIN turnScore] EXCEPT !.pc = "shown"]
             \/ page' = [page EXCEPT !.pc = "shown", !.missed = page.missed \cup {"second"}]
  BY <1>4 DEF AttachScores, Load, Following
<1>5. CASE page.pc = "first"
  BY <1>1, <1>2, <1>3, <1>5 DEF Opened
<1>6. CASE page.pc = "second"
  BY <1>1, <1>2, <1>4, <1>6 DEF Opened
<1> QED
  BY <1>5, <1>6 DEF AttachScores

LEMMA TypeStep == TypeOK /\ [Next]_vars => TypeOK'
<1> SUFFICES ASSUME TypeOK, [Next]_vars PROVE TypeOK'
  OBVIOUS
<1>1. CASE RecordTurn
  <2>1. turns' \in 0 .. MaxTurns
    <3>1. turns \in 0 .. MaxTurns
      BY DEF TypeOK
    <3>2. turns < MaxTurns /\ turns' = turns + 1
      BY <1>1 DEF RecordTurn
    <3> QED
      BY <3>1, <3>2, MaxTurnsAssumption
  <2>2. [pc |-> "judge"] \in Scorer
    BY DEF Scorer
  <2>3. scorer' \in [Turn -> Scorer]
    BY <1>1, <2>2 DEF RecordTurn, TypeOK
  <2> QED
    BY <1>1, <2>1, <2>3 DEF RecordTurn, TypeOK
<1>2. ASSUME NEW t \in Turn, JudgeTurn(t) PROVE TypeOK'
  <2>1. Ended \in Scorer
    BY DEF Ended, Scorer
  <2>2. \A v \in 0 .. 100 : [pc |-> "store", value |-> v] \in Scorer
    BY DEF Scorer
  <2>3. scorer' \in [Turn -> Scorer]
    <3>1. CASE scorer' = [scorer EXCEPT ![t] = Ended]
      BY <3>1, <2>1 DEF TypeOK
    <3>2. ASSUME NEW reply \in JudgeReplies \ {NoResult},
                 scorer' = [scorer EXCEPT ![t] =
                              [pc |-> "store", value |-> Clamp(Parse(reply))]]
          PROVE  scorer' \in [Turn -> Scorer]
      <4>1. [pc |-> "store", value |-> Clamp(Parse(reply))] \in Scorer
        BY <2>2, RepliesAreScores
      <4> QED
        BY <3>2, <4>1 DEF TypeOK
    <3> QED
      BY <1>2, <3>1, <3>2 DEF JudgeTurn
  <2>4. faulted' \in BOOLEAN
    BY <1>2 DEF JudgeTurn, TypeOK
  <2> QED
    BY <1>2, <2>3, <2>4 DEF JudgeTurn, TypeOK
<1>3. ASSUME NEW t \in Turn, RecordTurnScore(t) PROVE TypeOK'
  <2>1. scorer' \in [Turn -> Scorer]
    BY <1>3 DEF RecordTurnScore, TypeOK, Ended, Scorer
  <2>2. /\ DOMAIN turnScore' \subseteq Turn
        /\ turnScore' \in [DOMAIN turnScore' -> 0 .. 100]
    <3>1. CASE turnScore' = WithScore(t)
      <4>1. scorer[t].pc = "store"
        BY <1>3 DEF RecordTurnScore
      <4>2. DOMAIN turnScore \subseteq Turn
        BY DEF TypeOK
      <4> QED
        BY <3>1, <4>1, <4>2, WithScoreAdds
    <3>2. CASE turnScore' = turnScore
      BY <3>2 DEF TypeOK
    <3> QED
      BY <1>3, <3>1, <3>2 DEF RecordTurnScore
  <2>3. faulted' \in BOOLEAN
    BY <1>3 DEF RecordTurnScore, TypeOK
  <2> QED
    BY <1>3, <2>1, <2>2, <2>3 DEF RecordTurnScore, TypeOK
<1>4. ASSUME NEW to \in States, Move(to) PROVE TypeOK'
  <2>1. job' \in Job
    <3>1. job' = [pc |-> "read"] \/ job' = job
      BY <1>4 DEF Move
    <3>2. [pc |-> "read"] \in Job
      BY DEF Job
    <3> QED
      BY <3>1, <3>2 DEF TypeOK
  <2> QED
    BY <1>4, <2>1 DEF Move, TypeOK
<1>5. CASE TurnScores
  <2>1. DOMAIN turnScore \in SUBSET Turn /\ turns \in 0 .. MaxTurns
    BY DEF TypeOK
  <2>2. job' \in Job
    BY <1>5, <2>1 DEF TurnScores, Ended, Job
  <2> QED
    BY <1>5, <2>2 DEF TurnScores, TypeOK
<1>6. CASE JudgeOverall
  <2>1. job.basis \in SUBSET Turn /\ job.of \in 0 .. MaxTurns
    BY <1>6 DEF JudgeOverall, TypeOK, Job
  <2>2. job' \in Job
    BY <1>6, <2>1, RepliesAreScores DEF JudgeOverall, Ended, Job
  <2>3. faulted' \in BOOLEAN
    BY <1>6 DEF JudgeOverall, TypeOK
  <2> QED
    BY <1>6, <2>2, <2>3 DEF JudgeOverall, TypeOK
<1>7. CASE RecordOverallScore
  <2>1. /\ job.basis \in SUBSET Turn /\ job.of \in 0 .. MaxTurns
        /\ job.value \in 0 .. 100
    BY <1>7 DEF RecordOverallScore, TypeOK, Job
  <2>2. overall' \in Overall
    BY <1>7, <2>1 DEF RecordOverallScore, Overall, Turn
  <2>3. job' \in Job
    BY <1>7 DEF RecordOverallScore, Job
  <2> QED
    BY <1>7, <2>2, <2>3 DEF RecordOverallScore, TypeOK
<1>8. CASE ValidateScored
  <2>1. job' \in Job
    BY <1>8 DEF ValidateScored, TypeOK, Ended, Job
  <2> QED
    BY <1>8, <2>1 DEF ValidateScored, TypeOK
<1>9. CASE ApplyScored
  <2>1. job' \in Job
    BY <1>9 DEF ApplyScored, Ended, Job
  <2>2. row' \in States /\ scoredBy' \in {"", "others", "scoring-service"}
    BY <1>9 DEF ApplyScored, TypeOK, States
  <2> QED
    BY <1>9, <2>1, <2>2 DEF ApplyScored, TypeOK
<1>10. CASE JobError
  <2>1. job' \in Job
    BY <1>10 DEF JobError, Ended, Job
  <2> QED
    BY <1>10, <2>1 DEF JobError, TypeOK
<1>11. CASE Crash
  <2>1. job' \in Job
    BY <1>11 DEF Crash, Ended, Job, TypeOK
  <2>2. Ended \in Scorer
    BY DEF Ended, Scorer
  <2>3. scorer' \in [Turn -> Scorer]
    BY <1>11, <2>2 DEF Crash, TypeOK
  <2>4. page' \in Page
    BY <1>11 DEF Crash, Page
  <2> QED
    BY <1>11, <2>1, <2>3, <2>4 DEF Crash, TypeOK
<1>12. CASE ReadRow
  <2>1. page' \in Page
    BY <1>12 DEF ReadRow, Page, TypeOK
  <2> QED
    BY <1>12, <2>1 DEF ReadRow, TypeOK
<1>13. CASE AttachScores
  <2>1. page' \in Opened
    BY <1>13, Loads
  <2> QED
    BY <1>13, <2>1 DEF AttachScores, TypeOK, Page, Opened
<1>14. CASE UNCHANGED vars
  BY <1>14 DEF vars, TypeOK
<1> QED
  BY <1>1, <1>2, <1>3, <1>4, <1>5, <1>6, <1>7, <1>8, <1>9, <1>10, <1>11, <1>12, <1>13, <1>14
  DEF Next, ScoreTurn, ScoreOverall

\* Whatever the judges answer, every score that is stored, in flight or shown
\* lies in 0 .. 100, and the goroutines and the page keep their types.
THEOREM ScoringTypeCorrect == Spec => []TypeOK
<1> QED
  BY InitTyped, TypeStep, PTL DEF Spec
-----------------------------------------------------------------------------
(* Scores and the session *)

LEMMA InitIsIInv == Init => IInv
<1> SUFFICES ASSUME Init PROVE IInv
  OBVIOUS
<1>1. TypeOK
  BY InitTyped
<1>2. /\ overall = NoOverall /\ job.pc = "none" /\ page.pc = "closed"
      /\ scoredBy = "" /\ \A t \in Turn : scorer[t].pc = "none"
  BY Zenon DEF Init
<1>3. DOMAIN turnScore = {}
  <2>1. turnScore = << >>
    BY Zenon DEF Init
  <2>2. << >> \in Seq(Int) /\ Len(<< >>) = 0
    OBVIOUS
  <2> QED
    BY <2>1, <2>2
<1> QED
  BY <1>1, <1>2, <1>3 DEF IInv, ScorersOfTurns, JobIsJustified, PageReads,
    ScoredHasOverall, OverallRestsOnTurns, PageIsCoherent

\* The invariant of the scores, the session and the goroutines.
Core == ScorersOfTurns /\ JobIsJustified /\ ScoredHasOverall /\ OverallRestsOnTurns

\* Steps of the turns' goroutines and of record_turn.
LEMMA TurnStep ==
  ASSUME TypeOK, Core,
         RecordTurn \/ \E t \in Turn : ScoreTurn(t)
  PROVE  /\ Core'
         /\ DOMAIN turnScore \subseteq DOMAIN turnScore'
         /\ UNCHANGED <<overall, page>>
<1>1. CASE RecordTurn
  <2>1. turns \in Nat /\ turns' = turns + 1
    <3>1. turns \in 0 .. MaxTurns
      BY DEF TypeOK
    <3> QED
      BY <1>1, <3>1, MaxTurnsAssumption DEF RecordTurn
  <2>2. \A t \in Turn : scorer'[t].pc # "none" => scorer[t].pc # "none" \/ t = turns + 1
    BY <1>1 DEF RecordTurn, TypeOK
  <2>3. ScorersOfTurns'
    BY <2>1, <2>2 DEF Core, ScorersOfTurns, Turn
  <2>4. UNCHANGED <<row, scoredBy, turnScore, overall, job, page>>
    BY <1>1 DEF RecordTurn
  <2>5. JobIsJustified' /\ ScoredHasOverall'
    BY <2>4 DEF Core, JobIsJustified, ScoredHasOverall
  <2>6. OverallRestsOnTurns'
    BY <2>1, <2>4 DEF Core, OverallRestsOnTurns
  <2> QED
    BY <2>3, <2>4, <2>5, <2>6 DEF Core
<1>2. ASSUME NEW t \in Turn, JudgeTurn(t)
      PROVE  /\ Core'
             /\ DOMAIN turnScore \subseteq DOMAIN turnScore'
             /\ UNCHANGED <<overall, page>>
  <2>1. UNCHANGED <<row, scoredBy, turns, turnScore, overall, job, page>>
    BY <1>2 DEF JudgeTurn
  <2>2. \A u \in Turn : scorer'[u].pc # "none" => scorer[u].pc # "none"
    BY <1>2 DEF JudgeTurn, TypeOK
  <2>3. ScorersOfTurns'
    BY <2>1, <2>2 DEF Core, ScorersOfTurns
  <2>4. JobIsJustified' /\ ScoredHasOverall' /\ OverallRestsOnTurns'
    BY <2>1 DEF Core, JobIsJustified, ScoredHasOverall, OverallRestsOnTurns
  <2> QED
    BY <2>1, <2>3, <2>4 DEF Core
<1>3. ASSUME NEW t \in Turn, RecordTurnScore(t)
      PROVE  /\ Core'
             /\ DOMAIN turnScore \subseteq DOMAIN turnScore'
             /\ UNCHANGED <<overall, page>>
  <2>1. /\ UNCHANGED <<row, scoredBy, turns, overall, job, page>>
        /\ scorer[t].pc = "store"
    BY <1>3 DEF RecordTurnScore
  <2>2. \A u \in Turn : scorer'[u].pc # "none" => scorer[u].pc # "none"
    BY <1>3 DEF RecordTurnScore, TypeOK
  <2>3. ScorersOfTurns'
    BY <2>1, <2>2 DEF Core, ScorersOfTurns
  <2>4. DOMAIN turnScore' = DOMAIN turnScore \cup {t} \/ turnScore' = turnScore
    BY <1>3, WithScoreAdds DEF RecordTurnScore
  <2>5. t \in 1 .. turns
    <3>1. t <= turns /\ t \in Nat /\ t >= 1
      BY <2>1, MaxTurnsAssumption DEF Core, ScorersOfTurns, Turn
    <3>2. turns \in 0 .. MaxTurns
      BY DEF TypeOK
    <3> QED
      BY <3>1, <3>2, MaxTurnsAssumption
  <2>6. JobIsJustified' /\ ScoredHasOverall'
    BY <2>1, <2>4 DEF Core, JobIsJustified, ScoredHasOverall
  <2>7. OverallRestsOnTurns'
    BY <2>1, <2>4, <2>5 DEF Core, OverallRestsOnTurns
  <2> QED
    BY <2>1, <2>3, <2>4, <2>6, <2>7 DEF Core
<1> QED
  BY <1>1, <1>2, <1>3 DEF ScoreTurn

\* A move of the session by anyone else.
LEMMA MoveStep ==
  ASSUME TypeOK, Core, NEW to \in States, Move(to)
  PROVE  Core' /\ UNCHANGED <<turnScore, overall, page>>
<1>1. <<row, to>> \in Edges /\ row' = to
  BY DEF Move
<1>2. UNCHANGED <<turns, turnScore, overall, scorer, page>>
  BY DEF Move
<1>3. row \in ScoringOrLater => row' \in ScoringOrLater
  BY <1>1, HandedOverOnce
<1>4. JobIsJustified'
  <2>1. CASE job' = job
    BY <1>2, <1>3, <2>1 DEF Core, JobIsJustified
  <2>2. CASE to = "scoring" /\ job' = [pc |-> "read"]
    BY <1>1, <2>2, HandedOverOnce DEF JobIsJustified
  <2> QED
    BY <2>1, <2>2 DEF Move
<1>5. ScoredHasOverall'
  BY <1>2 DEF Move, Core, ScoredHasOverall
<1>6. ScorersOfTurns' /\ OverallRestsOnTurns'
  BY <1>2, <1>3 DEF Core, ScorersOfTurns, OverallRestsOnTurns
<1> QED
  BY <1>2, <1>4, <1>5, <1>6 DEF Core

\* Steps of the overall goroutine.
LEMMA JobStep ==
  ASSUME TypeOK, Core, ScoreOverall
  PROVE  /\ Core'
         /\ overall # NoOverall => overall' # NoOverall
         /\ UNCHANGED <<turnScore, page>>
<1>1. CASE TurnScores
  <2>1. UNCHANGED <<row, scoredBy, turns, turnScore, overall, scorer, page>>
    BY <1>1 DEF TurnScores
  <2>2. JobIsJustified'
    BY <1>1, <2>1
    DEF TurnScores, Core, JobIsJustified, OverallRestsOnTurns, NothingScored, Ended
  <2> QED
    BY <2>1, <2>2 DEF Core, ScorersOfTurns, ScoredHasOverall, OverallRestsOnTurns
<1>2. CASE JudgeOverall
  <2>1. UNCHANGED <<row, scoredBy, turns, turnScore, overall, scorer, page>>
    BY <1>2 DEF JudgeOverall
  <2>2. JobIsJustified'
    BY <1>2, <2>1 DEF JudgeOverall, Core, JobIsJustified, Ended
  <2> QED
    BY <2>1, <2>2 DEF Core, ScorersOfTurns, ScoredHasOverall, OverallRestsOnTurns
<1>3. CASE RecordOverallScore
  <2>1. /\ UNCHANGED <<row, scoredBy, turns, turnScore, scorer, page>>
        /\ job.pc = "store" /\ job' = [pc |-> "validate"]
        /\ overall' = [value |-> job.value, basis |-> job.basis, of |-> job.of]
    BY <1>3 DEF RecordOverallScore
  <2>2. job.value \in 0 .. 100
    BY <2>1 DEF TypeOK, Job
  <2>3. overall'.value # NoOverall.value
    BY <2>1, <2>2 DEF NoOverall
  <2>4. overall' # NoOverall
    BY <2>3
  <2>5. JobIsJustified' /\ OverallRestsOnTurns'
    BY <2>1, <2>4 DEF Core, JobIsJustified, OverallRestsOnTurns
  <2> QED
    BY <2>1, <2>4, <2>5 DEF Core, ScorersOfTurns, ScoredHasOverall
<1>4. CASE ValidateScored
  <2>1. UNCHANGED <<row, scoredBy, turns, turnScore, overall, scorer, page>>
    BY <1>4 DEF ValidateScored
  <2>2. JobIsJustified'
    BY <1>4, <2>1 DEF ValidateScored, Core, JobIsJustified, Ended
  <2> QED
    BY <2>1, <2>2 DEF Core, ScorersOfTurns, ScoredHasOverall, OverallRestsOnTurns
<1>5. CASE ApplyScored
  <2>1. /\ UNCHANGED <<turns, turnScore, overall, scorer, page>>
        /\ job'.pc = "ended" /\ overall # NoOverall
    BY <1>5 DEF ApplyScored, Core, JobIsJustified, Ended
  <2>2. row' \in ScoringOrLater
    BY <1>5 DEF ApplyScored, Core, JobIsJustified, ScoringOrLater
  <2> QED
    BY <2>1, <2>2
    DEF Core, JobIsJustified, ScorersOfTurns, ScoredHasOverall, OverallRestsOnTurns
<1>6. CASE JobError
  <2>1. UNCHANGED <<row, scoredBy, turns, turnScore, overall, scorer, page>>
    BY <1>6 DEF JobError
  <2>2. JobIsJustified'
    BY <1>6, <2>1 DEF JobError, Core, JobIsJustified, Ended
  <2> QED
    BY <2>1, <2>2 DEF Core, ScorersOfTurns, ScoredHasOverall, OverallRestsOnTurns
<1> QED
  BY <1>1, <1>2, <1>3, <1>4, <1>5, <1>6 DEF ScoreOverall

\* A crash ends the goroutines and the request; what is stored stays.
LEMMA CrashStep == ASSUME TypeOK, Core, Crash PROVE Core' /\ page'.pc = "closed"
<1>1. UNCHANGED <<row, scoredBy, turns, turnScore, overall>>
  BY DEF Crash
<1>2. \A t \in Turn : scorer'[t].pc # "none" => scorer[t].pc # "none"
  BY DEF Crash, Ended
<1>3. JobIsJustified'
  BY <1>1 DEF Crash, Core, JobIsJustified, Ended
<1> QED
  BY <1>1, <1>2, <1>3
  DEF Crash, Core, ScorersOfTurns, ScoredHasOverall, OverallRestsOnTurns
-----------------------------------------------------------------------------
(* The page *)

\* What a page has read stays compatible with what it will read.
LEMMA PageStays ==
  ASSUME PageReads, PageIsCoherent, UNCHANGED page,
         overall # NoOverall => overall' # NoOverall,
         DOMAIN turnScore \subseteq DOMAIN turnScore'
  PROVE  PageReads' /\ PageIsCoherent'
BY DEF PageReads, PageIsCoherent

\* The queries of the page.
LEMMA PageStep ==
  ASSUME TypeOK, Core, PageReads, PageIsCoherent, ReadRow \/ AttachScores
  PROVE  Core' /\ PageReads' /\ PageIsCoherent'
<1>1. UNCHANGED <<row, scoredBy, turns, turnScore, overall, scorer, job>>
  BY DEF ReadRow, AttachScores
<1>2. Core'
  BY <1>1
  DEF Core, ScorersOfTurns, JobIsJustified, ScoredHasOverall, OverallRestsOnTurns
<1>3. CASE ReadRow
  <2>1. /\ page'.pc = "first" /\ page'.by = scoredBy /\ page'.overall = NoOverall
    BY <1>3 DEF ReadRow
  <2>2. scoredBy = "scoring-service" => overall' # NoOverall
    BY <1>1 DEF Core, ScoredHasOverall
  <2> QED
    BY <1>2, <2>1, <2>2 DEF PageReads, PageIsCoherent
<1>4. CASE AttachScores
  <2>1. CASE page.pc = "first"
    <3>1. overall # NoOverall => overall.basis \subseteq DOMAIN turnScore
      BY DEF Core, OverallRestsOnTurns
    <3>2. /\ page'.pc = "second" /\ page'.by = page.by
          /\ \/ page'.overall = overall /\ page'.missed = page.missed
             \/ page'.overall = page.overall /\ "first" \in page'.missed
      BY <1>4, <2>1, Loads
    <3> QED
      BY <1>1, <1>2, <2>1, <3>1, <3>2 DEF PageReads, PageIsCoherent
  <2>2. CASE page.pc = "second"
    <3>1. /\ page'.pc = "shown" /\ page'.by = page.by /\ page'.overall = page.overall
          /\ \/ page'.turns = DOMAIN turnScore /\ page'.missed = page.missed
             \/ "second" \in page'.missed /\ page.missed \subseteq page'.missed
      BY <1>4, <2>2, Loads
    <3> QED
      BY <1>1, <1>2, <2>2, <3>1 DEF PageReads, PageIsCoherent
  <2> QED
    BY <1>4, <2>1, <2>2 DEF AttachScores
<1> QED
  BY <1>2, <1>3, <1>4
-----------------------------------------------------------------------------
(* The theorems *)

LEMMA InvStep == IInv /\ [Next]_vars => IInv'
<1> SUFFICES ASSUME IInv, [Next]_vars PROVE IInv'
  OBVIOUS
<1>1. TypeOK /\ TypeOK' /\ Core /\ PageReads /\ PageIsCoherent
  BY TypeStep DEF IInv, Core
<1>2. Core' /\ PageReads' /\ PageIsCoherent'
  <2>1. CASE RecordTurn \/ \E t \in Turn : ScoreTurn(t)
    BY <1>1, <2>1, TurnStep, PageStays
  <2>2. ASSUME NEW to \in States, Move(to)
        PROVE  Core' /\ PageReads' /\ PageIsCoherent'
    BY <1>1, <2>2, MoveStep, PageStays
  <2>3. CASE ScoreOverall
    BY <1>1, <2>3, JobStep, PageStays
  <2>4. CASE Crash
    BY <1>1, <2>4, CrashStep DEF PageReads, PageIsCoherent
  <2>5. CASE ReadRow \/ AttachScores
    BY <1>1, <2>5, PageStep
  <2>6. CASE UNCHANGED vars
    BY <1>1, <2>6 DEF vars, Core, ScorersOfTurns, JobIsJustified, ScoredHasOverall,
      OverallRestsOnTurns, PageReads, PageIsCoherent
  <2> QED
    BY <2>1, <2>2, <2>3, <2>4, <2>5, <2>6 DEF Next
<1> QED
  BY <1>1, <1>2 DEF IInv, Core

LEMMA Invariant == Spec => []IInv
<1> QED
  BY InitIsIInv, InvStep, PTL DEF Spec

\* Through failures and crashes at any point, a session that the scoring
\* service called scored has an overall score (the order in ScoreOverall).
THEOREM ScoredHasOverallHolds == Spec => []ScoredHasOverall
<1>1. IInv => ScoredHasOverall
  BY DEF IInv
<1> QED
  BY <1>1, Invariant, PTL

\* However many turns are recorded and judged while ScoreOverall runs, its score
\* rests on stored scores of turns recorded before, in a session handed to it.
THEOREM OverallRestsOnTurnsHolds == Spec => []OverallRestsOnTurns
<1>1. IInv => OverallRestsOnTurns
  BY DEF IInv
<1> QED
  BY <1>1, Invariant, PTL

\* Whatever is stored between the three queries of the detail page, what they
\* find does not contradict itself (the order in Get and attachScores).
THEOREM PageIsCoherentHolds == Spec => []PageIsCoherent
<1>1. IInv => PageIsCoherent
  BY DEF IInv
<1> QED
  BY <1>1, Invariant, PTL
=============================================================================
