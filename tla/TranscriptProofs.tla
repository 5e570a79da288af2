-------------------------- MODULE TranscriptProofs --------------------------
(***************************************************************************)
(* Theorems about Transcript, for any number of callers, calls and named   *)
(* indexes.  The inductive invariant IInv says what a call knows of its    *)
(* index while it is under way: that nobody else holds it and it is not    *)
(* stored (the unique key), that an appended one follows a stored turn     *)
(* (the maximum that was read), and that its answer is stored nowhere yet. *)
(***************************************************************************)
EXTENDS Transcript, TLAPS

\* The call of c has not stored its answer yet.
Storing(c) == rec[c].pc \in {"begin", "insert", "held"}

\* There is a last turn, so that max(turn_index) means something.
HasLast == \E m \in {0} \cup Stored : \A t \in {0} \cup Stored : m >= t

\* A transaction that holds a key is the only one, and the key is not stored.
KeyIsExclusive ==
  \A c \in Callers : rec[c].pc = "held" =>
    /\ rec[c].index \notin Stored
    /\ \A d \in Callers \ {c} : rec[d].pc = "held" => rec[d].index # rec[c].index

\* An index that was not named follows a stored turn; one that was, was named.
IndexIsJustified ==
  \A c \in Callers :
    /\ rec[c].pc = "begin" => rec[c].append \/ rec[c].index \in Explicit \ {0}
    /\ rec[c].pc \in {"insert", "held"} =>
         rec[c].index \in Explicit \/ rec[c].index = 1 \/ rec[c].index - 1 \in Stored

\* What is stored was said in a call that was made, and not in one that has yet
\* to store its answer.
AnswersAreOfCalls ==
  \A t \in Stored : \A c \in Callers : \A n \in Nat :
    responses[t] = <<c, n>> => n <= calls[c] /\ (Storing(c) => n < calls[c])

\* A call that is about to start its scorer has stored its turn, which nobody
\* has started a scorer for.
ScorerIsDue ==
  \A c \in Callers : rec[c].pc = "org" =>
    /\ rec[c].index \in Stored \ DOMAIN scorers
    /\ responses[rec[c].index] = <<c, calls[c]>>

IInv ==
  /\ TypeOK
  /\ HasLast /\ KeyIsExclusive /\ IndexIsJustified
  /\ AnswersAreOfCalls /\ ScorerIsDue
  /\ NoGaps /\ OncePerAnswer

-----------------------------------------------------------------------------
(* The index an append picks *)

\* max(turn_index) + 1 is a new index that follows a stored turn, or is 1.
LEMMA NextIndexFollows ==
  ASSUME TypeOK, HasLast
  PROVE  /\ NextIndex \in Turn
         /\ NextIndex = 1 \/ NextIndex - 1 \in Stored
<1> DEFINE S == {0} \cup Stored
<1>1. S \subseteq Nat
  BY DEF TypeOK, Turn
<1>2. PICK m \in S : \A t \in S : m >= t
  BY DEF HasLast
<1>3. Max(S) \in S /\ \A t \in S : Max(S) >= t
  BY <1>2 DEF Max
<1>4. NextIndex = 1 + Max(S)
  BY DEF NextIndex
<1> HIDE DEF S
<1>5. Max(S) \in Nat
  BY <1>1, <1>3
<1>6. Max(S) = 0 \/ Max(S) \in Stored
  BY <1>3 DEF S
<1> QED BY <1>4, <1>5, <1>6 DEF Turn
-----------------------------------------------------------------------------
(* Type correctness *)

\* What each step leaves in the caller's record is one of the records of Rec.
LEMMA Variants ==
  /\ \A i \in Nat, a \in BOOLEAN : [pc |-> "begin", index |-> i, append |-> a] \in Rec
  /\ \A i \in Turn, a \in BOOLEAN : /\ [pc |-> "insert", index |-> i, append |-> a] \in Rec
                                    /\ [pc |-> "held", index |-> i, append |-> a] \in Rec
  /\ \A i \in Turn : /\ [pc |-> "org", index |-> i] \in Rec
                     /\ [pc |-> "done", index |-> i] \in Rec
  /\ \A a \in BOOLEAN : /\ [pc |-> "failed", append |-> a, err |-> "conflict"] \in Rec
                        /\ [pc |-> "failed", append |-> a, err |-> "error"] \in Rec
  BY DEF Rec

\* The fields of a call's record.
LEMMA Fields ==
  ASSUME TypeOK, NEW c \in Callers
  PROVE  /\ rec[c].pc \in {"begin", "insert", "held"} => rec[c].append \in BOOLEAN
         /\ rec[c].pc = "begin" => rec[c].index \in Nat
         /\ rec[c].pc \in {"insert", "held", "org", "done"} => rec[c].index \in Turn
         /\ rec[c].pc = "insert" =>
              [rec[c] EXCEPT !.pc = "held"]
                = [pc |-> "held", index |-> rec[c].index, append |-> rec[c].append]
  BY DEF TypeOK, Rec

\* The record of c changes, those of the others do not.
LEMMA BecomesOnly ==
  ASSUME TypeOK, NEW c \in Callers, NEW v \in Rec, Becomes(c, v)
  PROVE  /\ rec' \in [Callers -> Rec]
         /\ rec'[c] = v
         /\ \A d \in Callers \ {c} : rec'[d] = rec[d]
  BY DEF Becomes, TypeOK

\* A step of c in a form that every invariant below uses: what becomes of c's
\* record, and what else changes.
Steps(c) ==
  \/ \E i \in {0} \cup Explicit :
       /\ ~Storing(c) /\ rec[c].pc # "org"
       /\ rec'[c] = [pc |-> "begin", index |-> i, append |-> i = 0]
       /\ calls' = [calls EXCEPT ![c] = @ + 1]
       /\ UNCHANGED <<responses, scorers>>
  \/ \E i \in Turn :
       /\ rec[c].pc = "begin"
       /\ rec'[c] = [pc |-> "insert", index |-> i, append |-> rec[c].append]
       /\ i \in Explicit \/ i = 1 \/ i - 1 \in Stored
       /\ UNCHANGED <<responses, calls, scorers>>
  \/ /\ rec[c].pc = "insert" /\ rec[c].index \notin Held \cup Stored
     /\ rec'[c] = [pc |-> "held", index |-> rec[c].index, append |-> rec[c].append]
     /\ UNCHANGED <<responses, calls, scorers>>
  \/ /\ rec[c].pc = "held"
     /\ responses' = WithRowOf(c)
     /\ rec'[c] = [pc |-> "org", index |-> rec[c].index] \/ rec'[c].pc = "failed"
     /\ UNCHANGED <<calls, scorers>>
  \/ /\ Storing(c) /\ rec'[c].pc = "failed"
     /\ UNCHANGED <<responses, calls, scorers>>
  \/ /\ rec[c].pc = "org"
     /\ rec'[c].pc = "done"
     /\ scorers' = StartScorer(rec[c].index) \/ UNCHANGED scorers
     /\ UNCHANGED <<responses, calls>>

\* Every action is such a step, and none touches another caller's record.
LEMMA StepCases ==
  ASSUME TypeOK, HasLast, IndexIsJustified, NEW c \in Callers,
         (\E index \in {0} \cup Explicit : RecordTurn(c, index)) \/ Proceed(c) \/ Rollback(c)
  PROVE  /\ Steps(c)
         /\ rec' \in [Callers -> Rec]
         /\ \A d \in Callers \ {c} : rec'[d] = rec[d]
<1> DEFINE Goal == /\ Steps(c)
                   /\ rec' \in [Callers -> Rec]
                   /\ \A d \in Callers \ {c} : rec'[d] = rec[d]
<1> USE BecomesOnly, Variants, Fields
<1>1. ASSUME NEW index \in {0} \cup Explicit, RecordTurn(c, index) PROVE Goal
  <2>1. index \in Nat /\ (index = 0) \in BOOLEAN
    BY ExplicitAssumption
  <2> QED BY <1>1, <2>1 DEF RecordTurn, Steps, Storing
<1>2. CASE ChooseIndex(c)
  <2> DEFINE i == IF rec[c].append THEN NextIndex ELSE rec[c].index
  <2>1. rec[c].pc = "begin" /\ rec[c].append \in BOOLEAN
    BY <1>2 DEF ChooseIndex
  <2>2. i \in Turn /\ (i \in Explicit \/ i = 1 \/ i - 1 \in Stored)
    BY <2>1, NextIndexFollows, ExplicitAssumption DEF IndexIsJustified, Turn
  <2>3. Becomes(c, [pc |-> "insert", append |-> rec[c].append, index |-> i])
    BY <1>2 DEF ChooseIndex
  <2>4. [pc |-> "insert", append |-> rec[c].append, index |-> i]
          = [pc |-> "insert", index |-> i, append |-> rec[c].append]
    OBVIOUS
  <2> HIDE DEF i
  <2>5. /\ rec'[c] = [pc |-> "insert", index |-> i, append |-> rec[c].append]
        /\ rec' \in [Callers -> Rec]
        /\ \A d \in Callers \ {c} : rec'[d] = rec[d]
    BY <2>1, <2>2, <2>3, <2>4
  <2> QED BY <1>2, <2>1, <2>2, <2>5 DEF ChooseIndex, Steps
<1>0. ASSUME NEW err \in {"conflict", "error"}, Storing(c), Fails(c, err)
      PROVE  /\ rec'[c].pc = "failed"
             /\ rec' \in [Callers -> Rec]
             /\ \A d \in Callers \ {c} : rec'[d] = rec[d]
  <2>1. rec[c].append \in BOOLEAN
    BY <1>0 DEF Storing
  <2>2. [pc |-> "failed", append |-> rec[c].append, err |-> err] \in Rec
    BY <2>1
  <2>3. Becomes(c, [pc |-> "failed", append |-> rec[c].append, err |-> err])
    BY <1>0 DEF Fails
  <2> QED BY <2>2, <2>3
<1>3. CASE Insert(c)
  <2>1. rec[c].pc = "insert" /\ rec[c].append \in BOOLEAN /\ rec[c].index \in Turn
    BY <1>3 DEF Insert
  <2>2. CASE Duplicate(rec[c].index)
    <3>1. Fails(c, "conflict") /\ Storing(c) /\ UNCHANGED <<responses, calls, scorers>>
      BY <1>3, <2>1, <2>2 DEF Insert, Storing
    <3> QED BY <3>1, <1>0 DEF Steps
  <2>3. CASE ~Duplicate(rec[c].index)
    <3>1. [rec[c] EXCEPT !.pc = "held"]
            = [pc |-> "held", index |-> rec[c].index, append |-> rec[c].append]
      BY <2>1
    <3>2. Becomes(c, [pc |-> "held", index |-> rec[c].index, append |-> rec[c].append])
      BY <1>3, <2>3, <3>1 DEF Insert
    <3>3. /\ rec'[c] = [pc |-> "held", index |-> rec[c].index, append |-> rec[c].append]
          /\ rec' \in [Callers -> Rec]
          /\ \A d \in Callers \ {c} : rec'[d] = rec[d]
      BY <2>1, <3>2
    <3> QED BY <1>3, <2>1, <2>3, <3>3 DEF Insert, Free, Duplicate, Steps
  <2> QED BY <2>2, <2>3
<1>4. CASE Commit(c)
  <2>1. rec[c].pc = "held" /\ Storing(c) /\ rec[c].index \in Turn
    BY <1>4 DEF Commit, Storing
  <2>2. CASE Fails(c, "error")
    BY <1>4, <2>1, <2>2, <1>0 DEF Commit, Steps
  <2>3. CASE Becomes(c, [pc |-> "org", index |-> rec[c].index])
    <3>1. /\ rec'[c] = [pc |-> "org", index |-> rec[c].index]
          /\ rec' \in [Callers -> Rec]
          /\ \A d \in Callers \ {c} : rec'[d] = rec[d]
      BY <2>1, <2>3
    <3> QED BY <1>4, <2>1, <3>1 DEF Commit, Steps
  <2> QED BY <1>4, <2>2, <2>3 DEF Commit
<1>5. CASE Rollback(c)
  <2>1. Storing(c) /\ Fails(c, "error") /\ UNCHANGED <<responses, calls, scorers>>
    BY <1>5 DEF Rollback, Storing
  <2> QED BY <2>1, <1>0 DEF Steps
<1>6. CASE Answered(c)
  <2>1. rec[c].pc = "org" /\ rec[c].index \in Turn
    BY <1>6 DEF Answered
  <2>2. /\ rec'[c] = [pc |-> "done", index |-> rec[c].index]
        /\ rec' \in [Callers -> Rec]
        /\ \A d \in Callers \ {c} : rec'[d] = rec[d]
    BY <1>6, <2>1 DEF Answered
  <2>3. rec'[c].pc = "done"
    BY <2>2
  <2> QED BY <1>6, <2>1, <2>2, <2>3 DEF Answered, Steps
<1> QED BY <1>1, <1>2, <1>3, <1>4, <1>5, <1>6 DEF Proceed
-----------------------------------------------------------------------------
(* The inductive invariant *)

\* A step of any caller keeps it.
LEMMA StepKeepsIInv ==
  ASSUME IInv, NEW c \in Callers, Steps(c), rec' \in [Callers -> Rec],
         \A d \in Callers \ {c} : rec'[d] = rec[d]
  PROVE  IInv'
<1> USE DEF IInv
<1>0. /\ \A d \in Callers : rec[d].pc \in {"insert", "held", "org", "done"} => rec[d].index \in Turn
      /\ \A d \in Callers : rec[d].pc = "begin" => rec[d].index \in Nat
      /\ calls \in [Callers -> Nat]
  BY Fields DEF TypeOK
<1>1. ASSUME NEW i \in {0} \cup Explicit,
             ~Storing(c), rec[c].pc # "org",
             rec'[c] = [pc |-> "begin", index |-> i, append |-> i = 0],
             calls' = [calls EXCEPT ![c] = @ + 1],
             UNCHANGED <<responses, scorers>>
      PROVE  IInv'
  <2>1. TypeOK'
    BY <1>1 DEF TypeOK, Stored
  <2>0. rec'[c].pc = "begin" /\ Stored' = Stored
    BY <1>1 DEF Stored
  <2>2. HasLast' /\ KeyIsExclusive'
    <3>1. HasLast'
      BY <2>0 DEF HasLast
    <3> QED BY <2>0, <3>1 DEF KeyIsExclusive
  <2>3. IndexIsJustified'
    <3>1. ASSUME i = 0 PROVE rec'[c].append
      <4>1. (i = 0) = TRUE
        BY <3>1
      <4>2. rec'[c] = [pc |-> "begin", index |-> i, append |-> TRUE]
        BY <1>1, <4>1, Zenon
      <4> QED BY <4>2
    <3>2. rec'[c].append \/ rec'[c].index \in Explicit \ {0}
      <4>1. rec'[c].index = i
        BY <1>1
      <4> QED BY <3>1, <4>1
    <3> QED BY <2>0, <3>2 DEF IndexIsJustified
  <2>4. AnswersAreOfCalls'
    <3> SUFFICES ASSUME NEW t \in Stored, NEW d \in Callers, NEW n \in Nat,
                        responses[t] = <<d, n>>
                 PROVE  n <= calls'[d] /\ (Storing(d)' => n < calls'[d])
      BY <1>1 DEF AnswersAreOfCalls, Stored
    <3>1. n <= calls[d] /\ (Storing(d) => n < calls[d])
      BY DEF AnswersAreOfCalls
    <3>2. CASE d = c
      BY <1>0, <1>1, <3>1, <3>2
    <3>3. CASE d # c
      BY <1>0, <1>1, <3>1, <3>3 DEF Storing
    <3> QED BY <3>2, <3>3
  <2>5. ScorerIsDue'
    BY <1>0, <1>1 DEF ScorerIsDue, Stored
  <2>6. NoGaps' /\ OncePerAnswer'
    BY <1>1 DEF NoGaps, OncePerAnswer, StoredOnce, ScoredAtMostOnce, Stored
  <2> QED BY <2>1, <2>2, <2>3, <2>4, <2>5, <2>6
<1>2. ASSUME UNCHANGED <<responses, calls, scorers>>,
             rec'[c].pc \in {"insert", "held", "failed"}, Storing(c),
             rec'[c].pc = "held" => rec'[c].index \notin Held \cup Stored,
             rec'[c].pc \in {"insert", "held"} =>
               rec'[c].index \in Explicit \/ rec'[c].index = 1 \/ rec'[c].index - 1 \in Stored
      PROVE  IInv'
  <2>1. TypeOK'
    BY <1>2 DEF TypeOK, Stored
  <2>2. HasLast' /\ NoGaps' /\ OncePerAnswer'
    BY <1>2 DEF HasLast, NoGaps, OncePerAnswer, StoredOnce, ScoredAtMostOnce, Stored
  <2>3. KeyIsExclusive'
    <3> SUFFICES ASSUME NEW x \in Callers, rec'[x].pc = "held"
                 PROVE  /\ rec'[x].index \notin Stored
                        /\ \A y \in Callers \ {x} :
                             rec'[y].pc = "held" => rec'[y].index # rec'[x].index
      BY <1>2 DEF KeyIsExclusive, Stored
    <3>1. \A y \in Callers \ {c} : rec[y].pc = "held" => rec[y].index \in Held
      BY DEF Held
    <3>2. CASE x = c
      BY <1>2, <3>1, <3>2
    <3>3. CASE x # c
      BY <1>2, <3>1, <3>3 DEF KeyIsExclusive
    <3> QED BY <3>2, <3>3
  <2>4. IndexIsJustified'
    BY <1>2 DEF IndexIsJustified, Stored
  <2>5. AnswersAreOfCalls'
    BY <1>2 DEF AnswersAreOfCalls, Stored, Storing
  <2>6. ScorerIsDue'
    BY <1>2 DEF ScorerIsDue, Stored
  <2> QED BY <2>1, <2>2, <2>3, <2>4, <2>5, <2>6
<1>3. ASSUME rec[c].pc = "held", responses' = WithRowOf(c), UNCHANGED <<calls, scorers>>,
             rec'[c] = [pc |-> "org", index |-> rec[c].index] \/ rec'[c].pc = "failed"
      PROVE  IInv'
  <2> DEFINE i == rec[c].index
             a == <<c, calls[c]>>
  <2>1. i \in Turn \ Stored /\ calls[c] \in Nat
    BY <1>0, <1>3 DEF KeyIsExclusive
  <2>2. /\ DOMAIN responses' = Stored \cup {i}
        /\ responses'[i] = a
        /\ \A t \in Stored : responses'[t] = responses[t]
        /\ responses' \in [Stored \cup {i} -> Answer]
    BY <1>3, <2>1 DEF WithRowOf, TypeOK, Answer
  <2>3. /\ rec'[c].pc \in {"org", "failed"}
        /\ rec'[c].pc = "org" => rec'[c].index = i
    BY <1>3
  <2>4. \A t \in Stored : responses[t] # a
    BY <1>3, <2>1 DEF AnswersAreOfCalls, Storing
  <2>5. Stored' = Stored \cup {i}
    BY <2>2 DEF Stored
  <2> HIDE DEF i, a
  <2>6. TypeOK'
    BY <1>3, <2>1, <2>2, <2>5 DEF TypeOK
  <2>7. HasLast'
    <3>1. PICK m \in {0} \cup Stored : \A t \in {0} \cup Stored : m >= t
      BY DEF HasLast
    <3>2. m \in Nat /\ i \in Nat /\ Stored \subseteq Nat
      BY <2>1 DEF TypeOK, Turn
    <3>3. CASE m >= i
      BY <2>5, <3>1, <3>3 DEF HasLast
    <3>4. CASE i > m
      BY <2>5, <3>1, <3>2, <3>4 DEF HasLast
    <3> QED BY <3>2, <3>3, <3>4
  <2>8. KeyIsExclusive'
    BY <1>3, <2>3, <2>5 DEF KeyIsExclusive, i
  <2>9. IndexIsJustified'
    BY <2>3, <2>5 DEF IndexIsJustified
  <2>10. AnswersAreOfCalls'
    <3> SUFFICES ASSUME NEW t \in Stored', NEW d \in Callers, NEW n \in Nat,
                        responses'[t] = <<d, n>>
                 PROVE  n <= calls'[d] /\ (Storing(d)' => n < calls'[d])
      BY DEF AnswersAreOfCalls
    <3>1. CASE t \in Stored
      BY <1>3, <2>2, <2>3, <3>1 DEF AnswersAreOfCalls, Storing
    <3>2. CASE t = i
      <4>1. d = c /\ n = calls[c]
        BY <2>2, <3>2 DEF a
      <4> QED BY <1>3, <2>1, <2>3, <4>1 DEF Storing
    <3> QED BY <2>5, <3>1, <3>2
  <2>11. ScorerIsDue'
    <3>1. DOMAIN scorers \subseteq Stored
      BY DEF OncePerAnswer, ScoredAtMostOnce
    <3>2. ASSUME NEW d \in Callers, rec'[d].pc = "org"
          PROVE  /\ rec'[d].index \in Stored' \ DOMAIN scorers'
                 /\ responses'[rec'[d].index] = <<d, calls'[d]>>
      <4>1. CASE d = c
        BY <1>3, <2>1, <2>2, <2>3, <2>5, <3>1, <3>2, <4>1 DEF a
      <4>2. CASE d # c
        BY <1>3, <2>2, <2>5, <3>2, <4>2 DEF ScorerIsDue
      <4> QED BY <4>1, <4>2
    <3> QED BY <3>2 DEF ScorerIsDue
  <2>12. NoGaps'
    BY <1>3, <2>5 DEF NoGaps, IndexIsJustified, i
  <2>13. OncePerAnswer'
    <3>1. StoredOnce'
      BY <2>1, <2>2, <2>4, <2>5 DEF StoredOnce, OncePerAnswer
    <3>2. ScoredAtMostOnce'
      BY <1>3, <2>5 DEF ScoredAtMostOnce, OncePerAnswer
    <3> QED BY <3>1, <3>2 DEF OncePerAnswer
  <2> QED BY <2>6, <2>7, <2>8, <2>9, <2>10, <2>11, <2>12, <2>13
<1>4. ASSUME rec[c].pc = "org", rec'[c].pc = "done", UNCHANGED <<responses, calls>>,
             scorers' = StartScorer(rec[c].index) \/ UNCHANGED scorers
      PROVE  IInv'
  <2> DEFINE i == rec[c].index
  <2>1. /\ i \in Stored \ DOMAIN scorers
        /\ responses[i] = <<c, calls[c]>>
    BY <1>4 DEF ScorerIsDue
  <2>2. /\ DOMAIN scorers' \subseteq DOMAIN scorers \cup {i}
        /\ scorers' \in [DOMAIN scorers' -> Nat]
        /\ \A t \in DOMAIN scorers' : scorers'[t] <= 1
    <3>1. CASE UNCHANGED scorers
      BY <3>1 DEF TypeOK, OncePerAnswer, ScoredAtMostOnce
    <3>2. CASE scorers' = StartScorer(i)
      <4>1. scorers' = [u \in DOMAIN scorers \cup {i} |-> IF u \in DOMAIN scorers THEN scorers[u] + 0 ELSE 1]
        BY <2>1, <3>2 DEF StartScorer
      <4> HIDE DEF i
      <4>2. DOMAIN scorers' = DOMAIN scorers \cup {i}
        BY <4>1
      <4>3. ASSUME NEW t \in DOMAIN scorers' PROVE scorers'[t] \in Nat /\ scorers'[t] <= 1
        BY <4>1, <4>2 DEF TypeOK, OncePerAnswer, ScoredAtMostOnce
      <4>4. scorers' = [u \in DOMAIN scorers' |-> scorers'[u]]
        BY <4>1
      <4> QED BY <4>2, <4>3, <4>4
    <3> QED BY <1>4, <3>1, <3>2
  <2>3. Stored' = Stored
    BY <1>4 DEF Stored
  <2>4. TypeOK'
    BY <1>4, <2>1, <2>2, <2>3 DEF TypeOK
  <2>5. HasLast' /\ NoGaps'
    BY <2>3 DEF HasLast, NoGaps
  <2>6. KeyIsExclusive' /\ IndexIsJustified'
    BY <1>4, <2>3 DEF KeyIsExclusive, IndexIsJustified
  <2>7. AnswersAreOfCalls'
    BY <1>4, <2>3 DEF AnswersAreOfCalls, Storing
  <2>8. ScorerIsDue'
    <3> SUFFICES ASSUME NEW d \in Callers, rec'[d].pc = "org"
                 PROVE  /\ rec'[d].index \in Stored \ DOMAIN scorers'
                        /\ responses[rec'[d].index] = <<d, calls[d]>>
      BY <1>4, <2>3 DEF ScorerIsDue
    <3>1. d # c /\ rec'[d] = rec[d]
      BY <1>4
    <3>2. /\ rec[d].index \in Stored \ DOMAIN scorers
          /\ responses[rec[d].index] = <<d, calls[d]>>
      BY <3>1 DEF ScorerIsDue
    <3>3. rec[d].index # i
      BY <2>1, <3>1, <3>2
    <3> QED BY <2>2, <3>1, <3>2, <3>3
  <2>9. OncePerAnswer'
    BY <1>4, <2>1, <2>2, <2>3 DEF OncePerAnswer, StoredOnce, ScoredAtMostOnce
  <2> QED BY <2>4, <2>5, <2>6, <2>7, <2>8, <2>9
<1>5. ASSUME NEW i \in Turn, rec[c].pc = "begin",
             rec'[c] = [pc |-> "insert", index |-> i, append |-> rec[c].append],
             i \in Explicit \/ i = 1 \/ i - 1 \in Stored,
             UNCHANGED <<responses, calls, scorers>>
      PROVE  IInv'
  BY <1>2, <1>5 DEF Storing
<1>6. ASSUME rec[c].pc = "insert", rec[c].index \notin Held \cup Stored,
             rec'[c] = [pc |-> "held", index |-> rec[c].index, append |-> rec[c].append],
             UNCHANGED <<responses, calls, scorers>>
      PROVE  IInv'
  BY <1>2, <1>6 DEF Storing, IndexIsJustified
<1>7. ASSUME Storing(c), rec'[c].pc = "failed", UNCHANGED <<responses, calls, scorers>>
      PROVE  IInv'
  BY <1>2, <1>7
<1> HIDE DEF IInv
<1> QED BY <1>1, <1>3, <1>4, <1>5, <1>6, <1>7 DEF Steps

\* Every reachable state satisfies it.
LEMMA IInvHolds == Spec => []IInv
<1>1. Init => IInv
  <2> SUFFICES ASSUME Init PROVE IInv
    OBVIOUS
  <2>1. Stored = {} /\ DOMAIN scorers = {} /\ \A c \in Callers : rec[c] = [pc |-> "idle"]
    BY DEF Init, Stored
  <2>2. TypeOK
    BY <2>1 DEF Init, TypeOK, Rec
  <2>3. HasLast
    BY <2>1 DEF HasLast
  <2> QED BY <2>1, <2>2, <2>3 DEF IInv, KeyIsExclusive, IndexIsJustified, AnswersAreOfCalls,
             ScorerIsDue, NoGaps, OncePerAnswer, StoredOnce, ScoredAtMostOnce
<1>2. IInv /\ [Next]_vars => IInv'
  <2> SUFFICES ASSUME IInv, [Next]_vars PROVE IInv'
    OBVIOUS
  <2>1. CASE Next
    <3>1. PICK c \in Callers :
            (\E index \in {0} \cup Explicit : RecordTurn(c, index)) \/ Proceed(c) \/ Rollback(c)
      BY <2>1 DEF Next
    <3>2. /\ Steps(c)
          /\ rec' \in [Callers -> Rec]
          /\ \A d \in Callers \ {c} : rec'[d] = rec[d]
      BY <3>1, StepCases DEF IInv
    <3> QED BY <3>2, StepKeepsIInv
  <2>2. CASE UNCHANGED vars
    BY <2>2 DEF vars, IInv, TypeOK, HasLast, KeyIsExclusive, IndexIsJustified,
       AnswersAreOfCalls, ScorerIsDue, NoGaps, OncePerAnswer, StoredOnce, ScoredAtMostOnce,
       Stored, Storing
  <2> QED BY <2>1, <2>2
<1> QED BY <1>1, <1>2, PTL DEF Spec
-----------------------------------------------------------------------------
\* The rows, the calls and the scorers keep their types.
THEOREM TranscriptTypeCorrect == Spec => []TypeOK
<1>1. IInv => TypeOK
  BY DEF IInv
<1> QED BY <1>1, IInvHolds, PTL

\* However many calls race for the end of the transcript, only indexes that were
\* named leave gaps in it (response_repo.Record).
THEOREM NoGapsHolds == Spec => []NoGaps
<1>1. IInv => NoGaps
  BY DEF IInv
<1> QED BY <1>1, IInvHolds, PTL

\* An answer is stored once at most and judged once at most (record_turn).
THEOREM OncePerAnswerHolds == Spec => []OncePerAnswer
<1>1. IInv => OncePerAnswer
  BY DEF IInv
<1> QED BY <1>1, IInvHolds, PTL

\* No step rewrites or drops a stored turn: the key of a row that is committed is
\* free, because its transaction is the only one to hold it.
THEOREM AppendOnlyHolds == Spec => AppendOnly
<1> DEFINE Grows == \A t \in Stored : t \in DOMAIN responses' /\ responses'[t] = responses[t]
<1>1. IInv /\ [Next]_vars => Grows
  <2> SUFFICES ASSUME IInv, [Next]_vars PROVE Grows
    OBVIOUS
  <2>1. CASE UNCHANGED responses
    BY <2>1 DEF Stored
  <2>2. ASSUME NEW c \in Callers, Commit(c) PROVE Grows
    <3>1. rec[c].index \notin Stored /\ responses' = WithRowOf(c)
      BY <2>2 DEF Commit, IInv, KeyIsExclusive
    <3> QED BY <3>1 DEF WithRowOf
  <2> QED BY <2>1, <2>2 DEF Next, Proceed, RecordTurn, ChooseIndex, Insert, Answered, Rollback, vars
<1>2. IInv /\ [Next]_vars => [Grows]_vars
  BY <1>1
<1> QED BY <1>2, IInvHolds, PTL DEF Spec, AppendOnly
=============================================================================
