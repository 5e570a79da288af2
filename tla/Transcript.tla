----------------------------- MODULE Transcript -----------------------------
(***************************************************************************)
(* The record_turn tool (mcp/tools.go) over response_repo.Record, for one  *)
(* session: calls of several connections store turns in the responses      *)
(* table at the same time, at read-committed isolation.  A caller that     *)
(* names no index appends after the last turn it can see; UNIQUE           *)
(* (session_id, turn_index) decides between two callers that chose the     *)
(* same index.  A stored turn is handed to a scoring goroutine.            *)
(***************************************************************************)
EXTENDS Naturals, FiniteSets, FiniteSetsExt

CONSTANTS
  Callers,    \* connections calling record_turn
  Explicit,   \* turn indexes a caller may name; 0 asks for an append
  DbMayFail,  \* whether database round trips may fail
  MaxCalls    \* bound: calls one caller makes

ASSUME ExplicitAssumption == Explicit \subseteq Nat
ASSUME DbMayFailAssumption == DbMayFail \in BOOLEAN
ASSUME MaxCallsAssumption == MaxCalls \in Nat

VARIABLES
  responses,  \* committed rows: turn_index -> the call whose answer it holds
  rec,        \* what each caller's record_turn is doing
  calls,      \* number of calls each caller has made: names its answers
  scorers     \* turns a ScoreTurn goroutine was started for, one per start

vars == <<responses, rec, calls, scorers>>

Turn == Nat \ {0}

\* The n-th answer of a caller.
Answer == Callers \X Nat

Stored == DOMAIN responses

Rec ==
  [pc : {"idle"}]
  \cup [pc : {"begin"}, index : Nat, append : BOOLEAN]
  \cup [pc : {"insert", "held"}, index : Turn, append : BOOLEAN]
  \cup [pc : {"org", "done"}, index : Turn]
  \cup [pc : {"failed"}, append : BOOLEAN, err : {"conflict", "error"}]

Becomes(c, next) == rec' = [rec EXCEPT ![c] = next]

Init ==
  /\ responses = << >>
  /\ rec = [c \in Callers |-> [pc |-> "idle"]]
  /\ calls = [c \in Callers |-> 0]
  /\ scorers = [t \in {} |-> 0]

\* record_turn is called with a turn_index, or 0 when it is omitted.
RecordTurn(c, index) ==
  /\ rec[c].pc \in {"idle", "done", "failed"}
  /\ calls[c] < MaxCalls
  /\ Becomes(c, [pc |-> "begin", index |-> index, append |-> index = 0])
  /\ calls' = [calls EXCEPT ![c] = @ + 1]
  /\ UNCHANGED <<responses, scorers>>

\* Indexes inserted by transactions that have not ended.
Held == {rec[c].index : c \in {d \in Callers : rec[d].pc = "held"}}

\* Seeded fault: the maximum is read over uncommitted rows too.
NextIndexDirty == 1 + Max({0} \cup Stored \cup Held)

\* SELECT coalesce(max(turn_index), 0) + 1, over the committed rows.
NextIndex == 1 + Max({0} \cup Stored)

\* The transaction begins and picks its index.
ChooseIndex(c) ==
  /\ rec[c].pc = "begin"
  /\ Becomes(c, [pc |-> "insert", append |-> rec[c].append,
                  index |-> IF rec[c].append THEN NextIndex ELSE rec[c].index])
  /\ UNCHANGED <<responses, calls, scorers>>

\* Seeded fault: a key is waited for after its transaction has ended, too.
FreeOnlyIfNew(index) == index \notin Held \cup Stored

\* The unique index lets an insert proceed only when no other transaction
\* holds the same key; with one still open it waits.
Free(index) == index \notin Held

Fails(c, err) ==
  Becomes(c, [pc |-> "failed", append |-> rec[c].append, err |-> err])

\* Seeded fault: a duplicate key is not looked for.
Never(index) == FALSE

Duplicate(index) == index \in Stored

\* go ScoreTurn(...) for turn t.
StartScorer(t) ==
  [u \in DOMAIN scorers \cup {t} |->
     (IF u \in DOMAIN scorers THEN scorers[u] ELSE 0) + (IF u = t THEN 1 ELSE 0)]

\* INSERT ... RETURNING turn_index.
Insert(c) ==
  /\ rec[c].pc = "insert"
  /\ Free(rec[c].index)
  /\ IF Duplicate(rec[c].index)
     THEN Fails(c, "conflict")
     ELSE Becomes(c, [rec[c] EXCEPT !.pc = "held"])
  /\ UNCHANGED <<responses, calls, scorers>>

\* The rows once the open transaction of caller c is committed.
WithRowOf(c) ==
  [t \in Stored \cup {rec[c].index} |->
     IF t = rec[c].index THEN <<c, calls[c]>> ELSE responses[t]]

\* Seeded fault: a commit whose answer is lost is run again.
CommitRetried(c) ==
  /\ rec[c].pc = "held"
  /\ responses' = WithRowOf(c)
  /\ \/ Becomes(c, [pc |-> "org", index |-> rec[c].index])
     \/ DbMayFail /\ Becomes(c, [pc |-> "begin", index |-> 0, append |-> TRUE])
  /\ UNCHANGED <<calls, scorers>>

\* COMMIT; its answer may be lost after it took effect.
Commit(c) ==
  /\ rec[c].pc = "held"
  /\ responses' = WithRowOf(c)
  /\ \/ Becomes(c, [pc |-> "org", index |-> rec[c].index])
     \/ DbMayFail /\ Fails(c, "error")
  /\ UNCHANGED <<calls, scorers>>

\* A round trip fails, from the first OrgOf to the INSERT: the deferred
\* Rollback ends the transaction, if it has begun.
Rollback(c) ==
  /\ DbMayFail
  /\ rec[c].pc \in {"begin", "insert", "held"}
  /\ Fails(c, "error")
  /\ UNCHANGED <<responses, calls, scorers>>

\* The second OrgOf: when it fails the turn stays unscored, in silence.
Answered(c) ==
  /\ rec[c].pc = "org"
  /\ Becomes(c, [pc |-> "done", index |-> rec[c].index])
  /\ \/ scorers' = StartScorer(rec[c].index)
     \/ DbMayFail /\ UNCHANGED scorers
  /\ UNCHANGED <<responses, calls>>

\* What a call does when nothing fails.
Proceed(c) == ChooseIndex(c) \/ Insert(c) \/ Commit(c) \/ Answered(c)

Next ==
  \E c \in Callers :
    \/ \E index \in {0} \cup Explicit : RecordTurn(c, index)
    \/ Proceed(c) \/ Rollback(c)

\* A call that has begun is run to its end: the handler runs on its own
\* goroutine and the database serves every statement.  No call relies on a
\* failure to get on.
Fairness == \A c \in Callers : WF_vars(Proceed(c))

Spec == Init /\ [][Next]_vars /\ Fairness
-----------------------------------------------------------------------------
TypeOK ==
  /\ Stored \subseteq Turn
  /\ responses \in [Stored -> Answer]
  /\ rec \in [Callers -> Rec]
  /\ calls \in [Callers -> Nat]
  /\ DOMAIN scorers \subseteq Turn /\ scorers \in [DOMAIN scorers -> Nat]

\* Only named indexes leave gaps: a turn that was appended follows a stored one,
\* whatever commits, aborts and waits lie between its SELECT and its INSERT
\* (Record's max + 1 and the unique key).
NoGaps == \A t \in Stored : t \in Explicit \/ t = 1 \/ t - 1 \in Stored

\* No two turns hold the same answer.
StoredOnce ==
  \A t, u \in Stored : responses[t] = responses[u] => t = u

\* Only stored turns have ScoreTurn goroutines, and one at most.
ScoredAtMostOnce ==
  /\ DOMAIN scorers \subseteq Stored
  /\ \A t \in DOMAIN scorers : scorers[t] <= 1

\* However its call was answered, an answer is stored at most once, and judged
\* at most once, after its turn was committed.
OncePerAnswer == StoredOnce /\ ScoredAtMostOnce

\* The transcript is append-only: no later call rewrites or drops a turn.
AppendOnly ==
  [][\A t \in Stored : t \in DOMAIN responses' /\ responses'[t] = responses[t]]_vars

\* Callers waiting for each other's key are all answered in the end.
EveryCallAnswers ==
  \A c \in Callers :
    (rec[c].pc \in {"begin", "insert", "held", "org"})
      ~> (rec[c].pc \in {"done", "failed"})

=============================================================================
