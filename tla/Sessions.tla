------------------------------ MODULE Sessions ------------------------------
(***************************************************************************)
(* services/sessions.Advance over repositories/postgres/interview_repo.    *)
(*                                                                         *)
(* Every state change of an interview session goes through Advance, called *)
(* at the same time by recruiters (POST /interviews/{id}/advance), by the  *)
(* AI service (the advance_state tool and join.Start) and by the scoring   *)
(* service.  A call reads the row, validates the edge on what it read,     *)
(* applies it with a compare-and-swap transaction that also writes an      *)
(* audit event, and re-reads the row for its answer.  Each database round  *)
(* trip is one step here and other callers run between them.               *)
(***************************************************************************)
EXTENDS Naturals, Sequences, SessionGraph

CONSTANTS
  Sessions,   \* ids of interview_sessions rows
  Orgs,       \* organizations
  Owner,      \* Owner[s]: org_id of row s
  Callers,    \* concurrent executions of Advance
  Unknown,    \* a target that is not the name of a state
  DbMayFail,  \* whether database round trips may fail
  MaxEvents   \* bound: a call starts only below this many audit events

ASSUME OwnerAssumption == Owner \in [Sessions -> Orgs]
ASSUME UnknownAssumption == Unknown \notin States
ASSUME DbMayFailAssumption == DbMayFail \in BOOLEAN
ASSUME MaxEventsAssumption == MaxEvents \in Nat

VARIABLES
  row,     \* interview_sessions.state, or NoRow
  events,  \* session_state_events of a session, in commit order
  call,    \* what each execution of Advance is doing
  spawned  \* ScoreOverall goroutines started for a session

vars == <<row, events, call, spawned>>

NoRow == "no row"

\* The actor of an event is the caller that moved the session.
Event == [from : States, to : States, org : Orgs, actor : Callers]

Errors == {"invalid", "not found", "conflict", "changed", "error"}

Call ==
  [pc : {"idle"}]
  \cup [pc : {"read"}, sess : Sessions, org : Orgs, to : States]
  \cup [pc : {"apply"}, sess : Sessions, org : Orgs, to : States, cur : States]
  \cup [pc : {"reload"}, sess : Sessions, org : Orgs, to : States, at : Nat]
  \cup [pc : {"failed"}, err : Errors]
  \cup [pc : {"done"}, sess : Sessions, to : States, at : Nat, seen : States]

Idle(c) == call[c].pc \in {"idle", "failed", "done"}

Becomes(c, next) == call' = [call EXCEPT ![c] = next]

Fail(c, err) == Becomes(c, [pc |-> "failed", err |-> err])

\* A round trip that fails, or whose answer is lost.
DbError(c) == DbMayFail /\ Fail(c, "error")

Init ==
  /\ row = [s \in Sessions |-> NoRow]
  /\ events = [s \in Sessions |-> << >>]
  /\ call = [c \in Callers |-> [pc |-> "idle"]]
  /\ spawned = [s \in Sessions |-> 0]

\* InterviewRepo.Schedule: a new row starts in "scheduled".
Schedule(s) ==
  /\ row[s] = NoRow
  /\ row' = [row EXCEPT ![s] = "scheduled"]
  /\ UNCHANGED <<events, call, spawned>>

\* The caller names a session, an org (its own, or the session's through
\* OrgOf) and a target; a target that is no state is refused unread.
Begin(c, s, o, to) ==
  /\ IF Has(to)
     THEN Becomes(c, [pc |-> "read", sess |-> s, org |-> o, to |-> to])
     ELSE Fail(c, "invalid")
  /\ UNCHANGED <<row, events, spawned>>

\* Callers that are idle call, up to the bound.
Advance(c, s, o, to) == Idle(c) /\ Len(events[s]) < MaxEvents /\ Begin(c, s, o, to)

\* Seeded fault: the WHERE clause forgets org_id.
VisibleInAnyOrg(o, s) == row[s] # NoRow

\* WHERE org_id = $1 AND id = $2 finds the row.
Visible(o, s) == row[s] # NoRow /\ Owner[s] = o

\* CurrentState and the validation of the edge on the state just read.
CurrentState(c) ==
  /\ call[c].pc = "read"
  /\ LET s == call[c].sess
         verdict == Validate(row[s], call[c].to)
     IN  \/ DbError(c)
         \/ ~Visible(call[c].org, s) /\ Fail(c, "not found")
         \/ /\ Visible(call[c].org, s)
            /\ \/ verdict = "unknown" /\ Fail(c, "invalid")
               \/ verdict \in {"terminal", "illegal"} /\ Fail(c, "conflict")
               \/ /\ verdict = "ok"
                  /\ Becomes(c, [pc |-> "apply", sess |-> s, org |-> call[c].org,
                                 to |-> call[c].to, cur |-> row[s]])
  /\ UNCHANGED <<row, events, spawned>>

\* Seeded fault: UPDATE without "AND state = $3".
AnyState(c) == TRUE

\* The compare of the compare-and-swap: the row is still as it was read.
StillAsRead(c) == row[call[c].sess] = call[c].cur

\* Seeded fault: the event is not part of the transaction.
UpdateOnly(c) ==
  LET s == call[c].sess IN
  /\ row' = [row EXCEPT ![s] = call[c].to]
  /\ UNCHANGED events

\* The UPDATE and the INSERT of the audit event, committed together.
Commit(c) ==
  LET s == call[c].sess IN
  /\ row' = [row EXCEPT ![s] = call[c].to]
  /\ events' = [events EXCEPT ![s] =
       Append(@, [from |-> call[c].cur, to |-> call[c].to,
                  org |-> call[c].org, actor |-> c])]

\* Seeded fault: the trigger is keyed on the state scoring ends in too.
TriggersTwice(to) == to \in {"scoring", "scored"}

\* toState == "scoring" && s.scorer != nil.
TriggersScoring(to) == to = "scoring"

\* ApplyTransition and what Advance does with its result.  The connection may
\* fail before the commit, or after it and before the answer: the row then has
\* moved, but the caller sees an error and no scorer is started.
ApplyTransition(c) ==
  /\ call[c].pc = "apply"
  /\ LET s == call[c].sess IN
     \/ /\ \/ DbError(c)
           \/ ~Visible(call[c].org, s) /\ Fail(c, "not found")
           \/ Visible(call[c].org, s) /\ ~StillAsRead(c) /\ Fail(c, "changed")
        /\ UNCHANGED <<row, events, spawned>>
     \/ /\ Visible(call[c].org, s)
        /\ StillAsRead(c)
        /\ Commit(c)
        /\ \/ DbError(c) /\ UNCHANGED spawned
           \/ /\ Becomes(c, [pc |-> "reload", sess |-> s, org |-> call[c].org,
                             to |-> call[c].to, at |-> Len(events[s]) + 1])
              /\ spawned' = [spawned EXCEPT ![s] =
                   IF TriggersScoring(call[c].to) THEN @ + 1 ELSE @]

\* The closing repo.Get: the caller is answered with the row as it is by now.
Get(c) ==
  /\ call[c].pc = "reload"
  /\ LET s == call[c].sess IN
     \/ DbError(c)
     \/ ~Visible(call[c].org, s) /\ Fail(c, "not found")
     \/ /\ Visible(call[c].org, s)
        /\ Becomes(c, [pc |-> "done", sess |-> s, to |-> call[c].to,
                       at |-> call[c].at, seen |-> row[s]])
  /\ UNCHANGED <<row, events, spawned>>

Next ==
  \/ \E s \in Sessions : Schedule(s)
  \/ \E c \in Callers, s \in Sessions, o \in Orgs, to \in States \cup {Unknown} :
       Advance(c, s, o, to)
  \/ \E c \in Callers : CurrentState(c) \/ ApplyTransition(c) \/ Get(c)

Spec == Init /\ [][Next]_vars
-----------------------------------------------------------------------------
TypeOK ==
  /\ row \in [Sessions -> States \cup {NoRow}]
  /\ events \in [Sessions -> Seq(Event)]
  /\ call \in [Callers -> Call]
  /\ spawned \in [Sessions -> Nat]

\* The state a session is in after its first n audit events.
After(s, n) == IF n = 0 THEN "scheduled" ELSE events[s][n].to

\* The audit log is a legal path of the graph from "scheduled" to the state in
\* the row: no two callers' moves are lost, merged or written from a stale
\* read (ApplyTransition's compare-and-swap and its transaction).
AuditChain ==
  \A s \in Sessions :
    /\ row[s] = NoRow => events[s] = << >>
    /\ row[s] # NoRow => row[s] = After(s, Len(events[s]))
    /\ \A n \in 1 .. Len(events[s]) :
         /\ events[s][n].from = After(s, n - 1)
         /\ <<events[s][n].from, events[s][n].to>> \in Edges

\* A session is moved only by callers of the organization that owns it (the
\* org_id condition in CurrentState and ApplyTransition).
OwnOrgOnly ==
  \A s \in Sessions : \A n \in 1 .. Len(events[s]) : events[s][n].org = Owner[s]

\* Overall scoring is started at most once in a session's life and only after
\* the session entered scoring: the graph has no way back to "scoring".
ScoringStartsOnce ==
  \A s \in Sessions :
    /\ spawned[s] <= 1
    /\ spawned[s] = 1 => row[s] \in ScoringOrLater

\* A caller answered with success finds its own move in the audit log, and the
\* state it was shown is that of its move or of a later one.
AnswerIsNotStale ==
  \A c \in Callers : call[c].pc = "done" =>
    LET s == call[c].sess IN
    /\ call[c].at \in 1 .. Len(events[s])
    /\ events[s][call[c].at].to = call[c].to
    /\ \E n \in call[c].at .. Len(events[s]) : call[c].seen = events[s][n].to

\* Whatever a caller validated before, a session that is terminal stays where
\* it is and its audit log is closed.
TerminalIsFinal ==
  [][\A s \in Sessions : row[s] \in Terminal =>
       row'[s] = row[s] /\ events'[s] = events[s]]_vars

\* The states each session has been in, read off the audit log.
History ==
  [s \in Sessions |->
    IF row[s] = NoRow THEN << >>
    ELSE [n \in 1 .. Len(events[s]) + 1 |-> After(s, n - 1)]]

Authority == INSTANCE SessionAuthority WITH history <- History

\* Concurrent callers together implement the abstract authority.
ImplementsAuthority == Authority!Spec
=============================================================================
