----------------------------- MODULE JoinStart -----------------------------
(***************************************************************************)
(* services/join.Start, called by the AI service for every WebSocket       *)
(* connection with a join token, on top of concurrent Advance calls.  A    *)
(* Start looks the session up once and then drives it hop by hop along     *)
(* preCallChain, trusting the state it looked up; other Starts of the same *)
(* token (two tabs, a reconnect) and recruiters run between its hops.      *)
(***************************************************************************)
EXTENDS Sessions

CONSTANTS
  Starters,   \* the callers that are executions of join.Start
  OthersWant  \* the states the other callers ask for

ASSUME StartersAssumption == Starters \subseteq Callers
ASSUME OthersWantAssumption == OthersWant \subseteq States

VARIABLE start      \* what each execution of Start is doing

joinVars == <<vars, start>>

preCallChain == <<"scheduled", "invited", "ready", "dispatched", "in_progress">>

Results == {"ok"} \cup Errors

Start ==
  [pc : {"idle"}]
  \cup [pc : {"hop", "advance"}, sess : Sessions, found : States,
          i : 1 .. Len(preCallChain)]
  \cup [pc : {"returned"}, sess : Sessions, found : States \cup {NoRow}, result : Results]

Goes(p, next) == start' = [start EXCEPT ![p] = next]

Returns(p, s, found, result) ==
  Goes(p, [pc |-> "returned", sess |-> s, found |-> found, result |-> result])

JoinInit == Init /\ start = [p \in Starters |-> [pc |-> "idle"]]

\* The position of a state in the chain; 0 for a state outside it.
ChainIndex(state) ==
  IF \E i \in 1 .. Len(preCallChain) : preCallChain[i] = state
  THEN CHOOSE i \in 1 .. Len(preCallChain) : preCallChain[i] = state
  ELSE 0

\* The session is over or not on its way to a call: Start has nothing to do.
NothingToDo(state) == IsTerminal(state) \/ ChainIndex(state) = 0

\* JoinByToken and OrgOf, and the early returns between them.  A caller has one
\* token: it starts one session, and may start it again.
Lookup(p, s) ==
  /\ \/ start[p].pc = "idle"
     \/ start[p].pc = "returned" /\ start[p].sess = s
  /\ Len(events[s]) < MaxEvents
  /\ \/ DbMayFail /\ Returns(p, s, row[s], "error")
     \/ row[s] = NoRow /\ Returns(p, s, row[s], "not found")
     \/ /\ row[s] # NoRow
        /\ IF NothingToDo(row[s])
           THEN Returns(p, s, row[s], "ok")
           ELSE Goes(p, [pc |-> "hop", sess |-> s, found |-> row[s],
                         i |-> ChainIndex(row[s])])
  /\ UNCHANGED vars

\* Seeded fault: the loop ends one hop short.
StopsShort(i) == i >= Len(preCallChain) - 1

\* The loop condition of Start fails.
AtEnd(i) == i = Len(preCallChain)

\* The next turn of the loop: return, or ask for the next hop.
Hop(p) ==
  /\ start[p].pc = "hop"
  /\ LET s == start[p].sess
         i == start[p].i
     IN  \/ /\ AtEnd(i)
            /\ Returns(p, s, start[p].found, "ok")
            /\ UNCHANGED vars
         \/ /\ ~AtEnd(i)
            /\ Begin(p, s, Owner[s], preCallChain[i + 1])
            /\ Goes(p, [start[p] EXCEPT !.pc = "advance"])

\* Seeded fault: a hop that failed is skipped instead of ending the loop.
SkipsFailedHop(p) ==
  /\ start[p].pc = "advance"
  /\ call[p].pc \in {"done", "failed"}
  /\ Goes(p, [start[p] EXCEPT !.pc = "hop", !.i = @ + 1])
  /\ UNCHANGED vars

\* Advance came back to the loop: any error ends it.
Advanced(p) ==
  /\ start[p].pc = "advance"
  /\ \/ /\ call[p].pc = "done"
        /\ Goes(p, [start[p] EXCEPT !.pc = "hop", !.i = @ + 1])
     \/ /\ call[p].pc = "failed"
        /\ Returns(p, start[p].sess, start[p].found, call[p].err)
  /\ UNCHANGED vars

\* The steps of Advance on behalf of a Start.
StartStep(p) ==
  \/ Hop(p)
  \/ Advanced(p)
  \/ (CurrentState(p) \/ ApplyTransition(p) \/ Get(p)) /\ UNCHANGED start

\* Everyone else who moves sessions.
OthersStep ==
  /\ \/ \E s \in Sessions : Schedule(s)
     \/ \E c \in Callers \ Starters :
          \/ \E s \in Sessions, o \in Orgs, to \in OthersWant : Advance(c, s, o, to)
          \/ CurrentState(c) \/ ApplyTransition(c) \/ Get(c)
  /\ UNCHANGED start

JoinNext ==
  \/ OthersStep
  \/ \E p \in Starters : StartStep(p) \/ \E s \in Sessions : Lookup(p, s)

JoinSpec == JoinInit /\ [][JoinNext]_joinVars
-----------------------------------------------------------------------------
JoinTypeOK == TypeOK /\ start \in [Starters -> Start]

Running(p) == start[p].pc \in {"hop", "advance"}

\* However many Starts race for one session, they do not all lose: when none is
\* under way any more, nobody else has moved the session and none was stopped by
\* the database, a session that was found on its way to the call is in progress.
RaceReachesInProgress ==
  \A s \in Sessions :
    (/\ \A p \in Starters : ~Running(p)
     /\ \A p \in Starters : start[p].pc = "returned" => start[p].result # "error"
     /\ \E p \in Starters : /\ start[p].pc = "returned"
                            /\ start[p].sess = s
                            /\ start[p].found # NoRow
     /\ \A n \in 1 .. Len(events[s]) : events[s][n].actor \in Starters)
      => row[s] = "in_progress"

\* A Start that found the session on its way to the call and reports success
\* has the session's arrival at "in_progress" in the audit log, whoever else
\* moved it: success is never reported for a session left short of the call.
OkMeansArrived ==
  \A p \in Starters :
    start[p].pc = "returned" /\ start[p].result = "ok" /\ ChainIndex(start[p].found) # 0
      => \E n \in 1 .. Len(events[start[p].sess]) :
           events[start[p].sess][n].to = "in_progress"
=============================================================================
