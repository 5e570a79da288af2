------------------------------- MODULE Visits -------------------------------
(***************************************************************************)
(* One interview as its candidate meets it: the call page in one or more   *)
(* browser tabs, which polls join.Status and connects to the AI service;   *)
(* session.py, which resolves the token, has join.Start move the session   *)
(* and runs the call; the wrap-up that hands the session to scoring.       *)
(* Recruiters and the clock go on meanwhile.                               *)
(*                                                                         *)
(* A move of the session is one step here, legal by the graph or an error, *)
(* which ImplementsAuthority of Sessions justifies; the handling of single *)
(* answers is in Interviewer, the storing of turns in Transcript.          *)
(***************************************************************************)
EXTENDS Naturals, Sequences, SessionGraph

CONSTANTS
  Tabs,         \* browser tabs that have the call page open
  Conns,        \* WebSocket connections, each used once
  ScheduledAt,  \* interview_sessions.scheduled_at
  Grace,        \* how long after it a candidate is still on time
  MaxTime,      \* bound: the clock
  MaxPresses,   \* bound: presses of "End interview" not yet through in a tab
  OthersWant,   \* states recruiters ask for
  MayFail       \* whether round trips may fail, or their answers get lost

ASSUME TimesAssumption == ScheduledAt \in Nat /\ Grace \in Nat /\ MaxTime \in Nat
ASSUME PressesAssumption == MaxPresses \in Nat
ASSUME OthersWantAssumption == OthersWant \subseteq States
ASSUME MayFailAssumption == MayFail \in BOOLEAN

VARIABLES
  now,    \* the server's clock
  state,  \* interview_sessions.state
  tab,    \* the call page in each tab
  conn,   \* the connections
  upset   \* ghost: what has come between the candidate and the score

vars == <<now, state, tab, conn, upset>>

None == "none"

Phases == {"before", "open", "late", "closed"}

\* data and error are what useQuery holds of the last poll, read what the server
\* has read for the poll under way; ui is the phase of useCall, mic tells that
\* it waits for the microphone, ref is its clientRef, and ending counts the calls
\* of end that wait for their client to disconnect.
Page ==
  [data : Phases \cup {None}, error : BOOLEAN, read : SUBSET BOOLEAN,
   ui : {"lobby", "connecting", "live", "ended", "error"}, mic : BOOLEAN,
   ref : Conns \cup {None}, ending : 0 .. MaxPresses]

\* started: join.Start answered with success; finished: the wrap-up was reached;
\* client: the connection as the client sees it ("gone": it knows it is over).
Connection ==
  [pc : {"unused", "resolve", "start", "accept", "assemble", "talk", "completed",
         "scoring", "over", "refused", "unverified"},
   of : Tabs \cup {None}, read : SUBSET BOOLEAN, hop : 0 .. 5, started : BOOLEAN,
   finished : BOOLEAN, client : {"connecting", "connected", "hanging up", "gone"}]

FreshPage ==
  [data |-> None, error |-> FALSE, read |-> {}, ui |-> "lobby", mic |-> FALSE,
   ref |-> None, ending |-> 0]

Unused ==
  [pc |-> "unused", of |-> None, read |-> {}, hop |-> 0, started |-> FALSE,
   finished |-> FALSE, client |-> "connecting"]

Init ==
  /\ now = 0
  /\ state = "scheduled"
  /\ tab = [t \in Tabs |-> FreshPage]
  /\ conn = [k \in Conns |-> Unused]
  /\ upset = {}

Tick ==
  /\ now < MaxTime
  /\ now' = now + 1
  /\ UNCHANGED <<state, tab, conn, upset>>

-----------------------------------------------------------------------------
\* The session and those who move it

\* Seeded fault: interviews that left the way to the call count as ended.
OffTheChain(row) == row \notin {"scheduled", "invited", "ready", "dispatched", "in_progress"}

\* JoinByToken, of which Status looks at is_terminal only.
JoinByToken(row) == IsTerminal(row)

\* join.Status: the phase of a row read earlier, at the time of the answer.
Phase(ended, at) ==
  CASE ended -> "closed"
    [] ~ended /\ at < ScheduledAt -> "before"
    [] ~ended /\ at >= ScheduledAt /\ at < ScheduledAt + Grace -> "open"
    [] OTHER -> "late"

\* Advance succeeds, or fails without effect, or with its effect in place.
Moves(to) == Validate(state, to) = "ok" /\ state' = to
CannotMove(to) == Validate(state, to) # "ok" /\ UNCHANGED state
MoveFails(to) == MayFail /\ (Moves(to) \/ UNCHANGED state)

\* A recruiter moves the session.
Recruiter(to) ==
  /\ to \in OthersWant
  /\ Moves(to)
  /\ upset' = upset \cup {"recruiter"}
  /\ UNCHANGED <<now, tab, conn>>

\* The scoring service is done with the session.
Scored ==
  /\ state = "scoring"
  /\ Moves("scored")
  /\ UNCHANGED <<now, tab, conn, upset>>

-----------------------------------------------------------------------------
\* The page: polling, the buttons, the callbacks of the client

SetTab(t, page) == tab' = [tab EXCEPT ![t] = page]
SetConn(k, c) == conn' = [conn EXCEPT ![k] = c]

\* A poll reaches the server, which reads the row by its token.
Poll(t) ==
  /\ tab[t].read = {}
  /\ SetTab(t, [tab[t] EXCEPT !.read = {JoinByToken(state)}])
  /\ UNCHANGED <<now, state, conn, upset>>

\* The poll is answered, with the phase at this moment or with an error.
Status(t) ==
  LET p == tab[t] IN
  /\ p.read # {}
  /\ \/ \E ended \in p.read :
          SetTab(t, [p EXCEPT !.read = {}, !.error = FALSE, !.data = Phase(ended, now)])
     \/ MayFail /\ SetTab(t, [p EXCEPT !.read = {}, !.error = TRUE])
  /\ UNCHANGED <<now, state, conn, upset>>

\* What the page shows: an error of the last poll and a closed interview cover
\* the call, which goes on behind them.
View(t) ==
  CASE tab[t].error \/ tab[t].data = None -> "invalid"
    [] ~tab[t].error /\ tab[t].data = "closed" -> "closed"
    [] OTHER -> tab[t].ui

\* "Start interview" and "Try again": useCall.start asks for the microphone.
Start(t) ==
  /\ View(t) \in {"lobby", "error"}
  /\ SetTab(t, [tab[t] EXCEPT !.ui = "connecting", !.mic = TRUE])
  /\ UNCHANGED <<now, state, conn, upset>>

\* The permission is given, however late, and a new client connects; or refused.
Microphone(t) ==
  /\ tab[t].mic
  /\ \/ /\ SetTab(t, [tab[t] EXCEPT !.mic = FALSE, !.ui = "error"])
        /\ UNCHANGED conn
     \/ \E k \in Conns :
          /\ conn[k].pc = "unused"
          /\ SetConn(k, [conn[k] EXCEPT !.pc = "resolve", !.of = t])
          /\ SetTab(t, [tab[t] EXCEPT !.mic = FALSE, !.ref = k])
  /\ UNCHANGED <<now, state, upset>>

\* The page disconnects the client it refers to, if there is one.
HangUp(k) == [conn[k] EXCEPT !.client = IF @ = "gone" THEN @ ELSE "hanging up"]

\* "End interview": useCall.end asks its client to disconnect, and waits for it;
\* the page goes on showing the call.
End(t) ==
  /\ View(t) \in {"connecting", "live"}
  /\ tab[t].ending < MaxPresses
  /\ SetTab(t, [tab[t] EXCEPT !.ending = @ + 1])
  /\ IF tab[t].ref = None THEN UNCHANGED conn ELSE SetConn(tab[t].ref, HangUp(tab[t].ref))
  /\ UNCHANGED <<now, state, upset>>

\* disconnect() resolves or rejects, before onDisconnected or after it, and
\* whatever the page has come to show meanwhile.
EndDone(t) ==
  /\ tab[t].ending > 0
  /\ SetTab(t, [tab[t] EXCEPT !.ending = @ - 1, !.ui = "ended"])
  /\ UNCHANGED <<now, state, conn, upset>>

\* The tab is closed or loaded again: all its connections break.
Reload(t) ==
  /\ SetTab(t, FreshPage)
  /\ conn' = [k \in Conns |->
       IF conn[k].of = t THEN [conn[k] EXCEPT !.client = "gone"] ELSE conn[k]]
  /\ UNCHANGED <<now, state, upset>>

\* The socket is open for the server.
Open(k) == conn[k].pc \in {"assemble", "talk", "completed", "scoring"}

\* onConnected.
OnConnected(k) ==
  /\ Open(k) /\ conn[k].client = "connecting"
  /\ SetConn(k, [conn[k] EXCEPT !.client = "connected"])
  /\ SetTab(conn[k].of, [tab[conn[k].of] EXCEPT !.ui = "live"])
  /\ UNCHANGED <<now, state, upset>>

\* Seeded fault: nothing listens to the end of the connection.
StayLive(p) == p

\* onDisconnected.
Ended(p) == [p EXCEPT !.ui = "ended"]

\* The client learns that its connection is over: onDisconnected after it was
\* connected, an error of connect() before.
OnClosed(k) ==
  /\ \/ conn[k].pc \in {"over", "refused", "unverified"} /\ conn[k].client # "gone"
     \/ conn[k].client = "hanging up"
  /\ SetConn(k, [conn[k] EXCEPT !.client = "gone"])
  /\ SetTab(conn[k].of,
       IF conn[k].client = "connecting" THEN [tab[conn[k].of] EXCEPT !.ui = "error"]
       ELSE Ended(tab[conn[k].of]))
  /\ UNCHANGED <<now, state, upset>>

\* onError: the client stays connected.
OnError(k) ==
  /\ MayFail
  /\ conn[k].client = "connected"
  /\ SetTab(conn[k].of, [tab[conn[k].of] EXCEPT !.ui = "error"])
  /\ UNCHANGED <<now, state, conn, upset>>

-----------------------------------------------------------------------------
\* The AI service: one connection

preCallChain == <<"scheduled", "invited", "ready", "dispatched", "in_progress">>

\* resolve_token, with the token a page always sends: Status once more, and the
\* refusals of session.py.
ResolveSession(k) ==
  LET c == conn[k] IN
  /\ c.pc = "resolve"
  /\ \/ c.read = {} /\ SetConn(k, [c EXCEPT !.read = {JoinByToken(state)}])
     \/ \E ended \in c.read :
          SetConn(k, [c EXCEPT !.read = {}, !.pc =
            IF Phase(ended, now) = "closed" THEN "refused" ELSE "start"])
  /\ UNCHANGED <<now, state, tab, upset>>

\* The backend does not answer: the connection is closed, "could not verify".
ResolveFails(k) ==
  /\ MayFail
  /\ conn[k].pc = "resolve"
  /\ SetConn(k, [conn[k] EXCEPT !.pc = "unverified", !.read = {}])
  /\ UNCHANGED <<now, state, tab, upset>>

\* join.Start answers; session.py accepts the socket whatever it says.
StartAnswers(c, ok) == [c EXCEPT !.pc = "accept", !.started = ok, !.hop = 0]

\* join.Start looks the session up and finds it on its way to the call, or has
\* nothing to do.
StartLookup(k) ==
  LET c == conn[k] IN
  /\ c.pc = "start" /\ c.hop = 0
  /\ \/ \E i \in 1 .. Len(preCallChain) :
          /\ preCallChain[i] = state
          /\ SetConn(k, [c EXCEPT !.hop = i])
     \/ /\ \A i \in 1 .. Len(preCallChain) : preCallChain[i] # state
        /\ SetConn(k, StartAnswers(c, TRUE))
     \/ MayFail /\ SetConn(k, StartAnswers(c, FALSE))
  /\ UNCHANGED <<now, state, tab, upset>>

\* Seeded fault: the loop ends one hop short.
StopsShort(i) == i >= Len(preCallChain) - 1

\* The loop condition of Start fails.
AtEnd(i) == i = Len(preCallChain)

\* One turn of the loop in Start; an error ends it, as does a caller that has
\* waited too long.
StartHop(k) ==
  LET c == conn[k] IN
  /\ c.pc = "start" /\ c.hop > 0
  /\ \/ AtEnd(c.hop) /\ SetConn(k, StartAnswers(c, TRUE)) /\ UNCHANGED state
     \/ /\ ~AtEnd(c.hop)
        /\ \/ Moves(preCallChain[c.hop + 1]) /\ SetConn(k, [c EXCEPT !.hop = @ + 1])
           \/ CannotMove(preCallChain[c.hop + 1]) /\ SetConn(k, StartAnswers(c, FALSE))
           \/ MoveFails(preCallChain[c.hop + 1]) /\ SetConn(k, StartAnswers(c, FALSE))
  /\ UNCHANGED <<now, tab, upset>>

\* The socket is accepted.
Accept(k) ==
  /\ conn[k].pc = "accept"
  /\ SetConn(k, [conn[k] EXCEPT !.pc = "assemble"])
  /\ UNCHANGED <<now, state, tab, upset>>

\* build_session_pipeline asks get_interview_plan and generates the questions; an
\* error ends the connection.
Assemble(k) ==
  /\ conn[k].pc = "assemble"
  /\ \/ SetConn(k, [conn[k] EXCEPT !.pc = "talk"])
     \/ MayFail /\ SetConn(k, [conn[k] EXCEPT !.pc = "over"])
  /\ UNCHANGED <<now, state, tab, upset>>

\* The client hung up: the framework ends the pipeline.  During the wrap-up that
\* cancels the tool call under way, which may or may not have had its effect.
PipelineEnds(k) ==
  LET c == conn[k] IN
  /\ Open(k) /\ c.client \in {"hanging up", "gone"}
  /\ SetConn(k, [c EXCEPT !.pc = "over"])
  /\ IF c.pc \in {"completed", "scoring"}
     THEN /\ upset' = upset \cup {"wrap-up"}
          /\ Moves(c.pc) \/ UNCHANGED state
     ELSE UNCHANGED <<state, upset>>
  /\ UNCHANGED <<now, tab>>

\* The last question is answered, or the time is up: the wrap-up begins.
WrapUp(k) ==
  /\ conn[k].pc = "talk"
  /\ SetConn(k, [conn[k] EXCEPT !.pc = "completed", !.finished = TRUE])
  /\ UNCHANGED <<now, state, tab, upset>>

\* Seeded fault: a wrap-up that leaves the hand-over to somebody else.
OnlyCompletes(to) == "over"

\* What the wrap-up does after it has moved the session.
AfterAdvance(to) == IF to = "completed" THEN "scoring" ELSE "over"

\* advance_state to completed, then to scoring; the first error ends the wrap-up,
\* and the call.
AdvanceState(k) ==
  LET c == conn[k] IN
  /\ c.pc \in {"completed", "scoring"}
  /\ \/ /\ Moves(c.pc)
        /\ SetConn(k, [c EXCEPT !.pc = AfterAdvance(c.pc)])
        /\ UNCHANGED upset
     \/ /\ CannotMove(c.pc)
        /\ SetConn(k, [c EXCEPT !.pc = "over"])
        /\ UNCHANGED upset
     \/ /\ MoveFails(c.pc)
        /\ SetConn(k, [c EXCEPT !.pc = "over"])
        /\ upset' = upset \cup {"wrap-up"}
  /\ UNCHANGED <<now, tab>>

-----------------------------------------------------------------------------
PageStep(t) ==
  \/ Poll(t) \/ Status(t) \/ Start(t) \/ Microphone(t) \/ End(t) \/ EndDone(t)
  \/ Reload(t)

ClientStep(k) == OnConnected(k) \/ OnClosed(k) \/ OnError(k)

ServiceStep(k) ==
  \/ ResolveSession(k) \/ ResolveFails(k) \/ StartLookup(k) \/ StartHop(k)
  \/ Accept(k) \/ Assemble(k) \/ WrapUp(k) \/ AdvanceState(k) \/ PipelineEnds(k)

Next ==
  \/ Tick
  \/ \E to \in OthersWant : Recruiter(to)
  \/ Scored
  \/ \E t \in Tabs : PageStep(t)
  \/ \E k \in Conns : ClientStep(k) \/ ServiceStep(k)

Spec == Init /\ [][Next]_vars
-----------------------------------------------------------------------------
TypeOK ==
  /\ now \in Nat
  /\ state \in States
  /\ tab \in [Tabs -> Page]
  /\ conn \in [Conns -> Connection]
  /\ upset \subseteq {"recruiter", "wrap-up"}

Rank(phase) ==
  CASE phase = None -> 0 [] phase = "before" -> 1 [] phase = "open" -> 2
    [] phase = "late" -> 3 [] phase = "closed" -> 4

\* The phases a candidate's page shows one after the other only go forward,
\* although each is put together from a row and a time read apart.
PhaseMovesForward ==
  [][\A t \in Tabs : tab'[t].data = None \/ Rank(tab'[t].data) >= Rank(tab[t].data)]_vars

\* Nobody is turned away from an interview that can still take place: a refusal
\* that is not due to a failure finds the interview ended for good.
NobodyTurnedAway ==
  \A k \in Conns : conn[k].pc = "refused" => IsTerminal(state)

\* While a call whose start succeeded is up and no recruiter has interfered, the
\* session is in progress or was carried on by a call: it does not sit at
\* "scheduled" for the whole call, however many connections start it at once.
LiveCallIsInProgress ==
  \A k \in Conns :
    conn[k].started /\ Open(k) /\ "recruiter" \notin upset
      => state \in {"in_progress", "completed", "scoring", "scored"}

\* When all is quiet, an interview that some properly started call has finished
\* is with scoring: unless a recruiter moved it, a tool failed or a candidate
\* hung up during the very wrap-up, no number of tabs, reloads and returns keeps
\* it from being scored.
FinishedMeansScoring ==
  (/\ \A k \in Conns : conn[k].pc \in {"unused", "refused", "unverified", "over"}
   /\ \E k \in Conns : conn[k].started /\ conn[k].finished
   /\ upset = {})
    => state \in ScoringOrLater

\* The connection in c carries a call, or the page p is waiting for it to be hung up.
Carries(c, p) == c.client = "connected" \/ (c.client = "hanging up" /\ p.ending > 0)

\* A page that says the call is live has a client whose connection is up, or that
\* has yet to hear that it is not, or a press of "End interview" that is still
\* waiting for it: however many clients a page has gone through, none of them
\* leaves it live for ever.
LiveMeansConnected ==
  \A t \in Tabs : tab[t].ui = "live" =>
    \E k \in Conns : conn[k].of = t /\ Carries(conn[k], tab[t])
=============================================================================
