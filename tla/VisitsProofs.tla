---------------------------- MODULE VisitsProofs ----------------------------
(***************************************************************************)
(* Theorems about Visits, for any number of tabs and connections and any   *)
(* times.  Without recruiters a session only moves forward along one line  *)
(* of states, and Place says how far it has come; the inductive invariant  *)
(* says how far each connection knows it to be, what the polls under way   *)
(* have read, and which connections a page refers to.                      *)
(***************************************************************************)
EXTENDS Visits, TLAPS

\* How far a session has come on the way from scheduling to its score; 0 for
\* the states off this way.
Place(x) ==
  CASE x = "scheduled" -> 1 [] x = "invited" -> 2 [] x = "ready" -> 3
    [] x = "dispatched" -> 4 [] x = "in_progress" -> 5 [] x = "completed" -> 6
    [] x = "scoring" -> 7 [] x = "scored" -> 8 [] OTHER -> 0

\* What was read of the row is still so if it was that the interview has ended.
ReadsAreSound ==
  /\ \A t \in Tabs : TRUE \in tab[t].read => IsTerminal(state)
  /\ \A k \in Conns : TRUE \in conn[k].read => IsTerminal(state)

\* A phase the page holds has begun, and no poll under way can take it back.
PhaseHasBegun ==
  \A t \in Tabs :
    /\ tab[t].data = "closed" => IsTerminal(state) /\ FALSE \notin tab[t].read
    /\ tab[t].data \in {"open", "late"} => now >= ScheduledAt
    /\ tab[t].data = "late" => now >= ScheduledAt + Grace

\* Without recruiters the session is at least where each start has brought it.
StartsBroughtIt ==
  "recruiter" \notin upset =>
    /\ Place(state) >= 1
    /\ \A k \in Conns : /\ Place(state) >= conn[k].hop
                        /\ conn[k].started => Place(state) >= 5

\* A wrap-up is in one of its steps, or behind it.
WrapUpIsOrdered ==
  \A k \in Conns : conn[k].finished => conn[k].pc \in {"completed", "scoring", "over"}

\* As long as nothing came between, the call that completed the session is about
\* to hand it to scoring, and one whose wrap-up is over was not the last to try.
SomeoneHandsOver ==
  upset = {} =>
    /\ Place(state) = 6 => \E k \in Conns : conn[k].pc = "scoring"
    /\ \A k \in Conns :
         conn[k].pc = "scoring" \/ (conn[k].pc = "over" /\ conn[k].started /\ conn[k].finished)
           => Place(state) >= 6

\* Pages and connections refer to each other; an unused connection is nobody's.
ReferencesMatch ==
  /\ \A k \in Conns : IF conn[k].pc = "unused" THEN conn[k].client \in {"connecting", "gone"}
                      ELSE conn[k].of \in Tabs
  /\ \A t \in Tabs :
       tab[t].ref # None => conn[tab[t].ref].pc # "unused" /\ conn[tab[t].ref].of = t

IInv ==
  /\ TypeOK
  /\ ReadsAreSound /\ PhaseHasBegun /\ NobodyTurnedAway
  /\ StartsBroughtIt /\ WrapUpIsOrdered /\ SomeoneHandsOver
  /\ ReferencesMatch /\ LiveMeansConnected
-----------------------------------------------------------------------------
(* The graph *)

Forward ==
  {"scheduled", "invited", "ready", "dispatched", "in_progress", "completed", "scoring",
   "scored"}

\* What a move may do: leave no terminal state, and go one place ahead on the line.
LEMMA MovesOnePlace ==
  ASSUME NEW x, NEW y, Validate(x, y) = "ok"
  PROVE  /\ ~IsTerminal(x) /\ y \in States
         /\ Place(x) >= 1 /\ y \in Forward => Place(y) = Place(x) + 1
  BY DEF Validate, Has, IsTerminal, Place, Forward, States, Terminal, Edges

\* Places are numbers; the states off the line are at 0.
LEMMA PlaceTyped == \A x : Place(x) \in 0 .. 8
  BY DEF Place

\* What each phase says of the row and the clock it was made from (join.Status).
LEMMA Phases4 ==
  ASSUME NEW e, NEW n \in Nat, e \in BOOLEAN
  PROVE  /\ Phase(e, n) \in Phases \ {None}
         /\ Phase(e, n) = "closed" <=> e
         /\ Phase(e, n) \in {"open", "late"} => n >= ScheduledAt
         /\ Phase(e, n) = "late" => n >= ScheduledAt + Grace
         /\ Phase(e, n) = "before" => n < ScheduledAt
         /\ Phase(e, n) = "open" => n < ScheduledAt + Grace
  BY TimesAssumption DEF Phase, Phases, None
-----------------------------------------------------------------------------
(* Steps of one connection, and of one page *)

\* The records of the other connections, or tabs, stay as they are.
LEMMA SetConnTyped ==
  ASSUME TypeOK, NEW k \in Conns, NEW c \in Connection, SetConn(k, c)
  PROVE  /\ conn' \in [Conns -> Connection]
         /\ conn'[k] = c
         /\ \A j \in Conns \ {k} : conn'[j] = conn[j]
  BY DEF SetConn, TypeOK

\* The same for a page.
LEMMA SetTabTyped ==
  ASSUME TypeOK, NEW t \in Tabs, NEW p \in Page, SetTab(t, p)
  PROVE  /\ tab' \in [Tabs -> Page]
         /\ tab'[t] = p
         /\ \A u \in Tabs \ {t} : tab'[u] = tab[u]
  BY DEF SetTab, TypeOK

\* A start under way knows its place in preCallChain.
LEMMA HopTyped == \A c \in Connection : c.hop \in 0 .. 5 /\ c.hop \in Nat
<1>1. \A c \in Connection : c.hop \in 0 .. 5
  BY DEF Connection
<1> QED BY <1>1

\* What a service step, on connection k, has to see to.
LEMMA ServiceKeepsIInv ==
  ASSUME IInv, NEW k \in Conns,
         UNCHANGED <<now, tab>>,
         conn' \in [Conns -> Connection], \A j \in Conns \ {k} : conn'[j] = conn[j],
         conn'[k].of = conn[k].of, conn'[k].client = conn[k].client,
         conn[k].pc # "unused", conn'[k].pc # "unused",
         upset' \in {upset, upset \cup {"wrap-up"}},
         state' = state \/ (Validate(state, state') = "ok" /\ state' \in Forward),
         TRUE \in conn'[k].read => IsTerminal(state),
         conn'[k].pc = "refused" => IsTerminal(state),
         "recruiter" \notin upset =>
           Place(state') >= conn'[k].hop /\ (conn'[k].started => Place(state') >= 5),
         conn'[k].finished => conn'[k].pc \in {"completed", "scoring", "over"},
         upset' = {} /\ (conn'[k].pc = "scoring" \/
           (conn'[k].pc = "over" /\ conn'[k].started /\ conn'[k].finished)) => Place(state') >= 6,
         upset' = {} /\ Place(state') = 6 =>
           conn'[k].pc = "scoring" \/ (state' = state /\ conn[k].pc # "scoring")
  PROVE  IInv'
<1> USE DEF IInv
<1>1. /\ state' \in States
      /\ IsTerminal(state) => state' = state
      /\ Place(state) >= 1 => Place(state') = Place(state) \/ Place(state') = Place(state) + 1
      /\ Place(state) \in Nat /\ Place(state') \in Nat
  BY MovesOnePlace, PlaceTyped DEF TypeOK
<1>2. TypeOK'
  BY <1>1 DEF TypeOK
<1>3. ReadsAreSound' /\ NobodyTurnedAway'
  BY <1>1 DEF ReadsAreSound, NobodyTurnedAway
<1>4. PhaseHasBegun'
  BY <1>1 DEF PhaseHasBegun
<1>5. StartsBroughtIt'
  <2> SUFFICES ASSUME "recruiter" \notin upset
               PROVE  /\ Place(state') >= 1
                      /\ \A j \in Conns : /\ Place(state') >= conn'[j].hop
                                          /\ conn'[j].started => Place(state') >= 5
    BY DEF StartsBroughtIt
  <2>1. Place(state) >= 1 /\ Place(state') >= Place(state)
    BY <1>1 DEF StartsBroughtIt
  <2>2. ASSUME NEW j \in Conns
        PROVE  Place(state') >= conn'[j].hop /\ (conn'[j].started => Place(state') >= 5)
    <3>1. CASE j = k
      BY <3>1
    <3>2. CASE j # k
      <4>1. conn'[j] = conn[j] /\ conn[j].hop \in Nat
        BY <3>2, HopTyped DEF TypeOK
      <4>2. Place(state) >= conn[j].hop /\ (conn[j].started => Place(state) >= 5)
        BY DEF StartsBroughtIt
      <4> QED BY <1>1, <2>1, <4>1, <4>2
    <3> QED BY <3>1, <3>2
  <2> QED BY <1>1, <2>1, <2>2
<1>6. WrapUpIsOrdered'
  BY DEF WrapUpIsOrdered
<1>7. SomeoneHandsOver'
  <2> SUFFICES ASSUME upset' = {}
               PROVE  /\ Place(state') = 6 => \E j \in Conns : conn'[j].pc = "scoring"
                      /\ \A j \in Conns :
                           conn'[j].pc = "scoring"
                             \/ (conn'[j].pc = "over" /\ conn'[j].started /\ conn'[j].finished)
                             => Place(state') >= 6
    BY DEF SomeoneHandsOver
  <2>1. upset = {} /\ "recruiter" \notin upset
    OBVIOUS
  <2>2. Place(state') >= Place(state)
    BY <1>1, <2>1 DEF StartsBroughtIt
  <2>3. ASSUME NEW j \in Conns,
               conn'[j].pc = "scoring"
                 \/ (conn'[j].pc = "over" /\ conn'[j].started /\ conn'[j].finished)
        PROVE  Place(state') >= 6
    BY <1>1, <2>1, <2>2, <2>3 DEF SomeoneHandsOver
  <2>4. ASSUME Place(state') = 6 PROVE \E j \in Conns : conn'[j].pc = "scoring"
    <3>1. CASE conn'[k].pc = "scoring"
      BY <3>1
    <3>2. CASE state' = state /\ conn[k].pc # "scoring"
      BY <2>1, <2>4, <3>2 DEF SomeoneHandsOver
    <3> QED BY <2>4, <3>1, <3>2
  <2> QED BY <2>3, <2>4
<1>8. ReferencesMatch'
  BY DEF ReferencesMatch, TypeOK, Page, None
<1>9. LiveMeansConnected'
  <2> SUFFICES ASSUME NEW t \in Tabs, tab[t].ui = "live"
               PROVE  \E j \in Conns : conn'[j].of = t /\ Carries(conn'[j], tab[t])
    BY DEF LiveMeansConnected
  <2>1. PICK j \in Conns : conn[j].of = t /\ Carries(conn[j], tab[t])
    BY DEF LiveMeansConnected
  <2>2. conn'[j].of = conn[j].of /\ conn'[j].client = conn[j].client
    OBVIOUS
  <2> QED BY <2>1, <2>2 DEF Carries
<1> QED BY <1>2, <1>3, <1>4, <1>5, <1>6, <1>7, <1>8, <1>9

\* What a step of the page in tab t, or of its client, has to see to.
LEMMA PageKeepsIInv ==
  ASSUME IInv, NEW t \in Tabs,
         UNCHANGED <<now, state, upset>>,
         tab' \in [Tabs -> Page], \A u \in Tabs \ {t} : tab'[u] = tab[u],
         conn' \in [Conns -> Connection],
         \A k \in Conns :
           /\ conn'[k].read = conn[k].read /\ conn'[k].hop = conn[k].hop
           /\ conn'[k].started = conn[k].started /\ conn'[k].finished = conn[k].finished
           /\ conn'[k].pc = conn[k].pc \/ (conn[k].pc = "unused" /\ conn'[k].pc = "resolve"),
         TRUE \in tab'[t].read => IsTerminal(state),
         tab'[t].data = "closed" => IsTerminal(state) /\ FALSE \notin tab'[t].read,
         tab'[t].data \in {"open", "late"} => now >= ScheduledAt,
         tab'[t].data = "late" => now >= ScheduledAt + Grace,
         ReferencesMatch', LiveMeansConnected'
  PROVE  IInv'
<1> USE DEF IInv
<1>1. TypeOK'
  BY DEF TypeOK
<1>2. ReadsAreSound' /\ NobodyTurnedAway'
  BY DEF ReadsAreSound, NobodyTurnedAway
<1>3. PhaseHasBegun'
  BY DEF PhaseHasBegun
<1>4. StartsBroughtIt'
  BY DEF StartsBroughtIt
<1>5. WrapUpIsOrdered'
  BY DEF WrapUpIsOrdered
<1>6. SomeoneHandsOver'
  BY DEF SomeoneHandsOver
<1> QED BY <1>1, <1>2, <1>3, <1>4, <1>5, <1>6
-----------------------------------------------------------------------------
(* The actions *)

\* What the state of the session does in a move and in one that fails.
LEMMA MovesOrNot ==
  ASSUME NEW to, Moves(to) \/ CannotMove(to) \/ MoveFails(to) \/ UNCHANGED state
  PROVE  state' = state \/ (Validate(state, to) = "ok" /\ state' = to)
  BY DEF Moves, CannotMove, MoveFails

\* A service step that leaves the session alone and is not part of the wrap-up.
LEMMA QuietServiceStep ==
  ASSUME IInv, NEW k \in Conns, UNCHANGED <<now, state, tab, upset>>,
         NEW c \in Connection, SetConn(k, c),
         c.of = conn[k].of, c.client = conn[k].client, c.finished = conn[k].finished,
         conn[k].pc \notin {"unused", "completed", "scoring"}, ~conn[k].finished,
         c.pc # "unused",
         c.pc \notin {"scoring"},
         TRUE \in c.read => IsTerminal(state),
         c.pc = "refused" => IsTerminal(state),
         "recruiter" \notin upset =>
           Place(state) >= c.hop /\ (c.started => Place(state) >= 5)
  PROVE  IInv'
<1>1. /\ conn' \in [Conns -> Connection] /\ conn'[k] = c
      /\ \A j \in Conns \ {k} : conn'[j] = conn[j]
  BY SetConnTyped DEF IInv
<1> QED BY <1>1, ServiceKeepsIInv

\* The connection after a turn of the loop in Start, and after its answer.
LEMMA HopTo ==
  ASSUME NEW c \in Connection, NEW h \in 0 .. 5, NEW d, d = [c EXCEPT !.hop = h]
  PROVE  /\ d \in Connection /\ d.of = c.of /\ d.client = c.client /\ d.pc = c.pc
         /\ d.finished = c.finished /\ d.hop = h /\ d.started = c.started /\ d.read = c.read
  BY DEF Connection

\* What join.Start's answer changes of its connection.
LEMMA StartAnswersFields ==
  ASSUME NEW c \in Connection, NEW ok \in BOOLEAN, NEW d, d = StartAnswers(c, ok)
  PROVE  /\ d \in Connection /\ d.of = c.of /\ d.client = c.client /\ d.pc = "accept"
         /\ d.finished = c.finished /\ d.hop = 0 /\ d.started = ok /\ d.read = c.read
<1> d = [c EXCEPT !.pc = "accept", !.started = ok, !.hop = 0]
  BY DEF StartAnswers
<1>0. 0 \in 0 .. 5
  OBVIOUS
<1>1. d \in Connection
  BY <1>0 DEF Connection
<1>2. d.hop = 0 /\ d.pc = "accept" /\ d.started = ok
  BY Zenon DEF Connection
<1>3. d.of = c.of /\ d.client = c.client /\ d.finished = c.finished /\ d.read = c.read
  BY Zenon DEF Connection
<1> QED BY <1>1, <1>2, <1>3

\* Every step of the service does.
LEMMA ServiceStepKeepsIInv ==
  ASSUME IInv, NEW k \in Conns, ServiceStep(k)
  PROVE  IInv'
<1> DEFINE c == conn[k]
<1>0. /\ c \in Connection
      /\ TRUE \in c.read => IsTerminal(state)
      /\ "recruiter" \notin upset =>
           Place(state) >= 1 /\ Place(state) >= c.hop /\ (c.started => Place(state) >= 5)
      /\ c.finished => c.pc \in {"completed", "scoring", "over"}
  BY DEF IInv, TypeOK, ReadsAreSound, StartsBroughtIt, WrapUpIsOrdered
<1>100. Place(state) \in Nat /\ Place(state) >= 0
  BY PlaceTyped
<1>1. CASE ResolveSession(k)
  <2>1. c.pc = "resolve" /\ UNCHANGED <<now, state, tab, upset>>
    BY <1>1 DEF ResolveSession
  <2>2. CASE SetConn(k, [c EXCEPT !.read = {JoinByToken(state)}])
    <3> DEFINE d == [c EXCEPT !.read = {JoinByToken(state)}]
    <3>1. JoinByToken(state) \in BOOLEAN /\ (JoinByToken(state) => IsTerminal(state))
      BY DEF JoinByToken, IsTerminal
    <3>2. /\ d \in Connection /\ d.of = c.of /\ d.client = c.client /\ d.pc = c.pc
          /\ d.finished = c.finished /\ d.hop = c.hop /\ d.started = c.started
          /\ TRUE \in d.read => IsTerminal(state)
      BY <1>0, <3>1 DEF Connection
    <3> HIDE DEF d
    <3> QED BY <1>0, <2>1, <2>2, <3>2, QuietServiceStep DEF d
  <2>3. ASSUME NEW ended \in c.read,
               SetConn(k, [c EXCEPT !.read = {}, !.pc =
                 IF Phase(ended, now) = "closed" THEN "refused" ELSE "start"])
        PROVE  IInv'
    <3> DEFINE d == [c EXCEPT !.read = {}, !.pc =
                       IF Phase(ended, now) = "closed" THEN "refused" ELSE "start"]
    <3>1. ended \in BOOLEAN /\ now \in Nat
      BY <1>0 DEF Connection, IInv, TypeOK
    <3>2. Phase(ended, now) = "closed" => IsTerminal(state)
      BY <1>0, <3>1, Phases4
    <3>3. /\ d \in Connection /\ d.of = c.of /\ d.client = c.client
          /\ d.pc \in {"refused", "start"} /\ (d.pc = "refused" => IsTerminal(state))
          /\ d.finished = c.finished /\ d.hop = c.hop /\ d.started = c.started /\ d.read = {}
      BY <1>0, <3>2 DEF Connection
    <3> HIDE DEF d
    <3> QED BY <1>0, <2>1, <2>3, <3>3, QuietServiceStep DEF d
  <2> QED BY <1>1, <2>2, <2>3 DEF ResolveSession
<1>2. CASE ResolveFails(k)
  <2> DEFINE d == [c EXCEPT !.pc = "unverified", !.read = {}]
  <2>1. /\ d \in Connection /\ d.of = c.of /\ d.client = c.client /\ d.pc = "unverified"
        /\ d.finished = c.finished /\ d.hop = c.hop /\ d.started = c.started /\ d.read = {}
    BY <1>0 DEF Connection
  <2>2. c.pc = "resolve" /\ UNCHANGED <<now, state, tab, upset>> /\ SetConn(k, d)
    BY <1>2 DEF ResolveFails
  <2> HIDE DEF d
  <2> QED BY <1>0, <2>1, <2>2, QuietServiceStep
<1>3. ASSUME NEW ok \in BOOLEAN, c.pc = "start",
             ok /\ "recruiter" \notin upset => Place(state) >= 5,
             SetConn(k, StartAnswers(c, ok)), UNCHANGED <<now, state, tab, upset>>
      PROVE  IInv'
  <2> DEFINE d == StartAnswers(c, ok)
  <2>1. /\ d \in Connection /\ d.of = c.of /\ d.client = c.client /\ d.pc = "accept"
        /\ d.finished = c.finished /\ d.hop = 0 /\ d.started = ok /\ d.read = c.read
    BY <1>0, StartAnswersFields
  <2> HIDE DEF d
  <2> QED BY <1>0, <1>100, <1>3, <2>1, QuietServiceStep DEF d
<1>4. CASE StartLookup(k)
  <2>1. c.pc = "start" /\ UNCHANGED <<now, state, tab, upset>>
    BY <1>4 DEF StartLookup
  <2>2. ASSUME NEW i \in 1 .. Len(preCallChain), preCallChain[i] = state,
               SetConn(k, [c EXCEPT !.hop = i])
        PROVE  IInv'
    <3> DEFINE d == [c EXCEPT !.hop = i]
    <3>1. i \in 1 .. 5 /\ Place(state) = i
      BY <2>2 DEF preCallChain, Place
    <3>2. /\ d \in Connection /\ d.of = c.of /\ d.client = c.client /\ d.pc = "start"
          /\ d.finished = c.finished /\ d.hop = i /\ d.started = c.started /\ d.read = c.read
      BY <1>0, <2>1, <3>1, HopTo
    <3>3. SetConn(k, d)
      BY <2>2
    <3> HIDE DEF d
    <3>4. "recruiter" \notin upset => Place(state) >= d.hop /\ (d.started => Place(state) >= 5)
      BY <1>0, <3>1, <3>2
    <3> QED BY <1>0, <2>1, <3>2, <3>3, <3>4, QuietServiceStep
  <2>3. CASE /\ \A i \in 1 .. Len(preCallChain) : preCallChain[i] # state
             /\ SetConn(k, StartAnswers(c, TRUE))
    <3>1. state \notin {"scheduled", "invited", "ready", "dispatched", "in_progress"}
      <4>1. /\ Len(preCallChain) = 5 /\ preCallChain[1] = "scheduled"
            /\ preCallChain[2] = "invited" /\ preCallChain[3] = "ready"
            /\ preCallChain[4] = "dispatched" /\ preCallChain[5] = "in_progress"
        BY DEF preCallChain
      <4> QED BY <2>3, <4>1
    <3>2. "recruiter" \notin upset => Place(state) >= 5
      BY <1>0, <3>1 DEF Place
    <3> QED BY <1>3, <2>1, <2>3, <3>2
  <2>4. CASE SetConn(k, StartAnswers(c, FALSE))
    BY <1>3, <2>1, <2>4
  <2> QED BY <1>4, <2>2, <2>3, <2>4 DEF StartLookup
<1>5. CASE StartHop(k)
  <2>1. c.pc = "start" /\ c.hop > 0 /\ UNCHANGED <<now, tab, upset>> /\ c.hop \in 1 .. 5
    <3>1. c.hop \in 0 .. 5
      BY <1>0, HopTyped
    <3> QED BY <1>5, <3>1 DEF StartHop
  <2>2. CASE AtEnd(c.hop) /\ SetConn(k, StartAnswers(c, TRUE)) /\ UNCHANGED state
    <3>1. c.hop = 5
      BY <2>2 DEF AtEnd, preCallChain
    <3> QED BY <1>0, <1>3, <2>1, <2>2, <3>1
  <2> DEFINE to == preCallChain[c.hop + 1]
  <2>3. ASSUME ~AtEnd(c.hop) PROVE to \in Forward /\ Place(to) = c.hop + 1 /\ c.hop < 5
    <3>1. c.hop # 5
      BY <2>3 DEF AtEnd, preCallChain
    <3>2. c.hop \in {1, 2, 3, 4}
      BY <2>1, <3>1
    <3> QED BY <3>2 DEF preCallChain, Place, Forward
  <2> HIDE DEF to
  <2>4. ASSUME ~AtEnd(c.hop), Moves(to), SetConn(k, [c EXCEPT !.hop = @ + 1])
        PROVE  IInv'
    <3> DEFINE d == [c EXCEPT !.hop = @ + 1]
    <3>1. /\ d \in Connection /\ d.of = c.of /\ d.client = c.client /\ d.pc = "start"
          /\ d.finished = c.finished /\ d.hop = c.hop + 1 /\ d.started = c.started
          /\ d.read = c.read
      <4>1. c.hop + 1 \in 0 .. 5
        BY <2>1, <2>3, <2>4
      <4> QED BY <1>0, <2>1, <4>1, HopTo
    <3>2. Validate(state, to) = "ok" /\ state' = to
      BY <2>4 DEF Moves
    <3>3. Place(state) >= 1 => Place(to) = Place(state) + 1
      BY <2>3, <2>4, <3>2, MovesOnePlace
    <3>4. /\ conn' \in [Conns -> Connection] /\ conn'[k] = d
          /\ \A j \in Conns \ {k} : conn'[j] = conn[j]
      BY <2>4, <3>1, SetConnTyped DEF IInv
    <3> HIDE DEF d
    <3>5. ~c.finished
      BY <1>0, <2>1
    <3>6. "recruiter" \notin upset =>
            /\ Place(state') = c.hop + 1
            /\ c.started => Place(state') >= 5
      BY <1>0, <1>100, <2>1, <2>3, <2>4, <3>2, <3>3
    <3>7. Place(state') # 6
      BY <2>1, <2>3, <2>4, <3>2
    <3>8. "recruiter" \notin upset => Place(state') >= d.hop /\ (d.started => Place(state') >= 5)
      BY <2>1, <3>1, <3>6
    <3>9. Validate(state, state') = "ok" /\ state' \in Forward
      BY <2>3, <2>4, <3>2
    <3>10. ~d.finished /\ (TRUE \in d.read => IsTerminal(state)) /\ upset' = upset
      BY <1>0, <2>1, <3>1, <3>5
    <3> QED BY <2>1, <3>1, <3>4, <3>7, <3>8, <3>9, <3>10, ServiceKeepsIInv
  <2>5. ASSUME ~AtEnd(c.hop), CannotMove(to) \/ MoveFails(to), SetConn(k, StartAnswers(c, FALSE))
        PROVE  IInv'
    <3> DEFINE d == StartAnswers(c, FALSE)
    <3>1. /\ d \in Connection /\ d.of = c.of /\ d.client = c.client /\ d.pc = "accept"
          /\ d.finished = c.finished /\ d.hop = 0 /\ d.started = FALSE /\ d.read = c.read
      BY <1>0, StartAnswersFields
    <3>2. state' = state \/ (Validate(state, to) = "ok" /\ state' = to)
      BY <2>5, MovesOrNot
    <3>3. /\ conn' \in [Conns -> Connection] /\ conn'[k] = d
          /\ \A j \in Conns \ {k} : conn'[j] = conn[j]
      BY <2>5, <3>1, SetConnTyped DEF IInv
    <3> HIDE DEF d
    <3>4. Place(state') \in Nat /\ Place(state') >= 0
      BY PlaceTyped
    <3>5. state' # state => Place(state') # 6
      BY <2>1, <2>3, <2>5, <3>2
    <3> QED BY <1>0, <2>1, <2>3, <2>5, <3>1, <3>2, <3>3, <3>4, <3>5, ServiceKeepsIInv
  <2> QED BY <1>5, <2>2, <2>4, <2>5 DEF StartHop, to
<1>6. ASSUME NEW p \in {"assemble", "talk", "over"}, c.pc \in {"accept", "assemble", "talk"},
             SetConn(k, [c EXCEPT !.pc = p]), UNCHANGED <<now, state, tab, upset>>
      PROVE  IInv'
  <2> DEFINE d == [c EXCEPT !.pc = p]
  <2>1. /\ d \in Connection /\ d.of = c.of /\ d.client = c.client /\ d.pc = p
        /\ d.finished = c.finished /\ d.hop = c.hop /\ d.started = c.started /\ d.read = c.read
    BY <1>0 DEF Connection
  <2> HIDE DEF d
  <2> QED BY <1>0, <1>6, <2>1, QuietServiceStep DEF d
<1>7. CASE Accept(k) \/ Assemble(k)
  BY <1>6, <1>7 DEF Accept, Assemble
<1>8. CASE WrapUp(k)
  <2> DEFINE d == [c EXCEPT !.pc = "completed", !.finished = TRUE]
  <2>1. /\ d \in Connection /\ d.of = c.of /\ d.client = c.client /\ d.pc = "completed"
        /\ d.hop = c.hop /\ d.started = c.started /\ d.read = c.read
    BY <1>0 DEF Connection
  <2>2. c.pc = "talk" /\ UNCHANGED <<now, state, tab, upset>> /\ SetConn(k, d)
    BY <1>8 DEF WrapUp
  <2>3. /\ conn' \in [Conns -> Connection] /\ conn'[k] = d
        /\ \A j \in Conns \ {k} : conn'[j] = conn[j]
    BY <2>1, <2>2, SetConnTyped DEF IInv
  <2> HIDE DEF d
  <2> QED BY <1>0, <2>1, <2>2, <2>3, ServiceKeepsIInv
<1>9. ASSUME NEW p \in {"scoring", "over"}, c.pc \notin {"unused"},
             SetConn(k, [c EXCEPT !.pc = p]), UNCHANGED <<now, tab>>,
             upset' \in {upset, upset \cup {"wrap-up"}},
             state' = state \/ (Validate(state, state') = "ok" /\ state' \in {"completed", "scoring"}),
             upset' = {} /\ (p = "scoring" \/ (c.started /\ c.finished)) => Place(state') >= 6,
             upset' = {} /\ Place(state') = 6 => p = "scoring" \/ (state' = state /\ c.pc # "scoring")
      PROVE  IInv'
  <2> DEFINE d == [c EXCEPT !.pc = p]
  <2>1. /\ d \in Connection /\ d.of = c.of /\ d.client = c.client /\ d.pc = p
        /\ d.finished = c.finished /\ d.hop = c.hop /\ d.started = c.started /\ d.read = c.read
    BY <1>0 DEF Connection
  <2>2. /\ conn' \in [Conns -> Connection] /\ conn'[k] = d
        /\ \A j \in Conns \ {k} : conn'[j] = conn[j]
    BY <1>9, <2>1, SetConnTyped DEF IInv
  <2> HIDE DEF d
  <2>3. state' = state \/ (Validate(state, state') = "ok" /\ state' \in Forward)
    BY <1>9 DEF Forward
  <2>4. "recruiter" \notin upset =>
          Place(state') >= d.hop /\ (d.started => Place(state') >= 5)
    <3>1. Place(state) >= 1 => Place(state') = Place(state) \/ Place(state') = Place(state) + 1
      BY <2>3, MovesOnePlace
    <3>2. c.hop \in Nat
      BY <1>0, HopTyped
    <3> QED BY <1>0, <1>100, <2>1, <3>1, <3>2
  <2>5. d.pc # "refused" /\ (d.finished => d.pc \in {"completed", "scoring", "over"})
    BY <1>9, <2>1
  <2>6. upset' = {} /\ (d.pc = "scoring" \/ (d.pc = "over" /\ d.started /\ d.finished))
          => Place(state') >= 6
    BY <1>9, <2>1
  <2>7. upset' = {} /\ Place(state') = 6 => d.pc = "scoring" \/ (state' = state /\ c.pc # "scoring")
    BY <1>9, <2>1
  <2> QED BY <1>0, <1>9, <2>1, <2>2, <2>3, <2>4, <2>5, <2>6, <2>7, ServiceKeepsIInv
<1>10. /\ Validate(state, "completed") = "ok" <=> Place(state) = 5
       /\ Validate(state, "scoring") = "ok" <=> Place(state) = 6
       /\ Place("completed") = 6 /\ Place("scoring") = 7
  BY DEF Place, Validate, Has, IsTerminal, States, Terminal, Edges
<1>11. /\ upset = {} /\ c.pc \in {"completed", "scoring"} /\ c.started => Place(state) >= 5
       /\ upset = {} /\ c.pc = "scoring" => Place(state) >= 6
       /\ upset = {} /\ c.pc = "over" /\ c.started /\ c.finished => Place(state) >= 6
  BY <1>0 DEF IInv, SomeoneHandsOver
<1>12. CASE AdvanceState(k)
  <2>1. c.pc \in {"completed", "scoring"} /\ UNCHANGED <<now, tab>>
    BY <1>12 DEF AdvanceState
  <2>2. CASE Moves(c.pc) /\ SetConn(k, [c EXCEPT !.pc = AfterAdvance(c.pc)]) /\ UNCHANGED upset
    <3>1. state' = c.pc /\ Validate(state, c.pc) = "ok"
      BY <2>2 DEF Moves
    <3>2. CASE c.pc = "completed"
      <4>1. AfterAdvance(c.pc) = "scoring" /\ Place(state') = 6
        BY <1>10, <3>1, <3>2 DEF AfterAdvance
      <4> QED BY <1>9, <2>1, <2>2, <3>1, <4>1
    <3>3. CASE c.pc = "scoring"
      <4>1. AfterAdvance(c.pc) = "over" /\ Place(state') = 7
        BY <1>10, <3>1, <3>3 DEF AfterAdvance
      <4> QED BY <1>9, <2>1, <2>2, <3>1, <4>1
    <3> QED BY <2>1, <3>2, <3>3
  <2>3. CASE CannotMove(c.pc) /\ SetConn(k, [c EXCEPT !.pc = "over"]) /\ UNCHANGED upset
    <3>1. state' = state /\ Validate(state, c.pc) # "ok"
      BY <2>3 DEF CannotMove
    <3>2. upset = {} /\ c.started => Place(state) >= 6
      BY <1>10, <1>11, <1>100, <2>1, <3>1
    <3>3. upset = {} /\ Place(state) = 6 => c.pc # "scoring"
      BY <1>10, <3>1
    <3> QED BY <1>9, <2>1, <2>3, <3>1, <3>2, <3>3
  <2>4. CASE /\ MoveFails(c.pc)
             /\ SetConn(k, [c EXCEPT !.pc = "over"])
             /\ upset' = upset \cup {"wrap-up"}
    <3>1. state' = state \/ (Validate(state, state') = "ok" /\ state' = c.pc)
      BY <2>4, MovesOrNot
    <3>2. upset' # {}
      BY <2>4
    <3> QED BY <1>9, <2>1, <2>4, <3>1, <3>2
  <2> QED BY <1>12, <2>2, <2>3, <2>4 DEF AdvanceState
<1>13. CASE PipelineEnds(k)
  <2>1. Open(k) /\ SetConn(k, [c EXCEPT !.pc = "over"]) /\ UNCHANGED <<now, tab>>
    BY <1>13 DEF PipelineEnds
  <2>2. CASE c.pc \in {"completed", "scoring"}
    <3>1. upset' = upset \cup {"wrap-up"} /\ (Moves(c.pc) \/ UNCHANGED state)
      BY <1>13, <2>2 DEF PipelineEnds
    <3>2. state' = state \/ (Validate(state, state') = "ok" /\ state' = c.pc)
      BY <3>1, MovesOrNot
    <3>3. upset' # {}
      BY <3>1
    <3> QED BY <1>9, <2>1, <2>2, <3>1, <3>2, <3>3
  <2>3. CASE c.pc \in {"assemble", "talk"}
    <3>1. UNCHANGED <<state, upset>>
      BY <1>13, <2>3 DEF PipelineEnds
    <3> QED BY <1>6, <2>1, <2>3, <3>1
  <2> QED BY <2>1, <2>2, <2>3 DEF Open
<1> QED BY <1>1, <1>2, <1>4, <1>5, <1>7, <1>8, <1>12, <1>13 DEF ServiceStep

\* What every step of the page and of the client does.
LEMMA PageStepKeepsIInv ==
  ASSUME IInv,
         (\E t \in Tabs : PageStep(t)) \/ (\E k \in Conns : ClientStep(k))
  PROVE  IInv'
<1>0. /\ \A t \in Tabs : tab[t] \in Page
      /\ \A k \in Conns : conn[k] \in Connection
      /\ conn \in [Conns -> Connection]
      /\ now \in Nat
  BY DEF IInv, TypeOK
<1>1. \A t \in Tabs :
        /\ TRUE \in tab[t].read => IsTerminal(state)
        /\ tab[t].data = "closed" => IsTerminal(state) /\ FALSE \notin tab[t].read
        /\ tab[t].data \in {"open", "late"} => now >= ScheduledAt
        /\ tab[t].data = "late" => now >= ScheduledAt + Grace
  BY DEF IInv, ReadsAreSound, PhaseHasBegun
<1>2. /\ \A k \in Conns : conn[k].pc = "unused" => conn[k].client \in {"connecting", "gone"}
      /\ \A k \in Conns : conn[k].pc # "unused" => conn[k].of \in Tabs
      /\ \A t \in Tabs :
           tab[t].ref # None =>
             /\ tab[t].ref \in Conns
             /\ conn[tab[t].ref].pc # "unused" /\ conn[tab[t].ref].of = t
      /\ \A t \in Tabs : tab[t].ui = "live" =>
           \E k \in Conns : conn[k].of = t /\ Carries(conn[k], tab[t])
  BY <1>0 DEF IInv, ReferencesMatch, LiveMeansConnected, Page
\* a step that leaves the connections alone and does not go live
<1>3. ASSUME NEW t \in Tabs, NEW p \in Page, SetTab(t, p), UNCHANGED <<now, state, upset, conn>>,
             p.ref = tab[t].ref,
             p.ui = "live" =>
               tab[t].ui = "live" /\ (p.ending = tab[t].ending \/ p.ending > 0),
             TRUE \in p.read => IsTerminal(state),
             p.data = "closed" => IsTerminal(state) /\ FALSE \notin p.read,
             p.data \in {"open", "late"} => now >= ScheduledAt,
             p.data = "late" => now >= ScheduledAt + Grace
      PROVE  IInv'
  <2>1. /\ tab' \in [Tabs -> Page] /\ tab'[t] = p
        /\ \A u \in Tabs \ {t} : tab'[u] = tab[u]
    BY <1>3, SetTabTyped DEF IInv
  <2>2. ReferencesMatch' /\ LiveMeansConnected'
    <3>1. ReferencesMatch'
      BY <1>2, <1>3, <2>1 DEF ReferencesMatch
    <3>2. ASSUME NEW u \in Tabs, tab'[u].ui = "live"
          PROVE  \E j \in Conns : conn[j].of = u /\ Carries(conn[j], tab'[u])
      <4>1. tab[u].ui = "live" /\ (tab'[u].ending = tab[u].ending \/ tab'[u].ending > 0)
        BY <1>3, <2>1, <3>2
      <4>2. PICK j \in Conns : conn[j].of = u /\ Carries(conn[j], tab[u])
        BY <1>2, <4>1
      <4> QED BY <4>1, <4>2 DEF Carries
    <3> QED BY <1>3, <3>1, <3>2 DEF LiveMeansConnected
  <2> QED BY <1>0, <1>3, <2>1, <2>2, PageKeepsIInv
\* a step that changes one connection at the client's end, and its page
<1>4. ASSUME NEW t \in Tabs, NEW p \in Page, NEW k \in Conns,
             NEW x \in {"connected", "hanging up", "gone"},
             SetTab(t, p), SetConn(k, [conn[k] EXCEPT !.client = x]),
             UNCHANGED <<now, state, upset>>,
             conn[k].pc # "unused", conn[k].of = t, p.ref = tab[t].ref,
             p.ui = "live" =>
               \/ x = "connected"
               \/ /\ tab[t].ui = "live" /\ p.ending > 0
                  /\ x = IF conn[k].client = "gone" THEN "gone" ELSE "hanging up",
             p.data = tab[t].data, p.read = tab[t].read
      PROVE  IInv'
  <2> DEFINE d == [conn[k] EXCEPT !.client = x]
  <2>1. /\ tab' \in [Tabs -> Page] /\ tab'[t] = p
        /\ \A u \in Tabs \ {t} : tab'[u] = tab[u]
    BY <1>4, SetTabTyped DEF IInv
  <2>2. /\ d \in Connection /\ d.client = x
        /\ d.of = conn[k].of /\ d.pc = conn[k].pc /\ d.read = conn[k].read
        /\ d.hop = conn[k].hop /\ d.started = conn[k].started /\ d.finished = conn[k].finished
    <3>1. conn[k] \in Connection
      BY <1>0
    <3>2. d \in Connection /\ d.client = x
      BY <3>1 DEF Connection
    <3>3. d.of = conn[k].of /\ d.pc = conn[k].pc /\ d.read = conn[k].read
      BY <3>1 DEF Connection
    <3>4. d.hop = conn[k].hop /\ d.started = conn[k].started /\ d.finished = conn[k].finished
      BY <3>1 DEF Connection
    <3> QED BY <3>2, <3>3, <3>4
  <2>3. /\ conn' \in [Conns -> Connection] /\ conn'[k] = d
        /\ \A j \in Conns \ {k} : conn'[j] = conn[j]
    BY <1>4, <2>2, SetConnTyped DEF IInv
  <2> HIDE DEF d
  <2>4. ReferencesMatch'
    <3>1. \A j \in Conns : conn'[j].pc = conn[j].pc /\ conn'[j].of = conn[j].of
      BY <2>2, <2>3
    <3>2. \A j \in Conns : conn'[j].pc = "unused" => conn'[j] = conn[j]
      BY <1>4, <2>3, <3>1
    <3>3. \A u \in Tabs : tab'[u].ref = tab[u].ref
      BY <1>4, <2>1
    <3>4. \A j \in Conns : IF conn'[j].pc = "unused" THEN conn'[j].client \in {"connecting", "gone"}
                            ELSE conn'[j].of \in Tabs
      BY <1>2, <3>1, <3>2
    <3>5. ASSUME NEW u \in Tabs, tab'[u].ref # None
          PROVE  conn'[tab'[u].ref].pc # "unused" /\ conn'[tab'[u].ref].of = u
      <4>1. /\ tab[u].ref \in Conns /\ tab'[u].ref = tab[u].ref
            /\ conn[tab[u].ref].pc # "unused" /\ conn[tab[u].ref].of = u
        BY <1>2, <3>3, <3>5
      <4> QED BY <3>1, <4>1
    <3> QED BY <3>4, <3>5 DEF ReferencesMatch
  <2>5. LiveMeansConnected'
    <3> SUFFICES ASSUME NEW u \in Tabs, tab'[u].ui = "live"
                 PROVE  \E j \in Conns : conn'[j].of = u /\ Carries(conn'[j], tab'[u])
      BY DEF LiveMeansConnected
    <3>1. CASE u = t
      <4>1. CASE x = "connected"
        BY <1>4, <2>1, <2>2, <2>3, <3>1, <4>1 DEF Carries
      <4>2. CASE x # "connected"
        <5>1. /\ tab[t].ui = "live" /\ p.ending > 0
              /\ x = IF conn[k].client = "gone" THEN "gone" ELSE "hanging up"
          BY <1>4, <2>1, <3>1, <4>2
        <5>2. PICK j \in Conns : conn[j].of = t /\ Carries(conn[j], tab[t])
          BY <1>2, <5>1
        <5>3. conn'[j].of = t /\ conn'[j].client \in {"connected", "hanging up"}
          BY <1>4, <2>2, <2>3, <5>1, <5>2 DEF Carries
        <5> QED BY <2>1, <3>1, <5>1, <5>3 DEF Carries
      <4> QED BY <4>1, <4>2
    <3>2. CASE u # t
      <4>1. tab[u].ui = "live"
        BY <2>1, <3>2
      <4>2. PICK j \in Conns : conn[j].of = u /\ Carries(conn[j], tab[u])
        BY <1>2, <4>1
      <4>3. conn'[j] = conn[j] /\ tab'[u] = tab[u]
        BY <1>4, <2>1, <2>3, <3>2, <4>2
      <4> QED BY <4>2, <4>3
    <3> QED BY <3>1, <3>2
  <2>6. \A j \in Conns :
          /\ conn'[j].read = conn[j].read /\ conn'[j].hop = conn[j].hop
          /\ conn'[j].started = conn[j].started /\ conn'[j].finished = conn[j].finished
          /\ conn'[j].pc = conn[j].pc
    BY <2>2, <2>3
  <2> QED BY <1>1, <1>4, <2>1, <2>3, <2>4, <2>5, <2>6, PageKeepsIInv
<1>5. ASSUME NEW t \in Tabs, Poll(t) PROVE IInv'
  <2> DEFINE p == [tab[t] EXCEPT !.read = {JoinByToken(state)}]
  <2>1. JoinByToken(state) \in BOOLEAN /\ (JoinByToken(state) <=> IsTerminal(state))
    BY DEF JoinByToken, IsTerminal
  <2>2. /\ p \in Page /\ p.ref = tab[t].ref /\ p.ui = tab[t].ui /\ p.data = tab[t].data
        /\ p.read = {JoinByToken(state)} /\ p.ending = tab[t].ending
    BY <1>0, <2>1 DEF Page
  <2>3. /\ TRUE \in p.read => IsTerminal(state)
        /\ IsTerminal(state) => FALSE \notin p.read
    BY <2>1, <2>2
  <2> HIDE DEF p
  <2> QED BY <1>1, <1>3, <1>5, <2>2, <2>3 DEF Poll, p
<1>6. ASSUME NEW t \in Tabs, Status(t) PROVE IInv'
  <2>1. UNCHANGED <<now, state, upset, conn>>
    BY <1>6 DEF Status
  <2>2. ASSUME NEW ended \in tab[t].read,
               SetTab(t, [tab[t] EXCEPT !.read = {}, !.error = FALSE, !.data = Phase(ended, now)])
        PROVE  IInv'
    <3> DEFINE f == Phase(ended, now)
               p == [tab[t] EXCEPT !.read = {}, !.error = FALSE, !.data = f]
    <3>1. ended \in BOOLEAN
      BY <1>0, <2>2 DEF Page
    <3>2. /\ f \in Phases
          /\ f = "closed" => IsTerminal(state)
          /\ f \in {"open", "late"} => now >= ScheduledAt
          /\ f = "late" => now >= ScheduledAt + Grace
      BY <1>0, <1>1, <2>2, <3>1, Phases4
    <3> HIDE DEF f
    <3>3. /\ p \in Page /\ p.ref = tab[t].ref /\ p.ui = tab[t].ui /\ p.data = f /\ p.read = {}
          /\ p.ending = tab[t].ending
      BY <1>0, <3>2 DEF Page
    <3>4. SetTab(t, p)
      BY <2>2 DEF f
    <3> HIDE DEF p
    <3> QED BY <1>3, <2>1, <3>2, <3>3, <3>4
  <2>3. CASE SetTab(t, [tab[t] EXCEPT !.read = {}, !.error = TRUE])
    <3> DEFINE p == [tab[t] EXCEPT !.read = {}, !.error = TRUE]
    <3>1. /\ p \in Page /\ p.ref = tab[t].ref /\ p.ui = tab[t].ui /\ p.data = tab[t].data
          /\ p.read = {} /\ p.ending = tab[t].ending
      BY <1>0 DEF Page
    <3> HIDE DEF p
    <3> QED BY <1>1, <1>3, <2>1, <2>3, <3>1 DEF p
  <2> QED BY <1>6, <2>2, <2>3 DEF Status
<1>7. ASSUME NEW t \in Tabs, Start(t) PROVE IInv'
  <2> DEFINE p == [tab[t] EXCEPT !.ui = "connecting", !.mic = TRUE]
  <2>1. /\ p \in Page /\ p.ref = tab[t].ref /\ p.ui = "connecting" /\ p.data = tab[t].data
        /\ p.read = tab[t].read
    BY <1>0 DEF Page
  <2> HIDE DEF p
  <2> QED BY <1>1, <1>3, <1>7, <2>1 DEF Start, p
<1>8. ASSUME NEW t \in Tabs, Microphone(t) PROVE IInv'
  <2>1. CASE /\ SetTab(t, [tab[t] EXCEPT !.mic = FALSE, !.ui = "error"])
             /\ UNCHANGED <<conn, now, state, upset>>
    <3> DEFINE p == [tab[t] EXCEPT !.mic = FALSE, !.ui = "error"]
    <3>1. /\ p \in Page /\ p.ref = tab[t].ref /\ p.ui = "error" /\ p.data = tab[t].data
          /\ p.read = tab[t].read
      BY <1>0 DEF Page
    <3> HIDE DEF p
    <3> QED BY <1>1, <1>3, <2>1, <3>1 DEF p
  <2>2. ASSUME NEW k \in Conns, conn[k].pc = "unused",
               SetConn(k, [conn[k] EXCEPT !.pc = "resolve", !.of = t]),
               SetTab(t, [tab[t] EXCEPT !.mic = FALSE, !.ref = k]),
               UNCHANGED <<now, state, upset>>
        PROVE  IInv'
    <3> DEFINE p == [tab[t] EXCEPT !.mic = FALSE, !.ref = k]
               d == [conn[k] EXCEPT !.pc = "resolve", !.of = t]
    <3>1. /\ p \in Page /\ p.ref = k /\ p.ui = tab[t].ui /\ p.data = tab[t].data
          /\ p.read = tab[t].read
      BY <1>0 DEF Page
    <3>2. d \in Connection /\ d.pc = "resolve" /\ d.of = t /\ d.client = conn[k].client
      BY <1>0 DEF Connection
    <3>3. /\ d.read = conn[k].read /\ d.hop = conn[k].hop
          /\ d.started = conn[k].started /\ d.finished = conn[k].finished
      BY <1>0 DEF Connection
    <3>4. /\ tab' \in [Tabs -> Page] /\ tab'[t] = p
          /\ \A u \in Tabs \ {t} : tab'[u] = tab[u]
      BY <2>2, <3>1, SetTabTyped DEF IInv
    <3>5. /\ conn' \in [Conns -> Connection] /\ conn'[k] = d
          /\ \A j \in Conns \ {k} : conn'[j] = conn[j]
      BY <2>2, <3>2, SetConnTyped DEF IInv
    <3> HIDE DEF p, d
    <3>6. ReferencesMatch'
      BY <1>2, <2>2, <3>1, <3>2, <3>4, <3>5 DEF ReferencesMatch
    <3>7. LiveMeansConnected'
      <4>1. d.client = "connected" \/ d.client = "hanging up" <=>
              conn[k].client = "connected" \/ conn[k].client = "hanging up"
        BY <3>2
      <4>2. p.ending = tab[t].ending
        BY <1>0 DEF Page, p
      <4>3. conn[k].client \in {"connecting", "gone"}
        BY <1>2, <2>2
      <4> SUFFICES ASSUME NEW u \in Tabs, tab'[u].ui = "live"
                   PROVE  \E j \in Conns : conn'[j].of = u /\ Carries(conn'[j], tab'[u])
        BY DEF LiveMeansConnected
      <4>4. tab[u].ui = "live" /\ tab'[u].ending = tab[u].ending
        BY <3>1, <3>4, <4>2
      <4>5. PICK j \in Conns : conn[j].of = u /\ Carries(conn[j], tab[u])
        BY <1>2, <4>4
      <4>6. j # k
        BY <4>3, <4>5 DEF Carries
      <4> QED BY <3>5, <4>4, <4>5, <4>6 DEF Carries
    <3>8. \A j \in Conns :
            /\ conn'[j].read = conn[j].read /\ conn'[j].hop = conn[j].hop
            /\ conn'[j].started = conn[j].started /\ conn'[j].finished = conn[j].finished
            /\ conn'[j].pc = conn[j].pc \/ (conn[j].pc = "unused" /\ conn'[j].pc = "resolve")
      BY <2>2, <3>2, <3>3, <3>5
    <3>9. /\ TRUE \in tab'[t].read => IsTerminal(state)
          /\ tab'[t].data = "closed" => IsTerminal(state) /\ FALSE \notin tab'[t].read
          /\ tab'[t].data \in {"open", "late"} => now >= ScheduledAt
          /\ tab'[t].data = "late" => now >= ScheduledAt + Grace
      BY <1>1, <3>1, <3>4
    <3> QED BY <2>2, <3>4, <3>5, <3>6, <3>7, <3>8, <3>9, PageKeepsIInv
  <2> QED BY <1>8, <2>1, <2>2 DEF Microphone
<1>9. ASSUME NEW t \in Tabs, End(t) PROVE IInv'
  <2> DEFINE p == [tab[t] EXCEPT !.ending = @ + 1]
             k == tab[t].ref
  <2>1. tab[t].ending \in 0 .. MaxPresses /\ tab[t].ending + 1 \in 0 .. MaxPresses
    BY <1>0, <1>9, PressesAssumption DEF End, Page
  <2>2. /\ p \in Page /\ p.ref = tab[t].ref /\ p.ui = tab[t].ui /\ p.data = tab[t].data
        /\ p.read = tab[t].read /\ p.ending > 0
    BY <1>0, <2>1 DEF Page
  <2>3. SetTab(t, p) /\ UNCHANGED <<now, state, upset>>
    BY <1>9 DEF End
  <2>4. CASE k = None
    <3>1. UNCHANGED conn
      BY <1>9, <2>4 DEF End
    <3> HIDE DEF p
    <3> QED BY <1>1, <1>3, <2>2, <2>3, <3>1
  <2>5. CASE k # None
    <3> DEFINE x == IF conn[k].client = "gone" THEN conn[k].client ELSE "hanging up"
    <3>1. SetConn(k, [conn[k] EXCEPT !.client = x])
      BY <1>9, <2>5 DEF End, HangUp
    <3>2. /\ x \in {"connected", "hanging up", "gone"}
          /\ x = IF conn[k].client = "gone" THEN "gone" ELSE "hanging up"
      OBVIOUS
    <3>3. k \in Conns /\ conn[k].pc # "unused" /\ conn[k].of = t
      BY <1>2, <2>5
    <3> HIDE DEF p, x, k
    <3> QED BY <1>4, <2>2, <2>3, <3>1, <3>2, <3>3
  <2> QED BY <2>4, <2>5
<1>9a. ASSUME NEW t \in Tabs, EndDone(t) PROVE IInv'
  <2> DEFINE p == [tab[t] EXCEPT !.ending = @ - 1, !.ui = "ended"]
  <2>1. tab[t].ending \in 0 .. MaxPresses /\ tab[t].ending - 1 \in 0 .. MaxPresses
    BY <1>0, <1>9a, PressesAssumption DEF EndDone, Page
  <2>2. /\ p \in Page /\ p.ref = tab[t].ref /\ p.ui = "ended" /\ p.data = tab[t].data
        /\ p.read = tab[t].read
    BY <1>0, <2>1 DEF Page
  <2>3. SetTab(t, p) /\ UNCHANGED <<now, state, conn, upset>>
    BY <1>9a DEF EndDone
  <2> HIDE DEF p
  <2> QED BY <1>1, <1>3, <2>2, <2>3
<1>10. ASSUME NEW t \in Tabs, Reload(t) PROVE IInv'
  <2>1. SetTab(t, FreshPage) /\ UNCHANGED <<now, state, upset>>
    BY <1>10 DEF Reload
  <2>2. FreshPage \in Page
    BY PressesAssumption DEF FreshPage, Page, None
  <2>3. /\ tab' \in [Tabs -> Page] /\ tab'[t] = FreshPage
        /\ \A u \in Tabs \ {t} : tab'[u] = tab[u]
    BY <2>1, <2>2, SetTabTyped DEF IInv
  <2>4. ASSUME NEW j \in Conns
        PROVE  /\ conn'[j] \in Connection
               /\ conn'[j].of = conn[j].of
               /\ conn'[j].read = conn[j].read /\ conn'[j].hop = conn[j].hop
               /\ conn'[j].started = conn[j].started /\ conn'[j].finished = conn[j].finished
               /\ conn'[j].pc = conn[j].pc
               /\ conn'[j].client = IF conn[j].of = t THEN "gone" ELSE conn[j].client
    <3>1. CASE conn[j].of = t
      <4>1. conn'[j] = [conn[j] EXCEPT !.client = "gone"]
        BY <1>10, <3>1 DEF Reload
      <4>2. conn[j] \in Connection
        BY <1>0
      <4>3. conn'[j] \in Connection /\ conn'[j].client = "gone"
        BY <4>1, <4>2 DEF Connection
      <4>4. conn'[j].of = conn[j].of /\ conn'[j].pc = conn[j].pc /\ conn'[j].read = conn[j].read
        BY <4>1, <4>2 DEF Connection
      <4>5. /\ conn'[j].hop = conn[j].hop
            /\ conn'[j].started = conn[j].started /\ conn'[j].finished = conn[j].finished
        BY <4>1, <4>2 DEF Connection
      <4> QED BY <3>1, <4>3, <4>4, <4>5
    <3>2. CASE conn[j].of # t
      <4>1. conn'[j] = conn[j]
        BY <1>10, <3>2 DEF Reload
      <4> QED BY <1>0, <3>2, <4>1
    <3> QED BY <3>1, <3>2
  <2>5. conn' \in [Conns -> Connection]
    <3>1. conn' = [j \in Conns |-> conn'[j]]
      BY <1>10 DEF Reload
    <3> QED BY <2>4, <3>1
  <2>6. /\ FreshPage.data = None /\ FreshPage.read = {} /\ FreshPage.ref = None
        /\ FreshPage.ui = "lobby"
    BY DEF FreshPage
  <2>7. ReferencesMatch'
    BY <1>2, <2>3, <2>4, <2>6 DEF ReferencesMatch
  <2>8. LiveMeansConnected'
    <3> SUFFICES ASSUME NEW u \in Tabs, tab'[u].ui = "live"
                 PROVE  \E j \in Conns : conn'[j].of = u /\ Carries(conn'[j], tab'[u])
      BY DEF LiveMeansConnected
    <3>1. u # t /\ tab'[u] = tab[u]
      BY <2>3, <2>6
    <3>2. PICK j \in Conns : conn[j].of = u /\ Carries(conn[j], tab[u])
      BY <1>2, <3>1
    <3> QED BY <2>4, <3>1, <3>2 DEF Carries
  <2>9. None \notin {"closed", "open", "late"}
    BY DEF None
  <2> QED BY <2>1, <2>3, <2>4, <2>5, <2>6, <2>7, <2>8, <2>9, PageKeepsIInv
<1>11. ASSUME NEW k \in Conns, OnConnected(k) PROVE IInv'
  <2> DEFINE t == conn[k].of
             p == [tab[t] EXCEPT !.ui = "live"]
  <2>1. /\ conn[k].pc # "unused" /\ t \in Tabs
        /\ SetTab(t, p) /\ SetConn(k, [conn[k] EXCEPT !.client = "connected"])
        /\ UNCHANGED <<now, state, upset>>
    BY <1>2, <1>11 DEF OnConnected, Open
  <2>2. /\ p \in Page /\ p.ref = tab[t].ref /\ p.ui = "live" /\ p.data = tab[t].data
        /\ p.read = tab[t].read
    BY <1>0, <2>1 DEF Page
  <2> HIDE DEF p
  <2> QED BY <1>4, <2>1, <2>2
<1>12. ASSUME NEW k \in Conns, OnClosed(k) PROVE IInv'
  <2> DEFINE t == conn[k].of
             e == [tab[t] EXCEPT !.ui = "error"]
             f == [tab[t] EXCEPT !.ui = "ended"]
             p == IF conn[k].client = "connecting" THEN e ELSE f
  <2>1. /\ SetTab(t, p) /\ SetConn(k, [conn[k] EXCEPT !.client = "gone"])
        /\ UNCHANGED <<now, state, upset>>
    BY <1>12 DEF OnClosed, Ended
  <2>2. conn[k].pc # "unused" /\ t \in Tabs
    BY <1>2, <1>12 DEF OnClosed
  <2>3. /\ e \in Page /\ e.ref = tab[t].ref /\ e.ui = "error" /\ e.data = tab[t].data
        /\ e.read = tab[t].read
    BY <1>0, <2>2 DEF Page
  <2>4. /\ f \in Page /\ f.ref = tab[t].ref /\ f.ui = "ended" /\ f.data = tab[t].data
        /\ f.read = tab[t].read
    BY <1>0, <2>2 DEF Page
  <2> HIDE DEF e, f
  <2>5. /\ p \in Page /\ p.ref = tab[t].ref /\ p.ui \in {"ended", "error"}
        /\ p.data = tab[t].data /\ p.read = tab[t].read
    BY <2>3, <2>4
  <2> HIDE DEF p
  <2> QED BY <1>4, <2>1, <2>2, <2>5
<1>13. ASSUME NEW k \in Conns, OnError(k) PROVE IInv'
  <2> DEFINE t == conn[k].of
             p == [tab[t] EXCEPT !.ui = "error"]
  <2>1. /\ t \in Tabs /\ SetTab(t, p) /\ UNCHANGED <<now, state, conn, upset>>
    BY <1>2, <1>13 DEF OnError
  <2>2. /\ p \in Page /\ p.ref = tab[t].ref /\ p.ui = "error" /\ p.data = tab[t].data
        /\ p.read = tab[t].read
    BY <1>0, <2>1 DEF Page
  <2> HIDE DEF p
  <2> QED BY <1>1, <1>3, <2>1, <2>2
<1> QED BY <1>5, <1>6, <1>7, <1>8, <1>9, <1>9a, <1>10, <1>11, <1>12, <1>13 DEF PageStep, ClientStep
-----------------------------------------------------------------------------
(* The theorems *)

\* Every reachable state satisfies the invariant.
LEMMA IInvHolds == Spec => []IInv
<1>1. Init => IInv
  <2> SUFFICES ASSUME Init PROVE IInv
    OBVIOUS
  <2>1. FreshPage \in Page
    BY PressesAssumption DEF FreshPage, Page, None
  <2>2. /\ FreshPage.data = None /\ FreshPage.read = {} /\ FreshPage.ref = None
        /\ FreshPage.ui = "lobby"
    BY DEF FreshPage
  <2>3. Unused \in Connection
    BY DEF Unused, Connection
  <2>4. /\ Unused.pc = "unused" /\ Unused.read = {} /\ Unused.hop = 0 /\ Unused.started = FALSE
        /\ Unused.finished = FALSE /\ Unused.client = "connecting"
    BY DEF Unused
  <2>5. /\ state = "scheduled" /\ now = 0 /\ upset = {}
        /\ tab \in [Tabs -> Page] /\ conn \in [Conns -> Connection]
        /\ \A t \in Tabs : tab[t] = FreshPage
        /\ \A k \in Conns : conn[k] = Unused
    BY <2>1, <2>3 DEF Init
  <2>6. TypeOK
    BY <2>5 DEF TypeOK, States
  <2>7. ReadsAreSound /\ NobodyTurnedAway /\ WrapUpIsOrdered
    BY <2>2, <2>4, <2>5 DEF ReadsAreSound, NobodyTurnedAway, WrapUpIsOrdered
  <2>8. PhaseHasBegun
    BY <2>2, <2>5 DEF PhaseHasBegun, None
  <2>9. Place(state) = 1
    BY <2>5 DEF Place
  <2>10. StartsBroughtIt /\ SomeoneHandsOver
    BY <2>4, <2>5, <2>9 DEF StartsBroughtIt, SomeoneHandsOver
  <2>11. ReferencesMatch /\ LiveMeansConnected
    BY <2>2, <2>4, <2>5 DEF ReferencesMatch, LiveMeansConnected
  <2> QED BY <2>6, <2>7, <2>8, <2>10, <2>11 DEF IInv
<1>2. IInv /\ [Next]_vars => IInv'
  <2> SUFFICES ASSUME IInv, [Next]_vars PROVE IInv'
    OBVIOUS
  <2> USE DEF IInv
  <2>1. CASE Tick
    <3>1. now' = now + 1 /\ UNCHANGED <<state, tab, conn, upset>> /\ now \in Nat
      BY <2>1 DEF Tick, TypeOK
    <3>2. TypeOK'
      BY <3>1 DEF TypeOK
    <3>3. \A m, n \in Nat : m >= n => m + 1 >= n
      OBVIOUS
    <3>4. ScheduledAt \in Nat /\ ScheduledAt + Grace \in Nat
      BY TimesAssumption
    <3>5. /\ now >= ScheduledAt => now' >= ScheduledAt
          /\ now >= ScheduledAt + Grace => now' >= ScheduledAt + Grace
      BY <3>1, <3>3, <3>4
    <3>6. PhaseHasBegun'
      BY <3>1, <3>5 DEF PhaseHasBegun
    <3> QED BY <3>1, <3>2, <3>6 DEF ReadsAreSound, NobodyTurnedAway, StartsBroughtIt,
               WrapUpIsOrdered, SomeoneHandsOver, ReferencesMatch, LiveMeansConnected
  \* a move that no connection makes
  <2>2. ASSUME NEW to, Moves(to), UNCHANGED <<now, tab, conn>>,
               \/ upset' = upset \cup {"recruiter"}
               \/ UNCHANGED upset /\ state = "scoring" /\ to = "scored"
        PROVE  IInv'
    <3>1. ~IsTerminal(state) /\ state' = to /\ to \in States
      BY <2>2, MovesOnePlace DEF Moves
    <3>2. TypeOK'
      BY <2>2, <3>1 DEF TypeOK
    <3>3. ReadsAreSound' /\ NobodyTurnedAway' /\ PhaseHasBegun'
      BY <2>2, <3>1 DEF ReadsAreSound, NobodyTurnedAway, PhaseHasBegun
    <3>4. StartsBroughtIt' /\ SomeoneHandsOver'
      <4>1. CASE upset' = upset \cup {"recruiter"}
        BY <4>1 DEF StartsBroughtIt, SomeoneHandsOver
      <4>2. CASE UNCHANGED upset /\ state = "scoring" /\ to = "scored"
        <5>1. Place(state) = 7 /\ Place(state') = 8
          BY <3>1, <4>2 DEF Place
        <5>2. \A k \in Conns : conn[k].hop \in Nat
          BY HopTyped DEF TypeOK
        <5>3. StartsBroughtIt'
          BY <2>2, <4>2, <5>1, <5>2 DEF StartsBroughtIt
        <5> QED BY <2>2, <4>2, <5>1, <5>3 DEF SomeoneHandsOver
      <4> QED BY <2>2, <4>1, <4>2
    <3> QED BY <2>2, <3>2, <3>3, <3>4 DEF WrapUpIsOrdered, ReferencesMatch, LiveMeansConnected
  <2>3. ASSUME NEW to \in OthersWant, Recruiter(to) PROVE IInv'
    BY <2>2, <2>3 DEF Recruiter
  <2>4. CASE Scored
    BY <2>2, <2>4 DEF Scored
  <2>5. CASE UNCHANGED vars
    <3>1. UNCHANGED <<now, state, tab, conn, upset>>
      BY <2>5 DEF vars
    <3>2. TypeOK'
      BY <3>1 DEF TypeOK
    <3>3. ReadsAreSound' /\ NobodyTurnedAway' /\ PhaseHasBegun'
      BY <3>1 DEF ReadsAreSound, NobodyTurnedAway, PhaseHasBegun
    <3>4. StartsBroughtIt' /\ WrapUpIsOrdered' /\ SomeoneHandsOver'
      BY <3>1 DEF StartsBroughtIt, WrapUpIsOrdered, SomeoneHandsOver
    <3>5. ReferencesMatch' /\ LiveMeansConnected'
      BY <3>1 DEF ReferencesMatch, LiveMeansConnected
    <3> QED BY <3>2, <3>3, <3>4, <3>5
  <2> HIDE DEF IInv
  <2> QED BY <2>1, <2>3, <2>4, <2>5, PageStepKeepsIInv, ServiceStepKeepsIInv DEF Next
<1> QED BY <1>1, <1>2, PTL DEF Spec

\* Clock, session, pages and connections keep their types.
THEOREM VisitsTypeCorrect == Spec => []TypeOK
<1>1. IInv => TypeOK
  BY DEF IInv
<1> QED BY <1>1, IInvHolds, PTL

\* A refusal finds the interview ended: what resolve_token has read stays true,
\* however long the answer takes.
THEOREM NobodyTurnedAwayHolds == Spec => []NobodyTurnedAway
<1>1. IInv => NobodyTurnedAway
  BY DEF IInv
<1> QED BY <1>1, IInvHolds, PTL

\* A page that says "live" has a client that is connected or that it is waiting
\* to hang up (useCall, its end and its callbacks).
THEOREM LiveMeansConnectedHolds == Spec => []LiveMeansConnected
<1>1. IInv => LiveMeansConnected
  BY DEF IInv
<1> QED BY <1>1, IInvHolds, PTL

\* A start that answered with success has brought the session to the call,
\* whichever of its hops others took (join.Start).
THEOREM LiveCallIsInProgressHolds == Spec => []LiveCallIsInProgress
<1>1. ASSUME Place(state) >= 5
      PROVE  state \in {"in_progress", "completed", "scoring", "scored"}
  BY <1>1 DEF Place
<1>2. IInv => LiveCallIsInProgress
  BY <1>1 DEF IInv, StartsBroughtIt, LiveCallIsInProgress
<1> QED BY <1>2, IInvHolds, PTL

\* When all is quiet, an interview that a started call has finished is with
\* scoring, however many calls came before, between or after.
THEOREM FinishedMeansScoringHolds == Spec => []FinishedMeansScoring
<1>1. IInv => FinishedMeansScoring
  <2> SUFFICES ASSUME IInv, upset = {},
                      \A k \in Conns : conn[k].pc \in {"unused", "refused", "unverified", "over"},
                      NEW k \in Conns, conn[k].started, conn[k].finished
               PROVE  state \in ScoringOrLater
    BY DEF FinishedMeansScoring
  <2>1. conn[k].pc = "over"
    BY DEF IInv, WrapUpIsOrdered
  <2>2. Place(state) >= 6 /\ Place(state) # 6
    BY <2>1 DEF IInv, SomeoneHandsOver
  <2> QED BY <2>2, PlaceTyped DEF Place, ScoringOrLater
<1> QED BY <1>1, IInvHolds, PTL

-----------------------------------------------------------------------------
(* The phases of a page *)

\* A page set anew with the phase it had leaves all pages their phases.
LEMMA DataKept ==
  ASSUME TypeOK, NEW x, NEW p, SetTab(x, p), x \in Tabs => p.data = tab[x].data
  PROVE  \A t \in Tabs : tab'[t].data = tab[t].data
<1> SUFFICES ASSUME NEW t \in Tabs PROVE tab'[t].data = tab[t].data
  OBVIOUS
<1>1. tab'[t] = IF t = x THEN p ELSE tab[t]
  BY DEF SetTab, TypeOK
<1> QED BY <1>1

\* Of a page, only its polls and its reload change the phase.
LEMMA PageKeepsData ==
  ASSUME TypeOK, NEW t \in Tabs,
         Poll(t) \/ Start(t) \/ Microphone(t) \/ End(t) \/ EndDone(t)
  PROVE  \A u \in Tabs : tab'[u].data = tab[u].data
<1>1. tab[t] \in Page
  BY DEF TypeOK
<1>2. CASE Poll(t)
  <2> DEFINE p == [tab[t] EXCEPT !.read = {JoinByToken(state)}]
  <2>1. SetTab(t, p) /\ p.data = tab[t].data
    BY <1>1, <1>2 DEF Poll, Page
  <2> HIDE DEF p
  <2> QED BY <2>1, DataKept
<1>3. CASE Start(t)
  <2> DEFINE p == [tab[t] EXCEPT !.ui = "connecting", !.mic = TRUE]
  <2>1. SetTab(t, p) /\ p.data = tab[t].data
    BY <1>1, <1>3 DEF Start, Page
  <2> HIDE DEF p
  <2> QED BY <2>1, DataKept
<1>4. CASE Microphone(t)
  <2>1. CASE SetTab(t, [tab[t] EXCEPT !.mic = FALSE, !.ui = "error"])
    <3> DEFINE p == [tab[t] EXCEPT !.mic = FALSE, !.ui = "error"]
    <3>1. SetTab(t, p) /\ p.data = tab[t].data
      BY <1>1, <2>1 DEF Page
    <3> HIDE DEF p
    <3> QED BY <3>1, DataKept
  <2>2. ASSUME NEW k \in Conns, SetTab(t, [tab[t] EXCEPT !.mic = FALSE, !.ref = k])
        PROVE  \A u \in Tabs : tab'[u].data = tab[u].data
    <3> DEFINE p == [tab[t] EXCEPT !.mic = FALSE, !.ref = k]
    <3>1. SetTab(t, p) /\ p.data = tab[t].data
      BY <1>1, <2>2 DEF Page
    <3> HIDE DEF p
    <3> QED BY <3>1, DataKept
  <2> QED BY <1>4, <2>1, <2>2 DEF Microphone
<1>5. CASE End(t)
  <2> DEFINE p == [tab[t] EXCEPT !.ending = @ + 1]
  <2>1. SetTab(t, p) /\ p.data = tab[t].data
    BY <1>1, <1>5 DEF End, Page
  <2> HIDE DEF p
  <2> QED BY <2>1, DataKept
<1>6. CASE EndDone(t)
  <2> DEFINE p == [tab[t] EXCEPT !.ending = @ - 1, !.ui = "ended"]
  <2>1. SetTab(t, p) /\ p.data = tab[t].data
    BY <1>1, <1>6 DEF EndDone, Page
  <2> HIDE DEF p
  <2> QED BY <2>1, DataKept
<1> QED BY <1>2, <1>3, <1>4, <1>5, <1>6

\* The callbacks of a client leave the phases alone.
LEMMA ClientKeepsData ==
  ASSUME TypeOK, NEW k \in Conns, ClientStep(k)
  PROVE  \A u \in Tabs : tab'[u].data = tab[u].data
<1> DEFINE x == conn[k].of
<1>1. ASSUME NEW p \in Page, NEW u
      PROVE  /\ [p EXCEPT !.ui = u].data = p.data
             /\ Ended(p).data = p.data
  BY DEF Page, Ended
<1>2. x \in Tabs => tab[x] \in Page
  BY DEF TypeOK
<1>3. ASSUME NEW u, x \in Tabs PROVE [tab[x] EXCEPT !.ui = u].data = tab[x].data
  BY <1>1, <1>2, <1>3
<1>4. x \in Tabs => Ended(tab[x]).data = tab[x].data
  BY <1>1, <1>2
<1>5. CASE OnConnected(k)
  <2> DEFINE p == [tab[x] EXCEPT !.ui = "live"]
  <2>1. SetTab(x, p)
    BY <1>5 DEF OnConnected
  <2>2. x \in Tabs => p.data = tab[x].data
    BY <1>3
  <2> HIDE DEF p, x
  <2> QED BY <2>1, <2>2, DataKept
<1>6. CASE OnClosed(k)
  <2> DEFINE p == [tab[x] EXCEPT !.ui = "error"]
             q == Ended(tab[x])
  <2>1. SetTab(x, p) \/ SetTab(x, q)
    BY <1>6 DEF OnClosed
  <2>2. x \in Tabs => p.data = tab[x].data /\ q.data = tab[x].data
    BY <1>3, <1>4
  <2> HIDE DEF p, q, x
  <2>3. CASE SetTab(x, p)
    BY <2>2, <2>3, DataKept
  <2>4. CASE SetTab(x, q)
    BY <2>2, <2>4, DataKept
  <2> QED BY <2>1, <2>3, <2>4
<1>7. CASE OnError(k)
  <2> DEFINE p == [tab[x] EXCEPT !.ui = "error"]
  <2>1. SetTab(x, p)
    BY <1>7 DEF OnError
  <2>2. x \in Tabs => p.data = tab[x].data
    BY <1>3
  <2> HIDE DEF p, x
  <2> QED BY <2>1, <2>2, DataKept
<1> QED BY <1>5, <1>6, <1>7 DEF ClientStep

\* An answer to a poll is not behind what the page already shows.
LEMMA StatusMovesForward ==
  ASSUME IInv, NEW t \in Tabs, Status(t)
  PROVE  \A u \in Tabs : tab'[u].data = tab[u].data \/ Rank(tab'[u].data) >= Rank(tab[u].data)
<1> DEFINE d == tab[t].data
<1>1. /\ tab[t] \in Page /\ d \in Phases \cup {None} /\ tab[t].read \subseteq BOOLEAN
      /\ now \in Nat /\ TypeOK
  BY DEF IInv, TypeOK, Page
<1>2. CASE SetTab(t, [tab[t] EXCEPT !.read = {}, !.error = TRUE])
  <2> DEFINE p == [tab[t] EXCEPT !.read = {}, !.error = TRUE]
  <2>1. SetTab(t, p) /\ p.data = tab[t].data
    BY <1>1, <1>2 DEF Page
  <2> HIDE DEF p
  <2> QED BY <1>1, <2>1, DataKept
<1>3. ASSUME NEW ended \in tab[t].read,
             SetTab(t, [tab[t] EXCEPT !.read = {}, !.error = FALSE, !.data = Phase(ended, now)])
      PROVE  \A u \in Tabs : tab'[u].data = tab[u].data \/ Rank(tab'[u].data) >= Rank(tab[u].data)
  <2> DEFINE e == Phase(ended, now)
             p == [tab[t] EXCEPT !.read = {}, !.error = FALSE, !.data = e]
  <2>1. SetTab(t, p) /\ p.data = e
    BY <1>1, <1>3 DEF Page
  <2>2. ended \in BOOLEAN
    BY <1>1, <1>3
  <2>3. /\ e \in Phases
        /\ e = "closed" <=> ended
        /\ e = "before" => now < ScheduledAt
        /\ e = "open" => now < ScheduledAt + Grace
    BY <1>1, <2>2, Phases4
  <2>4. /\ d = "closed" => FALSE \notin tab[t].read
        /\ d \in {"open", "late"} => now >= ScheduledAt
        /\ d = "late" => now >= ScheduledAt + Grace
    BY DEF IInv, PhaseHasBegun
  <2>5. d = "closed" => e = "closed"
    BY <1>3, <2>2, <2>3, <2>4
  <2>6. d \in {"open", "late"} => e # "before"
    BY <1>1, <2>3, <2>4, TimesAssumption
  <2>7. d = "late" => e # "open"
    BY <1>1, <2>3, <2>4, TimesAssumption
  <2> HIDE DEF e, d
  <2>8. Rank(e) >= Rank(d)
    BY <1>1, <2>3, <2>5, <2>6, <2>7 DEF Rank, Phases, None
  <2>9. \A u \in Tabs : tab'[u] = IF u = t THEN p ELSE tab[u]
    BY <1>1, <2>1 DEF SetTab, TypeOK
  <2> HIDE DEF p
  <2> QED BY <2>1, <2>8, <2>9 DEF d
<1> QED BY <1>2, <1>3 DEF Status

\* The phases a page shows never go back (Status, asked again and again).
THEOREM PhaseMovesForwardHolds == Spec => PhaseMovesForward
<1> DEFINE Same == \A t \in Tabs : tab'[t].data = tab[t].data
           Fwd == \A t \in Tabs : tab'[t].data = None \/ Rank(tab'[t].data) >= Rank(tab[t].data)
<1>1. ASSUME IInv PROVE \A t \in Tabs : Rank(tab[t].data) >= Rank(tab[t].data)
  <2>1. \A d \in Phases \cup {None} : Rank(d) >= Rank(d)
    BY DEF Rank, Phases, None
  <2>2. \A t \in Tabs : tab[t].data \in Phases \cup {None}
    BY <1>1 DEF IInv, TypeOK, Page
  <2> QED BY <2>1, <2>2
<1>2. IInv /\ Same => Fwd
  BY <1>1
<1>3. ASSUME IInv, Next PROVE Fwd
  <2>1. TypeOK
    BY <1>3 DEF IInv
  <2>2. CASE UNCHANGED tab
    BY <1>1, <1>3, <2>2
  <2>3. ASSUME NEW t \in Tabs, Status(t) PROVE Fwd
    BY <1>1, <1>3, <2>3, StatusMovesForward
  <2>4. ASSUME NEW t \in Tabs, Reload(t) PROVE Fwd
    <3>1. \A u \in Tabs : tab'[u] = IF u = t THEN FreshPage ELSE tab[u]
      BY <2>1, <2>4 DEF Reload, SetTab, TypeOK
    <3>2. FreshPage.data = None
      BY DEF FreshPage
    <3> QED BY <1>1, <1>3, <3>1, <3>2
  <2>5. ASSUME NEW t \in Tabs,
               Poll(t) \/ Start(t) \/ Microphone(t) \/ End(t) \/ EndDone(t)
        PROVE  Fwd
    BY <1>2, <1>3, <2>1, <2>5, PageKeepsData
  <2>6. ASSUME NEW k \in Conns, ClientStep(k) PROVE Fwd
    BY <1>2, <1>3, <2>1, <2>6, ClientKeepsData
  <2>7. ASSUME NEW k \in Conns, ServiceStep(k) PROVE UNCHANGED tab
    BY <2>7 DEF ServiceStep, ResolveSession, ResolveFails, StartLookup, StartHop, Accept,
       Assemble, WrapUp, AdvanceState, PipelineEnds
  <2>8. Tick \/ (\E to \in OthersWant : Recruiter(to)) \/ Scored => UNCHANGED tab
    BY DEF Tick, Recruiter, Scored
  <2> HIDE DEF Fwd
  <2> QED BY <1>3, <2>2, <2>3, <2>4, <2>5, <2>6, <2>7, <2>8 DEF Next, PageStep
<1>4. IInv /\ [Next]_vars => [Fwd]_vars
  BY <1>3
<1> QED BY <1>4, IInvHolds, PTL DEF Spec, PhaseMovesForward
=============================================================================
