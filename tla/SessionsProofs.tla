--------------------------- MODULE SessionsProofs ---------------------------
(***************************************************************************)
(* Theorems about Sessions and about JoinStart, for any set of sessions,   *)
(* organizations and callers.                                              *)
(*                                                                         *)
(* Sessions: the inductive invariant IInv adds to the properties the fact  *)
(* that makes the compare-and-swap sound: a call on its way to the         *)
(* transaction carries an edge that Validate has accepted.  It implements  *)
(* SessionAuthority: the creation of a row is Create, a commit is Move,    *)
(* and every other round trip leaves the history read off the audit log as *)
(* it is.                                                                  *)
(*                                                                         *)
(* JoinStart: the inductive invariant JInv says, beside IInv and AInv,     *)
(* that the audit log has the hop a start is at (Place), and that a        *)
(* session which nobody but the starts has moved, and which is short of    *)
(* the call, has a start that will move it on or that the database has     *)
(* stopped (Pushed): who loses a race has lost it to a start that is       *)
(* ahead.                                                                  *)
(***************************************************************************)
EXTENDS JoinStart, SequenceTheorems, TLAPS

\* A call about to apply a transition holds a legal edge.
ValidatedEdge ==
  \A c \in Callers : call[c].pc = "apply" => <<call[c].cur, call[c].to>> \in Edges

\* A step of Sessions, without the bound on how many calls there are.
AnyStep ==
  \/ \E s \in Sessions : Schedule(s)
  \/ \E c \in Callers, s \in Sessions, o \in Orgs, to \in States \cup {Unknown} :
       Begin(c, s, o, to)
  \/ \E c \in Callers : CurrentState(c) \/ ApplyTransition(c) \/ Get(c)

\* The bound only keeps calls from starting.
LEMMA NextIsAnyStep == Next => AnyStep
  BY DEF Next, AnyStep, Advance

\* The inductive invariant.
IInv == TypeOK /\ ValidatedEdge /\ AuditChain /\ OwnOrgOnly /\ ScoringStartsOnce
-----------------------------------------------------------------------------
(* The graph *)

\* The seeded graph is one that statemachine.New accepts: the server starts.
THEOREM GraphWellFormed == WellFormed
  BY DEF WellFormed, Edges, States, Terminal

\* "scoring" is entered from "completed" only, and once entered or left it is
\* never entered again.
LEMMA ScoringIsEnteredOnce ==
  ASSUME NEW x, NEW y, <<x, y>> \in Edges
  PROVE  /\ y = "scoring" => x = "completed"
         /\ x \in ScoringOrLater => y \in {"scored", "failed"}
  BY DEF Edges, States, Terminal, ScoringOrLater

\* Validate accepts exactly the edges of the table.
LEMMA ValidateAcceptsEdges ==
  ASSUME NEW x, NEW y, Validate(x, y) = "ok"
  PROVE  <<x, y>> \in Edges /\ x \in States /\ y \in States
  BY DEF Validate, Has, IsTerminal

\* A session that was not created is in none of the graph's states.
LEMMA NoRowIsNoState == NoRow \notin States
  BY DEF NoRow, States
-----------------------------------------------------------------------------
(* Type correctness *)

\* What each step leaves in the caller's record is one of the records of Call.
LEMMA Variants ==
  /\ \A s \in Sessions, o \in Orgs, to \in States :
       [pc |-> "read", sess |-> s, org |-> o, to |-> to] \in Call
  /\ \A s \in Sessions, o \in Orgs, to, cur \in States :
       [pc |-> "apply", sess |-> s, org |-> o, to |-> to, cur |-> cur] \in Call
  /\ \A s \in Sessions, o \in Orgs, to \in States, n \in Nat :
       [pc |-> "reload", sess |-> s, org |-> o, to |-> to, at |-> n] \in Call
  /\ \A s \in Sessions, to, seen \in States, n \in Nat :
       [pc |-> "done", sess |-> s, to |-> to, at |-> n, seen |-> seen] \in Call
  BY DEF Call

\* A call that changes its record keeps the calls' type.
LEMMA BecomesTyped ==
  ASSUME call \in [Callers -> Call], NEW c, NEW v \in Call, Becomes(c, v)
  PROVE  call' \in [Callers -> Call]
  BY DEF Becomes

\* A failed round trip keeps the types.
LEMMA FailTyped ==
  ASSUME call \in [Callers -> Call], NEW c, NEW err \in Errors, Fail(c, err)
  PROVE  call' \in [Callers -> Call]
  BY BecomesTyped DEF Fail, Call

\* The fields of a call at each of its steps.
LEMMA Fields ==
  ASSUME TypeOK, NEW c \in Callers
  PROVE  /\ call[c].pc \in {"read", "apply", "reload"} =>
              call[c].sess \in Sessions /\ call[c].org \in Orgs /\ call[c].to \in States
         /\ call[c].pc = "apply" => call[c].cur \in States
         /\ call[c].pc = "reload" => call[c].at \in Nat
  BY DEF TypeOK, Call

\* A commit stores a state and appends an event.
LEMMA CommitTyped ==
  ASSUME TypeOK, NEW c \in Callers, call[c].pc = "apply", Commit(c)
  PROVE  /\ row' \in [Sessions -> States \cup {NoRow}]
         /\ events' \in [Sessions -> Seq(Event)]
<1> DEFINE s == call[c].sess
           e == [from |-> call[c].cur, to |-> call[c].to, org |-> call[c].org, actor |-> c]
<1>1. s \in Sessions /\ call[c].org \in Orgs /\ call[c].to \in States /\ call[c].cur \in States
  BY Fields
<1>2. row' = [row EXCEPT ![s] = call[c].to] /\ events' = [events EXCEPT ![s] = Append(@, e)]
  BY DEF Commit
<1>3. e \in Event
  BY <1>1 DEF Event
<1>4. Append(events[s], e) \in Seq(Event)
  BY <1>1, <1>3 DEF TypeOK
<1> QED BY <1>1, <1>2, <1>4 DEF TypeOK

\* Every step keeps the types of the variables.
LEMMA TypeStep == TypeOK /\ [AnyStep]_vars => TypeOK'
<1> SUFFICES ASSUME TypeOK, [AnyStep]_vars PROVE TypeOK'
  OBVIOUS
<1>0. call \in [Callers -> Call]
  BY DEF TypeOK
<1>1. ASSUME NEW s \in Sessions, Schedule(s) PROVE TypeOK'
  BY <1>1 DEF Schedule, States, TypeOK
<1>2. ASSUME NEW c \in Callers, NEW s \in Sessions, NEW o \in Orgs,
             NEW to \in States \cup {Unknown}, Begin(c, s, o, to)
      PROVE  TypeOK'
  <2>1. CASE Has(to)
    BY <1>0, <1>2, <2>1, BecomesTyped, Variants DEF Begin, Has, TypeOK
  <2>2. CASE ~Has(to)
    BY <1>0, <1>2, <2>2, FailTyped DEF Begin, Errors, TypeOK
  <2> QED BY <2>1, <2>2
<1>3. ASSUME NEW c \in Callers, CurrentState(c) PROVE TypeOK'
  <2> DEFINE s == call[c].sess
  <2>1. s \in Sessions /\ call[c].org \in Orgs /\ call[c].to \in States
    BY <1>3, Fields DEF CurrentState
  <2>2. CASE \E err \in Errors : Fail(c, err)
    BY <1>0, <1>3, <2>2, FailTyped DEF CurrentState, TypeOK
  <2>3. CASE /\ Visible(call[c].org, s)
             /\ Becomes(c, [pc |-> "apply", sess |-> s, org |-> call[c].org,
                            to |-> call[c].to, cur |-> row[s]])
    <3>1. row[s] \in States
      BY <2>1, <2>3 DEF Visible, TypeOK
    <3>2. [pc |-> "apply", sess |-> s, org |-> call[c].org,
           to |-> call[c].to, cur |-> row[s]] \in Call
      BY <2>1, <3>1, Variants
    <3> QED BY <1>0, <1>3, <2>3, <3>2, BecomesTyped DEF CurrentState, TypeOK
  <2> QED BY <1>3, <2>2, <2>3 DEF CurrentState, DbError, Errors
<1>4. ASSUME NEW c \in Callers, ApplyTransition(c) PROVE TypeOK'
  <2> DEFINE s == call[c].sess
  <2>1. /\ s \in Sessions /\ call[c].org \in Orgs
        /\ call[c].to \in States /\ call[c].cur \in States
    BY <1>4, Fields DEF ApplyTransition
  <2>2. CASE UNCHANGED <<row, events, spawned>> /\ \E err \in Errors : Fail(c, err)
    BY <1>0, <2>2, FailTyped DEF TypeOK
  <2> call[c].pc = "apply"
    BY <1>4 DEF ApplyTransition
  <2>3. CASE Commit(c) /\ UNCHANGED spawned /\ Fail(c, "error")
    <3>1. call' \in [Callers -> Call]
      BY <1>0, <2>3, FailTyped DEF Errors
    <3> QED BY <2>1, <2>3, <3>1, CommitTyped DEF TypeOK
  <2>4. CASE /\ Commit(c)
             /\ Becomes(c, [pc |-> "reload", sess |-> s, org |-> call[c].org,
                            to |-> call[c].to, at |-> Len(events[s]) + 1])
             /\ spawned' = [spawned EXCEPT ![s] =
                  IF TriggersScoring(call[c].to) THEN @ + 1 ELSE @]
    <3>1. Len(events[s]) + 1 \in Nat
      BY <2>1 DEF TypeOK
    <3>2. [pc |-> "reload", sess |-> s, org |-> call[c].org,
           to |-> call[c].to, at |-> Len(events[s]) + 1] \in Call
      BY <2>1, <3>1, Variants
    <3>3. call' \in [Callers -> Call]
      BY <1>0, <2>4, <3>2, BecomesTyped
    <3>4. spawned' \in [Sessions -> Nat]
      BY <2>1, <2>4 DEF TypeOK
    <3> QED BY <2>1, <2>4, <3>3, <3>4, CommitTyped DEF TypeOK
  <2> QED BY <1>4, <2>2, <2>3, <2>4 DEF ApplyTransition, DbError, Errors
<1>5. ASSUME NEW c \in Callers, Get(c) PROVE TypeOK'
  <2> DEFINE s == call[c].sess
  <2>1. s \in Sessions /\ call[c].to \in States /\ call[c].at \in Nat
    BY <1>5, Fields DEF Get
  <2>2. CASE \E err \in Errors : Fail(c, err)
    BY <1>0, <1>5, <2>2, FailTyped DEF Get, TypeOK
  <2>3. CASE /\ Visible(call[c].org, s)
             /\ Becomes(c, [pc |-> "done", sess |-> s, to |-> call[c].to,
                            at |-> call[c].at, seen |-> row[s]])
    <3>1. row[s] \in States
      BY <2>1, <2>3 DEF Visible, TypeOK
    <3>2. [pc |-> "done", sess |-> s, to |-> call[c].to,
           at |-> call[c].at, seen |-> row[s]] \in Call
      BY <2>1, <3>1, Variants
    <3> QED BY <1>0, <1>5, <2>3, <3>2, BecomesTyped DEF Get, TypeOK
  <2> QED BY <1>5, <2>2, <2>3 DEF Get, DbError, Errors
<1>6. CASE UNCHANGED vars
  BY <1>6 DEF vars, TypeOK
<1> QED BY <1>1, <1>2, <1>3, <1>4, <1>5, <1>6 DEF AnyStep

\* A new database is typed.
LEMMA InitTyped == Init => TypeOK
  BY DEF Init, TypeOK, Call

\* The variables keep their types.
THEOREM TypeCorrect == Spec => []TypeOK
<1>1. TypeOK /\ [Next]_vars => TypeOK'
  BY TypeStep, NextIsAnyStep
<1> QED BY <1>1, InitTyped, PTL DEF Spec
-----------------------------------------------------------------------------
(* The inductive invariant *)

\* A commit appends one event, made of the caller's edge, to one session's log.
LEMMA CommitAppends ==
  ASSUME TypeOK, NEW c \in Callers, call[c].pc = "apply", Commit(c)
  PROVE  LET s == call[c].sess IN
         /\ row'[s] = call[c].to
         /\ \A r \in Sessions : r # s => row'[r] = row[r] /\ events'[r] = events[r]
         /\ Len(events'[s]) = Len(events[s]) + 1
         /\ \A n \in 1 .. Len(events[s]) : events'[s][n] = events[s][n]
         /\ events'[s][Len(events[s]) + 1] =
              [from |-> call[c].cur, to |-> call[c].to, org |-> call[c].org, actor |-> c]
<1> DEFINE s == call[c].sess
           e == [from |-> call[c].cur, to |-> call[c].to, org |-> call[c].org, actor |-> c]
<1>1. s \in Sessions /\ call[c].org \in Orgs /\ call[c].to \in States /\ call[c].cur \in States
  BY Fields
<1>2. row' = [row EXCEPT ![s] = call[c].to] /\ events' = [events EXCEPT ![s] = Append(@, e)]
  BY DEF Commit
<1>3. e \in Event /\ events[s] \in Seq(Event)
  BY <1>1 DEF Event, TypeOK
<1>4. events'[s] = Append(events[s], e)
  BY <1>1, <1>2 DEF TypeOK
<1> HIDE DEF e
<1>5. /\ Len(Append(events[s], e)) = Len(events[s]) + 1
      /\ \A n \in 1 .. Len(events[s]) : Append(events[s], e)[n] = events[s][n]
      /\ Append(events[s], e)[Len(events[s]) + 1] = e
  BY <1>3
<1> QED BY <1>1, <1>2, <1>4, <1>5 DEF TypeOK, e

\* Steps that touch neither rows nor logs keep what is said about them.
LEMMA StoreUnchanged ==
  ASSUME IInv, UNCHANGED <<row, events, spawned>>
  PROVE  AuditChain' /\ OwnOrgOnly' /\ ScoringStartsOnce'
  BY DEF IInv, AuditChain, After, OwnOrgOnly, ScoringStartsOnce

\* The committed transition extends the legal path of its session.
LEMMA CommitKeepsChain ==
  ASSUME IInv, NEW c \in Callers, call[c].pc = "apply", StillAsRead(c),
         Visible(call[c].org, call[c].sess), Commit(c)
  PROVE  AuditChain' /\ OwnOrgOnly'
<1> USE DEF IInv
<1>s. PICK s \in Sessions : s = call[c].sess
  BY Fields
<1>n. PICK n0 \in Nat : n0 = Len(events[s])
  BY DEF TypeOK
<1>1. call[c].to \in States /\ call[c].cur \in States
  BY Fields
<1>2. <<row[s], call[c].to>> \in Edges /\ row[s] = call[c].cur /\ row[s] # NoRow
  BY <1>s DEF ValidatedEdge, StillAsRead, Visible
<1>3. row[s] = After(s, n0)
  BY <1>2, <1>n DEF AuditChain
<1>4. /\ row'[s] = call[c].to
      /\ \A r \in Sessions : r # s => row'[r] = row[r] /\ events'[r] = events[r]
      /\ Len(events'[s]) = n0 + 1
      /\ \A n \in 1 .. n0 : events'[s][n] = events[s][n]
      /\ events'[s][n0 + 1] = [from |-> call[c].cur, to |-> call[c].to,
                               org |-> call[c].org, actor |-> c]
  BY <1>s, <1>n, CommitAppends
<1>5. AuditChain'
  <2> SUFFICES ASSUME NEW r \in Sessions
               PROVE  /\ row'[r] = NoRow => events'[r] = << >>
                      /\ row'[r] # NoRow => row'[r] = After(r, Len(events[r]))'
                      /\ \A n \in 1 .. Len(events'[r]) :
                           /\ events'[r][n].from = After(r, n - 1)'
                           /\ <<events'[r][n].from, events'[r][n].to>> \in Edges
    BY DEF AuditChain
  <2>1. CASE r # s
    BY <1>4, <2>1 DEF AuditChain, After
  <2>2. CASE r = s
    <3>1. row'[s] # NoRow
      BY <1>1, <1>4, NoRowIsNoState
    <3>2. row'[s] = After(s, Len(events[s]))'
      BY <1>1, <1>4 DEF After
    <3>3. ASSUME NEW n \in 1 .. Len(events'[s])
          PROVE  /\ events'[s][n].from = After(s, n - 1)'
                 /\ <<events'[s][n].from, events'[s][n].to>> \in Edges
      <4>1. CASE n \in 1 .. n0
        <5>1. events'[s][n] = events[s][n]
          BY <1>4, <4>1
        <5>2. After(s, n - 1)' = After(s, n - 1)
          <6>1. CASE n = 1
            BY <6>1 DEF After
          <6>2. CASE n # 1
            <7>1. n - 1 \in 1 .. n0 /\ n - 1 # 0
              BY <4>1, <6>2
            <7>2. events'[s][n - 1] = events[s][n - 1]
              BY <1>4, <7>1
            <7> QED BY <7>1, <7>2 DEF After
          <6> QED BY <6>1, <6>2
        <5> QED BY <1>1, <4>1, <5>1, <5>2, <1>n DEF AuditChain
      <4>2. CASE n = n0 + 1
        <5>1. After(s, n - 1)' = After(s, n0)
          BY <1>1, <1>4, <4>2 DEF After
        <5> QED BY <1>2, <1>3, <1>4, <4>2, <5>1
      <4> QED BY <1>1, <1>4, <4>1, <4>2
    <3> QED BY <2>2, <3>1, <3>2, <3>3
  <2> QED BY <2>1, <2>2
<1>6. OwnOrgOnly'
  <2>1. Owner[s] = call[c].org
    BY <1>s DEF Visible
  <2> QED BY <1>n, <1>4, <2>1 DEF OwnOrgOnly
<1> QED BY <1>5, <1>6

\* Whether or not the scorer is started, it has been started at most once.
LEMMA CommitKeepsScoring ==
  ASSUME IInv, NEW c \in Callers, call[c].pc = "apply", StillAsRead(c), Commit(c),
         \/ UNCHANGED spawned
         \/ spawned' = [spawned EXCEPT ![call[c].sess] =
                          IF TriggersScoring(call[c].to) THEN @ + 1 ELSE @]
  PROVE  ScoringStartsOnce'
<1> DEFINE s == call[c].sess
<1> USE DEF IInv
<1>1. s \in Sessions
  BY Fields
<1>2. <<row[s], call[c].to>> \in Edges
  BY DEF ValidatedEdge, StillAsRead
<1>3. row'[s] = call[c].to /\ \A r \in Sessions : r # s => row'[r] = row[r]
  BY CommitAppends
<1>4. /\ call[c].to = "scoring" => row[s] = "completed"
      /\ row[s] \in ScoringOrLater => call[c].to \in {"scored", "failed"}
  BY <1>2, ScoringIsEnteredOnce
<1>5. spawned \in [Sessions -> Nat] /\ spawned[s] \in {0, 1}
  BY <1>1 DEF TypeOK, ScoringStartsOnce
<1>6. spawned[s] = 1 => row'[s] \in ScoringOrLater /\ ~TriggersScoring(call[c].to)
  BY <1>1, <1>3, <1>4 DEF ScoringStartsOnce, ScoringOrLater, TriggersScoring
<1>7. TriggersScoring(call[c].to) => spawned[s] = 0 /\ row'[s] \in ScoringOrLater
  BY <1>3, <1>5, <1>6 DEF ScoringOrLater, TriggersScoring
<1> QED BY <1>1, <1>3, <1>5, <1>6, <1>7 DEF ScoringStartsOnce

\* A caller's record may only become "apply" with a legal edge in it.
LEMMA BecomesEdge ==
  ASSUME call \in [Callers -> Call], ValidatedEdge, NEW c \in Callers, NEW v, Becomes(c, v),
         v.pc = "apply" => <<v.cur, v.to>> \in Edges
  PROVE  ValidatedEdge'
  BY DEF Becomes, ValidatedEdge

\* A failed round trip leaves the edges of the calls legal.
LEMMA FailEdge ==
  ASSUME call \in [Callers -> Call], ValidatedEdge, NEW c \in Callers, NEW err, Fail(c, err)
  PROVE  ValidatedEdge'
<1> DEFINE v == [pc |-> "failed", err |-> err]
<1>1. Becomes(c, v) /\ v.pc # "apply"
  BY DEF Fail
<1> HIDE DEF v
<1> QED BY <1>1, BecomesEdge

\* The inductive step.
LEMMA InvStep == IInv /\ [AnyStep]_vars /\ TypeOK' => IInv'
<1> SUFFICES ASSUME IInv, [AnyStep]_vars, TypeOK' PROVE IInv'
  OBVIOUS
<1>0. call \in [Callers -> Call]
  BY DEF IInv, TypeOK
<1>1. ASSUME NEW s \in Sessions, Schedule(s) PROVE IInv'
  <2>1. ValidatedEdge' /\ OwnOrgOnly'
    BY <1>1 DEF Schedule, IInv, ValidatedEdge, OwnOrgOnly
  <2>2. events[s] = << >> /\ spawned[s] = 0
    <3>1. row[s] = NoRow /\ NoRow \notin ScoringOrLater
      BY <1>1 DEF Schedule, NoRow, ScoringOrLater
    <3>2. events[s] = << >>
      BY <3>1 DEF IInv, AuditChain
    <3>3. spawned[s] \in Nat /\ spawned[s] <= 1 /\ spawned[s] # 1
      BY <3>1 DEF IInv, TypeOK, ScoringStartsOnce
    <3>4. spawned[s] = 0
      BY <3>3
    <3> QED BY <3>2, <3>4
  <2>3. /\ row'[s] = "scheduled" /\ UNCHANGED <<events, spawned>>
        /\ \A r \in Sessions : r # s => row'[r] = row[r]
    BY <1>1 DEF Schedule, IInv, TypeOK
  <2>4. AuditChain'
    <3> SUFFICES ASSUME NEW r \in Sessions
                 PROVE  /\ row'[r] = NoRow => events'[r] = << >>
                        /\ row'[r] # NoRow => row'[r] = After(r, Len(events[r]))'
                        /\ \A n \in 1 .. Len(events'[r]) :
                             /\ events'[r][n].from = After(r, n - 1)'
                             /\ <<events'[r][n].from, events'[r][n].to>> \in Edges
      BY DEF AuditChain
    <3>1. CASE r = s
      <4>1. events'[r] = << >> /\ row'[r] = "scheduled"
        BY <2>2, <2>3, <3>1
      <4>2. Len(<< >>) = 0 /\ 1 .. 0 = {}
        OBVIOUS
      <4>3. row'[r] = After(r, Len(events[r]))'
        BY <4>1, <4>2 DEF After
      <4> QED BY <4>1, <4>2, <4>3 DEF NoRow
    <3>2. CASE r # s
      BY <2>3, <3>2 DEF IInv, AuditChain, After
    <3> QED BY <3>1, <3>2
  <2>5. ScoringStartsOnce'
    BY <2>2, <2>3 DEF IInv, ScoringStartsOnce
  <2> QED BY <2>1, <2>4, <2>5 DEF IInv
<1>2. ASSUME NEW c \in Callers, NEW s \in Sessions, NEW o \in Orgs,
             NEW to \in States \cup {Unknown}, Begin(c, s, o, to)
      PROVE  IInv'
  <2>1. ValidatedEdge'
    BY <1>0, <1>2 DEF Begin, Becomes, Fail, IInv, ValidatedEdge
  <2> QED BY <1>2, <2>1, StoreUnchanged DEF Begin, IInv
<1>3. ASSUME NEW c \in Callers, CurrentState(c) PROVE IInv'
  <2>1. ValidatedEdge'
    <3> DEFINE s == call[c].sess
               v == [pc |-> "apply", sess |-> s, org |-> call[c].org,
                     to |-> call[c].to, cur |-> row[s]]
    <3>1. CASE \E err \in Errors : Fail(c, err)
      BY <1>0, <3>1, FailEdge DEF IInv
    <3>2. CASE Validate(row[s], call[c].to) = "ok" /\ Becomes(c, v)
      <4>1. <<v.cur, v.to>> \in Edges
        BY <3>2, ValidateAcceptsEdges
      <4> HIDE DEF v
      <4> QED BY <1>0, <3>2, <4>1, BecomesEdge DEF IInv
    <3> QED BY <1>3, <3>1, <3>2 DEF CurrentState, DbError, Errors
  <2> QED BY <1>3, <2>1, StoreUnchanged DEF CurrentState, IInv
<1>4. ASSUME NEW c \in Callers, ApplyTransition(c) PROVE IInv'
  <2>1. ValidatedEdge'
    <3> DEFINE s == call[c].sess
               v == [pc |-> "reload", sess |-> s, org |-> call[c].org,
                     to |-> call[c].to, at |-> Len(events[s]) + 1]
    <3>1. CASE \E err \in Errors : Fail(c, err)
      BY <1>0, <3>1, FailEdge DEF IInv
    <3>2. CASE Becomes(c, v)
      <4>1. v.pc # "apply"
        OBVIOUS
      <4> HIDE DEF v
      <4> QED BY <1>0, <3>2, <4>1, BecomesEdge DEF IInv
    <3> QED BY <1>4, <3>1, <3>2 DEF ApplyTransition, DbError, Errors
  <2>2. CASE UNCHANGED <<row, events, spawned>>
    BY <2>1, <2>2, StoreUnchanged DEF IInv
  <2>3. CASE /\ Visible(call[c].org, call[c].sess) /\ StillAsRead(c) /\ Commit(c)
             /\ \/ UNCHANGED spawned
                \/ spawned' = [spawned EXCEPT ![call[c].sess] =
                                 IF TriggersScoring(call[c].to) THEN @ + 1 ELSE @]
    <3>1. call[c].pc = "apply"
      BY <1>4 DEF ApplyTransition
    <3> QED BY <2>1, <2>3, <3>1, CommitKeepsChain, CommitKeepsScoring DEF IInv
  <2> QED BY <1>4, <2>2, <2>3 DEF ApplyTransition
<1>5. ASSUME NEW c \in Callers, Get(c) PROVE IInv'
  <2>1. ValidatedEdge'
    <3> DEFINE s == call[c].sess
               v == [pc |-> "done", sess |-> s, to |-> call[c].to,
                     at |-> call[c].at, seen |-> row[s]]
    <3>1. CASE \E err \in Errors : Fail(c, err)
      BY <1>0, <3>1, FailEdge DEF IInv
    <3>2. CASE Becomes(c, v)
      <4>1. v.pc # "apply"
        OBVIOUS
      <4> HIDE DEF v
      <4> QED BY <1>0, <3>2, <4>1, BecomesEdge DEF IInv
    <3> QED BY <1>5, <3>1, <3>2 DEF Get, DbError, Errors
  <2> QED BY <1>5, <2>1, StoreUnchanged DEF Get, IInv
<1>6. CASE UNCHANGED vars
  BY <1>6, StoreUnchanged DEF vars, IInv, ValidatedEdge
<1> QED BY <1>1, <1>2, <1>3, <1>4, <1>5, <1>6 DEF AnyStep

\* The invariant holds at first ...
LEMMA InitIsIInv == Init => IInv
<1> SUFFICES ASSUME Init PROVE IInv
  OBVIOUS
<1>1. ValidatedEdge
  BY DEF Init, ValidatedEdge
<1>2. AuditChain /\ OwnOrgOnly /\ ScoringStartsOnce
  BY DEF Init, AuditChain, OwnOrgOnly, ScoringStartsOnce
<1> QED BY <1>1, <1>2, InitTyped DEF IInv

\* ... and ever after.
LEMMA Invariant == Spec => []IInv
<1>1. IInv /\ [Next]_vars /\ TypeOK' => IInv'
  BY InvStep, NextIsAnyStep
<1> QED BY <1>1, InitIsIInv, TypeCorrect, PTL DEF Spec
-----------------------------------------------------------------------------
(* What follows from it *)

\* The audit log of every session is a legal path from "scheduled" to the state
\* in its row.
THEOREM AuditChainHolds == Spec => []AuditChain
  BY Invariant, PTL DEF IInv

\* Only callers of its own organization ever move a session.
THEOREM OwnOrgOnlyHolds == Spec => []OwnOrgOnly
  BY Invariant, PTL DEF IInv

\* Overall scoring is started at most once per session, after it was handed
\* to scoring.
THEOREM ScoringStartsOnceHolds == Spec => []ScoringStartsOnce
  BY Invariant, PTL DEF IInv

\* What a step does with the row and the log of a session that is over.
Final ==
  \A s \in Sessions : row[s] \in Terminal => row'[s] = row[s] /\ events'[s] = events[s]

\* A step that commits moves a session along a legal edge, so it does not touch
\* a terminal one; no other step writes a row that exists.
LEMMA StepIsFinal == IInv /\ [AnyStep]_vars => [Final]_vars
<1> SUFFICES ASSUME IInv, AnyStep PROVE Final
  BY DEF vars
<1>1. ASSUME NEW s \in Sessions, Schedule(s) PROVE Final
  BY <1>1 DEF Final, Schedule, IInv, TypeOK, NoRow, Terminal
<1>2. ASSUME NEW c \in Callers, ApplyTransition(c) PROVE Final
  <2>1. CASE UNCHANGED <<row, events, spawned>>
    BY <2>1 DEF Final
  <2>2. CASE StillAsRead(c) /\ Commit(c)
    <3>1. call[c].pc = "apply" /\ call[c].sess \in Sessions
      BY <1>2, Fields DEF ApplyTransition, IInv
    <3>2. row[call[c].sess] \notin Terminal
      BY <2>2, <3>1, GraphWellFormed DEF WellFormed, IInv, ValidatedEdge, StillAsRead
    <3> QED BY <2>2, <3>1, <3>2, CommitAppends DEF Final, IInv
  <2> QED BY <1>2, <2>1, <2>2 DEF ApplyTransition
<1> QED BY <1>1, <1>2 DEF Final, AnyStep, Begin, CurrentState, Get

\* A session that is over stays as it is, row and audit log, however many
\* callers still try to move it on what they read before.
THEOREM TerminalIsFinalHolds == Spec => TerminalIsFinal
<1>1. IInv /\ [Next]_vars => [Final]_vars
  BY StepIsFinal, NextIsAnyStep
<1> QED BY <1>1, Invariant, PTL DEF Spec, TerminalIsFinal, Final
-----------------------------------------------------------------------------
(* Answers *)

\* A call that has committed its move finds it in the audit log.
Logged(c) ==
  /\ call[c].at \in 1 .. Len(events[call[c].sess])
  /\ events[call[c].sess][call[c].at].to = call[c].to

\* The state a call was shown is that of its move or of a later one.
Seen(c) ==
  \E n \in call[c].at .. Len(events[call[c].sess]) :
    call[c].seen = events[call[c].sess][n].to

Answers(c) ==
  /\ call[c].pc \in {"reload", "done"} => Logged(c)
  /\ call[c].pc = "done" => Seen(c)

AInv == \A c \in Callers : Answers(c)

\* No step removes or rewrites an event.
LogsGrow ==
  \A s \in Sessions :
    /\ Len(events[s]) <= Len(events'[s])
    /\ \A n \in 1 .. Len(events[s]) : events'[s][n] = events[s][n]

\* No step shortens or rewrites an audit log.
LEMMA StepLogsGrow == IInv /\ AnyStep => LogsGrow
<1> SUFFICES ASSUME IInv, AnyStep PROVE LogsGrow
  OBVIOUS
<1>0. \A s \in Sessions : Len(events[s]) \in Nat
  BY DEF IInv, TypeOK
<1>1. CASE UNCHANGED events
  BY <1>0, <1>1 DEF LogsGrow
<1>2. ASSUME NEW c \in Callers, ApplyTransition(c), Commit(c) PROVE LogsGrow
  <2>1. PICK s \in Sessions : s = call[c].sess
    BY <1>2, Fields DEF ApplyTransition, IInv
  <2>2. /\ \A r \in Sessions : r # s => events'[r] = events[r]
        /\ Len(events'[s]) = Len(events[s]) + 1
        /\ \A n \in 1 .. Len(events[s]) : events'[s][n] = events[s][n]
    BY <1>2, <2>1, CommitAppends DEF ApplyTransition, IInv
  <2> QED BY <1>0, <2>2 DEF LogsGrow
<1> QED BY <1>1, <1>2 DEF AnyStep, Schedule, Begin, CurrentState, ApplyTransition, Get

\* What a call remembers of the log stays true while the log grows.
LEMMA KeepsAnswers ==
  ASSUME TypeOK, TypeOK', LogsGrow, NEW d \in Callers, Answers(d), call'[d] = call[d]
  PROVE  Answers(d)'
<1> SUFFICES ASSUME call[d].pc \in {"reload", "done"}
             PROVE  Logged(d)' /\ (call[d].pc = "done" => Seen(d)')
  BY DEF Answers
<1>1. PICK s \in Sessions : s = call[d].sess
  BY DEF TypeOK, Call
<1>2. PICK k \in Nat : k = call[d].at
  BY DEF TypeOK, Call
<1>3. Len(events[s]) \in Nat /\ Len(events'[s]) \in Nat
  BY <1>1 DEF TypeOK
<1>4. /\ Len(events[s]) <= Len(events'[s])
      /\ \A n \in 1 .. Len(events[s]) : events'[s][n] = events[s][n]
  BY DEF LogsGrow
<1>5. k \in 1 .. Len(events[s]) /\ events[s][k].to = call[d].to
  BY <1>1, <1>2 DEF Answers, Logged
<1>6. Logged(d)'
  BY <1>1, <1>2, <1>3, <1>4, <1>5 DEF Logged
<1>7. ASSUME call[d].pc = "done" PROVE Seen(d)'
  <2>1. PICK n \in k .. Len(events[s]) : call[d].seen = events[s][n].to
    BY <1>1, <1>2, <1>7 DEF Answers, Seen
  <2>2. n \in 1 .. Len(events[s]) /\ n \in k .. Len(events'[s])
    BY <1>3, <1>4, <1>5, <2>1
  <2> QED BY <1>1, <1>2, <1>4, <2>1, <2>2 DEF Seen
<1> QED BY <1>6, <1>7

\* A caller whose new record is neither of an answer nor of a pending one.
LEMMA NoAnswer ==
  ASSUME call \in [Callers -> Call], NEW c \in Callers, NEW v, Becomes(c, v),
         v.pc \notin {"reload", "done"}
  PROVE  Answers(c)' /\ \A d \in Callers \ {c} : call'[d] = call[d]
  BY DEF Becomes, Answers

\* A failed round trip answers nobody with success.
LEMMA FailNoAnswer ==
  ASSUME call \in [Callers -> Call], NEW c \in Callers, NEW err, Fail(c, err)
  PROVE  Answers(c)' /\ \A d \in Callers \ {c} : call'[d] = call[d]
<1> DEFINE v == [pc |-> "failed", err |-> err]
<1>1. Becomes(c, v) /\ v.pc \notin {"reload", "done"}
  BY DEF Fail
<1> HIDE DEF v
<1> QED BY <1>1, NoAnswer

\* Every step keeps what is known of the calls that have committed.
LEMMA AnswerStep == IInv /\ TypeOK' /\ AInv /\ [AnyStep]_vars => AInv'
<1> SUFFICES ASSUME IInv, TypeOK', AInv, AnyStep PROVE AInv'
  BY DEF vars, AInv, Answers, Logged, Seen
<1>0. LogsGrow /\ TypeOK /\ call \in [Callers -> Call]
  BY StepLogsGrow DEF IInv, TypeOK
<1>a. ASSUME NEW c \in Callers, Answers(c)', \A d \in Callers \ {c} : call'[d] = call[d]
      PROVE  AInv'
  BY <1>0, <1>a, KeepsAnswers DEF AInv
<1>1. ASSUME NEW s \in Sessions, Schedule(s) PROVE AInv'
  BY <1>0, <1>1, KeepsAnswers DEF Schedule, AInv
<1>2. ASSUME NEW c \in Callers, NEW s \in Sessions, NEW o \in Orgs,
             NEW to \in States \cup {Unknown}, Begin(c, s, o, to)
      PROVE  AInv'
  <2> DEFINE v == [pc |-> "read", sess |-> s, org |-> o, to |-> to]
  <2>1. CASE Becomes(c, v)
    <3>1. v.pc \notin {"reload", "done"}
      OBVIOUS
    <3> HIDE DEF v
    <3> QED BY <1>0, <1>a, <2>1, <3>1, NoAnswer
  <2>2. CASE Fail(c, "invalid")
    BY <1>0, <1>a, <2>2, FailNoAnswer
  <2> QED BY <1>2, <2>1, <2>2 DEF Begin
<1>3. ASSUME NEW c \in Callers, CurrentState(c) PROVE AInv'
  <2> DEFINE v == [pc |-> "apply", sess |-> call[c].sess, org |-> call[c].org,
                   to |-> call[c].to, cur |-> row[call[c].sess]]
  <2>1. CASE Becomes(c, v)
    <3>1. v.pc \notin {"reload", "done"}
      OBVIOUS
    <3> HIDE DEF v
    <3> QED BY <1>0, <1>a, <2>1, <3>1, NoAnswer
  <2>2. CASE \E err \in Errors : Fail(c, err)
    BY <1>0, <1>a, <2>2, FailNoAnswer
  <2> QED BY <1>3, <2>1, <2>2 DEF CurrentState, DbError, Errors
<1>4. ASSUME NEW c \in Callers, ApplyTransition(c) PROVE AInv'
  <2>1. PICK s \in Sessions : s = call[c].sess
    BY <1>0, <1>4, Fields DEF ApplyTransition
  <2>2. PICK n0 \in Nat : n0 = Len(events[s])
    BY <1>0 DEF TypeOK
  <2> DEFINE v == [pc |-> "reload", sess |-> s, org |-> call[c].org,
                   to |-> call[c].to, at |-> n0 + 1]
  <2>3. CASE \E err \in Errors : Fail(c, err)
    BY <1>0, <1>a, <2>3, FailNoAnswer
  <2>4. CASE Becomes(c, v) /\ Commit(c)
    <3>0. call[c].pc = "apply" /\ Commit(c)
      BY <1>4, <2>4 DEF ApplyTransition
    <3>1. /\ Len(events'[s]) = n0 + 1
          /\ events'[s][n0 + 1] = [from |-> call[c].cur, to |-> call[c].to,
                                   org |-> call[c].org, actor |-> c]
      BY <1>0, <2>1, <2>2, <3>0, CommitAppends
    <3>e. events'[s][n0 + 1].to = call[c].to
      BY <3>1
    <3>2. call'[c] = v /\ \A d \in Callers \ {c} : call'[d] = call[d]
      BY <1>0, <2>4 DEF Becomes
    <3>3. /\ v.pc = "reload" /\ v.sess = s /\ v.to = call[c].to /\ v.at = n0 + 1
      OBVIOUS
    <3> HIDE DEF v
    <3>4. Logged(c)'
      BY <2>2, <3>1, <3>e, <3>2, <3>3 DEF Logged
    <3>5. Answers(c)'
      BY <3>2, <3>3, <3>4 DEF Answers
    <3> QED BY <1>a, <3>2, <3>5
  <2> QED BY <1>4, <2>1, <2>2, <2>3, <2>4 DEF ApplyTransition, DbError, Errors
<1>5. ASSUME NEW c \in Callers, Get(c) PROVE AInv'
  <2>1. PICK s \in Sessions : s = call[c].sess
    BY <1>0, <1>5, Fields DEF Get
  <2>2. PICK n0 \in Nat : n0 = Len(events[s])
    BY <1>0 DEF TypeOK
  <2>3. PICK k \in Nat : k = call[c].at
    BY <1>0, <1>5, Fields DEF Get
  <2>4. k \in 1 .. n0 /\ events[s][k].to = call[c].to
    BY <1>5, <2>1, <2>2, <2>3 DEF Get, AInv, Answers, Logged
  <2> DEFINE v == [pc |-> "done", sess |-> s, to |-> call[c].to, at |-> k, seen |-> row[s]]
  <2>5. CASE \E err \in Errors : Fail(c, err)
    BY <1>0, <1>a, <2>5, FailNoAnswer
  <2>6. CASE Becomes(c, v) /\ row[s] # NoRow
    <3>1. UNCHANGED events
      BY <1>5 DEF Get
    <3>2. call'[c] = v /\ \A d \in Callers \ {c} : call'[d] = call[d]
      BY <1>0, <2>6 DEF Becomes
    <3>3. /\ v.pc = "done" /\ v.sess = s /\ v.to = call[c].to /\ v.at = k /\ v.seen = row[s]
      OBVIOUS
    <3>4. row[s] = events[s][n0].to /\ n0 \in k .. n0
      BY <2>2, <2>4, <2>6 DEF IInv, AuditChain, After
    <3> HIDE DEF v
    <3>5. Logged(c)'
      BY <2>2, <2>4, <3>1, <3>2, <3>3 DEF Logged
    <3>6. Seen(c)'
      BY <2>2, <3>1, <3>2, <3>3, <3>4 DEF Seen
    <3>7. Answers(c)'
      BY <3>5, <3>6 DEF Answers
    <3> QED BY <1>a, <3>2, <3>7
  <2> QED BY <1>5, <2>1, <2>3, <2>5, <2>6 DEF Get, DbError, Errors, Visible
<1> QED BY <1>1, <1>2, <1>3, <1>4, <1>5 DEF AnyStep

\* A caller answered with success finds its own move in the log and is shown
\* the state of that move or of a later one, for any number of callers.
THEOREM AnswerIsNotStaleHolds == Spec => []AnswerIsNotStale
<1>1. Init => AInv
  BY DEF Init, AInv, Answers
<1>2. IInv /\ IInv' /\ AInv /\ [Next]_vars => AInv'
  BY AnswerStep, NextIsAnyStep DEF IInv
<1>3. AInv => AnswerIsNotStale
  BY DEF AInv, Answers, Logged, Seen, AnswerIsNotStale
<1> QED BY <1>1, <1>2, <1>3, Invariant, PTL DEF Spec
-----------------------------------------------------------------------------
(* Sessions implements SessionAuthority *)

\* Two sequences, the longer of which adds one element to the shorter.
LEMMA OneLonger ==
  ASSUME NEW S, NEW k \in Nat, NEW p \in [1 .. k -> S], NEW q \in [1 .. k + 1 -> S],
         \A n \in 1 .. k : q[n] = p[n]
  PROVE  Len(p) = k /\ q = Append(p, q[k + 1])
<1> DEFINE a == Append(p, q[k + 1])
<1>1. p \in Seq(S) /\ q \in Seq(S) /\ q[k + 1] \in S
  BY SeqDef
<1>2. Len(p) = k
  BY <1>1
<1>3. /\ a \in Seq(S) /\ Len(a) = k + 1
      /\ \A n \in 1 .. k : a[n] = p[n]
      /\ a[k + 1] = q[k + 1]
  BY <1>1, <1>2, AppendProperties
<1> HIDE DEF a
<1>4. a \in [1 .. k + 1 -> S]
  BY <1>3, LenProperties
<1>5. \A n \in 1 .. k + 1 : a[n] = q[n]
  BY <1>3
<1>6. a = q
  BY <1>4, <1>5
<1> QED BY <1>2, <1>6 DEF a

\* The authority's copy of the graph is the graph.
LEMMA SameGraph == Authority!Edges = Edges /\ Authority!States = States
  BY DEF Authority!Edges, Authority!States, Authority!Terminal, Edges, States, Terminal

\* The history of a session that exists is a sequence of states, one longer
\* than its log, that ends in the state of its row.
HistoryFits(s) ==
  row[s] # NoRow =>
    /\ History[s] \in [1 .. Len(events[s]) + 1 -> States]
    /\ Len(History[s]) = Len(events[s]) + 1
    /\ History[s][Len(events[s]) + 1] = row[s]

\* The history read off an audit log fits the row it belongs to.
LEMMA HistoriesFit == IInv => \A s \in Sessions : HistoryFits(s)
<1> SUFFICES ASSUME IInv, NEW s \in Sessions, row[s] # NoRow PROVE HistoryFits(s)
  BY DEF HistoryFits
<1>1. PICK k \in Nat : k = Len(events[s])
  BY DEF IInv, TypeOK
<1>2. History[s] = [n \in 1 .. k + 1 |-> After(s, n - 1)]
  BY <1>1 DEF History
<1>3. ASSUME NEW n \in 1 .. k + 1 PROVE After(s, n - 1) \in States
  <2>1. CASE n = 1
    BY <2>1 DEF After, States
  <2>2. CASE n # 1
    <3>1. n - 1 \in 1 .. Len(events[s]) /\ n - 1 # 0
      BY <1>1, <1>3, <2>2
    <3>2. events[s][n - 1] \in Event
      BY <3>1 DEF IInv, TypeOK
    <3> QED BY <3>1, <3>2 DEF After, Event
  <2> QED BY <2>1, <2>2
<1>4. History[s] \in [1 .. k + 1 -> States]
  BY <1>2, <1>3
<1>5. History[s] \in Seq(States)
  BY <1>4, SeqDef
<1>6. Len(History[s]) = k + 1
  BY <1>4, <1>5
<1>7. History[s][k + 1] = After(s, k)
  BY <1>2
<1>8. row[s] = After(s, k)
  BY <1>1 DEF IInv, AuditChain
<1> QED BY <1>1, <1>4, <1>6, <1>7, <1>8 DEF HistoryFits

\* The same, one step later.
LEMMA HistoriesFitNext == IInv' => (\A s \in Sessions : HistoryFits(s))'
  BY HistoriesFit, PTL

\* A new row is the creation of the session.
LEMMA ScheduleCreates ==
  ASSUME IInv, NEW s \in Sessions, Schedule(s)
  PROVE  Authority!Create(s)
<1>1. row[s] = NoRow /\ events[s] = << >> /\ UNCHANGED events
  BY DEF Schedule, IInv, AuditChain
<1>2. row' = [row EXCEPT ![s] = "scheduled"] /\ "scheduled" # NoRow
  BY DEF Schedule, NoRow
<1>3. History[s] = << >>
  BY <1>1 DEF History
<1>4. History'[s] = <<"scheduled">>
  <2>1. row'[s] # NoRow /\ Len(events'[s]) = 0
    BY <1>1, <1>2 DEF IInv, TypeOK
  <2>2. History'[s] = [n \in 1 .. 0 + 1 |-> After(s, n - 1)']
    BY <2>1 DEF History
  <2>3. \A n \in 1 .. 0 + 1 : After(s, n - 1)' = "scheduled"
    BY DEF After
  <2>4. History'[s] = [n \in 1 .. 1 |-> "scheduled"]
    BY <2>2, <2>3
  <2> QED BY <2>4
<1>5. \A r \in Sessions : r # s => History'[r] = History[r]
  BY <1>1, <1>2 DEF History, After, IInv, TypeOK
<1>6. History' = [History EXCEPT ![s] = <<"scheduled">>]
  BY <1>4, <1>5 DEF History
<1> QED BY <1>3, <1>6 DEF Authority!Create

\* A commit is a move of the authority.
LEMMA CommitMoves ==
  ASSUME IInv, IInv', NEW c \in Callers, call[c].pc = "apply", StillAsRead(c),
         Visible(call[c].org, call[c].sess), Commit(c)
  PROVE  \E s \in Sessions, to \in States : Authority!Move(s, to)
<1>s. PICK s \in Sessions : s = call[c].sess
  BY Fields DEF IInv
<1>n. PICK k \in Nat : k = Len(events[s])
  BY DEF IInv, TypeOK
<1>1. call[c].to \in States /\ call[c].to # NoRow
  BY Fields, NoRowIsNoState DEF IInv
<1>2. row[s] # NoRow /\ <<row[s], call[c].to>> \in Edges
  BY <1>s DEF IInv, ValidatedEdge, StillAsRead, Visible
<1>3. /\ row'[s] = call[c].to
      /\ \A r \in Sessions : r # s => row'[r] = row[r] /\ events'[r] = events[r]
      /\ Len(events'[s]) = k + 1
      /\ \A n \in 1 .. k : events'[s][n] = events[s][n]
  BY <1>s, <1>n, CommitAppends DEF IInv
<1>4. /\ History[s] \in [1 .. k + 1 -> States]
      /\ Len(History[s]) = k + 1
      /\ History[s][k + 1] = row[s]
  BY <1>n, <1>2, HistoriesFit DEF HistoryFits
<1>5. /\ History'[s] \in [1 .. (k + 1) + 1 -> States]
      /\ History'[s][(k + 1) + 1] = call[c].to
  BY <1>1, <1>3, HistoriesFitNext DEF HistoryFits
<1>6. ASSUME NEW n \in 1 .. k + 1 PROVE History'[s][n] = History[s][n]
  <2>1. History'[s][n] = After(s, n - 1)' /\ History[s][n] = After(s, n - 1)
    BY <1>n, <1>1, <1>2, <1>3 DEF History
  <2>2. CASE n = 1
    BY <2>1, <2>2 DEF After
  <2>3. CASE n # 1
    <3>1. n - 1 \in 1 .. k /\ n - 1 # 0
      BY <2>3
    <3>2. events'[s][n - 1] = events[s][n - 1]
      BY <1>3, <3>1
    <3> QED BY <2>1, <3>1, <3>2 DEF After
  <2> QED BY <2>2, <2>3
<1>7. History'[s] = Append(History[s], call[c].to)
  BY <1>4, <1>5, <1>6, OneLonger
<1>8. \A r \in Sessions : r # s => History'[r] = History[r]
  BY <1>3 DEF History, After
<1>9. History' = [History EXCEPT ![s] = Append(@, call[c].to)]
  BY <1>7, <1>8 DEF History
<1>10. History[s] # << >> /\ <<History[s][Len(History[s])], call[c].to>> \in Edges
  BY <1>2, <1>4
<1>11. Authority!Move(s, call[c].to)
  BY <1>9, <1>10, SameGraph DEF Authority!Move
<1> QED BY <1>1, <1>11

\* Every step of the callers is a step of the authority or none.
LEMMA StepRefines == IInv /\ IInv' /\ [AnyStep]_vars => [Authority!Next]_History
<1> SUFFICES ASSUME IInv, IInv', [AnyStep]_vars PROVE [Authority!Next]_History
  OBVIOUS
<1>1. CASE UNCHANGED <<row, events>>
  BY <1>1 DEF History, After
<1>2. ASSUME NEW s \in Sessions, Schedule(s) PROVE Authority!Next
  BY <1>2, ScheduleCreates DEF Authority!Next
<1>3. ASSUME NEW c \in Callers, ApplyTransition(c) PROVE [Authority!Next]_History
  <2>1. CASE /\ Visible(call[c].org, call[c].sess) /\ StillAsRead(c) /\ Commit(c)
    <3>1. \E s \in Sessions, to \in States : Authority!Move(s, to)
      BY <1>3, <2>1, CommitMoves DEF ApplyTransition
    <3> QED BY <3>1, SameGraph DEF Authority!Next
  <2> QED BY <1>1, <1>3, <2>1 DEF ApplyTransition
<1> QED BY <1>1, <1>2, <1>3 DEF AnyStep, vars, Begin, CurrentState, Get

\* Any number of concurrent callers, with round trips that fail before or after
\* their commit, implement the abstract authority.
THEOREM Refinement == Spec => ImplementsAuthority
<1>1. Init => Authority!Init
  BY DEF Init, Authority!Init, History
<1>2. IInv /\ IInv' /\ [Next]_vars => [Authority!Next]_History
  BY StepRefines, NextIsAnyStep
<1> QED BY <1>1, <1>2, Invariant, PTL DEF Spec, ImplementsAuthority, Authority!Spec
-----------------------------------------------------------------------------
(* Colliding starts *)

\* The session has been at the i-th state of the chain.
Passed(s, i) ==
  i = 1 \/ \E n \in 1 .. Len(events[s]) : events[s][n].to = preCallChain[i]

\* Where a start is, and what its call of Advance is for.
Place(p) ==
  LET t == start[p] IN
  /\ t.pc # "advance" => Idle(p)
  /\ t.pc = "advance" =>
       /\ t.i \in 1 .. 4 /\ call[p].pc # "idle"
       /\ call[p].pc \in {"read", "apply", "reload", "done"} =>
            call[p].sess = t.sess /\ call[p].to = preCallChain[t.i + 1]
       /\ call[p].pc \in {"read", "apply", "reload"} => call[p].org = Owner[t.sess]
  /\ t.pc \in {"hop", "advance"} => Passed(t.sess, t.i)
  /\ t.pc = "returned" /\ t.result = "ok" /\ ChainIndex(t.found) # 0 => Passed(t.sess, 5)
  /\ t.pc # "idle" /\ t.found # NoRow => row[t.sess] # NoRow

\* Nobody but the starts has moved the session.
Quiet(s) == \A n \in 1 .. Len(events[s]) : events[s][n].actor \in Starters

\* Then it is on its way to the call.
OnChain(s) == Quiet(s) /\ row[s] # NoRow => \E k \in 1 .. 5 : row[s] = preCallChain[k]

\* A start has found the session.
Engaged(p, s) == start[p].pc # "idle" /\ start[p].sess = s /\ start[p].found # NoRow

\* A start that is as far as the session, or that the database has stopped.
Front(p, s) ==
  LET t == start[p] IN
  /\ t.pc # "idle" /\ t.sess = s
  /\ \/ t.pc = "hop" /\ row[s] = preCallChain[t.i]
     \/ /\ t.pc = "advance"
        /\ \/ call[p].pc = "read" /\ row[s] = preCallChain[t.i]
           \/ call[p].pc = "apply" /\ row[s] = preCallChain[t.i] /\ call[p].cur = row[s]
           \/ call[p].pc \in {"reload", "done"} /\ row[s] = preCallChain[t.i + 1]
           \/ call[p].pc = "failed" /\ call[p].err = "error"
     \/ t.pc = "returned" /\ t.result = "error"

\* A session short of the call has such a start.
Pushed(s) ==
  /\ Quiet(s) /\ row[s] \notin {NoRow, "in_progress"}
  /\ \E p \in Starters : Engaged(p, s)
  => \E p \in Starters : Front(p, s)

\* The inductive invariant.
JInv ==
  /\ IInv /\ AInv /\ JoinTypeOK
  /\ \A p \in Starters : Place(p)
  /\ \A s \in Sessions : OnChain(s) /\ Pushed(s)
-----------------------------------------------------------------------------
(* The chain *)

\* preCallChain goes along the graph to the call.
LEMMA Chain ==
  /\ Len(preCallChain) = 5
  /\ preCallChain[1] = "scheduled" /\ preCallChain[5] = "in_progress"
  /\ \A i \in 1 .. 5 : preCallChain[i] \in States \ Terminal /\ preCallChain[i] # NoRow
  /\ \A i \in 1 .. 5 : preCallChain[i] = "scheduled" => i = 1
  /\ \A i \in 1 .. 4 : Validate(preCallChain[i], preCallChain[i + 1]) = "ok"
<1>1. /\ Len(preCallChain) = 5 /\ preCallChain[1] = "scheduled"
      /\ preCallChain[2] = "invited" /\ preCallChain[3] = "ready"
      /\ preCallChain[4] = "dispatched" /\ preCallChain[5] = "in_progress"
  BY DEF preCallChain
<1>2. \A i \in 1 .. 5 : i = 1 \/ i = 2 \/ i = 3 \/ i = 4 \/ i = 5
  OBVIOUS
<1>3. \A i \in 1 .. 5 : preCallChain[i] \in States \ Terminal /\ preCallChain[i] # NoRow
  BY <1>1, <1>2 DEF States, Terminal, NoRow
<1>4. \A i \in 1 .. 4 : <<preCallChain[i], preCallChain[i + 1]>> \in Edges
  <2>1. \A i \in 1 .. 4 : i = 1 \/ i = 2 \/ i = 3 \/ i = 4
    OBVIOUS
  <2> QED BY <1>1, <2>1 DEF Edges
<1>5. \A i \in 1 .. 4 : i \in 1 .. 5 /\ i + 1 \in 1 .. 5
  OBVIOUS
<1>6. \A i \in 1 .. 5 : preCallChain[i] = "scheduled" => i = 1
  BY <1>1, <1>2
<1>7. \A i \in 1 .. 4 : Validate(preCallChain[i], preCallChain[i + 1]) = "ok"
  BY <1>3, <1>4, <1>5 DEF Validate, Has, IsTerminal
<1> QED BY <1>1, <1>3, <1>6, <1>7

\* ChainIndex finds a state of the chain, and nothing else.
LEMMA ChainIndexFinds ==
  ASSUME NEW state
  PROVE  /\ ChainIndex(state) \in 0 .. 5
         /\ ChainIndex(state) # 0 => preCallChain[ChainIndex(state)] = state
         /\ (\E k \in 1 .. 5 : state = preCallChain[k]) => ChainIndex(state) # 0
<1>1. CASE \E i \in 1 .. Len(preCallChain) : preCallChain[i] = state
  <2>1. ChainIndex(state) = CHOOSE i \in 1 .. Len(preCallChain) : preCallChain[i] = state
    BY <1>1 DEF ChainIndex
  <2>2. ChainIndex(state) \in 1 .. Len(preCallChain) /\ preCallChain[ChainIndex(state)] = state
    BY <1>1, <2>1
  <2> QED BY <2>2, Chain
<1>2. CASE ~\E i \in 1 .. Len(preCallChain) : preCallChain[i] = state
  <2>1. ChainIndex(state) = 0
    BY <1>2 DEF ChainIndex
  <2> QED BY <1>2, <2>1, Chain
<1> QED BY <1>1, <1>2
-----------------------------------------------------------------------------
(* Calls *)

\* A call that is refused is behind the row, or is a stranger's.
Refused(c) ==
  LET s == call[c].sess IN
  \/ ~Visible(call[c].org, s)
  \/ call[c].pc = "read" /\ Validate(row[s], call[c].to) # "ok"
  \/ call[c].pc = "apply" /\ ~StillAsRead(c)

\* The round trips of Advance.
CallStep(c) == CurrentState(c) \/ ApplyTransition(c) \/ Get(c)

\* What a round trip does to the caller's record.
LEMMA CallOutcome ==
  ASSUME TypeOK, NEW c \in Callers, CallStep(c)
  PROVE  /\ \A d \in Callers \ {c} : call'[d] = call[d]
         /\ call[c].pc \in {"read", "apply", "reload"}
         /\ \/ /\ UNCHANGED <<row, events>>
               /\ call'[c].pc = "failed" /\ (call'[c].err = "error" \/ Refused(c))
            \/ /\ UNCHANGED <<row, events>> /\ call[c].pc = "read" /\ call'[c].pc = "apply"
               /\ call'[c].sess = call[c].sess /\ call'[c].org = call[c].org
               /\ call'[c].to = call[c].to /\ call'[c].cur = row[call[c].sess]
            \/ /\ call[c].pc = "apply" /\ Commit(c)
               /\ \/ call'[c].pc = "failed" /\ call'[c].err = "error"
                  \/ /\ call'[c].pc = "reload" /\ call'[c].sess = call[c].sess
                     /\ call'[c].org = call[c].org /\ call'[c].to = call[c].to
            \/ /\ UNCHANGED <<row, events>> /\ call[c].pc = "reload" /\ call'[c].pc = "done"
               /\ call'[c].sess = call[c].sess /\ call'[c].to = call[c].to
<1>0. call \in [Callers -> Call]
  BY DEF TypeOK
<1>1. ASSUME NEW v, Becomes(c, v)
      PROVE  call'[c] = v /\ \A d \in Callers \ {c} : call'[d] = call[d]
  BY <1>0, <1>1 DEF Becomes
<1>2. ASSUME NEW err, Fail(c, err)
      PROVE  /\ call'[c].pc = "failed" /\ call'[c].err = err
             /\ \A d \in Callers \ {c} : call'[d] = call[d]
  <2> DEFINE v == [pc |-> "failed", err |-> err]
  <2>1. Becomes(c, v) /\ v.pc = "failed" /\ v.err = err
    BY <1>2 DEF Fail
  <2> HIDE DEF v
  <2> QED BY <1>1, <2>1
<1>3. CASE CurrentState(c)
  <2> DEFINE s == call[c].sess
             v == [pc |-> "apply", sess |-> s, org |-> call[c].org,
                   to |-> call[c].to, cur |-> row[s]]
  <2>0. UNCHANGED <<row, events>> /\ call[c].pc = "read"
    BY <1>3 DEF CurrentState
  <2>1. CASE DbError(c)
    BY <1>2, <2>0, <2>1 DEF DbError
  <2>2. CASE Refused(c) /\ \E err : Fail(c, err)
    BY <1>2, <2>0, <2>2
  <2>3. CASE Becomes(c, v)
    <3>1. /\ v.pc = "apply" /\ v.sess = s /\ v.org = call[c].org
          /\ v.to = call[c].to /\ v.cur = row[s]
      OBVIOUS
    <3> HIDE DEF v
    <3> QED BY <1>1, <2>0, <2>3, <3>1
  <2> QED BY <1>3, <2>1, <2>2, <2>3 DEF CurrentState, Refused
<1>4. CASE ApplyTransition(c)
  <2> DEFINE s == call[c].sess
             v == [pc |-> "reload", sess |-> s, org |-> call[c].org,
                   to |-> call[c].to, at |-> Len(events[s]) + 1]
  <2>0. call[c].pc = "apply"
    BY <1>4 DEF ApplyTransition
  <2>1. CASE UNCHANGED <<row, events>> /\ DbError(c)
    BY <1>2, <2>0, <2>1 DEF DbError
  <2>2. CASE UNCHANGED <<row, events>> /\ Refused(c) /\ \E err : Fail(c, err)
    BY <1>2, <2>0, <2>2
  <2>3. CASE Commit(c) /\ DbError(c)
    BY <1>2, <2>0, <2>3 DEF DbError
  <2>4. CASE Commit(c) /\ Becomes(c, v)
    <3>1. v.pc = "reload" /\ v.sess = s /\ v.org = call[c].org /\ v.to = call[c].to
      OBVIOUS
    <3> HIDE DEF v
    <3> QED BY <1>1, <2>0, <2>4, <3>1
  <2> QED BY <1>4, <2>1, <2>2, <2>3, <2>4 DEF ApplyTransition, Refused
<1>5. CASE Get(c)
  <2> DEFINE s == call[c].sess
             v == [pc |-> "done", sess |-> s, to |-> call[c].to,
                   at |-> call[c].at, seen |-> row[s]]
  <2>0. UNCHANGED <<row, events>> /\ call[c].pc = "reload"
    BY <1>5 DEF Get
  <2>1. CASE DbError(c)
    BY <1>2, <2>0, <2>1 DEF DbError
  <2>2. CASE Refused(c) /\ \E err : Fail(c, err)
    BY <1>2, <2>0, <2>2
  <2>3. CASE Becomes(c, v)
    <3>1. v.pc = "done" /\ v.sess = s /\ v.to = call[c].to
      OBVIOUS
    <3> HIDE DEF v
    <3> QED BY <1>1, <2>0, <2>3, <3>1
  <2> QED BY <1>5, <2>1, <2>2, <2>3 DEF Get, Refused
<1> QED BY <1>3, <1>4, <1>5 DEF CallStep
-----------------------------------------------------------------------------
(* What stays *)

\* The fields of a start.
LEMMA StartFields ==
  ASSUME JoinTypeOK, NEW p \in Starters
  PROVE  /\ start[p].pc \in {"idle", "hop", "advance", "returned"}
         /\ start[p].pc # "idle" => start[p].sess \in Sessions
         /\ start[p].pc \in {"hop", "advance"} =>
              start[p].found \in States /\ start[p].i \in 1 .. 5
         /\ start[p].pc = "returned" =>
              start[p].found \in States \cup {NoRow} /\ start[p].result \in Results
<1>1. start[p] \in Start
  BY DEF JoinTypeOK
<1> QED BY <1>1, Chain DEF Start

\* The records a start goes through.
LEMMA StartVariants ==
  /\ \A s \in Sessions, found \in States, i \in 1 .. 5 :
       /\ [pc |-> "hop", sess |-> s, found |-> found, i |-> i] \in Start
       /\ [pc |-> "advance", sess |-> s, found |-> found, i |-> i] \in Start
  /\ \A s \in Sessions, found \in States \cup {NoRow}, result \in Results :
       [pc |-> "returned", sess |-> s, found |-> found, result |-> result] \in Start
  BY Chain DEF Start

\* A start that goes on leaves the others where they are.
LEMMA GoesTyped ==
  ASSUME JoinTypeOK, NEW p \in Starters, NEW next \in Start, Goes(p, next)
  PROVE  /\ start' \in [Starters -> Start] /\ start'[p] = next
         /\ \A q \in Starters \ {p} : start'[q] = start[q]
  BY DEF JoinTypeOK, Goes

\* Rows that exist stay.
RowsStay == \A s \in Sessions : row[s] # NoRow => row'[s] # NoRow

\* Each step of JoinStart is one of Sessions, or none.
LEMMA BaseStep ==
  ASSUME JInv, [AnyStep]_vars
  PROVE  IInv' /\ AInv' /\ LogsGrow /\ RowsStay
<1>0. IInv /\ AInv /\ TypeOK
  BY DEF JInv, IInv
<1>1. TypeOK'
  BY <1>0, TypeStep
<1>2. IInv' /\ AInv'
  BY <1>0, <1>1, InvStep, AnswerStep
<1>3. CASE UNCHANGED vars
  <2>1. \A s \in Sessions : Len(events[s]) \in Nat
    BY <1>0 DEF TypeOK
  <2> QED BY <1>2, <1>3, <2>1 DEF vars, LogsGrow, RowsStay
<1>4. CASE AnyStep
  <2>1. LogsGrow
    BY <1>0, <1>4, StepLogsGrow
  <2>2. CASE UNCHANGED row
    BY <1>2, <2>1, <2>2 DEF RowsStay
  <2>3. CASE \E s \in Sessions : Schedule(s)
    BY <1>0, <1>2, <2>1, <2>3 DEF RowsStay, Schedule, TypeOK, NoRow
  <2>4. ASSUME NEW c \in Callers, call[c].pc = "apply", Commit(c) PROVE RowsStay
    <3>1. PICK s \in Sessions : s = call[c].sess
      BY <1>0, <2>4, Fields
    <3>2. row'[s] = call[c].to /\ \A r \in Sessions : r # s => row'[r] = row[r]
      BY <1>0, <2>4, <3>1, CommitAppends
    <3>3. call[c].to \in States
      BY <1>0, <2>4, Fields
    <3> QED BY <3>2, <3>3, NoRowIsNoState DEF RowsStay
  <2> QED BY <1>2, <1>4, <2>1, <2>2, <2>3, <2>4
          DEF AnyStep, Begin, CurrentState, ApplyTransition, Get
<1> QED BY <1>3, <1>4

\* What a session has been at, it has been at.
LEMMA PassedStays ==
  ASSUME TypeOK, TypeOK', LogsGrow, NEW s \in Sessions, NEW i, Passed(s, i)
  PROVE  Passed(s, i)'
<1>1. /\ Len(events[s]) \in Nat /\ Len(events'[s]) \in Nat
      /\ Len(events[s]) <= Len(events'[s])
      /\ \A n \in 1 .. Len(events[s]) : n \in 1 .. Len(events'[s]) /\ events'[s][n] = events[s][n]
  BY DEF TypeOK, LogsGrow
<1> QED BY <1>1 DEF Passed

\* A start whose record and call stay is where it was.
LEMMA PlaceStays ==
  ASSUME JoinTypeOK, TypeOK', LogsGrow, RowsStay, NEW p \in Starters, Place(p),
         start'[p] = start[p], call'[p] = call[p]
  PROVE  Place(p)'
<1>1. PICK t : t = start[p] /\ t = start'[p]
  OBVIOUS
<1>2. t.pc # "idle" => t.sess \in Sessions
  BY <1>1, StartFields
<1>3. /\ t.pc \in {"hop", "advance"} => Passed(t.sess, t.i)
      /\ t.pc = "returned" /\ t.result = "ok" /\ ChainIndex(t.found) # 0 => Passed(t.sess, 5)
      /\ t.pc # "idle" /\ t.found # NoRow => row[t.sess] # NoRow
  BY <1>1 DEF Place
<1>4. /\ t.pc \in {"hop", "advance"} => Passed(t.sess, t.i)'
      /\ t.pc = "returned" /\ t.result = "ok" /\ ChainIndex(t.found) # 0 => Passed(t.sess, 5)'
  BY <1>2, <1>3, PassedStays DEF JoinTypeOK
<1>5. t.pc # "idle" /\ t.found # NoRow => row'[t.sess] # NoRow
  BY <1>2, <1>3 DEF RowsStay
<1> QED BY <1>1, <1>4, <1>5 DEF Place, Idle, Passed

\* A session nobody moves stays on the chain.
LEMMA OnChainStays ==
  ASSUME NEW s, OnChain(s), row'[s] = row[s], events'[s] = events[s]
  PROVE  OnChain(s)'
  BY DEF OnChain, Quiet

\* It stays pushed while its starts stay ahead and no new one falls behind.
LEMMA PushedStays ==
  ASSUME NEW s, Pushed(s), row'[s] = row[s], events'[s] = events[s],
         \A p \in Starters : Front(p, s) => Front(p, s)',
         \A p \in Starters : Engaged(p, s)' => Engaged(p, s) \/ Front(p, s)'
  PROVE  Pushed(s)'
<1>1. Quiet(s)' => Quiet(s)
  BY DEF Quiet
<1> QED BY <1>1 DEF Pushed

\* A start that does nothing, at a session nobody moves, stays at its front.
LEMMA FrontStays ==
  ASSUME NEW p, NEW s, start'[p] = start[p], call'[p] = call[p], row'[s] = row[s]
  PROVE  /\ Front(p, s) => Front(p, s)'
         /\ Engaged(p, s)' => Engaged(p, s)
  BY DEF Front, Engaged
-----------------------------------------------------------------------------
(* Others *)

\* A new session: no start has found it.
LEMMA ScheduleKeepsJInv ==
  ASSUME JInv, NEW s \in Sessions, Schedule(s), UNCHANGED start
  PROVE  JInv'
<1>1. /\ row[s] = NoRow /\ row' = [row EXCEPT ![s] = "scheduled"]
      /\ UNCHANGED <<events, call, start>>
  BY DEF Schedule
<1>2. IInv' /\ AInv' /\ LogsGrow /\ RowsStay
  BY BaseStep DEF AnyStep
<1>3. JoinTypeOK'
  BY <1>1, <1>2 DEF JInv, JoinTypeOK, IInv
<1>4. \A p \in Starters : Place(p)'
  BY <1>1, <1>2, PlaceStays DEF JInv, IInv
<1>5. ASSUME NEW r \in Sessions, r # s PROVE OnChain(r)' /\ Pushed(r)'
  <2>1. row'[r] = row[r] /\ events'[r] = events[r]
    BY <1>1, <1>5 DEF JInv, IInv, TypeOK
  <2>2. \A p \in Starters : start'[p] = start[p] /\ call'[p] = call[p]
    BY <1>1
  <2> QED BY <2>1, <2>2, FrontStays, OnChainStays, PushedStays DEF JInv
<1>6. OnChain(s)' /\ Pushed(s)'
  <2>1. row'[s] = preCallChain[1]
    BY <1>1, Chain DEF JInv, IInv, TypeOK
  <2>2. \A p \in Starters : ~Engaged(p, s)
    BY <1>1 DEF JInv, Place, Engaged
  <2>3. \A p \in Starters : ~Engaged(p, s)'
    BY <1>1, <2>2 DEF Engaged
  <2> QED BY <2>1, <2>3 DEF OnChain, Pushed
<1> QED BY <1>2, <1>3, <1>4, <1>5, <1>6 DEF JInv

\* A call of somebody else's: a move of theirs ends the race's quiet.
LEMMA OtherKeepsJInv ==
  ASSUME JInv, NEW c \in Callers \ Starters, UNCHANGED start,
         CallStep(c) \/ \E s \in Sessions, o \in Orgs, to \in States : Begin(c, s, o, to)
  PROVE  JInv'
<1>1. IInv' /\ AInv' /\ LogsGrow /\ RowsStay
  BY BaseStep DEF AnyStep, CallStep
<1>2. JoinTypeOK'
  BY <1>1 DEF JInv, JoinTypeOK, IInv
<1>3. \A d \in Callers \ {c} : call'[d] = call[d]
  <2>1. CASE CallStep(c)
    BY <2>1, CallOutcome DEF JInv, IInv
  <2>2. CASE \E s \in Sessions, o \in Orgs, to \in States : Begin(c, s, o, to)
    BY <2>2 DEF Begin, Becomes, Fail, JInv, IInv, TypeOK
  <2> QED BY <2>1, <2>2
<1>4. \A p \in Starters : start'[p] = start[p] /\ call'[p] = call[p]
  BY <1>3, StartersAssumption
<1>5. \A p \in Starters : Place(p)'
  BY <1>1, <1>4, PlaceStays DEF JInv, IInv
<1>6. ASSUME NEW s \in Sessions, row'[s] = row[s], events'[s] = events[s]
      PROVE  OnChain(s)' /\ Pushed(s)'
  BY <1>4, <1>6, FrontStays, OnChainStays, PushedStays DEF JInv
<1>7. CASE UNCHANGED <<row, events>>
  BY <1>1, <1>2, <1>5, <1>6, <1>7 DEF JInv
<1>8. CASE call[c].pc = "apply" /\ Commit(c)
  <2>1. PICK s \in Sessions : s = call[c].sess
    BY <1>8, Fields DEF JInv, IInv
  <2>2. /\ \A r \in Sessions : r # s => row'[r] = row[r] /\ events'[r] = events[r]
        /\ Len(events'[s]) = Len(events[s]) + 1
        /\ events'[s][Len(events[s]) + 1] =
             [from |-> call[c].cur, to |-> call[c].to, org |-> call[c].org, actor |-> c]
    BY <1>8, <2>1, CommitAppends DEF JInv, IInv
  <2>3. ~Quiet(s)'
    <3>1. Len(events[s]) + 1 \in 1 .. Len(events'[s])
      BY <2>1, <2>2 DEF JInv, IInv, TypeOK
    <3>2. events'[s][Len(events[s]) + 1].actor = c
      BY <2>2
    <3> QED BY <3>1, <3>2 DEF Quiet
  <2>4. OnChain(s)' /\ Pushed(s)'
    BY <2>3 DEF OnChain, Pushed
  <2> QED BY <1>1, <1>2, <1>5, <1>6, <2>2, <2>4 DEF JInv
<1> QED BY <1>7, <1>8, CallOutcome DEF CallStep, Begin, JInv, IInv
-----------------------------------------------------------------------------
(* A start *)

\* A step of one start: what is left to show of it.
LEMMA StartKeepsJInv ==
  ASSUME JInv, NEW p \in Starters, [AnyStep]_vars,
         start' \in [Starters -> Start], Place(p)',
         \A q \in Starters \ {p} : start'[q] = start[q] /\ call'[q] = call[q],
         NEW s \in Sessions, OnChain(s)', Pushed(s)',
         start[p].pc = "idle" \/ start[p].sess = s, start'[p].sess = s,
         \A r \in Sessions \ {s} : row'[r] = row[r] /\ events'[r] = events[r]
  PROVE  JInv'
<1>1. IInv' /\ AInv' /\ LogsGrow /\ RowsStay
  BY BaseStep
<1>2. JoinTypeOK'
  BY <1>1 DEF JoinTypeOK, IInv
<1>3. \A q \in Starters : Place(q)'
  BY <1>1, PlaceStays DEF JInv, IInv
<1>4. ASSUME NEW r \in Sessions, r # s PROVE OnChain(r)' /\ Pushed(r)'
  <2>1. row'[r] = row[r] /\ events'[r] = events[r]
    BY <1>4
  <2>2. ~Front(p, r) /\ ~Engaged(p, r)'
    BY <1>4 DEF Front, Engaged
  <2>3. \A q \in Starters \ {p} : (Front(q, r) => Front(q, r)') /\ (Engaged(q, r)' => Engaged(q, r))
    BY <2>1, FrontStays
  <2> QED BY <2>1, <2>2, <2>3, OnChainStays, PushedStays DEF JInv
<1> QED BY <1>1, <1>2, <1>3, <1>4 DEF JInv

\* A start that stays at the front keeps the session pushed, whatever the rest.
LEMMA FrontPushes ==
  ASSUME NEW p \in Starters, NEW s, Front(p, s)'
  PROVE  Pushed(s)'
  BY DEF Pushed

\* The start looks the session up.
LEMMA LookupKeepsJInv ==
  ASSUME JInv, NEW p \in Starters, NEW s \in Sessions, Lookup(p, s)
  PROVE  JInv'
<1>1. UNCHANGED vars /\ UNCHANGED <<row, events, call>>
  BY DEF Lookup, vars
<1>2. /\ Idle(p) /\ row[s] \in States \cup {NoRow} /\ JoinTypeOK
      /\ start[p].pc = "idle" \/ start[p].sess = s
      /\ OnChain(s) /\ Pushed(s)
  BY DEF Lookup, JInv, Place, IInv, TypeOK
<1>3. ASSUME NEW next \in Start, Goes(p, next), next.sess = s, Place(p)', Pushed(s)'
      PROVE  JInv'
  <2>1. /\ start' \in [Starters -> Start] /\ start'[p] = next
        /\ \A q \in Starters \ {p} : start'[q] = start[q]
    BY <1>2, <1>3, GoesTyped
  <2>2. OnChain(s)'
    BY <1>1, <1>2, OnChainStays
  <2> QED BY <1>1, <1>2, <1>3, <2>1, <2>2, StartKeepsJInv
<1>4. ASSUME NEW result \in Results, Returns(p, s, row[s], result),
             result = "ok" => row[s] # NoRow /\ NothingToDo(row[s]), Pushed(s)'
      PROVE  JInv'
  <2> DEFINE next == [pc |-> "returned", sess |-> s, found |-> row[s], result |-> result]
  <2>1. next \in Start /\ Goes(p, next)
    BY <1>2, <1>4, StartVariants DEF Returns
  <2>2. next.pc = "returned" /\ next.sess = s /\ next.found = row[s] /\ next.result = result
    OBVIOUS
  <2> HIDE DEF next
  <2>3. start'[p] = next
    BY <1>2, <2>1, GoesTyped
  <2>4. result = "ok" => ChainIndex(row[s]) = 0
    BY <1>4, Chain, ChainIndexFinds DEF NothingToDo, IsTerminal
  <2>5. Place(p)'
    BY <1>1, <1>2, <2>2, <2>3, <2>4 DEF Place, Idle
  <2> QED BY <1>3, <1>4, <2>1, <2>2, <2>5
<1>5. CASE Returns(p, s, row[s], "error")
  <2> DEFINE next == [pc |-> "returned", sess |-> s, found |-> row[s], result |-> "error"]
  <2>1. next \in Start /\ Goes(p, next)
    BY <1>2, <1>5, StartVariants DEF Returns, Results, Errors
  <2>2. next.pc = "returned" /\ next.sess = s /\ next.result = "error"
    OBVIOUS
  <2> HIDE DEF next
  <2>3. start'[p] = next
    BY <1>2, <2>1, GoesTyped
  <2>4. Front(p, s)'
    BY <2>2, <2>3 DEF Front
  <2> QED BY <1>4, <1>5, <2>4, FrontPushes DEF Results, Errors
<1>6. CASE row[s] = NoRow /\ Returns(p, s, row[s], "not found")
  <2>1. Pushed(s)'
    BY <1>1, <1>6 DEF Pushed
  <2> QED BY <1>4, <1>6, <2>1 DEF Results, Errors
<1>7. CASE row[s] # NoRow /\ NothingToDo(row[s]) /\ Returns(p, s, row[s], "ok")
  <2>1. ~Quiet(s)
    BY <1>2, <1>7, Chain, ChainIndexFinds DEF OnChain, NothingToDo, IsTerminal
  <2>2. Pushed(s)'
    BY <1>1, <2>1 DEF Pushed, Quiet
  <2> QED BY <1>4, <1>7, <2>2 DEF Results
<1>8. CASE /\ row[s] # NoRow /\ ~NothingToDo(row[s])
           /\ Goes(p, [pc |-> "hop", sess |-> s, found |-> row[s], i |-> ChainIndex(row[s])])
  <2>1. PICK i \in 1 .. 5 : i = ChainIndex(row[s]) /\ row[s] = preCallChain[i]
    BY <1>8, ChainIndexFinds DEF NothingToDo
  <2> DEFINE next == [pc |-> "hop", sess |-> s, found |-> row[s], i |-> i]
  <2>2. next \in Start /\ Goes(p, next)
    BY <1>2, <1>8, <2>1, StartVariants
  <2>3. next.pc = "hop" /\ next.sess = s /\ next.i = i
    OBVIOUS
  <2> HIDE DEF next
  <2>4. start'[p] = next
    BY <1>2, <2>2, GoesTyped
  <2>5. Front(p, s)'
    BY <1>1, <2>1, <2>3, <2>4 DEF Front
  <2>6. Passed(s, i)
    <3>1. PICK n \in Nat : n = Len(events[s])
      BY DEF JInv, IInv, TypeOK
    <3>2. row[s] = After(s, n)
      BY <1>8, <3>1 DEF JInv, IInv, AuditChain
    <3>3. CASE n = 0
      BY <2>1, <3>2, <3>3, Chain DEF After, Passed
    <3>4. CASE n # 0
      <4>1. n \in 1 .. Len(events[s]) /\ events[s][n].to = preCallChain[i]
        BY <2>1, <3>1, <3>2, <3>4 DEF After
      <4> QED BY <4>1 DEF Passed
    <3> QED BY <3>3, <3>4
  <2>7. Place(p)'
    BY <1>1, <1>2, <1>8, <2>3, <2>4, <2>6 DEF Place, Idle, Passed
  <2> QED BY <1>3, <2>2, <2>3, <2>5, <2>7, FrontPushes
<1> QED BY <1>5, <1>6, <1>7, <1>8 DEF Lookup

\* A start's record on its way: at another place, or at the next hop.
LEMMA StartMoves ==
  ASSUME JoinTypeOK, NEW p \in Starters, start[p].pc \in {"hop", "advance"}
  PROVE  LET asks == [start[p] EXCEPT !.pc = "advance"]
             goesOn == [start[p] EXCEPT !.pc = "hop", !.i = @ + 1]
         IN  /\ asks \in Start /\ asks.pc = "advance" /\ asks.i = start[p].i
             /\ asks.sess = start[p].sess /\ asks.found = start[p].found
             /\ start[p].i \in 1 .. 4 => goesOn \in Start
             /\ goesOn.pc = "hop" /\ goesOn.i = start[p].i + 1
             /\ goesOn.sess = start[p].sess /\ goesOn.found = start[p].found
<1> DEFINE R == [pc : {"hop", "advance"}, sess : Sessions, found : States, i : 1 .. 5]
           asks == [start[p] EXCEPT !.pc = "advance"]
           goesOn == [start[p] EXCEPT !.pc = "hop", !.i = @ + 1]
<1>1. start[p] \in R
  BY Chain DEF JoinTypeOK, Start
<1>2. R \subseteq Start
  BY Chain DEF Start
<1>3. /\ asks \in R /\ asks.pc = "advance" /\ asks.i = start[p].i
      /\ asks.sess = start[p].sess /\ asks.found = start[p].found
  BY <1>1
<1>4. ASSUME start[p].i \in 1 .. 4 PROVE goesOn \in R
  <2>1. goesOn = [start[p] EXCEPT !.pc = "hop", !.i = start[p].i + 1]
    BY <1>1
  <2>2. start[p].i + 1 \in 1 .. 5
    BY <1>4
  <2>3. \A k \in 1 .. 5 : [start[p] EXCEPT !.pc = "hop", !.i = k] \in R
    BY <1>1
  <2> HIDE DEF R, goesOn
  <2> QED BY <2>1, <2>2, <2>3
<1>5. /\ goesOn.pc = "hop" /\ goesOn.i = start[p].i + 1
      /\ goesOn.sess = start[p].sess /\ goesOn.found = start[p].found
  BY <1>1
<1> HIDE DEF R, asks, goesOn
<1>6. /\ asks \in Start /\ asks.pc = "advance" /\ asks.i = start[p].i
      /\ asks.sess = start[p].sess /\ asks.found = start[p].found
      /\ start[p].i \in 1 .. 4 => goesOn \in Start
  BY <1>2, <1>3, <1>4
<1> QED BY <1>5, <1>6 DEF asks, goesOn

\* The loop of Start: the end, or the next hop.
LEMMA HopKeepsJInv ==
  ASSUME JInv, NEW p \in Starters, Hop(p)
  PROVE  JInv'
<1>1. PICK s \in Sessions, i \in 1 .. 5 : s = start[p].sess /\ i = start[p].i
  BY StartFields DEF JInv, Hop
<1>2. /\ start[p].pc = "hop" /\ UNCHANGED <<row, events>> /\ JoinTypeOK
      /\ start[p].found \in States /\ Passed(s, i) /\ row[s] # NoRow
      /\ OnChain(s) /\ Pushed(s) /\ Idle(p)
  <2>1. start[p].pc = "hop" /\ UNCHANGED <<row, events>>
    BY DEF Hop, vars, Begin
  <2>2. start[p].found \in States
    BY <2>1, StartFields DEF JInv
  <2> QED BY <1>1, <2>1, <2>2, NoRowIsNoState DEF JInv, Place
<1>3. CASE i = 5 /\ Returns(p, s, start[p].found, "ok") /\ UNCHANGED vars
  <2> DEFINE next == [pc |-> "returned", sess |-> s, found |-> start[p].found, result |-> "ok"]
  <2>1. next \in Start /\ Goes(p, next)
    BY <1>2, <1>3, StartVariants DEF Returns, Results
  <2>2. /\ next.pc = "returned" /\ next.sess = s /\ next.found = start[p].found
        /\ next.result = "ok"
    OBVIOUS
  <2> HIDE DEF next
  <2>3. /\ start' \in [Starters -> Start] /\ start'[p] = next
        /\ \A q \in Starters \ {p} : start'[q] = start[q]
    BY <1>2, <2>1, GoesTyped
  <2>4. UNCHANGED <<row, events, call>>
    BY <1>3 DEF vars
  <2>5. Place(p)'
    BY <1>2, <1>3, <2>2, <2>3, <2>4 DEF Place, Idle, Passed
  <2>6. Pushed(s)'
    <3>1. CASE row[s] = "in_progress"
      BY <2>4, <3>1 DEF Pushed
    <3>2. CASE row[s] # "in_progress"
      <4>1. ~Front(p, s)
        BY <1>1, <1>2, <1>3, <3>2, Chain DEF Front
      <4>2. Engaged(p, s)' => Engaged(p, s)
        BY <1>1, <1>2, <2>2, <2>3 DEF Engaged
      <4>3. \A q \in Starters \ {p} :
              (Front(q, s) => Front(q, s)') /\ (Engaged(q, s)' => Engaged(q, s))
        BY <2>3, <2>4, FrontStays
      <4> QED BY <1>2, <2>4, <4>1, <4>2, <4>3, PushedStays
    <3> QED BY <3>1, <3>2
  <2>7. OnChain(s)'
    BY <1>2, OnChainStays
  <2> QED BY <1>1, <1>2, <1>3, <2>2, <2>3, <2>4, <2>5, <2>6, <2>7, StartKeepsJInv
<1>4. CASE /\ i # 5 /\ Begin(p, s, Owner[s], preCallChain[i + 1])
           /\ Goes(p, [start[p] EXCEPT !.pc = "advance"])
  <2> DEFINE next == [start[p] EXCEPT !.pc = "advance"]
             v == [pc |-> "read", sess |-> s, org |-> Owner[s], to |-> preCallChain[i + 1]]
  <2>1. /\ next \in Start /\ Goes(p, next)
        /\ next.pc = "advance" /\ next.i = i /\ next.sess = s /\ next.found = start[p].found
    BY <1>1, <1>2, <1>4, StartMoves
  <2> HIDE DEF next
  <2>2. /\ start' \in [Starters -> Start] /\ start'[p] = next
        /\ \A q \in Starters \ {p} : start'[q] = start[q]
    BY <1>2, <2>1, GoesTyped
  <2>3. p \in Callers /\ Owner[s] \in Orgs /\ i \in 1 .. 4 /\ i + 1 \in 1 .. 5
    BY <1>4, StartersAssumption, OwnerAssumption
  <2>4. preCallChain[i + 1] \in States
    BY <2>3, Chain
  <2>5. Becomes(p, v)
    BY <1>4, <2>4 DEF Begin, Has
  <2>6. v.pc = "read" /\ v.sess = s /\ v.org = Owner[s] /\ v.to = preCallChain[i + 1]
    OBVIOUS
  <2> HIDE DEF v
  <2>7. call'[p] = v /\ \A q \in Starters \ {p} : call'[q] = call[q]
    BY <2>3, <2>5 DEF Becomes, JInv, IInv, TypeOK
  <2>8. [AnyStep]_vars
    BY <1>4, <2>3, <2>4 DEF AnyStep
  <2>9. Place(p)'
    BY <1>2, <2>1, <2>2, <2>3, <2>6, <2>7 DEF Place, Passed
  <2>10. Pushed(s)'
    <3>1. Front(p, s) => Front(p, s)'
      BY <1>1, <1>2, <2>1, <2>2, <2>6, <2>7 DEF Front
    <3>2. Engaged(p, s)' => Engaged(p, s)
      BY <1>1, <1>2, <2>1, <2>2 DEF Engaged
    <3>3. \A q \in Starters \ {p} :
            (Front(q, s) => Front(q, s)') /\ (Engaged(q, s)' => Engaged(q, s))
      BY <1>2, <2>2, <2>7, FrontStays
    <3> QED BY <1>2, <3>1, <3>2, <3>3, PushedStays
  <2>11. OnChain(s)'
    BY <1>2, OnChainStays
  <2> QED BY <1>1, <1>2, <2>1, <2>2, <2>7, <2>8, <2>9, <2>10, <2>11, StartKeepsJInv
<1> QED BY <1>1, <1>3, <1>4, Chain DEF Hop, AtEnd

\* Advance came back: the next turn of the loop, or its end.
LEMMA AdvancedKeepsJInv ==
  ASSUME JInv, NEW p \in Starters, Advanced(p)
  PROVE  JInv'
<1>1. /\ start[p].pc = "advance" /\ JoinTypeOK
      /\ UNCHANGED vars /\ UNCHANGED <<row, events, call>>
  BY DEF Advanced, JInv, vars
<1>2. PICK s \in Sessions, i \in 1 .. 4 : s = start[p].sess /\ i = start[p].i
  BY <1>1, StartFields DEF JInv, Place
<1>3. /\ start[p].found \in States /\ row[s] # NoRow /\ OnChain(s) /\ Pushed(s)
  <2>1. start[p].found \in States
    BY <1>1, StartFields
  <2> QED BY <1>1, <1>2, <2>1, NoRowIsNoState DEF JInv, Place
<1>4. ASSUME NEW next \in Start, Goes(p, next), next.sess = s, next.found = start[p].found,
             next.pc # "idle", Place(p)', Front(p, s) => Front(p, s)'
      PROVE  JInv'
  <2>1. /\ start' \in [Starters -> Start] /\ start'[p] = next
        /\ \A q \in Starters \ {p} : start'[q] = start[q]
    BY <1>1, <1>4, GoesTyped
  <2>2. Engaged(p, s)' => Engaged(p, s)
    BY <1>1, <1>2, <1>4, <2>1 DEF Engaged
  <2>3. \A q \in Starters \ {p} :
          (Front(q, s) => Front(q, s)') /\ (Engaged(q, s)' => Engaged(q, s))
    BY <1>1, <2>1, FrontStays
  <2>4. Pushed(s)' /\ OnChain(s)'
    BY <1>1, <1>3, <1>4, <2>2, <2>3, PushedStays, OnChainStays
  <2> QED BY <1>1, <1>2, <1>4, <2>1, <2>4, StartKeepsJInv
<1>5. CASE call[p].pc = "done" /\ Goes(p, [start[p] EXCEPT !.pc = "hop", !.i = @ + 1])
  <2> DEFINE next == [start[p] EXCEPT !.pc = "hop", !.i = @ + 1]
  <2>0. i + 1 \in 1 .. 5
    OBVIOUS
  <2>1. /\ next \in Start /\ Goes(p, next)
        /\ next.pc = "hop" /\ next.i = i + 1 /\ next.sess = s /\ next.found = start[p].found
    BY <1>1, <1>2, <1>3, <1>5, <2>0, StartMoves
  <2> HIDE DEF next
  <2>2. start'[p] = next
    BY <1>1, <2>1, GoesTyped
  <2>3. call[p].sess = s /\ call[p].to = preCallChain[i + 1] /\ p \in Callers
    BY <1>1, <1>2, <1>5, StartersAssumption DEF JInv, Place
  <2>4. Passed(s, i + 1)
    BY <1>5, <2>3 DEF JInv, AInv, Answers, Logged, Passed
  <2>5. Place(p)'
    BY <1>1, <1>3, <1>5, <2>1, <2>2, <2>4 DEF Place, Idle, Passed
  <2>6. Front(p, s) => Front(p, s)'
    BY <1>1, <1>2, <1>5, <2>1, <2>2 DEF Front
  <2> QED BY <1>4, <2>1, <2>5, <2>6
<1>6. CASE call[p].pc = "failed" /\ Returns(p, s, start[p].found, call[p].err)
  <2> DEFINE next == [pc |-> "returned", sess |-> s, found |-> start[p].found,
                      result |-> call[p].err]
  <2>1. call[p].err \in Errors
    BY <1>6, StartersAssumption DEF JInv, IInv, TypeOK, Call
  <2>2. next \in Start /\ Goes(p, next)
    BY <1>3, <1>6, <2>1, StartVariants DEF Returns, Results
  <2>3. /\ next.pc = "returned" /\ next.sess = s /\ next.found = start[p].found
        /\ next.result = call[p].err
    OBVIOUS
  <2> HIDE DEF next
  <2>4. start'[p] = next
    BY <1>1, <2>2, GoesTyped
  <2>5. Place(p)'
    BY <1>1, <1>3, <1>6, <2>1, <2>3, <2>4 DEF Place, Idle, Errors
  <2>6. Front(p, s) => Front(p, s)'
    BY <1>1, <1>2, <1>6, <2>3, <2>4 DEF Front
  <2> QED BY <1>4, <2>2, <2>3, <2>5, <2>6
<1> QED BY <1>2, <1>5, <1>6 DEF Advanced

\* A round trip of a start's call: who is at the front is not refused.
LEMMA CallKeepsJInv ==
  ASSUME JInv, NEW p \in Starters, CallStep(p), UNCHANGED start
  PROVE  JInv'
<1>1. /\ p \in Callers /\ JoinTypeOK /\ TypeOK /\ [AnyStep]_vars
  BY StartersAssumption DEF JInv, IInv, AnyStep, CallStep
<1>2. /\ \A q \in Starters \ {p} : call'[q] = call[q]
      /\ call[p].pc \in {"read", "apply", "reload"}
  BY <1>1, CallOutcome, StartersAssumption
<1>3. start[p].pc = "advance"
  BY <1>2 DEF JInv, Place, Idle
<1>4. PICK s \in Sessions, i \in 1 .. 4 : s = start[p].sess /\ i = start[p].i
  BY <1>1, <1>3, StartFields DEF JInv, Place
<1>5. /\ call[p].sess = s /\ call[p].to = preCallChain[i + 1] /\ call[p].org = Owner[s]
      /\ Passed(s, i) /\ row[s] # NoRow
  <2>1. start[p].found # NoRow
    BY <1>1, <1>3, StartFields, NoRowIsNoState
  <2> QED BY <1>2, <1>3, <1>4, <2>1 DEF JInv, Place
<1>6. Place(p)'
  <2>1. IInv' /\ LogsGrow /\ RowsStay
    BY <1>1, BaseStep
  <2>2. Passed(s, i)'
    BY <1>1, <1>5, <2>1, PassedStays DEF IInv
  <2>3. row'[s] # NoRow
    BY <1>5, <2>1 DEF RowsStay
  <2>4. /\ call'[p].pc # "idle"
        /\ call'[p].pc \in {"read", "apply", "reload", "done"} =>
             call'[p].sess = s /\ call'[p].to = preCallChain[i + 1]
        /\ call'[p].pc \in {"read", "apply", "reload"} => call'[p].org = Owner[s]
    BY <1>1, <1>5, CallOutcome
  <2> QED BY <1>3, <1>4, <2>2, <2>3, <2>4 DEF Place, Passed
<1>7. OnChain(s) /\ Pushed(s)
  BY DEF JInv
<1>8. ASSUME row'[s] = row[s], events'[s] = events[s], Front(p, s) => Front(p, s)'
      PROVE  OnChain(s)' /\ Pushed(s)'
  <2>1. \A q \in Starters \ {p} : Front(q, s) => Front(q, s)'
    BY <1>2, <1>8, FrontStays
  <2>2. \A q \in Starters : Engaged(q, s)' => Engaged(q, s)
    BY DEF Engaged
  <2> QED BY <1>7, <1>8, <2>1, <2>2, OnChainStays, PushedStays
<1>9. OnChain(s)' /\ Pushed(s)' /\ \A r \in Sessions \ {s} : row'[r] = row[r] /\ events'[r] = events[r]
  <2>1. CASE /\ UNCHANGED <<row, events>>
             /\ call'[p].pc = "failed" /\ (call'[p].err = "error" \/ Refused(p))
    <3>1. Front(p, s) => ~Refused(p)
      <4> SUFFICES ASSUME Front(p, s) PROVE ~Refused(p)
        OBVIOUS
      <4>1. Visible(call[p].org, s)
        BY <1>5 DEF Visible
      <4>2. call[p].pc \in {"read", "apply"} => row[s] = preCallChain[i]
        BY <1>3, <1>4 DEF Front
      <4>3. call[p].pc = "apply" => call[p].cur = row[s]
        BY <1>3 DEF Front
      <4>4. Validate(preCallChain[i], preCallChain[i + 1]) = "ok"
        BY Chain
      <4> QED BY <1>5, <4>1, <4>2, <4>3, <4>4 DEF Refused, StillAsRead
    <3>2. Front(p, s) => Front(p, s)'
      BY <1>3, <1>4, <2>1, <3>1 DEF Front
    <3> QED BY <1>8, <2>1, <3>2
  <2>2. CASE /\ UNCHANGED <<row, events>> /\ call[p].pc = "read" /\ call'[p].pc = "apply"
             /\ call'[p].cur = row[call[p].sess]
    <3>1. Front(p, s) => Front(p, s)'
      BY <1>3, <1>4, <1>5, <2>2 DEF Front
    <3> QED BY <1>8, <2>2, <3>1
  <2>3. CASE /\ call[p].pc = "apply" /\ Commit(p)
             /\ \/ call'[p].pc = "failed" /\ call'[p].err = "error"
                \/ call'[p].pc = "reload"
    <3>1. /\ row'[s] = preCallChain[i + 1]
          /\ \A r \in Sessions : r # s => row'[r] = row[r] /\ events'[r] = events[r]
      BY <1>1, <1>5, <2>3, CommitAppends
    <3>2. Front(p, s)'
      BY <1>3, <1>4, <2>3, <3>1 DEF Front
    <3>3. i + 1 \in 1 .. 5
      OBVIOUS
    <3>4. OnChain(s)'
      BY <3>1, <3>3 DEF OnChain
    <3> QED BY <3>1, <3>2, <3>4, FrontPushes
  <2>4. CASE UNCHANGED <<row, events>> /\ call[p].pc = "reload" /\ call'[p].pc = "done"
    <3>1. Front(p, s) => Front(p, s)'
      BY <1>3, <1>4, <1>5, <2>4 DEF Front
    <3> QED BY <1>8, <2>4, <3>1
  <2> QED BY <1>1, <2>1, <2>2, <2>3, <2>4, CallOutcome
<1> QED BY <1>1, <1>2, <1>4, <1>6, <1>9, StartKeepsJInv DEF JoinTypeOK
-----------------------------------------------------------------------------
(* Theorems *)

\* The invariant holds at first ...
LEMMA InitIsJInv == JoinInit => JInv
<1> SUFFICES ASSUME JoinInit PROVE JInv
  OBVIOUS
<1>1. /\ Init /\ start = [p \in Starters |-> [pc |-> "idle"]]
      /\ row = [s \in Sessions |-> NoRow] /\ call = [c \in Callers |-> [pc |-> "idle"]]
  BY DEF JoinInit, Init
<1>2. IInv
  BY <1>1, InitIsIInv
<1>3. AInv
  BY <1>1 DEF AInv, Answers
<1>4. JoinTypeOK
  BY <1>1, <1>2 DEF JoinTypeOK, IInv, Start
<1>5. \A p \in Starters : start[p].pc = "idle" /\ call[p].pc = "idle"
  BY <1>1, StartersAssumption
<1>6. \A p \in Starters : Place(p)
  BY <1>5 DEF Place, Idle
<1>7. \A s \in Sessions : OnChain(s) /\ Pushed(s)
  BY <1>1 DEF OnChain, Pushed
<1> QED BY <1>2, <1>3, <1>4, <1>6, <1>7 DEF JInv

\* ... and every step keeps it.
LEMMA JInvHolds == JoinSpec => []JInv
<1>1. JInv /\ UNCHANGED joinVars => JInv'
  <2> SUFFICES ASSUME JInv, UNCHANGED joinVars PROVE JInv'
    OBVIOUS
  <2>1. UNCHANGED vars /\ UNCHANGED <<row, events, call, start>>
    BY DEF joinVars, vars
  <2>2. IInv' /\ AInv' /\ LogsGrow /\ RowsStay
    BY <2>1, BaseStep
  <2>3. JoinTypeOK' /\ \A p \in Starters : Place(p)'
    BY <2>1, <2>2, PlaceStays DEF JInv, IInv, JoinTypeOK
  <2>4. \A s \in Sessions : OnChain(s)' /\ Pushed(s)'
    BY <2>1, FrontStays, OnChainStays, PushedStays DEF JInv
  <2> QED BY <2>2, <2>3, <2>4 DEF JInv
<1>2. JInv /\ JoinNext => JInv'
  <2> SUFFICES ASSUME JInv, JoinNext PROVE JInv'
    OBVIOUS
  <2>1. CASE OthersStep
    BY <2>1, ScheduleKeepsJInv, OtherKeepsJInv, OthersWantAssumption
       DEF OthersStep, Advance, CallStep
  <2>2. ASSUME NEW p \in Starters, StartStep(p) PROVE JInv'
    BY <2>2, HopKeepsJInv, AdvancedKeepsJInv, CallKeepsJInv DEF StartStep, CallStep
  <2>3. ASSUME NEW p \in Starters, NEW s \in Sessions, Lookup(p, s) PROVE JInv'
    BY <2>3, LookupKeepsJInv
  <2> QED BY <2>1, <2>2, <2>3 DEF JoinNext
<1> QED BY <1>1, <1>2, InitIsJInv, PTL DEF JoinSpec

\* Starts and calls keep their types.
THEOREM JoinTypeCorrect == JoinSpec => []JoinTypeOK
<1>1. JInv => JoinTypeOK
  BY DEF JInv
<1> QED BY <1>1, JInvHolds, PTL

\* However many starts race for however many sessions, they do not all lose:
\* whoever is refused is behind a start that goes on.
THEOREM RaceReachesInProgressHolds == JoinSpec => []RaceReachesInProgress
<1>1. JInv => RaceReachesInProgress
  <2> SUFFICES ASSUME JInv, NEW s \in Sessions,
                      \A p \in Starters : ~Running(p),
                      \A p \in Starters : start[p].pc = "returned" => start[p].result # "error",
                      \E p \in Starters : /\ start[p].pc = "returned" /\ start[p].sess = s
                                          /\ start[p].found # NoRow,
                      \A n \in 1 .. Len(events[s]) : events[s][n].actor \in Starters
               PROVE  row[s] = "in_progress"
    BY DEF RaceReachesInProgress
  <2>1. \A p \in Starters : ~Front(p, s)
    BY DEF Running, Front
  <2>2. (\E p \in Starters : Engaged(p, s)) /\ row[s] # NoRow
    BY DEF Engaged, JInv, Place
  <2> QED BY <2>1, <2>2 DEF JInv, Pushed, Quiet
<1> QED BY <1>1, JInvHolds, PTL

\* A start that reports success has the arrival at the call in the audit log.
THEOREM OkMeansArrivedHolds == JoinSpec => []OkMeansArrived
<1>1. JInv => OkMeansArrived
  <2> SUFFICES ASSUME JInv, NEW p \in Starters, start[p].pc = "returned",
                      start[p].result = "ok", ChainIndex(start[p].found) # 0
               PROVE  \E n \in 1 .. Len(events[start[p].sess]) :
                        events[start[p].sess][n].to = "in_progress"
    BY DEF OkMeansArrived
  <2>1. Passed(start[p].sess, 5)
    BY DEF JInv, Place
  <2> QED BY <2>1, Chain DEF Passed
<1> QED BY <1>1, JInvHolds, PTL
-----------------------------------------------------------------------------
(* Starts on top of the callers *)

\* Whatever a start or somebody else does, the sessions and calls make a step
\* of Sessions or none: a start asks in the organization of its session and for
\* a state of the graph.
LEMMA JoinStepIsAnyStep == JInv /\ [JoinNext]_joinVars => [AnyStep]_vars
<1> SUFFICES ASSUME JInv, [JoinNext]_joinVars PROVE [AnyStep]_vars
  OBVIOUS
<1>1. CASE UNCHANGED joinVars
  BY <1>1 DEF joinVars
<1>2. CASE OthersStep
  BY <1>2, OthersWantAssumption DEF OthersStep, Advance, AnyStep
<1>3. ASSUME NEW p \in Starters, StartStep(p) PROVE [AnyStep]_vars
  <2>1. CASE Hop(p)
    <3>1. CASE UNCHANGED vars
      BY <3>1
    <3>2. ASSUME ~AtEnd(start[p].i),
                 Begin(p, start[p].sess, Owner[start[p].sess], preCallChain[start[p].i + 1])
          PROVE  [AnyStep]_vars
      <4>1. p \in Callers /\ start[p].sess \in Sessions /\ start[p].i \in 1 .. 5
        BY <2>1, StartFields, StartersAssumption DEF JInv, Hop
      <4>2. start[p].i + 1 \in 1 .. 5
        BY <3>2, <4>1, Chain DEF AtEnd
      <4>3. preCallChain[start[p].i + 1] \in States /\ Owner[start[p].sess] \in Orgs
        BY <4>1, <4>2, Chain, OwnerAssumption
      <4> QED BY <3>2, <4>1, <4>3 DEF AnyStep
    <3> QED BY <2>1, <3>1, <3>2 DEF Hop
  <2>2. CASE Advanced(p)
    BY <2>2 DEF Advanced
  <2>3. CASE CurrentState(p) \/ ApplyTransition(p) \/ Get(p)
    BY <2>3, StartersAssumption DEF AnyStep
  <2> QED BY <1>3, <2>1, <2>2, <2>3 DEF StartStep
<1>4. ASSUME NEW p \in Starters, NEW s \in Sessions, Lookup(p, s) PROVE [AnyStep]_vars
  BY <1>4 DEF Lookup
<1> QED BY <1>1, <1>2, <1>3, <1>4 DEF JoinNext

\* Starts that drive sessions hop by hop through several calls of Advance,
\* together with everyone else, implement the same abstract authority.
THEOREM StartsImplementAuthority == JoinSpec => ImplementsAuthority
<1>1. JoinInit => Authority!Init
  BY DEF JoinInit, Init, Authority!Init, History
<1>2. JInv /\ JInv' /\ [JoinNext]_joinVars => [Authority!Next]_History
  BY JoinStepIsAnyStep, StepRefines DEF JInv
<1> QED BY <1>1, <1>2, JInvHolds, PTL DEF JoinSpec, ImplementsAuthority, Authority!Spec

\* No start revives a session that is over, though it acts on a state it read
\* before its first hop.
THEOREM StartsLeaveTerminalAlone == JoinSpec => TerminalIsFinal
<1>1. JInv /\ [JoinNext]_joinVars => [Final]_vars
  BY JoinStepIsAnyStep, StepIsFinal DEF JInv
<1> QED BY <1>1, JInvHolds, PTL DEF JoinSpec, TerminalIsFinal, Final
=============================================================================
