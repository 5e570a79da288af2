---------------------------- MODULE SessionGraph ----------------------------
(***************************************************************************)
(* The interview-session state graph and the check a transition has to     *)
(* pass: the tables seeded by migrations/0002_session_states.up.sql as     *)
(* statemachine.Machine holds them once the server is up.                  *)
(***************************************************************************)

\* session_states: every row of the table.
States ==
  {"scheduled", "invited", "ready", "dispatched", "in_progress", "completed",
   "scoring", "scored", "declined", "abandoned", "interrupted", "failed"}

\* The rows with is_terminal = true.
Terminal == {"scored", "declined", "abandoned", "failed"}

\* session_state_transitions: every row of the table.
Edges ==
  {<<"scheduled", "invited">>, <<"invited", "ready">>,
   <<"ready", "dispatched">>, <<"dispatched", "in_progress">>,
   <<"in_progress", "completed">>, <<"completed", "scoring">>,
   <<"scoring", "scored">>,
   <<"ready", "declined">>, <<"invited", "abandoned">>, <<"ready", "abandoned">>,
   <<"dispatched", "interrupted">>, <<"in_progress", "interrupted">>,
   <<"interrupted", "dispatched">>}
  \cup {<<s, "failed">> : s \in States \ Terminal}

\* What statemachine.New insists on before the server starts: every edge joins
\* two known states and none leaves a terminal one.
WellFormed == States # {} /\ Edges \subseteq (States \ Terminal) \X States

\* The states a session has passed through once it has been handed to scoring.
ScoringOrLater == {"scoring", "scored", "failed"}

\* Seeded fault: any name passes for a state.
AnyName(s) == TRUE

Has(s) == s \in States

IsTerminal(s) == s \in Terminal

\* Machine.Validate, in the order of its returns.
Validate(from, to) ==
  IF ~Has(from) \/ ~Has(to) THEN "unknown"
  ELSE IF IsTerminal(from) THEN "terminal"
  ELSE IF <<from, to>> \notin Edges THEN "illegal"
  ELSE "ok"
=============================================================================
