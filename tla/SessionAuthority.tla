-------------------------- MODULE SessionAuthority --------------------------
(***************************************************************************)
(* What the backend promises about a session's state, whoever asks for a   *)
(* move and however the requests interleave: the states a session has been *)
(* in form a path of the graph that only ever grows at its end.            *)
(***************************************************************************)
EXTENDS Sequences, SessionGraph

CONSTANT Sessions

\* history[s]: the states of session s so far, oldest first.
VARIABLE history

Init == history = [s \in Sessions |-> << >>]

Create(s) ==
  /\ history[s] = << >>
  /\ history' = [history EXCEPT ![s] = <<"scheduled">>]

Move(s, to) ==
  /\ history[s] # << >>
  /\ <<history[s][Len(history[s])], to>> \in Edges
  /\ history' = [history EXCEPT ![s] = Append(@, to)]

Next == \E s \in Sessions : Create(s) \/ \E to \in States : Move(s, to)

Spec == Init /\ [][Next]_history
=============================================================================
