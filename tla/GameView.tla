------------------------------ MODULE GameView ------------------------------
(***************************************************************************)
(* What the flag submission server may believe of the game, whatever       *)
(* happens between it and the control server: each belief was true once,   *)
(* the round only rises while the process lives, and a new process knows   *)
(* nothing.  FlagServer builds on it; GameFeed implements it.              *)
(***************************************************************************)
EXTENDS Integers

CONSTANTS
    Halts,     \* how a game halts: SUSPENDED, STOPPED
    MaxRound   \* bound: rounds of the game

ASSUME ViewAssumption == MaxRound \in Nat /\ Halts \subseteq {"SUSPENDED", "STOPPED"}

VARIABLES
    game,      \* the master timer's state and round
    view,      \* Redis::state and Redis::current_round
    alive      \* the server's process runs

viewVars == <<game, view, alive>>

Unknown == [state |-> "STOPPED", round |-> -1]

ViewInit ==
    /\ game = [state |-> "STOPPED", round |-> 0]
    /\ view = Unknown /\ alive = FALSE

\* start_ctf: a new round, from a halt.
StartGame ==
    /\ game.state # "RUNNING" /\ game.round < MaxRound
    /\ game' = [state |-> "RUNNING", round |-> game.round + 1]
\* check_time: the tick ends, the next one starts or the game halts.
NextTick ==
    /\ game.state = "RUNNING" /\ game.round < MaxRound
    /\ game' = [game EXCEPT !.round = @ + 1]
Halt ==
    /\ game.state = "RUNNING"
    /\ \E h \in Halts : game' = [game EXCEPT !.state = h]

\* setCurrentState, setCurrentRound.
LearnState ==
    /\ alive /\ game.round > 0
    /\ \E st \in {"RUNNING", game.state} \cup Halts : view' = [view EXCEPT !.state = st]
LearnRound ==
    /\ alive
    /\ \E r \in view.round + 1..game.round : r > 0 /\ view' = [view EXCEPT !.round = r]

Up == ~alive /\ alive' = TRUE /\ view' = Unknown
Down == alive /\ alive' = FALSE /\ UNCHANGED view

ViewNext ==
    \/ (StartGame \/ NextTick \/ Halt) /\ UNCHANGED <<view, alive>>
    \/ (LearnState \/ LearnRound) /\ UNCHANGED <<game, alive>>
    \/ (Up \/ Down) /\ UNCHANGED game

ViewSpec == ViewInit /\ [][ViewNext]_viewVars
=============================================================================
