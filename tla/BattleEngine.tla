---------------------------- MODULE BattleEngine ----------------------------
(***************************************************************************)
(* Gen1BattleEngine, reduced to what the battle protocols can tell apart:  *)
(* the turn counter, the two pending actions, how many mons of each side   *)
(* still stand, and the result.  Damage, status, speed and the random      *)
(* number generator decide only WHICH of the outcomes of a turn is taken,  *)
(* so executeTurn is a choice among all of them.                           *)
(*                                                                         *)
(* Side 0 is the node that runs the engine, side 1 its opponent.           *)
(***************************************************************************)
EXTENDS Naturals

CONSTANTS
    Moves,       \* what a player can submit: a move slot or a switch target
    TeamSize,    \* mons per party (MAX_PARTY is 6)
    NoAct        \* 0xFF, no action pending

ASSUME EngineAssumption == TeamSize \in Nat \ {0} /\ NoAct \notin Moves

Side == {0, 1}
Results == {"ONGOING", "P1_WIN", "P2_WIN", "DRAW"}
FullTeams == [s \in Side |-> TeamSize]

Engines == [turn : Nat, result : Results,
            pend : [Side -> Moves \cup {NoAct}],
            alive : [Side -> 0 .. TeamSize]]

\* start(): turn 0, nothing pending, the mons standing as given.
Start(teams) == [turn |-> 0, result |-> "ONGOING",
                 pend |-> [s \in Side |-> NoAct], alive |-> teams]

\* submitAction(): the last submission of a side wins.
Submit(e, side, move) == [e EXCEPT !.pend[side] = move]

\* forfeit(): decides the battle, whatever the result was before.
Forfeit(e, side) ==
    [e EXCEPT !.result = IF side = 0 THEN "P2_WIN" ELSE "P1_WIN"]

ResultOf(alive) ==
    CASE alive[0] = 0 /\ alive[1] = 0 -> "DRAW"
      [] alive[0] = 0 /\ alive[1] > 0 -> "P2_WIN"
      [] alive[0] > 0 /\ alive[1] = 0 -> "P1_WIN"
      [] OTHER                        -> "ONGOING"

\* Moves and end-of-turn damage reach only the two active mons, so a turn
\* takes down at most one mon of each side.
Survivors(alive) ==
    {a \in [Side -> 0 .. TeamSize] :
        \A s \in Side : a[s] = alive[s] \/ a[s] + 1 = alive[s]}

\* executeTurn(): nothing unless the battle is on and both sides submitted.
Ready(e) == e.result = "ONGOING" /\ \A s \in Side : e.pend[s] # NoAct

ExecuteTurn(e) ==
    IF Ready(e)
    THEN {[turn |-> e.turn + 1, result |-> ResultOf(a),
           pend |-> [s \in Side |-> NoAct], alive |-> a] :
             a \in Survivors(e.alive)}
    ELSE {e}

=============================================================================
