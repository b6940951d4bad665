----------------------------- MODULE LiveBattle -----------------------------
(***************************************************************************)
(* What a live battle promises its two players, without packets, timers or *)
(* sequence numbers: a challenge is accepted or given up, every turn plays *)
(* a move the challenged player picked, a battle ends by its last          *)
(* knock-out or by a flee, and nobody drops out of one that is being       *)
(* played.  ServerAuthBattle implements it.                                *)
(***************************************************************************)
EXTENDS BattleEngine

CONSTANT Strict   \* TRUE: a turn plays a move picked for that very turn

VARIABLES
    stage,    \* "none", "offered", "playing" or "over"
    battle,   \* number of the battle, counted by the challenger
    turn, result, alive,
    picks     \* <<battle, turn, move>>: what the challenged player picked

lbVars == <<stage, battle, turn, result, alive, picks>>

Board(e) == turn' = e.turn /\ result' = e.result /\ alive' = e.alive

LBInit ==
    /\ stage = "none" /\ battle = 0 /\ picks = {}
    /\ turn = 0 /\ result = "ONGOING" /\ alive = [s \in Side |-> 0]

\* The opponent's team is not known before it accepts.
Offer ==
    /\ stage = "none"
    /\ stage' = "offered" /\ battle' = battle + 1
    /\ Board(Start([FullTeams EXCEPT ![1] = 0]))
    /\ UNCHANGED picks

AcceptOffer ==
    /\ stage = "offered"
    /\ stage' = "playing"
    /\ Board(Start(FullTeams))
    /\ UNCHANGED <<battle, picks>>

\* Declined, or nobody answered.
GiveUpOffer ==
    /\ stage = "offered"
    /\ stage' = "over"
    /\ UNCHANGED <<battle, turn, result, alive, picks>>

\* Possibly in an earlier battle than the challenger's.
Pick ==
    /\ picks \subseteq picks'
    /\ UNCHANGED <<stage, battle, turn, result, alive>>

HasPick ==
    \E t \in 0 .. 255, mv \in Moves :
        <<battle, t, mv>> \in picks /\ (Strict => t = turn % 256)

PlayTurn ==
    /\ stage = "playing" /\ result = "ONGOING"
    /\ HasPick
    /\ turn' = turn + 1
    /\ alive' \in Survivors(alive)
    /\ result' = ResultOf(alive')
    /\ stage' = IF result' = "ONGOING" THEN "playing" ELSE "over"
    /\ UNCHANGED <<battle, picks>>

\* Either player flees or falls silent.  A flee of the challenged player that
\* crosses the end of the battle still decides it, and one that is faster than
\* its acceptance leaves the offer open.
FleeFrom(side) ==
    /\ \/ stage = "playing"
       \/ stage \in {"offered", "over"} /\ side = 1
    /\ result' = IF side = 0 THEN "P2_WIN" ELSE "P1_WIN"
    /\ stage' = IF stage = "offered" THEN "offered" ELSE "over"
    /\ UNCHANGED <<battle, turn, alive, picks>>

\* Only a battle that is not being played is left.
Leave ==
    /\ stage \in {"offered", "over"}
    /\ stage' = "none"
    /\ UNCHANGED <<battle, turn, result, alive, picks>>

LBNext == \/ Offer \/ AcceptOffer \/ GiveUpOffer \/ Pick \/ PlayTurn
          \/ \E side \in Side : FleeFrom(side)
          \/ Leave

LBSpec == LBInit /\ [][LBNext]_lbVars

=============================================================================
