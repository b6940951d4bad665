--------------------------- MODULE LockstepBattle ---------------------------
(***************************************************************************)
(* The legacy live battle of MonsterMeshTextBattle (role_ LEGACY): both    *)
(* nodes run the engine from one seed, exchange the action of every turn,  *)
(* and compare hashes of their boards.  Node 0 is the initiator, node 1    *)
(* the receiver.  An action is repeated on a timer while its sender waits; *)
(* a peer one turn behind is helped from lastSent or prevSent; a silent    *)
(* peer forfeits.                                                          *)
(*                                                                         *)
(* The engines are deterministic: fate records what a turn did, so that    *)
(* two engines in the same state with the same actions do the same.        *)
(***************************************************************************)
EXTENDS BattleEngine, MeshChannel

CONSTANTS
    LevelUps,     \* TRUE: a mon may level up on a knock-out
    MaxSession,   \* bounds of the model: battles,
    MaxTurn       \* and turns of one battle

ASSUME LockstepAssumption ==
    LevelUps \in BOOLEAN /\ MaxSession \in Nat /\ MaxTurn \in Nat

VARIABLES
    node,    \* the two battle objects
    eng,     \* their engine_; side 0 is the node itself
    net,     \* net[n]: packets on their way to node n
    level,   \* in-battle level-ups each node gave its own party
    fate,    \* what the turns played so far did
    \* History, read by properties only.
    played,  \* the pairs of moves <<node 0's, node 1's>> of each engine
    picks    \* <<session, node, turn, move>>: what users picked

vars == <<node, eng, net, level, fate, played, picks>>

Node == {0, 1}
Peer(n) == 1 - n

Sent == [act : Moves \cup {NoAct}, turn : Nat]
NothingSent == [act |-> NoAct, turn |-> 0]

-----------------------------------------------------------------------------
(* Packets. *)

\* hashState: everything that happened, in the order of the initiator's view;
\* each node only knows of its own level-ups.
HashState(n) == <<played[n], [m \in Node |-> IF m = n THEN level[n] ELSE 0]>>

Action(s, turn, act) == [type |-> "ACTION", sess |-> s, turn |-> turn, act |-> act]
ForfeitPkt(s) == [type |-> "FORFEIT", sess |-> s]
Hash(n, s) == [type |-> "HASH", sess |-> s, turn |-> eng[n].turn,
               hash |-> HashState(n)]

Transmit(n, m) == net' = [net EXCEPT ![Peer(n)] = Enqueue(@, m)]

-----------------------------------------------------------------------------
Init ==
    /\ node = [n \in Node |->
                 [phase |-> "OFF", session |-> 0, pendingRemote |-> FALSE,
                  lastSent |-> NothingSent, prevSent |-> NothingSent,
                  clean |-> TRUE, aborted |-> FALSE]]
    /\ eng = [n \in Node |-> Start(FullTeams)]
    /\ net = [n \in Node |-> << >>]
    /\ level = [n \in Node |-> 0]
    /\ fate = {}
    /\ played = [n \in Node |-> << >>]
    /\ picks = {}

\* The hub launches the battle when the parties are exchanged.  The initiator
\* is told at once that its peer is ready (markPeerReady), which leaves the
\* receiver's READY without an effect; the receiver sends its hash and keeps
\* pendingRemoteAction_ as the last battle left it.
LaunchKept(n) == n = 1 /\ node[n].pendingRemote

Launch(n) ==
    LET s == node[n].session + 1
        p == node[Peer(n)]
    IN  /\ node[n].phase = "OFF" /\ s <= MaxSession
        /\ p.session = s \/ (p.session = s - 1 /\ p.phase = "OFF")
        /\ node' = [node EXCEPT ![n].phase = "WAIT_ACTION", ![n].session = s,
                                ![n].pendingRemote = LaunchKept(n),
                                ![n].clean = ~LaunchKept(n),
                                ![n].aborted = FALSE]
        /\ eng' = [eng EXCEPT ![n] = Start(FullTeams)]
        /\ level' = [level EXCEPT ![n] = 0]
        /\ played' = [played EXCEPT ![n] = << >>]
        /\ IF n = 0 THEN UNCHANGED net
           ELSE Transmit(n, [type |-> "HASH", sess |-> s, turn |-> 0,
                             hash |-> <<<< >>, [m \in Node |-> 0]>>])
        /\ fate' = {f \in fate : f.key[1] = s}
        /\ UNCHANGED picks

\* sendAction(): every transmission demotes lastSent, also a repeated one.
Demote(x) == IF x.lastSent.act # NoAct THEN x.lastSent ELSE x.prevSent
SendAction(n, act) ==
    /\ node' = [node EXCEPT ![n].phase = "WAIT_REMOTE",
                            ![n].prevSent = Demote(node[n]),
                            ![n].lastSent = [act |-> act, turn |-> eng[n].turn]]
    /\ Transmit(n, Action(node[n].session, eng[n].turn, act))

\* handleKey: a move or a switch.
Pick(n, mv) ==
    /\ node[n].phase = "WAIT_ACTION" /\ eng[n].turn < MaxTurn
    /\ eng' = [eng EXCEPT ![n] = Submit(@, 0, mv)]
    /\ SendAction(n, mv)
    /\ picks' = picks \cup {<<node[n].session, n, eng[n].turn, mv>>}
    /\ UNCHANGED <<level, fate, played>>

\* handleKey: ESC at any moment, or the confirmed flee.
Flee(n) ==
    /\ node[n].phase \in {"WAIT_ACTION", "WAIT_REMOTE"}
    /\ eng' = [eng EXCEPT ![n] = Forfeit(@, 0)]
    /\ node' = [node EXCEPT ![n].phase = "FINISHED"]
    /\ Transmit(n, ForfeitPkt(node[n].session))
    /\ UNCHANGED <<level, fate, played, picks>>

\* handleKey in FINISHED: exit().
Exit(n) ==
    /\ node[n].phase = "FINISHED"
    /\ node' = [node EXCEPT ![n].phase = "OFF"]
    /\ UNCHANGED <<eng, net, level, fate, played, picks>>

-----------------------------------------------------------------------------
(* tick(). *)

\* The action is repeated every RESEND_INTERVAL_MS.
ResendDueOnce(n) ==
    /\ node[n].phase = "WAIT_REMOTE" /\ node[n].lastSent.act # NoAct
    /\ node[n].prevSent # node[n].lastSent
ResendDue(n) == node[n].phase = "WAIT_REMOTE" /\ node[n].lastSent.act # NoAct

Resend(n) ==
    /\ ResendDue(n)
    /\ SendAction(n, node[n].lastSent.act)
    /\ UNCHANGED <<eng, level, fate, played, picks>>

\* Nothing heard for REMOTE_TIMEOUT_MS.
SilenceInTurn(n) == node[n].phase = "WAIT_REMOTE"
Silence(n) == node[n].phase \in {"WAIT_ACTION", "WAIT_REMOTE"}

Timeout(n) ==
    /\ Silence(n)
    /\ eng' = [eng EXCEPT ![n] =
                 IF @.result = "ONGOING" THEN Forfeit(@, 1) ELSE @]
    /\ node' = [node EXCEPT ![n].phase = "FINISHED"]
    /\ UNCHANGED <<net, level, fate, played, picks>>

\* Boards and moves in the order <<node 0, node 1>>.
Oriented(n, f) == <<f[n], f[Peer(n)]>>

Outcomes(n) ==
    LET key == <<node[n].session, HashState(n), Oriented(n, eng[n].pend)>>
        Known == {f \in fate : f.key = key}
    IN  {f \in [key : {key}, alive : {Oriented(n, a) : a \in Survivors(eng[n].alive)}] :
            Known \subseteq {f}}

PlayTurn(n) ==
    \E f \in Outcomes(n) :
        LET a == [s \in Side |-> IF (s = 0) = (n = 0) THEN f.alive[1] ELSE f.alive[2]]
            e == [turn |-> eng[n].turn + 1, result |-> ResultOf(a),
                  pend |-> [s \in Side |-> NoAct], alive |-> a]
        IN  /\ fate' = fate \cup {f}
            /\ eng' = [eng EXCEPT ![n] = e]
            /\ played' = [played EXCEPT ![n] = Append(@, Oriented(n, eng[n].pend))]
            /\ \E up \in 0 .. IF LevelUps /\ a[1] < eng[n].alive[1] /\ a[0] > 0
                              THEN 1 ELSE 0 :
                  level' = [level EXCEPT ![n] = @ + up]
            /\ IF e.result # "ONGOING"
               THEN /\ node' = [node EXCEPT ![n].phase = "FINISHED"]
                    /\ UNCHANGED net
               ELSE /\ node' = [node EXCEPT ![n].phase = "WAIT_ACTION",
                                            ![n].pendingRemote = FALSE]
                    /\ Transmit(n, [type |-> "HASH", sess |-> node[n].session,
                                    turn |-> e.turn,
                                    hash |-> <<played'[n],
                                        [m \in Node |-> IF m = n THEN level'[n] ELSE 0]>>])

\* resolveTurn() runs on the flag alone; executeTurn() then does nothing unless
\* both actions are in.
ResolveTurn(n) ==
    /\ node[n].phase = "WAIT_REMOTE" /\ node[n].pendingRemote
    /\ IF Ready(eng[n])
       THEN PlayTurn(n)
       ELSE /\ node' = [node EXCEPT ![n].phase = "WAIT_ACTION",
                                    ![n].pendingRemote = FALSE]
            /\ Transmit(n, Hash(n, node[n].session))
            /\ UNCHANGED <<eng, level, fate, played>>
    /\ UNCHANGED picks

-----------------------------------------------------------------------------
(* handlePacket(): packets of another session are dropped, and all of them  *)
(* while no battle is on.                                                   *)

\* The action a peer that is behind waits for, if it is remembered.
SentIn(x, turn) == x.act # NoAct /\ x.turn = turn
Replay(n, turn) ==
    IF SentIn(node[n].lastSent, turn) THEN {node[n].lastSent.act}
    ELSE IF SentIn(node[n].prevSent, turn) THEN {node[n].prevSent.act}
    ELSE {}

SubmitsAnyTurn(n, m) == TRUE
Submits(n, m) == m.turn = eng[n].turn

OnAction(n, m, rest) ==
    IF Submits(n, m)
    THEN /\ eng' = [eng EXCEPT ![n] = Submit(@, 1, m.act)]
         /\ node' = [node EXCEPT ![n].pendingRemote = TRUE]
         /\ net' = rest
    ELSE /\ IF m.turn < eng[n].turn /\ Replay(n, m.turn) # {}
            THEN \E act \in Replay(n, m.turn) :
                    net' = [rest EXCEPT ![Peer(n)] =
                              Enqueue(@, Action(node[n].session, m.turn, act))]
            ELSE net' = rest
         /\ UNCHANGED <<eng, node>>

OnForfeit(n, rest) ==
    /\ eng' = [eng EXCEPT ![n] = Forfeit(@, 1)]
    /\ node' = [node EXCEPT ![n].phase = "FINISHED"]
    /\ net' = rest

\* A hash of the same turn that differs aborts the battle, silently.
DesyncInAnyTurn(n, m) == m.hash # HashState(n)
Desync(n, m) == m.turn = eng[n].turn /\ m.hash # HashState(n)

OnHash(n, m, rest) ==
    /\ IF Desync(n, m)
       THEN /\ eng' = [eng EXCEPT ![n] = Forfeit(@, 0)]
            /\ node' = [node EXCEPT ![n].phase = "FINISHED", ![n].aborted = TRUE]
       ELSE UNCHANGED <<eng, node>>
    /\ net' = rest

Receive(n, type) ==
    \E i \in Deliverable(net[n]) :
        LET m == net[n][i]
            rest == [net EXCEPT ![n] = RemoveAt(@, i)]
        IN  /\ m.type = type
            /\ IF node[n].phase = "OFF" \/ m.sess # node[n].session
               THEN net' = rest /\ UNCHANGED <<node, eng>>
               ELSE \/ type = "ACTION" /\ OnAction(n, m, rest)
                    \/ type = "FORFEIT" /\ OnForfeit(n, rest)
                    \/ type = "HASH" /\ OnHash(n, m, rest)
            /\ UNCHANGED <<level, fate, played, picks>>

Lose(n) ==
    /\ \E rest \in Losses(net[n]) : net' = [net EXCEPT ![n] = rest]
    /\ UNCHANGED <<node, eng, level, fate, played, picks>>

PktTypes == {"ACTION", "FORFEIT", "HASH"}

Next == \E n \in Node :
    \/ Launch(n)
    \/ \E mv \in Moves : Pick(n, mv)
    \/ Flee(n) \/ Exit(n)
    \/ Resend(n) \/ Timeout(n) \/ ResolveTurn(n)
    \/ \E type \in PktTypes : Receive(n, type)
    \/ Lose(n)

Spec == Init /\ [][Next]_vars

\* The main loop ticks for ever, no packet stays in the air, one that is sent
\* again and again arrives, and a peer that has left the battle stays silent
\* for 60 s.
Playing(n) == node[n].phase \in {"WAIT_ACTION", "WAIT_REMOTE"}
PeerGone(n) == ~Playing(Peer(n)) \/ node[Peer(n)].session # node[n].session

Leaves(n) == /\ Lose(n) \/ \E type \in PktTypes : Receive(n, type)
             /\ net'[n] = Tail(net[n])

Fairness == \A n \in Node :
    /\ WF_vars(Resend(n)) /\ WF_vars(ResolveTurn(n))
    /\ WF_vars(PeerGone(n) /\ Timeout(n))
    /\ WF_vars(Leaves(n)) /\ SF_vars(Receive(n, "ACTION"))

FairSpec == Spec /\ Fairness

-----------------------------------------------------------------------------
(* Properties. *)

SameBattle == node[0].session = node[1].session
Behind(n) == SameBattle /\ Len(played[n]) < Len(played[Peer(n)])

TypeOK ==
    /\ node \in [Node -> [phase : {"OFF", "WAIT_ACTION", "WAIT_REMOTE", "FINISHED"},
                          session : Nat, pendingRemote : BOOLEAN,
                          lastSent : Sent, prevSent : Sent,
                          clean : BOOLEAN, aborted : BOOLEAN]]
    /\ eng \in [Node -> Engines]
    /\ \A n \in Node : /\ Len(net[n]) <= QueueDepth
                       /\ eng[n].turn = Len(played[n])
    /\ level \in [Node -> Nat]

\* Every move an engine played for a side was picked by that side's user for
\* that turn of that battle, whatever was lost, repeated or left in the air by
\* the battle before (the turn and session checks of handlePacket).
PlayedWerePicked ==
    \A n \in Node : \A t \in DOMAIN played[n] : \A m \in Node :
        <<node[n].session, m, t - 1, played[n][t][m + 1]>> \in picks

InStep ==
    /\ \A t \in DOMAIN played[0] \cap DOMAIN played[1] : played[0][t] = played[1][t]
    /\ Len(played[0]) - Len(played[1]) \in -1 .. 1

\* The two engines play the same pairs of moves and are never more than one
\* turn apart, which is what lastSent and prevSent can make up for.
Lockstep == SameBattle => InStep

\* As long as no flag of an earlier battle was carried over.
CleanLockstep == node[0].clean /\ node[1].clean => Lockstep

\* "Desync detected" aborts only a battle whose engines played different moves
\* (hashState: "Game progression stays in sync"), for as long as both nodes
\* hold on to that battle.
DesyncIsReal == SameBattle => \A n \in Node : node[n].aborted => ~InStep

BothPicked == /\ SameBattle /\ eng[0].turn = eng[1].turn
              /\ \A n \in Node : node[n].phase = "WAIT_REMOTE"
OneLeft == SameBattle /\ \E n \in Node : Playing(n) /\ ~Playing(Peer(n))

\* When both users have picked for the same turn, one node plays it or the
\* battle ends; the 60 s timeout is not needed for it.
PickedTurnIsPlayed == BothPicked ~> ~BothPicked

\* Nobody stays in a battle the peer has left: an abort sends no packet, a
\* forfeit only one.
FinishSpreads == OneLeft ~> ~OneLeft

=============================================================================
