-------------------------- MODULE ServerAuthBattle --------------------------
(***************************************************************************)
(* The server-authoritative live PvP battle of MonsterMeshTextBattle.      *)
(*                                                                         *)
(* The node that challenges is the SERVER: it alone runs the battle engine *)
(* and ships the board in UPDATE packets.  The node that is challenged is  *)
(* the CLIENT: it renders what the server ships and sends back the action  *)
(* its user picks, with the sequence number of the last UPDATE it applied  *)
(* as the acknowledgement.  CHALLENGE, ACCEPT, UPDATE and ACTION_V2 are    *)
(* retransmitted on timers; a board that hashes differently is refetched   *)
(* with STATE_REQUEST / FULL_STATE; a silent peer forfeits.                *)
(*                                                                         *)
(* Time is abstracted: a timer that is armed may run out at any tick.      *)
(***************************************************************************)
EXTENDS BattleEngine, MeshChannel

CONSTANTS
    Flee, PureAck,  \* action types 2 and 0xFE of ACTION_V2
    NoPkt,          \* an empty packet buffer
    MaxTries,       \* TB_CHALLENGE_MAX_TRIES (15)
    SlowStart,      \* TRUE: the first UPDATE may take longer than 15 s
    TerminalHeld,   \* TRUE: the server's terminal keeps the keyboard until
                    \* ACCEPT arrives (handleKeyPress)
    EarlyFlee,      \* TRUE: the client's user may flee before the first UPDATE
    LevelUps,       \* TRUE: a client mon may level up on a knock-out
    \* Bounds of the model.
    MaxSession,     \* challenges the server sends
    MaxTurn,        \* turns it plays in one battle
    MaxSeq,         \* UPDATEs it builds in one battle
    Menus           \* whether the players open the switch and flee menus

ASSUME ActionTypeAssumption ==
    /\ Flee \notin Moves \cup {NoAct, PureAck}
    /\ PureAck \notin Moves \cup {NoAct}

ASSUME BoundAssumption ==
    /\ MaxTries \in Nat \ {0}
    /\ MaxSession \in Nat /\ MaxTurn \in Nat /\ MaxSeq \in Nat
    /\ {SlowStart, TerminalHeld, EarlyFlee, LevelUps, Menus} \subseteq BOOLEAN

VARIABLES
    srv,      \* the challenger's battle object (role_ SERVER)
    eng,      \* its engine_
    cli,      \* the challenged node's battle object (role_ CLIENT)
    toCli,    \* packets on their way to the client
    toSrv,    \* packets on their way to the server
    \* History, read by properties only.
    chosen,   \* <<session, turn, move>>: every move the client's user picked
    applied   \* <<session, seq>>: every UPDATE or FULL_STATE the client took

vars == <<srv, eng, cli, toCli, toSrv, chosen, applied>>

-----------------------------------------------------------------------------
(* Packets.  The server's turn and sequence counters are one byte on the   *)
(* wire.  "real" is the part of the board hash that depends on the party   *)
(* counts: the placeholder engine a server holds before ACCEPT has none    *)
(* for the client, so a board made from it never hashes equal.             *)

Wire(n) == n % 256

Challenge(sess) == [type |-> "CHALLENGE", sess |-> sess]
Accept(sess, yes) == [type |-> "ACCEPT", sess |-> sess, yes |-> yes]
Update(sess, seq, e, real) ==
    [type |-> "UPDATE", sess |-> sess, seq |-> seq, turn |-> Wire(e.turn),
     alive |-> e.alive, real |-> real, result |-> e.result]
FullState(sess, seq, e, real) ==
    [type |-> "FULL_STATE", sess |-> sess, seq |-> seq,
     alive |-> e.alive, real |-> real]
StateRequest(sess) == [type |-> "STATE_REQUEST", sess |-> sess]
ActionV2(sess, turn, act, acked) ==
    [type |-> "ACTION_V2", sess |-> sess, turn |-> turn, act |-> act,
     acked |-> acked]
ForfeitPkt(sess) == [type |-> "FORFEIT", sess |-> sess]

Sessions == 1 .. MaxSession
Byte == 0 .. 255
Alive == [Side -> 0 .. TeamSize]

UpdatePkts == [type : {"UPDATE"}, sess : Sessions, seq : Byte, turn : Byte,
               alive : Alive, real : BOOLEAN, result : Results]
ServerPkts ==
    UpdatePkts
    \cup [type : {"CHALLENGE", "FORFEIT"}, sess : Sessions]
    \cup [type : {"FULL_STATE"}, sess : Sessions, seq : Byte,
          alive : Alive, real : BOOLEAN]
ClientPkts ==
    [type : {"ACCEPT"}, sess : Sessions, yes : BOOLEAN]
    \cup [type : {"STATE_REQUEST"}, sess : Sessions]
    \cup [type : {"ACTION_V2"}, sess : Sessions, turn : Byte,
          act : Moves \cup {Flee, PureAck}, acked : Byte]

-----------------------------------------------------------------------------
(* State. *)

MenuPhases == {"WAIT_ACTION", "WAIT_SWITCH", "WAIT_FLEE"}
Phases == MenuPhases \cup
          {"IDLE", "WAIT_REMOTE", "FINISHED", "WAIT_CHALLENGE_OVERLAY"}
Modes == {"OFF", "NETWORKED"}

Servers ==
    [mode : Modes, phase : Phases, session : 0 .. MaxSession,
     awaitingAccept : BOOLEAN, challengeTries : 0 .. MaxTries,
     peerReady : BOOLEAN,         \* FALSE: the engine is still the placeholder
     pendingRemoteAction : BOOLEAN,
     updateSeq : Byte, unackedUpdate : BOOLEAN,
     lastUpdate : UpdatePkts \cup {NoPkt},
     pendingKeyExit : BOOLEAN, playerWon : BOOLEAN]

Clients ==
    [mode : Modes, phase : Phases, session : 0 .. MaxSession,
     clientTurn : Byte, actionType : Moves \cup {NoAct, Flee},
     actionTurn : Byte, lastApplied : Byte, needsFullState : BOOLEAN,
     awaitingFirst : BOOLEAN, preAccept : UpdatePkts \cup {NoPkt},
     alive : Alive,               \* engine_ parties, in the server's numbering
     xpDrops : Nat,               \* knock-outs credited in this battle
     playerWon : BOOLEAN]

TypeOK ==
    /\ srv \in Servers
    /\ eng \in Engines
    /\ cli \in Clients
    /\ toCli \in Seq(ServerPkts)
    /\ toSrv \in Seq(ClientPkts)
    /\ chosen \subseteq Sessions \X Byte \X Moves
    /\ applied \subseteq Sessions \X Byte

Init ==
    /\ srv = [mode |-> "OFF", phase |-> "IDLE", session |-> 0,
              awaitingAccept |-> FALSE, challengeTries |-> 0,
              peerReady |-> FALSE, pendingRemoteAction |-> FALSE,
              updateSeq |-> 0, unackedUpdate |-> FALSE, lastUpdate |-> NoPkt,
              pendingKeyExit |-> FALSE, playerWon |-> FALSE]
    /\ eng = Start([s \in Side |-> 0])
    /\ cli = [mode |-> "OFF", phase |-> "IDLE", session |-> 0,
              clientTurn |-> 0, actionType |-> NoAct, actionTurn |-> 0,
              lastApplied |-> 0, needsFullState |-> FALSE,
              awaitingFirst |-> FALSE, preAccept |-> NoPkt,
              alive |-> [s \in Side |-> 0], xpDrops |-> 0,
              playerWon |-> FALSE]
    /\ toCli = <<>> /\ toSrv = <<>>
    /\ chosen = {} /\ applied = {}

ServerUnchanged == UNCHANGED <<srv, eng>>
HistoryUnchanged == UNCHANGED <<chosen, applied>>

-----------------------------------------------------------------------------
(* Server.  Where a definition is preceded by variants of it with the same *)
(* parameters, each variant is the handler with one slip; a property that  *)
(* holds of the handler and fails of the variant depends on that code.     *)

\* exit(): leave the battle; what the next battle resets itself is kept.
ServerExited(s) ==
    [s EXCEPT !.mode = "OFF", !.phase = "IDLE", !.awaitingAccept = FALSE,
              !.unackedUpdate = FALSE, !.pendingKeyExit = FALSE,
              !.challengeTries = 0]

\* serverAuthSendUpdate(): number the board, keep the packet for
\* retransmission, queue it.  The result pairs the server with its queue.
SendUpdate(s, e, ch) ==
    LET seq == Wire(s.updateSeq + 1)
        upd == Update(s.session, seq, e, s.peerReady)
    IN  [srv |-> [s EXCEPT !.updateSeq = seq, !.lastUpdate = upd,
                           !.unackedUpdate = TRUE],
         net |-> Enqueue(ch, upd)]

\* Bound: no step that builds an UPDATE once MaxSeq of them exist.
CanUpdate == srv.updateSeq < MaxSeq

\* startServerAuthAsInitiator(): only from an idle module.  The engine holds
\* our party in both slots with the opponent's count zeroed.
SendChallenge ==
    /\ srv.mode = "OFF"
    /\ srv.session < MaxSession
    /\ LET sess == srv.session + 1 IN
        /\ srv' = [srv EXCEPT
                     !.mode = "NETWORKED", !.phase = "WAIT_REMOTE",
                     !.session = sess, !.awaitingAccept = TRUE,
                     !.challengeTries = 1, !.peerReady = FALSE,
                     !.pendingRemoteAction = FALSE, !.updateSeq = 0,
                     !.unackedUpdate = FALSE, !.lastUpdate = NoPkt,
                     !.playerWon = FALSE]
        /\ toCli' = Enqueue(toCli, Challenge(sess))
    /\ eng' = Start([FullTeams EXCEPT ![1] = 0])
    /\ HistoryUnchanged
    /\ UNCHANGED <<cli, toSrv>>

\* serverAuthOnAcceptPkt()
OnAccept(m) ==
    IF ~srv.awaitingAccept \/ m.sess # srv.session
    THEN UNCHANGED <<srv, eng, toCli>>
    ELSE IF ~m.yes
    THEN /\ srv' = [srv EXCEPT !.phase = "FINISHED",
                               !.awaitingAccept = FALSE]
         /\ UNCHANGED <<eng, toCli>>
    ELSE /\ CanUpdate
         /\ eng' = Start(FullTeams)
         /\ \E kept \in DropPendingSends(toCli) :
              LET s == [srv EXCEPT !.awaitingAccept = FALSE,
                                   !.peerReady = TRUE,
                                   !.pendingRemoteAction = FALSE,
                                   !.phase = "WAIT_ACTION"]
                  r == SendUpdate(s, Start(FullTeams), kept)
              IN  srv' = r.srv /\ toCli' = r.net

\* serverAuthOnActionV2Pkt(): the acknowledgement counts whatever the turn;
\* the action counts only for the open turn.
AcknowledgedBySlip(s, m) == [s EXCEPT !.unackedUpdate = FALSE]
Acknowledged(s, m) ==
    IF s.unackedUpdate /\ m.acked = s.updateSeq
    THEN [s EXCEPT !.unackedUpdate = FALSE]
    ELSE s

CountsInAnyTurn(m) == m.act # PureAck
CountsWithSentinel(m) == m.turn = Wire(eng.turn)
ActionCounts(m) == m.turn = Wire(eng.turn) /\ m.act # PureAck

OnActionV2(m) ==
    LET s == Acknowledged(srv, m) IN
    IF m.sess # srv.session
    THEN UNCHANGED <<srv, eng, toCli>>
    ELSE IF ~ActionCounts(m)
    THEN srv' = s /\ UNCHANGED <<eng, toCli>>
    ELSE IF m.act = Flee
    THEN /\ CanUpdate
         /\ eng' = Forfeit(eng, 1)
         /\ LET r == SendUpdate([s EXCEPT !.phase = "FINISHED"],
                                Forfeit(eng, 1), toCli)
            IN  srv' = r.srv /\ toCli' = r.net
    ELSE /\ eng' = Submit(eng, 1, m.act)
         /\ srv' = [s EXCEPT !.pendingRemoteAction = TRUE]
         /\ UNCHANGED toCli

\* serverAuthOnStateRequestPkt(): answers in every phase, also before ACCEPT.
OnStateRequest(m) ==
    /\ UNCHANGED <<srv, eng>>
    /\ toCli' = IF m.sess = srv.session
                THEN Enqueue(toCli, FullState(srv.session, srv.updateSeq,
                                              eng, srv.peerReady))
                ELSE toCli

\* handlePacket() at the server; with no battle every packet is dropped.
ServerTakes(i) ==
    LET m == toSrv[i] IN
    /\ toSrv' = RemoveAt(toSrv, i)
    /\ \/ srv.mode = "OFF" /\ UNCHANGED <<srv, eng, toCli>>
       \/ srv.mode # "OFF" /\ m.type = "ACCEPT" /\ OnAccept(m)
       \/ srv.mode # "OFF" /\ m.type = "ACTION_V2" /\ OnActionV2(m)
       \/ srv.mode # "OFF" /\ m.type = "STATE_REQUEST"
                           /\ OnStateRequest(m)
    /\ HistoryUnchanged
    /\ UNCHANGED cli

ServerReceive == \E i \in Deliverable(toSrv) : ServerTakes(i)

\* serverAuthRetransmit(), when its timer is due: CHALLENGE until the tries
\* are used up, otherwise the last UPDATE until it is acknowledged.
OneTryMore(s) == s.challengeTries > MaxTries
OutOfTries(s) == s.challengeTries >= MaxTries

RetransmitForEver(s, ch) ==
    [srv |-> s, net |-> IF s.awaitingAccept
                        THEN Enqueue(ch, Challenge(s.session))
                        ELSE IF s.unackedUpdate
                        THEN Enqueue(ch, s.lastUpdate) ELSE ch]
RetransmitNoUpdate(s, ch) ==
    [srv |-> IF ~s.awaitingAccept THEN s
             ELSE IF OutOfTries(s)
             THEN [s EXCEPT !.phase = "FINISHED", !.awaitingAccept = FALSE]
             ELSE [s EXCEPT !.challengeTries = @ + 1],
     net |-> IF s.awaitingAccept /\ ~OutOfTries(s)
             THEN Enqueue(ch, Challenge(s.session)) ELSE ch]
Retransmit(s, ch) ==
    IF s.awaitingAccept
    THEN IF OutOfTries(s)
         THEN [srv |-> [s EXCEPT !.phase = "FINISHED",
                                 !.awaitingAccept = FALSE],
               net |-> ch]
         ELSE [srv |-> [s EXCEPT !.challengeTries = @ + 1],
               net |-> Enqueue(ch, Challenge(s.session))]
    ELSE IF s.unackedUpdate
         THEN [srv |-> s, net |-> Enqueue(ch, s.lastUpdate)]
         ELSE [srv |-> s, net |-> ch]

\* resolveTurn(): play the turn, ship the board, and either end the battle
\* or open the next turn.
ResolveTurn(s, ch) ==
    /\ CanUpdate
    /\ \E e \in ExecuteTurn(eng) :
        LET over == e.result # "ONGOING"
            r == SendUpdate(
                   [s EXCEPT
                      !.playerWon = @ \/ e.result = "P1_WIN",
                      !.pendingRemoteAction = over,
                      !.phase = IF over THEN "FINISHED" ELSE "WAIT_ACTION"],
                   e, ch)
        IN  eng' = e /\ srv' = r.srv /\ toCli' = r.net

\* tick() at the server.  due: the retransmission timer has run out; held:
\* a key-exit has waited 45 s; silent: nothing came from the peer for 60 s.
ServerTickWhen(due, held, silent) ==
    /\ srv.mode = "NETWORKED"
    /\ LET r == IF due THEN Retransmit(srv, toCli)
                       ELSE [srv |-> srv, net |-> toCli]
           s == r.srv
       IN
       IF s.pendingKeyExit /\ (~s.unackedUpdate \/ held)
       THEN srv' = ServerExited(s) /\ toCli' = r.net /\ UNCHANGED eng
       ELSE IF silent /\ s.phase # "FINISHED" /\ ~s.awaitingAccept
       THEN /\ eng' = IF eng.result = "ONGOING" THEN Forfeit(eng, 1) ELSE eng
            /\ srv' = [s EXCEPT !.phase = "FINISHED"]
            /\ toCli' = r.net
       ELSE IF s.phase = "WAIT_REMOTE" /\ s.pendingRemoteAction
       THEN ResolveTurn(s, r.net)
       ELSE srv' = s /\ toCli' = r.net /\ UNCHANGED eng
    /\ HistoryUnchanged
    /\ UNCHANGED <<cli, toSrv>>

\* A timer is looked at only where the code arms it.
ServerTick == \E due \in {FALSE, srv.awaitingAccept \/ srv.unackedUpdate},
                 held \in {FALSE, srv.pendingKeyExit},
                 silent \in {FALSE, srv.phase # "FINISHED"} :
                 ServerTickWhen(due, held, silent)

-----------------------------------------------------------------------------
(* Server keyboard: handleKey() by the phase it finds. *)

\* While ACCEPT is outstanding a focused terminal takes the keys instead.
ServerHasKeys ==
    srv.mode = "NETWORKED" /\ ~(TerminalHeld /\ srv.awaitingAccept)

ServerKeys ==
    HistoryUnchanged /\ UNCHANGED <<cli, toSrv>>

\* Any key on the result screen: hold it while the last UPDATE is
\* unacknowledged, a second press leaves at once.
ServerKeyFinished ==
    /\ ServerHasKeys /\ srv.phase = "FINISHED"
    /\ srv' = IF srv.unackedUpdate /\ ~srv.pendingKeyExit
              THEN [srv EXCEPT !.pendingKeyExit = TRUE]
              ELSE ServerExited(srv)
    /\ UNCHANGED <<eng, toCli>> /\ ServerKeys

\* ESC outside the result screen.
ServerKeyEsc ==
    /\ ServerHasKeys /\ srv.phase # "FINISHED" /\ CanUpdate
    /\ eng' = Forfeit(eng, 0)
    /\ LET r == SendUpdate([srv EXCEPT !.phase = "FINISHED"],
                           Forfeit(eng, 0), toCli)
       IN  srv' = r.srv /\ toCli' = r.net
    /\ ServerKeys

\* F, then K to confirm or any other key to go back to the move menu.
ServerKeyFlee ==
    /\ ServerHasKeys /\ Menus
    /\ \/ /\ srv.phase \in {"WAIT_ACTION", "WAIT_SWITCH"}
          /\ srv' = [srv EXCEPT !.phase = "WAIT_FLEE"]
          /\ UNCHANGED <<eng, toCli>>
       \/ /\ srv.phase = "WAIT_FLEE"
          /\ srv' = [srv EXCEPT !.phase = "WAIT_ACTION"]
          /\ UNCHANGED <<eng, toCli>>
       \/ /\ srv.phase = "WAIT_FLEE"
          /\ srv' = [srv EXCEPT !.phase = "FINISHED"]
          /\ eng' = Forfeit(eng, 0)
          /\ toCli' = Enqueue(toCli, ForfeitPkt(srv.session))
    /\ ServerKeys

\* P or L opens the switch menu, L leaves it.
ServerKeySwitchMenu ==
    /\ ServerHasKeys /\ Menus
    /\ \/ srv.phase = "WAIT_ACTION" /\ srv' = [srv EXCEPT !.phase = "WAIT_SWITCH"]
       \/ srv.phase = "WAIT_SWITCH" /\ srv' = [srv EXCEPT !.phase = "WAIT_ACTION"]
    /\ UNCHANGED <<eng, toCli>> /\ ServerKeys

\* K on a move needs peerReady_; K on a switch target does not.
ServerKeyPick ==
    /\ ServerHasKeys
    /\ \/ srv.phase = "WAIT_ACTION" /\ srv.peerReady
       \/ srv.phase = "WAIT_SWITCH"
    /\ eng.turn < MaxTurn
    /\ \E mv \in Moves : eng' = Submit(eng, 0, mv)
    /\ srv' = [srv EXCEPT !.phase = "WAIT_REMOTE"]
    /\ UNCHANGED toCli /\ ServerKeys

\* The module's fight command evicts a stale battle before a CPU fight.
ServerEvicted ==
    /\ srv.mode = "NETWORKED"
    /\ srv.awaitingAccept \/ srv.phase = "FINISHED"
    /\ srv' = ServerExited(srv)
    /\ UNCHANGED <<eng, toCli>> /\ ServerKeys

-----------------------------------------------------------------------------
(* Client.  A handler's result pairs the client with its queue. *)

ClientExited(c) ==
    [c EXCEPT !.mode = "OFF", !.phase = "IDLE", !.awaitingFirst = FALSE,
              !.actionType = NoAct, !.clientTurn = 0,
              !.needsFullState = FALSE, !.preAccept = NoPkt]

\* clientAuthSendActionV2(): stamp the action with the mirrored turn; a pure
\* acknowledgement is not remembered for retransmission.
SendActionV2(c, ch, act) ==
    [cli |-> IF act = PureAck THEN c
             ELSE [c EXCEPT !.actionType = act, !.actionTurn = c.clientTurn],
     net |-> Enqueue(ch, ActionV2(c.session, c.clientTurn, act,
                                  c.lastApplied))]

\* The board of an UPDATE or FULL_STATE laid over the client's.  The
\* placeholder board has no mons for side 1.
Overlay(alive, m) == IF m.real THEN m.alive ELSE [alive EXCEPT ![0] = m.alive[0]]
AllKnockedOut(alive, m) == TeamSize - m.alive[0]
KnockOuts(alive, m) ==
    IF alive[0] > m.alive[0] THEN alive[0] - m.alive[0] ELSE 0

\* Results are numbered from the server's side: side 1 is the client.
WinsAsServer(m) == m.result = "P1_WIN"
ClientWins(m) == m.result = "P2_WIN"

\* The board, the knock-outs and the result of an UPDATE as the client shows
\* them, before the hashes are compared.
ShownInOldTurn(c, m) ==
    [c EXCEPT !.awaitingFirst = FALSE,
              !.alive = Overlay(@, m),
              !.xpDrops = @ + KnockOuts(c.alive, m),
              !.playerWon = @ \/ ClientWins(m)]
Shown(c, m) ==
    [c EXCEPT !.awaitingFirst = FALSE, !.clientTurn = m.turn,
              !.alive = Overlay(@, m),
              !.xpDrops = @ + KnockOuts(c.alive, m),
              !.playerWon = @ \/ ClientWins(m)]

\* The hashes agree unless the board came from the placeholder engine or a
\* knock-out levelled one of the client's standing mons, which heals it.
SameHash(c, m, levelUp) ==
    m.real /\ ~(levelUp /\ KnockOuts(c.alive, m) > 0 /\ m.alive[1] > 0)

\* clientAuthOnUpdatePkt() once the engine is started: a repeat of the last
\* applied UPDATE is only acknowledged, with the action sent before if there
\* is one; any other is shown, and kept if the hashes agree.
ApplyUpdate(c, ch, m, levelUp) ==
    IF m.seq = c.lastApplied /\ c.lastApplied # 0
    THEN SendActionV2([c EXCEPT !.awaitingFirst = FALSE], ch,
                      IF c.actionType # NoAct THEN c.actionType ELSE PureAck)
    ELSE IF ~SameHash(c, m, levelUp)
    THEN [cli |-> [Shown(c, m) EXCEPT !.needsFullState = TRUE],
          net |-> Enqueue(ch, StateRequest(c.session))]
    ELSE IF m.result # "ONGOING"
    THEN SendActionV2([Shown(c, m) EXCEPT !.lastApplied = m.seq,
                                          !.phase = "FINISHED"], ch, PureAck)
    ELSE [cli |-> [Shown(c, m) EXCEPT !.lastApplied = m.seq,
                                      !.phase = "WAIT_ACTION",
                                      !.actionType = NoAct],
          net |-> ch]

\* What the client took from packet m, for the history.
Took(c, m) ==
    applied \cup (IF c.lastApplied = m.seq /\ c.session = m.sess
                  THEN {<<m.sess, m.seq>>} ELSE {})

\* clientAuthOnChallengePkt(): only an idle node looks at a CHALLENGE.
OnChallenge(m) ==
    /\ cli' = IF cli.mode # "OFF" THEN cli
              ELSE [cli EXCEPT !.mode = "NETWORKED",
                      !.phase = "WAIT_CHALLENGE_OVERLAY", !.session = m.sess,
                      !.lastApplied = 0, !.actionType = NoAct,
                      !.needsFullState = FALSE, !.preAccept = NoPkt,
                      !.playerWon = FALSE, !.xpDrops = 0]
    /\ UNCHANGED <<toSrv, applied>>

\* clientAuthOnUpdatePkt(): buffered while the Y/N prompt is up.
OnUpdate(m) ==
    IF m.sess # cli.session
    THEN UNCHANGED <<cli, toSrv, applied>>
    ELSE IF cli.phase = "WAIT_CHALLENGE_OVERLAY"
    THEN /\ cli' = [cli EXCEPT !.preAccept = m]
         /\ UNCHANGED <<toSrv, applied>>
    ELSE \E levelUp \in {FALSE, LevelUps} :
         LET r == ApplyUpdate(cli, toSrv, m, levelUp)
         IN  cli' = r.cli /\ toSrv' = r.net /\ applied' = Took(r.cli, m)

\* clientAuthOnFullStatePkt(): the turn is skipped and the result byte is
\* always ONGOING.
OnFullState(m) ==
    /\ UNCHANGED toSrv
    /\ IF m.sess # cli.session
       THEN UNCHANGED <<cli, applied>>
       ELSE /\ cli' = [cli EXCEPT !.alive = Overlay(@, m),
                         !.needsFullState = FALSE, !.awaitingFirst = FALSE,
                         !.lastApplied = m.seq, !.actionType = NoAct,
                         !.phase = "WAIT_ACTION"]
            /\ applied' = Took(cli', m)

\* The server's F/K flee.
OnForfeit(m) ==
    /\ cli' = IF m.sess = cli.session THEN [cli EXCEPT !.phase = "FINISHED"]
                                      ELSE cli
    /\ UNCHANGED <<toSrv, applied>>

\* handlePacket() at the client.
ClientTakes(i) ==
    LET m == toCli[i] IN
    /\ toCli' = RemoveAt(toCli, i)
    /\ \/ m.type = "CHALLENGE" /\ OnChallenge(m)
       \/ cli.mode # "OFF" /\ m.type = "UPDATE" /\ OnUpdate(m)
       \/ cli.mode # "OFF" /\ m.type = "FULL_STATE" /\ OnFullState(m)
       \/ cli.mode # "OFF" /\ m.type = "FORFEIT" /\ OnForfeit(m)
       \/ cli.mode = "OFF" /\ m.type # "CHALLENGE"
                           /\ UNCHANGED <<cli, toSrv, applied>>
    /\ ServerUnchanged
    /\ UNCHANGED chosen

ClientReceive == \E i \in Deliverable(toCli) : ClientTakes(i)

\* clientAuthRetransmit(): the action is repeated only in the turn it was sent
\* for, and not while the boards differ.
NeverResends(c) == FALSE
Resends(c) == /\ ~c.needsFullState /\ c.actionType # NoAct
              /\ c.actionTurn = c.clientTurn

\* The board is asked for only when 15 s have not brought it.
AsksAtOnce(first) == first = "request"
Asks(first) == first = "request" /\ SlowStart

\* tick() at the client: clientAuthRetransmit() with its two timers, then
\* the no-traffic timeout.
ClientTickWhen(first, due, silent) ==
    /\ cli.mode = "NETWORKED"
    /\ LET sent == IF ~cli.awaitingFirst \/ first = "none" THEN toSrv
                   ELSE IF Asks(first)
                   THEN Enqueue(toSrv, StateRequest(cli.session))
                   ELSE Enqueue(toSrv, Accept(cli.session, TRUE))
           r == IF due /\ Resends(cli)
                THEN SendActionV2(cli, sent, cli.actionType)
                ELSE [cli |-> cli, net |-> sent]
       IN  /\ cli' = IF silent THEN [r.cli EXCEPT !.phase = "FINISHED"]
                               ELSE r.cli
           /\ toSrv' = r.net
    /\ HistoryUnchanged /\ ServerUnchanged
    /\ UNCHANGED toCli

ClientTick == \E first \in IF cli.awaitingFirst
                            THEN {"none", "accept", "request"} ELSE {"none"},
                 due \in {FALSE, cli.actionType # NoAct},
                 silent \in {FALSE, cli.phase # "FINISHED"} :
                 ClientTickWhen(first, due, silent)

-----------------------------------------------------------------------------
(* Client keyboard. *)

ClientKeys == ServerUnchanged /\ UNCHANGED toCli

ClientKeyFinished ==
    /\ cli.mode = "NETWORKED" /\ cli.phase = "FINISHED"
    /\ cli' = ClientExited(cli)
    /\ UNCHANGED toSrv /\ HistoryUnchanged /\ ClientKeys

\* clientAuthSendAccept(TRUE), first call: start the engine, wait for the
\* first UPDATE, and apply the one buffered while the prompt was up.
ClientKeyYes ==
    /\ cli.phase = "WAIT_CHALLENGE_OVERLAY"
    /\ LET sent == Enqueue(toSrv, Accept(cli.session, TRUE))
           c == [cli EXCEPT !.phase = "WAIT_REMOTE", !.awaitingFirst = TRUE,
                            !.alive = FullTeams, !.preAccept = NoPkt]
       IN IF cli.preAccept = NoPkt
          THEN cli' = c /\ toSrv' = sent /\ UNCHANGED applied
          ELSE \E levelUp \in {FALSE, LevelUps} :
               LET r == ApplyUpdate(c, sent, cli.preAccept, levelUp)
               IN  /\ cli' = r.cli /\ toSrv' = r.net
                   /\ applied' = Took(r.cli, cli.preAccept)
    /\ UNCHANGED chosen /\ ClientKeys

\* N or ESC on the prompt.
ClientKeyNo ==
    /\ cli.phase = "WAIT_CHALLENGE_OVERLAY"
    /\ cli' = [cli EXCEPT !.phase = "FINISHED", !.awaitingFirst = FALSE]
    /\ toSrv' = Enqueue(toSrv, Accept(cli.session, FALSE))
    /\ HistoryUnchanged /\ ClientKeys

\* ESC in the battle, or F then K: send a flee action and show the result
\* screen.
ClientKeyFlee ==
    /\ cli.mode = "NETWORKED"
    /\ \/ /\ cli.phase \in MenuPhases \cup {"WAIT_REMOTE"}
          /\ EarlyFlee \/ ~cli.awaitingFirst
          /\ LET r == SendActionV2(cli, toSrv, Flee)
             IN  /\ cli' = [r.cli EXCEPT !.phase = "FINISHED"]
                 /\ toSrv' = r.net
       \/ /\ Menus /\ cli.phase \in {"WAIT_ACTION", "WAIT_SWITCH"}
          /\ cli' = [cli EXCEPT !.phase = "WAIT_FLEE"]
          /\ UNCHANGED toSrv
       \/ /\ cli.phase = "WAIT_FLEE"
          /\ cli' = [cli EXCEPT !.phase = "WAIT_ACTION"]
          /\ UNCHANGED toSrv
    /\ HistoryUnchanged /\ ClientKeys

ClientKeySwitchMenu ==
    /\ Menus
    /\ \/ cli.phase = "WAIT_ACTION" /\ cli' = [cli EXCEPT !.phase = "WAIT_SWITCH"]
       \/ cli.phase = "WAIT_SWITCH" /\ cli' = [cli EXCEPT !.phase = "WAIT_ACTION"]
    /\ UNCHANGED toSrv /\ HistoryUnchanged /\ ClientKeys

\* K on a move or on a switch target.
ClientKeyPick ==
    /\ cli.phase \in {"WAIT_ACTION", "WAIT_SWITCH"}
    /\ \E mv \in Moves :
        LET r == SendActionV2(cli, toSrv, mv)
        IN  /\ cli' = [r.cli EXCEPT !.phase = "WAIT_REMOTE"]
            /\ toSrv' = r.net
            /\ chosen' = chosen \cup {<<cli.session, cli.clientTurn, mv>>}
    /\ UNCHANGED applied /\ ClientKeys

ClientEvicted ==
    /\ cli.mode = "NETWORKED"
    /\ cli.needsFullState \/ cli.phase = "FINISHED"
    /\ cli' = ClientExited(cli)
    /\ UNCHANGED toSrv /\ HistoryUnchanged /\ ClientKeys

-----------------------------------------------------------------------------
Lose ==
    /\ \/ toCli' \in Losses(toCli) /\ UNCHANGED toSrv
       \/ toSrv' \in Losses(toSrv) /\ UNCHANGED toCli
    /\ ServerUnchanged /\ HistoryUnchanged /\ UNCHANGED cli

ServerKey == \/ ServerKeyFinished \/ ServerKeyEsc \/ ServerKeyFlee
             \/ ServerKeySwitchMenu \/ ServerKeyPick \/ ServerEvicted
ClientKey == \/ ClientKeyFinished \/ ClientKeyYes \/ ClientKeyNo
             \/ ClientKeyFlee \/ ClientKeySwitchMenu \/ ClientKeyPick
             \/ ClientEvicted

Next == \/ SendChallenge \/ ServerReceive \/ ServerTick \/ ServerKey
        \/ ClientReceive \/ ClientTick \/ ClientKey
        \/ Lose

Spec == Init /\ [][Next]_vars

\* The main loop runs tick() on both nodes for ever and every timer expires;
\* a packet kind that is sent again and again gets through.  Nobody has to
\* press a key, and the 60 s of silence need not come.
Fairness ==
    /\ WF_vars(ServerTickWhen(TRUE, TRUE, FALSE))
    /\ WF_vars(ClientTickWhen("accept", TRUE, FALSE))
    /\ \A t \in {"ACCEPT", "ACTION_V2", "STATE_REQUEST"} :
         SF_vars(\E i \in Deliverable(toSrv) :
                    toSrv[i].type = t /\ ServerTakes(i))
    /\ \A t \in {"CHALLENGE", "UPDATE", "FULL_STATE"} :
         SF_vars(\E i \in Deliverable(toCli) :
                    toCli[i].type = t /\ ClientTakes(i))

FairSpec == Spec /\ Fairness

-----------------------------------------------------------------------------
(* Properties. *)

\* The two nodes are in the same battle, and the server has a live turn open.
SameBattle == srv.mode = "NETWORKED" /\ cli.mode = "NETWORKED"
              /\ srv.session = cli.session
LiveServer == srv.mode = "NETWORKED" /\ ~srv.awaitingAccept
              /\ srv.phase \in MenuPhases \cup {"WAIT_REMOTE"}

\* The client move the server is about to play is one the client's user
\* picked in this battle: acknowledgements, re-sent flees and leftovers of an
\* earlier battle never enter the engine (serverAuthOnActionV2Pkt, the 0xFE
\* sentinel and the session check).
MovesArePicked ==
    srv.mode = "NETWORKED" /\ eng.pend[1] # NoAct
        => \E t \in Byte : <<srv.session, t, eng.pend[1]>> \in chosen

\* Stronger: every turn that is played plays the move the client's user picked
\* for that very turn (the turn check of serverAuthOnActionV2Pkt, the
\* clientActionTurn_ guard of clientAuthRetransmit).
TurnsPlayPickedMoves ==
    [][eng'.turn = eng.turn + 1
         => <<srv.session, Wire(eng.turn), eng.pend[1]>> \in chosen]_vars

\* The server stops retransmitting an UPDATE only when the client has taken
\* that board, from the UPDATE or from a FULL_STATE (the lastAckedSeq echo).
AckedWasTaken ==
    srv.mode = "NETWORKED" /\ srv.updateSeq # 0 /\ ~srv.unackedUpdate
        => <<srv.session, srv.updateSeq>> \in applied

\* While the server waits with its UPDATE acknowledged, a client still in the
\* battle is at the server's turn: otherwise its actions are dropped as stale
\* and no UPDATE is left to tell it so.
AckedIsInStep ==
    /\ LiveServer /\ srv.updateSeq # 0 /\ ~srv.unackedUpdate
    /\ SameBattle /\ cli.phase \in MenuPhases \cup {"WAIT_REMOTE"}
    => cli.clientTurn = Wire(eng.turn)

\* A knock-out is credited at most once: the client never books more of them
\* than mons the server has lost (the XP mirror of clientAuthOnUpdatePkt).
NoXpMinted ==
    SameBattle /\ srv.peerReady
        => cli.xpDrops + eng.alive[0] <= TeamSize

\* Never do both sides of one battle record a win (playerWon_).
OneWinner == ~(srv.session = cli.session /\ srv.playerWon /\ cli.playerWon)

\* The client stops re-sending ACCEPT and starts playing only on a board of the
\* battle it accepted, that is after the server has its ACCEPT (the comments of
\* clientAuthOnUpdatePkt, clientAuthOnFullStatePkt and clientAuthRetransmit),
\* unless the first UPDATE takes longer than 15 s (SlowStart) or a player flees
\* before it (EarlyFlee, ~TerminalHeld): a FULL_STATE asked for then may arrive
\* after the same challenge is taken up again.
AcceptConfirmed ==
    [][/\ cli.awaitingFirst /\ ~cli'.awaitingFirst
       /\ cli'.phase = "WAIT_ACTION" /\ cli.session = srv.session
       => ~srv.awaitingAccept]_vars

\* Once the client has acknowledged the UPDATE that ends the battle, its user
\* is looking at the result (handleKey holds the server's screen for this).
AckedResultIsShown ==
    /\ SameBattle /\ srv.phase = "FINISHED" /\ srv.peerReady
    /\ ~srv.unackedUpdate /\ srv.lastUpdate.result # "ONGOING"
    => cli.phase = "FINISHED"

\* A challenge is answered or given up (TB_CHALLENGE_MAX_TRIES).
ChallengeEnds == srv.awaitingAccept ~> ~srv.awaitingAccept

\* Once both players have picked, the turn is played without waiting for the
\* no-traffic timeout, unless one of them leaves.
BothPicked(t) ==
    /\ SameBattle /\ LiveServer /\ eng.turn = t
    /\ srv.phase = "WAIT_REMOTE" /\ eng.pend[0] # NoAct
    /\ cli.phase = "WAIT_REMOTE" /\ cli.actionType \in Moves
    /\ cli.actionTurn = Wire(t) /\ cli.clientTurn = Wire(t)

PicksPlayTheTurn ==
    \A t \in 0 .. MaxTurn :
        BothPicked(t) ~> \/ eng.turn # t \/ ~SameBattle \/ ~LiveServer
                         \/ cli.phase = "FINISHED"

\* A decided battle reaches the client's screen while the server is there to
\* repeat it; a client that is (again) at the Y/N prompt keeps it buffered until
\* its user answers.
ResultArrives ==
    /\ SameBattle /\ srv.phase = "FINISHED" /\ srv.unackedUpdate
    /\ srv.lastUpdate # NoPkt /\ srv.lastUpdate.result # "ONGOING"
    ~> cli.phase \in {"FINISHED", "WAIT_CHALLENGE_OVERLAY"} \/ ~SameBattle

-----------------------------------------------------------------------------
(* Refinement: the battle as its two players know it.                      *)

Stage == IF srv.mode = "OFF" THEN "none"
         ELSE IF srv.awaitingAccept THEN "offered"
         ELSE IF srv.phase = "FINISHED" THEN "over" ELSE "playing"

AnyTurn == INSTANCE LiveBattle WITH
    Strict <- FALSE, stage <- Stage, battle <- srv.session, turn <- eng.turn,
    result <- eng.result, alive <- eng.alive, picks <- chosen
ThisTurn == INSTANCE LiveBattle WITH
    Strict <- TRUE, stage <- Stage, battle <- srv.session, turn <- eng.turn,
    result <- eng.result, alive <- eng.alive, picks <- chosen

\* On every path the protocol is a LiveBattle whose turns play moves the client
\* picked in that battle; nobody drops out of a battle that is being played.
ImplementsLiveBattle == AnyTurn!LBSpec

\* On a direct link it is one whose turns play the move picked for that turn.
ImplementsStrictBattle == ThisTurn!LBSpec

=============================================================================
