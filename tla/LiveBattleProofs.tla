-------------------------- MODULE LiveBattleProofs --------------------------
(***************************************************************************)
(* ServerAuthBattle implements LiveBattle, for every value of its          *)
(* constants and on every kind of link, as long as the terminal holds the  *)
(* challenger's keyboard until ACCEPT arrives.                             *)
(*                                                                         *)
(* The mapping hides the phases, so the step from "playing" to "over" needs *)
(* facts the phases carry: the engine is undecided while the battle is     *)
(* played, the challenger has submitted nothing before ACCEPT, and only a  *)
(* finished battle waits for its last acknowledgement to be left.          *)
(*                                                                         *)
(* On a direct link, and while a battle's 8-bit board numbers do not wrap, *)
(* it implements the strict LiveBattle: every turn plays the move picked   *)
(* for that very turn.  The second part of the module proves this from the *)
(* order in which the boards of a battle arrive.  The third part adds what *)
(* the client sends, and shows that a client whose acknowledgement stops   *)
(* the server's UPDATEs is at the server's turn, and, without level-ups,   *)
(* shows the result if that UPDATE ended the battle.                       *)
(***************************************************************************)
EXTENDS ServerAuthBattleProofs

StageKnown(s, e) ==
    /\ s.mode = "NETWORKED" /\ ~s.awaitingAccept /\ s.phase # "FINISHED"
           => e.result = "ONGOING"
    /\ s.mode = "NETWORKED" /\ s.awaitingAccept => e.pend[0] = NoAct
    /\ s.pendingKeyExit => /\ s.mode = "NETWORKED" /\ ~s.awaitingAccept
                           /\ s.phase = "FINISHED"

StageInv == StageKnown(srv, eng)
AllInv == TypeInv /\ HistoryInv /\ StageInv

Refines == AnyTurn!LBNext \/ UNCHANGED AnyTurn!lbVars

-----------------------------------------------------------------------------
(* What the mapping can see of a step of the server. *)

SameBoard(e, f) == f.turn = e.turn /\ f.result = e.result /\ f.alive = e.alive
Kept(s, t) == /\ t.mode = s.mode /\ t.session = s.session
              /\ t.awaitingAccept = s.awaitingAccept
              /\ (t.phase = "FINISHED" <=> s.phase = "FINISHED")

LEMMA StutterRefines ==
    ASSUME Kept(srv, srv'), SameBoard(eng, eng'), chosen \subseteq chosen'
    PROVE  Refines
<1>1. AnyTurn!Pick
    BY DEF AnyTurn!Pick, Kept, SameBoard, Stage
<1> QED BY <1>1 DEF Refines, AnyTurn!LBNext

LEMMA LeaveRefines ==
    ASSUME srv.mode = "NETWORKED", srv.awaitingAccept \/ srv.phase = "FINISHED",
           srv'.mode = "OFF", srv'.session = srv.session,
           UNCHANGED <<eng, chosen>>
    PROVE  Refines
<1>1. AnyTurn!Leave
    BY DEF AnyTurn!Leave, Stage
<1> QED BY <1>1 DEF Refines, AnyTurn!LBNext

LEMMA FleeRefines ==
    ASSUME NEW side \in Side, eng' = Forfeit(eng, side), eng \in Engines,
           srv.mode = "NETWORKED", srv'.mode = "NETWORKED",
           srv'.session = srv.session, srv'.phase = "FINISHED",
           srv'.awaitingAccept = srv.awaitingAccept,
           side = 0 => ~srv.awaitingAccept /\ srv.phase # "FINISHED",
           UNCHANGED chosen
    PROVE  Refines
<1>1. /\ eng'.result = IF side = 0 THEN "P2_WIN" ELSE "P1_WIN"
      /\ eng'.turn = eng.turn /\ eng'.alive = eng.alive
    BY DEF Forfeit, Engines
<1>2. AnyTurn!FleeFrom(side)
    BY <1>1 DEF AnyTurn!FleeFrom, Stage, Side
<1> QED BY <1>2 DEF Refines, AnyTurn!LBNext, AnyTurn!Side, Side

\* serverAuthSendUpdate() changes nothing the mapping sees.
LEMMA SendUpdateKeeps ==
    ASSUME NEW s \in Servers, NEW e, NEW ch
    PROVE  LET t == SendUpdate(s, e, ch).srv
           IN  /\ t.mode = s.mode /\ t.session = s.session /\ t.phase = s.phase
               /\ t.awaitingAccept = s.awaitingAccept
               /\ t.pendingKeyExit = s.pendingKeyExit
BY DEF SendUpdate, Servers

LEMMA SetPhase ==
    ASSUME NEW s \in Servers, NEW p \in Phases
    PROVE  LET t == [s EXCEPT !.phase = p]
           IN  /\ t \in Servers /\ t.mode = s.mode /\ t.session = s.session
               /\ t.phase = p /\ t.awaitingAccept = s.awaitingAccept
               /\ t.pendingKeyExit = s.pendingKeyExit
BY DEF Servers

LEMMA ExitedKeeps ==
    ASSUME NEW s \in Servers
    PROVE  LET t == ServerExited(s)
           IN  /\ t.mode = "OFF" /\ t.session = s.session
               /\ ~t.pendingKeyExit
BY DEF ServerExited, Servers

-----------------------------------------------------------------------------
LEMMA OfferStep ==
    ASSUME AllInv, SendChallenge PROVE StageInv' /\ Refines
<1>1. /\ srv'.mode = "NETWORKED" /\ srv'.awaitingAccept
      /\ srv'.session = srv.session + 1 /\ ~srv'.pendingKeyExit
    BY DEF SendChallenge, AllInv, TypeInv, TypeOK, Servers, StageInv, StageKnown
<1>2. srv.mode = "OFF" /\ eng' = Start([FullTeams EXCEPT ![1] = 0])
      /\ UNCHANGED chosen
    BY DEF SendChallenge, HistoryUnchanged
<1>3. StageInv'
    BY <1>1, <1>2 DEF StageInv, StageKnown, Start, Side
<1>4. AnyTurn!Offer
    BY <1>1, <1>2 DEF AnyTurn!Offer, AnyTurn!Board, AnyTurn!Start, Start, Stage,
                      AnyTurn!FullTeams, FullTeams, AnyTurn!Side, Side
<1> QED BY <1>3, <1>4 DEF Refines, AnyTurn!LBNext

LEMMA AcceptStep ==
    ASSUME AllInv, srv.mode # "OFF", NEW m, OnAccept(m), UNCHANGED chosen
    PROVE  StageInv' /\ Refines
<1>1. srv \in Servers /\ srv.mode = "NETWORKED"
    BY DEF AllInv, TypeInv, TypeOK, Servers, Modes
<1>2. CASE UNCHANGED <<srv, eng>>
    BY <1>2, StutterRefines DEF AllInv, StageInv, Kept, SameBoard
<1>3. CASE /\ srv.awaitingAccept /\ UNCHANGED eng
           /\ srv' = [srv EXCEPT !.phase = "FINISHED", !.awaitingAccept = FALSE]
    <2>1. /\ srv'.mode = srv.mode /\ srv'.session = srv.session
          /\ srv'.phase = "FINISHED" /\ ~srv'.awaitingAccept
          /\ srv'.pendingKeyExit = srv.pendingKeyExit
        BY <1>1, <1>3 DEF Servers
    <2>2. AnyTurn!GiveUpOffer
        BY <1>1, <1>3, <2>1 DEF AnyTurn!GiveUpOffer, Stage
    <2> QED BY <1>3, <2>1, <2>2
            DEF AllInv, StageInv, StageKnown, Refines, AnyTurn!LBNext
<1>4. CASE /\ srv.awaitingAccept /\ eng' = Start(FullTeams)
           /\ \E kept : LET s == [srv EXCEPT !.awaitingAccept = FALSE,
                                             !.peerReady = TRUE,
                                             !.pendingRemoteAction = FALSE,
                                             !.phase = "WAIT_ACTION"]
                        IN  srv' = SendUpdate(s, Start(FullTeams), kept).srv
    <2> DEFINE s == [srv EXCEPT !.awaitingAccept = FALSE, !.peerReady = TRUE,
                                !.pendingRemoteAction = FALSE,
                                !.phase = "WAIT_ACTION"]
    <2>1. PICK kept : srv' = SendUpdate(s, Start(FullTeams), kept).srv
        BY <1>4
    <2>2. /\ s \in Servers /\ s.mode = srv.mode /\ s.session = srv.session
          /\ s.phase = "WAIT_ACTION" /\ ~s.awaitingAccept
          /\ s.pendingKeyExit = srv.pendingKeyExit
        BY <1>1, NamesType DEF Servers
    <2> HIDE DEF s
    <2>3. /\ srv'.mode = srv.mode /\ srv'.session = srv.session
          /\ srv'.phase = "WAIT_ACTION" /\ ~srv'.awaitingAccept
          /\ srv'.pendingKeyExit = srv.pendingKeyExit
        BY <2>1, <2>2, SendUpdateKeeps
    <2>4. StageInv'
        BY <1>4, <2>3 DEF AllInv, StageInv, StageKnown, Start
    <2>5. AnyTurn!AcceptOffer
        BY <1>1, <1>4, <2>3
           DEF AnyTurn!AcceptOffer, AnyTurn!Board, AnyTurn!Start, Start, Stage,
               AnyTurn!FullTeams, FullTeams, AnyTurn!Side, Side
    <2> QED BY <2>4, <2>5 DEF Refines, AnyTurn!LBNext
<1>5. \/ UNCHANGED <<srv, eng>>
      \/ /\ srv.awaitingAccept /\ UNCHANGED eng
         /\ srv' = [srv EXCEPT !.phase = "FINISHED", !.awaitingAccept = FALSE]
      \/ /\ srv.awaitingAccept /\ eng' = Start(FullTeams)
         /\ \E kept : LET s == [srv EXCEPT !.awaitingAccept = FALSE,
                                           !.peerReady = TRUE,
                                           !.pendingRemoteAction = FALSE,
                                           !.phase = "WAIT_ACTION"]
                      IN  srv' = SendUpdate(s, Start(FullTeams), kept).srv
    BY DEF OnAccept
<1> QED BY <1>2, <1>3, <1>4, <1>5

LEMMA ActionStep ==
    ASSUME AllInv, srv.mode # "OFF", NEW m \in ClientPkts, m.type = "ACTION_V2",
           OnActionV2(m), UNCHANGED chosen
    PROVE  StageInv' /\ Refines
<1> DEFINE s == Acknowledged(srv, m)
<1>1. srv \in Servers /\ srv.mode = "NETWORKED" /\ eng \in Engines
    BY DEF AllInv, TypeInv, TypeOK, Servers, Modes
<1>2. /\ s \in Servers /\ s.mode = srv.mode /\ s.session = srv.session
      /\ s.phase = srv.phase /\ s.awaitingAccept = srv.awaitingAccept
      /\ s.pendingKeyExit = srv.pendingKeyExit
    BY <1>1 DEF Acknowledged, Servers
<1>3. m.act \in Moves \cup {Flee, PureAck}
    BY DEF ClientPkts
<1>4. \/ UNCHANGED <<srv, eng>>
      \/ srv' = s /\ UNCHANGED eng
      \/ /\ eng' = Forfeit(eng, 1)
         /\ srv' = SendUpdate([s EXCEPT !.phase = "FINISHED"],
                              Forfeit(eng, 1), toCli).srv
      \/ /\ eng' = Submit(eng, 1, m.act)
         /\ srv' = [s EXCEPT !.pendingRemoteAction = TRUE]
    BY DEF OnActionV2
<1> HIDE DEF s
<1>5. CASE UNCHANGED <<srv, eng>>
    BY <1>5, StutterRefines DEF AllInv, StageInv, Kept, SameBoard
<1>6. CASE srv' = s /\ UNCHANGED eng
    BY <1>2, <1>6, StutterRefines DEF AllInv, StageInv, StageKnown, Kept, SameBoard
<1>7. CASE /\ eng' = Forfeit(eng, 1)
           /\ srv' = SendUpdate([s EXCEPT !.phase = "FINISHED"],
                                Forfeit(eng, 1), toCli).srv
    <2> DEFINE d == [s EXCEPT !.phase = "FINISHED"]
    <2>1. /\ d \in Servers /\ d.mode = srv.mode /\ d.session = srv.session
          /\ d.phase = "FINISHED" /\ d.awaitingAccept = srv.awaitingAccept
          /\ d.pendingKeyExit = srv.pendingKeyExit
        BY <1>2, SetPhase, NamesType
    <2>2. srv' = SendUpdate(d, Forfeit(eng, 1), toCli).srv
        BY <1>7
    <2> HIDE DEF d
    <2>3. /\ srv'.mode = srv.mode /\ srv'.session = srv.session
          /\ srv'.phase = "FINISHED" /\ srv'.awaitingAccept = srv.awaitingAccept
          /\ srv'.pendingKeyExit = srv.pendingKeyExit
        BY <2>1, <2>2, SendUpdateKeeps
    <2>4. eng'.pend = eng.pend
        BY <1>1, <1>7, NothingPending DEF Side
    <2>5. StageInv'
        BY <2>3, <2>4 DEF AllInv, StageInv, StageKnown
    <2>6. Refines
        BY <1>1, <1>7, <2>3, FleeRefines DEF Side
    <2> QED BY <2>5, <2>6
<1>8. CASE /\ eng' = Submit(eng, 1, m.act)
           /\ srv' = [s EXCEPT !.pendingRemoteAction = TRUE]
    <2>1. /\ srv'.mode = srv.mode /\ srv'.session = srv.session
          /\ srv'.phase = srv.phase /\ srv'.awaitingAccept = srv.awaitingAccept
          /\ srv'.pendingKeyExit = srv.pendingKeyExit
        BY <1>2, <1>8 DEF Servers
    <2>2. SameBoard(eng, eng') /\ eng'.pend[0] = eng.pend[0]
        BY <1>1, <1>8 DEF Submit, Engines, SameBoard, Side
    <2>3. StageInv'
        BY <2>1, <2>2 DEF AllInv, StageInv, StageKnown, SameBoard
    <2>4. Refines
        BY <2>1, <2>2, StutterRefines DEF Kept
    <2> QED BY <2>3, <2>4
<1> QED BY <1>4, <1>5, <1>6, <1>7, <1>8

LEMMA ReceiveStep ==
    ASSUME AllInv, ServerReceive PROVE StageInv' /\ Refines
<1>1. PICK i \in Deliverable(toSrv) : ServerTakes(i)
    BY DEF ServerReceive
<1> DEFINE m == toSrv[i]
<1>2. m \in ClientPkts
    BY DeliverableType DEF AllInv, TypeInv, TypeOK
<1>3. /\ UNCHANGED chosen
      /\ \/ UNCHANGED <<srv, eng>>
         \/ srv.mode # "OFF" /\ OnAccept(m)
         \/ srv.mode # "OFF" /\ m.type = "ACTION_V2" /\ OnActionV2(m)
    BY <1>1 DEF ServerTakes, HistoryUnchanged, OnStateRequest
<1> HIDE DEF m
<1>4. CASE UNCHANGED <<srv, eng>>
    BY <1>3, <1>4, StutterRefines DEF AllInv, StageInv, Kept, SameBoard
<1>5. CASE srv.mode # "OFF" /\ OnAccept(m)
    BY <1>3, <1>5, AcceptStep
<1>6. CASE srv.mode # "OFF" /\ m.type = "ACTION_V2" /\ OnActionV2(m)
    BY <1>2, <1>3, <1>6, ActionStep
<1> QED BY <1>3, <1>4, <1>5, <1>6

\* resolveTurn() plays the turn only when both sides have submitted; while the
\* challenge is unanswered the challenger has not.
LEMMA ResolveStep ==
    ASSUME AllInv, NEW s \in Servers, NEW net, srv.mode = "NETWORKED",
           s.mode = srv.mode, s.session = srv.session,
           \/ s.awaitingAccept = srv.awaitingAccept /\ s.phase = srv.phase
           \/ srv.awaitingAccept /\ ~s.awaitingAccept /\ s.phase = "FINISHED",
           s.pendingKeyExit = srv.pendingKeyExit,
           s.phase = "WAIT_REMOTE", ResolveTurn(s, net), UNCHANGED chosen
    PROVE  StageInv' /\ Refines
<1>1. eng \in Engines /\ s.awaitingAccept = srv.awaitingAccept /\ s.phase = srv.phase
    BY DEF AllInv, TypeInv, TypeOK
<1>2. PICK e \in ExecuteTurn(eng) :
        /\ eng' = e
        /\ srv' = SendUpdate(
                   [s EXCEPT
                      !.playerWon = @ \/ e.result = "P1_WIN",
                      !.pendingRemoteAction = (e.result # "ONGOING"),
                      !.phase = IF e.result # "ONGOING" THEN "FINISHED"
                                                         ELSE "WAIT_ACTION"],
                   e, net).srv
    BY DEF ResolveTurn
<1> DEFINE d == [s EXCEPT
                   !.playerWon = @ \/ e.result = "P1_WIN",
                   !.pendingRemoteAction = (e.result # "ONGOING"),
                   !.phase = IF e.result # "ONGOING" THEN "FINISHED"
                                                      ELSE "WAIT_ACTION"]
<1>3. (IF e.result # "ONGOING" THEN "FINISHED" ELSE "WAIT_ACTION") \in Phases
    BY NamesType
<1>4. (s.playerWon \/ e.result = "P1_WIN") \in BOOLEAN
      /\ (e.result # "ONGOING") \in BOOLEAN
    OBVIOUS
<1>5. /\ d \in Servers /\ d.mode = srv.mode /\ d.session = srv.session
      /\ d.phase = (IF e.result # "ONGOING" THEN "FINISHED" ELSE "WAIT_ACTION")
      /\ d.awaitingAccept = srv.awaitingAccept
      /\ d.pendingKeyExit = srv.pendingKeyExit
    BY <1>1, <1>3, <1>4 DEF Servers
<1>6. srv' = SendUpdate(d, e, net).srv
    BY <1>2
<1> HIDE DEF d
<1>7. /\ srv'.mode = srv.mode /\ srv'.session = srv.session
      /\ srv'.phase = (IF e.result # "ONGOING" THEN "FINISHED" ELSE "WAIT_ACTION")
      /\ srv'.awaitingAccept = srv.awaitingAccept
      /\ srv'.pendingKeyExit = srv.pendingKeyExit
    BY <1>5, <1>6, SendUpdateKeeps
<1>8. ~srv.pendingKeyExit
    BY <1>1 DEF AllInv, StageInv, StageKnown
<1>9. CASE ~Ready(eng)
    <2>1. eng' = eng
        BY <1>2, <1>9 DEF ExecuteTurn
    <2>2. CASE srv.awaitingAccept
        <3>1. StageInv'
            BY <1>7, <1>8, <2>1, <2>2 DEF AllInv, StageInv, StageKnown
        <3>2. AnyTurn!Pick
            BY <1>7, <2>1, <2>2 DEF AnyTurn!Pick, Stage
        <3> QED BY <3>1, <3>2 DEF Refines, AnyTurn!LBNext
    <2>3. CASE ~srv.awaitingAccept
        <3>1. eng.result = "ONGOING"
            BY <1>1, <2>3 DEF AllInv, StageInv, StageKnown
        <3>2. srv'.phase = "WAIT_ACTION"
            BY <1>2, <1>7, <2>1, <3>1
        <3>3. StageInv'
            BY <1>7, <1>8, <2>1, <2>3, <3>1 DEF StageInv, StageKnown
        <3>4. Refines
            BY <1>1, <1>7, <2>1, <3>2, StutterRefines DEF Kept, SameBoard
        <3> QED BY <3>3, <3>4
    <2> QED BY <2>2, <2>3
<1>10. CASE Ready(eng)
    <2>1. ~srv.awaitingAccept
        BY <1>10 DEF Ready, Side, AllInv, StageInv, StageKnown
    <2>2. PICK a \in Survivors(eng.alive) :
            e = [turn |-> eng.turn + 1, result |-> ResultOf(a),
                 pend |-> [x \in Side |-> NoAct], alive |-> a]
        BY <1>10 DEF ExecuteTurn
    <2>3. eng'.turn = eng.turn + 1 /\ eng'.result = ResultOf(a) /\ eng'.alive = a
        BY <1>2, <2>2
    <2>4. StageInv'
        BY <1>2, <1>7, <1>8, <2>1 DEF StageInv, StageKnown
    <2>5. AnyTurn!HasPick
        <3>1. Picked(srv.session, eng.pend[1], chosen)
            BY <1>10 DEF AllInv, HistoryInv, PickKnown, Ready, Side
        <3>2. eng.pend[1] \in Moves
            BY <1>1, <1>10 DEF Ready, Engines, Side
        <3> QED BY <3>1, <3>2 DEF AnyTurn!HasPick, Picked, Byte
    <2>6. a \in AnyTurn!Survivors(eng.alive) /\ ResultOf(a) = AnyTurn!ResultOf(a)
        BY <2>2 DEF AnyTurn!Survivors, Survivors, AnyTurn!Side, Side,
                    AnyTurn!ResultOf, ResultOf
    <2>7. Stage = "playing" /\ eng.result = "ONGOING"
        BY <1>1, <1>10, <2>1 DEF Stage, Ready
    <2>8. Stage' = IF ResultOf(a) = "ONGOING" THEN "playing" ELSE "over"
        BY <1>2, <1>7, <2>1, <2>3 DEF Stage
    <2>9. AnyTurn!PlayTurn
        BY <1>7, <2>3, <2>5, <2>6, <2>7, <2>8 DEF AnyTurn!PlayTurn
    <2> QED BY <2>4, <2>9 DEF Refines, AnyTurn!LBNext
<1> QED BY <1>9, <1>10

\* serverAuthRetransmit() moves the battle only by giving up the challenge.
LEMMA RetransmitStage ==
    ASSUME NEW s \in Servers, NEW net
    PROVE  LET t == Retransmit(s, net).srv
           IN  /\ t.mode = s.mode /\ t.session = s.session
               /\ t.pendingKeyExit = s.pendingKeyExit
               /\ \/ t.awaitingAccept = s.awaitingAccept /\ t.phase = s.phase
                  \/ s.awaitingAccept /\ ~t.awaitingAccept /\ t.phase = "FINISHED"
BY DEF Retransmit, OutOfTries, Servers

LEMMA TickStep ==
    ASSUME AllInv, ServerTick PROVE StageInv' /\ Refines
<1>1. PICK due \in BOOLEAN, held \in BOOLEAN, silent \in BOOLEAN :
        ServerTickWhen(due, held, silent)
    BY DEF ServerTick, AllInv, TypeInv, TypeOK, Servers
<1> DEFINE r == IF due THEN Retransmit(srv, toCli)
                       ELSE [srv |-> srv, net |-> toCli]
           s == r.srv
<1>2. /\ srv \in Servers /\ GoodServer(srv) /\ eng \in Engines
      /\ srv.mode = "NETWORKED" /\ toCli \in Seq(ServerPkts)
    BY <1>1 DEF ServerTickWhen, AllInv, TypeInv, TypeOK, GoodServer
<1>3. /\ s \in Servers /\ s.mode = srv.mode /\ s.session = srv.session
      /\ s.pendingKeyExit = srv.pendingKeyExit
      /\ \/ s.awaitingAccept = srv.awaitingAccept /\ s.phase = srv.phase
         \/ srv.awaitingAccept /\ ~s.awaitingAccept /\ s.phase = "FINISHED"
    <2>1. GoodServer(Retransmit(srv, toCli).srv)
        BY <1>2, RetransmitType
    <2>2. CASE due
        BY <1>2, <2>1, <2>2, RetransmitStage DEF GoodServer
    <2>3. CASE ~due
        BY <1>2, <2>3
    <2> QED BY <2>2, <2>3
<1>4. /\ UNCHANGED chosen
      /\ \/ /\ s.pendingKeyExit
            /\ srv' = ServerExited(s) /\ UNCHANGED eng
         \/ /\ s.phase # "FINISHED" /\ ~s.awaitingAccept
            /\ eng' = IF eng.result = "ONGOING" THEN Forfeit(eng, 1) ELSE eng
            /\ srv' = [s EXCEPT !.phase = "FINISHED"]
         \/ s.phase = "WAIT_REMOTE" /\ ResolveTurn(s, r.net)
         \/ srv' = s /\ UNCHANGED eng
    BY <1>1 DEF ServerTickWhen, HistoryUnchanged
<1> HIDE DEF r, s
<1>5. CASE s.pendingKeyExit /\ srv' = ServerExited(s) /\ UNCHANGED eng
    <2>1. srv'.mode = "OFF" /\ srv'.session = srv.session /\ ~srv'.pendingKeyExit
        BY <1>3, <1>5, ExitedKeeps
    <2>2. srv.phase = "FINISHED"
        BY <1>3, <1>5 DEF AllInv, StageInv, StageKnown
    <2>3. Refines
        BY <1>2, <1>4, <1>5, <2>1, <2>2, LeaveRefines
    <2> QED BY <2>1, <2>3 DEF StageInv, StageKnown
<1>6. CASE /\ s.phase # "FINISHED" /\ ~s.awaitingAccept
           /\ eng' = IF eng.result = "ONGOING" THEN Forfeit(eng, 1) ELSE eng
           /\ srv' = [s EXCEPT !.phase = "FINISHED"]
    <2>1. ~srv.awaitingAccept /\ srv.phase # "FINISHED" /\ ~srv.pendingKeyExit
        BY <1>3, <1>6 DEF AllInv, StageInv, StageKnown
    <2>2. eng' = Forfeit(eng, 1)
        BY <1>2, <1>6, <2>1 DEF AllInv, StageInv, StageKnown
    <2>3. /\ srv'.mode = srv.mode /\ srv'.session = srv.session
          /\ srv'.phase = "FINISHED"
          /\ srv'.awaitingAccept = srv.awaitingAccept
          /\ ~srv'.pendingKeyExit
        BY <1>3, <1>6, <2>1, SetPhase, NamesType
    <2>4. StageInv'
        BY <2>1, <2>3 DEF StageInv, StageKnown
    <2>5. Refines
        BY <1>2, <1>4, <2>1, <2>2, <2>3, FleeRefines DEF Side
    <2> QED BY <2>4, <2>5
<1>7. CASE s.phase = "WAIT_REMOTE" /\ ResolveTurn(s, r.net)
    BY <1>2, <1>3, <1>4, <1>7, ResolveStep
<1>8. CASE srv' = s /\ UNCHANGED eng
    <2>1. CASE s.awaitingAccept = srv.awaitingAccept /\ s.phase = srv.phase
        <3>1. StageInv'
            BY <1>3, <1>8, <2>1 DEF AllInv, StageInv, StageKnown
        <3> QED BY <1>3, <1>4, <1>8, <2>1, <3>1, StutterRefines DEF Kept, SameBoard
    <2>2. CASE srv.awaitingAccept /\ ~s.awaitingAccept /\ s.phase = "FINISHED"
        <3>1. StageInv'
            BY <1>3, <1>8, <2>2 DEF AllInv, StageInv, StageKnown
        <3>2. AnyTurn!GiveUpOffer
            BY <1>2, <1>3, <1>4, <1>8, <2>2 DEF AnyTurn!GiveUpOffer, Stage
        <3> QED BY <3>1, <3>2 DEF Refines, AnyTurn!LBNext
    <2> QED BY <1>3, <2>1, <2>2
<1> QED BY <1>4, <1>5, <1>6, <1>7, <1>8

-----------------------------------------------------------------------------
\* The keyboard decides a battle or moves between its menus; while the
\* challenge is unanswered the terminal holds it.
LEMMA KeyStep ==
    ASSUME AllInv, TerminalHeld, ServerKey PROVE StageInv' /\ Refines
<1>1. /\ srv \in Servers /\ eng \in Engines /\ UNCHANGED chosen
    BY DEF AllInv, TypeInv, TypeOK, ServerKey, ServerKeyFinished, ServerKeyEsc,
           ServerKeyFlee, ServerKeySwitchMenu, ServerKeyPick, ServerEvicted,
           ServerKeys, HistoryUnchanged
<1>2. ASSUME srv.mode = "NETWORKED", srv.awaitingAccept \/ srv.phase = "FINISHED",
             srv' = ServerExited(srv), UNCHANGED eng
      PROVE  StageInv' /\ Refines
    <2>1. srv'.mode = "OFF" /\ srv'.session = srv.session /\ ~srv'.pendingKeyExit
        BY <1>1, <1>2, ExitedKeeps
    <2> QED BY <1>1, <1>2, <2>1, LeaveRefines DEF StageInv, StageKnown
<1>3. ASSUME srv.mode = "NETWORKED", ~srv.awaitingAccept, srv.phase # "FINISHED",
             NEW p \in Phases, p # "FINISHED", srv' = [srv EXCEPT !.phase = p],
             SameBoard(eng, eng')
      PROVE  StageInv' /\ Refines
    <2>1. /\ srv'.mode = srv.mode /\ srv'.session = srv.session
          /\ srv'.phase = p /\ srv'.awaitingAccept = srv.awaitingAccept
          /\ srv'.pendingKeyExit = srv.pendingKeyExit
        BY <1>1, <1>3, SetPhase
    <2>2. StageInv'
        BY <1>3, <2>1 DEF AllInv, StageInv, StageKnown, SameBoard
    <2> QED BY <1>1, <1>3, <2>1, <2>2, StutterRefines DEF Kept
<1>4. ASSUME srv.mode = "NETWORKED", ~srv.awaitingAccept, srv.phase # "FINISHED",
             eng' = Forfeit(eng, 0), srv'.mode = srv.mode,
             srv'.session = srv.session, srv'.phase = "FINISHED",
             srv'.awaitingAccept = srv.awaitingAccept,
             srv'.pendingKeyExit = srv.pendingKeyExit
      PROVE  StageInv' /\ Refines
    <2>1. StageInv'
        BY <1>4 DEF AllInv, StageInv, StageKnown
    <2> QED BY <1>1, <1>4, <2>1, FleeRefines DEF Side
<1>5. CASE ServerKeyFinished
    <2>1. srv.mode = "NETWORKED" /\ srv.phase = "FINISHED" /\ UNCHANGED eng
          /\ ~srv.awaitingAccept
        BY <1>5 DEF ServerKeyFinished, ServerHasKeys
    <2>2. CASE srv' = ServerExited(srv)
        BY <1>2, <2>1, <2>2
    <2>3. CASE srv' = [srv EXCEPT !.pendingKeyExit = TRUE]
        <3>1. /\ srv'.mode = srv.mode /\ srv'.session = srv.session
              /\ srv'.phase = srv.phase /\ srv'.awaitingAccept = srv.awaitingAccept
            BY <1>1, <2>3 DEF Servers
        <3>2. StageInv'
            BY <2>1, <3>1 DEF StageInv, StageKnown
        <3> QED BY <1>1, <2>1, <3>1, <3>2, StutterRefines DEF Kept, SameBoard
    <2> QED BY <1>5, <2>2, <2>3 DEF ServerKeyFinished
<1>6. CASE ServerKeyEsc
    <2> DEFINE d == [srv EXCEPT !.phase = "FINISHED"]
    <2>1. /\ srv.mode = "NETWORKED" /\ ~srv.awaitingAccept
          /\ srv.phase # "FINISHED" /\ eng' = Forfeit(eng, 0)
          /\ srv' = SendUpdate(d, Forfeit(eng, 0), toCli).srv
        BY <1>6 DEF ServerKeyEsc, ServerHasKeys
    <2>2. /\ d \in Servers /\ d.mode = srv.mode /\ d.session = srv.session
          /\ d.phase = "FINISHED" /\ d.awaitingAccept = srv.awaitingAccept
          /\ d.pendingKeyExit = srv.pendingKeyExit
        BY <1>1, SetPhase, NamesType
    <2> HIDE DEF d
    <2>3. /\ srv'.mode = srv.mode /\ srv'.session = srv.session
          /\ srv'.phase = "FINISHED" /\ srv'.awaitingAccept = srv.awaitingAccept
          /\ srv'.pendingKeyExit = srv.pendingKeyExit
        BY <2>1, <2>2, SendUpdateKeeps
    <2> QED BY <1>4, <2>1, <2>3
<1>7. CASE ServerKeyFlee
    <2>1. /\ srv.mode = "NETWORKED" /\ ~srv.awaitingAccept
          /\ srv.phase # "FINISHED"
          /\ \/ srv' = [srv EXCEPT !.phase = "WAIT_FLEE"] /\ eng' = eng
             \/ srv' = [srv EXCEPT !.phase = "WAIT_ACTION"] /\ eng' = eng
             \/ srv' = [srv EXCEPT !.phase = "FINISHED"] /\ eng' = Forfeit(eng, 0)
        BY <1>7 DEF ServerKeyFlee, ServerHasKeys
    <2>2. CASE srv' = [srv EXCEPT !.phase = "FINISHED"] /\ eng' = Forfeit(eng, 0)
        <3>1. /\ srv'.mode = srv.mode /\ srv'.session = srv.session
              /\ srv'.phase = "FINISHED" /\ srv'.awaitingAccept = srv.awaitingAccept
              /\ srv'.pendingKeyExit = srv.pendingKeyExit
            BY <1>1, <2>2, SetPhase, NamesType
        <3> QED BY <1>4, <2>1, <2>2, <3>1
    <2> QED BY <1>3, <2>1, <2>2, NamesType DEF SameBoard
<1>8. CASE ServerKeySwitchMenu
    <2>1. /\ srv.mode = "NETWORKED" /\ ~srv.awaitingAccept
          /\ srv.phase # "FINISHED" /\ eng' = eng
          /\ \/ srv' = [srv EXCEPT !.phase = "WAIT_SWITCH"]
             \/ srv' = [srv EXCEPT !.phase = "WAIT_ACTION"]
        BY <1>8 DEF ServerKeySwitchMenu, ServerHasKeys
    <2> QED BY <1>3, <2>1, NamesType DEF SameBoard
<1>9. CASE ServerKeyPick
    <2>1. PICK mv \in Moves : eng' = Submit(eng, 0, mv)
        BY <1>9 DEF ServerKeyPick
    <2>2. /\ srv.mode = "NETWORKED" /\ ~srv.awaitingAccept
          /\ srv.phase # "FINISHED"
          /\ srv' = [srv EXCEPT !.phase = "WAIT_REMOTE"]
        BY <1>9 DEF ServerKeyPick, ServerHasKeys
    <2>3. SameBoard(eng, eng')
        BY <1>1, <2>1 DEF SameBoard, Submit, Engines
    <2> QED BY <1>3, <2>2, <2>3, NamesType
<1>10. CASE ServerEvicted
    BY <1>2, <1>10 DEF ServerEvicted
<1> QED BY <1>5, <1>6, <1>7, <1>8, <1>9, <1>10 DEF ServerKey

\* The client and the air touch nothing of it but the picks.
LEMMA OtherStep ==
    ASSUME AllInv, ClientReceive \/ ClientTick \/ ClientKey \/ Lose
    PROVE  StageInv' /\ Refines
<1>1. UNCHANGED <<srv, eng>> /\ chosen \subseteq chosen'
    <2>1. CASE ClientReceive
        BY <2>1 DEF ClientReceive, ClientTakes, ServerUnchanged
    <2>2. CASE ClientTick
        BY <2>2 DEF ClientTick, ClientTickWhen, ServerUnchanged, HistoryUnchanged
    <2>3. CASE ClientKey
        BY <2>3 DEF ClientKey, ClientKeyFinished, ClientKeyYes, ClientKeyNo,
                    ClientKeyFlee, ClientKeySwitchMenu, ClientKeyPick,
                    ClientEvicted, ClientKeys, ServerUnchanged, HistoryUnchanged
    <2>4. CASE Lose
        BY <2>4 DEF Lose, ServerUnchanged, HistoryUnchanged
    <2> QED BY <2>1, <2>2, <2>3, <2>4
<1> QED BY <1>1, StutterRefines DEF AllInv, StageInv, Kept, SameBoard

LEMMA RefinesStep ==
    ASSUME TerminalHeld
    PROVE  AllInv /\ [Next]_vars => StageInv' /\ Refines
<1> SUFFICES ASSUME AllInv, [Next]_vars PROVE StageInv' /\ Refines
    OBVIOUS
<1>1. CASE UNCHANGED vars
    BY <1>1, StutterRefines DEF vars, AllInv, StageInv, Kept, SameBoard
<1> QED BY <1>1, OfferStep, ReceiveStep, TickStep, KeyStep, OtherStep DEF Next

LEMMA RefinesInit == Init => StageInv /\ AnyTurn!LBInit
BY DEF Init, StageInv, StageKnown, AnyTurn!LBInit, Stage, Start, AnyTurn!Side, Side

\* The live battle the two nodes play over packets, timers and menus is a
\* LiveBattle: startServerAuthAsInitiator() offers, serverAuthOnAcceptPkt()
\* starts, resolveTurn() plays moves picked in this battle, and exit() leaves
\* only an unanswered challenge or a finished battle.
THEOREM LiveBattleImplemented ==
    ASSUME TerminalHeld
    PROVE  Spec => ImplementsLiveBattle
<1>1. Spec => [](TypeInv /\ HistoryInv)
    BY TypeInvariant, HistoryInvariant, PTL
<1>2. Init => StageInv /\ AnyTurn!LBInit
    BY RefinesInit
<1>3. TypeInv /\ HistoryInv /\ StageInv /\ [Next]_vars
        => StageInv' /\ [AnyTurn!LBNext]_(AnyTurn!lbVars)
    BY RefinesStep DEF AllInv, Refines
<1> QED BY <1>1, <1>2, <1>3, PTL DEF Spec, ImplementsLiveBattle, AnyTurn!LBSpec

-----------------------------------------------------------------------------
(* The move of the turn.  A client whose board hashes differently has its  *)
(* turn moved on and its action kept, so the action it remembers may be    *)
(* stale, and a repeat of the last board it applied would make it send     *)
(* that action again, stamped with the new turn.  On a direct link no such *)
(* repeat is left: the boards of a battle arrive in the order they were    *)
(* numbered.  Only the last board of a battle is applied with a stale      *)
(* action, and then no turn is left to be played.                          *)

\* The battles whose engine plays no more turns.
Settled(s, e) ==
    {x \in 0 .. MaxSession :
        \/ x < s.session
        \/ /\ x = s.session
           /\ s.mode = "OFF" \/ (s.peerReady /\ e.result # "ONGOING")}

\* Board number seq has not been applied by the client c yet, or does not make
\* it send a stale action in a battle outside D.
Stale(c) == c.actionType \in Moves /\ c.actionTurn # c.clientTurn
NotBefore(c, seq, D) ==
    /\ c.lastApplied <= seq
    /\ Stale(c) /\ c.lastApplied = seq => seq = 0 \/ c.session \in D

\* What can be on its way to the client c.
Coming(s, D, c) ==
    {p \in ServerPkts :
        /\ p.sess <= s.session
        /\ p.type \in Boards =>
              /\ p.sess = s.session => p.seq <= s.updateSeq
              /\ p.sess = c.session => NotBefore(c, p.seq, D)
        /\ p.type = "UPDATE" /\ p.real /\ p.result # "ONGOING" => p.sess \in D}

Rises(p, q) ==
    p.type \in Boards /\ q.type \in Boards /\ q.sess = p.sess => p.seq <= q.seq
Rising == {r \in ServerPkts \X ServerPkts : Rises(r[1], r[2])}
Later(p) == {q \in ServerPkts : <<p, q>> \in Rising}

\* The link, the UPDATE kept at the Y/N prompt being the packet before its first.
LinkInOrder(s, D, c, ch) ==
    /\ ch \in Seq(Coming(s, D, c)) /\ Chain(ch, Rising)
    /\ c.phase = "WAIT_CHALLENGE_OVERLAY" /\ c.preAccept # NoPkt
         => c.preAccept \in Coming(s, D, c) /\ ch \in Seq(Later(c.preAccept))

ServerInOrder(s, D) ==
    /\ s.awaitingAccept => ~s.peerReady
    /\ s.unackedUpdate =>
          /\ s.lastUpdate.sess = s.session /\ s.lastUpdate.seq = s.updateSeq
          /\ s.lastUpdate.real /\ s.lastUpdate.result # "ONGOING" => s.session \in D

ClientInOrder(s, D, c) ==
    /\ c.session <= s.session
    /\ c.session = s.session => NotBefore(c, s.updateSeq, D)
    /\ c.phase = "WAIT_CHALLENGE_OVERLAY" => c.actionType = NoAct /\ c.lastApplied = 0

Ordered(s, e, c, ch) ==
    /\ ServerInOrder(s, Settled(s, e))
    /\ ClientInOrder(s, Settled(s, e), c)
    /\ LinkInOrder(s, Settled(s, e), c, ch)

\* Every action under way, submitted or remembered is the one picked for the
\* turn it names.
Exact(D, h) ==
    {m \in ClientPkts : m.type = "ACTION_V2" /\ m.act \in Moves
                          => m.sess \in D \/ <<m.sess, m.turn, m.act>> \in h}
PickExact(s, e, D, h) ==
    e.pend[1] # NoAct => s.session \in D \/ <<s.session, Wire(e.turn), e.pend[1]>> \in h
ActExact(c, D, h) ==
    c.actionType \in Moves
        => c.session \in D \/ <<c.session, c.actionTurn, c.actionType>> \in h

TurnInv ==
    /\ Ordered(srv, eng, cli, toCli)
    /\ toSrv \in Seq(Exact(Settled(srv, eng), chosen))
    /\ PickExact(srv, eng, Settled(srv, eng), chosen)
    /\ ActExact(cli, Settled(srv, eng), chosen)

LEMMA CountRange ==
    /\ \A s \in Servers : s.updateSeq \in Nat /\ s.session \in Nat
                          /\ s.session \in 0 .. MaxSession
    /\ \A c \in Clients : c.lastApplied \in Nat /\ c.session \in Nat
                          /\ c.session \in 0 .. MaxSession
    /\ \A p \in ServerPkts : p.sess \in Nat /\ (p.type \in Boards => p.seq \in Nat)
<1>1. \A s \in Servers : s.updateSeq \in Byte /\ s.session \in 0 .. MaxSession
    BY DEF Servers
<1>2. \A c \in Clients : c.lastApplied \in Byte /\ c.session \in 0 .. MaxSession
    BY DEF Clients
<1>3. \A p \in ServerPkts : p.sess \in Sessions /\ (p.type \in Boards => p.seq \in Byte)
    BY DEF ServerPkts, UpdatePkts, Boards
<1>4. Byte \subseteq Nat /\ Sessions \subseteq Nat /\ 0 .. MaxSession \subseteq Nat
    BY BoundAssumption DEF Byte, Sessions
<1> QED BY <1>1, <1>2, <1>3, <1>4

LEMMA RisingPairs == \A p, q \in ServerPkts : <<p, q>> \in Rising <=> Rises(p, q)
BY DEF Rising

LEMMA LaterDef == \A p, q \in ServerPkts : q \in Later(p) <=> Rises(p, q)
BY RisingPairs DEF Later

LEMMA ComingType ==
    ASSUME NEW s, NEW D, NEW c, NEW ch \in Seq(Coming(s, D, c))
    PROVE  ch \in Seq(ServerPkts)
BY SeqMonotonic DEF Coming

\* A step of the server counts its battles and its boards upwards.
Ahead(s, e, t, f) ==
    /\ s.session <= t.session
    /\ t.session = s.session => s.updateSeq <= t.updateSeq
    /\ Settled(s, e) \subseteq Settled(t, f)

LEMMA AheadInOrder ==
    ASSUME NEW s \in Servers, NEW t \in Servers, NEW e, NEW f, NEW c \in Clients,
           NEW ch, Ahead(s, e, t, f),
           LinkInOrder(s, Settled(s, e), c, ch), ClientInOrder(s, Settled(s, e), c)
    PROVE  /\ LinkInOrder(t, Settled(t, f), c, ch)
           /\ ClientInOrder(t, Settled(t, f), c)
<1> DEFINE D == Settled(s, e)
           F == Settled(t, f)
<1>1. D \subseteq F
    BY DEF Ahead
<1> HIDE DEF D, F
<1>2. \A seq \in Nat : NotBefore(c, seq, D) => NotBefore(c, seq, F)
    BY <1>1 DEF NotBefore
<1>3. Coming(s, D, c) \subseteq Coming(t, F, c)
    <2> SUFFICES ASSUME NEW p \in Coming(s, D, c) PROVE p \in Coming(t, F, c)
        OBVIOUS
    <2>1. p \in ServerPkts /\ p.sess <= s.session
        BY DEF Coming
    <2>2. p.sess <= t.session /\ (p.sess = t.session => t.session = s.session)
        BY <2>1, CountRange DEF Ahead
    <2>3. ASSUME p.type \in Boards, p.sess = t.session PROVE p.seq <= t.updateSeq
        BY <2>1, <2>2, <2>3, CountRange DEF Ahead, Coming
    <2> QED BY <1>1, <1>2, <2>1, <2>2, <2>3, CountRange DEF Coming
<1>4. LinkInOrder(t, F, c, ch)
    BY <1>3, SeqMonotonic DEF LinkInOrder, D
<1>5. ClientInOrder(t, F, c)
    <2>1. c.session <= s.session /\ c.session <= t.session
          /\ (c.session = t.session => c.session = s.session /\ t.session = s.session)
        BY CountRange DEF ClientInOrder, Ahead
    <2>2. ASSUME c.session = t.session PROVE NotBefore(c, t.updateSeq, F)
        <3>1. NotBefore(c, s.updateSeq, F) /\ s.updateSeq <= t.updateSeq
            BY <1>2, <2>1, <2>2, CountRange DEF ClientInOrder, Ahead, D
        <3> QED BY <3>1, CountRange DEF NotBefore
    <2> QED BY <2>1, <2>2 DEF ClientInOrder
<1> QED BY <1>4, <1>5 DEF F

\* A step that builds no board: the battle may be left or decided by it.
SameCount(s, t) ==
    /\ t.session = s.session /\ t.mode \in {s.mode, "OFF"}
    /\ t.peerReady = s.peerReady /\ t.updateSeq = s.updateSeq
    /\ t.awaitingAccept => s.awaitingAccept
    /\ t.unackedUpdate => s.unackedUpdate /\ t.lastUpdate = s.lastUpdate

LEMMA QuietOrdered ==
    ASSUME NEW s \in Servers, NEW t \in Servers, NEW e, NEW f, NEW c \in Clients,
           NEW ch, Ordered(s, e, c, ch), SameCount(s, t),
           e.result # "ONGOING" => f.result # "ONGOING"
    PROVE  Ordered(t, f, c, ch) /\ Ahead(s, e, t, f)
<1>1. Settled(s, e) \subseteq Settled(t, f)
    BY DEF Settled, SameCount
<1>2. Ahead(s, e, t, f)
    BY <1>1, CountRange DEF Ahead, SameCount
<1>3. ServerInOrder(t, Settled(t, f))
    BY <1>1 DEF ServerInOrder, SameCount, Ordered
<1> QED BY <1>2, <1>3, AheadInOrder DEF Ordered

\* The next packet of the server: no board, or the last board it built.
LEMMA SendInOrder ==
    ASSUME NEW s \in Servers, NEW D, NEW c \in Clients, NEW ch,
           LinkInOrder(s, D, c, ch), ClientInOrder(s, D, c),
           NEW m \in ServerPkts, m.sess = s.session,
           m.type \in Boards => m.seq = s.updateSeq,
           m.type = "UPDATE" /\ m.real /\ m.result # "ONGOING" => s.session \in D
    PROVE  LinkInOrder(s, D, c, Enqueue(ch, m))
<1>1. m \in Coming(s, D, c)
    BY CountRange DEF Coming, ClientInOrder
<1>2. \A p \in Coming(s, D, c) : p \in ServerPkts /\ Rises(p, m)
    BY DEF Coming, Rises
<1>3. \A p \in Coming(s, D, c) : m \in Later(p)
    BY <1>2, LaterDef
<1>4. Chain(Enqueue(ch, m), Rising)
    <2>1. Coming(s, D, c) \subseteq {q \in ServerPkts : <<q, m>> \in Rising}
        BY <1>2, RisingPairs
    <2>2. ch \in Seq({q \in ServerPkts : <<q, m>> \in Rising})
        BY <2>1, SeqMonotonic DEF LinkInOrder
    <2>3. ch \in Seq(ServerPkts)
        BY ComingType DEF LinkInOrder
    <2> QED BY <2>2, <2>3, ChainEnqueue DEF LinkInOrder
<1>5. Enqueue(ch, m) \in Seq(Coming(s, D, c))
    BY <1>1, EnqueueType DEF LinkInOrder
<1>6. ASSUME c.phase = "WAIT_CHALLENGE_OVERLAY", c.preAccept # NoPkt
      PROVE  /\ c.preAccept \in Coming(s, D, c)
             /\ Enqueue(ch, m) \in Seq(Later(c.preAccept))
    BY <1>3, <1>6, EnqueueType DEF LinkInOrder
<1> QED BY <1>4, <1>5, <1>6 DEF LinkInOrder

\* serverAuthSendUpdate(), with a sequence number left to give.
LEMMA SendUpdateOrdered ==
    ASSUME MaxSeq <= 255,
           NEW s \in Servers, NEW d \in Servers, NEW e, NEW f \in Engines,
           NEW c \in Clients, NEW ch \in Seq(ServerPkts),
           LinkInOrder(s, Settled(s, e), c, ch), ClientInOrder(s, Settled(s, e), c),
           d.session \in Sessions, d.session = s.session,
           d.updateSeq = s.updateSeq, s.updateSeq < MaxSeq,
           d.awaitingAccept => ~d.peerReady,
           Settled(s, e) \subseteq Settled(d, f)
    PROVE  LET r == SendUpdate(d, f, ch)
           IN  Ordered(r.srv, f, c, r.net) /\ Ahead(s, e, r.srv, f)
<1> DEFINE t   == SendUpdate(d, f, ch).srv
           upd == t.lastUpdate
<1>1. GoodServer(t)
    BY SendUpdateType
<1>2. /\ t.session = d.session /\ t.mode = d.mode /\ t.peerReady = d.peerReady
      /\ t.awaitingAccept = d.awaitingAccept /\ t.unackedUpdate
      /\ t.updateSeq = Wire(d.updateSeq + 1)
      /\ upd = Update(d.session, Wire(d.updateSeq + 1), f, d.peerReady)
      /\ SendUpdate(d, f, ch).net = Enqueue(ch, upd)
    BY DEF SendUpdate, Servers
<1> HIDE DEF t
<1>3. Wire(d.updateSeq + 1) = s.updateSeq + 1
    <2>1. s.updateSeq \in Nat /\ s.updateSeq + 1 <= 255
        BY CountRange, BoundAssumption
    <2>2. \A n \in Nat : n <= 255 => n % 256 = n
        OBVIOUS
    <2>3. s.updateSeq + 1 \in Nat
        BY <2>1
    <2> QED BY <2>1, <2>2, <2>3 DEF Wire
<1>4. /\ upd.sess = t.session /\ upd.seq = t.updateSeq /\ upd.type = "UPDATE"
      /\ upd.real = t.peerReady /\ upd.result = f.result
    BY <1>2 DEF Update
<1>5. upd \in ServerPkts /\ t \in Servers
    BY <1>1, <1>2 DEF GoodServer, ServerBuffer, ServerPkts
<1>6. Settled(t, f) = Settled(d, f)
    BY <1>2 DEF Settled
<1>7. Ahead(s, e, t, f)
    BY <1>2, <1>3, <1>6, CountRange DEF Ahead
<1>8. LinkInOrder(t, Settled(t, f), c, ch) /\ ClientInOrder(t, Settled(t, f), c)
    BY <1>5, <1>7, AheadInOrder
<1>9. upd.real /\ upd.result # "ONGOING" => t.session \in Settled(t, f)
    BY <1>4, <1>5, CountRange DEF Settled
<1>10. LinkInOrder(t, Settled(t, f), c, Enqueue(ch, upd))
    BY <1>4, <1>5, <1>8, <1>9, SendInOrder
<1>11. ServerInOrder(t, Settled(t, f))
    BY <1>2, <1>4, <1>9 DEF ServerInOrder
<1> QED BY <1>2, <1>7, <1>8, <1>10, <1>11 DEF Ordered, t

-----------------------------------------------------------------------------
(* The server's steps, the client standing still. *)

TurnKept ==
    /\ Ordered(srv', eng', cli, toCli')
    /\ Settled(srv, eng) \subseteq Settled(srv', eng')
    /\ PickExact(srv', eng', Settled(srv', eng'), chosen)

LEMMA PickKept ==
    ASSUME NEW s, NEW t, NEW e, NEW f, NEW D, NEW F, NEW h, PickExact(s, e, D, h),
           D \subseteq F, t.session = s.session,
           \/ f.pend[1] = NoAct
           \/ f.turn = e.turn /\ f.pend[1] = e.pend[1]
    PROVE  PickExact(t, f, F, h)
BY DEF PickExact

LEMMA EngineTurns ==
    /\ \A e \in Engines, side \in Side :
          /\ Forfeit(e, side).turn = e.turn /\ Forfeit(e, side).pend = e.pend
          /\ Forfeit(e, side).result # "ONGOING"
    /\ \A e \in Engines, side \in Side, mv \in Moves :
          /\ Submit(e, side, mv).turn = e.turn
          /\ Submit(e, side, mv).result = e.result
    /\ \A e \in Engines : \A f \in ExecuteTurn(e) :
          f = e \/ (e.result = "ONGOING" /\ f.pend[1] = NoAct)
<1>1. \A e \in Engines, side \in Side :
          /\ Forfeit(e, side).turn = e.turn /\ Forfeit(e, side).pend = e.pend
          /\ Forfeit(e, side).result # "ONGOING"
    BY DEF Forfeit, Engines
<1>2. \A e \in Engines, side \in Side, mv \in Moves :
          /\ Submit(e, side, mv).turn = e.turn
          /\ Submit(e, side, mv).result = e.result
    BY DEF Submit, Engines
<1>3. \A e \in Engines : \A f \in ExecuteTurn(e) :
          f = e \/ (e.result = "ONGOING" /\ f.pend[1] = NoAct)
    BY DEF ExecuteTurn, Ready, Side
<1> QED BY <1>1, <1>2, <1>3

LEMMA ChallengeTurn ==
    ASSUME TypeInv, TurnInv, SendChallenge PROVE TurnKept
<1>1. /\ srv \in Servers /\ cli \in Clients /\ toCli \in Seq(ServerPkts)
      /\ srv' \in Servers /\ srv'.session \in Sessions
    <2>1. TypeInv'
        BY SendChallengeType
    <2>2. srv'.mode = "NETWORKED"
        BY DEF SendChallenge, TypeInv, TypeOK, Servers
    <2> QED BY <2>1, <2>2 DEF TypeInv, TypeOK, ServerOn
<1>2. /\ srv'.session = srv.session + 1 /\ ~srv'.unackedUpdate /\ ~srv'.peerReady
      /\ eng'.pend[1] = NoAct /\ toCli' = Enqueue(toCli, Challenge(srv'.session))
    BY <1>1, NothingPending DEF SendChallenge, Servers
<1>3. Settled(srv, eng) \subseteq Settled(srv', eng')
    BY <1>1, <1>2, CountRange DEF Settled
<1>4. Ahead(srv, eng, srv', eng')
    BY <1>1, <1>2, <1>3, CountRange DEF Ahead
<1>5. /\ LinkInOrder(srv', Settled(srv', eng'), cli, toCli)
      /\ ClientInOrder(srv', Settled(srv', eng'), cli)
    BY <1>1, <1>4, AheadInOrder DEF TurnInv, Ordered
<1>6. /\ Challenge(srv'.session) \in ServerPkts
      /\ Challenge(srv'.session).type \notin Boards \cup {"UPDATE"}
      /\ Challenge(srv'.session).sess = srv'.session
    BY <1>1 DEF Challenge, ServerPkts, Boards
<1>7. LinkInOrder(srv', Settled(srv', eng'), cli, toCli')
    BY <1>1, <1>2, <1>5, <1>6, SendInOrder
<1> QED BY <1>2, <1>3, <1>5, <1>7 DEF TurnKept, Ordered, ServerInOrder, PickExact

\* A step of the server that queues nothing for the client.
LEMMA QuietTurn ==
    ASSUME srv \in Servers, srv' \in Servers, cli \in Clients,
           Ordered(srv, eng, cli, toCli'), PickExact(srv, eng, Settled(srv, eng), chosen),
           SameCount(srv, srv'),
           eng.result # "ONGOING" => eng'.result # "ONGOING",
           eng'.turn = eng.turn /\ eng'.pend[1] = eng.pend[1]
    PROVE  TurnKept
<1>1. Ordered(srv', eng', cli, toCli') /\ Ahead(srv, eng, srv', eng')
    BY QuietOrdered
<1>2. PickExact(srv', eng', Settled(srv', eng'), chosen)
    BY <1>1, PickKept DEF Ahead, SameCount
<1> QED BY <1>1, <1>2 DEF TurnKept, Ahead

LEMMA DropInOrder ==
    ASSUME NEW s, NEW D, NEW c, NEW ch, LinkInOrder(s, D, c, ch),
           NEW kept \in DropPendingSends(ch)
    PROVE  LinkInOrder(s, D, c, kept)
<1>1. Chain(kept, Rising)
    BY ComingType, ChainDrop DEF LinkInOrder
<1> QED BY <1>1, DropType DEF LinkInOrder

LEMMA AcceptTurn ==
    ASSUME MaxSeq <= 255, TypeInv, TurnInv, srv.mode # "OFF", NEW m, OnAccept(m)
    PROVE  TurnKept
<1>1. /\ srv \in Servers /\ srv.session \in Sessions /\ srv.mode = "NETWORKED"
      /\ toCli \in Seq(ServerPkts) /\ eng \in Engines /\ cli \in Clients
      /\ Ordered(srv, eng, cli, toCli)
      /\ PickExact(srv, eng, Settled(srv, eng), chosen)
    BY DEF TypeInv, TypeOK, ServerOn, Servers, Modes, TurnInv
<1>2. CASE UNCHANGED <<srv, eng, toCli>>
    BY <1>1, <1>2 DEF TurnKept
<1>3. CASE /\ srv' = [srv EXCEPT !.phase = "FINISHED", !.awaitingAccept = FALSE]
           /\ UNCHANGED <<eng, toCli>>
    <2>1. srv' \in Servers /\ SameCount(srv, srv')
        BY <1>1, <1>3, NamesType DEF Servers, SameCount
    <2> QED BY <1>1, <1>3, <2>1, QuietTurn
<1>4. CASE /\ CanUpdate /\ srv.awaitingAccept /\ eng' = Start(FullTeams)
           /\ \E kept \in DropPendingSends(toCli) :
                LET s == [srv EXCEPT !.awaitingAccept = FALSE,
                           !.peerReady = TRUE,
                           !.pendingRemoteAction = FALSE,
                           !.phase = "WAIT_ACTION"]
                    r == SendUpdate(s, Start(FullTeams), kept)
                IN  srv' = r.srv /\ toCli' = r.net
    <2> DEFINE f == Start(FullTeams)
               d == [srv EXCEPT !.awaitingAccept = FALSE,
                       !.peerReady = TRUE,
                       !.pendingRemoteAction = FALSE,
                       !.phase = "WAIT_ACTION"]
    <2>1. PICK kept \in DropPendingSends(toCli) :
            srv' = SendUpdate(d, f, kept).srv /\ toCli' = SendUpdate(d, f, kept).net
        BY <1>4
    <2>2. kept \in Seq(ServerPkts) /\ LinkInOrder(srv, Settled(srv, eng), cli, kept)
        BY <1>1, DropType, DropInOrder DEF Ordered
    <2>3. /\ d \in Servers /\ d.session = srv.session /\ ~d.awaitingAccept
          /\ d.updateSeq = srv.updateSeq
        BY <1>1, NamesType DEF Servers
    <2>4. f \in Engines /\ f.pend[1] = NoAct
        BY TeamsType, StartType, NothingPending
    <2>5. Settled(srv, eng) \subseteq Settled(d, f)
        BY <1>1, <1>4, <2>3 DEF Settled, Ordered, ServerInOrder
    <2>6. eng' = f /\ srv.updateSeq < MaxSeq
        BY <1>4 DEF CanUpdate
    <2> HIDE DEF d, f
    <2>7. Ordered(srv', f, cli, toCli') /\ Ahead(srv, eng, srv', f)
        BY <1>1, <2>1, <2>2, <2>3, <2>4, <2>5, <2>6, SendUpdateOrdered DEF Ordered
    <2> QED BY <2>4, <2>6, <2>7 DEF TurnKept, Ahead, PickExact
<1> QED BY <1>2, <1>3, <1>4 DEF OnAccept

\* A move enters the engine only for the open turn, with the turn it names.
LEMMA ActionTurn ==
    ASSUME MaxSeq <= 255, TypeInv, TurnInv, srv.mode # "OFF",
           NEW m \in Exact(Settled(srv, eng), chosen), m.type = "ACTION_V2",
           OnActionV2(m)
    PROVE  TurnKept
<1> DEFINE s == Acknowledged(srv, m)
<1>1. /\ srv \in Servers /\ srv.session \in Sessions /\ srv.mode = "NETWORKED"
      /\ toCli \in Seq(ServerPkts) /\ eng \in Engines /\ cli \in Clients
      /\ Ordered(srv, eng, cli, toCli)
      /\ PickExact(srv, eng, Settled(srv, eng), chosen)
    BY DEF TypeInv, TypeOK, ServerOn, Servers, Modes, TurnInv
<1>2. s \in Servers /\ SameCount(srv, s) /\ s.mode = srv.mode
      /\ s.awaitingAccept = srv.awaitingAccept
    BY <1>1 DEF Acknowledged, SameCount, Servers
<1>3. m \in ClientPkts /\ m.act \in Moves \cup {Flee, PureAck}
    BY DEF Exact, ClientPkts
<1>4. \/ UNCHANGED <<srv, eng, toCli>>
      \/ srv' = s /\ UNCHANGED <<eng, toCli>>
      \/ /\ CanUpdate /\ eng' = Forfeit(eng, 1)
         /\ LET r == SendUpdate([s EXCEPT !.phase = "FINISHED"],
                                Forfeit(eng, 1), toCli)
            IN  srv' = r.srv /\ toCli' = r.net
      \/ /\ m.sess = srv.session /\ m.turn = Wire(eng.turn)
         /\ m.act \in Moves /\ eng' = Submit(eng, 1, m.act)
         /\ srv' = [s EXCEPT !.pendingRemoteAction = TRUE]
         /\ UNCHANGED toCli
    BY <1>3 DEF OnActionV2, ActionCounts
<1> HIDE DEF s
<1>5. CASE UNCHANGED <<srv, eng, toCli>>
    BY <1>1, <1>5 DEF TurnKept
<1>6. CASE srv' = s /\ UNCHANGED <<eng, toCli>>
    BY <1>1, <1>2, <1>6, QuietTurn
<1>7. CASE /\ CanUpdate /\ eng' = Forfeit(eng, 1)
           /\ LET r == SendUpdate([s EXCEPT !.phase = "FINISHED"],
                                  Forfeit(eng, 1), toCli)
              IN  srv' = r.srv /\ toCli' = r.net
    <2> DEFINE d == [s EXCEPT !.phase = "FINISHED"]
               f == Forfeit(eng, 1)
    <2>1. /\ d \in Servers /\ d.session = srv.session /\ d.mode = srv.mode
          /\ d.awaitingAccept = srv.awaitingAccept /\ d.peerReady = srv.peerReady
          /\ d.updateSeq = srv.updateSeq
        BY <1>2, NamesType DEF Servers, SameCount
    <2>2. f \in Engines /\ f.turn = eng.turn /\ f.pend = eng.pend
          /\ f.result # "ONGOING"
        BY <1>1, ForfeitType, EngineTurns DEF Side
    <2>3. /\ eng' = f /\ srv' = SendUpdate(d, f, toCli).srv
          /\ toCli' = SendUpdate(d, f, toCli).net
        BY <1>7
    <2> HIDE DEF d, f
    <2>4. Settled(srv, eng) \subseteq Settled(d, f) /\ (d.awaitingAccept => ~d.peerReady)
        BY <1>1, <2>1, <2>2 DEF Settled, Ordered, ServerInOrder
    <2>5. Ordered(srv', f, cli, toCli') /\ Ahead(srv, eng, srv', f)
        BY <1>1, <1>7, <2>1, <2>2, <2>3, <2>4, SendUpdateOrdered DEF Ordered, CanUpdate
    <2>6. srv'.session = srv.session
        BY <2>1, <2>3, SendUpdateKeeps
    <2>7. PickExact(srv', f, Settled(srv', f), chosen)
        BY <1>1, <2>2, <2>5, <2>6, PickKept DEF Ahead
    <2> QED BY <2>3, <2>5, <2>7 DEF TurnKept, Ahead
<1>8. CASE /\ m.sess = srv.session /\ m.turn = Wire(eng.turn)
           /\ m.act \in Moves /\ eng' = Submit(eng, 1, m.act)
           /\ srv' = [s EXCEPT !.pendingRemoteAction = TRUE]
           /\ UNCHANGED toCli
    <2>1. srv' \in Servers /\ SameCount(srv, srv')
        BY <1>2, <1>8 DEF Servers, SameCount
    <2>2. /\ eng'.turn = eng.turn /\ eng'.result = eng.result
          /\ eng'.pend[1] = m.act
        BY <1>1, <1>8, EngineTurns, NothingPending DEF Side
    <2>3. Ordered(srv', eng', cli, toCli') /\ Ahead(srv, eng, srv', eng')
        BY <1>1, <1>8, <2>1, <2>2, QuietOrdered
    <2>4. m.sess \in Settled(srv, eng) \/ <<m.sess, m.turn, m.act>> \in chosen
        BY <1>8 DEF Exact
    <2>5. PickExact(srv', eng', Settled(srv', eng'), chosen)
        BY <1>8, <2>1, <2>2, <2>3, <2>4 DEF PickExact, Ahead, SameCount
    <2> QED BY <2>3, <2>5 DEF TurnKept, Ahead
<1> QED BY <1>4, <1>5, <1>6, <1>7, <1>8

LEMMA ReceiveTurn ==
    ASSUME MaxSeq <= 255, TypeInv, TurnInv, ServerReceive
    PROVE  TurnKept /\ toSrv' \in Seq(Exact(Settled(srv, eng), chosen))
<1>1. PICK i \in Deliverable(toSrv) : ServerTakes(i)
    BY DEF ServerReceive
<1> DEFINE m == toSrv[i]
<1>2. /\ m \in Exact(Settled(srv, eng), chosen)
      /\ RemoveAt(toSrv, i) \in Seq(Exact(Settled(srv, eng), chosen))
    BY DeliverableType DEF TurnInv
<1>3. /\ toSrv' = RemoveAt(toSrv, i)
      /\ \/ UNCHANGED <<srv, eng, toCli>>
         \/ srv.mode # "OFF" /\ OnAccept(m)
         \/ srv.mode # "OFF" /\ m.type = "ACTION_V2" /\ OnActionV2(m)
         \/ srv.mode # "OFF" /\ OnStateRequest(m)
    BY <1>1 DEF ServerTakes
<1> HIDE DEF m
<1>4. /\ srv \in Servers /\ eng \in Engines /\ cli \in Clients
      /\ Ordered(srv, eng, cli, toCli)
      /\ PickExact(srv, eng, Settled(srv, eng), chosen)
    BY DEF TypeInv, TypeOK, TurnInv
<1>5. CASE UNCHANGED <<srv, eng, toCli>>
    BY <1>2, <1>3, <1>4, <1>5 DEF TurnKept
<1>6. CASE srv.mode # "OFF" /\ OnStateRequest(m)
    <2> DEFINE full == FullState(srv.session, srv.updateSeq, eng, srv.peerReady)
    <2>1. /\ srv.session \in Sessions /\ srv.updateSeq \in Byte
          /\ eng.alive \in Alive /\ srv.peerReady \in BOOLEAN
        BY <1>4, <1>6 DEF TypeInv, ServerOn, Servers, Modes, Engines, Alive
    <2>2. /\ full \in ServerPkts /\ full.sess = srv.session
          /\ full.seq = srv.updateSeq /\ full.type # "UPDATE"
        BY <2>1 DEF FullState, ServerPkts
    <2>3. UNCHANGED <<srv, eng>> /\ toCli' \in {toCli, Enqueue(toCli, full)}
        BY <1>6 DEF OnStateRequest
    <2> HIDE DEF full
    <2>4. LinkInOrder(srv, Settled(srv, eng), cli, Enqueue(toCli, full))
        BY <1>4, <2>2, SendInOrder DEF Ordered
    <2> QED BY <1>2, <1>3, <1>4, <2>3, <2>4 DEF TurnKept, Ordered
<1>7. TurnKept
    BY <1>2, <1>3, <1>5, <1>6, AcceptTurn, ActionTurn
<1> QED BY <1>2, <1>3, <1>7

\* resolveTurn()
LEMMA ResolveOrdered ==
    ASSUME MaxSeq <= 255, NEW s \in Servers, s.session \in Sessions,
           eng \in Engines, cli \in Clients, NEW ch \in Seq(ServerPkts),
           Ordered(s, eng, cli, ch), PickExact(s, eng, Settled(s, eng), chosen),
           s.updateSeq = srv.updateSeq, ResolveTurn(s, ch)
    PROVE  /\ Ordered(srv', eng', cli, toCli')
           /\ Settled(s, eng) \subseteq Settled(srv', eng')
           /\ PickExact(srv', eng', Settled(srv', eng'), chosen)
<1>1. PICK f \in ExecuteTurn(eng) :
        LET over == f.result # "ONGOING"
            u == SendUpdate(
                   [s EXCEPT
                      !.playerWon = @ \/ f.result = "P1_WIN",
                      !.pendingRemoteAction = over,
                      !.phase = IF over THEN "FINISHED" ELSE "WAIT_ACTION"],
                   f, ch)
        IN  eng' = f /\ srv' = u.srv /\ toCli' = u.net
    BY DEF ResolveTurn
<1> DEFINE d == [s EXCEPT
                   !.playerWon = @ \/ f.result = "P1_WIN",
                   !.pendingRemoteAction = (f.result # "ONGOING"),
                   !.phase = IF f.result # "ONGOING" THEN "FINISHED"
                                                      ELSE "WAIT_ACTION"]
<1>2. /\ eng' = f /\ srv' = SendUpdate(d, f, ch).srv
      /\ toCli' = SendUpdate(d, f, ch).net
    BY <1>1
<1>3. /\ (IF f.result # "ONGOING" THEN "FINISHED" ELSE "WAIT_ACTION") \in Phases
      /\ (s.playerWon \/ f.result = "P1_WIN") \in BOOLEAN
      /\ (f.result # "ONGOING") \in BOOLEAN
    BY NamesType
<1>4. /\ d \in Servers /\ d.session = s.session /\ d.mode = s.mode
      /\ d.awaitingAccept = s.awaitingAccept /\ d.peerReady = s.peerReady
      /\ d.updateSeq = s.updateSeq
    BY <1>3 DEF Servers
<1> HIDE DEF d
<1>5. f \in Engines /\ (f = eng \/ (eng.result = "ONGOING" /\ f.pend[1] = NoAct))
    BY ExecuteTurnType, EngineTurns
<1>6. Settled(s, eng) \subseteq Settled(d, f) /\ (d.awaitingAccept => ~d.peerReady)
    BY <1>4, <1>5 DEF Settled, Ordered, ServerInOrder
<1>7. Ordered(srv', f, cli, toCli') /\ Ahead(s, eng, srv', f)
    <2>1. s.updateSeq < MaxSeq
        BY DEF ResolveTurn, CanUpdate
    <2> QED BY <1>2, <1>4, <1>5, <1>6, <2>1, SendUpdateOrdered DEF Ordered
<1>8. srv'.session = s.session
    BY <1>2, <1>4, SendUpdateKeeps
<1>9. PickExact(srv', f, Settled(srv', f), chosen)
    BY <1>5, <1>7, <1>8, PickKept DEF Ahead
<1> QED BY <1>2, <1>7, <1>9 DEF Ahead

\* serverAuthRetransmit() repeats the CHALLENGE or the last board.
LEMMA RetransmitOrdered ==
    ASSUME NEW s, GoodServer(s), s.mode = "NETWORKED", NEW e, NEW c \in Clients,
           NEW ch, Ordered(s, e, c, ch)
    PROVE  LET r == Retransmit(s, ch)
           IN  Ordered(r.srv, e, c, r.net) /\ SameCount(s, r.srv)
<1>1. s \in Servers /\ s.session \in Sessions
    BY DEF GoodServer, ServerOn
<1>2. CASE s.awaitingAccept /\ OutOfTries(s)
    <2> DEFINE t == [s EXCEPT !.phase = "FINISHED", !.awaitingAccept = FALSE]
    <2>1. t \in Servers /\ SameCount(s, t)
        BY <1>1, NamesType DEF Servers, SameCount
    <2>2. Retransmit(s, ch) = [srv |-> t, net |-> ch]
        BY <1>2 DEF Retransmit
    <2> HIDE DEF t
    <2>3. Ordered(t, e, c, ch)
        BY <1>1, <2>1, QuietOrdered
    <2> QED BY <2>1, <2>2, <2>3
<1>3. CASE s.awaitingAccept /\ ~OutOfTries(s)
    <2> DEFINE t == [s EXCEPT !.challengeTries = @ + 1]
               p == Challenge(s.session)
    <2>1. s.challengeTries + 1 \in 0 .. MaxTries
        BY <1>1, <1>3, BoundAssumption DEF Servers, OutOfTries
    <2>2. t \in Servers /\ SameCount(s, t)
        BY <1>1, <2>1 DEF Servers, SameCount
    <2>3. p \in ServerPkts /\ p.sess = s.session /\ p.type \notin Boards \cup {"UPDATE"}
        BY <1>1 DEF Challenge, ServerPkts, Boards
    <2>4. Retransmit(s, ch) = [srv |-> t, net |-> Enqueue(ch, p)]
        BY <1>3 DEF Retransmit
    <2> HIDE DEF t, p
    <2>5. LinkInOrder(s, Settled(s, e), c, Enqueue(ch, p))
        BY <1>1, <2>3, SendInOrder DEF Ordered
    <2>6. Ordered(t, e, c, Enqueue(ch, p))
        BY <1>1, <2>2, <2>5, QuietOrdered DEF Ordered
    <2> QED BY <2>2, <2>4, <2>6
<1>4. CASE ~s.awaitingAccept /\ s.unackedUpdate
    <2> DEFINE p == s.lastUpdate
    <2>1. /\ p \in ServerPkts /\ p.sess = s.session /\ p.seq = s.updateSeq
          /\ p.real /\ p.result # "ONGOING" => s.session \in Settled(s, e)
        BY <1>4 DEF GoodServer, ServerBuffer, ServerPkts, Ordered, ServerInOrder
    <2>2. LinkInOrder(s, Settled(s, e), c, Enqueue(ch, p))
        BY <1>1, <2>1, SendInOrder DEF Ordered
    <2>3. Retransmit(s, ch) = [srv |-> s, net |-> Enqueue(ch, p)]
        BY <1>4 DEF Retransmit
    <2> QED BY <2>2, <2>3 DEF Ordered, SameCount
<1>5. CASE ~s.awaitingAccept /\ ~s.unackedUpdate
    BY <1>5 DEF Retransmit, SameCount
<1> QED BY <1>2, <1>3, <1>4, <1>5

LEMMA TickTurn ==
    ASSUME MaxSeq <= 255, TypeInv, TurnInv, ServerTick PROVE TurnKept
<1>1. PICK due \in BOOLEAN, held \in BOOLEAN, silent \in BOOLEAN :
        ServerTickWhen(due, held, silent)
    BY DEF ServerTick, TypeInv, TypeOK, Servers
<1> DEFINE r == IF due THEN Retransmit(srv, toCli)
                       ELSE [srv |-> srv, net |-> toCli]
           s == r.srv
<1>2. /\ srv \in Servers /\ eng \in Engines /\ cli \in Clients /\ GoodServer(srv)
      /\ srv.mode = "NETWORKED" /\ srv.session \in Sessions
      /\ toCli \in Seq(ServerPkts) /\ Ordered(srv, eng, cli, toCli)
      /\ PickExact(srv, eng, Settled(srv, eng), chosen)
    BY <1>1 DEF ServerTickWhen, TypeInv, TypeOK, ServerOn, GoodServer, TurnInv
<1>3. /\ s \in Servers /\ r.net \in Seq(ServerPkts) /\ SameCount(srv, s)
      /\ Ordered(s, eng, cli, r.net)
    <2>1. CASE due
        BY <1>2, <2>1, RetransmitType, RetransmitOrdered DEF GoodServer
    <2>2. CASE ~due
        BY <1>2, <2>2 DEF SameCount
    <2> QED BY <2>1, <2>2
<1>4. \/ srv' = ServerExited(s) /\ toCli' = r.net /\ UNCHANGED eng
      \/ /\ eng' = IF eng.result = "ONGOING" THEN Forfeit(eng, 1) ELSE eng
         /\ srv' = [s EXCEPT !.phase = "FINISHED"]
         /\ toCli' = r.net
      \/ ResolveTurn(s, r.net)
      \/ srv' = s /\ toCli' = r.net /\ UNCHANGED eng
    BY <1>1 DEF ServerTickWhen
<1> HIDE DEF r, s
<1>5. /\ Settled(srv, eng) \subseteq Settled(s, eng) /\ s.session = srv.session
      /\ PickExact(s, eng, Settled(s, eng), chosen)
    <2>1. Settled(srv, eng) \subseteq Settled(s, eng) /\ s.session = srv.session
        BY <1>3 DEF Settled, SameCount
    <2> QED BY <1>2, <2>1, PickKept
<1>6. ASSUME NEW f, eng' = f, srv' \in Servers, SameCount(s, srv'), toCli' = r.net,
             eng.result # "ONGOING" => f.result # "ONGOING",
             f.turn = eng.turn, f.pend[1] = eng.pend[1]
      PROVE  TurnKept
    <2>1. Ordered(srv', f, cli, r.net) /\ Ahead(s, eng, srv', f)
        BY <1>2, <1>3, <1>6, QuietOrdered
    <2>2. PickExact(srv', f, Settled(srv', f), chosen)
        BY <1>5, <1>6, <2>1, PickKept DEF Ahead, SameCount
    <2> QED BY <1>5, <1>6, <2>1, <2>2 DEF TurnKept, Ahead
<1>7. CASE srv' = ServerExited(s) /\ toCli' = r.net /\ UNCHANGED eng
    <2>1. srv' \in Servers /\ SameCount(s, srv')
        BY <1>3, <1>7, ServerExitedType DEF ServerExited, Servers, SameCount, GoodServer
    <2> QED BY <1>6, <1>7, <2>1
<1>8. CASE /\ eng' = IF eng.result = "ONGOING" THEN Forfeit(eng, 1) ELSE eng
           /\ srv' = [s EXCEPT !.phase = "FINISHED"]
           /\ toCli' = r.net
    <2>1. srv' \in Servers /\ SameCount(s, srv')
        BY <1>3, <1>8, NamesType DEF Servers, SameCount
    <2>2. /\ eng'.turn = eng.turn /\ eng'.pend[1] = eng.pend[1]
          /\ eng.result # "ONGOING" => eng'.result # "ONGOING"
        BY <1>2, <1>8, EngineTurns DEF Side
    <2> QED BY <1>6, <1>8, <2>1, <2>2
<1>9. CASE ResolveTurn(s, r.net)
    <2>1. s.session \in Sessions /\ s.updateSeq = srv.updateSeq
        BY <1>2, <1>3 DEF SameCount
    <2> QED BY <1>2, <1>3, <1>5, <1>9, <2>1, ResolveOrdered DEF TurnKept
<1>10. CASE srv' = s /\ toCli' = r.net /\ UNCHANGED eng
    BY <1>3, <1>5, <1>10 DEF TurnKept
<1> QED BY <1>4, <1>7, <1>8, <1>9, <1>10

LEMMA KeyTurn ==
    ASSUME MaxSeq <= 255, TypeInv, TurnInv, ServerKey PROVE TurnKept
<1>1. /\ srv \in Servers /\ eng \in Engines /\ cli \in Clients
      /\ toCli \in Seq(ServerPkts) /\ Ordered(srv, eng, cli, toCli)
      /\ PickExact(srv, eng, Settled(srv, eng), chosen)
      /\ srv.mode = "NETWORKED" /\ srv.session \in Sessions
    BY DEF TypeInv, TypeOK, ServerOn, TurnInv,
           ServerKey, ServerKeyFinished, ServerKeyEsc, ServerKeyFlee,
           ServerKeySwitchMenu, ServerKeyPick, ServerEvicted, ServerHasKeys
<1>2. CASE ServerKeyEsc
    <2> DEFINE d == [srv EXCEPT !.phase = "FINISHED"]
               f == Forfeit(eng, 0)
    <2>1. /\ d \in Servers /\ d.session = srv.session /\ d.mode = srv.mode
          /\ d.awaitingAccept = srv.awaitingAccept /\ d.peerReady = srv.peerReady
          /\ d.updateSeq = srv.updateSeq
        BY <1>1, NamesType DEF Servers
    <2>2. /\ eng' = f /\ srv' = SendUpdate(d, f, toCli).srv
          /\ toCli' = SendUpdate(d, f, toCli).net /\ srv.updateSeq < MaxSeq
        BY <1>2 DEF ServerKeyEsc, CanUpdate
    <2>3. f \in Engines /\ f.turn = eng.turn /\ f.pend = eng.pend
          /\ f.result # "ONGOING"
        BY <1>1, ForfeitType, EngineTurns DEF Side
    <2> HIDE DEF d, f
    <2>4. Settled(srv, eng) \subseteq Settled(d, f) /\ (d.awaitingAccept => ~d.peerReady)
        BY <1>1, <2>1, <2>3 DEF Settled, Ordered, ServerInOrder
    <2>5. Ordered(srv', f, cli, toCli') /\ Ahead(srv, eng, srv', f)
        BY <1>1, <2>1, <2>2, <2>3, <2>4, SendUpdateOrdered DEF Ordered
    <2>6. srv'.session = srv.session
        BY <2>1, <2>2, SendUpdateKeeps
    <2>7. PickExact(srv', f, Settled(srv', f), chosen)
        BY <1>1, <2>3, <2>5, <2>6, PickKept DEF Ahead
    <2> QED BY <2>2, <2>5, <2>7 DEF TurnKept, Ahead
<1>3. CASE ~ServerKeyEsc
    <2>1. srv' \in Servers
        BY ServerKeyType DEF TypeInv, TypeOK
    <2>2. SameCount(srv, srv')
        BY <1>1, <1>3 DEF ServerKey, ServerKeyFinished, ServerKeyFlee,
            ServerKeySwitchMenu, ServerKeyPick, ServerEvicted, ServerExited,
            Servers, SameCount
    <2>3. /\ eng'.turn = eng.turn /\ eng'.pend[1] = eng.pend[1]
          /\ eng.result # "ONGOING" => eng'.result # "ONGOING"
        <3>1. \/ eng' = eng \/ eng' = Forfeit(eng, 0)
              \/ \E mv \in Moves : eng' = Submit(eng, 0, mv)
            BY <1>3 DEF ServerKey, ServerKeyFinished, ServerKeyFlee,
                ServerKeySwitchMenu, ServerKeyPick, ServerEvicted
        <3> QED BY <1>1, <3>1, EngineTurns, NothingPending DEF Side
    <2>4. toCli' = toCli \/ toCli' = Enqueue(toCli, ForfeitPkt(srv.session))
        BY <1>3 DEF ServerKey, ServerKeyFinished, ServerKeyFlee,
            ServerKeySwitchMenu, ServerKeyPick, ServerEvicted
    <2>5. /\ ForfeitPkt(srv.session) \in ServerPkts
          /\ ForfeitPkt(srv.session).sess = srv.session
          /\ ForfeitPkt(srv.session).type \notin Boards \cup {"UPDATE"}
        BY <1>1 DEF ForfeitPkt, ServerPkts, Boards
    <2>6. LinkInOrder(srv, Settled(srv, eng), cli, Enqueue(toCli, ForfeitPkt(srv.session)))
        BY <1>1, <2>5, SendInOrder DEF Ordered
    <2>7. Ordered(srv, eng, cli, toCli')
        BY <1>1, <2>4, <2>6 DEF Ordered
    <2> QED BY <1>1, <2>1, <2>2, <2>3, <2>7, QuietTurn
<1> QED BY <1>2, <1>3

-----------------------------------------------------------------------------
(* The client's steps. *)

\* The client d is c with the same boards applied and no staler action.
Steady(c, d) ==
    /\ d.session = c.session /\ d.lastApplied = c.lastApplied
    /\ Stale(d) => Stale(c)
    /\ d.phase = "WAIT_CHALLENGE_OVERLAY"
         => /\ c.phase = "WAIT_CHALLENGE_OVERLAY" /\ d.preAccept = c.preAccept
            /\ d.actionType = c.actionType

LEMMA SteadyInOrder ==
    ASSUME NEW s, NEW D, NEW c, NEW d, NEW ch, Steady(c, d),
           ClientInOrder(s, D, c), LinkInOrder(s, D, c, ch)
    PROVE  ClientInOrder(s, D, d) /\ LinkInOrder(s, D, d, ch)
<1>1. \A seq : NotBefore(c, seq, D) => NotBefore(d, seq, D)
    BY DEF NotBefore, Steady
<1>2. Coming(s, D, c) \subseteq Coming(s, D, d)
    BY <1>1 DEF Coming, Steady
<1>3. LinkInOrder(s, D, d, ch)
    BY <1>2, SeqMonotonic DEF LinkInOrder, Steady
<1> QED BY <1>1, <1>3 DEF ClientInOrder, Steady

\* The client d is c after it looked at the board m: applied it, or found that
\* it hashes differently.
Looked(c, d, m, D) ==
    /\ d.session = c.session /\ d.phase # "WAIT_CHALLENGE_OVERLAY"
    /\ d.lastApplied \in {c.lastApplied, m.seq}
    /\ Stale(d) /\ d.lastApplied = m.seq => m.seq = 0 \/ c.session \in D

LEMMA LookedInOrder ==
    ASSUME NEW s \in Servers, NEW D, NEW c \in Clients, NEW d \in Clients, NEW ch,
           NEW m, m \in Coming(s, D, c), m.sess = c.session, m.type \in Boards,
           Looked(c, d, m, D), ClientInOrder(s, D, c),
           ch \in Seq(Coming(s, D, c)), Chain(ch, Rising), ch \in Seq(Later(m))
    PROVE  ClientInOrder(s, D, d) /\ LinkInOrder(s, D, d, ch)
<1>1. /\ m \in ServerPkts /\ m.seq \in Nat /\ c.lastApplied <= m.seq
      /\ c.lastApplied \in Nat /\ d.lastApplied \in Nat /\ d.lastApplied <= m.seq
    BY CountRange DEF Coming, NotBefore, Looked
<1>2. \A seq \in Nat : m.seq <= seq => NotBefore(d, seq, D)
    BY <1>1 DEF NotBefore, Looked
<1>3. ASSUME NEW p \in Coming(s, D, c), p \in Later(m)
      PROVE  p \in Coming(s, D, d)
    <2>1. p \in ServerPkts /\ Rises(m, p)
        BY <1>1, <1>3, LaterDef DEF Coming
    <2>2. ASSUME p.type \in Boards, p.sess = d.session PROVE NotBefore(d, p.seq, D)
        BY <1>2, <2>1, <2>2, CountRange DEF Rises, Looked
    <2> QED BY <2>1, <2>2 DEF Coming
<1>4. ch \in Seq(Coming(s, D, d))
    <2>1. ch \in Seq(Coming(s, D, c) \cap Later(m))
        BY SeqBoth
    <2>2. Coming(s, D, c) \cap Later(m) \subseteq Coming(s, D, d)
        BY <1>3
    <2> QED BY <2>1, <2>2, SeqMonotonic
<1>5. c.session = s.session => m.seq <= s.updateSeq
    BY DEF Coming
<1>6. ClientInOrder(s, D, d)
    BY <1>2, <1>5, CountRange DEF ClientInOrder, Looked
<1> QED BY <1>4, <1>6 DEF LinkInOrder, Looked

\* clientAuthSendActionV2() stamps the action with the turn the client mirrors.
LEMMA SendActionTurn ==
    ASSUME NEW c \in Clients, c.session \in Sessions, NEW D, NEW h,
           NEW net, net \in Seq(Exact(D, h)), ActExact(c, D, h),
           NEW act \in Moves \cup {Flee, PureAck},
           act \in Moves => c.session \in D \/ <<c.session, c.clientTurn, act>> \in h
    PROVE  LET r == SendActionV2(c, net, act)
           IN  /\ act \in {c.actionType, PureAck} => Steady(c, r.cli)
               /\ r.net \in Seq(Exact(D, h)) /\ ActExact(r.cli, D, h)
               /\ r.cli.session = c.session /\ r.cli.lastApplied = c.lastApplied
               /\ r.cli.phase = c.phase /\ r.cli.preAccept = c.preAccept
               /\ act # PureAck => ~Stale(r.cli)
               /\ act = PureAck => r.cli = c
<1> DEFINE p == ActionV2(c.session, c.clientTurn, act, c.lastApplied)
           r == SendActionV2(c, net, act)
<1>1. p \in ClientPkts
    BY DEF ActionV2, ClientPkts, Clients
<1>2. p.type = "ACTION_V2" /\ p.sess = c.session /\ p.turn = c.clientTurn /\ p.act = act
    BY DEF ActionV2
<1> HIDE DEF p
<1>3. p \in Exact(D, h)
    BY <1>1, <1>2 DEF Exact
<1>4. r.net = Enqueue(net, p) /\ Enqueue(net, p) \in Seq(Exact(D, h))
    BY <1>3, EnqueueType DEF SendActionV2, p
<1>5. CASE act = PureAck
    <2>1. r.cli = c
        BY <1>5 DEF SendActionV2
    <2> QED BY <1>4, <1>5, <2>1 DEF Steady
<1>6. CASE act # PureAck
    <2>1. r.cli = [c EXCEPT !.actionType = act, !.actionTurn = c.clientTurn]
        BY <1>6 DEF SendActionV2
    <2> HIDE DEF r
    <2>2. /\ r.cli.session = c.session /\ r.cli.lastApplied = c.lastApplied
          /\ r.cli.phase = c.phase /\ r.cli.preAccept = c.preAccept
          /\ r.cli.actionType = act /\ r.cli.actionTurn = c.clientTurn
          /\ r.cli.clientTurn = c.clientTurn
        BY <2>1 DEF Clients
    <2>3. ~Stale(r.cli) /\ ActExact(r.cli, D, h)
        BY <2>2 DEF Stale, ActExact
    <2> QED BY <1>4, <1>6, <2>2, <2>3 DEF Steady, r
<1> QED BY <1>5, <1>6

\* clientAuthOnUpdatePkt()
LEMMA ApplyUpdateTurn ==
    ASSUME NEW s, NEW D, NEW h, NEW c, GoodClient(c), c.mode = "NETWORKED",
           c.phase # "WAIT_CHALLENGE_OVERLAY", NEW m \in UpdatePkts,
           m \in Coming(s, D, c), m.sess = c.session, ActExact(c, D, h),
           NEW net, net \in Seq(Exact(D, h)), NEW levelUp
    PROVE  LET r == ApplyUpdate(c, net, m, levelUp)
           IN  /\ Steady(c, r.cli) \/ Looked(c, r.cli, m, D)
               /\ r.net \in Seq(Exact(D, h)) /\ ActExact(r.cli, D, h)
<1> DEFINE r == ApplyUpdate(c, net, m, levelUp)
           g == Shown(c, m)
<1>1. /\ c \in Clients /\ c.session \in Sessions
      /\ c.actionType \in Moves \cup {NoAct, Flee}
      /\ m.type = "UPDATE" /\ m.type \in Boards /\ NotBefore(c, m.seq, D)
    BY DEF GoodClient, ClientOn, Clients, UpdatePkts, Boards, Coming
<1>2. /\ GoodClient(g) /\ g \in Clients /\ g.session = c.session
      /\ g.lastApplied = c.lastApplied /\ g.phase = c.phase
      /\ g.actionType = c.actionType /\ g.actionTurn = c.actionTurn
    BY <1>1, ShownType DEF GoodClient, Shown, Clients
<1> HIDE DEF g
<1>3. CASE m.seq = c.lastApplied /\ c.lastApplied # 0
    <2> DEFINE d   == [c EXCEPT !.awaitingFirst = FALSE]
               act == IF c.actionType # NoAct THEN c.actionType ELSE PureAck
    <2>1. /\ d \in Clients /\ d.session = c.session /\ d.lastApplied = c.lastApplied
          /\ d.phase = c.phase /\ d.actionType = c.actionType
          /\ d.actionTurn = c.actionTurn /\ d.clientTurn = c.clientTurn
        BY <1>1 DEF Clients
    <2>2. act \in Moves \cup {Flee, PureAck} /\ (act = PureAck \/ act = c.actionType)
        BY <1>1
    <2>3. act \in Moves => act = c.actionType
        BY <2>2, ActionTypeAssumption
    <2>4. ASSUME act \in Moves
          PROVE  c.session \in D \/ <<c.session, c.clientTurn, act>> \in h
        <3>1. CASE Stale(c)
            BY <1>1, <1>3, <3>1 DEF NotBefore
        <3>2. CASE ~Stale(c)
            BY <2>3, <2>4, <3>2 DEF Stale, ActExact
        <3> QED BY <3>1, <3>2
    <2>5. r = SendActionV2(d, net, act)
        BY <1>3 DEF ApplyUpdate
    <2>6. ActExact(d, D, h)
        BY <2>1 DEF ActExact
    <2> HIDE DEF d, act, r
    <2>7. /\ Steady(d, r.cli)
          /\ r.net \in Seq(Exact(D, h)) /\ ActExact(r.cli, D, h)
        BY <1>1, <2>1, <2>2, <2>4, <2>5, <2>6, SendActionTurn
    <2>8. Steady(c, r.cli)
        BY <2>1, <2>2, <2>7 DEF Steady, Stale
    <2> QED BY <2>7, <2>8 DEF r
<1>4. CASE ~(m.seq = c.lastApplied /\ c.lastApplied # 0)
           /\ ~SameHash(c, m, levelUp)
    <2> DEFINE d == [g EXCEPT !.needsFullState = TRUE]
    <2>1. /\ d.session = c.session /\ d.lastApplied = c.lastApplied
          /\ d.phase = c.phase /\ d.actionType = c.actionType
          /\ d.actionTurn = c.actionTurn
        BY <1>2 DEF Clients
    <2>2. /\ StateRequest(c.session) \in ClientPkts
          /\ StateRequest(c.session).type # "ACTION_V2"
        BY <1>1 DEF StateRequest, ClientPkts
    <2>3. Enqueue(net, StateRequest(c.session)) \in Seq(Exact(D, h))
        BY <2>2, EnqueueType DEF Exact
    <2>4. r = [cli |-> d, net |-> Enqueue(net, StateRequest(c.session))]
        BY <1>4 DEF ApplyUpdate, g
    <2> HIDE DEF d, r
    <2>5. Looked(c, d, m, D)
        BY <1>4, <2>1 DEF Looked
    <2>6. ActExact(d, D, h)
        BY <2>1 DEF ActExact
    <2> QED BY <2>3, <2>4, <2>5, <2>6 DEF r
<1>5. CASE ~(m.seq = c.lastApplied /\ c.lastApplied # 0)
           /\ SameHash(c, m, levelUp) /\ m.result # "ONGOING"
    <2> DEFINE d == [g EXCEPT !.lastApplied = m.seq, !.phase = "FINISHED"]
    <2>1. m.seq \in Byte
        BY DEF UpdatePkts
    <2>2. /\ d \in Clients /\ d.session = c.session /\ d.lastApplied = m.seq
          /\ d.phase = "FINISHED" /\ d.actionType = c.actionType
          /\ d.actionTurn = c.actionTurn
        BY <1>2, <2>1, NamesType DEF Clients
    <2>3. r = SendActionV2(d, net, PureAck)
        BY <1>5 DEF ApplyUpdate, g
    <2> HIDE DEF d, r
    <2>4. c.session \in D
        BY <1>1, <1>5 DEF SameHash, Coming
    <2>5. Looked(c, d, m, D)
        BY <2>2, <2>4 DEF Looked
    <2>6. ActExact(d, D, h)
        BY <2>2, <2>4 DEF ActExact
    <2>7. PureAck \notin Moves /\ d.session \in Sessions
        BY <1>1, <2>2, ActionTypeAssumption
    <2>10. /\ PureAck \in Moves \cup {Flee, PureAck}
           /\ PureAck \in Moves
                => d.session \in D \/ <<d.session, d.clientTurn, PureAck>> \in h
        BY <2>7
    <2>8. r.net \in Seq(Exact(D, h)) /\ r.cli = d
        BY <2>2, <2>3, <2>6, <2>7, <2>10, SendActionTurn
    <2>9. Looked(c, r.cli, m, D) /\ ActExact(r.cli, D, h)
        BY <2>5, <2>6, <2>8
    <2> QED BY <2>8, <2>9 DEF r
<1>6. CASE ~(m.seq = c.lastApplied /\ c.lastApplied # 0)
           /\ SameHash(c, m, levelUp) /\ m.result = "ONGOING"
    <2> DEFINE d == [g EXCEPT !.lastApplied = m.seq, !.phase = "WAIT_ACTION",
                              !.actionType = NoAct]
    <2>1. /\ d.session = c.session /\ d.lastApplied = m.seq
          /\ d.phase = "WAIT_ACTION" /\ d.actionType = NoAct
        BY <1>2 DEF Clients
    <2>2. r = [cli |-> d, net |-> net]
        BY <1>6 DEF ApplyUpdate, g
    <2> HIDE DEF d, r
    <2>3. Looked(c, d, m, D) /\ ActExact(d, D, h)
        BY <2>1, EngineAssumption DEF Looked, Stale, ActExact
    <2> QED BY <2>2, <2>3 DEF r
<1> QED BY <1>3, <1>4, <1>5, <1>6

LEMMA ExactMonotonic ==
    ASSUME NEW D, NEW F, NEW h, NEW k, D \subseteq F, h \subseteq k
    PROVE  /\ Exact(D, h) \subseteq Exact(F, k)
           /\ \A ch \in Seq(Exact(D, h)) : ch \in Seq(Exact(F, k))
           /\ \A c : ActExact(c, D, h) => ActExact(c, F, k)
           /\ \A s, e : PickExact(s, e, D, h) => PickExact(s, e, F, k)
<1>1. Exact(D, h) \subseteq Exact(F, k)
    BY DEF Exact
<1>2. \A c : ActExact(c, D, h) => ActExact(c, F, k)
    BY DEF ActExact
<1>3. \A s, e : PickExact(s, e, D, h) => PickExact(s, e, F, k)
    BY DEF PickExact
<1> QED BY <1>1, <1>2, <1>3, SeqMonotonic

\* What a step of the client establishes, the server standing still.
Client(D) ==
    /\ ClientInOrder(srv, D, cli') /\ LinkInOrder(srv, D, cli', toCli')
    /\ toSrv' \in Seq(Exact(D, chosen')) /\ ActExact(cli', D, chosen')

LEMMA ClientTurn ==
    ASSUME TurnInv, UNCHANGED <<srv, eng>>, chosen \subseteq chosen',
           Client(Settled(srv, eng))
    PROVE  TurnInv'
<1>1. PickExact(srv, eng, Settled(srv, eng), chosen')
    BY ExactMonotonic DEF TurnInv
<1> QED BY <1>1 DEF TurnInv, Ordered, Client

LEMMA ClientReceiveTurn ==
    ASSUME ~Reorder, TypeInv, TurnInv, ClientReceive PROVE TurnInv'
<1> DEFINE D == Settled(srv, eng)
<1>1. ClientTakes(1) /\ 1 \in DOMAIN toCli
    BY DEF ClientReceive, Deliverable
<1> DEFINE m    == toCli[1]
           rest == RemoveAt(toCli, 1)
<1>2. /\ toCli \in Seq(Coming(srv, D, cli)) /\ Chain(toCli, Rising)
      /\ ClientInOrder(srv, D, cli) /\ toCli \in Seq(ServerPkts)
      /\ toSrv \in Seq(Exact(D, chosen)) /\ ActExact(cli, D, chosen)
    BY ComingType DEF TurnInv, Ordered, LinkInOrder
<1>3. /\ m \in Coming(srv, D, cli) /\ m \in ServerPkts
      /\ rest \in Seq(Coming(srv, D, cli))
    BY <1>1, <1>2, ElementOfSeq, LenProperties, RemoveAtType DEF Coming
<1>4. Chain(rest, Rising) /\ rest \in Seq(Later(m))
    BY <1>1, <1>2, ChainRemove, ChainHead DEF Later
<1>5. LinkInOrder(srv, D, cli, rest)
    <2>1. ASSUME cli.phase = "WAIT_CHALLENGE_OVERLAY", cli.preAccept # NoPkt
          PROVE  /\ cli.preAccept \in Coming(srv, D, cli)
                 /\ rest \in Seq(Later(cli.preAccept))
        BY <1>1, <2>1, RemoveAtType DEF TurnInv, Ordered, LinkInOrder
    <2> QED BY <1>3, <1>4, <2>1 DEF LinkInOrder
<1>6. /\ toCli' = rest /\ UNCHANGED <<srv, eng, chosen>>
      /\ \/ m.type = "CHALLENGE" /\ OnChallenge(m)
         \/ cli.mode # "OFF" /\ m.type = "UPDATE" /\ OnUpdate(m)
         \/ cli.mode # "OFF" /\ m.type = "FULL_STATE" /\ OnFullState(m)
         \/ OnForfeit(m)
         \/ UNCHANGED <<cli, toSrv>>
    BY <1>1 DEF ClientTakes, ServerUnchanged
<1> HIDE DEF m, rest, D
<1>7. /\ cli \in Clients /\ GoodClient(cli) /\ srv \in Servers /\ cli' \in Clients
      /\ (cli.mode # "OFF" => cli.mode = "NETWORKED")
    BY ClientReceiveType DEF TypeInv, TypeOK, GoodClient, Clients, Modes
<1>8. ASSUME Steady(cli, cli'), UNCHANGED toSrv, ActExact(cli', D, chosen)
      PROVE  Client(D)
    BY <1>2, <1>5, <1>6, <1>8, SteadyInOrder DEF Client
<1>9. ASSUME m.sess = cli.session, m.type \in Boards,
             Steady(cli, cli') \/ Looked(cli, cli', m, D),
             toSrv' \in Seq(Exact(D, chosen)), ActExact(cli', D, chosen)
      PROVE  Client(D)
    <2>1. ClientInOrder(srv, D, cli') /\ LinkInOrder(srv, D, cli', rest)
        BY <1>2, <1>3, <1>4, <1>5, <1>7, <1>9, SteadyInOrder, LookedInOrder
    <2> QED BY <1>6, <1>9, <2>1 DEF Client
<1>15. SUFFICES Client(D)
    BY <1>6, ClientTurn DEF D
<1>10. CASE UNCHANGED <<cli, toSrv>>
    BY <1>2, <1>5, <1>6, <1>10 DEF Client
<1>11. CASE m.type = "CHALLENGE" /\ OnChallenge(m)
    <2>1. CASE cli' = [cli EXCEPT !.mode = "NETWORKED",
                  !.phase = "WAIT_CHALLENGE_OVERLAY", !.session = m.sess,
                  !.lastApplied = 0, !.actionType = NoAct,
                  !.needsFullState = FALSE, !.preAccept = NoPkt,
                  !.playerWon = FALSE, !.xpDrops = 0]
        <3>1. /\ cli'.session = m.sess /\ cli'.preAccept = NoPkt
              /\ cli'.lastApplied = 0 /\ cli'.actionType = NoAct
            BY <1>7, <2>1 DEF Clients
        <3>2. \A seq \in Nat : NotBefore(cli', seq, D)
            BY <3>1, EngineAssumption DEF NotBefore, Stale
        <3>3. Coming(srv, D, cli) \subseteq Coming(srv, D, cli')
            BY <3>2, CountRange DEF Coming
        <3>4. rest \in Seq(Coming(srv, D, cli'))
            BY <1>3, <3>3, SeqMonotonic
        <3>5. LinkInOrder(srv, D, cli', rest)
            BY <1>4, <3>1, <3>4 DEF LinkInOrder
        <3>6. ClientInOrder(srv, D, cli')
            BY <1>3, <1>7, <3>1, <3>2, CountRange DEF ClientInOrder, Coming
        <3>7. ActExact(cli', D, chosen)
            BY <3>1, EngineAssumption DEF ActExact
        <3> QED BY <1>2, <1>6, <1>11, <3>5, <3>6, <3>7 DEF Client, OnChallenge
    <2> QED BY <1>10, <1>11, <2>1 DEF OnChallenge
<1>12. CASE cli.mode # "OFF" /\ m.type = "UPDATE" /\ OnUpdate(m)
    <2>1. m \in UpdatePkts
        BY <1>3, <1>12 DEF ServerPkts
    <2>2. CASE /\ cli.phase = "WAIT_CHALLENGE_OVERLAY" /\ UNCHANGED toSrv
               /\ cli' = [cli EXCEPT !.preAccept = m]
        <3>1. /\ cli'.session = cli.session /\ cli'.preAccept = m
              /\ cli'.phase = cli.phase /\ cli'.lastApplied = cli.lastApplied
              /\ cli'.actionType = cli.actionType
              /\ cli'.actionTurn = cli.actionTurn /\ cli'.clientTurn = cli.clientTurn
            BY <1>7, <2>2 DEF Clients
        <3>2. /\ Coming(srv, D, cli') = Coming(srv, D, cli)
              /\ ClientInOrder(srv, D, cli') /\ ActExact(cli', D, chosen)
            BY <1>2, <3>1 DEF Coming, NotBefore, Stale, ClientInOrder, ActExact
        <3>3. LinkInOrder(srv, D, cli', rest)
            BY <1>3, <1>4, <3>1, <3>2 DEF LinkInOrder
        <3> QED BY <1>2, <1>6, <2>2, <3>2, <3>3 DEF Client
    <2>3. CASE /\ cli.phase # "WAIT_CHALLENGE_OVERLAY" /\ m.sess = cli.session
               /\ \E levelUp \in {FALSE, LevelUps} :
                    LET r == ApplyUpdate(cli, toSrv, m, levelUp)
                    IN  cli' = r.cli /\ toSrv' = r.net
        <3>1. /\ Steady(cli, cli') \/ Looked(cli, cli', m, D)
              /\ toSrv' \in Seq(Exact(D, chosen)) /\ ActExact(cli', D, chosen)
            BY <1>2, <1>3, <1>7, <1>12, <2>1, <2>3, ApplyUpdateTurn
        <3> QED BY <1>9, <1>12, <2>3, <3>1 DEF Boards
    <2> QED BY <1>10, <1>12, <2>2, <2>3 DEF OnUpdate
<1>13. CASE cli.mode # "OFF" /\ m.type = "FULL_STATE" /\ OnFullState(m)
    <2>1. CASE m.sess = cli.session
        <3>1. /\ cli'.session = cli.session /\ cli'.lastApplied = m.seq
              /\ cli'.phase = "WAIT_ACTION" /\ cli'.actionType = NoAct
            BY <1>7, <1>13, <2>1 DEF OnFullState, Clients
        <3>2. Looked(cli, cli', m, D) /\ ActExact(cli', D, chosen)
            BY <3>1, EngineAssumption DEF Looked, Stale, ActExact
        <3> QED BY <1>2, <1>9, <1>13, <2>1, <3>2 DEF OnFullState, Boards
    <2> QED BY <1>10, <1>13, <2>1 DEF OnFullState
<1>14. CASE OnForfeit(m)
    <2>1. Steady(cli, cli') /\ ActExact(cli', D, chosen) /\ UNCHANGED toSrv
        BY <1>2, <1>7, <1>14 DEF OnForfeit, Steady, Stale, ActExact, Clients
    <2> QED BY <1>8, <2>1
<1> QED BY <1>6, <1>10, <1>11, <1>12, <1>13, <1>14

LEMMA SetClientPhase ==
    ASSUME NEW c \in Clients, NEW p \in Phases, NEW D, NEW h, ActExact(c, D, h)
    PROVE  LET d == [c EXCEPT !.phase = p]
           IN  /\ ActExact(d, D, h) /\ d.session = c.session
               /\ d.lastApplied = c.lastApplied /\ d.phase = p
               /\ (Stale(d) <=> Stale(c))
               /\ p # "WAIT_CHALLENGE_OVERLAY" => Steady(c, d)
BY DEF ActExact, Stale, Steady, Clients

\* The client's action is repeated only in the turn it was picked for.
LEMMA ClientTickTurn ==
    ASSUME TypeInv, TurnInv, ClientTick PROVE TurnInv'
<1> DEFINE D == Settled(srv, eng)
<1>1. PICK first \in {"none", "accept", "request"},
           due \in BOOLEAN, silent \in BOOLEAN :
        ClientTickWhen(first, due, silent)
    BY DEF ClientTick
<1> DEFINE sent == IF ~cli.awaitingFirst \/ first = "none" THEN toSrv
                   ELSE IF Asks(first)
                   THEN Enqueue(toSrv, StateRequest(cli.session))
                   ELSE Enqueue(toSrv, Accept(cli.session, TRUE))
           resend == due /\ Resends(cli)
           r == IF resend THEN SendActionV2(cli, sent, cli.actionType)
                          ELSE [cli |-> cli, net |-> sent]
<1>2. /\ cli \in Clients /\ GoodClient(cli) /\ cli.session \in Sessions
      /\ cli.actionType \in Moves \cup {NoAct, Flee}
      /\ toSrv \in Seq(Exact(D, chosen)) /\ ActExact(cli, D, chosen)
      /\ ClientInOrder(srv, D, cli) /\ LinkInOrder(srv, D, cli, toCli)
    BY <1>1 DEF ClientTickWhen, TypeInv, TypeOK, GoodClient, ClientOn, Clients,
                TurnInv, Ordered
<1>3. /\ UNCHANGED <<srv, eng, toCli, chosen>>
      /\ cli' = IF silent THEN [r.cli EXCEPT !.phase = "FINISHED"] ELSE r.cli
      /\ toSrv' = r.net
    BY <1>1 DEF ClientTickWhen, HistoryUnchanged, ServerUnchanged
<1> HIDE DEF D
<1>4. sent \in Seq(Exact(D, chosen))
    <2>1. StateRequest(cli.session) \in Exact(D, chosen)
        BY <1>2 DEF StateRequest, ClientPkts, Exact
    <2>2. Accept(cli.session, TRUE) \in Exact(D, chosen)
        BY <1>2 DEF Accept, ClientPkts, Exact
    <2> QED BY <1>2, <2>1, <2>2, EnqueueType
<1> HIDE DEF sent
<1>5. /\ Steady(cli, r.cli) /\ r.cli \in Clients
      /\ r.net \in Seq(Exact(D, chosen)) /\ ActExact(r.cli, D, chosen)
    <2>1. CASE resend
        <3>1. cli.actionType \in Moves \cup {Flee, PureAck}
            BY <1>2, <2>1 DEF Resends
        <3>2. cli.actionType \in Moves
                => cli.session \in D
                     \/ <<cli.session, cli.clientTurn, cli.actionType>> \in chosen
            BY <1>2, <2>1 DEF Resends, ActExact
        <3>3. sent \in Seq(ClientPkts)
            BY <1>4, SeqMonotonic DEF Exact
        <3>4. SendActionV2(cli, sent, cli.actionType).cli \in Clients
            BY <1>2, <3>1, <3>3, SendActionType DEF GoodClient
        <3> QED BY <1>2, <1>4, <2>1, <3>1, <3>2, <3>4, SendActionTurn
    <2>2. CASE ~resend
        BY <1>2, <1>4, <2>2 DEF Steady
    <2> QED BY <2>1, <2>2
<1> HIDE DEF r
<1>6. Steady(cli, cli') /\ ActExact(cli', D, chosen)
    <2>1. CASE silent
        <3>1. /\ cli'.session = r.cli.session /\ cli'.phase = "FINISHED"
              /\ cli'.lastApplied = r.cli.lastApplied
              /\ (Stale(cli') <=> Stale(r.cli)) /\ ActExact(cli', D, chosen)
            BY <1>3, <1>5, <2>1, SetClientPhase, NamesType
        <3> QED BY <1>5, <3>1 DEF Steady
    <2> QED BY <1>3, <1>5, <2>1
<1>7. Client(D)
    BY <1>2, <1>3, <1>5, <1>6, SteadyInOrder DEF Client
<1> QED BY <1>3, <1>7, ClientTurn DEF D

LEMMA ClientYesTurn ==
    ASSUME TypeInv, TurnInv, HistoryInv, ClientKeyYes PROVE TurnInv'
<1> DEFINE D    == Settled(srv, eng)
           m    == cli.preAccept
           sent == Enqueue(toSrv, Accept(cli.session, TRUE))
           c    == [cli EXCEPT !.phase = "WAIT_REMOTE", !.awaitingFirst = TRUE,
                               !.alive = FullTeams, !.preAccept = NoPkt]
<1>1. UNCHANGED <<srv, eng, toCli, chosen>>
    BY DEF ClientKeyYes, ClientKeys, ServerUnchanged
<1>2. /\ cli \in Clients /\ GoodClient(cli) /\ srv \in Servers
      /\ cli.phase = "WAIT_CHALLENGE_OVERLAY" /\ cli.mode = "NETWORKED"
      /\ cli.session \in Sessions /\ toCli \in Seq(Coming(srv, D, cli))
      /\ toSrv \in Seq(Exact(D, chosen)) /\ ActExact(cli, D, chosen)
      /\ ClientInOrder(srv, D, cli) /\ LinkInOrder(srv, D, cli, toCli)
      /\ Chain(toCli, Rising)
    BY DEF ClientKeyYes, TypeInv, TypeOK, GoodClient, ClientOn, TurnInv, Ordered,
           LinkInOrder
<1>3. /\ GoodClient(c) /\ c \in Clients /\ c.mode = "NETWORKED"
      /\ c.phase = "WAIT_REMOTE" /\ c.session = cli.session
      /\ c.lastApplied = cli.lastApplied /\ c.actionType = cli.actionType
      /\ c.actionTurn = cli.actionTurn /\ c.clientTurn = cli.clientTurn
    BY <1>2, TeamsType, NamesType DEF GoodClient, ClientOn, Clients
<1>4. sent \in Seq(Exact(D, chosen))
    <2>1. Accept(cli.session, TRUE) \in Exact(D, chosen)
        BY <1>2 DEF Accept, ClientPkts, Exact
    <2> QED BY <1>2, <2>1, EnqueueType
<1>5. \/ m = NoPkt /\ cli' = c /\ toSrv' = sent
      \/ /\ m # NoPkt
         /\ \E levelUp \in {FALSE, LevelUps} :
              LET r == ApplyUpdate(c, sent, m, levelUp)
              IN  cli' = r.cli /\ toSrv' = r.net
    BY DEF ClientKeyYes
<1>6. m # NoPkt => /\ m \in UpdatePkts /\ m.sess = cli.session
                   /\ m \in Coming(srv, D, cli) /\ toCli \in Seq(Later(m))
    BY <1>2 DEF Clients, HistoryInv, ClientKnown, LinkInOrder
<1> HIDE DEF c, sent, m, D
<1>7. Steady(cli, c) /\ ActExact(c, D, chosen)
    BY <1>2, <1>3 DEF Steady, Stale, ActExact
<1>8. /\ ClientInOrder(srv, D, c) /\ LinkInOrder(srv, D, c, toCli)
      /\ Coming(srv, D, c) = Coming(srv, D, cli)
    BY <1>2, <1>3, <1>7, SteadyInOrder DEF Coming, NotBefore, Stale
<1>9. CASE m = NoPkt
    BY <1>1, <1>4, <1>5, <1>7, <1>8, <1>9, ClientTurn DEF Client, D
<1>10. CASE m # NoPkt
    <2>1. PICK levelUp \in {FALSE, LevelUps} :
            LET r == ApplyUpdate(c, sent, m, levelUp)
            IN  cli' = r.cli /\ toSrv' = r.net
        BY <1>5, <1>10
    <2>2. /\ Steady(c, cli') \/ Looked(c, cli', m, D)
          /\ toSrv' \in Seq(Exact(D, chosen)) /\ ActExact(cli', D, chosen)
        BY <1>3, <1>4, <1>6, <1>7, <1>8, <1>10, <2>1, ApplyUpdateTurn
    <2>3. cli' \in Clients
        BY ClientKeyType DEF ClientKey, TypeInv, TypeOK
    <2>4. m.type \in Boards
        BY <1>6, <1>10 DEF UpdatePkts, Boards
    <2>5. ClientInOrder(srv, D, cli') /\ LinkInOrder(srv, D, cli', toCli)
        BY <1>2, <1>3, <1>6, <1>8, <1>10, <2>2, <2>3, <2>4, SteadyInOrder,
           LookedInOrder
    <2> QED BY <1>1, <2>2, <2>5, ClientTurn DEF Client, D
<1> QED BY <1>9, <1>10

LEMMA ClientKeyTurn ==
    ASSUME TypeInv, TurnInv, HistoryInv, ClientKey, ~ClientKeyYes PROVE TurnInv'
<1> DEFINE D == Settled(srv, eng)
<1>1. /\ UNCHANGED <<srv, eng, toCli>>
    BY DEF ClientKey, ClientKeyFinished, ClientKeyYes, ClientKeyNo,
           ClientKeyFlee, ClientKeySwitchMenu, ClientKeyPick, ClientEvicted,
           ClientKeys, ServerUnchanged
<1>2. /\ cli \in Clients /\ GoodClient(cli) /\ cli.mode = "NETWORKED"
      /\ cli.session \in Sessions
      /\ toSrv \in Seq(Exact(D, chosen)) /\ ActExact(cli, D, chosen)
      /\ ClientInOrder(srv, D, cli) /\ LinkInOrder(srv, D, cli, toCli)
    BY DEF ClientKey, ClientKeyFinished, ClientKeyYes, ClientKeyNo,
           ClientKeyFlee, ClientKeySwitchMenu, ClientKeyPick, ClientEvicted,
           GoodClient, ClientOn, TypeInv, TypeOK, TurnInv, Ordered
<1> HIDE DEF D
<1>3. ASSUME Steady(cli, cli'), chosen \subseteq chosen',
             toSrv' \in Seq(Exact(D, chosen')), ActExact(cli', D, chosen')
      PROVE  TurnInv'
    BY <1>1, <1>2, <1>3, SteadyInOrder, ClientTurn DEF Client, D
<1>4. CASE cli' = ClientExited(cli) /\ UNCHANGED <<toSrv, chosen>>
    <2>1. Steady(cli, cli') /\ ActExact(cli', D, chosen)
        BY <1>2, <1>4, EngineAssumption
           DEF ClientExited, Steady, Stale, ActExact, Clients
    <2> QED BY <1>2, <1>3, <1>4, <2>1
<1>5. CASE ClientKeyNo
    <2>1. Accept(cli.session, FALSE) \in Exact(D, chosen)
        BY <1>2 DEF Accept, ClientPkts, Exact
    <2>2. toSrv' \in Seq(Exact(D, chosen)) /\ UNCHANGED chosen
        BY <1>2, <1>5, <2>1, EnqueueType DEF ClientKeyNo, HistoryUnchanged
    <2>3. Steady(cli, cli') /\ ActExact(cli', D, chosen)
        BY <1>2, <1>5 DEF ClientKeyNo, Steady, Stale, ActExact, Clients
    <2> QED BY <1>3, <2>2, <2>3
<1>6. ASSUME NEW p \in MenuPhases, cli' = [cli EXCEPT !.phase = p],
             UNCHANGED <<toSrv, chosen>>
      PROVE  TurnInv'
    <2>1. Steady(cli, cli') /\ ActExact(cli', D, chosen)
        BY <1>2, <1>6, SetClientPhase DEF MenuPhases, Phases
    <2> QED BY <1>2, <1>3, <1>6, <2>1
<1>7. ASSUME NEW act \in Moves \cup {Flee}, NEW p \in {"FINISHED", "WAIT_REMOTE"},
             LET r == SendActionV2(cli, toSrv, act)
             IN  cli' = [r.cli EXCEPT !.phase = p] /\ toSrv' = r.net,
             chosen \subseteq chosen',
             act \in Moves => <<cli.session, cli.clientTurn, act>> \in chosen'
      PROVE  TurnInv'
    <2> DEFINE r == SendActionV2(cli, toSrv, act)
    <2>1. toSrv \in Seq(Exact(D, chosen')) /\ ActExact(cli, D, chosen')
        BY <1>2, <1>7, ExactMonotonic
    <2>2. act # PureAck
        BY ActionTypeAssumption
    <2>3. /\ r.net \in Seq(Exact(D, chosen')) /\ ActExact(r.cli, D, chosen')
          /\ r.cli.session = cli.session /\ r.cli.lastApplied = cli.lastApplied
          /\ ~Stale(r.cli)
        BY <1>2, <1>7, <2>1, <2>2, SendActionTurn
    <2>4. r.cli \in Clients
        <3>1. toSrv \in Seq(ClientPkts)
            BY DEF TypeInv, TypeOK
        <3> QED BY <1>2, <3>1, SendActionType DEF GoodClient
    <2>5. cli' = [r.cli EXCEPT !.phase = p] /\ toSrv' = r.net
        BY <1>7
    <2> HIDE DEF r
    <2>6. /\ cli'.session = cli.session /\ cli'.lastApplied = cli.lastApplied
          /\ cli'.phase # "WAIT_CHALLENGE_OVERLAY" /\ ~Stale(cli')
          /\ ActExact(cli', D, chosen')
        BY <2>3, <2>4, <2>5, SetClientPhase, NamesType
    <2>7. Steady(cli, cli')
        BY <2>6 DEF Steady
    <2> QED BY <1>3, <1>7, <2>3, <2>5, <2>6, <2>7
<1>8. CASE ClientKeyFlee
    <2>1. Flee \notin Moves
        BY ActionTypeAssumption
    <2> QED BY <1>6, <1>7, <1>8, <2>1 DEF ClientKeyFlee, MenuPhases, HistoryUnchanged
<1>9. CASE ClientKeySwitchMenu
    BY <1>6, <1>9 DEF ClientKeySwitchMenu, MenuPhases, HistoryUnchanged
<1>10. CASE ClientKeyPick
    <2>1. PICK mv \in Moves :
            LET r == SendActionV2(cli, toSrv, mv)
            IN  /\ cli' = [r.cli EXCEPT !.phase = "WAIT_REMOTE"]
                /\ toSrv' = r.net
                /\ chosen' = chosen \cup {<<cli.session, cli.clientTurn, mv>>}
        BY <1>10 DEF ClientKeyPick
    <2>2. /\ chosen \subseteq chosen'
          /\ <<cli.session, cli.clientTurn, mv>> \in chosen'
        BY <2>1
    <2> QED BY <1>7, <2>1, <2>2
<1> QED BY <1>4, <1>5, <1>8, <1>9, <1>10
        DEF ClientKey, ClientKeyFinished, ClientEvicted, HistoryUnchanged

LEMMA LoseTurn ==
    ASSUME TypeInv, TurnInv, Lose PROVE TurnInv'
<1> DEFINE D == Settled(srv, eng)
<1>1. /\ UNCHANGED <<srv, eng, cli, chosen>>
      /\ toCli' \in Losses(toCli) \cup {toCli}
      /\ toSrv' \in Losses(toSrv) \cup {toSrv}
    BY DEF Lose, ServerUnchanged, HistoryUnchanged
<1>2. /\ toCli \in Seq(Coming(srv, D, cli)) /\ LinkInOrder(srv, D, cli, toCli)
      /\ toSrv \in Seq(Exact(D, chosen))
    BY DEF TurnInv, Ordered, LinkInOrder
<1> HIDE DEF D
<1>3. LinkInOrder(srv, D, cli, toCli')
    BY <1>1, <1>2, LossType, ChainLoss DEF LinkInOrder
<1>4. toSrv' \in Seq(Exact(D, chosen))
    BY <1>1, <1>2, LossType
<1> QED BY <1>1, <1>3, <1>4 DEF TurnInv, Ordered, D

-----------------------------------------------------------------------------
LEMMA TurnInit == Init => TurnInv
<1> SUFFICES ASSUME Init PROVE TurnInv
    OBVIOUS
<1>1. /\ toCli \in Seq(Coming(srv, Settled(srv, eng), cli))
      /\ Chain(toCli, Rising)
      /\ toSrv \in Seq(Exact(Settled(srv, eng), chosen))
    BY DEF Init, Chain
<1>2. eng.pend[1] = NoAct
    BY DEF Init, Start, Side
<1> QED BY <1>1, <1>2, EngineAssumption
        DEF Init, TurnInv, Ordered, ServerInOrder, ClientInOrder, LinkInOrder,
            NotBefore, Stale, PickExact, ActExact

LEMMA ServerTurnInv ==
    ASSUME TurnInv, TurnKept, UNCHANGED <<cli, chosen>>,
           toSrv' \in Seq(Exact(Settled(srv, eng), chosen))
    PROVE  TurnInv'
<1>1. /\ toSrv' \in Seq(Exact(Settled(srv', eng'), chosen))
      /\ ActExact(cli, Settled(srv', eng'), chosen)
    BY ExactMonotonic DEF TurnInv, TurnKept
<1> QED BY <1>1 DEF TurnInv, TurnKept

LEMMA TurnStep ==
    ASSUME ~Reorder, MaxSeq <= 255
    PROVE  TypeInv /\ HistoryInv /\ TurnInv /\ [Next]_vars => TurnInv'
<1> SUFFICES ASSUME TypeInv, HistoryInv, TurnInv, [Next]_vars PROVE TurnInv'
    OBVIOUS
<1>1. toSrv \in Seq(Exact(Settled(srv, eng), chosen))
    BY DEF TurnInv
<1>2. CASE SendChallenge
    <2>1. UNCHANGED <<cli, chosen, toSrv>>
        BY <1>2 DEF SendChallenge, HistoryUnchanged
    <2> QED BY <1>1, <1>2, <2>1, ChallengeTurn, ServerTurnInv
<1>3. CASE ServerReceive
    <2>1. UNCHANGED <<cli, chosen>>
        BY <1>3 DEF ServerReceive, ServerTakes, HistoryUnchanged
    <2> QED BY <1>3, <2>1, ReceiveTurn, ServerTurnInv
<1>4. CASE ServerTick
    <2>1. UNCHANGED <<cli, chosen, toSrv>>
        BY <1>4 DEF ServerTick, ServerTickWhen, HistoryUnchanged
    <2> QED BY <1>1, <1>4, <2>1, TickTurn, ServerTurnInv
<1>5. CASE ServerKey
    <2>1. UNCHANGED <<cli, chosen, toSrv>>
        BY <1>5 DEF ServerKey, ServerKeyFinished, ServerKeyEsc, ServerKeyFlee,
           ServerKeySwitchMenu, ServerKeyPick, ServerEvicted, ServerKeys,
           HistoryUnchanged
    <2> QED BY <1>1, <1>5, <2>1, KeyTurn, ServerTurnInv
<1>6. CASE ClientReceive
    BY <1>6, ClientReceiveTurn
<1>7. CASE ClientTick
    BY <1>7, ClientTickTurn
<1>8. CASE ClientKey
    BY <1>8, ClientYesTurn, ClientKeyTurn
<1>9. CASE Lose
    BY <1>9, LoseTurn
<1>10. CASE UNCHANGED vars
    BY <1>10 DEF vars, TurnInv
<1> QED BY <1>2, <1>3, <1>4, <1>5, <1>6, <1>7, <1>8, <1>9, <1>10 DEF Next

LEMMA TurnInvariant ==
    ASSUME ~Reorder, MaxSeq <= 255
    PROVE  Spec => []TurnInv
<1>1. Init => TurnInv
    BY TurnInit
<1>2. TypeInv /\ HistoryInv /\ TurnInv /\ [Next]_vars => TurnInv'
    BY TurnStep
<1> QED BY <1>1, <1>2, TypeInvariant, HistoryInvariant, PTL DEF Spec

-----------------------------------------------------------------------------
(* The turn that is played. *)

\* The engine's pick is the one of the turn it is about to play.
TurnPick == <<srv.session, Wire(eng.turn), eng.pend[1]>> \in chosen

\* What a turn needs: an undecided battle whose client has accepted.
LEMMA PlayedPick ==
    ASSUME TypeInv, TurnInv, srv.mode = "NETWORKED", Ready(eng)
    PROVE  TurnPick
<1>1. eng.result = "ONGOING" /\ eng.pend[1] # NoAct
    BY DEF Ready, Side
<1>2. srv.session \notin Settled(srv, eng)
    BY <1>1, CountRange DEF Settled, TypeInv, TypeOK
<1> QED BY <1>1, <1>2 DEF TurnInv, PickExact, TurnPick

\* Only tick() with both actions submitted moves the turn counter on.
LEMMA OnlyReadyPlays ==
    ASSUME TypeInv, [Next]_vars, eng'.turn = eng.turn + 1
    PROVE  srv.mode = "NETWORKED" /\ Ready(eng)
<1>1. eng \in Engines /\ eng.turn \in Nat /\ eng.turn # eng.turn + 1
    BY DEF TypeInv, TypeOK, Engines
<1>2. \A side \in Side : Forfeit(eng, side).turn = eng.turn
    BY <1>1 DEF Forfeit, Engines
<1>3. ASSUME eng' = eng PROVE FALSE
    BY <1>1, <1>3
<1>4. ASSUME NEW side \in Side, eng' = Forfeit(eng, side) PROVE FALSE
    BY <1>1, <1>2, <1>4
<1>5. ASSUME NEW side \in Side, NEW mv, eng' = Submit(eng, side, mv) PROVE FALSE
    BY <1>1, <1>5 DEF Submit, Engines
<1>6. ASSUME NEW teams, eng' = Start(teams) PROVE FALSE
    BY <1>1, <1>6 DEF Start
<1>7. 0 \in Side /\ 1 \in Side
    BY DEF Side
<1>8. CASE ServerTick
    <2>1. PICK due \in BOOLEAN, held \in BOOLEAN, silent \in BOOLEAN :
            ServerTickWhen(due, held, silent)
        BY <1>8 DEF ServerTick, TypeInv, TypeOK, Servers
    <2>2. srv.mode = "NETWORKED"
        BY <2>1 DEF ServerTickWhen
    <2>3. eng' \in {eng, Forfeit(eng, 1)} \cup ExecuteTurn(eng)
        BY <2>1 DEF ServerTickWhen, ResolveTurn
    <2>4. eng' \in ExecuteTurn(eng)
        BY <1>3, <1>4, <1>7, <2>3
    <2> QED BY <1>3, <2>2, <2>4 DEF ExecuteTurn
<1>9. CASE ServerReceive
    <2>1. PICK i \in Deliverable(toSrv) : ServerTakes(i)
        BY <1>9 DEF ServerReceive
    <2> QED BY <1>3, <1>4, <1>5, <1>6, <1>7, <2>1
            DEF ServerTakes, OnAccept, OnActionV2, OnStateRequest
<1>10. CASE SendChallenge
    BY <1>6, <1>10 DEF SendChallenge
<1>11. CASE ServerKey
    BY <1>3, <1>4, <1>5, <1>7, <1>11
       DEF ServerKey, ServerKeyFinished, ServerKeyEsc, ServerKeyFlee,
           ServerKeySwitchMenu, ServerKeyPick, ServerEvicted, ServerKeys
<1>12. CASE ClientReceive \/ ClientTick \/ ClientKey \/ Lose \/ UNCHANGED vars
    BY <1>3, <1>12
       DEF ClientReceive, ClientTakes, ClientTick, ClientTickWhen, ClientKey,
           ClientKeyFinished, ClientKeyYes, ClientKeyNo, ClientKeyFlee,
           ClientKeySwitchMenu, ClientKeyPick, ClientEvicted, ClientKeys,
           Lose, ServerUnchanged, vars
<1> QED BY <1>8, <1>9, <1>10, <1>11, <1>12 DEF Next

\* Every turn the engine plays runs the move the client's user picked for that
\* turn (the turn check of serverAuthOnActionV2Pkt(), the clientActionTurn_
\* guard of clientAuthRetransmit() and the DUPLICATE branch of
\* clientAuthOnUpdatePkt(), which re-sends without that guard).
THEOREM PickedTurnsPlayed ==
    ASSUME ~Reorder, MaxSeq <= 255
    PROVE  Spec => TurnsPlayPickedMoves
<1>1. TypeInv /\ TurnInv /\ [Next]_vars
        => (eng'.turn = eng.turn + 1 => TurnPick)
    BY OnlyReadyPlays, PlayedPick
<1>2. (eng'.turn = eng.turn + 1 => TurnPick)
        => [eng'.turn = eng.turn + 1
              => <<srv.session, Wire(eng.turn), eng.pend[1]>> \in chosen]_vars
    BY DEF TurnPick
<1> QED BY <1>1, <1>2, TypeInvariant, TurnInvariant, PTL
        DEF Spec, TurnsPlayPickedMoves

\* The two readings of a battle differ only in the pick a turn needs.
LEMMA StrictStep ==
    ASSUME AnyTurn!LBNext, AnyTurn!PlayTurn => ThisTurn!HasPick
    PROVE  ThisTurn!LBNext
<1>1. CASE AnyTurn!Offer
    <2>1. ThisTurn!Offer
        BY <1>1 DEF AnyTurn!Offer, ThisTurn!Offer, AnyTurn!Board, ThisTurn!Board,
                    AnyTurn!Start, ThisTurn!Start, AnyTurn!FullTeams,
                    ThisTurn!FullTeams, AnyTurn!Side, ThisTurn!Side
    <2> QED BY <2>1 DEF ThisTurn!LBNext
<1>2. CASE AnyTurn!AcceptOffer
    <2>1. ThisTurn!AcceptOffer
        BY <1>2 DEF AnyTurn!AcceptOffer, ThisTurn!AcceptOffer, AnyTurn!Board,
                    ThisTurn!Board, AnyTurn!Start, ThisTurn!Start,
                    AnyTurn!FullTeams, ThisTurn!FullTeams, AnyTurn!Side,
                    ThisTurn!Side
    <2> QED BY <2>1 DEF ThisTurn!LBNext
<1>3. CASE AnyTurn!GiveUpOffer
    <2>1. ThisTurn!GiveUpOffer
        BY <1>3 DEF AnyTurn!GiveUpOffer, ThisTurn!GiveUpOffer
    <2> QED BY <2>1 DEF ThisTurn!LBNext
<1>4. CASE AnyTurn!Pick
    <2>1. ThisTurn!Pick
        BY <1>4 DEF AnyTurn!Pick, ThisTurn!Pick
    <2> QED BY <2>1 DEF ThisTurn!LBNext
<1>5. CASE AnyTurn!PlayTurn
    <2>1. ThisTurn!HasPick
        BY <1>5
    <2>2. /\ AnyTurn!Survivors(eng.alive) = ThisTurn!Survivors(eng.alive)
          /\ AnyTurn!ResultOf(eng'.alive) = ThisTurn!ResultOf(eng'.alive)
        BY DEF AnyTurn!Survivors, ThisTurn!Survivors, AnyTurn!ResultOf,
               ThisTurn!ResultOf, AnyTurn!Side, ThisTurn!Side
    <2>3. ThisTurn!PlayTurn
        BY <1>5, <2>1, <2>2 DEF AnyTurn!PlayTurn, ThisTurn!PlayTurn
    <2> QED BY <2>3 DEF ThisTurn!LBNext
<1>6. CASE \E side \in AnyTurn!Side : AnyTurn!FleeFrom(side)
    <2>1. PICK side \in AnyTurn!Side : AnyTurn!FleeFrom(side)
        BY <1>6
    <2>2. ThisTurn!FleeFrom(side) /\ side \in ThisTurn!Side
        BY <2>1 DEF AnyTurn!FleeFrom, ThisTurn!FleeFrom, AnyTurn!Side, ThisTurn!Side
    <2> QED BY <2>2 DEF ThisTurn!LBNext
<1>7. CASE AnyTurn!Leave
    <2>1. ThisTurn!Leave
        BY <1>7 DEF AnyTurn!Leave, ThisTurn!Leave
    <2> QED BY <2>1 DEF ThisTurn!LBNext
<1> QED BY <1>1, <1>2, <1>3, <1>4, <1>5, <1>6, <1>7 DEF AnyTurn!LBNext

LEMMA StrictPick ==
    ASSUME TypeInv, TurnInv, [Next]_vars, AnyTurn!PlayTurn
    PROVE  ThisTurn!HasPick
<1>1. eng \in Engines /\ eng'.turn = eng.turn + 1
    BY DEF AnyTurn!PlayTurn, TypeInv, TypeOK
<1>2. Ready(eng) /\ TurnPick
    BY <1>1, OnlyReadyPlays, PlayedPick
<1>3. eng.pend[1] \in Moves /\ eng.turn \in Nat
    BY <1>1, <1>2 DEF Ready, Engines, Side
<1>4. Wire(eng.turn) = eng.turn % 256 /\ Wire(eng.turn) \in 0 .. 255
    BY <1>3 DEF Wire
<1> QED BY <1>2, <1>3, <1>4 DEF TurnPick, ThisTurn!HasPick

\* On a direct link the live battle is a LiveBattle whose turns play the move
\* picked for that very turn.
THEOREM StrictBattleImplemented ==
    ASSUME TerminalHeld, ~Reorder, MaxSeq <= 255
    PROVE  Spec => ImplementsStrictBattle
<1>1. Spec => [](TypeInv /\ HistoryInv /\ TurnInv)
    BY TypeInvariant, HistoryInvariant, TurnInvariant, PTL
<1>2. Init => StageInv /\ ThisTurn!LBInit
    BY RefinesInit DEF AnyTurn!LBInit, ThisTurn!LBInit, AnyTurn!Side, ThisTurn!Side
<1>3. TypeInv /\ HistoryInv /\ TurnInv /\ StageInv /\ [Next]_vars
        => StageInv' /\ [ThisTurn!LBNext]_(ThisTurn!lbVars)
    <2> SUFFICES ASSUME TypeInv, HistoryInv, TurnInv, StageInv, [Next]_vars
                 PROVE  StageInv' /\ [ThisTurn!LBNext]_(ThisTurn!lbVars)
        OBVIOUS
    <2>1. StageInv' /\ Refines
        BY RefinesStep DEF AllInv
    <2>2. CASE AnyTurn!LBNext
        BY <2>1, <2>2, StrictStep, StrictPick
    <2>3. CASE UNCHANGED AnyTurn!lbVars
        BY <2>1, <2>3 DEF AnyTurn!lbVars, ThisTurn!lbVars
    <2> QED BY <2>1, <2>2, <2>3 DEF Refines
<1> QED BY <1>1, <1>2, <1>3, PTL DEF Spec, ImplementsStrictBattle, ThisTurn!LBSpec

-----------------------------------------------------------------------------
(* In step.  A client whose acknowledgement stops the server's UPDATEs is  *)
(* at the server's turn, although a FULL_STATE acknowledges a board without *)
(* naming its turn.  On a direct link the client is never more than the    *)
(* turn just played behind, it asks for a board only once it has seen the  *)
(* UPDATE of that turn and before it acts in it, and so a FULL_STATE shows *)
(* the turn the client is in.  A challenge repeated after the client has   *)
(* left cannot bring it back into a battle in which it has done something: *)
(* the challenges of a battle precede its boards.                          *)

Here(s, c) == c.mode = "NETWORKED" /\ c.session = s.session
Prompted(c) == c.phase = "WAIT_CHALLENGE_OVERLAY"
Open(s) == s.mode = "NETWORKED" /\ s.peerReady /\ s.phase # "FINISHED"

\* Packets that are not of the kind named, as far as battle x is concerned.
Hush(x) ==
    {p \in ClientPkts : p.type \in {"ACTION_V2", "STATE_REQUEST"} => p.sess # x}
NoAsk(x) == {p \in ClientPkts : p.type = "STATE_REQUEST" => p.sess # x}
NoOffer(x) == {p \in ServerPkts : p.type = "CHALLENGE" => p.sess # x}
NoAnswer(x) == {p \in ServerPkts : p.type = "FULL_STATE" => p.sess # x}
NoBoard(x) == {p \in ServerPkts : p.type \in Boards => p.sess # x}

\* The challenges of a battle precede its boards.
OfferFirst ==
    {r \in ServerPkts \X ServerPkts :
        r[1].type \in Boards /\ r[2].type = "CHALLENGE" => r[1].sess # r[2].sess}

\* The client has done nothing in its battle, or nothing of it has arrived.
Untouched(c) ==
    /\ c.clientTurn = 0 /\ c.lastApplied = 0 /\ c.actionType = NoAct
    /\ c.preAccept = NoPkt
    /\ c.phase \in {"WAIT_CHALLENGE_OVERLAY", "WAIT_REMOTE", "FINISHED"}
    /\ c.phase = "WAIT_REMOTE" => c.awaitingFirst
Unheard(s, e, tc, ts) ==
    /\ e.turn = 0 /\ e.pend[1] = NoAct
    /\ s.mode = "NETWORKED" /\ s.updateSeq # 0 => s.unackedUpdate
    /\ ts \in Seq(Hush(s.session)) /\ tc \in Seq(NoAnswer(s.session))

\* A server without an ACCEPT has built no board.
Idle(s, tc) ==
    ~s.peerReady =>
        /\ s.updateSeq = 0 /\ ~s.unackedUpdate /\ ~s.pendingRemoteAction
        /\ s.mode = "NETWORKED" => s.awaitingAccept \/ s.phase = "FINISHED"
        /\ tc \in Seq(NoBoard(s.session))

\* The client may still be challenged to the server's battle.
NotYet(s, tc) == ~s.peerReady \/ tc \notin Seq(NoOffer(s.session))

Fresh(s, e, c, tc, ts) ==
    /\ Chain(tc, OfferFirst) /\ Idle(s, tc)
    /\ NotYet(s, tc) \/ (Here(s, c) /\ Prompted(c)) => Unheard(s, e, tc, ts)
    /\ NotYet(s, tc) /\ Here(s, c) => Untouched(c)
    /\ c.mode = "OFF" \/ Prompted(c) => c.clientTurn = 0
    /\ c.preAccept # NoPkt => c.preAccept.sess = c.session

\* An acknowledgement names a board that the client has applied.
AckedBy(x, last) ==
    {p \in ClientPkts : p.type = "ACTION_V2" /\ p.sess = x => p.acked <= last}
Echoed(s, c, ts) ==
    Here(s, c) =>
        /\ s.mode = "NETWORKED" /\ ~s.unackedUpdate /\ s.updateSeq # 0
               => c.lastApplied = s.updateSeq
        /\ ts \in Seq(AckedBy(s.session, c.lastApplied))

\* The boards of battle x number its turns from 1: the last one shows the
\* engine e, the one before it the mons as they stood a turn ago.
Shows(x, e, before) ==
    {p \in ServerPkts :
        p.type \in Boards /\ p.sess = x =>
            /\ p.seq = e.turn + 1 => p.alive = e.alive
            /\ p.seq = e.turn => p.alive = before
            /\ p.type = "UPDATE" => p.real /\ p.seq = p.turn + 1}

\* What a client in turn t of battle x has sent, and what is sent to it.
UpTo(x, t) ==
    {p \in ClientPkts : p.type = "ACTION_V2" /\ p.sess = x => p.turn <= t}
From(x, t) ==
    {p \in ServerPkts :
        p.type \in Boards /\ p.sess = x =>
            p.seq >= t + 1 /\ (p.type = "FULL_STATE" => p.seq = t + 1)}
\* It asks for no board after it has acted in the server's turn t.
AsksFirst(x, t) ==
    {r \in ClientPkts \X ClientPkts :
        /\ r[1].type = "ACTION_V2" /\ r[1].sess = x /\ r[1].act \in Moves
        /\ r[2].type = "STATE_REQUEST" /\ r[2].sess = x
        => r[1].turn < t}

WithServer(s, e, c, tc, ts, before) ==
    /\ Prompted(c) /\ c.preAccept # NoPkt
          => c.preAccept \in Shows(s.session, e, before)
    /\ c.clientTurn <= e.turn /\ e.turn <= c.clientTurn + 1
    /\ c.lastApplied <= c.clientTurn + 1
    /\ e.pend[1] # NoAct => c.clientTurn = e.turn
    /\ e.pend[1] # NoAct \/ c.clientTurn # e.turn => ts \in Seq(NoAsk(s.session))
    /\ ts \in Seq(UpTo(s.session, c.clientTurn))
    /\ Chain(ts, AsksFirst(s.session, e.turn))
    /\ tc \in Seq(From(s.session, c.clientTurn))
    /\ c.alive[0] <= IF c.clientTurn = e.turn THEN e.alive[0] ELSE before[0]

Level(s, e, c, tc, ts, before) ==
    Open(s) =>
        /\ s.updateSeq = e.turn + 1
        /\ s.phase = "WAIT_REMOTE" => e.pend[0] # NoAct
        /\ s.pendingRemoteAction => e.pend[1] # NoAct
        /\ s.unackedUpdate => s.lastUpdate \in Shows(s.session, e, before)
        /\ e.turn = 0 => e.alive[0] = TeamSize
        /\ tc \in Seq(Shows(s.session, e, before))
        /\ Here(s, c) => WithServer(s, e, c, tc, ts, before)

Paced(s, e, c, tc, ts, before) ==
    Fresh(s, e, c, tc, ts) /\ Echoed(s, c, ts) /\ Level(s, e, c, tc, ts, before)
PaceInv == \E before \in Alive : Paced(srv, eng, cli, toCli, toSrv, before)

-----------------------------------------------------------------------------
\* The channel d is ch with packets taken out.
Thinned(ch, d) ==
    /\ \A S : ch \in Seq(S) => d \in Seq(S)
    /\ \A R : Chain(ch, R) => Chain(d, R)

LEMMA ThinnedBy ==
    ASSUME NEW S, NEW ch \in Seq(S)
    PROVE  /\ Thinned(ch, ch)
           /\ \A i \in DOMAIN ch : Thinned(ch, RemoveAt(ch, i))
           /\ \A d \in DropPendingSends(ch) \cup Losses(ch) : Thinned(ch, d)
<1>1. Thinned(ch, ch)
    BY DEF Thinned
<1>2. ASSUME NEW i \in DOMAIN ch PROVE Thinned(ch, RemoveAt(ch, i))
    <2>1. \A T : ch \in Seq(T) => RemoveAt(ch, i) \in Seq(T)
        BY RemoveAtType
    <2>2. \A R : Chain(ch, R) => Chain(RemoveAt(ch, i), R)
        BY ChainRemove
    <2> QED BY <2>1, <2>2 DEF Thinned
<1>3. ASSUME NEW d \in DropPendingSends(ch) PROVE Thinned(ch, d)
    <2>1. \A T : ch \in Seq(T) => d \in Seq(T)
        BY DropType
    <2>2. \A R : Chain(ch, R) => Chain(d, R)
        BY ChainDrop
    <2> QED BY <2>1, <2>2 DEF Thinned
<1>4. \A d \in Losses(ch) : Thinned(ch, d)
    BY <1>2 DEF Losses
<1> QED BY <1>1, <1>2, <1>3, <1>4

LEMMA ThinnedPaced ==
    ASSUME NEW s, NEW e, NEW c, NEW tc, NEW ts, NEW b, Paced(s, e, c, tc, ts, b),
           NEW td, NEW tu, Thinned(tc, td), Thinned(ts, tu)
    PROVE  Paced(s, e, c, td, tu, b)
<1>1. /\ \A S : tc \in Seq(S) => td \in Seq(S)
      /\ \A S : ts \in Seq(S) => tu \in Seq(S)
      /\ \A R : Chain(tc, R) => Chain(td, R)
      /\ \A R : Chain(ts, R) => Chain(tu, R)
    BY DEF Thinned
<1>2. Fresh(s, e, c, td, tu)
    <2>1. NotYet(s, td) => NotYet(s, tc)
        BY <1>1 DEF NotYet
    <2>2. Idle(s, td)
        BY <1>1 DEF Paced, Fresh, Idle
    <2>3. Unheard(s, e, tc, ts) => Unheard(s, e, td, tu)
        BY <1>1 DEF Unheard
    <2> QED BY <1>1, <2>1, <2>2, <2>3 DEF Paced, Fresh
<1>3. Echoed(s, c, tu)
    BY <1>1 DEF Paced, Echoed
<1>4. Level(s, e, c, td, tu, b)
    <2>1. WithServer(s, e, c, tc, ts, b) => WithServer(s, e, c, td, tu, b)
        BY <1>1 DEF WithServer
    <2> QED BY <1>1, <2>1 DEF Paced, Level
<1> QED BY <1>2, <1>3, <1>4 DEF Paced

-----------------------------------------------------------------------------
(* The server, the client standing still. *)

\* A step that builds no board and plays no turn.
LEMMA PacedQuiet ==
    ASSUME NEW s, NEW e, NEW c, NEW tc, NEW ts, NEW b, Paced(s, e, c, tc, ts, b),
           NEW t, NEW f, SameCount(s, t),
           t.mode = "NETWORKED" => (s.unackedUpdate => t.unackedUpdate),
           t.pendingRemoteAction => s.pendingRemoteAction,
           t.mode = "NETWORKED" /\ ~t.peerReady
               => t.awaitingAccept \/ t.phase = "FINISHED",
           Open(t) => Open(s),
           Open(t) /\ t.phase = "WAIT_REMOTE" => f.pend[0] # NoAct,
           f.turn = e.turn, f.alive = e.alive, f.pend[1] = e.pend[1]
    PROVE  Paced(t, f, c, tc, ts, b)
<1>1. /\ t.session = s.session /\ t.peerReady = s.peerReady
      /\ t.updateSeq = s.updateSeq /\ (t.mode = "NETWORKED" => s.mode = "NETWORKED")
      /\ t.unackedUpdate => s.unackedUpdate /\ t.lastUpdate = s.lastUpdate
    BY DEF SameCount
<1>2. Here(t, c) = Here(s, c) /\ NotYet(t, tc) = NotYet(s, tc)
    BY <1>1 DEF Here, NotYet
<1>3. Fresh(t, f, c, tc, ts)
    <2>1. Idle(t, tc)
        BY <1>1 DEF Paced, Fresh, Idle
    <2>2. Unheard(s, e, tc, ts) => Unheard(t, f, tc, ts)
        BY <1>1 DEF Unheard
    <2> QED BY <1>2, <2>1, <2>2 DEF Paced, Fresh
<1>4. Echoed(t, c, ts)
    BY <1>1, <1>2 DEF Paced, Echoed
<1>5. Level(t, f, c, tc, ts, b)
    <2> SUFFICES ASSUME Open(t) PROVE Level(t, f, c, tc, ts, b)
        BY DEF Level
    <2>1. Open(s)
        OBVIOUS
    <2>2. Shows(t.session, f, b) = Shows(s.session, e, b)
        BY <1>1 DEF Shows
    <2>3. WithServer(s, e, c, tc, ts, b) => WithServer(t, f, c, tc, ts, b)
        BY <1>1, <2>2 DEF WithServer
    <2> QED BY <1>1, <1>2, <2>1, <2>2, <2>3 DEF Paced, Level
<1> QED BY <1>3, <1>4, <1>5 DEF Paced

\* A packet the server may send as it stands.
Fitting(s, e, c, tc, b, m) ==
    /\ m \in ServerPkts /\ m.sess = s.session
    /\ m.type = "CHALLENGE" => ~s.peerReady
    /\ m.type \in Boards =>
          /\ s.peerReady
          /\ Open(s) => /\ m \in Shows(s.session, e, b)
                        /\ Here(s, c) => m \in From(s.session, c.clientTurn)
    /\ m.type = "FULL_STATE" =>
          tc \in Seq(NoOffer(s.session)) /\ ~(Here(s, c) /\ Prompted(c))

LEMMA PacedSend ==
    ASSUME NEW s, NEW e, NEW c, NEW tc \in Seq(ServerPkts), NEW ts, NEW b,
           Paced(s, e, c, tc, ts, b), NEW m, Fitting(s, e, c, tc, b, m)
    PROVE  Paced(s, e, c, Enqueue(tc, m), ts, b)
<1> DEFINE td == Enqueue(tc, m)
           x  == s.session
<1>1. m \in ServerPkts /\ m.sess = x
    BY DEF Fitting
<1>2. \A S : tc \in Seq(S) /\ m \in S => td \in Seq(S)
    BY EnqueueType
<1>3. Chain(td, OfferFirst)
    <2>1. CASE m.type = "CHALLENGE"
        <3>1. tc \in Seq(NoBoard(x))
            BY <2>1 DEF Fitting, Paced, Fresh, Idle
        <3>2. NoBoard(x) \subseteq {q \in ServerPkts : <<q, m>> \in OfferFirst}
            BY <1>1 DEF NoBoard, OfferFirst
        <3>3. tc \in Seq({q \in ServerPkts : <<q, m>> \in OfferFirst})
            BY <3>1, <3>2, SeqMonotonic
        <3> QED BY <3>3, ChainEnqueue DEF Paced, Fresh
    <2>2. CASE m.type # "CHALLENGE"
        <3>1. ServerPkts \subseteq {q \in ServerPkts : <<q, m>> \in OfferFirst}
            BY <1>1, <2>2 DEF OfferFirst
        <3>2. tc \in Seq({q \in ServerPkts : <<q, m>> \in OfferFirst})
            BY <3>1, SeqMonotonic
        <3> QED BY <3>2, ChainEnqueue DEF Paced, Fresh
    <2> QED BY <2>1, <2>2
<1>4. Idle(s, td)
    <2>1. ~s.peerReady => m \in NoBoard(x)
        BY <1>1 DEF Fitting, NoBoard
    <2> QED BY <1>2, <2>1 DEF Paced, Fresh, Idle
<1>5. NotYet(s, td) => NotYet(s, tc)
    <2>1. s.peerReady => m \in NoOffer(x)
        BY <1>1 DEF Fitting, NoOffer
    <2> QED BY <1>2, <2>1 DEF NotYet
<1>6. NotYet(s, td) \/ (Here(s, c) /\ Prompted(c)) => Unheard(s, e, td, ts)
    <2>1. CASE m.type = "FULL_STATE"
        <3>1. s.peerReady /\ tc \in Seq(NoOffer(x)) /\ ~(Here(s, c) /\ Prompted(c))
            BY <2>1 DEF Fitting, Boards
        <3> QED BY <1>5, <3>1 DEF NotYet
    <2>2. CASE m.type # "FULL_STATE"
        <3>1. m \in NoAnswer(x)
            BY <1>1, <2>2 DEF NoAnswer
        <3> QED BY <1>2, <1>5, <3>1 DEF Paced, Fresh, Unheard
    <2> QED BY <2>1, <2>2
<1>7. Level(s, e, c, td, ts, b)
    <2> SUFFICES ASSUME Open(s) PROVE Level(s, e, c, td, ts, b)
        BY DEF Level
    <2>1. m \in Shows(x, e, b) /\ (Here(s, c) => m \in From(x, c.clientTurn))
        BY <1>1 DEF Fitting, Shows, From
    <2>2. td \in Seq(Shows(x, e, b))
        BY <1>2, <2>1 DEF Paced, Level
    <2>3. ASSUME Here(s, c) PROVE WithServer(s, e, c, td, ts, b)
        BY <1>2, <2>1, <2>3 DEF Paced, Level, WithServer
    <2> QED BY <2>2, <2>3 DEF Paced, Level
<1> HIDE DEF td
<1>8. Paced(s, e, c, td, ts, b)
    BY <1>3, <1>4, <1>5, <1>6, <1>7 DEF Paced, Fresh
<1> QED BY <1>8 DEF td

\* The board serverAuthSendUpdate() builds.
LEMMA Built ==
    ASSUME NEW d \in Servers, d.session \in Sessions, NEW f \in Engines,
           NEW tc \in Seq(ServerPkts), MaxSeq <= 255, d.updateSeq < MaxSeq
    PROVE  LET t   == SendUpdate(d, f, tc).srv
               upd == t.lastUpdate
           IN  /\ t \in Servers /\ upd \in UpdatePkts /\ upd \in ServerPkts
               /\ t.session = d.session /\ t.mode = d.mode /\ t.phase = d.phase
               /\ t.peerReady = d.peerReady /\ t.awaitingAccept = d.awaitingAccept
               /\ t.pendingRemoteAction = d.pendingRemoteAction
               /\ t.unackedUpdate /\ t.updateSeq = d.updateSeq + 1
               /\ d.updateSeq \in Nat
               /\ upd = Update(d.session, t.updateSeq, f, d.peerReady)
               /\ upd.type = "UPDATE" /\ upd.sess = d.session
               /\ upd.seq = t.updateSeq /\ upd.turn = Wire(f.turn)
               /\ upd.alive = f.alive /\ upd.real = d.peerReady
               /\ upd.result = f.result
               /\ SendUpdate(d, f, tc).net = Enqueue(tc, upd)
<1> DEFINE t   == SendUpdate(d, f, tc).srv
           upd == t.lastUpdate
<1>1. GoodServer(t)
    BY SendUpdateType
<1>2. /\ t.session = d.session /\ t.mode = d.mode /\ t.peerReady = d.peerReady
      /\ t.awaitingAccept = d.awaitingAccept /\ t.unackedUpdate
      /\ t.phase = d.phase /\ t.pendingRemoteAction = d.pendingRemoteAction
      /\ t.updateSeq = Wire(d.updateSeq + 1)
      /\ upd = Update(d.session, Wire(d.updateSeq + 1), f, d.peerReady)
      /\ SendUpdate(d, f, tc).net = Enqueue(tc, upd)
    BY DEF SendUpdate, Servers
<1> HIDE DEF t
<1>3. d.updateSeq \in Nat /\ Wire(d.updateSeq + 1) = d.updateSeq + 1
    <2>1. d.updateSeq \in Nat /\ d.updateSeq + 1 <= 255
        BY CountRange, BoundAssumption
    <2>2. \A n \in Nat : n <= 255 => n % 256 = n
        OBVIOUS
    <2>3. d.updateSeq + 1 \in Nat
        BY <2>1
    <2> QED BY <2>1, <2>2, <2>3 DEF Wire
<1>4. upd \in UpdatePkts /\ upd \in ServerPkts /\ t \in Servers
    BY <1>1, <1>2 DEF GoodServer, ServerBuffer, ServerPkts
<1>5. /\ upd.type = "UPDATE" /\ upd.sess = d.session
      /\ upd.seq = t.updateSeq /\ upd.turn = Wire(f.turn)
      /\ upd.alive = f.alive /\ upd.real = d.peerReady
      /\ upd.result = f.result
    BY <1>2 DEF Update
<1> QED BY <1>2, <1>3, <1>4, <1>5 DEF t

LEMMA PacketRange ==
    /\ \A n \in Byte : n \in Nat /\ n <= 255
    /\ \A p \in ClientPkts :
          p.type = "ACTION_V2" => /\ p.turn \in Byte /\ p.acked \in Byte
                                  /\ p.turn \in Nat /\ p.acked \in Nat
<1>1. \A n \in Byte : n \in Nat /\ n <= 255
    BY DEF Byte
<1>2. \A p \in ClientPkts :
        p.type = "ACTION_V2" => p.turn \in Byte /\ p.acked \in Byte
    BY DEF ClientPkts
<1> QED BY <1>1, <1>2

LEMMA ChainWider ==
    ASSUME NEW ch, NEW R, NEW Q, Chain(ch, R), R \subseteq Q
    PROVE  Chain(ch, Q)
BY DEF Chain

LEMMA ChainOver ==
    ASSUME NEW S, NEW ch \in Seq(S), NEW R, S \X S \subseteq R
    PROVE  Chain(ch, R)
<1>1. Len(ch) \in Nat /\ DOMAIN ch = 1 .. Len(ch)
      /\ \A j \in 1 .. Len(ch) : ch[j] \in S
    BY LenProperties, ElementOfSeq
<1> QED BY <1>1 DEF Chain

\* serverAuthSendUpdate() for the last time in a battle.
LEMMA PacedLast ==
    ASSUME NEW s, NEW e, NEW c, NEW tc \in Seq(ServerPkts), NEW ts, NEW b,
           Paced(s, e, c, tc, ts, b), MaxSeq <= 255,
           NEW d \in Servers, d.session \in Sessions, d.session = s.session,
           d.peerReady, s.peerReady, d.updateSeq < MaxSeq, d.phase = "FINISHED",
           NEW f \in Engines,
           \/ f.turn = e.turn /\ f.pend[1] = e.pend[1]
           \/ e.pend[1] # NoAct
    PROVE  Paced(SendUpdate(d, f, tc).srv, f, c, SendUpdate(d, f, tc).net, ts, b)
<1> DEFINE t   == SendUpdate(d, f, tc).srv
           upd == t.lastUpdate
<1>1. /\ upd \in ServerPkts /\ upd.type = "UPDATE" /\ upd.sess = t.session
      /\ t.session = s.session /\ t.peerReady /\ t.phase = "FINISHED"
      /\ t.unackedUpdate /\ SendUpdate(d, f, tc).net = Enqueue(tc, upd)
    BY Built
<1> HIDE DEF t
<1>2. Here(t, c) = Here(s, c) /\ NotYet(t, tc) = NotYet(s, tc) /\ ~Open(t)
    BY <1>1 DEF Here, NotYet, Open
<1>3. Fresh(t, f, c, tc, ts)
    <2>1. Idle(t, tc)
        BY <1>1 DEF Idle
    <2>2. Unheard(s, e, tc, ts) => Unheard(t, f, tc, ts)
        BY <1>1 DEF Unheard
    <2> QED BY <1>2, <2>1, <2>2 DEF Paced, Fresh
<1>4. Echoed(t, c, ts)
    BY <1>1, <1>2 DEF Paced, Echoed
<1>5. Paced(t, f, c, tc, ts, b)
    BY <1>2, <1>3, <1>4 DEF Paced, Level
<1>6. Fitting(t, f, c, tc, b, upd)
    BY <1>1, <1>2 DEF Fitting
<1>7. Paced(t, f, c, Enqueue(tc, upd), ts, b)
    BY <1>5, <1>6, PacedSend
<1> QED BY <1>1, <1>7 DEF t

\* resolveTurn(), the battle going on.
LEMMA PacedPlay ==
    ASSUME NEW s, NEW e \in Engines, NEW c \in Clients, NEW tc \in Seq(ServerPkts),
           NEW ts, NEW b, Paced(s, e, c, tc, ts, b), Open(s),
           tc \in Seq({p \in ServerPkts : p.type \in Boards /\ p.sess = s.session
                                            => p.seq <= s.updateSeq}),
           MaxSeq <= 255, NEW d \in Servers, d.session \in Sessions,
           d.session = s.session, d.mode = s.mode, d.peerReady,
           d.updateSeq = s.updateSeq, d.updateSeq < MaxSeq,
           d.phase = "WAIT_ACTION", ~d.pendingRemoteAction,
           e.pend[1] # NoAct, NEW f \in Engines,
           f.turn = e.turn + 1, f.pend[1] = NoAct
    PROVE  Paced(SendUpdate(d, f, tc).srv, f, c, SendUpdate(d, f, tc).net, ts, e.alive)
<1> DEFINE t   == SendUpdate(d, f, tc).srv
           upd == t.lastUpdate
           x   == s.session
<1>1. /\ upd \in ServerPkts /\ upd.type = "UPDATE" /\ upd.sess = x
      /\ upd.seq = t.updateSeq /\ upd.turn = Wire(f.turn) /\ upd.alive = f.alive
      /\ upd.real /\ t \in Servers
      /\ t.session = x /\ t.peerReady /\ t.phase = "WAIT_ACTION" /\ t.mode = s.mode
      /\ t.unackedUpdate /\ ~t.pendingRemoteAction
      /\ t.updateSeq = s.updateSeq + 1 /\ s.updateSeq \in Nat
      /\ SendUpdate(d, f, tc).net = Enqueue(tc, upd)
    BY Built
<1> HIDE DEF t
<1>2. Here(t, c) = Here(s, c) /\ NotYet(t, tc) = NotYet(s, tc) /\ Open(t)
    BY <1>1 DEF Here, NotYet, Open
<1>3. /\ s.updateSeq = e.turn + 1 /\ e.turn \in Nat
      /\ t.updateSeq = f.turn + 1 /\ t.updateSeq <= 255
    <2>1. t.updateSeq \in Byte
        BY <1>1 DEF Servers
    <2>2. t.updateSeq <= 255
        BY <2>1, PacketRange
    <2>3. s.updateSeq = e.turn + 1 /\ e.turn \in Nat
        BY DEF Paced, Level, Engines
    <2> QED BY <1>1, <2>2, <2>3
<1>4. Wire(f.turn) = f.turn
    <2>1. f.turn \in Nat /\ f.turn <= 255
        BY <1>3
    <2>2. \A n \in Nat : n <= 255 => n % 256 = n
        OBVIOUS
    <2> QED BY <2>1, <2>2 DEF Wire
<1>5. ~Unheard(s, e, tc, ts)
    BY DEF Unheard
<1>6. Fresh(t, f, c, tc, ts)
    <2>1. Idle(t, tc)
        BY <1>1 DEF Idle
    <2> QED BY <1>2, <1>5, <2>1 DEF Paced, Fresh
<1>7. Echoed(t, c, ts)
    BY <1>1, <1>2 DEF Paced, Echoed
<1>8. tc \in Seq(Shows(x, f, e.alive))
    <2> DEFINE U == {p \in ServerPkts : p.type \in Boards /\ p.sess = x
                                          => p.seq <= s.updateSeq}
    <2>1. tc \in Seq(U \cap Shows(x, e, b))
        BY SeqBoth DEF Paced, Level
    <2>2. ASSUME NEW p \in U \cap Shows(x, e, b) PROVE p \in Shows(x, f, e.alive)
        BY <1>1, <1>3, <2>2, CountRange DEF Shows
    <2>3. U \cap Shows(x, e, b) \subseteq Shows(x, f, e.alive)
        BY <2>2
    <2> QED BY <2>1, <2>3, SeqMonotonic
<1>9. upd \in Shows(x, f, e.alive)
    BY <1>1, <1>3, <1>4 DEF Shows
<1>10. ASSUME Here(t, c)
       PROVE  WithServer(t, f, c, tc, ts, e.alive)
              /\ upd \in From(x, c.clientTurn)
    <2>1. WithServer(s, e, c, tc, ts, b) /\ ~Prompted(c)
        BY <1>2, <1>5, <1>10 DEF Paced, Level, Fresh
    <2>2. /\ c.clientTurn = e.turn /\ c.lastApplied <= c.clientTurn + 1
          /\ ts \in Seq(NoAsk(x)) /\ ts \in Seq(UpTo(x, c.clientTurn))
          /\ tc \in Seq(From(x, c.clientTurn)) /\ c.alive[0] <= e.alive[0]
        BY <2>1 DEF WithServer
    <2>3. Chain(ts, AsksFirst(x, f.turn))
        <3>1. \A p \in ClientPkts : p.type = "ACTION_V2" => p.turn \in Nat
            BY PacketRange
        <3>2. AsksFirst(x, e.turn) \subseteq AsksFirst(x, f.turn)
            BY <1>3, <3>1 DEF AsksFirst
        <3> QED BY <2>1, <3>2, ChainWider DEF WithServer
    <2>4. c.clientTurn # f.turn /\ c.clientTurn <= f.turn /\ f.turn <= c.clientTurn + 1
        BY <1>3, <2>2
    <2>5. upd \in From(x, c.clientTurn)
        BY <1>1, <1>3, <2>2 DEF From
    <2> QED BY <1>1, <2>1, <2>2, <2>3, <2>4, <2>5 DEF WithServer
<1>11. Paced(t, f, c, tc, ts, e.alive)
    <2>1. f.turn # 0
        BY <1>3
    <2> QED BY <1>1, <1>3, <1>6, <1>7, <1>8, <1>9, <1>10, <2>1 DEF Paced, Level
<1>12. Fitting(t, f, c, tc, e.alive, upd)
    BY <1>1, <1>9, <1>10 DEF Fitting
<1>13. Paced(t, f, c, Enqueue(tc, upd), ts, e.alive)
    BY <1>11, <1>12, PacedSend
<1> QED BY <1>1, <1>13 DEF t

\* startServerAuthAsInitiator(): nothing of the new battle is under way.
LEMMA PacedChallenge ==
    ASSUME NEW s, NEW e, NEW c, NEW tc \in Seq(ServerPkts), NEW ts, NEW b,
           Paced(s, e, c, tc, ts, b), NEW t, NEW f, NEW x \in Nat,
           t.session = x, t.session \in Sessions, t.mode = "NETWORKED",
           t.awaitingAccept, ~t.peerReady, ~t.pendingRemoteAction,
           t.updateSeq = 0, ~t.unackedUpdate,
           f.turn = 0, f.pend[1] = NoAct, c.session # x,
           tc \in Seq({p \in ServerPkts : p.sess # x}),
           ts \in Seq(Hush(x))
    PROVE  Paced(t, f, c, Enqueue(tc, Challenge(x)), ts, b)
<1>1. tc \in Seq(NoBoard(x)) /\ tc \in Seq(NoAnswer(x))
    <2>1. /\ {p \in ServerPkts : p.sess # x} \subseteq NoBoard(x)
          /\ {p \in ServerPkts : p.sess # x} \subseteq NoAnswer(x)
        BY DEF NoBoard, NoAnswer
    <2> QED BY <2>1, SeqMonotonic
<1>2. ~Here(t, c) /\ ~Open(t)
    BY DEF Here, Open
<1>3. Idle(t, tc) /\ Unheard(t, f, tc, ts)
    BY <1>1 DEF Idle, Unheard
<1>4. Paced(t, f, c, tc, ts, b)
    BY <1>2, <1>3 DEF Paced, Fresh, Echoed, Level
<1>5. /\ Challenge(x) \in ServerPkts /\ Challenge(x).type = "CHALLENGE"
      /\ Challenge(x).sess = x
    BY DEF Challenge, ServerPkts
<1>6. Fitting(t, f, c, tc, b, Challenge(x))
    BY <1>5 DEF Fitting, Boards
<1> QED BY <1>4, <1>6, PacedSend

\* serverAuthOnAcceptPkt(): the packets not yet on the air are discarded.
LEMMA PacedAccept ==
    ASSUME NEW s \in Servers, NEW e, NEW c \in Clients, NEW tc \in Seq(ServerPkts),
           NEW ts, NEW b, Paced(s, e, c, tc, ts, b), MaxSeq <= 255,
           ~s.peerReady, s.mode = "NETWORKED",
           NEW d \in Servers, d.session \in Sessions, d.session = s.session,
           d.mode = s.mode, d.peerReady, d.updateSeq = s.updateSeq,
           d.updateSeq < MaxSeq, d.phase = "WAIT_ACTION", ~d.pendingRemoteAction,
           NEW f \in Engines, f = Start(FullTeams)
    PROVE  Paced(SendUpdate(d, f, tc).srv, f, c, SendUpdate(d, f, tc).net, ts, b)
<1> DEFINE t   == SendUpdate(d, f, tc).srv
           upd == t.lastUpdate
           x   == s.session
<1>1. /\ upd \in ServerPkts /\ upd.type = "UPDATE" /\ upd.sess = x
      /\ upd.seq = t.updateSeq /\ upd.turn = Wire(f.turn) /\ upd.alive = f.alive
      /\ upd.real /\ t \in Servers
      /\ t.session = x /\ t.peerReady /\ t.phase = "WAIT_ACTION" /\ t.mode = "NETWORKED"
      /\ t.unackedUpdate /\ ~t.pendingRemoteAction
      /\ t.updateSeq = s.updateSeq + 1
      /\ SendUpdate(d, f, tc).net = Enqueue(tc, upd)
    BY Built
<1> HIDE DEF t
<1>2. Idle(s, tc) /\ Unheard(s, e, tc, ts) /\ (Here(s, c) => Untouched(c))
    BY DEF Paced, Fresh, NotYet
<1>3. /\ f.turn = 0 /\ f.pend[1] = NoAct /\ f.alive = FullTeams
      /\ f.alive[0] = TeamSize /\ Wire(0) = 0 /\ t.updateSeq = 1
    BY <1>1, <1>2 DEF Start, Side, FullTeams, Idle, Wire
<1>4. Here(t, c) = Here(s, c) /\ Open(t)
    BY <1>1 DEF Here, Open
<1>5. ts \in Seq(Hush(x)) /\ tc \in Seq(NoBoard(x))
    BY <1>2 DEF Unheard, Idle
<1>6. Fresh(t, f, c, tc, ts)
    <2>1. Idle(t, tc)
        BY <1>1 DEF Idle
    <2>2. Unheard(t, f, tc, ts)
        BY <1>1, <1>2, <1>3 DEF Unheard
    <2> QED BY <1>2, <1>4, <2>1, <2>2 DEF Paced, Fresh
<1>7. Echoed(t, c, ts)
    <2>1. Hush(x) \subseteq AckedBy(x, c.lastApplied)
        BY DEF Hush, AckedBy
    <2>2. ts \in Seq(AckedBy(x, c.lastApplied))
        BY <1>5, <2>1, SeqMonotonic
    <2> QED BY <1>1, <2>2 DEF Echoed
<1>8. upd \in Shows(x, f, b) /\ tc \in Seq(Shows(x, f, b))
    <2>1. upd \in Shows(x, f, b)
        BY <1>1, <1>3 DEF Shows
    <2>2. NoBoard(x) \subseteq Shows(x, f, b)
        BY DEF NoBoard, Shows
    <2> QED BY <1>5, <2>1, <2>2, SeqMonotonic
<1>9. ASSUME Here(t, c)
      PROVE  WithServer(t, f, c, tc, ts, b) /\ upd \in From(x, c.clientTurn)
    <2>1. Untouched(c)
        BY <1>2, <1>4, <1>9
    <2>2. c.alive[0] <= TeamSize
        BY EngineAssumption DEF Clients, Alive, Side
    <2>3. ts \in Seq(NoAsk(x)) /\ ts \in Seq(UpTo(x, c.clientTurn))
        <3>1. Hush(x) \subseteq NoAsk(x) /\ Hush(x) \subseteq UpTo(x, c.clientTurn)
            BY DEF Hush, NoAsk, UpTo
        <3> QED BY <1>5, <3>1, SeqMonotonic
    <2>4. Chain(ts, AsksFirst(x, f.turn))
        <3>1. Hush(x) \X Hush(x) \subseteq AsksFirst(x, f.turn)
            BY DEF Hush, AsksFirst
        <3> QED BY <1>5, <3>1, ChainOver
    <2>5. tc \in Seq(From(x, c.clientTurn))
        <3>1. NoBoard(x) \subseteq From(x, c.clientTurn)
            BY DEF NoBoard, From
        <3> QED BY <1>5, <3>1, SeqMonotonic
    <2>6. upd \in From(x, c.clientTurn)
        BY <1>1, <1>3, <2>1 DEF Untouched, From
    <2> QED BY <1>1, <1>3, <2>1, <2>2, <2>3, <2>4, <2>5, <2>6
            DEF WithServer, Untouched
<1>10. Paced(t, f, c, tc, ts, b)
    BY <1>1, <1>3, <1>6, <1>7, <1>8, <1>9 DEF Paced, Level
<1>11. Fitting(t, f, c, tc, b, upd)
    BY <1>1, <1>8, <1>9 DEF Fitting
<1>12. Paced(t, f, c, Enqueue(tc, upd), ts, b)
    BY <1>10, <1>11, PacedSend
<1> QED BY <1>1, <1>12 DEF t

\* serverAuthOnActionV2Pkt(), nobody fleeing: the board may be acknowledged,
\* the action may be submitted.
LEMMA PacedAct ==
    ASSUME NEW s, NEW e, NEW c, NEW tc, NEW ts, NEW b, Paced(s, e, c, tc, ts, b),
           ~NotYet(s, tc), ~(Here(s, c) /\ Prompted(c)),
           NEW t, NEW f, t.session = s.session, t.mode = s.mode, t.phase = s.phase,
           t.peerReady = s.peerReady, t.updateSeq = s.updateSeq,
           t.lastUpdate = s.lastUpdate,
           \/ t.unackedUpdate = s.unackedUpdate
           \/ ~t.unackedUpdate /\ (Here(s, c) => c.lastApplied = s.updateSeq),
           f.turn = e.turn, f.alive = e.alive, f.pend[0] = e.pend[0],
           \/ f.pend[1] = e.pend[1] /\ t.pendingRemoteAction = s.pendingRemoteAction
           \/ /\ f.pend[1] # NoAct
              /\ Open(s) /\ Here(s, c)
                   => c.clientTurn = e.turn /\ ts \in Seq(NoAsk(s.session))
    PROVE  Paced(t, f, c, tc, ts, b)
<1>1. /\ Here(t, c) = Here(s, c) /\ NotYet(t, tc) = NotYet(s, tc)
      /\ Open(t) = Open(s)
    BY DEF Here, NotYet, Open
<1>2. Fresh(t, f, c, tc, ts)
    BY <1>1 DEF Paced, Fresh, Idle, NotYet
<1>3. Echoed(t, c, ts)
    BY <1>1 DEF Paced, Echoed
<1>4. Level(t, f, c, tc, ts, b)
    <2> SUFFICES ASSUME Open(t) PROVE Level(t, f, c, tc, ts, b)
        BY DEF Level
    <2>1. Open(s) /\ Shows(t.session, f, b) = Shows(s.session, e, b)
        BY <1>1 DEF Shows
    <2>2. ASSUME Here(t, c) PROVE WithServer(t, f, c, tc, ts, b)
        <3>1. WithServer(s, e, c, tc, ts, b)
            BY <1>1, <2>1, <2>2 DEF Paced, Level
        <3> QED BY <1>1, <2>1, <2>2, <3>1 DEF WithServer
    <2> QED BY <1>1, <2>1, <2>2 DEF Paced, Level
<1> QED BY <1>2, <1>3, <1>4 DEF Paced

\* What the first packet of the client tells the server.
LEMMA Heard ==
    ASSUME NEW s \in Servers, NEW e \in Engines, NEW c \in Clients, NEW tc,
           NEW ts \in Seq(ClientPkts), NEW b, Paced(s, e, c, tc, ts, b),
           NEW m, m = ts[1], 1 \in DOMAIN ts, m.sess = s.session,
           m.type \in {"ACTION_V2", "STATE_REQUEST"}
    PROVE  /\ ~NotYet(s, tc) /\ ~(Here(s, c) /\ Prompted(c))
           /\ m.type = "ACTION_V2" /\ Here(s, c) => m.acked <= c.lastApplied
           /\ m.type = "STATE_REQUEST" /\ Open(s) /\ Here(s, c)
                => c.clientTurn = e.turn
           /\ m.type = "ACTION_V2" /\ m.act \in Moves /\ m.turn = Wire(e.turn)
              /\ Open(s) /\ Here(s, c)
                => c.clientTurn = e.turn
                   /\ RemoveAt(ts, 1) \in Seq(NoAsk(s.session))
<1>1. m \in ClientPkts /\ m \notin Hush(s.session)
    BY ElementOfSeq, LenProperties DEF Hush
<1>2. \A S : ts \in Seq(S) => m \in S
    BY ElementOfSeq, LenProperties
<1>3. ~Unheard(s, e, tc, ts)
    BY <1>1, <1>2 DEF Unheard
<1>4. ~NotYet(s, tc) /\ ~(Here(s, c) /\ Prompted(c))
    BY <1>3 DEF Paced, Fresh
<1>5. ASSUME m.type = "ACTION_V2", Here(s, c) PROVE m.acked <= c.lastApplied
    BY <1>2, <1>5 DEF Paced, Echoed, AckedBy
<1>6. ASSUME m.type = "STATE_REQUEST", Open(s), Here(s, c)
      PROVE  c.clientTurn = e.turn
    BY <1>2, <1>6 DEF Paced, Level, WithServer, NoAsk
<1>7. ASSUME m.type = "ACTION_V2", m.act \in Moves, m.turn = Wire(e.turn), Open(s),
             Here(s, c)
      PROVE  c.clientTurn = e.turn /\ RemoveAt(ts, 1) \in Seq(NoAsk(s.session))
    <2>1. WithServer(s, e, c, tc, ts, b) /\ s.updateSeq = e.turn + 1
        BY <1>7 DEF Paced, Level
    <2>2. /\ e.turn \in Nat /\ c.clientTurn \in Nat /\ s.updateSeq <= 255
          /\ m.turn \in Nat
        <3>1. s.updateSeq \in Byte /\ c.clientTurn \in Byte /\ e.turn \in Nat
            BY DEF Servers, Clients, Engines
        <3> QED BY <1>1, <1>7, <3>1, PacketRange
    <2>3. Wire(e.turn) = e.turn
        <3>1. e.turn <= 255
            BY <2>1, <2>2
        <3>2. \A n \in Nat : n <= 255 => n % 256 = n
            OBVIOUS
        <3> QED BY <2>2, <3>1, <3>2 DEF Wire
    <2>4. m.turn <= c.clientTurn
        BY <1>2, <1>7, <2>1 DEF WithServer, UpTo
    <2>5. c.clientTurn = e.turn
        BY <1>7, <2>1, <2>2, <2>3, <2>4 DEF WithServer
    <2>6. RemoveAt(ts, 1)
            \in Seq({q \in ClientPkts : <<m, q>> \in AsksFirst(s.session, e.turn)})
        BY <2>1, ChainHead DEF WithServer
    <2>7. {q \in ClientPkts : <<m, q>> \in AsksFirst(s.session, e.turn)}
            \subseteq NoAsk(s.session)
        BY <1>7, <2>2, <2>3 DEF AsksFirst, NoAsk
    <2> QED BY <2>5, <2>6, <2>7, SeqMonotonic
<1> QED BY <1>4, <1>5, <1>6, <1>7

\* What a step of the server leaves behind it.
ServerPaced == \E before \in Alive : Paced(srv', eng', cli, toCli', toSrv', before)

LEMMA ChallengePace ==
    ASSUME TypeInv, TurnInv, AnswerInv, PaceInv, SendChallenge PROVE ServerPaced
<1> DEFINE x == srv.session + 1
<1>1. PICK b \in Alive : Paced(srv, eng, cli, toCli, toSrv, b)
    BY DEF PaceInv
<1>2. /\ srv \in Servers /\ cli \in Clients /\ toCli \in Seq(ServerPkts)
      /\ toCli \in Seq(Coming(srv, Settled(srv, eng), cli))
      /\ cli.session <= srv.session /\ toSrv \in Seq(FromClient(srv))
      /\ srv.session \in Nat
    BY CountRange DEF TypeInv, TypeOK, TurnInv, Ordered, LinkInOrder, ClientInOrder,
                      AnswerInv
<1>3. srv'.session \in Sessions
    <2>1. srv'.mode = "NETWORKED" /\ TypeInv'
        BY <1>2, SendChallengeType DEF SendChallenge, Servers
    <2> QED BY <2>1 DEF TypeInv, ServerOn
<1>4. /\ srv'.session = x /\ srv'.mode = "NETWORKED" /\ srv'.awaitingAccept
      /\ ~srv'.peerReady /\ ~srv'.pendingRemoteAction /\ srv'.updateSeq = 0
      /\ ~srv'.unackedUpdate
      /\ eng'.turn = 0 /\ eng'.pend[1] = NoAct
      /\ toCli' = Enqueue(toCli, Challenge(x)) /\ toSrv' = toSrv
    BY <1>2, NothingPending DEF SendChallenge, Servers, Start
<1>5. x \in Nat /\ cli.session # x
    BY <1>2, CountRange
<1> HIDE DEF x
<1>6. toCli \in Seq({p \in ServerPkts : p.sess # x})
    <2>1. Coming(srv, Settled(srv, eng), cli) \subseteq {p \in ServerPkts : p.sess # x}
        BY <1>2, CountRange DEF Coming, x
    <2> QED BY <1>2, <2>1, SeqMonotonic
<1>7. toSrv \in Seq(Hush(x))
    <2>1. x \notin Answered(srv)
        BY <1>2 DEF Answered, x
    <2>2. FromClient(srv) \subseteq Hush(x)
        BY <2>1 DEF FromClient, Hush
    <2> QED BY <1>2, <2>2, SeqMonotonic
<1>8. Paced(srv', eng', cli, toCli', toSrv', b)
    BY <1>1, <1>2, <1>3, <1>4, <1>5, <1>6, <1>7, PacedChallenge
<1> QED BY <1>8 DEF ServerPaced

LEMMA AcceptPace ==
    ASSUME MaxSeq <= 255, TypeInv, TurnInv, srv.mode = "NETWORKED", NEW m,
           OnAccept(m), NEW b \in Alive, NEW ts, Paced(srv, eng, cli, toCli, ts, b),
           toSrv' = ts
    PROVE  ServerPaced
<1>1. /\ srv \in Servers /\ srv.session \in Sessions /\ cli \in Clients
      /\ toCli \in Seq(ServerPkts) /\ (srv.awaitingAccept => ~srv.peerReady)
    BY DEF TypeInv, TypeOK, ServerOn, TurnInv, Ordered, ServerInOrder
<1>2. CASE UNCHANGED <<srv, eng, toCli>>
    BY <1>2 DEF ServerPaced
<1>3. CASE /\ srv' = [srv EXCEPT !.phase = "FINISHED", !.awaitingAccept = FALSE]
           /\ UNCHANGED <<eng, toCli>>
    <2>1. /\ SameCount(srv, srv') /\ srv'.phase = "FINISHED"
          /\ srv'.pendingRemoteAction = srv.pendingRemoteAction
          /\ srv'.unackedUpdate = srv.unackedUpdate
        BY <1>1, <1>3 DEF Servers, SameCount
    <2>2. Paced(srv', eng', cli, toCli, ts, b)
        BY <1>3, <2>1, PacedQuiet DEF Open
    <2> QED BY <1>3, <2>2 DEF ServerPaced
<1>4. CASE /\ CanUpdate /\ srv.awaitingAccept /\ eng' = Start(FullTeams)
           /\ \E kept \in DropPendingSends(toCli) :
                LET s == [srv EXCEPT !.awaitingAccept = FALSE,
                           !.peerReady = TRUE,
                           !.pendingRemoteAction = FALSE,
                           !.phase = "WAIT_ACTION"]
                    r == SendUpdate(s, Start(FullTeams), kept)
                IN  srv' = r.srv /\ toCli' = r.net
    <2> DEFINE f == Start(FullTeams)
               d == [srv EXCEPT !.awaitingAccept = FALSE,
                       !.peerReady = TRUE,
                       !.pendingRemoteAction = FALSE,
                       !.phase = "WAIT_ACTION"]
    <2>1. PICK kept \in DropPendingSends(toCli) :
            srv' = SendUpdate(d, f, kept).srv /\ toCli' = SendUpdate(d, f, kept).net
        BY <1>4
    <2>2. kept \in Seq(ServerPkts) /\ Thinned(toCli, kept) /\ Thinned(ts, ts)
        BY <1>1, DropType, ThinnedBy DEF Thinned
    <2>3. /\ d \in Servers /\ d.session = srv.session /\ d.mode = srv.mode
          /\ d.peerReady /\ d.updateSeq = srv.updateSeq /\ d.phase = "WAIT_ACTION"
          /\ ~d.pendingRemoteAction
        BY <1>1, NamesType DEF Servers
    <2>4. f \in Engines /\ eng' = f /\ srv.updateSeq < MaxSeq /\ f = Start(FullTeams)
        BY <1>4, TeamsType, StartType DEF CanUpdate
    <2> HIDE DEF d, f
    <2>5. Paced(srv, eng, cli, kept, ts, b)
        BY <2>2, ThinnedPaced
    <2>6. Paced(srv', f, cli, toCli', ts, b)
        BY <1>1, <1>4, <2>1, <2>2, <2>3, <2>4, <2>5, PacedAccept
    <2> QED BY <2>4, <2>6 DEF ServerPaced
<1> QED BY <1>2, <1>3, <1>4 DEF OnAccept

LEMMA ActionPace ==
    ASSUME MaxSeq <= 255, TypeInv, TurnInv, srv.mode = "NETWORKED",
           NEW b \in Alive, Paced(srv, eng, cli, toCli, toSrv, b),
           1 \in DOMAIN toSrv, NEW m, m = toSrv[1], m.type = "ACTION_V2",
           OnActionV2(m), toSrv' = RemoveAt(toSrv, 1)
    PROVE  ServerPaced
<1> DEFINE s  == Acknowledged(srv, m)
           ts == RemoveAt(toSrv, 1)
<1>1. /\ srv \in Servers /\ srv.session \in Sessions /\ cli \in Clients
      /\ toCli \in Seq(ServerPkts) /\ toSrv \in Seq(ClientPkts) /\ eng \in Engines
      /\ (Here(srv, cli) => cli.lastApplied <= srv.updateSeq)
    BY DEF TypeInv, TypeOK, ServerOn, TurnInv, Ordered, ClientInOrder, NotBefore, Here
<1>2. m \in ClientPkts /\ m.act \in Moves \cup {Flee, PureAck}
    <2>1. m \in ClientPkts
        BY <1>1, ElementOfSeq, LenProperties
    <2> QED BY <2>1 DEF ClientPkts
<1>3. Paced(srv, eng, cli, toCli, ts, b)
    <2>1. Thinned(toSrv, ts) /\ Thinned(toCli, toCli)
        BY <1>1, ThinnedBy
    <2> QED BY <2>1, ThinnedPaced
<1>4. s \in Servers /\ SameCount(srv, s) /\ s.mode = srv.mode /\ s.phase = srv.phase
      /\ s.pendingRemoteAction = srv.pendingRemoteAction
      /\ s.lastUpdate = srv.lastUpdate
      /\ \/ s.unackedUpdate = srv.unackedUpdate
         \/ ~s.unackedUpdate /\ m.acked = srv.updateSeq
    BY <1>1 DEF Acknowledged, SameCount, Servers
<1>5. \/ UNCHANGED <<srv, eng, toCli>>
      \/ m.sess = srv.session /\ srv' = s /\ UNCHANGED <<eng, toCli>>
      \/ /\ CanUpdate /\ eng' = Forfeit(eng, 1) /\ m.sess = srv.session
         /\ LET r == SendUpdate([s EXCEPT !.phase = "FINISHED"],
                                Forfeit(eng, 1), toCli)
            IN  srv' = r.srv /\ toCli' = r.net
      \/ /\ m.sess = srv.session /\ m.turn = Wire(eng.turn)
         /\ m.act \in Moves /\ eng' = Submit(eng, 1, m.act)
         /\ srv' = [s EXCEPT !.pendingRemoteAction = TRUE]
         /\ UNCHANGED toCli
    BY <1>2 DEF OnActionV2, ActionCounts
<1> HIDE DEF s, ts
<1>6. CASE UNCHANGED <<srv, eng, toCli>>
    BY <1>3, <1>6 DEF ServerPaced, ts
<1>7. ASSUME m.sess = srv.session
      PROVE  /\ ~NotYet(srv, toCli) /\ ~(Here(srv, cli) /\ Prompted(cli))
             /\ s.peerReady /\ srv.peerReady
             /\ \/ s.unackedUpdate = srv.unackedUpdate
                \/ ~s.unackedUpdate
                   /\ (Here(srv, cli) => cli.lastApplied = srv.updateSeq)
             /\ m.act \in Moves /\ m.turn = Wire(eng.turn) /\ Open(srv)
                /\ Here(srv, cli)
                  => cli.clientTurn = eng.turn /\ ts \in Seq(NoAsk(srv.session))
    <2>1. /\ ~NotYet(srv, toCli) /\ ~(Here(srv, cli) /\ Prompted(cli))
          /\ Here(srv, cli) => m.acked <= cli.lastApplied
          /\ m.act \in Moves /\ m.turn = Wire(eng.turn) /\ Open(srv)
                /\ Here(srv, cli)
                  => cli.clientTurn = eng.turn /\ ts \in Seq(NoAsk(srv.session))
        BY <1>1, <1>7, Heard DEF ts
    <2>2. m.acked \in Nat /\ cli.lastApplied \in Nat /\ srv.updateSeq \in Nat
        BY <1>1, <1>2, PacketRange, CountRange
    <2> QED BY <1>1, <1>4, <2>1, <2>2 DEF NotYet, SameCount
<1>8. CASE m.sess = srv.session /\ srv' = s /\ UNCHANGED <<eng, toCli>>
    <2>1. Paced(srv', eng', cli, toCli, ts, b)
        BY <1>3, <1>4, <1>7, <1>8, PacedAct DEF SameCount
    <2> QED BY <1>8, <2>1 DEF ServerPaced, ts
<1>9. CASE /\ CanUpdate /\ eng' = Forfeit(eng, 1) /\ m.sess = srv.session
           /\ LET r == SendUpdate([s EXCEPT !.phase = "FINISHED"],
                                  Forfeit(eng, 1), toCli)
              IN  srv' = r.srv /\ toCli' = r.net
    <2> DEFINE d == [s EXCEPT !.phase = "FINISHED"]
               f == Forfeit(eng, 1)
    <2>1. /\ d \in Servers /\ d.session = srv.session /\ d.peerReady
          /\ d.updateSeq = srv.updateSeq /\ d.phase = "FINISHED"
        BY <1>4, <1>7, <1>9, NamesType DEF Servers, SameCount
    <2>2. f \in Engines /\ f.turn = eng.turn /\ f.pend = eng.pend
        BY <1>1, ForfeitType, EngineTurns DEF Side
    <2>3. /\ eng' = f /\ srv' = SendUpdate(d, f, toCli).srv
          /\ toCli' = SendUpdate(d, f, toCli).net /\ srv.updateSeq < MaxSeq
        BY <1>9 DEF CanUpdate
    <2> HIDE DEF d, f
    <2>4. Paced(srv', f, cli, toCli', ts, b)
        BY <1>1, <1>3, <1>7, <1>9, <2>1, <2>2, <2>3, PacedLast
    <2> QED BY <2>3, <2>4 DEF ServerPaced, ts
<1>10. CASE /\ m.sess = srv.session /\ m.turn = Wire(eng.turn)
            /\ m.act \in Moves /\ eng' = Submit(eng, 1, m.act)
            /\ srv' = [s EXCEPT !.pendingRemoteAction = TRUE]
            /\ UNCHANGED toCli
    <2>1. /\ srv'.session = s.session /\ srv'.mode = s.mode /\ srv'.phase = s.phase
          /\ srv'.peerReady = s.peerReady /\ srv'.updateSeq = s.updateSeq
          /\ srv'.lastUpdate = s.lastUpdate /\ srv'.unackedUpdate = s.unackedUpdate
        BY <1>4, <1>10 DEF Servers
    <2>2. /\ eng'.turn = eng.turn /\ eng'.alive = eng.alive
          /\ eng'.pend[0] = eng.pend[0] /\ eng'.pend[1] # NoAct
        BY <1>1, <1>10, EngineAssumption DEF Submit, Engines, Side
    <2>3. /\ ~NotYet(srv, toCli) /\ ~(Here(srv, cli) /\ Prompted(cli))
          /\ \/ srv'.unackedUpdate = srv.unackedUpdate
             \/ ~srv'.unackedUpdate
                /\ (Here(srv, cli) => cli.lastApplied = srv.updateSeq)
          /\ Open(srv) /\ Here(srv, cli)
               => cli.clientTurn = eng.turn /\ ts \in Seq(NoAsk(srv.session))
        BY <1>7, <1>10, <2>1
    <2>4. /\ srv'.session = srv.session /\ srv'.mode = srv.mode
          /\ srv'.phase = srv.phase /\ srv'.peerReady = srv.peerReady
          /\ srv'.updateSeq = srv.updateSeq /\ srv'.lastUpdate = srv.lastUpdate
        BY <1>4, <2>1 DEF SameCount
    <2>5. Paced(srv', eng', cli, toCli, ts, b)
        BY <1>3, <2>2, <2>3, <2>4, PacedAct
    <2> QED BY <1>10, <2>5 DEF ServerPaced, ts
<1> QED BY <1>5, <1>6, <1>8, <1>9, <1>10

LEMMA ReceivePace ==
    ASSUME ~Reorder, MaxSeq <= 255, TypeInv, TurnInv, PaceInv, ServerReceive
    PROVE  ServerPaced
<1> DEFINE m  == toSrv[1]
           ts == RemoveAt(toSrv, 1)
<1>1. PICK b \in Alive : Paced(srv, eng, cli, toCli, toSrv, b)
    BY DEF PaceInv
<1>2. ServerTakes(1) /\ 1 \in DOMAIN toSrv
    BY DEF ServerReceive, Deliverable
<1>3. /\ toSrv' = ts
      /\ \/ UNCHANGED <<srv, eng, toCli>>
         \/ srv.mode # "OFF" /\ OnAccept(m)
         \/ srv.mode # "OFF" /\ m.type = "ACTION_V2" /\ OnActionV2(m)
         \/ srv.mode # "OFF" /\ m.type = "STATE_REQUEST" /\ OnStateRequest(m)
    BY <1>2 DEF ServerTakes
<1>4. /\ srv \in Servers /\ eng \in Engines /\ cli \in Clients
      /\ toSrv \in Seq(ClientPkts) /\ toCli \in Seq(ServerPkts)
      /\ (srv.mode # "OFF" => srv.mode = "NETWORKED" /\ srv.session \in Sessions)
    BY DEF TypeInv, TypeOK, ServerOn, Servers, Modes
<1>5. Paced(srv, eng, cli, toCli, ts, b)
    <2>1. Thinned(toSrv, ts) /\ Thinned(toCli, toCli)
        BY <1>2, <1>4, ThinnedBy
    <2> QED BY <1>1, <2>1, ThinnedPaced
<1> HIDE DEF m, ts
<1>6. CASE UNCHANGED <<srv, eng, toCli>>
    BY <1>3, <1>5, <1>6 DEF ServerPaced
<1>7. CASE srv.mode # "OFF" /\ OnAccept(m)
    BY <1>3, <1>4, <1>5, <1>7, AcceptPace
<1>8. CASE srv.mode # "OFF" /\ m.type = "ACTION_V2" /\ OnActionV2(m)
    BY <1>1, <1>2, <1>3, <1>4, <1>8, ActionPace DEF m, ts
<1>9. CASE srv.mode # "OFF" /\ m.type = "STATE_REQUEST" /\ OnStateRequest(m)
    <2> DEFINE full == FullState(srv.session, srv.updateSeq, eng, srv.peerReady)
    <2>1. /\ srv.session \in Sessions /\ srv.updateSeq \in Byte
          /\ eng.alive \in Alive /\ srv.peerReady \in BOOLEAN /\ eng.turn \in Nat
        BY <1>4, <1>9 DEF Servers, Engines, Alive
    <2>2. /\ full \in ServerPkts /\ full.sess = srv.session /\ full.alive = eng.alive
          /\ full.seq = srv.updateSeq /\ full.type = "FULL_STATE"
        BY <2>1 DEF FullState, ServerPkts
    <2>3. CASE m.sess # srv.session
        BY <1>3, <1>5, <1>9, <2>3 DEF OnStateRequest, ServerPaced
    <2>4. CASE m.sess = srv.session
        <3>1. UNCHANGED <<srv, eng>> /\ toCli' = Enqueue(toCli, full)
            BY <1>9, <2>4 DEF OnStateRequest
        <3> HIDE DEF full
        <3>2. /\ ~NotYet(srv, toCli) /\ ~(Here(srv, cli) /\ Prompted(cli))
              /\ Open(srv) /\ Here(srv, cli) => cli.clientTurn = eng.turn
            BY <1>1, <1>2, <1>4, <1>9, <2>4, Heard DEF m
        <3>3. ASSUME Open(srv)
              PROVE  /\ full \in Shows(srv.session, eng, b)
                     /\ Here(srv, cli) => full \in From(srv.session, cli.clientTurn)
            <4>1. full.seq = eng.turn + 1
                BY <1>1, <2>2, <3>3 DEF Paced, Level
            <4> QED BY <2>1, <2>2, <3>2, <3>3, <4>1 DEF Shows, From
        <3>4. Fitting(srv, eng, cli, toCli, b, full)
            BY <2>2, <3>2, <3>3 DEF Fitting, NotYet
        <3>5. Paced(srv, eng, cli, Enqueue(toCli, full), ts, b)
            BY <1>4, <1>5, <3>4, PacedSend
        <3> QED BY <1>3, <3>1, <3>5 DEF ServerPaced
    <2> QED BY <2>3, <2>4
<1> QED BY <1>3, <1>6, <1>7, <1>8, <1>9

\* serverAuthRetransmit()
LEMMA RetransmitPace ==
    ASSUME NEW s, GoodServer(s), s.mode = "NETWORKED", s.session \in Sessions,
           NEW e \in Engines, NEW c \in Clients, NEW tc \in Seq(ServerPkts),
           NEW ts, NEW b, Paced(s, e, c, tc, ts, b), Ordered(s, e, c, tc)
    PROVE  LET r == Retransmit(s, tc)
           IN  /\ Paced(r.srv, e, c, r.net, ts, b)
               /\ r.srv.phase = s.phase \/ r.srv.phase = "FINISHED"
               /\ r.srv.pendingRemoteAction = s.pendingRemoteAction
               /\ r.srv.mode = s.mode
<1>1. s \in Servers /\ (s.awaitingAccept => ~s.peerReady)
    BY DEF GoodServer, Ordered, ServerInOrder
<1>2. CASE s.awaitingAccept /\ OutOfTries(s)
    <2> DEFINE t == [s EXCEPT !.phase = "FINISHED", !.awaitingAccept = FALSE]
    <2>1. /\ SameCount(s, t) /\ t.phase = "FINISHED" /\ t.mode = s.mode
          /\ t.pendingRemoteAction = s.pendingRemoteAction
          /\ t.unackedUpdate = s.unackedUpdate
        BY <1>1 DEF Servers, SameCount
    <2>2. Retransmit(s, tc) = [srv |-> t, net |-> tc]
        BY <1>2 DEF Retransmit
    <2> HIDE DEF t
    <2>3. Paced(t, e, c, tc, ts, b)
        BY <2>1, PacedQuiet DEF Open
    <2> QED BY <2>1, <2>2, <2>3
<1>3. CASE s.awaitingAccept /\ ~OutOfTries(s)
    <2> DEFINE t == [s EXCEPT !.challengeTries = @ + 1]
               p == Challenge(s.session)
    <2>1. /\ SameCount(s, t) /\ t.phase = s.phase /\ t.mode = s.mode
          /\ t.pendingRemoteAction = s.pendingRemoteAction
          /\ t.unackedUpdate = s.unackedUpdate /\ t.awaitingAccept
        BY <1>1, <1>3 DEF Servers, SameCount
    <2>2. /\ p \in ServerPkts /\ p.sess = t.session /\ p.type = "CHALLENGE"
          /\ ~t.peerReady
        BY <1>1, <1>3, <2>1 DEF Challenge, ServerPkts, SameCount
    <2>3. Retransmit(s, tc) = [srv |-> t, net |-> Enqueue(tc, p)]
        BY <1>3 DEF Retransmit
    <2> HIDE DEF t, p
    <2>4. Paced(t, e, c, tc, ts, b)
        BY <2>1, <2>2, PacedQuiet DEF Open
    <2>5. Paced(t, e, c, Enqueue(tc, p), ts, b)
        BY <2>2, <2>4, PacedSend DEF Fitting, Boards
    <2> QED BY <2>1, <2>3, <2>5
<1>4. CASE ~s.awaitingAccept /\ s.unackedUpdate
    <2> DEFINE p == s.lastUpdate
    <2>1. /\ p \in ServerPkts /\ p.sess = s.session /\ p.seq = s.updateSeq
          /\ p.type = "UPDATE" /\ s.peerReady
        BY <1>4 DEF GoodServer, ServerBuffer, ServerPkts, UpdatePkts, Ordered,
                    ServerInOrder, Paced, Fresh, Idle
    <2>2. ASSUME Open(s)
          PROVE  /\ p \in Shows(s.session, e, b)
                 /\ Here(s, c) => p \in From(s.session, c.clientTurn)
        <3>1. /\ p \in Shows(s.session, e, b) /\ p.seq = e.turn + 1
              /\ e.turn \in Nat /\ c.clientTurn \in Nat
              /\ Here(s, c) => c.clientTurn <= e.turn
            <4>1. c.clientTurn \in Byte
                BY DEF Clients
            <4> QED BY <1>4, <2>1, <2>2, <4>1, PacketRange
                    DEF Paced, Level, WithServer, Engines
        <3> QED BY <2>1, <3>1 DEF From
    <2>3. Retransmit(s, tc) = [srv |-> s, net |-> Enqueue(tc, p)]
        BY <1>4 DEF Retransmit
    <2>4. Fitting(s, e, c, tc, b, p)
        BY <2>1, <2>2 DEF Fitting
    <2>5. Paced(s, e, c, Enqueue(tc, p), ts, b)
        BY <2>4, PacedSend
    <2> QED BY <2>3, <2>5
<1>5. CASE ~s.awaitingAccept /\ ~s.unackedUpdate
    BY <1>5 DEF Retransmit
<1> QED BY <1>2, <1>3, <1>4, <1>5

\* resolveTurn()
LEMMA ResolvePace ==
    ASSUME MaxSeq <= 255, NEW s \in Servers, s.session \in Sessions,
           s.mode = "NETWORKED", s.phase = "WAIT_REMOTE", s.pendingRemoteAction,
           s.updateSeq = srv.updateSeq,
           eng \in Engines, cli \in Clients, NEW tc \in Seq(ServerPkts),
           Ordered(s, eng, cli, tc), NEW b \in Alive,
           Paced(s, eng, cli, tc, toSrv, b), ResolveTurn(s, tc), UNCHANGED toSrv
    PROVE  ServerPaced
<1>1. PICK f \in ExecuteTurn(eng) :
        LET over == f.result # "ONGOING"
            u == SendUpdate(
                   [s EXCEPT
                      !.playerWon = @ \/ f.result = "P1_WIN",
                      !.pendingRemoteAction = over,
                      !.phase = IF over THEN "FINISHED" ELSE "WAIT_ACTION"],
                   f, tc)
        IN  eng' = f /\ srv' = u.srv /\ toCli' = u.net
    BY DEF ResolveTurn
<1> DEFINE d == [s EXCEPT
                   !.playerWon = @ \/ f.result = "P1_WIN",
                   !.pendingRemoteAction = (f.result # "ONGOING"),
                   !.phase = IF f.result # "ONGOING" THEN "FINISHED"
                                                      ELSE "WAIT_ACTION"]
<1>2. /\ eng' = f /\ srv' = SendUpdate(d, f, tc).srv
      /\ toCli' = SendUpdate(d, f, tc).net
    BY <1>1
<1>3. /\ (IF f.result # "ONGOING" THEN "FINISHED" ELSE "WAIT_ACTION") \in Phases
      /\ (s.playerWon \/ f.result = "P1_WIN") \in BOOLEAN
      /\ (f.result # "ONGOING") \in BOOLEAN
    BY NamesType
<1>4. Open(s) /\ eng.pend[0] # NoAct /\ eng.pend[1] # NoAct
    BY DEF Paced, Fresh, Idle, Level, Open
<1>5. /\ d \in Servers /\ d.session = s.session /\ d.mode = s.mode
      /\ d.peerReady /\ d.updateSeq = s.updateSeq
      /\ d.phase = (IF f.result # "ONGOING" THEN "FINISHED" ELSE "WAIT_ACTION")
      /\ d.pendingRemoteAction = (f.result # "ONGOING")
    BY <1>3, <1>4 DEF Servers, Open
<1> HIDE DEF d
<1>6. f \in Engines /\ s.updateSeq < MaxSeq
    BY ExecuteTurnType DEF ResolveTurn, CanUpdate
<1>7. CASE f.result # "ONGOING"
    <2>1. Paced(srv', f, cli, toCli', toSrv, b)
        BY <1>2, <1>4, <1>5, <1>6, <1>7, PacedLast DEF Open
    <2> QED BY <1>2, <2>1 DEF ServerPaced
<1>8. CASE f.result = "ONGOING"
    <2>1. Ready(eng)
        BY <1>4, <1>8 DEF ExecuteTurn, Ready, Side
    <2>2. f.turn = eng.turn + 1 /\ f.pend[1] = NoAct
        BY <2>1 DEF ExecuteTurn, Side
    <2>3. tc \in Seq({p \in ServerPkts : p.type \in Boards /\ p.sess = s.session
                                            => p.seq <= s.updateSeq})
        BY SeqMonotonic DEF Ordered, LinkInOrder, Coming
    <2>4. Paced(srv', f, cli, toCli', toSrv, eng.alive) /\ eng.alive \in Alive
        BY <1>2, <1>4, <1>5, <1>6, <1>8, <2>2, <2>3, PacedPlay DEF Engines, Alive
    <2> QED BY <1>2, <2>4 DEF ServerPaced
<1> QED BY <1>7, <1>8

LEMMA TickPace ==
    ASSUME MaxSeq <= 255, TypeInv, TurnInv, PaceInv, ServerTick PROVE ServerPaced
<1>1. PICK due \in BOOLEAN, held \in BOOLEAN, silent \in BOOLEAN :
        ServerTickWhen(due, held, silent)
    BY DEF ServerTick, TypeInv, TypeOK, Servers
<1> DEFINE r == IF due THEN Retransmit(srv, toCli)
                       ELSE [srv |-> srv, net |-> toCli]
           s == r.srv
<1>2. /\ srv \in Servers /\ eng \in Engines /\ cli \in Clients /\ GoodServer(srv)
      /\ srv.mode = "NETWORKED" /\ srv.session \in Sessions
      /\ toCli \in Seq(ServerPkts) /\ Ordered(srv, eng, cli, toCli)
    BY <1>1 DEF ServerTickWhen, TypeInv, TypeOK, ServerOn, GoodServer, TurnInv
<1>3. PICK b \in Alive : Paced(srv, eng, cli, toCli, toSrv, b)
    BY DEF PaceInv
<1>4. /\ s \in Servers /\ r.net \in Seq(ServerPkts) /\ SameCount(srv, s)
      /\ Ordered(s, eng, cli, r.net) /\ Paced(s, eng, cli, r.net, toSrv, b)
      /\ s.mode = "NETWORKED"
    <2>1. CASE due
        BY <1>2, <1>3, <2>1, RetransmitType, RetransmitOrdered, RetransmitPace
           DEF GoodServer
    <2>2. CASE ~due
        BY <1>2, <1>3, <2>2 DEF SameCount
    <2> QED BY <2>1, <2>2
<1>5. /\ UNCHANGED toSrv
      /\ \/ srv' = ServerExited(s) /\ toCli' = r.net /\ UNCHANGED eng
         \/ /\ eng' = IF eng.result = "ONGOING" THEN Forfeit(eng, 1) ELSE eng
            /\ srv' = [s EXCEPT !.phase = "FINISHED"]
            /\ toCli' = r.net
         \/ s.phase = "WAIT_REMOTE" /\ s.pendingRemoteAction /\ ResolveTurn(s, r.net)
         \/ srv' = s /\ toCli' = r.net /\ UNCHANGED eng
    BY <1>1 DEF ServerTickWhen
<1> HIDE DEF r, s
<1>6. CASE srv' = ServerExited(s) /\ toCli' = r.net /\ UNCHANGED eng
    <2>1. /\ SameCount(s, srv') /\ srv'.mode = "OFF"
          /\ srv'.pendingRemoteAction = s.pendingRemoteAction
        BY <1>4, <1>6 DEF ServerExited, Servers, SameCount
    <2>2. Paced(srv', eng, cli, r.net, toSrv, b)
        BY <1>4, <2>1, PacedQuiet DEF Open
    <2> QED BY <1>5, <1>6, <2>2 DEF ServerPaced
<1>7. CASE /\ eng' = IF eng.result = "ONGOING" THEN Forfeit(eng, 1) ELSE eng
           /\ srv' = [s EXCEPT !.phase = "FINISHED"]
           /\ toCli' = r.net
    <2>1. /\ SameCount(s, srv') /\ srv'.phase = "FINISHED"
          /\ srv'.pendingRemoteAction = s.pendingRemoteAction
          /\ srv'.unackedUpdate = s.unackedUpdate
        BY <1>4, <1>7 DEF Servers, SameCount
    <2>2. /\ eng'.turn = eng.turn /\ eng'.pend[1] = eng.pend[1]
          /\ eng'.alive = eng.alive
        <3>1. Forfeit(eng, 1).alive = eng.alive
            BY <1>2 DEF Forfeit, Engines
        <3> QED BY <1>2, <1>7, <3>1, EngineTurns DEF Side
    <2>3. Paced(srv', eng', cli, r.net, toSrv, b)
        BY <1>4, <2>1, <2>2, PacedQuiet DEF Open
    <2> QED BY <1>5, <1>7, <2>3 DEF ServerPaced
<1>8. CASE s.phase = "WAIT_REMOTE" /\ s.pendingRemoteAction /\ ResolveTurn(s, r.net)
    <2>1. s.session \in Sessions /\ s.updateSeq = srv.updateSeq
        BY <1>2, <1>4 DEF SameCount
    <2> QED BY <1>2, <1>4, <1>5, <1>8, <2>1, ResolvePace
<1>9. CASE srv' = s /\ toCli' = r.net /\ UNCHANGED eng
    BY <1>4, <1>5, <1>9 DEF ServerPaced
<1> QED BY <1>5, <1>6, <1>7, <1>8, <1>9

LEMMA KeyPace ==
    ASSUME MaxSeq <= 255, TerminalHeld, TypeInv, TurnInv, PaceInv, ServerKey
    PROVE  ServerPaced
<1>1. PICK b \in Alive : Paced(srv, eng, cli, toCli, toSrv, b)
    BY DEF PaceInv
<1>2. /\ srv \in Servers /\ eng \in Engines /\ cli \in Clients
      /\ toCli \in Seq(ServerPkts)
      /\ srv.mode = "NETWORKED" /\ srv.session \in Sessions /\ UNCHANGED toSrv
    BY DEF TypeInv, TypeOK, ServerOn,
           ServerKey, ServerKeyFinished, ServerKeyEsc, ServerKeyFlee,
           ServerKeySwitchMenu, ServerKeyPick, ServerEvicted, ServerHasKeys,
           ServerKeys
<1>3. ASSUME srv.phase # "FINISHED", ServerHasKeys PROVE Open(srv)
    BY <1>1, <1>2, <1>3 DEF ServerHasKeys, Paced, Fresh, Idle, Open
<1>4. CASE ServerKeyEsc
    <2> DEFINE d == [srv EXCEPT !.phase = "FINISHED"]
               f == Forfeit(eng, 0)
    <2>1. srv.peerReady
        BY <1>3, <1>4 DEF ServerKeyEsc, Open
    <2>2. /\ d \in Servers /\ d.session = srv.session /\ d.peerReady
          /\ d.updateSeq = srv.updateSeq /\ d.phase = "FINISHED"
        BY <1>2, <2>1, NamesType DEF Servers
    <2>3. /\ eng' = f /\ srv' = SendUpdate(d, f, toCli).srv
          /\ toCli' = SendUpdate(d, f, toCli).net /\ srv.updateSeq < MaxSeq
        BY <1>4 DEF ServerKeyEsc, CanUpdate
    <2>4. f \in Engines /\ f.turn = eng.turn /\ f.pend = eng.pend
        BY <1>2, ForfeitType, EngineTurns DEF Side
    <2> HIDE DEF d, f
    <2>5. Paced(srv', f, cli, toCli', toSrv, b)
        BY <1>1, <1>2, <2>1, <2>2, <2>3, <2>4, PacedLast
    <2> QED BY <1>2, <2>3, <2>5 DEF ServerPaced
<1>5. CASE ~ServerKeyEsc
    <2>1. /\ SameCount(srv, srv')
          /\ srv'.pendingRemoteAction = srv.pendingRemoteAction
          /\ srv'.mode = "NETWORKED"
               => /\ srv'.unackedUpdate = srv.unackedUpdate
                  /\ srv'.awaitingAccept = srv.awaitingAccept
        BY <1>2, <1>5 DEF ServerKey, ServerKeyFinished, ServerKeyFlee,
            ServerKeySwitchMenu, ServerKeyPick, ServerEvicted, ServerExited,
            Servers, SameCount
    <2>2. Open(srv') => Open(srv)
        <3>1. CASE ServerKeyFlee \/ ServerKeySwitchMenu \/ ServerKeyPick
            <4>1. srv.phase # "FINISHED" /\ ServerHasKeys
                BY <3>1 DEF ServerKeyFlee, ServerKeySwitchMenu, ServerKeyPick
            <4> QED BY <1>3, <4>1
        <3>2. CASE ServerKeyFinished \/ ServerEvicted
            <4>1. srv'.mode = "OFF" \/ srv'.phase = srv.phase
                BY <1>2, <3>2 DEF ServerKeyFinished, ServerEvicted, ServerExited,
                                  Servers
            <4> QED BY <1>2, <2>1, <4>1 DEF Open, SameCount
        <3> QED BY <1>5, <3>1, <3>2 DEF ServerKey
    <2>3. srv'.mode = "NETWORKED" /\ ~srv'.peerReady
            => srv'.awaitingAccept \/ srv'.phase = "FINISHED"
        <3>1. CASE ServerKeyFlee \/ ServerKeySwitchMenu \/ ServerKeyPick
            <4>1. srv.phase # "FINISHED" /\ ServerHasKeys
                BY <3>1 DEF ServerKeyFlee, ServerKeySwitchMenu, ServerKeyPick
            <4> QED BY <1>3, <2>1, <4>1 DEF Open, SameCount
        <3>2. CASE ServerKeyFinished \/ ServerEvicted
            <4>1. srv'.mode = "OFF" \/ srv'.phase = srv.phase
                BY <1>2, <3>2 DEF ServerKeyFinished, ServerEvicted, ServerExited,
                                  Servers
            <4> QED BY <1>1, <1>2, <2>1, <4>1 DEF Paced, Fresh, Idle, SameCount
        <3> QED BY <1>5, <3>1, <3>2 DEF ServerKey
    <2>4. /\ eng'.turn = eng.turn /\ eng'.pend[1] = eng.pend[1]
          /\ eng'.alive = eng.alive
        <3>1. \/ eng' = eng \/ eng' = Forfeit(eng, 0)
              \/ \E mv \in Moves : eng' = Submit(eng, 0, mv)
            BY <1>5 DEF ServerKey, ServerKeyFinished, ServerKeyFlee,
                ServerKeySwitchMenu, ServerKeyPick, ServerEvicted
        <3>2. /\ Forfeit(eng, 0).alive = eng.alive
              /\ \A mv \in Moves : Submit(eng, 0, mv).alive = eng.alive
            BY <1>2 DEF Forfeit, Submit, Engines
        <3> QED BY <1>2, <3>1, <3>2, EngineTurns, NothingPending DEF Side
    <2>5. Open(srv') /\ srv'.phase = "WAIT_REMOTE" => eng'.pend[0] # NoAct
        <3>1. CASE ServerKeyPick
            <4>1. PICK mv \in Moves : eng' = Submit(eng, 0, mv)
                BY <3>1 DEF ServerKeyPick
            <4> QED BY <1>2, <4>1, EngineAssumption DEF Submit, Engines, Side
        <3>2. CASE ~ServerKeyPick
            <4>1. ~Open(srv') \/ srv'.phase # "WAIT_REMOTE"
                  \/ (srv'.phase = srv.phase /\ eng' = eng)
                BY <1>2, <1>5, <3>2
                   DEF ServerKey, ServerKeyFinished, ServerKeyFlee,
                       ServerKeySwitchMenu, ServerEvicted, ServerExited, Servers,
                       Open
            <4> QED BY <1>1, <2>2, <4>1 DEF Paced, Level
        <3> QED BY <3>1, <3>2
    <2>6. Paced(srv', eng', cli, toCli, toSrv, b)
        BY <1>1, <2>1, <2>2, <2>3, <2>4, <2>5, PacedQuiet
    <2>7. toCli' = toCli \/ toCli' = Enqueue(toCli, ForfeitPkt(srv.session))
        BY <1>5 DEF ServerKey, ServerKeyFinished, ServerKeyFlee,
            ServerKeySwitchMenu, ServerKeyPick, ServerEvicted
    <2>8. /\ ForfeitPkt(srv.session) \in ServerPkts
          /\ ForfeitPkt(srv.session).sess = srv.session
          /\ ForfeitPkt(srv.session).type = "FORFEIT"
        BY <1>2 DEF ForfeitPkt, ServerPkts
    <2>9. Fitting(srv', eng', cli, toCli, b, ForfeitPkt(srv.session))
        BY <2>1, <2>8 DEF Fitting, Boards, SameCount
    <2>10. Paced(srv', eng', cli, toCli', toSrv, b)
        BY <1>2, <2>6, <2>7, <2>9, PacedSend
    <2> QED BY <1>2, <2>10 DEF ServerPaced
<1> QED BY <1>4, <1>5

-----------------------------------------------------------------------------
(* The client, the server standing still. *)

\* A step that looks at no board.
LEMMA PacedClient ==
    ASSUME NEW s, NEW e, NEW c, NEW tc, NEW ts, NEW b, Paced(s, e, c, tc, ts, b),
           NEW d, d.mode = c.mode, d.session = c.session,
           d.clientTurn = c.clientTurn, d.lastApplied = c.lastApplied,
           d.alive = c.alive, d.preAccept \in {c.preAccept, NoPkt},
           Prompted(d) => Prompted(c),
           NotYet(s, tc) /\ Here(s, c) => Untouched(d)
    PROVE  Paced(s, e, d, tc, ts, b)
<1>1. Here(s, d) = Here(s, c)
    BY DEF Here
<1>2. Fresh(s, e, d, tc, ts)
    BY <1>1 DEF Paced, Fresh
<1>3. Echoed(s, d, ts)
    BY <1>1 DEF Paced, Echoed
<1>4. Level(s, e, d, tc, ts, b)
    <2>1. WithServer(s, e, c, tc, ts, b) => WithServer(s, e, d, tc, ts, b)
        BY DEF WithServer
    <2> QED BY <1>1, <2>1 DEF Paced, Level
<1> QED BY <1>2, <1>3, <1>4 DEF Paced

\* exit()
LEMMA PacedExit ==
    ASSUME NEW s, NEW e, NEW c, NEW tc, NEW ts, NEW b, Paced(s, e, c, tc, ts, b),
           NEW d, d.mode = "OFF", d.clientTurn = 0, d.preAccept = NoPkt
    PROVE  Paced(s, e, d, tc, ts, b)
<1>1. ~Here(s, d)
    BY DEF Here
<1> QED BY <1>1 DEF Paced, Fresh, Echoed, Level

\* No own move of the server's turn t is under way.
ActedBefore(x, t) ==
    {p \in ClientPkts :
        p.type = "ACTION_V2" /\ p.sess = x /\ p.act \in Moves => p.turn < t}

\* A packet the client may send as it stands.
Saying(s, e, c, tc, ts, m) ==
    /\ m \in ClientPkts /\ m.sess = c.session /\ c.mode = "NETWORKED"
    /\ m.type # "ACCEPT" /\ Here(s, c) => ~NotYet(s, tc) /\ ~Prompted(c)
    /\ m.type = "ACTION_V2" =>
          m.acked = c.lastApplied /\ m.turn = c.clientTurn
    /\ m.type = "STATE_REQUEST" /\ Here(s, c) /\ Open(s) =>
          /\ c.clientTurn = e.turn /\ e.pend[1] = NoAct
          /\ ts \in Seq(ActedBefore(s.session, e.turn))

LEMMA PacedSays ==
    ASSUME NEW s, NEW e, NEW c \in Clients, NEW tc, NEW ts \in Seq(ClientPkts),
           NEW b, Paced(s, e, c, tc, ts, b), NEW m, Saying(s, e, c, tc, ts, m)
    PROVE  Paced(s, e, c, tc, Enqueue(ts, m), b)
<1> DEFINE td == Enqueue(ts, m)
           x  == s.session
<1>1. /\ m \in ClientPkts /\ m.sess = c.session /\ c.mode = "NETWORKED"
      /\ m.type \in {"ACCEPT", "STATE_REQUEST", "ACTION_V2"}
      /\ (Here(s, c) <=> m.sess = x)
    BY DEF Saying, Here, ClientPkts
<1>2. \A S : ts \in Seq(S) /\ m \in S => td \in Seq(S)
    BY EnqueueType
<1>3. NotYet(s, tc) \/ (Here(s, c) /\ Prompted(c)) => Unheard(s, e, tc, td)
    <2>1. NotYet(s, tc) \/ (Here(s, c) /\ Prompted(c)) => m \in Hush(x)
        BY <1>1 DEF Saying, Hush
    <2> QED BY <1>2, <2>1 DEF Paced, Fresh, Unheard
<1>4. Fresh(s, e, c, tc, td)
    BY <1>3 DEF Paced, Fresh
<1>5. c.lastApplied \in Nat /\ c.clientTurn \in Nat
    <2>1. c.lastApplied \in Byte /\ c.clientTurn \in Byte
        BY DEF Clients
    <2> QED BY <2>1, PacketRange
<1>6. Echoed(s, c, td)
    <2>1. m \in AckedBy(x, c.lastApplied)
        BY <1>1, <1>5 DEF Saying, AckedBy
    <2> QED BY <1>2, <2>1 DEF Paced, Echoed
<1>7. ASSUME Here(s, c), Open(s) PROVE WithServer(s, e, c, tc, td, b)
    <2>1. WithServer(s, e, c, tc, ts, b)
        BY <1>7 DEF Paced, Level
    <2>2. e.pend[1] # NoAct \/ c.clientTurn # e.turn => td \in Seq(NoAsk(x))
        <3>1. e.pend[1] # NoAct \/ c.clientTurn # e.turn => m \in NoAsk(x)
            BY <1>1, <1>7 DEF Saying, NoAsk
        <3> QED BY <1>2, <2>1, <3>1 DEF WithServer
    <2>3. td \in Seq(UpTo(x, c.clientTurn))
        <3>1. m \in UpTo(x, c.clientTurn)
            BY <1>1, <1>5 DEF Saying, UpTo
        <3> QED BY <1>2, <2>1, <3>1 DEF WithServer
    <2>4. Chain(td, AsksFirst(x, e.turn))
        <3>1. CASE m.type = "STATE_REQUEST"
            <4>1. ts \in Seq(ActedBefore(x, e.turn))
                BY <1>7, <3>1 DEF Saying
            <4>2. ActedBefore(x, e.turn)
                    \subseteq {q \in ClientPkts : <<q, m>> \in AsksFirst(x, e.turn)}
                BY <1>1 DEF ActedBefore, AsksFirst
            <4>3. ts \in Seq({q \in ClientPkts : <<q, m>> \in AsksFirst(x, e.turn)})
                BY <4>1, <4>2, SeqMonotonic
            <4> QED BY <2>1, <4>3, ChainEnqueue DEF WithServer
        <3>2. CASE m.type # "STATE_REQUEST"
            <4>1. ClientPkts
                    \subseteq {q \in ClientPkts : <<q, m>> \in AsksFirst(x, e.turn)}
                BY <1>1, <3>2 DEF AsksFirst
            <4>2. ts \in Seq({q \in ClientPkts : <<q, m>> \in AsksFirst(x, e.turn)})
                BY <4>1, SeqMonotonic
            <4> QED BY <2>1, <4>2, ChainEnqueue DEF WithServer
        <3> QED BY <3>1, <3>2
    <2> QED BY <2>1, <2>2, <2>3, <2>4 DEF WithServer
<1> HIDE DEF td
<1>8. Paced(s, e, c, tc, td, b)
    BY <1>4, <1>6, <1>7 DEF Paced, Level
<1> QED BY <1>8 DEF td

\* A board of the server's battle has left no challenge of it behind.
LEMMA BoardHere ==
    ASSUME NEW s, NEW e, NEW c, NEW tc \in Seq(ServerPkts), NEW ts, NEW b,
           Paced(s, e, c, tc, ts, b), 1 \in DOMAIN tc,
           tc[1].type \in Boards, tc[1].sess = s.session
    PROVE  ~NotYet(s, RemoveAt(tc, 1))
<1>1. tc[1] \in ServerPkts /\ \A S : tc \in Seq(S) => tc[1] \in S
    BY ElementOfSeq, LenProperties
<1>2. s.peerReady
    BY <1>1 DEF Paced, Fresh, Idle, NoBoard
<1>3. RemoveAt(tc, 1) \in Seq({q \in ServerPkts : <<tc[1], q>> \in OfferFirst})
    BY ChainHead DEF Paced, Fresh
<1>4. {q \in ServerPkts : <<tc[1], q>> \in OfferFirst} \subseteq NoOffer(s.session)
    BY DEF OfferFirst, NoOffer
<1>5. RemoveAt(tc, 1) \in Seq(NoOffer(s.session))
    BY <1>3, <1>4, SeqMonotonic
<1> QED BY <1>2, <1>5 DEF NotYet

\* A board m of the server's battle, at or behind the client's place in it.
Due(s, e, c, tc, b, m) ==
    Here(s, c) =>
        /\ ~NotYet(s, tc) /\ ~Prompted(c) /\ tc \in Seq(Later(m))
        /\ c.lastApplied <= m.seq /\ m.seq <= s.updateSeq
        /\ Open(s) => /\ m \in Shows(s.session, e, b)
                      /\ m \in From(s.session, c.clientTurn)

\* The board of an UPDATE is laid over the client's, and applied or not.
LEMMA PacedShown ==
    ASSUME NEW s \in Servers, NEW e \in Engines, NEW c \in Clients,
           NEW tc \in Seq(ServerPkts), NEW ts \in Seq(ClientPkts), NEW b,
           Paced(s, e, c, tc, ts, b), c.mode = "NETWORKED",
           NEW m \in UpdatePkts, m.sess = c.session, Due(s, e, c, tc, b, m),
           NEW d, d.mode = c.mode, d.session = c.session, ~Prompted(d),
           d.clientTurn = m.turn, d.alive = Overlay(c.alive, m),
           d.lastApplied \in {c.lastApplied, m.seq}, d.preAccept = c.preAccept
    PROVE  Paced(s, e, d, tc, ts, b)
<1> DEFINE x == s.session
<1>1. Here(s, d) = Here(s, c)
    BY DEF Here
<1>2. /\ c.lastApplied \in Nat /\ c.clientTurn \in Nat /\ m.seq \in Nat
      /\ m.turn \in Nat /\ e.turn \in Nat /\ s.updateSeq \in Nat
      /\ m \in ServerPkts /\ m.type = "UPDATE" /\ m.type \in Boards
    <2>1. /\ c.lastApplied \in Byte /\ c.clientTurn \in Byte /\ m.seq \in Byte
          /\ m.turn \in Byte /\ e.turn \in Nat /\ s.updateSeq \in Byte
          /\ m \in ServerPkts /\ m.type = "UPDATE" /\ m.type \in Boards
        BY DEF Clients, UpdatePkts, Engines, Servers, ServerPkts, Boards
    <2> QED BY <2>1, PacketRange
<1>3. Fresh(s, e, d, tc, ts)
    BY <1>1 DEF Paced, Fresh, Due
<1>4. Echoed(s, d, ts)
    <2> SUFFICES ASSUME Here(s, c) PROVE Echoed(s, d, ts)
        BY <1>1 DEF Echoed
    <2>1. c.lastApplied <= d.lastApplied /\ d.lastApplied <= s.updateSeq
        BY <1>2 DEF Due
    <2>2. AckedBy(x, c.lastApplied) \subseteq AckedBy(x, d.lastApplied)
        BY <1>2, <2>1, PacketRange DEF AckedBy
    <2>3. ts \in Seq(AckedBy(x, d.lastApplied))
        BY <2>2, SeqMonotonic DEF Paced, Echoed
    <2>4. s.mode = "NETWORKED" /\ ~s.unackedUpdate /\ s.updateSeq # 0
            => d.lastApplied = s.updateSeq
        BY <1>2, <2>1 DEF Paced, Echoed
    <2> QED BY <2>3, <2>4 DEF Echoed
<1>5. ASSUME Here(s, c), Open(s) PROVE WithServer(s, e, d, tc, ts, b)
    <2>1. /\ WithServer(s, e, c, tc, ts, b) /\ s.updateSeq = e.turn + 1
          /\ tc \in Seq(Shows(x, e, b))
        BY <1>5 DEF Paced, Level
    <2>2. /\ m.sess = x /\ m.seq = m.turn + 1 /\ m.seq >= c.clientTurn + 1
          /\ m.seq <= s.updateSeq /\ c.lastApplied <= m.seq
          /\ m.seq = e.turn + 1 => m.alive = e.alive
          /\ m.seq = e.turn => m.alive = b
        BY <1>2, <1>5 DEF Due, Shows, From, Here
    <2>3. /\ c.clientTurn <= m.turn /\ m.turn <= e.turn /\ e.turn <= m.turn + 1
          /\ d.lastApplied <= m.turn + 1
        BY <1>2, <2>1, <2>2 DEF WithServer
    <2>4. /\ e.pend[1] # NoAct => m.turn = e.turn
          /\ e.pend[1] # NoAct \/ m.turn # e.turn => ts \in Seq(NoAsk(x))
        BY <1>2, <2>1, <2>3 DEF WithServer
    <2>5. ts \in Seq(UpTo(x, m.turn))
        <3>1. UpTo(x, c.clientTurn) \subseteq UpTo(x, m.turn)
            BY <1>2, <2>3, PacketRange DEF UpTo
        <3> QED BY <2>1, <3>1, SeqMonotonic DEF WithServer
    <2>6. tc \in Seq(From(x, m.turn))
        <3>1. tc \in Seq(From(x, c.clientTurn) \cap Later(m))
            BY <1>5, <2>1, SeqBoth DEF WithServer, Due
        <3>2. ASSUME NEW p \in From(x, c.clientTurn) \cap Later(m)
              PROVE  p \in From(x, m.turn)
            <4>1. p \in ServerPkts /\ Rises(m, p)
                BY <1>2, LaterDef DEF From
            <4>2. ASSUME p.type \in Boards, p.sess = x
                  PROVE  p.seq >= m.turn + 1
                         /\ (p.type = "FULL_STATE" => p.seq = m.turn + 1)
                <5>1. p.seq \in Nat /\ p.seq >= m.seq
                    BY <1>2, <2>2, <4>1, <4>2, CountRange DEF Rises
                <5>2. p.type = "FULL_STATE" => p.seq = c.clientTurn + 1
                    BY <3>2, <4>2 DEF From
                <5> QED BY <1>2, <2>2, <2>3, <5>1, <5>2
            <4> QED BY <4>1, <4>2 DEF From
        <3>3. From(x, c.clientTurn) \cap Later(m) \subseteq From(x, m.turn)
            BY <3>2
        <3> QED BY <3>1, <3>3, SeqMonotonic
    <2>7. d.alive[0] <= IF m.turn = e.turn THEN e.alive[0] ELSE b[0]
        <3>1. d.alive[0] = m.alive[0]
            BY DEF Overlay, Clients, Alive, Side
        <3>2. /\ m.turn = e.turn => m.alive = e.alive
              /\ m.turn # e.turn => m.alive = b
            BY <1>2, <2>2, <2>3
        <3>3. m.alive[0] \in Nat
            BY EngineAssumption DEF UpdatePkts, Alive, Side
        <3> QED BY <3>1, <3>2, <3>3
    <2> QED BY <1>2, <2>1, <2>3, <2>4, <2>5, <2>6, <2>7 DEF WithServer
<1> QED BY <1>1, <1>3, <1>4, <1>5 DEF Paced, Level

\* A board that hashes differently is the one of the turn just played: the
\* client has not acted in the turn it opens.
LEMMA Mismatch ==
    ASSUME NEW s \in Servers, NEW e \in Engines, NEW c \in Clients, NEW tc,
           NEW ts \in Seq(ClientPkts), NEW b \in Alive, Paced(s, e, c, tc, ts, b),
           NEW m \in UpdatePkts, m.sess = c.session, Due(s, e, c, tc, b, m),
           Here(s, c), Open(s), NEW levelUp, ~SameHash(c, m, levelUp)
    PROVE  /\ m.turn = e.turn /\ e.pend[1] = NoAct
           /\ ts \in Seq(ActedBefore(s.session, e.turn))
<1> DEFINE x == s.session
<1>1. /\ WithServer(s, e, c, tc, ts, b) /\ s.updateSeq = e.turn + 1
    BY DEF Paced, Level
<1>2. /\ c.clientTurn \in Nat /\ m.seq \in Nat /\ m.turn \in Nat /\ e.turn \in Nat
      /\ c.alive[0] \in Nat /\ m.alive[0] \in Nat /\ e.alive[0] \in Nat
      /\ b[0] \in Nat
      /\ m \in ServerPkts /\ m.type = "UPDATE" /\ m.type \in Boards
    <2>1. /\ c.clientTurn \in Byte /\ m.seq \in Byte /\ m.turn \in Byte
          /\ e.turn \in Nat /\ c.alive \in Alive /\ m.alive \in Alive
          /\ e.alive \in Alive
          /\ m \in ServerPkts /\ m.type = "UPDATE" /\ m.type \in Boards
        BY DEF Clients, UpdatePkts, Engines, ServerPkts, Boards, Alive
    <2>2. \A a \in Alive : a[0] \in Nat
        BY EngineAssumption DEF Alive, Side
    <2> QED BY <2>1, <2>2, PacketRange
<1>3. /\ m.seq = m.turn + 1 /\ m.seq >= c.clientTurn + 1 /\ m.real
      /\ m.seq <= s.updateSeq
      /\ m.seq = e.turn + 1 => m.alive = e.alive
      /\ m.seq = e.turn => m.alive = b
    BY <1>2 DEF Due, Shows, From, Here
<1>4. c.alive[0] > m.alive[0]
    <2>1. KnockOuts(c.alive, m) > 0
        BY <1>3 DEF SameHash
    <2>2. ~(0 > 0)
        OBVIOUS
    <2> QED BY <2>1, <2>2 DEF KnockOuts
<1>5. c.clientTurn # e.turn /\ m.turn = e.turn /\ c.clientTurn < e.turn
    <2>1. /\ c.clientTurn <= e.turn /\ e.turn <= c.clientTurn + 1
          /\ c.clientTurn = e.turn => c.alive[0] <= e.alive[0]
          /\ c.clientTurn # e.turn => c.alive[0] <= b[0]
        BY <1>1 DEF WithServer
    <2>2. m.alive # e.alive \/ c.clientTurn # e.turn
        BY <1>2, <1>4, <2>1
    <2>3. c.clientTurn # e.turn
        BY <1>1, <1>2, <1>3, <2>2
    <2>4. m.alive # b
        BY <1>2, <1>4, <2>1, <2>3
    <2>5. m.seq # e.turn
        BY <1>3, <2>4
    <2> QED BY <1>1, <1>2, <1>3, <2>1, <2>3, <2>5
<1>6. e.pend[1] = NoAct /\ ts \in Seq(UpTo(x, c.clientTurn))
    BY <1>1, <1>5 DEF WithServer
<1>7. UpTo(x, c.clientTurn) \subseteq ActedBefore(x, e.turn)
    BY <1>2, <1>5, PacketRange DEF UpTo, ActedBefore
<1> QED BY <1>5, <1>6, <1>7, SeqMonotonic

\* clientAuthSendActionV2()
LEMMA SendPace ==
    ASSUME NEW s, NEW e, NEW c \in Clients, c.session \in Sessions,
           c.mode = "NETWORKED", NEW tc, NEW ts \in Seq(ClientPkts), NEW b,
           Paced(s, e, c, tc, ts, b), NEW act \in Moves \cup {Flee, PureAck},
           Here(s, c) => ~NotYet(s, tc) /\ ~Prompted(c)
    PROVE  LET r == SendActionV2(c, ts, act)
           IN  Paced(s, e, r.cli, tc, r.net, b)
<1> DEFINE p == ActionV2(c.session, c.clientTurn, act, c.lastApplied)
           d == SendActionV2(c, ts, act).cli
<1>1. /\ p \in ClientPkts /\ p.type = "ACTION_V2" /\ p.sess = c.session
      /\ p.turn = c.clientTurn /\ p.acked = c.lastApplied
    BY DEF ActionV2, ClientPkts, Clients
<1>2. SendActionV2(c, ts, act).net = Enqueue(ts, p)
    BY DEF SendActionV2
<1> HIDE DEF p
<1>3. Paced(s, e, c, tc, Enqueue(ts, p), b)
    BY <1>1, PacedSays DEF Saying
<1>4. /\ d.mode = c.mode /\ d.session = c.session /\ d.phase = c.phase
      /\ d.clientTurn = c.clientTurn /\ d.lastApplied = c.lastApplied
      /\ d.alive = c.alive /\ d.preAccept = c.preAccept
    BY DEF SendActionV2, Clients
<1> HIDE DEF d
<1>5. Paced(s, e, d, tc, Enqueue(ts, p), b)
    BY <1>3, <1>4, PacedClient DEF Prompted
<1> QED BY <1>2, <1>5 DEF d

\* clientAuthOnUpdatePkt() once the engine is started.
LEMMA ApplyPace ==
    ASSUME NEW s \in Servers, NEW e \in Engines, NEW c, GoodClient(c),
           c.mode = "NETWORKED", ~Prompted(c),
           NEW tc \in Seq(ServerPkts), NEW ts \in Seq(ClientPkts), NEW b \in Alive,
           Paced(s, e, c, tc, ts, b), NEW m \in UpdatePkts, m.sess = c.session,
           Due(s, e, c, tc, b, m), NEW levelUp
    PROVE  LET r == ApplyUpdate(c, ts, m, levelUp)
           IN  Paced(s, e, r.cli, tc, r.net, b)
<1> DEFINE r == ApplyUpdate(c, ts, m, levelUp)
           g == Shown(c, m)
<1>1. /\ c \in Clients /\ c.session \in Sessions
      /\ c.actionType \in Moves \cup {NoAct, Flee}
      /\ Here(s, c) => ~NotYet(s, tc)
    BY DEF GoodClient, ClientOn, Clients, Due
<1>2. /\ g \in Clients /\ g.mode = c.mode /\ g.session = c.session
      /\ g.phase = c.phase /\ g.clientTurn = m.turn
      /\ g.alive = Overlay(c.alive, m) /\ g.lastApplied = c.lastApplied
      /\ g.preAccept = c.preAccept
    BY <1>1, ShownType DEF GoodClient, Shown, Clients
<1> HIDE DEF g
<1>3. CASE m.seq = c.lastApplied /\ c.lastApplied # 0
    <2> DEFINE d   == [c EXCEPT !.awaitingFirst = FALSE]
               act == IF c.actionType # NoAct THEN c.actionType ELSE PureAck
    <2>1. /\ d \in Clients /\ d.session = c.session /\ d.mode = c.mode
          /\ d.phase = c.phase /\ d.lastApplied = c.lastApplied
          /\ d.clientTurn = c.clientTurn /\ d.alive = c.alive
          /\ d.preAccept = c.preAccept
        BY <1>1 DEF Clients
    <2>2. act \in Moves \cup {Flee, PureAck}
        BY <1>1
    <2>3. r = SendActionV2(d, ts, act)
        BY <1>3 DEF ApplyUpdate
    <2> HIDE DEF d, act, r
    <2>4. Paced(s, e, d, tc, ts, b)
        BY <1>1, <2>1, PacedClient DEF Prompted
    <2>5. Here(s, d) => ~NotYet(s, tc) /\ ~Prompted(d)
        BY <1>1, <2>1 DEF Here, Prompted
    <2>6. d.session \in Sessions /\ d.mode = "NETWORKED"
        BY <1>1, <2>1
    <2> QED BY <2>1, <2>2, <2>3, <2>4, <2>5, <2>6, SendPace DEF r
<1>4. CASE ~(m.seq = c.lastApplied /\ c.lastApplied # 0)
           /\ ~SameHash(c, m, levelUp)
    <2> DEFINE d == [g EXCEPT !.needsFullState = TRUE]
               p == StateRequest(c.session)
    <2>1. /\ d \in Clients /\ d.mode = c.mode /\ d.session = c.session
          /\ d.phase = c.phase /\ d.clientTurn = m.turn
          /\ d.alive = Overlay(c.alive, m) /\ d.lastApplied = c.lastApplied
          /\ d.preAccept = c.preAccept
        BY <1>2 DEF Clients
    <2>2. p \in ClientPkts /\ p.type = "STATE_REQUEST" /\ p.sess = c.session
        BY <1>1 DEF StateRequest, ClientPkts
    <2>3. r = [cli |-> d, net |-> Enqueue(ts, p)]
        BY <1>4 DEF ApplyUpdate, g
    <2> HIDE DEF d, p, r
    <2>4. Paced(s, e, d, tc, ts, b)
        BY <1>1, <2>1, PacedShown DEF Prompted
    <2>5. Here(s, d) = Here(s, c) /\ ~Prompted(d)
        BY <2>1 DEF Here, Prompted
    <2>6. ASSUME Here(s, c), Open(s)
          PROVE  /\ d.clientTurn = e.turn /\ e.pend[1] = NoAct
                 /\ ts \in Seq(ActedBefore(s.session, e.turn))
        BY <1>1, <1>4, <2>1, <2>6, Mismatch
    <2>7. Saying(s, e, d, tc, ts, p)
        BY <1>1, <2>1, <2>2, <2>5, <2>6 DEF Saying
    <2>8. Paced(s, e, d, tc, Enqueue(ts, p), b)
        BY <2>1, <2>4, <2>7, PacedSays
    <2> QED BY <2>3, <2>8 DEF r
<1>5. CASE ~(m.seq = c.lastApplied /\ c.lastApplied # 0)
           /\ SameHash(c, m, levelUp) /\ m.result # "ONGOING"
    <2> DEFINE d == [g EXCEPT !.lastApplied = m.seq, !.phase = "FINISHED"]
    <2>1. m.seq \in Byte
        BY DEF UpdatePkts
    <2>2. /\ d \in Clients /\ d.mode = c.mode /\ d.session = c.session
          /\ d.phase = "FINISHED" /\ d.clientTurn = m.turn
          /\ d.alive = Overlay(c.alive, m) /\ d.lastApplied = m.seq
          /\ d.preAccept = c.preAccept
        BY <1>2, <2>1, NamesType DEF Clients
    <2>3. r = SendActionV2(d, ts, PureAck)
        BY <1>5 DEF ApplyUpdate, g
    <2> HIDE DEF d, r
    <2>4. Paced(s, e, d, tc, ts, b)
        BY <1>1, <2>2, PacedShown DEF Prompted
    <2>5. (Here(s, d) => ~NotYet(s, tc) /\ ~Prompted(d))
          /\ d.session \in Sessions /\ d.mode = "NETWORKED"
        BY <1>1, <2>2 DEF Here, Prompted
    <2>6. PureAck \in Moves \cup {Flee, PureAck}
        OBVIOUS
    <2> QED BY <2>2, <2>3, <2>4, <2>5, <2>6, SendPace DEF r
<1>6. CASE ~(m.seq = c.lastApplied /\ c.lastApplied # 0)
           /\ SameHash(c, m, levelUp) /\ m.result = "ONGOING"
    <2> DEFINE d == [g EXCEPT !.lastApplied = m.seq, !.phase = "WAIT_ACTION",
                              !.actionType = NoAct]
    <2>1. /\ d.mode = c.mode /\ d.session = c.session
          /\ d.phase = "WAIT_ACTION" /\ d.clientTurn = m.turn
          /\ d.alive = Overlay(c.alive, m) /\ d.lastApplied = m.seq
          /\ d.preAccept = c.preAccept
        BY <1>2 DEF Clients
    <2>2. r = [cli |-> d, net |-> ts]
        BY <1>6 DEF ApplyUpdate, g
    <2> HIDE DEF d, r
    <2>3. Paced(s, e, d, tc, ts, b)
        BY <1>1, <2>1, PacedShown DEF Prompted
    <2> QED BY <2>2, <2>3 DEF r
<1> QED BY <1>3, <1>4, <1>5, <1>6

\* clientAuthOnFullStatePkt(): the board of the turn the client is in.
LEMMA PacedFull ==
    ASSUME NEW s \in Servers, NEW e \in Engines, NEW c \in Clients,
           NEW tc \in Seq(ServerPkts), NEW ts \in Seq(ClientPkts), NEW b,
           Paced(s, e, c, tc, ts, b), c.mode = "NETWORKED",
           NEW m \in ServerPkts, m.type = "FULL_STATE", m.sess = c.session,
           Due(s, e, c, tc, b, m),
           NEW d, d.mode = c.mode, d.session = c.session, ~Prompted(d),
           d.clientTurn = c.clientTurn, d.alive = Overlay(c.alive, m),
           d.lastApplied = m.seq, d.preAccept = c.preAccept
    PROVE  Paced(s, e, d, tc, ts, b)
<1> DEFINE x == s.session
<1>1. Here(s, d) = Here(s, c) /\ m.type \in Boards
    BY DEF Here, Boards
<1>2. /\ c.lastApplied \in Nat /\ c.clientTurn \in Nat /\ m.seq \in Nat
      /\ e.turn \in Nat /\ s.updateSeq \in Nat
    <2>1. c.clientTurn \in Byte /\ e.turn \in Nat
        BY DEF Clients, Engines
    <2> QED BY <1>1, <2>1, PacketRange, CountRange
<1>3. Fresh(s, e, d, tc, ts)
    BY <1>1 DEF Paced, Fresh, Due
<1>4. Echoed(s, d, ts)
    <2> SUFFICES ASSUME Here(s, c) PROVE Echoed(s, d, ts)
        BY <1>1 DEF Echoed
    <2>1. c.lastApplied <= m.seq /\ m.seq <= s.updateSeq
        BY DEF Due
    <2>2. AckedBy(x, c.lastApplied) \subseteq AckedBy(x, m.seq)
        BY <1>2, <2>1, PacketRange DEF AckedBy
    <2>3. ts \in Seq(AckedBy(x, m.seq))
        BY <2>2, SeqMonotonic DEF Paced, Echoed
    <2>4. s.mode = "NETWORKED" /\ ~s.unackedUpdate /\ s.updateSeq # 0
            => m.seq = s.updateSeq
        BY <1>2, <2>1 DEF Paced, Echoed
    <2> QED BY <2>3, <2>4 DEF Echoed
<1>5. ASSUME Here(s, c), Open(s) PROVE WithServer(s, e, d, tc, ts, b)
    <2>1. WithServer(s, e, c, tc, ts, b)
        BY <1>5 DEF Paced, Level
    <2>2. /\ m.sess = x /\ m.seq = c.clientTurn + 1
          /\ m.seq = e.turn + 1 => m.alive = e.alive
          /\ m.seq = e.turn => m.alive = b
        BY <1>1, <1>5 DEF Due, Shows, From, Here
    <2>3. d.alive[0] <= IF c.clientTurn = e.turn THEN e.alive[0] ELSE b[0]
        <3>1. d.alive[0] = m.alive[0]
            BY DEF Overlay, Clients, Alive, Side
        <3>2. /\ c.clientTurn = e.turn => m.alive = e.alive
              /\ c.clientTurn # e.turn => m.alive = b
            BY <1>2, <2>1, <2>2 DEF WithServer
        <3>3. m.alive[0] \in Nat
            <4>1. m.alive \in Alive
                BY <1>1 DEF ServerPkts, UpdatePkts
            <4> QED BY <4>1, EngineAssumption DEF Alive, Side
        <3> QED BY <3>1, <3>2, <3>3
    <2> QED BY <1>2, <2>1, <2>2, <2>3 DEF WithServer
<1> QED BY <1>1, <1>3, <1>4, <1>5 DEF Paced, Level

\* clientAuthOnChallengePkt() at an idle node.
LEMMA PacedOffer ==
    ASSUME NEW s \in Servers, NEW e \in Engines, NEW c \in Clients, NEW tc \in Seq(ServerPkts),
           NEW ts \in Seq(ClientPkts), NEW b, Paced(s, e, c, tc, ts, b), c.mode = "OFF",
           NEW td \in Seq(ServerPkts), Thinned(tc, td),
           NEW m, tc \notin Seq({p \in ServerPkts : p.type = "CHALLENGE" => p.sess # m.sess}),
           NEW d, d.mode = "NETWORKED", d.phase = "WAIT_CHALLENGE_OVERLAY",
           d.session = m.sess, d.clientTurn = c.clientTurn, d.lastApplied = 0,
           d.actionType = NoAct, d.preAccept = NoPkt, d.alive = c.alive
    PROVE  Paced(s, e, d, td, ts, b)
<1> DEFINE x == s.session
<1>1. Paced(s, e, c, td, ts, b)
    <2>1. Thinned(ts, ts)
        BY DEF Thinned
    <2> QED BY <2>1, ThinnedPaced
<1>2. d.clientTurn = 0
    BY DEF Paced, Fresh
<1>3. ASSUME Here(s, d) PROVE Unheard(s, e, td, ts)
    <2>1. NotYet(s, tc)
        BY <1>3 DEF NotYet, NoOffer, Here
    <2>2. Unheard(s, e, tc, ts)
        BY <2>1 DEF Paced, Fresh
    <2> QED BY <2>2 DEF Unheard, Thinned
<1>4. Untouched(d)
    BY <1>2 DEF Untouched
<1>5. Fresh(s, e, d, td, ts)
    BY <1>1, <1>2, <1>3, <1>4 DEF Paced, Fresh
<1>6. Echoed(s, d, ts)
    <2>1. \A n : Hush(x) \subseteq AckedBy(x, n)
        BY DEF Hush, AckedBy
    <2>2. Here(s, d) => ts \in Seq(AckedBy(x, d.lastApplied))
        BY <1>3, <2>1, SeqMonotonic DEF Unheard
    <2> QED BY <1>3, <2>2 DEF Echoed, Unheard
<1>7. ASSUME Here(s, d), Open(s) PROVE WithServer(s, e, d, td, ts, b)
    <2>1. /\ e.turn = 0 /\ e.pend[1] = NoAct /\ ts \in Seq(Hush(x))
          /\ td \in Seq(NoAnswer(x)) /\ td \in Seq(Shows(x, e, b))
          /\ e.alive[0] = TeamSize
        BY <1>1, <1>3, <1>7 DEF Unheard, Paced, Level
    <2>2. d.alive[0] <= TeamSize
        BY EngineAssumption DEF Clients, Alive, Side
    <2>3. ts \in Seq(NoAsk(x)) /\ ts \in Seq(UpTo(x, 0))
        <3>1. Hush(x) \subseteq NoAsk(x) /\ Hush(x) \subseteq UpTo(x, 0)
            BY DEF Hush, NoAsk, UpTo
        <3> QED BY <2>1, <3>1, SeqMonotonic
    <2>4. Chain(ts, AsksFirst(x, e.turn))
        <3>1. Hush(x) \X Hush(x) \subseteq AsksFirst(x, e.turn)
            BY DEF Hush, AsksFirst
        <3> QED BY <2>1, <3>1, ChainOver
    <2>5. td \in Seq(From(x, 0))
        <3>1. td \in Seq(NoAnswer(x) \cap Shows(x, e, b))
            BY <2>1, SeqBoth
        <3>2. ASSUME NEW p \in NoAnswer(x) \cap Shows(x, e, b) PROVE p \in From(x, 0)
            <4>1. ASSUME p.type \in Boards, p.sess = x
                  PROVE  p.seq >= 1 /\ p.type # "FULL_STATE"
                <5>1. p.type = "UPDATE" /\ p.seq = p.turn + 1 /\ p \in ServerPkts
                    BY <3>2, <4>1 DEF NoAnswer, Shows, Boards
                <5>2. p.turn \in Byte
                    BY <5>1 DEF ServerPkts, UpdatePkts
                <5> QED BY <5>1, <5>2, PacketRange
            <4> QED BY <3>2, <4>1 DEF From, NoAnswer
        <3>3. NoAnswer(x) \cap Shows(x, e, b) \subseteq From(x, 0)
            BY <3>2
        <3> QED BY <3>1, <3>3, SeqMonotonic
    <2> QED BY <1>2, <2>1, <2>2, <2>3, <2>4, <2>5 DEF WithServer
<1> QED BY <1>1, <1>5, <1>6, <1>7 DEF Paced, Level

\* An UPDATE kept at the Y/N prompt.
LEMMA PacedBuffer ==
    ASSUME NEW s, NEW e, NEW c, NEW tc, NEW ts, NEW b, Paced(s, e, c, tc, ts, b),
           Prompted(c), NEW m, m.sess = c.session,
           Here(s, c) => ~NotYet(s, tc),
           Here(s, c) /\ Open(s) => m \in Shows(s.session, e, b),
           NEW d, d.mode = c.mode, d.phase = c.phase, d.session = c.session,
           d.clientTurn = c.clientTurn, d.lastApplied = c.lastApplied,
           d.alive = c.alive, d.preAccept = m
    PROVE  Paced(s, e, d, tc, ts, b)
<1>1. Here(s, d) = Here(s, c) /\ Prompted(d)
    BY DEF Here, Prompted
<1>2. Fresh(s, e, d, tc, ts)
    BY <1>1 DEF Paced, Fresh
<1>3. Echoed(s, d, ts)
    BY <1>1 DEF Paced, Echoed
<1>4. ASSUME Here(s, c), Open(s) PROVE WithServer(s, e, d, tc, ts, b)
    BY <1>4 DEF Paced, Level, WithServer
<1> QED BY <1>1, <1>2, <1>3, <1>4 DEF Paced, Level

\* clientAuthSendAccept(TRUE): the engine is started with both teams standing.
LEMMA PacedYes ==
    ASSUME NEW s, NEW e, NEW c, NEW tc, NEW ts, NEW b, Paced(s, e, c, tc, ts, b),
           Prompted(c), NEW d, d.mode = c.mode, d.phase = "WAIT_REMOTE",
           d.awaitingFirst, d.session = c.session,
           d.clientTurn = c.clientTurn, d.lastApplied = c.lastApplied,
           d.actionType = c.actionType,
           d.alive[0] = TeamSize, d.preAccept = NoPkt
    PROVE  Paced(s, e, d, tc, ts, b)
<1>1. Here(s, d) = Here(s, c) /\ ~Prompted(d)
    BY DEF Here, Prompted
<1>2. Fresh(s, e, d, tc, ts)
    <2>1. Untouched(c) => Untouched(d)
        BY DEF Untouched
    <2> QED BY <1>1, <2>1 DEF Paced, Fresh, Prompted
<1>3. Echoed(s, d, ts)
    BY <1>1 DEF Paced, Echoed
<1>4. ASSUME Here(s, c), Open(s) PROVE WithServer(s, e, d, tc, ts, b)
    <2>1. e.turn = 0 /\ d.clientTurn = 0 /\ e.alive[0] = TeamSize
        BY <1>4 DEF Paced, Fresh, Unheard, Level
    <2>2. TeamSize \in Nat
        BY EngineAssumption
    <2>3. d.alive[0] <= IF d.clientTurn = e.turn THEN e.alive[0] ELSE b[0]
        BY <2>1, <2>2
    <2> QED BY <1>1, <1>4, <2>3 DEF Paced, Level, WithServer
<1> QED BY <1>1, <1>2, <1>3, <1>4 DEF Paced, Level

\* What a step of the client leaves behind it.
ClientPaced == \E before \in Alive : Paced(srv, eng, cli', toCli', toSrv', before)

\* The board that arrives on a direct link.
LEMMA Arriving ==
    ASSUME TypeInv, TurnInv, NEW b, Paced(srv, eng, cli, toCli, toSrv, b),
           1 \in DOMAIN toCli, toCli[1].type \in Boards,
           toCli[1].sess = cli.session, Here(srv, cli)
    PROVE  LET m    == toCli[1]
               rest == RemoveAt(toCli, 1)
           IN  /\ ~NotYet(srv, rest) /\ rest \in Seq(Later(m))
               /\ cli.lastApplied <= m.seq /\ m.seq <= srv.updateSeq
               /\ Open(srv) => /\ m \in Shows(srv.session, eng, b)
                               /\ m \in From(srv.session, cli.clientTurn)
               /\ Prompted(cli) => m.type = "UPDATE"
<1> DEFINE m    == toCli[1]
           rest == RemoveAt(toCli, 1)
           D    == Settled(srv, eng)
<1>1. /\ toCli \in Seq(ServerPkts) /\ \A S : toCli \in Seq(S) => m \in S
    BY ElementOfSeq, LenProperties DEF TypeInv, TypeOK
<1>2. m \in Coming(srv, D, cli) /\ Chain(toCli, Rising)
    BY <1>1 DEF TurnInv, Ordered, LinkInOrder
<1>3. rest \in Seq(Later(m))
    BY <1>1, <1>2, ChainHead DEF Later
<1>4. cli.lastApplied <= m.seq /\ m.seq <= srv.updateSeq
    BY <1>2 DEF Coming, NotBefore, Here
<1>5. ~NotYet(srv, rest)
    BY <1>1, BoardHere DEF Here
<1>6. ASSUME Open(srv)
      PROVE  m \in Shows(srv.session, eng, b) /\ m \in From(srv.session, cli.clientTurn)
    BY <1>1, <1>6 DEF Paced, Level, WithServer
<1>7. ASSUME Prompted(cli) PROVE m.type = "UPDATE"
    <2>1. m \in NoAnswer(srv.session)
        BY <1>1, <1>7 DEF Paced, Fresh, Unheard
    <2> QED BY <2>1 DEF NoAnswer, Boards, Here
<1> QED BY <1>3, <1>4, <1>5, <1>6, <1>7

\* The result screen.
LEMMA PacedFinish ==
    ASSUME NEW s, NEW e, NEW c \in Clients, NEW tc, NEW ts, NEW b,
           Paced(s, e, c, tc, ts, b)
    PROVE  Paced(s, e, [c EXCEPT !.phase = "FINISHED"], tc, ts, b)
<1> DEFINE d == [c EXCEPT !.phase = "FINISHED"]
<1>1. /\ d.mode = c.mode /\ d.session = c.session /\ d.phase = "FINISHED"
      /\ d.clientTurn = c.clientTurn /\ d.lastApplied = c.lastApplied
      /\ d.alive = c.alive /\ d.preAccept = c.preAccept
      /\ d.actionType = c.actionType
    BY DEF Clients
<1> HIDE DEF d
<1>2. NotYet(s, tc) /\ Here(s, c) => Untouched(d)
    BY <1>1 DEF Paced, Fresh, Untouched
<1>3. Paced(s, e, d, tc, ts, b)
    BY <1>1, <1>2, PacedClient DEF Prompted
<1> QED BY <1>3 DEF d

LEMMA ClientReceivePace ==
    ASSUME ~Reorder, TypeInv, TurnInv, PaceInv, ClientReceive PROVE ClientPaced
<1>1. PICK b \in Alive : Paced(srv, eng, cli, toCli, toSrv, b)
    BY DEF PaceInv
<1> DEFINE m    == toCli[1]
           rest == RemoveAt(toCli, 1)
<1>2. ClientTakes(1) /\ 1 \in DOMAIN toCli
    BY DEF ClientReceive, Deliverable
<1>3. /\ srv \in Servers /\ eng \in Engines /\ cli \in Clients /\ GoodClient(cli)
      /\ toCli \in Seq(ServerPkts) /\ toSrv \in Seq(ClientPkts)
      /\ (cli.mode # "OFF" => cli.mode = "NETWORKED")
    BY DEF TypeInv, TypeOK, GoodClient, Clients, Modes
<1>4. /\ rest \in Seq(ServerPkts) /\ Thinned(toCli, rest) /\ Thinned(toSrv, toSrv)
      /\ m \in ServerPkts
    BY <1>2, <1>3, RemoveAtType, ThinnedBy, ElementOfSeq, LenProperties
<1>5. Paced(srv, eng, cli, rest, toSrv, b)
    BY <1>1, <1>4, ThinnedPaced
<1>6. ASSUME m.type \in Boards, m.sess = cli.session
      PROVE  /\ Here(srv, cli) /\ Prompted(cli) => m.type = "UPDATE"
             /\ Here(srv, cli) => ~NotYet(srv, rest)
             /\ Here(srv, cli) /\ Open(srv) => m \in Shows(srv.session, eng, b)
             /\ ~Prompted(cli) => Due(srv, eng, cli, rest, b, m)
    BY <1>1, <1>2, <1>6, Arriving DEF Due
<1>7. /\ toCli' = rest
      /\ \/ m.type = "CHALLENGE" /\ OnChallenge(m)
         \/ cli.mode # "OFF" /\ m.type = "UPDATE" /\ OnUpdate(m)
         \/ cli.mode # "OFF" /\ m.type = "FULL_STATE" /\ OnFullState(m)
         \/ OnForfeit(m)
         \/ UNCHANGED <<cli, toSrv>>
    BY <1>2 DEF ClientTakes
<1>8. SUFFICES Paced(srv, eng, cli', rest, toSrv', b)
    BY <1>7 DEF ClientPaced
<1>9. CASE UNCHANGED <<cli, toSrv>>
    BY <1>5, <1>9
<1>10. CASE m.type = "CHALLENGE" /\ OnChallenge(m)
    <2>1. CASE /\ cli.mode = "OFF" /\ UNCHANGED toSrv
               /\ cli' = [cli EXCEPT !.mode = "NETWORKED",
                  !.phase = "WAIT_CHALLENGE_OVERLAY", !.session = m.sess,
                  !.lastApplied = 0, !.actionType = NoAct,
                  !.needsFullState = FALSE, !.preAccept = NoPkt,
                  !.playerWon = FALSE, !.xpDrops = 0]
        <3>1. toCli \notin Seq({p \in ServerPkts : p.type = "CHALLENGE" => p.sess # m.sess})
            BY <1>2, <1>3, <1>10, ElementOfSeq, LenProperties
        <3>2. /\ cli'.mode = "NETWORKED" /\ cli'.phase = "WAIT_CHALLENGE_OVERLAY"
              /\ cli'.session = m.sess /\ cli'.clientTurn = cli.clientTurn
              /\ cli'.lastApplied = 0 /\ cli'.actionType = NoAct
              /\ cli'.preAccept = NoPkt /\ cli'.alive = cli.alive
            BY <1>3, <2>1 DEF Clients
        <3>3. Paced(srv, eng, cli', rest, toSrv, b)
            BY <1>1, <1>3, <1>4, <2>1, <3>1, <3>2, PacedOffer
        <3> QED BY <2>1, <3>3
    <2> QED BY <1>9, <1>10, <2>1 DEF OnChallenge
<1>11. CASE cli.mode # "OFF" /\ m.type = "UPDATE" /\ OnUpdate(m)
    <2>1. m \in UpdatePkts /\ m.type \in Boards
        BY <1>4, <1>11 DEF ServerPkts, Boards
    <2>2. CASE /\ m.sess = cli.session /\ Prompted(cli) /\ UNCHANGED toSrv
               /\ cli' = [cli EXCEPT !.preAccept = m]
        <3>1. /\ cli'.mode = cli.mode /\ cli'.phase = cli.phase
              /\ cli'.session = cli.session /\ cli'.clientTurn = cli.clientTurn
              /\ cli'.lastApplied = cli.lastApplied /\ cli'.alive = cli.alive
              /\ cli'.preAccept = m
            BY <1>3, <2>2 DEF Clients
        <3>2. /\ Here(srv, cli) => ~NotYet(srv, rest)
              /\ Here(srv, cli) /\ Open(srv) => m \in Shows(srv.session, eng, b)
            BY <1>6, <2>1, <2>2
        <3>3. Paced(srv, eng, cli', rest, toSrv, b)
            BY <1>5, <2>2, <3>1, <3>2, PacedBuffer
        <3> QED BY <2>2, <3>3
    <2>3. CASE /\ m.sess = cli.session /\ ~Prompted(cli)
               /\ \E levelUp \in {FALSE, LevelUps} :
                    LET r == ApplyUpdate(cli, toSrv, m, levelUp)
                    IN  cli' = r.cli /\ toSrv' = r.net
        <3>1. PICK levelUp \in {FALSE, LevelUps} :
                /\ cli' = ApplyUpdate(cli, toSrv, m, levelUp).cli
                /\ toSrv' = ApplyUpdate(cli, toSrv, m, levelUp).net
            BY <2>3
        <3>2. Due(srv, eng, cli, rest, b, m)
            BY <1>6, <2>1, <2>3
        <3>3. Paced(srv, eng, ApplyUpdate(cli, toSrv, m, levelUp).cli, rest,
                    ApplyUpdate(cli, toSrv, m, levelUp).net, b)
            BY <1>3, <1>4, <1>5, <1>11, <2>1, <2>3, <3>2, ApplyPace
        <3> QED BY <3>1, <3>3
    <2> QED BY <1>9, <1>11, <2>2, <2>3 DEF OnUpdate, Prompted
<1>12. CASE cli.mode # "OFF" /\ m.type = "FULL_STATE" /\ OnFullState(m)
    <2>1. CASE m.sess = cli.session
        <3>1. /\ cli'.mode = cli.mode /\ cli'.session = cli.session
              /\ ~Prompted(cli') /\ cli'.clientTurn = cli.clientTurn
              /\ cli'.alive = Overlay(cli.alive, m) /\ cli'.lastApplied = m.seq
              /\ cli'.preAccept = cli.preAccept
            BY <1>3, <1>12, <2>1 DEF OnFullState, Clients, Prompted
        <3>2. m.type \in Boards /\ m.type # "UPDATE"
            BY <1>12 DEF Boards
        <3>3. Due(srv, eng, cli, rest, b, m)
            <4>1. CASE Here(srv, cli)
                BY <1>6, <2>1, <3>2, <4>1
            <4>2. CASE ~Here(srv, cli)
                BY <4>2 DEF Due
            <4> QED BY <4>1, <4>2
        <3>4. Paced(srv, eng, cli', rest, toSrv, b)
            BY <1>3, <1>4, <1>5, <1>12, <2>1, <3>1, <3>3, PacedFull
        <3> QED BY <1>12, <3>4 DEF OnFullState
    <2> QED BY <1>9, <1>12, <2>1 DEF OnFullState
<1>13. CASE OnForfeit(m)
    BY <1>3, <1>5, <1>13, PacedFinish DEF OnForfeit
<1> QED BY <1>7, <1>9, <1>10, <1>11, <1>12, <1>13

\* A client that has a menu open or an action to repeat has seen a board.
LEMMA Playing ==
    ASSUME NEW s, NEW e, NEW c, NEW tc, NEW ts, NEW b, Paced(s, e, c, tc, ts, b),
           \/ c.actionType # NoAct \/ c.preAccept # NoPkt \/ c.phase \in MenuPhases
           \/ c.phase = "WAIT_REMOTE" /\ ~c.awaitingFirst
    PROVE  Here(s, c) => ~NotYet(s, tc)
BY DEF Paced, Fresh, Untouched, MenuPhases

LEMMA ClientTickPace ==
    ASSUME ~SlowStart, TypeInv, TurnInv, PaceInv, ClientTick PROVE ClientPaced
<1>1. PICK b \in Alive : Paced(srv, eng, cli, toCli, toSrv, b)
    BY DEF PaceInv
<1>2. PICK first \in {"none", "accept", "request"},
           due \in BOOLEAN, silent \in BOOLEAN :
        ClientTickWhen(first, due, silent)
    BY DEF ClientTick
<1> DEFINE say == Accept(cli.session, TRUE)
           sent == IF ~cli.awaitingFirst \/ first = "none" THEN toSrv
                   ELSE Enqueue(toSrv, say)
           resend == due /\ Resends(cli)
           r == IF resend THEN SendActionV2(cli, sent, cli.actionType)
                          ELSE [cli |-> cli, net |-> sent]
<1>3. /\ cli \in Clients /\ GoodClient(cli) /\ cli.session \in Sessions
      /\ cli.mode = "NETWORKED" /\ toSrv \in Seq(ClientPkts)
      /\ cli.actionType \in Moves \cup {NoAct, Flee}
      /\ (Prompted(cli) => cli.actionType = NoAct)
    BY <1>2 DEF ClientTickWhen, TypeInv, TypeOK, GoodClient, ClientOn, Clients,
                TurnInv, Ordered, ClientInOrder, Prompted
<1>4. /\ toCli' = toCli
      /\ cli' = IF silent THEN [r.cli EXCEPT !.phase = "FINISHED"] ELSE r.cli
      /\ toSrv' = r.net
    BY <1>2 DEF ClientTickWhen, Asks
<1>5. say \in ClientPkts /\ say.type = "ACCEPT" /\ say.sess = cli.session
    BY <1>3 DEF Accept, ClientPkts
<1> HIDE DEF say
<1>6. sent \in Seq(ClientPkts) /\ Paced(srv, eng, cli, toCli, sent, b)
    <2>1. Enqueue(toSrv, say) \in Seq(ClientPkts)
        BY <1>3, <1>5, EnqueueType
    <2>2. Saying(srv, eng, cli, toCli, toSrv, say)
        BY <1>3, <1>5 DEF Saying
    <2>3. Paced(srv, eng, cli, toCli, Enqueue(toSrv, say), b)
        BY <1>1, <1>3, <2>2, PacedSays
    <2> QED BY <1>1, <1>3, <2>1, <2>3
<1> HIDE DEF sent
<1>7. r.cli \in Clients /\ Paced(srv, eng, r.cli, toCli, r.net, b)
    <2>1. CASE resend
        <3>1. cli.actionType \in Moves \cup {Flee, PureAck} /\ cli.actionType # NoAct
            BY <1>3, <2>1 DEF Resends
        <3>2. Here(srv, cli) => ~NotYet(srv, toCli) /\ ~Prompted(cli)
            BY <1>1, <1>3, <3>1, Playing
        <3>3. SendActionV2(cli, sent, cli.actionType).cli \in Clients
            BY <1>3, <1>6, <3>1, SendActionType DEF GoodClient
        <3>4. Paced(srv, eng, SendActionV2(cli, sent, cli.actionType).cli, toCli,
                    SendActionV2(cli, sent, cli.actionType).net, b)
            BY <1>3, <1>6, <3>1, <3>2, SendPace
        <3> QED BY <2>1, <3>3, <3>4
    <2>2. CASE ~resend
        BY <1>3, <1>6, <2>2
    <2> QED BY <2>1, <2>2
<1> HIDE DEF r
<1> QED BY <1>4, <1>7, PacedFinish DEF ClientPaced

LEMMA ClientYesPace ==
    ASSUME TypeInv, TurnInv, PaceInv, ClientKeyYes PROVE ClientPaced
<1>1. PICK b \in Alive : Paced(srv, eng, cli, toCli, toSrv, b)
    BY DEF PaceInv
<1> DEFINE say  == Accept(cli.session, TRUE)
           sent == Enqueue(toSrv, say)
           m    == cli.preAccept
           c == [cli EXCEPT !.phase = "WAIT_REMOTE", !.awaitingFirst = TRUE,
                            !.alive = FullTeams, !.preAccept = NoPkt]
<1>2. /\ srv \in Servers /\ eng \in Engines /\ cli \in Clients
      /\ Prompted(cli) /\ cli.mode = "NETWORKED"
      /\ cli.session \in Sessions /\ toCli \in Seq(ServerPkts)
      /\ toSrv \in Seq(ClientPkts)
    BY NamesType DEF ClientKeyYes, Prompted, TypeInv, TypeOK, ClientOn
<1>3. /\ toCli' = toCli
      /\ \/ m = NoPkt /\ cli' = c /\ toSrv' = sent
         \/ /\ m # NoPkt
            /\ \E levelUp \in {FALSE, LevelUps} :
                 LET r == ApplyUpdate(c, sent, m, levelUp)
                 IN  cli' = r.cli /\ toSrv' = r.net
    BY DEF ClientKeyYes, ClientKeys
<1>4. say \in ClientPkts /\ say.type = "ACCEPT" /\ say.sess = cli.session
    BY <1>2 DEF Accept, ClientPkts
<1> HIDE DEF say
<1>5. sent \in Seq(ClientPkts) /\ Paced(srv, eng, cli, toCli, sent, b)
    <2>1. Saying(srv, eng, cli, toCli, toSrv, say)
        BY <1>2, <1>4 DEF Saying
    <2> QED BY <1>1, <1>2, <1>4, <2>1, EnqueueType, PacedSays
<1> HIDE DEF sent
<1>6. /\ c \in Clients /\ c.mode = "NETWORKED" /\ c.session = cli.session
      /\ c.phase = "WAIT_REMOTE" /\ c.awaitingFirst /\ c.preAccept = NoPkt
      /\ c.clientTurn = cli.clientTurn /\ c.lastApplied = cli.lastApplied
      /\ c.actionType = cli.actionType /\ c.alive[0] = TeamSize
    <2>1. FullTeams \in Alive /\ FullTeams[0] = TeamSize
        BY TeamsType DEF FullTeams, Side
    <2> QED BY <1>2, <2>1, NamesType DEF Clients
<1> HIDE DEF c
<1>7. Paced(srv, eng, c, toCli, sent, b)
    BY <1>2, <1>5, <1>6, PacedYes
<1>8. ASSUME m # NoPkt
      PROVE  /\ m \in UpdatePkts /\ m.sess = c.session
             /\ Due(srv, eng, c, toCli, b, m)
    <2>1. /\ m \in UpdatePkts /\ m \in ServerPkts /\ m.type = "UPDATE"
          /\ m.type \in Boards /\ m.seq \in Byte /\ m.turn \in Byte
        <3>1. m \in UpdatePkts
            BY <1>2, <1>8 DEF Clients
        <3> QED BY <3>1 DEF UpdatePkts, ServerPkts, Boards
    <2>2. m.sess = cli.session
        BY <1>1, <1>8 DEF Paced, Fresh
    <2>3. m \in Coming(srv, Settled(srv, eng), cli) /\ toCli \in Seq(Later(m))
        BY <1>2, <1>8 DEF TurnInv, Ordered, LinkInOrder, Prompted
    <2>4. ASSUME Here(srv, c)
          PROVE  /\ ~NotYet(srv, toCli) /\ ~Prompted(c)
                 /\ c.lastApplied <= m.seq /\ m.seq <= srv.updateSeq
                 /\ Open(srv) => /\ m \in Shows(srv.session, eng, b)
                                 /\ m \in From(srv.session, c.clientTurn)
        <3>1. Here(srv, cli)
            BY <1>2, <1>6, <2>4 DEF Here
        <3>2. ~NotYet(srv, toCli) /\ ~Prompted(c)
            BY <1>1, <1>6, <1>8, <3>1, Playing DEF Prompted
        <3>3. c.lastApplied <= m.seq /\ m.seq <= srv.updateSeq
            BY <1>6, <2>1, <2>2, <2>3, <3>1 DEF Coming, NotBefore, Here
        <3>4. ASSUME Open(srv) PROVE m \in Shows(srv.session, eng, b)
            BY <1>1, <1>2, <1>8, <3>1, <3>4 DEF Paced, Level, WithServer
        <3>5. ASSUME Open(srv) PROVE m \in From(srv.session, c.clientTurn)
            <4>1. m.seq = m.turn + 1
                BY <2>1, <2>2, <3>1, <3>4, <3>5 DEF Shows, Here
            <4>2. c.clientTurn = 0
                BY <1>1, <1>2, <1>6 DEF Paced, Fresh
            <4>3. m.seq >= c.clientTurn + 1
                BY <2>1, <4>1, <4>2, PacketRange
            <4> QED BY <2>1, <4>3 DEF From
        <3> QED BY <3>2, <3>3, <3>4, <3>5
    <2> QED BY <1>6, <2>1, <2>2, <2>3, <2>4 DEF Due
<1> HIDE DEF m
<1>9. CASE m = NoPkt
    BY <1>3, <1>7, <1>9 DEF ClientPaced
<1>10. CASE m # NoPkt
    <2>1. PICK levelUp \in {FALSE, LevelUps} :
            cli' = ApplyUpdate(c, sent, m, levelUp).cli
            /\ toSrv' = ApplyUpdate(c, sent, m, levelUp).net
        BY <1>3, <1>10
    <2>2. GoodClient(c) /\ ~Prompted(c)
        BY <1>2, <1>6 DEF GoodClient, ClientOn, Prompted
    <2>3. Paced(srv, eng, ApplyUpdate(c, sent, m, levelUp).cli, toCli,
                ApplyUpdate(c, sent, m, levelUp).net, b)
        BY <1>2, <1>5, <1>6, <1>7, <1>8, <1>10, <2>2, ApplyPace
    <2> QED BY <1>3, <2>1, <2>3 DEF ClientPaced
<1> QED BY <1>9, <1>10

LEMMA ClientKeyPace ==
    ASSUME ~EarlyFlee, TypeInv, TurnInv, PaceInv, ClientKey PROVE ClientPaced
<1>1. PICK b \in Alive : Paced(srv, eng, cli, toCli, toSrv, b)
    BY DEF PaceInv
<1>2. /\ cli \in Clients /\ GoodClient(cli) /\ cli.mode = "NETWORKED"
      /\ cli.session \in Sessions /\ toSrv \in Seq(ClientPkts) /\ toCli' = toCli
    BY DEF ClientKey, ClientKeyFinished, ClientKeyYes, ClientKeyNo,
           ClientKeyFlee, ClientKeySwitchMenu, ClientKeyPick, ClientEvicted,
           ClientKeys, GoodClient, ClientOn, TypeInv, TypeOK
<1>3. SUFFICES ASSUME ~ClientKeyYes PROVE Paced(srv, eng, cli', toCli, toSrv', b)
    BY <1>2, ClientYesPace DEF ClientPaced
<1>4. CASE cli' = ClientExited(cli) /\ UNCHANGED toSrv
    <2>1. cli'.mode = "OFF" /\ cli'.clientTurn = 0 /\ cli'.preAccept = NoPkt
        BY <1>2, <1>4 DEF ClientExited, Clients
    <2> QED BY <1>1, <1>4, <2>1, PacedExit
<1>5. CASE ClientKeyNo
    <2> DEFINE say == Accept(cli.session, FALSE)
               c   == [cli EXCEPT !.phase = "FINISHED"]
    <2>1. say \in ClientPkts /\ say.type = "ACCEPT" /\ say.sess = cli.session
        BY <1>2 DEF Accept, ClientPkts
    <2>2. /\ cli'.mode = c.mode /\ cli'.session = c.session
          /\ cli'.phase = "FINISHED" /\ c.phase = "FINISHED"
          /\ cli'.clientTurn = c.clientTurn /\ cli'.lastApplied = c.lastApplied
          /\ cli'.alive = c.alive /\ cli'.preAccept = c.preAccept
          /\ cli'.actionType = c.actionType
          /\ toSrv' = Enqueue(toSrv, say)
        BY <1>2, <1>5 DEF ClientKeyNo, Clients
    <2> HIDE DEF say
    <2>3. Saying(srv, eng, cli, toCli, toSrv, say)
        BY <1>2, <2>1 DEF Saying
    <2>4. Paced(srv, eng, c, toCli, toSrv', b)
        BY <1>1, <1>2, <2>2, <2>3, PacedSays, PacedFinish
    <2> HIDE DEF c
    <2>5. NotYet(srv, toCli) /\ Here(srv, c) => Untouched(cli')
        BY <2>2, <2>4 DEF Paced, Fresh, Untouched
    <2> QED BY <2>2, <2>4, <2>5, PacedClient DEF Prompted
<1>6. ASSUME NEW p \in MenuPhases, cli.phase \in MenuPhases,
             cli' = [cli EXCEPT !.phase = p], UNCHANGED toSrv
      PROVE  Paced(srv, eng, cli', toCli, toSrv', b)
    <2>1. Here(srv, cli) => ~NotYet(srv, toCli)
        BY <1>1, <1>6, Playing
    <2>2. /\ cli'.mode = cli.mode /\ cli'.session = cli.session
          /\ cli'.phase = p /\ ~Prompted(cli')
          /\ cli'.clientTurn = cli.clientTurn /\ cli'.lastApplied = cli.lastApplied
          /\ cli'.alive = cli.alive /\ cli'.preAccept = cli.preAccept
        BY <1>2, <1>6 DEF Clients, Prompted, MenuPhases
    <2>3. Paced(srv, eng, cli', toCli, toSrv, b)
        BY <1>1, <2>1, <2>2, PacedClient
    <2> QED BY <1>6, <2>3
<1>7. ASSUME NEW act \in Moves \cup {Flee}, NEW p \in {"FINISHED", "WAIT_REMOTE"},
             cli.phase \in MenuPhases \/ (cli.phase = "WAIT_REMOTE" /\ ~cli.awaitingFirst),
             LET r == SendActionV2(cli, toSrv, act)
             IN  cli' = [r.cli EXCEPT !.phase = p] /\ toSrv' = r.net
      PROVE  Paced(srv, eng, cli', toCli, toSrv', b)
    <2> DEFINE r == SendActionV2(cli, toSrv, act)
               c == r.cli
    <2>1. Here(srv, cli) => ~NotYet(srv, toCli) /\ ~Prompted(cli)
        BY <1>1, <1>7, Playing DEF Prompted, MenuPhases
    <2>2. Paced(srv, eng, c, toCli, r.net, b)
        BY <1>1, <1>2, <1>7, <2>1, SendPace
    <2>3. c \in Clients /\ c.mode = cli.mode /\ c.session = cli.session
        BY <1>2, <1>7, SendActionType DEF GoodClient
    <2>4. cli' = [c EXCEPT !.phase = p] /\ toSrv' = r.net
        BY <1>7
    <2> HIDE DEF r, c
    <2>5. /\ cli'.mode = c.mode /\ cli'.session = c.session
          /\ cli'.phase = p /\ ~Prompted(cli')
          /\ cli'.clientTurn = c.clientTurn /\ cli'.lastApplied = c.lastApplied
          /\ cli'.alive = c.alive /\ cli'.preAccept = c.preAccept
        BY <1>7, <2>3, <2>4 DEF Clients, Prompted
    <2>6. Here(srv, c) => ~NotYet(srv, toCli)
        BY <2>1, <2>3 DEF Here
    <2> QED BY <2>2, <2>4, <2>5, <2>6, PacedClient
<1>8. CASE ClientKeyFlee
    BY <1>6, <1>7, <1>8 DEF ClientKeyFlee, MenuPhases
<1>9. CASE ClientKeySwitchMenu
    BY <1>6, <1>9 DEF ClientKeySwitchMenu, MenuPhases
<1>10. CASE ClientKeyPick
    <2>1. PICK mv \in Moves :
            LET r == SendActionV2(cli, toSrv, mv)
            IN  cli' = [r.cli EXCEPT !.phase = "WAIT_REMOTE"] /\ toSrv' = r.net
        BY <1>10 DEF ClientKeyPick
    <2>2. cli.phase \in MenuPhases
        BY <1>10 DEF ClientKeyPick, MenuPhases
    <2> QED BY <1>7, <2>1, <2>2
<1> QED BY <1>3, <1>4, <1>5, <1>8, <1>9, <1>10
        DEF ClientKey, ClientKeyFinished, ClientEvicted

LEMMA LosePace ==
    ASSUME TypeInv, PaceInv, Lose PROVE PaceInv'
<1>1. PICK b \in Alive : Paced(srv, eng, cli, toCli, toSrv, b)
    BY DEF PaceInv
<1>2. /\ UNCHANGED <<srv, eng, cli>>
      /\ toCli' \in Losses(toCli) \cup {toCli}
      /\ toSrv' \in Losses(toSrv) \cup {toSrv}
    BY DEF Lose, ServerUnchanged
<1>3. Thinned(toCli, toCli') /\ Thinned(toSrv, toSrv')
    BY <1>2, ThinnedBy DEF TypeInv, TypeOK
<1>4. Paced(srv, eng, cli, toCli', toSrv', b)
    BY <1>1, <1>3, ThinnedPaced
<1> QED BY <1>2, <1>4 DEF PaceInv

LEMMA PaceInit == Init => PaceInv
<1> SUFFICES ASSUME Init PROVE PaceInv
    OBVIOUS
<1>1. /\ \A S : toCli \in Seq(S) /\ toSrv \in Seq(S)
      /\ \A R : Chain(toCli, R)
    BY DEF Init, Chain
<1>2. /\ eng.turn = 0 /\ eng.pend[1] = NoAct
      /\ srv.mode = "OFF" /\ srv.phase = "IDLE" /\ ~srv.peerReady
      /\ ~srv.unackedUpdate /\ ~srv.pendingRemoteAction /\ srv.updateSeq = 0
      /\ cli.mode = "OFF" /\ cli.phase = "IDLE"
      /\ cli.preAccept = NoPkt /\ cli.clientTurn = 0
    BY DEF Init, Start, Side
<1>3. Paced(srv, eng, cli, toCli, toSrv, FullTeams)
    BY <1>1, <1>2 DEF Paced, Fresh, Idle, Unheard, Echoed, Level, Here, Open, Prompted
<1> QED BY <1>3, TeamsType DEF PaceInv

LEMMA PaceStep ==
    ASSUME ~Reorder, MaxSeq <= 255, TerminalHeld, ~SlowStart, ~EarlyFlee
    PROVE  TypeInv /\ TurnInv /\ AnswerInv /\ PaceInv /\ [Next]_vars => PaceInv'
<1> SUFFICES ASSUME TypeInv, TurnInv, AnswerInv, PaceInv, [Next]_vars PROVE PaceInv'
    OBVIOUS
<1>1. ASSUME ServerPaced, UNCHANGED cli PROVE PaceInv'
    BY <1>1 DEF ServerPaced, PaceInv
<1>2. ASSUME ClientPaced, UNCHANGED <<srv, eng>> PROVE PaceInv'
    BY <1>2 DEF ClientPaced, PaceInv
<1>3. CASE SendChallenge
    BY <1>1, <1>3, ChallengePace DEF SendChallenge
<1>4. CASE ServerReceive
    <2>1. UNCHANGED cli
        BY <1>4 DEF ServerReceive, ServerTakes
    <2> QED BY <1>1, <1>4, <2>1, ReceivePace
<1>5. CASE ServerTick
    <2>1. UNCHANGED cli
        BY <1>5 DEF ServerTick, ServerTickWhen
    <2> QED BY <1>1, <1>5, <2>1, TickPace
<1>6. CASE ServerKey
    <2>1. UNCHANGED cli
        BY <1>6 DEF ServerKey, ServerKeyFinished, ServerKeyEsc, ServerKeyFlee,
           ServerKeySwitchMenu, ServerKeyPick, ServerEvicted, ServerKeys
    <2> QED BY <1>1, <1>6, <2>1, KeyPace
<1>7. CASE ClientReceive
    <2>1. UNCHANGED <<srv, eng>>
        BY <1>7 DEF ClientReceive, ClientTakes, ServerUnchanged
    <2> QED BY <1>2, <1>7, <2>1, ClientReceivePace
<1>8. CASE ClientTick
    <2>1. UNCHANGED <<srv, eng>>
        BY <1>8 DEF ClientTick, ClientTickWhen, ServerUnchanged
    <2> QED BY <1>2, <1>8, <2>1, ClientTickPace
<1>9. CASE ClientKey
    <2>1. UNCHANGED <<srv, eng>>
        BY <1>9 DEF ClientKey, ClientKeyFinished, ClientKeyYes, ClientKeyNo,
           ClientKeyFlee, ClientKeySwitchMenu, ClientKeyPick, ClientEvicted,
           ClientKeys, ServerUnchanged
    <2> QED BY <1>2, <1>9, <2>1, ClientKeyPace
<1>10. CASE Lose
    BY <1>10, LosePace
<1>11. CASE UNCHANGED vars
    BY <1>11 DEF vars, PaceInv
<1> QED BY <1>3, <1>4, <1>5, <1>6, <1>7, <1>8, <1>9, <1>10, <1>11 DEF Next

LEMMA PaceInvariant ==
    ASSUME ~Reorder, MaxSeq <= 255, TerminalHeld, ~SlowStart, ~EarlyFlee
    PROVE  Spec => []PaceInv
<1>1. Init => AnswerInv /\ PaceInv
    BY AnswerInit, PaceInit
<1>2. TypeInv /\ AnswerInv /\ [Next]_vars => AnswerInv'
    BY AnswerStep
<1>3. TypeInv /\ TurnInv /\ AnswerInv /\ PaceInv /\ [Next]_vars => PaceInv'
    BY PaceStep
<1> QED BY <1>1, <1>2, <1>3, TypeInvariant, TurnInvariant, PTL DEF Spec

\* The board the server takes for acknowledged is the one it is at.
LEMMA PaceInStep == TypeInv /\ PaceInv => AckedIsInStep
<1> SUFFICES ASSUME TypeInv, PaceInv, LiveServer, srv.updateSeq # 0,
                    ~srv.unackedUpdate, SameBattle
             PROVE  cli.clientTurn = Wire(eng.turn)
    BY DEF AckedIsInStep
<1>1. PICK b \in Alive : Paced(srv, eng, cli, toCli, toSrv, b)
    BY DEF PaceInv
<1>2. Here(srv, cli) /\ srv.mode = "NETWORKED"
    BY DEF SameBattle, Here
<1>3. srv.phase # "FINISHED" /\ ~srv.awaitingAccept
    BY DEF LiveServer, MenuPhases
<1>4. Open(srv)
    BY <1>1, <1>2, <1>3 DEF Paced, Fresh, Idle, Open
<1>5. /\ srv.updateSeq = eng.turn + 1 /\ cli.clientTurn <= eng.turn
      /\ cli.lastApplied <= cli.clientTurn + 1
    BY <1>1, <1>2, <1>4 DEF Paced, Level, WithServer
<1>6. cli.lastApplied = srv.updateSeq
    BY <1>1, <1>2 DEF Paced, Echoed
<1>7. cli.clientTurn \in 0 .. 255 /\ eng.turn \in Nat
    BY DEF TypeInv, TypeOK, Clients, Engines, Byte
<1>8. cli.clientTurn = eng.turn
    BY <1>5, <1>6, <1>7
<1> QED BY <1>7, <1>8 DEF Wire

\* Once the server's UPDATE is acknowledged, a client that is in the battle is
\* at the server's turn, so that the action it sends is not dropped as stale
\* with no UPDATE left to say so: clientAuthOnUpdatePkt() asks for a board in
\* the turn it has just moved to and before it acts in it, so that the
\* FULL_STATE that clientAuthOnFullStatePkt() acknowledges without looking at
\* its turn is one of that turn.
THEOREM AckedInStep ==
    ASSUME ~Reorder, MaxSeq <= 255, TerminalHeld, ~SlowStart, ~EarlyFlee
    PROVE  Spec => []AckedIsInStep
<1> QED BY PaceInvariant, PaceInStep, TypeInvariant, PTL

-----------------------------------------------------------------------------
(* The end.  Without level-ups every board hashes equal and none is asked  *)
(* for, so that the boards of a battle are UPDATEs, the last of which bears *)
(* the result.  The client that has applied that one shows the result until *)
(* it leaves: every board still on its way to it is a repeat.              *)

\* UPDATEs of the engine both parties are in, and what is no board at all.
RealBoards ==
    {p \in ServerPkts : p.type # "FULL_STATE" /\ (p.type = "UPDATE" => p.real)}
NoRequest == {p \in ClientPkts : p.type # "STATE_REQUEST"}

\* The last board of a decided battle bears the result, also when repeated.
Decided(s) == s.lastUpdate.result # "ONGOING"
Ending(s) ==
    {p \in RealBoards :
        p.type = "UPDATE" /\ p.sess = s.session /\ p.seq = s.updateSeq /\ Decided(s)
            => p.result # "ONGOING"}

Ends(s, c, tc, ts) ==
    /\ s.peerReady => s.updateSeq # 0
    /\ s.unackedUpdate => s.lastUpdate.real
    /\ tc \in Seq(Ending(s)) /\ ts \in Seq(NoRequest)
    /\ Prompted(c) /\ c.preAccept # NoPkt => c.preAccept \in Ending(s)
    /\ Here(s, c) /\ Decided(s) /\ s.updateSeq # 0 /\ c.lastApplied = s.updateSeq
           => c.phase = "FINISHED"
EndInv == Ends(srv, cli, toCli, toSrv)

LEMMA EndsThinned ==
    ASSUME NEW s, NEW c, NEW tc, NEW ts, Ends(s, c, tc, ts),
           NEW td, NEW tu, Thinned(tc, td), Thinned(ts, tu)
    PROVE  Ends(s, c, td, tu)
BY DEF Ends, Thinned

\* A step that builds no board.
SameBoards(s, t) ==
    /\ t.session = s.session /\ t.updateSeq = s.updateSeq
    /\ t.lastUpdate = s.lastUpdate /\ t.peerReady = s.peerReady
    /\ t.unackedUpdate => s.unackedUpdate

LEMMA EndsQuiet ==
    ASSUME NEW s, NEW c, NEW tc, NEW ts, Ends(s, c, tc, ts),
           NEW t, SameBoards(s, t)
    PROVE  Ends(t, c, tc, ts)
<1>1. Decided(t) = Decided(s) /\ Here(t, c) = Here(s, c)
    BY DEF Decided, Here, SameBoards
<1>2. Ending(t) = Ending(s)
    BY <1>1 DEF Ending, SameBoards
<1> QED BY <1>1, <1>2 DEF Ends, SameBoards

LEMMA EndsSend ==
    ASSUME NEW s, NEW c, NEW tc, NEW ts, Ends(s, c, tc, ts), NEW p \in Ending(s)
    PROVE  Ends(s, c, Enqueue(tc, p), ts)
BY EnqueueType DEF Ends

LEMMA EndingPlain ==
    ASSUME NEW s, NEW p \in ServerPkts, p.type \in {"CHALLENGE", "FORFEIT"}
    PROVE  p \in Ending(s)
BY DEF Ending, RealBoards

\* serverAuthSendUpdate(), past ACCEPT.
LEMMA EndsBuilt ==
    ASSUME MaxSeq <= 255, NEW s \in Servers, NEW c \in Clients,
           NEW tc \in Seq(ServerPkts), NEW ts, Ends(s, c, tc, ts),
           NEW D, LinkInOrder(s, D, c, tc), ClientInOrder(s, D, c),
           NEW d \in Servers, d.session = s.session, d.session \in Sessions,
           d.updateSeq = s.updateSeq, s.updateSeq < MaxSeq, d.peerReady,
           NEW f \in Engines
    PROVE  Ends(SendUpdate(d, f, tc).srv, c, SendUpdate(d, f, tc).net, ts)
<1> DEFINE t   == SendUpdate(d, f, tc).srv
           upd == t.lastUpdate
<1>1. /\ upd \in ServerPkts /\ upd.type = "UPDATE" /\ upd.real
      /\ t.session = s.session /\ t.updateSeq = s.updateSeq + 1
      /\ s.updateSeq \in Nat
      /\ SendUpdate(d, f, tc).net = Enqueue(tc, upd)
    BY Built
<1> HIDE DEF t
<1>2. upd \in Ending(t)
    BY <1>1 DEF Ending, RealBoards, Decided
<1>3. ASSUME NEW p \in Ending(s), p \in Coming(s, D, c) PROVE p \in Ending(t)
    <2>1. p \in RealBoards /\ p \in ServerPkts
        BY <1>3 DEF Ending, RealBoards
    <2>2. p.type = "UPDATE" /\ p.sess = t.session => p.seq # t.updateSeq
        <3>1. ASSUME p.type = "UPDATE", p.sess = t.session
              PROVE  p.seq <= s.updateSeq /\ p.seq \in Nat
            BY <1>1, <1>3, <2>1, <3>1, CountRange DEF Coming, Boards
        <3> QED BY <1>1, <3>1
    <2> QED BY <2>1, <2>2 DEF Ending
<1>4. Enqueue(tc, upd) \in Seq(Ending(t))
    <2>1. tc \in Seq(Ending(s) \cap Coming(s, D, c))
        BY SeqBoth DEF Ends, LinkInOrder
    <2>2. Ending(s) \cap Coming(s, D, c) \subseteq Ending(t)
        BY <1>3
    <2>3. tc \in Seq(Ending(t))
        BY <2>1, <2>2, SeqMonotonic
    <2> QED BY <1>2, <2>3, EnqueueType
<1>5. Prompted(c) /\ c.preAccept # NoPkt => c.preAccept \in Ending(t)
    BY <1>3 DEF Ends, LinkInOrder, Prompted
<1>6. Here(t, c) => c.lastApplied # t.updateSeq
    <2>1. ASSUME Here(t, c) PROVE c.lastApplied <= s.updateSeq /\ c.lastApplied \in Nat
        BY <1>1, <2>1, CountRange DEF Here, ClientInOrder, NotBefore
    <2> QED BY <1>1, <2>1
<1>7. t.updateSeq # 0
    BY <1>1
<1>8. Ends(t, c, Enqueue(tc, upd), ts)
    BY <1>1, <1>4, <1>5, <1>6, <1>7 DEF Ends
<1> QED BY <1>1, <1>8 DEF t

\* The challenger has an engine with both parties once it has a battle to play.
LEMMA Accepted ==
    ASSUME TypeInv, PaceInv, srv.mode = "NETWORKED"
    PROVE  srv.peerReady \/ /\ ~srv.pendingRemoteAction
                            /\ srv.awaitingAccept \/ srv.phase = "FINISHED"
                            /\ toSrv \in Seq(Hush(srv.session))
BY DEF PaceInv, Paced, Fresh, Idle, NotYet, Unheard

ServerEnds == Ends(srv', cli, toCli', toSrv')

LEMMA ChallengeEnd ==
    ASSUME TypeInv, TurnInv, EndInv, SendChallenge PROVE ServerEnds
<1> DEFINE x == srv.session + 1
<1>1. /\ srv \in Servers /\ cli \in Clients /\ toCli \in Seq(ServerPkts)
      /\ toCli \in Seq(Coming(srv, Settled(srv, eng), cli))
      /\ (Prompted(cli) /\ cli.preAccept # NoPkt
            => cli.preAccept \in Coming(srv, Settled(srv, eng), cli))
      /\ cli.session <= srv.session /\ srv.session \in Nat /\ cli.session \in Nat
    BY CountRange DEF TypeInv, TypeOK, TurnInv, Ordered, LinkInOrder, ClientInOrder,
                      Prompted
<1>2. srv'.session \in Sessions
    <2>1. srv'.mode = "NETWORKED" /\ TypeInv'
        BY <1>1, SendChallengeType DEF SendChallenge, Servers
    <2> QED BY <2>1 DEF TypeInv, ServerOn
<1>3. /\ srv'.session = x /\ ~srv'.peerReady /\ ~srv'.unackedUpdate
      /\ toCli' = Enqueue(toCli, Challenge(x)) /\ toSrv' = toSrv
    BY <1>1 DEF SendChallenge, Servers
<1>4. x \in Nat /\ cli.session # x /\ x > srv.session
    BY <1>1
<1> HIDE DEF x
<1>5. ASSUME NEW p \in Ending(srv), p \in Coming(srv, Settled(srv, eng), cli)
      PROVE  p \in Ending(srv')
    <2>1. p \in RealBoards /\ p \in ServerPkts
        BY <1>5 DEF Ending, RealBoards
    <2>2. p.sess <= srv.session /\ p.sess \in Nat
        BY <1>5, <2>1, CountRange DEF Coming
    <2>3. p.sess # srv'.session
        BY <1>1, <1>3, <1>4, <2>2
    <2> QED BY <2>1, <2>3 DEF Ending
<1>6. Challenge(x) \in Ending(srv')
    <2>1. Challenge(x) \in ServerPkts /\ Challenge(x).type = "CHALLENGE"
        BY <1>2, <1>3 DEF Challenge, ServerPkts
    <2> QED BY <2>1, EndingPlain
<1>7. toCli' \in Seq(Ending(srv'))
    <2>1. toCli \in Seq(Ending(srv) \cap Coming(srv, Settled(srv, eng), cli))
        BY <1>1, SeqBoth DEF EndInv, Ends
    <2>2. Ending(srv) \cap Coming(srv, Settled(srv, eng), cli) \subseteq Ending(srv')
        BY <1>5
    <2>3. toCli \in Seq(Ending(srv'))
        BY <2>1, <2>2, SeqMonotonic
    <2> QED BY <1>3, <1>6, <2>3, EnqueueType
<1>8. Prompted(cli) /\ cli.preAccept # NoPkt => cli.preAccept \in Ending(srv')
    BY <1>1, <1>5 DEF EndInv, Ends
<1> QED BY <1>3, <1>4, <1>7, <1>8 DEF ServerEnds, EndInv, Ends, Here

LEMMA ReceiveEnd ==
    ASSUME MaxSeq <= 255, TypeInv, TurnInv, PaceInv, EndInv, ServerReceive
    PROVE  ServerEnds
<1>1. PICK i \in Deliverable(toSrv) : ServerTakes(i)
    BY DEF ServerReceive
<1> DEFINE m  == toSrv[i]
           ts == RemoveAt(toSrv, i)
           D  == Settled(srv, eng)
<1>2. /\ srv \in Servers /\ eng \in Engines /\ cli \in Clients
      /\ toCli \in Seq(ServerPkts) /\ toSrv \in Seq(ClientPkts)
      /\ LinkInOrder(srv, D, cli, toCli) /\ ClientInOrder(srv, D, cli)
      /\ (srv.mode # "OFF" => srv.mode = "NETWORKED" /\ srv.session \in Sessions)
    BY DEF TypeInv, TypeOK, ServerOn, Servers, Modes, TurnInv, Ordered
<1>3. /\ i \in DOMAIN toSrv /\ m \in ClientPkts
      /\ \A S : toSrv \in Seq(S) => m \in S
    BY <1>2, DeliverableType
<1>4. Ends(srv, cli, toCli, ts)
    <2>1. Thinned(toCli, toCli) /\ Thinned(toSrv, ts)
        BY <1>2, <1>3, ThinnedBy
    <2> QED BY <2>1, EndsThinned DEF EndInv
<1>5. /\ toSrv' = ts
      /\ \/ UNCHANGED <<srv, eng, toCli>>
         \/ srv.mode # "OFF" /\ OnAccept(m)
         \/ srv.mode # "OFF" /\ m.type = "ACTION_V2" /\ OnActionV2(m)
         \/ m.type = "STATE_REQUEST"
    BY <1>1 DEF ServerTakes
<1>6. m.type # "STATE_REQUEST"
    BY <1>3 DEF EndInv, Ends, NoRequest
<1> HIDE DEF m, ts, D
<1>7. CASE UNCHANGED <<srv, eng, toCli>>
    BY <1>4, <1>5, <1>7 DEF ServerEnds
<1>8. ASSUME SameBoards(srv, srv'), UNCHANGED toCli PROVE ServerEnds
    BY <1>4, <1>5, <1>8, EndsQuiet DEF ServerEnds
<1>9. CASE srv.mode # "OFF" /\ OnAccept(m)
    <2>1. CASE srv' = [srv EXCEPT !.phase = "FINISHED", !.awaitingAccept = FALSE]
               /\ UNCHANGED toCli
        BY <1>2, <1>8, <2>1 DEF SameBoards, Servers
    <2>2. CASE /\ CanUpdate
               /\ \E kept \in DropPendingSends(toCli) :
                    LET s == [srv EXCEPT !.awaitingAccept = FALSE,
                               !.peerReady = TRUE,
                               !.pendingRemoteAction = FALSE,
                               !.phase = "WAIT_ACTION"]
                        r == SendUpdate(s, Start(FullTeams), kept)
                    IN  srv' = r.srv /\ toCli' = r.net
        <3> DEFINE f == Start(FullTeams)
                   d == [srv EXCEPT !.awaitingAccept = FALSE,
                           !.peerReady = TRUE,
                           !.pendingRemoteAction = FALSE,
                           !.phase = "WAIT_ACTION"]
        <3>1. PICK kept \in DropPendingSends(toCli) :
                srv' = SendUpdate(d, f, kept).srv /\ toCli' = SendUpdate(d, f, kept).net
            BY <2>2
        <3>2. /\ kept \in Seq(ServerPkts) /\ Thinned(toCli, kept) /\ Thinned(ts, ts)
              /\ LinkInOrder(srv, D, cli, kept)
            BY <1>2, DropType, DropInOrder, ThinnedBy DEF Thinned
        <3>3. /\ d \in Servers /\ d.session = srv.session
              /\ d.peerReady /\ d.updateSeq = srv.updateSeq
            BY <1>2, NamesType DEF Servers
        <3>4. f \in Engines /\ srv.updateSeq < MaxSeq
            BY <2>2, TeamsType, StartType DEF CanUpdate
        <3> HIDE DEF d, f
        <3>5. Ends(srv, cli, kept, ts)
            BY <1>4, <3>2, EndsThinned
        <3>6. Ends(srv', cli, toCli', ts)
            BY <1>2, <1>9, <3>1, <3>2, <3>3, <3>4, <3>5, EndsBuilt
        <3> QED BY <1>5, <3>6 DEF ServerEnds
    <2> QED BY <1>7, <1>9, <2>1, <2>2 DEF OnAccept
<1>10. CASE srv.mode # "OFF" /\ m.type = "ACTION_V2" /\ OnActionV2(m)
    <2> DEFINE s == Acknowledged(srv, m)
    <2>1. s \in Servers /\ SameBoards(srv, s)
        BY <1>2 DEF Acknowledged, SameBoards, Servers
    <2>2. CASE m.sess = srv.session /\ CanUpdate
               /\ LET r == SendUpdate([s EXCEPT !.phase = "FINISHED"],
                                      Forfeit(eng, 1), toCli)
                  IN  srv' = r.srv /\ toCli' = r.net
        <3> DEFINE d == [s EXCEPT !.phase = "FINISHED"]
                   f == Forfeit(eng, 1)
        <3>1. srv.peerReady
            <4>1. m \notin Hush(srv.session)
                BY <1>10, <2>2 DEF Hush
            <4>2. toSrv \notin Seq(Hush(srv.session))
                BY <1>3, <4>1
            <4> QED BY <1>2, <1>10, <4>2, Accepted
        <3>2. /\ d \in Servers /\ d.session = srv.session /\ d.peerReady
              /\ d.updateSeq = srv.updateSeq
            BY <2>1, <3>1, NamesType DEF Servers, SameBoards
        <3>3. f \in Engines /\ srv.updateSeq < MaxSeq
            BY <1>2, <2>2, ForfeitType DEF CanUpdate, Side
        <3>4. srv' = SendUpdate(d, f, toCli).srv /\ toCli' = SendUpdate(d, f, toCli).net
            BY <2>2
        <3> HIDE DEF d, f
        <3>5. Ends(srv', cli, toCli', ts)
            BY <1>2, <1>4, <1>10, <3>2, <3>3, <3>4, EndsBuilt
        <3> QED BY <1>5, <3>5 DEF ServerEnds
    <2>3. CASE srv' = s /\ UNCHANGED toCli
        BY <1>8, <2>1, <2>3
    <2>4. CASE srv' = [s EXCEPT !.pendingRemoteAction = TRUE] /\ UNCHANGED toCli
        <3>1. SameBoards(srv, srv')
            BY <2>1, <2>4 DEF SameBoards, Servers
        <3> QED BY <1>8, <2>4, <3>1
    <2> QED BY <1>7, <1>10, <2>2, <2>3, <2>4 DEF OnActionV2
<1> QED BY <1>5, <1>6, <1>7, <1>9, <1>10

\* serverAuthRetransmit()
LEMMA RetransmitEnd ==
    ASSUME NEW s, GoodServer(s), s.session \in Sessions, NEW e, NEW c, NEW tc,
           Ordered(s, e, c, tc), NEW ts, Ends(s, c, tc, ts)
    PROVE  LET r == Retransmit(s, tc)
           IN  Ends(r.srv, c, r.net, ts) /\ SameBoards(s, r.srv)
<1>1. s \in Servers
    BY DEF GoodServer
<1>2. CASE s.awaitingAccept /\ OutOfTries(s)
    <2> DEFINE t == [s EXCEPT !.phase = "FINISHED", !.awaitingAccept = FALSE]
    <2>1. SameBoards(s, t) /\ Retransmit(s, tc) = [srv |-> t, net |-> tc]
        BY <1>1, <1>2 DEF SameBoards, Servers, Retransmit
    <2> HIDE DEF t
    <2> QED BY <2>1, EndsQuiet
<1>3. CASE s.awaitingAccept /\ ~OutOfTries(s)
    <2> DEFINE t == [s EXCEPT !.challengeTries = @ + 1]
               p == Challenge(s.session)
    <2>1. SameBoards(s, t) /\ Retransmit(s, tc) = [srv |-> t, net |-> Enqueue(tc, p)]
        BY <1>1, <1>3 DEF SameBoards, Servers, Retransmit
    <2>2. p \in ServerPkts /\ p.type = "CHALLENGE"
        BY DEF Challenge, ServerPkts
    <2> HIDE DEF t, p
    <2>3. Ends(s, c, Enqueue(tc, p), ts)
        BY <2>2, EndingPlain, EndsSend
    <2> QED BY <2>1, <2>3, EndsQuiet
<1>4. CASE ~s.awaitingAccept /\ s.unackedUpdate
    <2>1. s.lastUpdate \in ServerPkts /\ s.lastUpdate.type = "UPDATE"
        BY <1>4 DEF GoodServer, ServerBuffer, ServerPkts, UpdatePkts
    <2>2. s.lastUpdate \in Ending(s)
        BY <1>4, <2>1 DEF Ends, Ending, RealBoards, Decided
    <2>3. Retransmit(s, tc) = [srv |-> s, net |-> Enqueue(tc, s.lastUpdate)]
        BY <1>4 DEF Retransmit
    <2> QED BY <2>2, <2>3, EndsSend DEF SameBoards
<1>5. CASE ~s.awaitingAccept /\ ~s.unackedUpdate
    BY <1>5 DEF Retransmit, SameBoards
<1> QED BY <1>2, <1>3, <1>4, <1>5

LEMMA TickEnd ==
    ASSUME MaxSeq <= 255, TypeInv, TurnInv, PaceInv, EndInv, ServerTick
    PROVE  ServerEnds
<1>1. PICK due \in BOOLEAN, held \in BOOLEAN, silent \in BOOLEAN :
        ServerTickWhen(due, held, silent)
    BY DEF ServerTick, TypeInv, TypeOK, Servers
<1> DEFINE r == IF due THEN Retransmit(srv, toCli)
                       ELSE [srv |-> srv, net |-> toCli]
           s == r.srv
<1>2. /\ srv \in Servers /\ eng \in Engines /\ cli \in Clients /\ GoodServer(srv)
      /\ srv.mode = "NETWORKED" /\ srv.session \in Sessions
      /\ toCli \in Seq(ServerPkts) /\ Ordered(srv, eng, cli, toCli)
      /\ Ends(srv, cli, toCli, toSrv)
    BY <1>1 DEF ServerTickWhen, TypeInv, TypeOK, ServerOn, GoodServer, TurnInv, EndInv
<1>3. /\ s \in Servers /\ r.net \in Seq(ServerPkts) /\ SameBoards(srv, s)
      /\ Ordered(s, eng, cli, r.net) /\ Ends(s, cli, r.net, toSrv)
      /\ s.pendingRemoteAction = srv.pendingRemoteAction
    <2>1. CASE due
        <3>1. Retransmit(srv, toCli).srv.pendingRemoteAction = srv.pendingRemoteAction
            BY <1>2 DEF Retransmit, Servers
        <3> QED BY <1>2, <2>1, <3>1, RetransmitType, RetransmitOrdered, RetransmitEnd
                DEF GoodServer
    <2>2. CASE ~due
        BY <1>2, <2>2 DEF SameBoards
    <2> QED BY <2>1, <2>2
<1>4. /\ UNCHANGED toSrv
      /\ \/ srv' = ServerExited(s) /\ toCli' = r.net
         \/ srv' = [s EXCEPT !.phase = "FINISHED"] /\ toCli' = r.net
         \/ s.pendingRemoteAction /\ ResolveTurn(s, r.net)
         \/ srv' = s /\ toCli' = r.net
    BY <1>1 DEF ServerTickWhen
<1> HIDE DEF r, s
<1>5. CASE \/ srv' = ServerExited(s) /\ toCli' = r.net
           \/ srv' = [s EXCEPT !.phase = "FINISHED"] /\ toCli' = r.net
           \/ srv' = s /\ toCli' = r.net
    <2>1. SameBoards(s, srv') /\ toCli' = r.net
        BY <1>3, <1>5 DEF ServerExited, Servers, SameBoards
    <2> QED BY <1>3, <1>4, <2>1, EndsQuiet DEF ServerEnds
<1>6. CASE s.pendingRemoteAction /\ ResolveTurn(s, r.net)
    <2>1. PICK f \in ExecuteTurn(eng) :
            LET over == f.result # "ONGOING"
                u == SendUpdate(
                       [s EXCEPT
                          !.playerWon = @ \/ f.result = "P1_WIN",
                          !.pendingRemoteAction = over,
                          !.phase = IF over THEN "FINISHED" ELSE "WAIT_ACTION"],
                       f, r.net)
            IN  srv' = u.srv /\ toCli' = u.net
        BY <1>6 DEF ResolveTurn
    <2> DEFINE d == [s EXCEPT
                       !.playerWon = @ \/ f.result = "P1_WIN",
                       !.pendingRemoteAction = (f.result # "ONGOING"),
                       !.phase = IF f.result # "ONGOING" THEN "FINISHED"
                                                          ELSE "WAIT_ACTION"]
    <2>2. srv' = SendUpdate(d, f, r.net).srv /\ toCli' = SendUpdate(d, f, r.net).net
        BY <2>1
    <2>3. /\ (IF f.result # "ONGOING" THEN "FINISHED" ELSE "WAIT_ACTION") \in Phases
          /\ (s.playerWon \/ f.result = "P1_WIN") \in BOOLEAN
          /\ (f.result # "ONGOING") \in BOOLEAN
        BY NamesType
    <2>4. srv.peerReady
        BY <1>2, <1>3, <1>6, Accepted
    <2>5. /\ d \in Servers /\ d.session = s.session /\ d.session \in Sessions
          /\ d.peerReady /\ d.updateSeq = s.updateSeq
        BY <1>2, <1>3, <2>3, <2>4 DEF Servers, SameBoards
    <2> HIDE DEF d
    <2>6. f \in Engines /\ s.updateSeq < MaxSeq
        BY <1>2, <1>3, <1>6, ExecuteTurnType DEF ResolveTurn, CanUpdate, SameBoards
    <2>7. Ends(srv', cli, toCli', toSrv)
        BY <1>2, <1>3, <2>2, <2>5, <2>6, EndsBuilt DEF Ordered
    <2> QED BY <1>4, <2>7 DEF ServerEnds
<1> QED BY <1>4, <1>5, <1>6

LEMMA KeyEnd ==
    ASSUME MaxSeq <= 255, TerminalHeld, TypeInv, TurnInv, PaceInv, EndInv, ServerKey
    PROVE  ServerEnds
<1>1. /\ srv \in Servers /\ eng \in Engines /\ cli \in Clients
      /\ toCli \in Seq(ServerPkts) /\ Ordered(srv, eng, cli, toCli)
      /\ srv.mode = "NETWORKED" /\ srv.session \in Sessions /\ UNCHANGED toSrv
      /\ Ends(srv, cli, toCli, toSrv)
    BY DEF TypeInv, TypeOK, ServerOn, TurnInv, EndInv,
           ServerKey, ServerKeyFinished, ServerKeyEsc, ServerKeyFlee,
           ServerKeySwitchMenu, ServerKeyPick, ServerEvicted, ServerHasKeys,
           ServerKeys
<1>2. CASE ServerKeyEsc
    <2> DEFINE d == [srv EXCEPT !.phase = "FINISHED"]
               f == Forfeit(eng, 0)
    <2>1. srv.peerReady
        BY <1>1, <1>2, Accepted DEF ServerKeyEsc, ServerHasKeys
    <2>2. /\ d \in Servers /\ d.session = srv.session /\ d.peerReady
          /\ d.updateSeq = srv.updateSeq
        BY <1>1, <2>1, NamesType DEF Servers
    <2>3. /\ srv' = SendUpdate(d, f, toCli).srv
          /\ toCli' = SendUpdate(d, f, toCli).net /\ srv.updateSeq < MaxSeq
        BY <1>2 DEF ServerKeyEsc, CanUpdate
    <2>4. f \in Engines
        BY <1>1, ForfeitType DEF Side
    <2> HIDE DEF d, f
    <2>5. Ends(srv', cli, toCli', toSrv)
        BY <1>1, <2>2, <2>3, <2>4, EndsBuilt DEF Ordered
    <2> QED BY <1>1, <2>5 DEF ServerEnds
<1>3. CASE ~ServerKeyEsc
    <2>1. SameBoards(srv, srv')
        BY <1>1, <1>3 DEF ServerKey, ServerKeyFinished, ServerKeyFlee,
            ServerKeySwitchMenu, ServerKeyPick, ServerEvicted, ServerExited,
            Servers, SameBoards
    <2>2. toCli' = toCli \/ toCli' = Enqueue(toCli, ForfeitPkt(srv.session))
        BY <1>3 DEF ServerKey, ServerKeyFinished, ServerKeyFlee,
            ServerKeySwitchMenu, ServerKeyPick, ServerEvicted
    <2>3. /\ ForfeitPkt(srv.session) \in ServerPkts
          /\ ForfeitPkt(srv.session).type = "FORFEIT"
        BY <1>1 DEF ForfeitPkt, ServerPkts
    <2>4. Ends(srv, cli, toCli', toSrv)
        BY <1>1, <2>2, <2>3, EndingPlain, EndsSend
    <2> QED BY <1>1, <2>1, <2>4, EndsQuiet DEF ServerEnds
<1> QED BY <1>2, <1>3

\* A step of the client that takes no board.
LEMMA EndsClient ==
    ASSUME NEW s, NEW c, NEW tc, NEW ts, Ends(s, c, tc, ts),
           NEW d, d.session = c.session, d.mode \in {c.mode, "OFF"},
           d.lastApplied = c.lastApplied, d.preAccept \in {c.preAccept, NoPkt},
           Prompted(d) => Prompted(c),
           c.phase = "FINISHED" => d.phase = "FINISHED" \/ d.mode = "OFF"
    PROVE  Ends(s, d, tc, ts)
BY DEF Ends, Here

LEMMA EndsSays ==
    ASSUME NEW s, NEW c, NEW tc, NEW ts, Ends(s, c, tc, ts),
           NEW m \in ClientPkts, m.type # "STATE_REQUEST"
    PROVE  Ends(s, c, tc, Enqueue(ts, m))
<1>1. m \in NoRequest
    BY DEF NoRequest
<1> QED BY <1>1, EnqueueType DEF Ends

\* clientAuthSendActionV2()
LEMMA EndsAction ==
    ASSUME NEW s, NEW c \in Clients, c.session \in Sessions, NEW tc, NEW ts,
           Ends(s, c, tc, ts), NEW act \in Moves \cup {Flee, PureAck}
    PROVE  LET r == SendActionV2(c, ts, act)
           IN  Ends(s, r.cli, tc, r.net) /\ r.cli.phase = c.phase
<1> DEFINE p == ActionV2(c.session, c.clientTurn, act, c.lastApplied)
           d == SendActionV2(c, ts, act).cli
<1>1. p \in ClientPkts /\ p.type # "STATE_REQUEST"
    BY DEF ActionV2, ClientPkts, Clients
<1>2. SendActionV2(c, ts, act).net = Enqueue(ts, p)
    BY DEF SendActionV2
<1>3. /\ d.mode = c.mode /\ d.session = c.session /\ d.phase = c.phase
      /\ d.lastApplied = c.lastApplied /\ d.preAccept = c.preAccept
    BY DEF SendActionV2, Clients
<1> HIDE DEF p, d
<1>4. Ends(s, c, tc, Enqueue(ts, p))
    BY <1>1, EndsSays
<1>5. Ends(s, d, tc, Enqueue(ts, p))
    BY <1>3, <1>4, EndsClient DEF Prompted
<1> QED BY <1>2, <1>3, <1>5 DEF d

\* clientAuthOnUpdatePkt(): the board with the result opens the result screen,
\* and its repeats leave it up.
LEMMA EndsApply ==
    ASSUME ~LevelUps, NEW s, NEW c, GoodClient(c), c.mode = "NETWORKED",
           ~Prompted(c), NEW tc, NEW ts, Ends(s, c, tc, ts),
           NEW m \in UpdatePkts, m \in Ending(s), m.sess = c.session,
           NEW levelUp \in {FALSE, LevelUps}
    PROVE  LET r == ApplyUpdate(c, ts, m, levelUp) IN Ends(s, r.cli, tc, r.net)
<1> DEFINE r == ApplyUpdate(c, ts, m, levelUp)
           g == Shown(c, m)
<1>1. /\ c \in Clients /\ c.session \in Sessions /\ m.type = "UPDATE"
      /\ c.actionType \in Moves \cup {NoAct, Flee} /\ m.seq \in Byte
    BY DEF GoodClient, ClientOn, Clients, UpdatePkts
<1>2. SameHash(c, m, levelUp)
    <2>1. ~levelUp
        OBVIOUS
    <2>2. m.real
        BY <1>1 DEF Ending, RealBoards
    <2> QED BY <2>1, <2>2, Zenon DEF SameHash
<1>3. /\ g \in Clients /\ g.session = c.session /\ g.mode = c.mode
      /\ g.phase = c.phase /\ g.lastApplied = c.lastApplied
      /\ g.preAccept = c.preAccept
    <2>1. g \in Clients
        BY ShownType DEF GoodClient
    <2>2. /\ g.session = c.session /\ g.mode = c.mode
          /\ g.phase = c.phase /\ g.lastApplied = c.lastApplied
          /\ g.preAccept = c.preAccept
        BY <1>1 DEF Shown, Clients
    <2> QED BY <2>1, <2>2
<1> HIDE DEF g
<1>4. CASE m.seq = c.lastApplied /\ c.lastApplied # 0
    <2> DEFINE d   == [c EXCEPT !.awaitingFirst = FALSE]
               act == IF c.actionType # NoAct THEN c.actionType ELSE PureAck
    <2>1. /\ d \in Clients /\ d.session = c.session /\ d.mode = c.mode
          /\ d.phase = c.phase /\ d.lastApplied = c.lastApplied
          /\ d.preAccept = c.preAccept
        BY <1>1 DEF Clients
    <2>2. act \in Moves \cup {Flee, PureAck}
        BY <1>1
    <2>3. r = SendActionV2(d, ts, act)
        BY <1>4 DEF ApplyUpdate
    <2> HIDE DEF d, act, r
    <2>4. Ends(s, d, tc, ts)
        BY <2>1, EndsClient DEF Prompted
    <2> QED BY <1>1, <2>1, <2>2, <2>3, <2>4, EndsAction DEF r
<1>5. CASE ~(m.seq = c.lastApplied /\ c.lastApplied # 0) /\ m.result # "ONGOING"
    <2> DEFINE d == [g EXCEPT !.lastApplied = m.seq, !.phase = "FINISHED"]
    <2>1. /\ d \in Clients /\ d.session = c.session /\ d.phase = "FINISHED"
        BY <1>1, <1>3, NamesType DEF Clients
    <2>2. r = SendActionV2(d, ts, PureAck)
        BY <1>2, <1>5 DEF ApplyUpdate, g
    <2> HIDE DEF d, r
    <2>3. Ends(s, d, tc, ts)
        BY <2>1 DEF Ends, Prompted
    <2> QED BY <1>1, <2>1, <2>2, <2>3, EndsAction DEF r
<1>6. CASE ~(m.seq = c.lastApplied /\ c.lastApplied # 0) /\ m.result = "ONGOING"
    <2> DEFINE d == [g EXCEPT !.lastApplied = m.seq, !.phase = "WAIT_ACTION",
                              !.actionType = NoAct]
    <2>1. /\ d.session = c.session /\ d.phase = "WAIT_ACTION"
          /\ d.lastApplied = m.seq
        BY <1>3 DEF Clients
    <2>2. r = [cli |-> d, net |-> ts]
        BY <1>2, <1>6 DEF ApplyUpdate, g
    <2> HIDE DEF d, r
    <2>3. Here(s, d) /\ Decided(s) => d.lastApplied # s.updateSeq
        BY <1>1, <1>6, <2>1 DEF Here, Ending
    <2>4. Ends(s, d, tc, ts)
        BY <2>1, <2>3 DEF Ends, Prompted
    <2> QED BY <2>2, <2>4 DEF r
<1> QED BY <1>4, <1>5, <1>6

ClientEnds == Ends(srv, cli', toCli', toSrv')

LEMMA ClientReceiveEnd ==
    ASSUME ~LevelUps, TypeInv, EndInv, ClientReceive PROVE ClientEnds
<1>1. PICK i \in Deliverable(toCli) : ClientTakes(i)
    BY DEF ClientReceive
<1> DEFINE m    == toCli[i]
           rest == RemoveAt(toCli, i)
<1>2. /\ cli \in Clients /\ GoodClient(cli) /\ toCli \in Seq(ServerPkts)
      /\ toSrv \in Seq(ClientPkts) /\ Ends(srv, cli, toCli, toSrv)
      /\ (cli.mode # "OFF" => cli.mode = "NETWORKED")
    BY DEF TypeInv, TypeOK, GoodClient, Clients, Modes, EndInv
<1>3. i \in DOMAIN toCli /\ m \in Ending(srv) /\ m \in ServerPkts
    <2>1. i \in DOMAIN toCli /\ m \in ServerPkts
        BY <1>2, DeliverableType
    <2>2. m \in Ending(srv)
        BY <1>2, DeliverableType DEF Ends
    <2> QED BY <2>1, <2>2
<1>4. Ends(srv, cli, rest, toSrv)
    <2>1. Thinned(toSrv, toSrv) /\ Thinned(toCli, rest)
        BY <1>2, <1>3, ThinnedBy
    <2> QED BY <1>2, <2>1, EndsThinned
<1>5. /\ toCli' = rest
      /\ \/ OnChallenge(m)
         \/ cli.mode # "OFF" /\ m.type = "UPDATE" /\ OnUpdate(m)
         \/ m.type = "FULL_STATE"
         \/ OnForfeit(m)
         \/ UNCHANGED <<cli, toSrv>>
    BY <1>1 DEF ClientTakes
<1>6. m.type # "FULL_STATE"
    BY <1>3 DEF Ending, RealBoards
<1> HIDE DEF m, rest
<1>7. SUFFICES Ends(srv, cli', rest, toSrv')
    BY <1>5 DEF ClientEnds
<1>8. CASE UNCHANGED <<cli, toSrv>>
    BY <1>4, <1>8
<1>9. CASE OnChallenge(m)
    <2>1. CASE cli' = [cli EXCEPT !.mode = "NETWORKED",
                      !.phase = "WAIT_CHALLENGE_OVERLAY", !.session = m.sess,
                      !.lastApplied = 0, !.actionType = NoAct,
                      !.needsFullState = FALSE, !.preAccept = NoPkt,
                      !.playerWon = FALSE, !.xpDrops = 0]
               /\ UNCHANGED toSrv
        <3>1. cli'.lastApplied = 0 /\ cli'.preAccept = NoPkt
            BY <1>2, <2>1 DEF Clients
        <3> QED BY <1>4, <2>1, <3>1 DEF Ends
    <2> QED BY <1>8, <1>9, <2>1 DEF OnChallenge
<1>10. CASE cli.mode # "OFF" /\ m.type = "UPDATE" /\ OnUpdate(m)
    <2>1. m \in UpdatePkts
        BY <1>3, <1>10 DEF ServerPkts
    <2>2. CASE Prompted(cli) /\ UNCHANGED toSrv /\ cli' = [cli EXCEPT !.preAccept = m]
        <3>1. /\ cli'.session = cli.session /\ cli'.mode = cli.mode
              /\ cli'.phase = cli.phase /\ cli'.lastApplied = cli.lastApplied
              /\ cli'.preAccept = m
            BY <1>2, <2>2 DEF Clients
        <3> QED BY <1>3, <1>4, <2>2, <3>1 DEF Ends, Here
    <2>3. CASE /\ m.sess = cli.session /\ ~Prompted(cli)
               /\ \E levelUp \in {FALSE, LevelUps} :
                    LET r == ApplyUpdate(cli, toSrv, m, levelUp)
                    IN  cli' = r.cli /\ toSrv' = r.net
        <3>1. PICK levelUp \in {FALSE, LevelUps} :
                /\ cli' = ApplyUpdate(cli, toSrv, m, levelUp).cli
                /\ toSrv' = ApplyUpdate(cli, toSrv, m, levelUp).net
            BY <2>3
        <3>2. Ends(srv, ApplyUpdate(cli, toSrv, m, levelUp).cli, rest,
                   ApplyUpdate(cli, toSrv, m, levelUp).net)
            BY <1>2, <1>3, <1>4, <1>10, <2>1, <2>3, EndsApply
        <3> QED BY <3>1, <3>2
    <2> QED BY <1>8, <1>10, <2>2, <2>3 DEF OnUpdate, Prompted
<1>11. CASE OnForfeit(m)
    <2>1. CASE cli' = [cli EXCEPT !.phase = "FINISHED"] /\ UNCHANGED toSrv
        <3>1. /\ cli'.session = cli.session /\ cli'.mode = cli.mode
              /\ cli'.phase = "FINISHED" /\ cli'.lastApplied = cli.lastApplied
              /\ cli'.preAccept = cli.preAccept
            BY <1>2, <2>1 DEF Clients
        <3>2. Ends(srv, cli', rest, toSrv)
            BY <1>4, <3>1, EndsClient DEF Prompted
        <3> QED BY <2>1, <3>2
    <2> QED BY <1>8, <1>11, <2>1 DEF OnForfeit
<1> QED BY <1>5, <1>6, <1>8, <1>9, <1>10, <1>11

LEMMA ClientTickEnd ==
    ASSUME ~SlowStart, TypeInv, EndInv, ClientTick PROVE ClientEnds
<1>1. PICK first \in {"none", "accept", "request"},
           due \in BOOLEAN, silent \in BOOLEAN :
        ClientTickWhen(first, due, silent)
    BY DEF ClientTick
<1> DEFINE say == Accept(cli.session, TRUE)
           sent == IF ~cli.awaitingFirst \/ first = "none" THEN toSrv
                   ELSE Enqueue(toSrv, say)
           resend == due /\ Resends(cli)
           r == IF resend THEN SendActionV2(cli, sent, cli.actionType)
                          ELSE [cli |-> cli, net |-> sent]
<1>2. /\ cli \in Clients /\ GoodClient(cli) /\ cli.session \in Sessions
      /\ toSrv \in Seq(ClientPkts) /\ Ends(srv, cli, toCli, toSrv)
      /\ cli.actionType \in Moves \cup {NoAct, Flee}
    BY <1>1 DEF ClientTickWhen, TypeInv, TypeOK, GoodClient, ClientOn, Clients, EndInv
<1>3. /\ toCli' = toCli
      /\ cli' = IF silent THEN [r.cli EXCEPT !.phase = "FINISHED"] ELSE r.cli
      /\ toSrv' = r.net
    BY <1>1 DEF ClientTickWhen, Asks
<1>4. say \in ClientPkts /\ say.type = "ACCEPT"
    BY <1>2 DEF Accept, ClientPkts
<1> HIDE DEF say
<1>5. sent \in Seq(ClientPkts) /\ Ends(srv, cli, toCli, sent)
    <2>1. Enqueue(toSrv, say) \in Seq(ClientPkts)
        BY <1>2, <1>4, EnqueueType
    <2>2. Ends(srv, cli, toCli, Enqueue(toSrv, say))
        BY <1>2, <1>4, EndsSays
    <2> QED BY <1>2, <2>1, <2>2
<1> HIDE DEF sent
<1>6. r.cli \in Clients /\ Ends(srv, r.cli, toCli, r.net)
    <2>1. CASE resend
        <3>1. cli.actionType \in Moves \cup {Flee, PureAck}
            BY <1>2, <2>1 DEF Resends
        <3>2. SendActionV2(cli, sent, cli.actionType).cli \in Clients
            BY <1>2, <1>5, <3>1, SendActionType DEF GoodClient
        <3>3. Ends(srv, SendActionV2(cli, sent, cli.actionType).cli, toCli,
                   SendActionV2(cli, sent, cli.actionType).net)
            BY <1>2, <1>5, <3>1, EndsAction
        <3> QED BY <2>1, <3>2, <3>3
    <2>2. CASE ~resend
        BY <1>2, <1>5, <2>2
    <2> QED BY <2>1, <2>2
<1> HIDE DEF r
<1>7. CASE silent
    <2>1. /\ cli'.session = r.cli.session /\ cli'.mode = r.cli.mode
          /\ cli'.phase = "FINISHED" /\ cli'.lastApplied = r.cli.lastApplied
          /\ cli'.preAccept = r.cli.preAccept
        BY <1>3, <1>6, <1>7 DEF Clients
    <2>2. Ends(srv, cli', toCli, r.net)
        BY <1>6, <2>1, EndsClient DEF Prompted
    <2> QED BY <1>3, <2>2 DEF ClientEnds
<1> QED BY <1>3, <1>6, <1>7 DEF ClientEnds

LEMMA ClientYesEnd ==
    ASSUME ~LevelUps, TypeInv, TurnInv, PaceInv, EndInv, ClientKeyYes PROVE ClientEnds
<1> DEFINE say  == Accept(cli.session, TRUE)
           sent == Enqueue(toSrv, say)
           m    == cli.preAccept
           c == [cli EXCEPT !.phase = "WAIT_REMOTE", !.awaitingFirst = TRUE,
                            !.alive = FullTeams, !.preAccept = NoPkt]
<1>1. /\ cli \in Clients /\ Prompted(cli) /\ cli.mode = "NETWORKED"
      /\ cli.session \in Sessions /\ toSrv \in Seq(ClientPkts)
      /\ Ends(srv, cli, toCli, toSrv) /\ cli.lastApplied = 0
      /\ (m # NoPkt => m \in UpdatePkts /\ m.sess = cli.session)
    BY NamesType DEF ClientKeyYes, Prompted, TypeInv, TypeOK, ClientOn, EndInv,
                     Clients, PaceInv, Paced, Fresh, TurnInv, Ordered, ClientInOrder
<1>2. /\ toCli' = toCli
      /\ \/ m = NoPkt /\ cli' = c /\ toSrv' = sent
         \/ /\ m # NoPkt
            /\ \E levelUp \in {FALSE, LevelUps} :
                 LET r == ApplyUpdate(c, sent, m, levelUp)
                 IN  cli' = r.cli /\ toSrv' = r.net
    BY DEF ClientKeyYes, ClientKeys
<1>3. say \in ClientPkts /\ say.type = "ACCEPT"
    BY <1>1 DEF Accept, ClientPkts
<1> HIDE DEF say
<1>4. Ends(srv, cli, toCli, sent)
    BY <1>1, <1>3, EndsSays
<1> HIDE DEF sent
<1>5. /\ c \in Clients /\ c.mode = "NETWORKED" /\ c.session = cli.session
      /\ c.phase = "WAIT_REMOTE" /\ c.preAccept = NoPkt /\ c.lastApplied = 0
    BY <1>1, TeamsType, NamesType DEF Clients
<1> HIDE DEF c
<1>6. Ends(srv, c, toCli, sent)
    BY <1>4, <1>5 DEF Ends, Prompted
<1>7. m # NoPkt => m \in Ending(srv)
    BY <1>1 DEF Ends
<1> HIDE DEF m
<1>8. CASE m = NoPkt
    BY <1>2, <1>6, <1>8 DEF ClientEnds
<1>9. CASE m # NoPkt
    <2>1. PICK levelUp \in {FALSE, LevelUps} :
            cli' = ApplyUpdate(c, sent, m, levelUp).cli
            /\ toSrv' = ApplyUpdate(c, sent, m, levelUp).net
        BY <1>2, <1>9
    <2>2. GoodClient(c) /\ ~Prompted(c)
        BY <1>1, <1>5 DEF GoodClient, ClientOn, Prompted
    <2>3. Ends(srv, ApplyUpdate(c, sent, m, levelUp).cli, toCli,
               ApplyUpdate(c, sent, m, levelUp).net)
        BY <1>1, <1>5, <1>6, <1>7, <1>9, <2>2, EndsApply
    <2> QED BY <1>2, <2>1, <2>3 DEF ClientEnds
<1> QED BY <1>8, <1>9

LEMMA ClientKeyEnd ==
    ASSUME TypeInv, EndInv, ClientKey, ~ClientKeyYes PROVE ClientEnds
<1>1. /\ cli \in Clients /\ GoodClient(cli) /\ cli.mode = "NETWORKED"
      /\ cli.session \in Sessions /\ toSrv \in Seq(ClientPkts) /\ toCli' = toCli
      /\ Ends(srv, cli, toCli, toSrv)
    BY DEF ClientKey, ClientKeyFinished, ClientKeyNo,
           ClientKeyFlee, ClientKeySwitchMenu, ClientKeyPick, ClientEvicted,
           ClientKeys, GoodClient, ClientOn, TypeInv, TypeOK, EndInv
<1>2. SUFFICES Ends(srv, cli', toCli, toSrv')
    BY <1>1 DEF ClientEnds
<1>3. CASE cli' = ClientExited(cli) /\ UNCHANGED toSrv
    <2>1. /\ cli'.mode = "OFF" /\ cli'.phase = "IDLE"
          /\ cli'.session = cli.session
          /\ cli'.lastApplied = cli.lastApplied /\ cli'.preAccept = NoPkt
        BY <1>1, <1>3 DEF ClientExited, Clients
    <2>2. Ends(srv, cli', toCli, toSrv)
        BY <1>1, <2>1, EndsClient DEF Prompted
    <2> QED BY <1>3, <2>2
<1>4. CASE ClientKeyNo
    <2> DEFINE say == Accept(cli.session, FALSE)
    <2>1. say \in ClientPkts /\ say.type = "ACCEPT"
        BY <1>1 DEF Accept, ClientPkts
    <2>2. /\ cli'.mode = cli.mode /\ cli'.session = cli.session
          /\ cli'.phase = "FINISHED" /\ cli'.lastApplied = cli.lastApplied
          /\ cli'.preAccept = cli.preAccept
          /\ toSrv' = Enqueue(toSrv, say)
        BY <1>1, <1>4 DEF ClientKeyNo, Clients
    <2> HIDE DEF say
    <2>3. Ends(srv, cli', toCli, toSrv)
        BY <1>1, <2>2, EndsClient DEF Prompted
    <2> QED BY <2>1, <2>2, <2>3, EndsSays
<1>5. ASSUME NEW p \in MenuPhases, cli.phase \in MenuPhases,
             cli' = [cli EXCEPT !.phase = p], UNCHANGED toSrv
      PROVE  Ends(srv, cli', toCli, toSrv')
    <2>1. /\ cli'.mode = cli.mode /\ cli'.session = cli.session
          /\ ~Prompted(cli') /\ cli.phase # "FINISHED"
          /\ cli'.lastApplied = cli.lastApplied /\ cli'.preAccept = cli.preAccept
        BY <1>1, <1>5 DEF Clients, Prompted, MenuPhases
    <2>2. Ends(srv, cli', toCli, toSrv)
        BY <1>1, <2>1, EndsClient
    <2> QED BY <1>5, <2>2
<1>6. ASSUME NEW act \in Moves \cup {Flee}, NEW p \in {"FINISHED", "WAIT_REMOTE"},
             cli.phase \in MenuPhases \cup {"WAIT_REMOTE"},
             LET r == SendActionV2(cli, toSrv, act)
             IN  cli' = [r.cli EXCEPT !.phase = p] /\ toSrv' = r.net
      PROVE  Ends(srv, cli', toCli, toSrv')
    <2> DEFINE r == SendActionV2(cli, toSrv, act)
               c == r.cli
    <2>1. Ends(srv, c, toCli, r.net) /\ c.phase # "FINISHED"
        BY <1>1, <1>6, EndsAction DEF MenuPhases
    <2>2. c \in Clients
        BY <1>1, <1>6, SendActionType DEF GoodClient
    <2>3. cli' = [c EXCEPT !.phase = p] /\ toSrv' = r.net
        BY <1>6
    <2> HIDE DEF r, c
    <2>4. /\ cli'.mode = c.mode /\ cli'.session = c.session /\ ~Prompted(cli')
          /\ cli'.lastApplied = c.lastApplied /\ cli'.preAccept = c.preAccept
        BY <1>6, <2>2, <2>3 DEF Clients, Prompted
    <2> QED BY <2>1, <2>3, <2>4, EndsClient
<1>7. CASE ClientKeyFlee
    BY <1>5, <1>6, <1>7 DEF ClientKeyFlee, MenuPhases
<1>8. CASE ClientKeySwitchMenu
    BY <1>5, <1>8 DEF ClientKeySwitchMenu, MenuPhases
<1>9. CASE ClientKeyPick
    <2>1. PICK mv \in Moves :
            LET r == SendActionV2(cli, toSrv, mv)
            IN  cli' = [r.cli EXCEPT !.phase = "WAIT_REMOTE"] /\ toSrv' = r.net
        BY <1>9 DEF ClientKeyPick
    <2>2. cli.phase \in MenuPhases
        BY <1>9 DEF ClientKeyPick, MenuPhases
    <2> QED BY <1>6, <2>1, <2>2
<1> QED BY <1>3, <1>4, <1>7, <1>8, <1>9
        DEF ClientKey, ClientKeyFinished, ClientEvicted

LEMMA EndInit == Init => EndInv
<1> SUFFICES ASSUME Init PROVE EndInv
    OBVIOUS
<1>1. \A S : toCli \in Seq(S) /\ toSrv \in Seq(S)
    BY DEF Init
<1>2. /\ ~srv.peerReady /\ ~srv.unackedUpdate /\ cli.mode = "OFF"
      /\ cli.phase = "IDLE"
    BY DEF Init
<1> QED BY <1>1, <1>2 DEF EndInv, Ends, Here, Prompted

LEMMA EndStep ==
    ASSUME MaxSeq <= 255, TerminalHeld, ~SlowStart, ~LevelUps
    PROVE  TypeInv /\ TurnInv /\ PaceInv /\ EndInv /\ [Next]_vars => EndInv'
<1> SUFFICES ASSUME TypeInv, TurnInv, PaceInv, EndInv, [Next]_vars PROVE EndInv'
    OBVIOUS
<1>1. ASSUME ServerEnds, UNCHANGED cli PROVE EndInv'
    BY <1>1 DEF ServerEnds, EndInv
<1>2. ASSUME ClientEnds, UNCHANGED srv PROVE EndInv'
    BY <1>2 DEF ClientEnds, EndInv
<1>3. CASE SendChallenge
    BY <1>1, <1>3, ChallengeEnd DEF SendChallenge
<1>4. CASE ServerReceive
    <2>1. UNCHANGED cli
        BY <1>4 DEF ServerReceive, ServerTakes
    <2> QED BY <1>1, <1>4, <2>1, ReceiveEnd
<1>5. CASE ServerTick
    <2>1. UNCHANGED cli
        BY <1>5 DEF ServerTick, ServerTickWhen
    <2> QED BY <1>1, <1>5, <2>1, TickEnd
<1>6. CASE ServerKey
    <2>1. UNCHANGED cli
        BY <1>6 DEF ServerKey, ServerKeyFinished, ServerKeyEsc, ServerKeyFlee,
           ServerKeySwitchMenu, ServerKeyPick, ServerEvicted, ServerKeys
    <2> QED BY <1>1, <1>6, <2>1, KeyEnd
<1>7. CASE ClientReceive
    <2>1. UNCHANGED srv
        BY <1>7 DEF ClientReceive, ClientTakes, ServerUnchanged
    <2> QED BY <1>2, <1>7, <2>1, ClientReceiveEnd
<1>8. CASE ClientTick
    <2>1. UNCHANGED srv
        BY <1>8 DEF ClientTick, ClientTickWhen, ServerUnchanged
    <2> QED BY <1>2, <1>8, <2>1, ClientTickEnd
<1>9. CASE ClientKey
    <2>1. UNCHANGED srv
        BY <1>9 DEF ClientKey, ClientKeyFinished, ClientKeyYes, ClientKeyNo,
           ClientKeyFlee, ClientKeySwitchMenu, ClientKeyPick, ClientEvicted,
           ClientKeys, ServerUnchanged
    <2> QED BY <1>2, <1>9, <2>1, ClientYesEnd, ClientKeyEnd
<1>10. CASE Lose
    <2>1. /\ UNCHANGED <<srv, cli>>
          /\ toCli' \in Losses(toCli) \cup {toCli}
          /\ toSrv' \in Losses(toSrv) \cup {toSrv}
        BY <1>10 DEF Lose, ServerUnchanged
    <2>2. Thinned(toCli, toCli') /\ Thinned(toSrv, toSrv')
        BY <2>1, ThinnedBy DEF TypeInv, TypeOK
    <2>3. Ends(srv, cli, toCli', toSrv')
        BY <2>2, EndsThinned DEF EndInv
    <2> QED BY <2>1, <2>3 DEF EndInv
<1>11. CASE UNCHANGED vars
    BY <1>11 DEF vars, EndInv
<1> QED BY <1>3, <1>4, <1>5, <1>6, <1>7, <1>8, <1>9, <1>10, <1>11 DEF Next

LEMMA EndIsShown == PaceInv /\ EndInv => AckedResultIsShown
<1> SUFFICES ASSUME PaceInv, EndInv, SameBattle, srv.peerReady,
                    ~srv.unackedUpdate, Decided(srv)
             PROVE  cli.phase = "FINISHED"
    BY DEF AckedResultIsShown, Decided
<1>1. Here(srv, cli) /\ srv.mode = "NETWORKED"
    BY DEF SameBattle, Here
<1>2. srv.updateSeq # 0
    BY DEF EndInv, Ends
<1>3. cli.lastApplied = srv.updateSeq
    BY <1>1, <1>2 DEF PaceInv, Paced, Echoed
<1> QED BY <1>1, <1>2, <1>3 DEF EndInv, Ends

\* Once the UPDATE that ends the battle is acknowledged, which is what lets the
\* server's user leave (handleKey() holds the result screen for it), the
\* client's user is looking at the result: clientAuthOnUpdatePkt() opens the
\* result screen with the acknowledgement, and no repeat, no board still on its
\* way and no repeated challenge takes it down.
THEOREM AckedEndShown ==
    ASSUME ~Reorder, MaxSeq <= 255, TerminalHeld, ~SlowStart, ~EarlyFlee, ~LevelUps
    PROVE  Spec => []AckedResultIsShown
<1>1. Init => EndInv
    BY EndInit
<1>2. TypeInv /\ TurnInv /\ PaceInv /\ EndInv /\ [Next]_vars => EndInv'
    BY EndStep
<1>3. PaceInv /\ EndInv => AckedResultIsShown
    BY EndIsShown
<1> QED BY <1>1, <1>2, <1>3, PaceInvariant, TypeInvariant, TurnInvariant, PTL DEF Spec

=============================================================================
