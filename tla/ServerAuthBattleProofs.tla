----------------------- MODULE ServerAuthBattleProofs -----------------------
(***************************************************************************)
(* Proofs about ServerAuthBattle, for every value of its constants: type   *)
(* correctness; the two promises of the protocol that hold on every kind   *)
(* of link (MovesArePicked and AckedWasTaken); that one side at most wins, *)
(* when the packet that ends a battle is kept for its acknowledgement      *)
(* (OneWinner); that, on a direct link as well, knock-outs are not counted *)
(* twice (NoXpMinted); and that a client plays only in a battle of which   *)
(* the server has the ACCEPT (AcceptConfirmed).                            *)
(*                                                                         *)
(* What a packet says about the history of the battle is kept in the SET   *)
(* of packets a channel ranges over, so that every fact about a channel is *)
(* of the form ch \in Seq(S) and the channel lemmas are proved once.       *)
(***************************************************************************)
EXTENDS ServerAuthBattle, MeshChannelProofs

-----------------------------------------------------------------------------
(* The engine. *)

LEMMA WireType == \A n \in Nat : Wire(n) \in Byte
BY DEF Wire, Byte

LEMMA NextByteType == \A n \in Byte : Wire(n + 1) \in Byte
BY DEF Wire, Byte

LEMMA StartType ==
    ASSUME NEW teams \in Alive
    PROVE  Start(teams) \in Engines
BY DEF Start, Engines, Alive, Results, Side

LEMMA TeamsType == FullTeams \in Alive /\ [FullTeams EXCEPT ![1] = 0] \in Alive
BY EngineAssumption DEF FullTeams, Alive, Side

LEMMA SubmitType ==
    ASSUME NEW e \in Engines, NEW side \in Side, NEW mv \in Moves
    PROVE  Submit(e, side, mv) \in Engines
BY DEF Submit, Engines

LEMMA ForfeitType ==
    ASSUME NEW e \in Engines, NEW side \in Side
    PROVE  Forfeit(e, side) \in Engines
BY DEF Forfeit, Engines, Results

LEMMA ResultOfType ==
    ASSUME NEW a \in Alive
    PROVE  ResultOf(a) \in Results
<1>1. a[0] \in Nat /\ a[1] \in Nat
    BY EngineAssumption DEF Alive, Side
<1> QED BY <1>1 DEF ResultOf, Results

LEMMA ExecuteTurnType ==
    ASSUME NEW e \in Engines, NEW f \in ExecuteTurn(e)
    PROVE  f \in Engines
<1>1. CASE Ready(e)
    <2>1. PICK a \in Survivors(e.alive) :
            f = [turn |-> e.turn + 1, result |-> ResultOf(a),
                 pend |-> [s \in Side |-> NoAct], alive |-> a]
        BY <1>1 DEF ExecuteTurn
    <2>2. a \in Alive
        BY DEF Survivors, Alive
    <2>3. e.turn + 1 \in Nat
        BY DEF Engines
    <2>4. ResultOf(a) \in Results
        BY <2>2, ResultOfType
    <2> QED BY <2>1, <2>2, <2>3, <2>4 DEF Engines, Alive
<1>2. CASE ~Ready(e)
    BY <1>2 DEF ExecuteTurn
<1> QED BY <1>1, <1>2

-----------------------------------------------------------------------------
(* Types.  TypeOK alone is not inductive: a packet carries its sender's    *)
(* session, which is one of Sessions only while a battle is on, and an     *)
(* unacknowledged UPDATE is resent from its buffer.                        *)

ServerOn(s) == s.mode = "NETWORKED" => s.session \in Sessions
ServerBuffer(s) == s.unackedUpdate => s.lastUpdate \in UpdatePkts
ClientOn(c) ==
    /\ c.phase # "IDLE" => c.mode = "NETWORKED"
    /\ c.mode = "NETWORKED" => c.session \in Sessions

TypeInv == /\ TypeOK
           /\ ServerOn(srv) /\ ServerBuffer(srv)
           /\ ClientOn(cli)

GoodServer(s) == s \in Servers /\ ServerOn(s) /\ ServerBuffer(s)
GoodClient(c) == c \in Clients /\ ClientOn(c)

LEMMA NamesType ==
    /\ {"WAIT_ACTION", "WAIT_SWITCH", "WAIT_FLEE", "IDLE", "WAIT_REMOTE",
        "FINISHED", "WAIT_CHALLENGE_OVERLAY"} \subseteq Phases
    /\ {"OFF", "NETWORKED"} \subseteq Modes
BY DEF Phases, MenuPhases, Modes

LEMMA ServerExitedType ==
    ASSUME NEW s \in Servers
    PROVE  GoodServer(ServerExited(s))
<1>1. 0 \in 0 .. MaxTries
    BY BoundAssumption
<1> QED
    BY <1>1, NamesType DEF GoodServer, Servers, ServerOn, ServerBuffer, ServerExited

\* serverAuthSendUpdate() keeps the types and refills the buffer.
LEMMA SendUpdateType ==
    ASSUME NEW s \in Servers, s.session \in Sessions, NEW e \in Engines,
           NEW ch \in Seq(ServerPkts)
    PROVE  /\ GoodServer(SendUpdate(s, e, ch).srv)
           /\ SendUpdate(s, e, ch).net \in Seq(ServerPkts)
<1> DEFINE seq == Wire(s.updateSeq + 1)
           upd == Update(s.session, seq, e, s.peerReady)
<1>1. seq \in Byte
    <2>1. s.updateSeq \in Byte
        BY DEF Servers
    <2> QED BY <2>1, NextByteType
<1>2. upd \in UpdatePkts
    <2>1. Wire(e.turn) \in Byte /\ e.alive \in Alive /\ e.result \in Results
        BY WireType DEF Engines, Alive
    <2>2. s.peerReady \in BOOLEAN
        BY DEF Servers
    <2> HIDE DEF seq
    <2> QED BY <1>1, <2>1, <2>2 DEF Update, UpdatePkts
<1>3. upd \in ServerPkts
    BY <1>2 DEF ServerPkts
<1> HIDE DEF upd, seq
<1>4. GoodServer([s EXCEPT !.updateSeq = seq, !.lastUpdate = upd,
                           !.unackedUpdate = TRUE])
    BY <1>1, <1>2 DEF GoodServer, ServerOn, ServerBuffer, Servers
<1>5. Enqueue(ch, upd) \in Seq(ServerPkts)
    BY <1>3, EnqueueType
<1> QED BY <1>4, <1>5 DEF SendUpdate, seq, upd

\* serverAuthRetransmit(), likewise.
LEMMA RetransmitType ==
    ASSUME NEW s, GoodServer(s), s.mode = "NETWORKED",
           NEW ch \in Seq(ServerPkts)
    PROVE  /\ GoodServer(Retransmit(s, ch).srv)
           /\ Retransmit(s, ch).srv.mode = "NETWORKED"
           /\ Retransmit(s, ch).net \in Seq(ServerPkts)
<1>1. s \in Servers /\ s.session \in Sessions
    BY DEF GoodServer, ServerOn
<1>2. CASE s.awaitingAccept /\ s.challengeTries >= MaxTries
    BY <1>1, <1>2
       DEF GoodServer, ServerOn, ServerBuffer, Servers, Retransmit, OutOfTries, Phases
<1>3. CASE s.awaitingAccept /\ ~(s.challengeTries >= MaxTries)
    <2>1. Challenge(s.session) \in ServerPkts
        BY <1>1 DEF Challenge, ServerPkts
    <2>2. s.challengeTries + 1 \in 0 .. MaxTries
        BY <1>1, <1>3, BoundAssumption DEF Servers
    <2>3. GoodServer([s EXCEPT !.challengeTries = @ + 1])
        BY <1>1, <2>2 DEF GoodServer, ServerOn, ServerBuffer, Servers
    <2>4. Enqueue(ch, Challenge(s.session)) \in Seq(ServerPkts)
        BY <2>1, EnqueueType
    <2>5. [s EXCEPT !.challengeTries = @ + 1].mode = "NETWORKED"
        BY <1>1 DEF Servers
    <2> QED BY <1>3, <2>3, <2>4, <2>5 DEF Retransmit, OutOfTries
<1>4. CASE ~s.awaitingAccept /\ s.unackedUpdate
    <2>1. s.lastUpdate \in ServerPkts
        BY <1>4 DEF GoodServer, ServerBuffer, ServerPkts
    <2>2. Enqueue(ch, s.lastUpdate) \in Seq(ServerPkts)
        BY <2>1, EnqueueType
    <2> QED BY <1>4, <2>2 DEF Retransmit, OutOfTries
<1>5. CASE ~s.awaitingAccept /\ ~s.unackedUpdate
    BY <1>5 DEF Retransmit, OutOfTries
<1> QED BY <1>2, <1>3, <1>4, <1>5

LEMMA AcknowledgedType ==
    ASSUME NEW s, GoodServer(s), NEW m
    PROVE  GoodServer(Acknowledged(s, m))
BY DEF GoodServer, ServerOn, ServerBuffer, Servers, Acknowledged

-----------------------------------------------------------------------------
(* Types on the client's side. *)

LEMMA ClientExitedType ==
    ASSUME NEW c \in Clients
    PROVE  GoodClient(ClientExited(c))
<1>1. 0 \in Byte
    BY DEF Byte
<1> QED BY <1>1, NamesType DEF GoodClient, Clients, ClientOn, ClientExited

\* clientAuthSendActionV2() sends a well-formed packet and remembers anything
\* but a pure acknowledgement.
LEMMA SendActionType ==
    ASSUME NEW c, GoodClient(c), c.session \in Sessions,
           NEW ch \in Seq(ClientPkts), NEW act \in Moves \cup {Flee, PureAck}
    PROVE  /\ GoodClient(SendActionV2(c, ch, act).cli)
           /\ SendActionV2(c, ch, act).cli.mode = c.mode
           /\ SendActionV2(c, ch, act).cli.session = c.session
           /\ SendActionV2(c, ch, act).net \in Seq(ClientPkts)
<1>1. c \in Clients /\ c.clientTurn \in Byte /\ c.lastApplied \in Byte
    BY DEF GoodClient, Clients
<1>2. ActionV2(c.session, c.clientTurn, act, c.lastApplied) \in ClientPkts
    BY <1>1 DEF ActionV2, ClientPkts
<1>3. SendActionV2(c, ch, act).net \in Seq(ClientPkts)
    BY <1>2, EnqueueType DEF SendActionV2
<1>4. CASE act = PureAck
    BY <1>3, <1>4 DEF SendActionV2
<1>5. CASE act # PureAck
    <2>1. GoodClient([c EXCEPT !.actionType = act, !.actionTurn = c.clientTurn])
        BY <1>1, <1>5 DEF GoodClient, ClientOn, Clients
    <2>2. /\ [c EXCEPT !.actionType = act, !.actionTurn = c.clientTurn].mode = c.mode
          /\ [c EXCEPT !.actionType = act,
                       !.actionTurn = c.clientTurn].session = c.session
        BY <1>1 DEF Clients
    <2> QED BY <1>3, <1>5, <2>1, <2>2 DEF SendActionV2
<1> QED BY <1>4, <1>5

LEMMA OverlayType ==
    ASSUME NEW alive \in Alive, NEW m, m.alive \in Alive
    PROVE  Overlay(alive, m) \in Alive
BY DEF Overlay, Alive, Side

LEMMA KnockOutsType ==
    ASSUME NEW alive \in Alive, NEW m, m.alive \in Alive
    PROVE  KnockOuts(alive, m) \in Nat
<1>1. alive[0] \in Nat /\ m.alive[0] \in Nat
    BY EngineAssumption DEF Alive, Side
<1> QED BY <1>1 DEF KnockOuts

LEMMA ShownType ==
    ASSUME NEW c, GoodClient(c), c.mode = "NETWORKED", NEW m \in UpdatePkts
    PROVE  /\ GoodClient(Shown(c, m))
           /\ Shown(c, m).mode = "NETWORKED"
           /\ Shown(c, m).session = c.session
<1>1. /\ m.turn \in Byte /\ m.alive \in Alive
    BY DEF UpdatePkts
<1>2. /\ c \in Clients /\ c.alive \in Alive /\ c.xpDrops \in Nat
      /\ c.playerWon \in BOOLEAN
    BY DEF GoodClient, Clients
<1>3. Overlay(c.alive, m) \in Alive
    BY <1>1, <1>2, OverlayType
<1>4. c.xpDrops + KnockOuts(c.alive, m) \in Nat
    BY <1>1, <1>2, KnockOutsType
<1>5. (c.playerWon \/ m.result = "P2_WIN") \in BOOLEAN
    OBVIOUS
<1> QED BY <1>1, <1>2, <1>3, <1>4, <1>5
        DEF Shown, ClientWins, GoodClient, ClientOn, Clients

\* clientAuthOnUpdatePkt(), every branch.
LEMMA ApplyUpdateType ==
    ASSUME NEW c, GoodClient(c), c.mode = "NETWORKED", NEW m \in UpdatePkts,
           NEW ch \in Seq(ClientPkts), NEW levelUp
    PROVE  /\ GoodClient(ApplyUpdate(c, ch, m, levelUp).cli)
           /\ ApplyUpdate(c, ch, m, levelUp).cli.session = c.session
           /\ ApplyUpdate(c, ch, m, levelUp).net \in Seq(ClientPkts)
<1> DEFINE r == ApplyUpdate(c, ch, m, levelUp)
<1>1. /\ c \in Clients /\ c.session \in Sessions
      /\ c.actionType \in Moves \cup {NoAct, Flee}
    BY DEF GoodClient, ClientOn, Clients
<1>2. m.seq \in Byte
    BY DEF UpdatePkts
<1>3. /\ GoodClient(Shown(c, m)) /\ Shown(c, m).mode = "NETWORKED"
      /\ Shown(c, m).session = c.session
    BY ShownType
<1>4. CASE m.seq = c.lastApplied /\ c.lastApplied # 0
    <2> DEFINE d == [c EXCEPT !.awaitingFirst = FALSE]
               act == IF c.actionType # NoAct THEN c.actionType ELSE PureAck
    <2>1. GoodClient(d) /\ d.session = c.session
        BY <1>1 DEF GoodClient, ClientOn, Clients
    <2>2. act \in Moves \cup {Flee, PureAck}
        BY <1>1
    <2>3. r = SendActionV2(d, ch, act)
        BY <1>4 DEF ApplyUpdate
    <2> HIDE DEF d, act, r
    <2>4. /\ GoodClient(SendActionV2(d, ch, act).cli)
          /\ SendActionV2(d, ch, act).cli.session = d.session
          /\ SendActionV2(d, ch, act).net \in Seq(ClientPkts)
        BY <1>1, <2>1, <2>2, SendActionType
    <2> QED BY <2>1, <2>3, <2>4 DEF r
<1>5. CASE ~(m.seq = c.lastApplied /\ c.lastApplied # 0)
           /\ ~SameHash(c, m, levelUp)
    <2> DEFINE d == [Shown(c, m) EXCEPT !.needsFullState = TRUE]
    <2>1. GoodClient(d) /\ d.session = c.session
        BY <1>3 DEF GoodClient, ClientOn, Clients
    <2>2. StateRequest(c.session) \in ClientPkts
        BY <1>1 DEF StateRequest, ClientPkts
    <2>3. Enqueue(ch, StateRequest(c.session)) \in Seq(ClientPkts)
        BY <2>2, EnqueueType
    <2>4. r = [cli |-> d, net |-> Enqueue(ch, StateRequest(c.session))]
        BY <1>5 DEF ApplyUpdate
    <2> HIDE DEF d, r
    <2> QED BY <2>1, <2>3, <2>4 DEF r
<1>6. CASE ~(m.seq = c.lastApplied /\ c.lastApplied # 0)
           /\ SameHash(c, m, levelUp) /\ m.result # "ONGOING"
    <2> DEFINE d == [Shown(c, m) EXCEPT !.lastApplied = m.seq,
                                        !.phase = "FINISHED"]
    <2>1. GoodClient(d) /\ d.session = c.session
        BY <1>2, <1>3, NamesType DEF GoodClient, ClientOn, Clients
    <2>2. r = SendActionV2(d, ch, PureAck)
        BY <1>6 DEF ApplyUpdate
    <2> HIDE DEF d, r
    <2> QED BY <1>1, <2>1, <2>2, SendActionType DEF r
<1>7. CASE ~(m.seq = c.lastApplied /\ c.lastApplied # 0)
           /\ SameHash(c, m, levelUp) /\ m.result = "ONGOING"
    <2> DEFINE d == [Shown(c, m) EXCEPT !.lastApplied = m.seq,
                                        !.phase = "WAIT_ACTION",
                                        !.actionType = NoAct]
    <2>1. GoodClient(d) /\ d.session = c.session
        BY <1>2, <1>3, NamesType DEF GoodClient, ClientOn, Clients
    <2>2. r = [cli |-> d, net |-> ch]
        BY <1>7 DEF ApplyUpdate
    <2> HIDE DEF d, r
    <2> QED BY <2>1, <2>2 DEF r
<1> QED BY <1>4, <1>5, <1>6, <1>7

-----------------------------------------------------------------------------
(* The type invariant is inductive: one lemma per action. *)

LEMMA TypeInit == Init => TypeInv
<1> SUFFICES ASSUME Init PROVE TypeInv
    OBVIOUS
<1>1. 0 \in 0 .. MaxSession /\ 0 \in 0 .. MaxTries /\ 0 \in Byte
    BY BoundAssumption DEF Byte
<1>2. [s \in Side |-> 0] \in Alive
    BY EngineAssumption DEF Alive
<1>3. srv \in Servers /\ ServerOn(srv) /\ ServerBuffer(srv)
    BY <1>1, NamesType DEF Init, Servers, ServerOn, ServerBuffer
<1>4. cli \in Clients /\ ClientOn(cli)
    BY <1>1, <1>2, NamesType DEF Init, Clients, ClientOn
<1>5. eng \in Engines
    BY <1>2, StartType DEF Init
<1>6. toCli \in Seq(ServerPkts) /\ toSrv \in Seq(ClientPkts)
    BY EmptySeq DEF Init
<1> QED BY <1>3, <1>4, <1>5, <1>6 DEF Init, TypeInv, TypeOK

LEMMA SendChallengeType ==
    ASSUME TypeInv, SendChallenge PROVE TypeInv'
<1> USE DEF TypeInv, TypeOK
<1> DEFINE sess == srv.session + 1
<1>1. sess \in Sessions /\ sess \in 0 .. MaxSession
    <2>1. srv.session \in 0 .. MaxSession /\ srv.session < MaxSession
        BY DEF SendChallenge, Servers
    <2> QED BY <2>1, BoundAssumption DEF Sessions
<1>2. 0 \in Byte /\ 1 \in 0 .. MaxTries
    BY BoundAssumption DEF Byte
<1>3. srv' = [srv EXCEPT
                !.mode = "NETWORKED", !.phase = "WAIT_REMOTE",
                !.session = sess, !.awaitingAccept = TRUE,
                !.challengeTries = 1, !.peerReady = FALSE,
                !.pendingRemoteAction = FALSE, !.updateSeq = 0,
                !.unackedUpdate = FALSE, !.lastUpdate = NoPkt,
                !.playerWon = FALSE]
    BY DEF SendChallenge
<1>4. toCli' = Enqueue(toCli, Challenge(sess))
    BY DEF SendChallenge
<1> HIDE DEF sess
<1>5. srv' \in Servers /\ ServerOn(srv') /\ ServerBuffer(srv')
    BY <1>1, <1>2, <1>3, NamesType DEF Servers, ServerOn, ServerBuffer
<1>6. toCli' \in Seq(ServerPkts)
    <2>1. Challenge(sess) \in ServerPkts
        BY <1>1 DEF Challenge, ServerPkts
    <2> QED BY <1>4, <2>1, EnqueueType
<1>7. eng' \in Engines
    BY TeamsType, StartType DEF SendChallenge
<1> QED BY <1>5, <1>6, <1>7 DEF SendChallenge, HistoryUnchanged

\* serverAuthOnAcceptPkt()
LEMMA OnAcceptType ==
    ASSUME TypeInv, srv.mode # "OFF", NEW m, OnAccept(m)
    PROVE  GoodServer(srv') /\ eng' \in Engines /\ toCli' \in Seq(ServerPkts)
<1> USE DEF TypeInv, TypeOK
<1>1. GoodServer(srv) /\ srv.session \in Sessions
    BY DEF GoodServer, ServerOn, Servers, Modes
<1>2. CASE ~srv.awaitingAccept \/ m.sess # srv.session
    BY <1>1, <1>2 DEF OnAccept
<1>3. CASE ~(~srv.awaitingAccept \/ m.sess # srv.session) /\ ~m.yes
    <2>1. srv' = [srv EXCEPT !.phase = "FINISHED", !.awaitingAccept = FALSE]
        BY <1>3 DEF OnAccept
    <2>2. GoodServer(srv')
        BY <1>1, <2>1, NamesType DEF GoodServer, ServerOn, ServerBuffer, Servers
    <2> QED BY <1>3, <2>2 DEF OnAccept
<1>4. CASE ~(~srv.awaitingAccept \/ m.sess # srv.session) /\ m.yes
    <2> DEFINE s == [srv EXCEPT !.awaitingAccept = FALSE, !.peerReady = TRUE,
                                !.pendingRemoteAction = FALSE,
                                !.phase = "WAIT_ACTION"]
               e == Start(FullTeams)
    <2>1. PICK kept \in DropPendingSends(toCli) :
            /\ srv' = SendUpdate(s, e, kept).srv
            /\ toCli' = SendUpdate(s, e, kept).net
        BY <1>4 DEF OnAccept
    <2>2. eng' = e
        BY <1>4 DEF OnAccept
    <2>3. e \in Engines
        BY TeamsType, StartType
    <2>4. s \in Servers /\ s.session \in Sessions
        BY <1>1, NamesType DEF Servers
    <2>5. kept \in Seq(ServerPkts)
        BY DropType
    <2> HIDE DEF s, e
    <2> QED BY <2>1, <2>2, <2>3, <2>4, <2>5, SendUpdateType
<1> QED BY <1>2, <1>3, <1>4

\* serverAuthOnActionV2Pkt()
LEMMA OnActionType ==
    ASSUME TypeInv, srv.mode # "OFF", NEW m \in ClientPkts,
           m.type = "ACTION_V2", OnActionV2(m)
    PROVE  GoodServer(srv') /\ eng' \in Engines /\ toCli' \in Seq(ServerPkts)
<1> USE DEF TypeInv, TypeOK
<1> DEFINE s == Acknowledged(srv, m)
<1>1. GoodServer(srv) /\ srv.session \in Sessions
    BY DEF GoodServer, ServerOn, Servers, Modes
<1>2. GoodServer(s) /\ s.session \in Sessions
    BY <1>1, AcknowledgedType DEF Acknowledged, GoodServer, Servers
<1>3. m.act \in Moves \cup {Flee, PureAck}
    BY DEF ClientPkts
<1>4. CASE m.sess # srv.session
    BY <1>1, <1>4 DEF OnActionV2, ActionCounts
<1>5. CASE m.sess = srv.session /\ (m.turn # Wire(eng.turn) \/ m.act = PureAck)
    BY <1>2, <1>5 DEF OnActionV2, ActionCounts
<1>6. CASE /\ m.sess = srv.session /\ m.act = Flee
           /\ ~(m.turn # Wire(eng.turn) \/ m.act = PureAck)
    <2> DEFINE d == [s EXCEPT !.phase = "FINISHED"]
               e == Forfeit(eng, 1)
    <2>1. /\ srv' = SendUpdate(d, e, toCli).srv
          /\ toCli' = SendUpdate(d, e, toCli).net
          /\ eng' = e
        BY <1>6 DEF OnActionV2, ActionCounts
    <2>2. e \in Engines
        BY ForfeitType DEF Side
    <2>3. d \in Servers /\ d.session \in Sessions
        BY <1>2, NamesType DEF GoodServer, Servers
    <2> HIDE DEF d, e
    <2> QED BY <2>1, <2>2, <2>3, SendUpdateType
<1>7. CASE /\ m.sess = srv.session /\ m.act # Flee
           /\ ~(m.turn # Wire(eng.turn) \/ m.act = PureAck)
    <2>1. /\ srv' = [s EXCEPT !.pendingRemoteAction = TRUE]
          /\ eng' = Submit(eng, 1, m.act) /\ toCli' = toCli
        BY <1>7 DEF OnActionV2, ActionCounts
    <2>2. m.act \in Moves
        BY <1>3, <1>7
    <2>3. eng' \in Engines
        BY <2>1, <2>2, SubmitType DEF Side
    <2>4. GoodServer(srv')
        BY <1>2, <2>1 DEF GoodServer, ServerOn, ServerBuffer, Servers
    <2> QED BY <2>1, <2>3, <2>4
<1> QED BY <1>4, <1>5, <1>6, <1>7

LEMMA ServerReceiveType ==
    ASSUME TypeInv, ServerReceive PROVE TypeInv'
<1> USE DEF TypeInv, TypeOK
<1>1. PICK i \in Deliverable(toSrv) : ServerTakes(i)
    BY DEF ServerReceive
<1> DEFINE m == toSrv[i]
<1>2. m \in ClientPkts /\ RemoveAt(toSrv, i) \in Seq(ClientPkts)
    BY DeliverableType
<1>3. /\ toSrv' = RemoveAt(toSrv, i) /\ UNCHANGED <<cli, chosen, applied>>
      /\ \/ UNCHANGED <<srv, eng, toCli>>
         \/ srv.mode # "OFF" /\ m.type = "ACCEPT" /\ OnAccept(m)
         \/ srv.mode # "OFF" /\ m.type = "ACTION_V2" /\ OnActionV2(m)
         \/ srv.mode # "OFF" /\ OnStateRequest(m)
    BY <1>1 DEF ServerTakes, HistoryUnchanged
<1> HIDE DEF m
<1>4. GoodServer(srv') /\ eng' \in Engines /\ toCli' \in Seq(ServerPkts)
    <2>0. GoodServer(srv)
        BY DEF GoodServer
    <2>1. CASE UNCHANGED <<srv, eng, toCli>>
        BY <2>0, <2>1
    <2>2. CASE srv.mode # "OFF" /\ m.type = "ACCEPT" /\ OnAccept(m)
        BY <2>2, OnAcceptType
    <2>3. CASE srv.mode # "OFF" /\ m.type = "ACTION_V2" /\ OnActionV2(m)
        BY <1>2, <2>3, OnActionType
    <2>4. CASE srv.mode # "OFF" /\ OnStateRequest(m)
        <3> DEFINE full == FullState(srv.session, srv.updateSeq, eng, srv.peerReady)
        <3>1. /\ srv.session \in Sessions /\ srv.updateSeq \in Byte
              /\ eng.alive \in Alive /\ srv.peerReady \in BOOLEAN
            BY <2>4 DEF ServerOn, Servers, Modes, Engines, Alive
        <3>2. full \in ServerPkts
            BY <3>1 DEF FullState, ServerPkts
        <3>3. toCli' = Enqueue(toCli, full) \/ toCli' = toCli
            BY <2>4 DEF OnStateRequest
        <3>4. UNCHANGED <<srv, eng>>
            BY <2>4 DEF OnStateRequest
        <3> HIDE DEF full
        <3> QED BY <2>0, <3>2, <3>3, <3>4, EnqueueType
    <2> QED BY <1>3, <2>1, <2>2, <2>3, <2>4
<1> QED BY <1>2, <1>3, <1>4 DEF GoodServer

LEMMA ServerTickType ==
    ASSUME TypeInv, ServerTick PROVE TypeInv'
<1> USE DEF TypeInv, TypeOK
<1>1. PICK due \in {FALSE, srv.awaitingAccept \/ srv.unackedUpdate},
           held \in {FALSE, srv.pendingKeyExit},
           silent \in {FALSE, srv.phase # "FINISHED"} :
        ServerTickWhen(due, held, silent)
    BY DEF ServerTick
<1> DEFINE r == IF due THEN Retransmit(srv, toCli)
                       ELSE [srv |-> srv, net |-> toCli]
           s == r.srv
<1>2. srv.mode = "NETWORKED" /\ GoodServer(srv)
    BY <1>1 DEF ServerTickWhen, GoodServer
<1>3. GoodServer(s) /\ s.mode = "NETWORKED" /\ r.net \in Seq(ServerPkts)
    BY <1>2, RetransmitType
<1>4. s \in Servers /\ s.session \in Sessions
    BY <1>3 DEF GoodServer, ServerOn
<1>5. /\ UNCHANGED <<cli, toSrv, chosen, applied>>
      /\ \/ srv' = ServerExited(s) /\ toCli' = r.net /\ UNCHANGED eng
         \/ /\ eng' = IF eng.result = "ONGOING" THEN Forfeit(eng, 1) ELSE eng
            /\ srv' = [s EXCEPT !.phase = "FINISHED"]
            /\ toCli' = r.net
         \/ ResolveTurn(s, r.net)
         \/ srv' = s /\ toCli' = r.net /\ UNCHANGED eng
    BY <1>1 DEF ServerTickWhen, HistoryUnchanged
<1> HIDE DEF r, s
<1>6. GoodServer(srv') /\ eng' \in Engines /\ toCli' \in Seq(ServerPkts)
    <2>1. CASE srv' = ServerExited(s) /\ toCli' = r.net /\ UNCHANGED eng
        BY <1>3, <1>4, <2>1, ServerExitedType
    <2>2. CASE /\ eng' = IF eng.result = "ONGOING" THEN Forfeit(eng, 1) ELSE eng
               /\ srv' = [s EXCEPT !.phase = "FINISHED"]
               /\ toCli' = r.net
        <3>1. eng' \in Engines
            BY <2>2, ForfeitType DEF Side
        <3>2. GoodServer(srv')
            BY <1>3, <2>2, NamesType
               DEF GoodServer, ServerOn, ServerBuffer, Servers
        <3> QED BY <1>3, <2>2, <3>1, <3>2
    <2>3. CASE ResolveTurn(s, r.net)
        <3>1. PICK e \in ExecuteTurn(eng) :
                LET over == e.result # "ONGOING"
                    u == SendUpdate(
                           [s EXCEPT
                              !.playerWon = @ \/ e.result = "P1_WIN",
                              !.pendingRemoteAction = over,
                              !.phase = IF over THEN "FINISHED"
                                                ELSE "WAIT_ACTION"],
                           e, r.net)
                IN  eng' = e /\ srv' = u.srv /\ toCli' = u.net
            BY <2>3 DEF ResolveTurn
        <3> DEFINE over == e.result # "ONGOING"
                   d == [s EXCEPT
                           !.playerWon = @ \/ e.result = "P1_WIN",
                           !.pendingRemoteAction = over,
                           !.phase = IF over THEN "FINISHED" ELSE "WAIT_ACTION"]
        <3>2. e \in Engines
            BY ExecuteTurnType
        <3>3. d \in Servers /\ d.session \in Sessions
            <4>1. (s.playerWon \/ e.result = "P1_WIN") \in BOOLEAN
                OBVIOUS
            <4>2. (IF over THEN "FINISHED" ELSE "WAIT_ACTION") \in Phases
                BY NamesType
            <4>3. over \in BOOLEAN
                OBVIOUS
            <4> HIDE DEF over
            <4> QED BY <1>4, <4>1, <4>2, <4>3 DEF Servers
        <3>4. /\ eng' = e /\ srv' = SendUpdate(d, e, r.net).srv
              /\ toCli' = SendUpdate(d, e, r.net).net
            BY <3>1
        <3> HIDE DEF d
        <3> QED BY <1>3, <3>2, <3>3, <3>4, SendUpdateType
    <2>4. CASE srv' = s /\ toCli' = r.net /\ UNCHANGED eng
        BY <1>3, <2>4
    <2> QED BY <1>5, <2>1, <2>2, <2>3, <2>4
<1> QED BY <1>5, <1>6 DEF GoodServer

\* handleKey() at the server.
LEMMA ServerKeyType ==
    ASSUME TypeInv, ServerKey PROVE TypeInv'
<1> USE DEF TypeInv, TypeOK
<1>1. UNCHANGED <<cli, toSrv, chosen, applied>>
    BY DEF ServerKey, ServerKeyFinished, ServerKeyEsc, ServerKeyFlee,
           ServerKeySwitchMenu, ServerKeyPick, ServerEvicted, ServerKeys,
           HistoryUnchanged
<1>2. srv.mode = "NETWORKED" /\ srv \in Servers /\ srv.session \in Sessions
    BY DEF ServerKey, ServerKeyFinished, ServerKeyEsc, ServerKeyFlee,
           ServerKeySwitchMenu, ServerKeyPick, ServerEvicted, ServerHasKeys,
           ServerOn
<1>3. \A p \in Phases : GoodServer([srv EXCEPT !.phase = p])
    BY <1>2 DEF GoodServer, ServerOn, ServerBuffer, Servers
<1>4. GoodServer(srv') /\ eng' \in Engines /\ toCli' \in Seq(ServerPkts)
    <2>1. CASE ServerKeyFinished
        <3>1. GoodServer([srv EXCEPT !.pendingKeyExit = TRUE])
            BY <1>2 DEF GoodServer, ServerOn, ServerBuffer, Servers
        <3> QED BY <1>2, <2>1, <3>1, ServerExitedType DEF ServerKeyFinished
    <2>2. CASE ServerKeyEsc
        <3> DEFINE d == [srv EXCEPT !.phase = "FINISHED"]
                   e == Forfeit(eng, 0)
        <3>1. /\ eng' = e /\ srv' = SendUpdate(d, e, toCli).srv
              /\ toCli' = SendUpdate(d, e, toCli).net
            BY <2>2 DEF ServerKeyEsc
        <3>2. d \in Servers /\ d.session \in Sessions
            BY <1>2, NamesType DEF Servers
        <3>3. e \in Engines
            BY ForfeitType DEF Side
        <3> HIDE DEF d, e
        <3> QED BY <3>1, <3>2, <3>3, SendUpdateType
    <2>3. CASE ServerKeyFlee
        <3>1. ForfeitPkt(srv.session) \in ServerPkts
            BY <1>2 DEF ForfeitPkt, ServerPkts
        <3>2. Forfeit(eng, 0) \in Engines
            BY ForfeitType DEF Side
        <3> QED BY <1>3, <2>3, <3>1, <3>2, EnqueueType, NamesType
                DEF ServerKeyFlee
    <2>4. CASE ServerKeySwitchMenu
        BY <1>3, <2>4, NamesType DEF ServerKeySwitchMenu
    <2>5. CASE ServerKeyPick
        <3>1. \A mv \in Moves : Submit(eng, 0, mv) \in Engines
            BY SubmitType DEF Side
        <3> QED BY <1>3, <2>5, <3>1, NamesType DEF ServerKeyPick
    <2>6. CASE ServerEvicted
        BY <1>2, <2>6, ServerExitedType DEF ServerEvicted
    <2> QED BY <2>1, <2>2, <2>3, <2>4, <2>5, <2>6 DEF ServerKey
<1> QED BY <1>1, <1>4 DEF GoodServer

\* What the client took is a session and a sequence number.
LEMMA TookType ==
    ASSUME applied \subseteq Sessions \X Byte, NEW c, NEW m,
           m.sess \in Sessions, m.seq \in Byte
    PROVE  Took(c, m) \subseteq Sessions \X Byte
BY DEF Took

\* The handlers of the client.
LEMMA ClientReceiveType ==
    ASSUME TypeInv, ClientReceive PROVE TypeInv'
<1> USE DEF TypeInv, TypeOK
<1>1. PICK i \in Deliverable(toCli) : ClientTakes(i)
    BY DEF ClientReceive
<1> DEFINE m == toCli[i]
<1>2. m \in ServerPkts /\ RemoveAt(toCli, i) \in Seq(ServerPkts)
    BY DeliverableType
<1>3. /\ toCli' = RemoveAt(toCli, i) /\ UNCHANGED <<srv, eng, chosen>>
      /\ \/ m.type = "CHALLENGE" /\ OnChallenge(m)
         \/ cli.mode # "OFF" /\ m.type = "UPDATE" /\ OnUpdate(m)
         \/ cli.mode # "OFF" /\ m.type = "FULL_STATE" /\ OnFullState(m)
         \/ cli.mode # "OFF" /\ m.type = "FORFEIT" /\ OnForfeit(m)
         \/ UNCHANGED <<cli, toSrv, applied>>
    BY <1>1 DEF ClientTakes, ServerUnchanged
<1> HIDE DEF m
<1>4. GoodClient(cli) /\ (cli.mode # "OFF" => cli.mode = "NETWORKED")
    BY DEF GoodClient, Clients, Modes
<1>5. GoodClient(cli') /\ toSrv' \in Seq(ClientPkts)
      /\ applied' \subseteq Sessions \X Byte
    <2>1. CASE m.type = "CHALLENGE" /\ OnChallenge(m)
        <3>1. m.sess \in Sessions
            BY <1>2, <2>1 DEF ServerPkts, UpdatePkts
        <3>2. 0 \in Byte /\ 0 \in Nat /\ m.sess \in 0 .. MaxSession
            BY <3>1, BoundAssumption DEF Byte, Sessions
        <3>3. GoodClient([cli EXCEPT !.mode = "NETWORKED",
                      !.phase = "WAIT_CHALLENGE_OVERLAY", !.session = m.sess,
                      !.lastApplied = 0, !.actionType = NoAct,
                      !.needsFullState = FALSE, !.preAccept = NoPkt,
                      !.playerWon = FALSE, !.xpDrops = 0])
            BY <1>4, <3>1, <3>2, NamesType DEF GoodClient, ClientOn, Clients
        <3> QED BY <1>4, <2>1, <3>3 DEF OnChallenge
    <2>2. CASE cli.mode # "OFF" /\ m.type = "UPDATE" /\ OnUpdate(m)
        <3>1. m \in UpdatePkts
            BY <1>2, <2>2 DEF ServerPkts
        <3>2. m.sess \in Sessions /\ m.seq \in Byte
            BY <3>1 DEF UpdatePkts
        <3>3. CASE UNCHANGED <<cli, toSrv, applied>>
            BY <1>4, <3>3
        <3>4. CASE cli' = [cli EXCEPT !.preAccept = m]
                   /\ UNCHANGED <<toSrv, applied>>
            BY <1>4, <3>1, <3>4 DEF GoodClient, ClientOn, Clients
        <3>5. CASE \E levelUp \in {FALSE, LevelUps} :
                     LET r == ApplyUpdate(cli, toSrv, m, levelUp)
                     IN  cli' = r.cli /\ toSrv' = r.net
                         /\ applied' = Took(r.cli, m)
            BY <1>4, <2>2, <3>1, <3>2, <3>5, ApplyUpdateType, TookType
        <3> QED BY <2>2, <3>3, <3>4, <3>5 DEF OnUpdate
    <2>3. CASE cli.mode # "OFF" /\ m.type = "FULL_STATE" /\ OnFullState(m)
        <3>1. m.sess \in Sessions /\ m.seq \in Byte /\ m.alive \in Alive
            BY <1>2, <2>3 DEF ServerPkts, UpdatePkts
        <3>2. Overlay(cli.alive, m) \in Alive
            BY <3>1, OverlayType DEF Clients
        <3>3. GoodClient([cli EXCEPT !.alive = Overlay(@, m),
                         !.needsFullState = FALSE, !.awaitingFirst = FALSE,
                         !.lastApplied = m.seq, !.actionType = NoAct,
                         !.phase = "WAIT_ACTION"])
            BY <1>4, <2>3, <3>1, <3>2, NamesType
               DEF GoodClient, ClientOn, Clients
        <3> QED BY <1>4, <2>3, <3>1, <3>3, TookType DEF OnFullState
    <2>4. CASE cli.mode # "OFF" /\ m.type = "FORFEIT" /\ OnForfeit(m)
        <3>1. GoodClient([cli EXCEPT !.phase = "FINISHED"])
            BY <1>4, <2>4, NamesType DEF GoodClient, ClientOn, Clients
        <3> QED BY <1>4, <2>4, <3>1 DEF OnForfeit
    <2>5. CASE UNCHANGED <<cli, toSrv, applied>>
        BY <1>4, <2>5
    <2> QED BY <1>3, <2>1, <2>2, <2>3, <2>4, <2>5
<1> QED BY <1>2, <1>3, <1>5 DEF GoodClient

LEMMA ClientTickType ==
    ASSUME TypeInv, ClientTick PROVE TypeInv'
<1> USE DEF TypeInv, TypeOK
<1>1. PICK first \in {"none", "accept", "request"},
           due \in BOOLEAN, silent \in BOOLEAN :
        ClientTickWhen(first, due, silent)
    BY DEF ClientTick
<1> DEFINE sent == IF ~cli.awaitingFirst \/ first = "none" THEN toSrv
                   ELSE IF Asks(first)
                   THEN Enqueue(toSrv, StateRequest(cli.session))
                   ELSE Enqueue(toSrv, Accept(cli.session, TRUE))
           resend == due /\ Resends(cli)
           r == IF resend THEN SendActionV2(cli, sent, cli.actionType)
                          ELSE [cli |-> cli, net |-> sent]
<1>2. /\ cli.mode = "NETWORKED" /\ GoodClient(cli) /\ cli.session \in Sessions
      /\ cli.actionType \in Moves \cup {NoAct, Flee}
    BY <1>1 DEF ClientTickWhen, GoodClient, ClientOn, Clients
<1>3. /\ StateRequest(cli.session) \in ClientPkts
      /\ Accept(cli.session, TRUE) \in ClientPkts
    BY <1>2 DEF StateRequest, Accept, ClientPkts
<1>4. sent \in Seq(ClientPkts)
    BY <1>3, EnqueueType
<1>5. /\ UNCHANGED <<srv, eng, toCli, chosen, applied>>
      /\ cli' = IF silent THEN [r.cli EXCEPT !.phase = "FINISHED"] ELSE r.cli
      /\ toSrv' = r.net
    BY <1>1 DEF ClientTickWhen, HistoryUnchanged, ServerUnchanged
<1> HIDE DEF sent
<1>6. /\ GoodClient(r.cli) /\ r.cli.mode = "NETWORKED"
      /\ r.net \in Seq(ClientPkts)
    <2>1. CASE resend
        <3>1. cli.actionType \in Moves \cup {Flee, PureAck}
            BY <1>2, <2>1 DEF Resends
        <3> QED BY <1>2, <1>4, <2>1, <3>1, SendActionType
    <2>2. CASE ~resend
        BY <1>2, <1>4, <2>2
    <2> QED BY <2>1, <2>2
<1> HIDE DEF r
<1>7. GoodClient(cli')
    BY <1>5, <1>6, NamesType DEF GoodClient, ClientOn, Clients
<1> QED BY <1>5, <1>6, <1>7 DEF GoodClient

\* handleKey() at the client.
LEMMA ClientKeyType ==
    ASSUME TypeInv, ClientKey PROVE TypeInv'
<1> USE DEF TypeInv, TypeOK
<1>1. UNCHANGED <<srv, eng, toCli>>
    BY DEF ClientKey, ClientKeyFinished, ClientKeyYes, ClientKeyNo,
           ClientKeyFlee, ClientKeySwitchMenu, ClientKeyPick, ClientEvicted,
           ClientKeys, ServerUnchanged
<1>2. /\ cli.mode = "NETWORKED" /\ GoodClient(cli) /\ cli \in Clients
      /\ cli.session \in Sessions
    BY DEF ClientKey, ClientKeyFinished, ClientKeyYes, ClientKeyNo,
           ClientKeyFlee, ClientKeySwitchMenu, ClientKeyPick, ClientEvicted,
           GoodClient, ClientOn
<1>3. \A c \in Clients, p \in Phases :
         GoodClient(c) /\ c.mode = "NETWORKED"
           => GoodClient([c EXCEPT !.phase = p])
    BY DEF GoodClient, ClientOn, Clients
<1>4. /\ GoodClient(cli') /\ toSrv' \in Seq(ClientPkts)
      /\ applied' \subseteq Sessions \X Byte
      /\ chosen' \subseteq Sessions \X Byte \X Moves
    <2>1. CASE ClientKeyFinished
        BY <1>2, <2>1, ClientExitedType
           DEF ClientKeyFinished, HistoryUnchanged
    <2>2. CASE ClientKeyYes
        <3> DEFINE sent == Enqueue(toSrv, Accept(cli.session, TRUE))
                   c == [cli EXCEPT !.phase = "WAIT_REMOTE",
                           !.awaitingFirst = TRUE, !.alive = FullTeams,
                           !.preAccept = NoPkt]
        <3>1. Accept(cli.session, TRUE) \in ClientPkts
            BY <1>2 DEF Accept, ClientPkts
        <3>2. sent \in Seq(ClientPkts)
            BY <3>1, EnqueueType
        <3>3. GoodClient(c) /\ c.mode = "NETWORKED"
            BY <1>2, TeamsType, NamesType DEF GoodClient, ClientOn, Clients
        <3>4. /\ chosen' = chosen
              /\ \/ cli.preAccept = NoPkt /\ cli' = c /\ toSrv' = sent
                    /\ UNCHANGED applied
                 \/ /\ cli.preAccept # NoPkt
                    /\ \E levelUp \in {FALSE, LevelUps} :
                         LET r == ApplyUpdate(c, sent, cli.preAccept, levelUp)
                         IN  /\ cli' = r.cli /\ toSrv' = r.net
                             /\ applied' = Took(r.cli, cli.preAccept)
            BY <2>2 DEF ClientKeyYes
        <3> HIDE DEF c, sent
        <3>5. CASE cli.preAccept = NoPkt
            BY <3>2, <3>3, <3>4, <3>5
        <3>6. CASE cli.preAccept # NoPkt
            <4>1. cli.preAccept \in UpdatePkts
                BY <1>2, <3>6 DEF Clients
            <4>2. cli.preAccept.sess \in Sessions /\ cli.preAccept.seq \in Byte
                BY <4>1 DEF UpdatePkts
            <4> QED BY <3>2, <3>3, <3>4, <3>6, <4>1, <4>2,
                       ApplyUpdateType, TookType
        <3> QED BY <3>5, <3>6
    <2>3. CASE ClientKeyNo
        <3>1. Accept(cli.session, FALSE) \in ClientPkts
            BY <1>2 DEF Accept, ClientPkts
        <3>2. GoodClient([cli EXCEPT !.phase = "FINISHED",
                                     !.awaitingFirst = FALSE])
            BY <1>2, NamesType DEF GoodClient, ClientOn, Clients
        <3> QED BY <2>3, <3>1, <3>2, EnqueueType
                DEF ClientKeyNo, HistoryUnchanged
    <2>4. CASE ClientKeyFlee
        <3> DEFINE r == SendActionV2(cli, toSrv, Flee)
        <3>1. /\ GoodClient(r.cli) /\ r.cli.mode = "NETWORKED"
              /\ r.net \in Seq(ClientPkts)
            BY <1>2, SendActionType
        <3>2. UNCHANGED <<chosen, applied>>
              /\ \/ cli' = [r.cli EXCEPT !.phase = "FINISHED"] /\ toSrv' = r.net
                 \/ cli' = [cli EXCEPT !.phase = "WAIT_FLEE"] /\ UNCHANGED toSrv
                 \/ cli' = [cli EXCEPT !.phase = "WAIT_ACTION"] /\ UNCHANGED toSrv
            BY <2>4 DEF ClientKeyFlee, HistoryUnchanged
        <3> HIDE DEF r
        <3> QED BY <1>2, <1>3, <3>1, <3>2, NamesType DEF GoodClient
    <2>5. CASE ClientKeySwitchMenu
        BY <1>2, <1>3, <2>5, NamesType
           DEF ClientKeySwitchMenu, HistoryUnchanged
    <2>6. CASE ClientKeyPick
        <3>1. PICK mv \in Moves :
                LET r == SendActionV2(cli, toSrv, mv)
                IN  /\ cli' = [r.cli EXCEPT !.phase = "WAIT_REMOTE"]
                    /\ toSrv' = r.net
                    /\ chosen' = chosen \cup {<<cli.session, cli.clientTurn, mv>>}
            BY <2>6 DEF ClientKeyPick
        <3> DEFINE r == SendActionV2(cli, toSrv, mv)
        <3>2. /\ GoodClient(r.cli) /\ r.cli.mode = "NETWORKED"
              /\ r.net \in Seq(ClientPkts)
            BY <1>2, SendActionType
        <3>3. cli.clientTurn \in Byte /\ applied' = applied
            BY <1>2, <2>6 DEF Clients, ClientKeyPick
        <3>4. cli' = [r.cli EXCEPT !.phase = "WAIT_REMOTE"] /\ toSrv' = r.net
            BY <3>1
        <3> HIDE DEF r
        <3>5. GoodClient(cli') /\ toSrv' \in Seq(ClientPkts)
            BY <1>3, <3>2, <3>4, NamesType DEF GoodClient
        <3>6. <<cli.session, cli.clientTurn, mv>> \in Sessions \X Byte \X Moves
            BY <1>2, <3>3
        <3> QED BY <3>1, <3>3, <3>5, <3>6
    <2>7. CASE ClientEvicted
        BY <1>2, <2>7, ClientExitedType
           DEF ClientEvicted, HistoryUnchanged
    <2> QED BY <2>1, <2>2, <2>3, <2>4, <2>5, <2>6, <2>7 DEF ClientKey
<1> QED BY <1>1, <1>4 DEF GoodClient

LEMMA LoseType ==
    ASSUME TypeInv, Lose PROVE TypeInv'
<1> USE DEF TypeInv, TypeOK
<1>1. /\ UNCHANGED <<srv, eng, cli, chosen, applied>>
      /\ \/ toCli' \in Losses(toCli) /\ UNCHANGED toSrv
         \/ toSrv' \in Losses(toSrv) /\ UNCHANGED toCli
    BY DEF Lose, ServerUnchanged, HistoryUnchanged
<1>2. toCli' \in Seq(ServerPkts) /\ toSrv' \in Seq(ClientPkts)
    BY <1>1, LossType
<1> QED BY <1>1, <1>2

LEMMA TypeStep == TypeInv /\ [Next]_vars => TypeInv'
<1> SUFFICES ASSUME TypeInv, [Next]_vars PROVE TypeInv'
    OBVIOUS
<1>1. CASE SendChallenge
    BY <1>1, SendChallengeType
<1>2. CASE ServerReceive
    BY <1>2, ServerReceiveType
<1>3. CASE ServerTick
    BY <1>3, ServerTickType
<1>4. CASE ServerKey
    BY <1>4, ServerKeyType
<1>5. CASE ClientReceive
    BY <1>5, ClientReceiveType
<1>6. CASE ClientTick
    BY <1>6, ClientTickType
<1>7. CASE ClientKey
    BY <1>7, ClientKeyType
<1>8. CASE Lose
    BY <1>8, LoseType
<1>9. CASE UNCHANGED vars
    BY <1>9 DEF vars, TypeInv, TypeOK
<1> QED BY <1>1, <1>2, <1>3, <1>4, <1>5, <1>6, <1>7, <1>8, <1>9 DEF Next

LEMMA TypeInvariant == Spec => []TypeInv
<1>1. Init => TypeInv
    BY TypeInit
<1>2. TypeInv /\ [Next]_vars => TypeInv'
    BY TypeStep
<1> QED BY <1>1, <1>2, PTL DEF Spec

\* Every variable keeps its type: counters stay bytes, packets well formed, and
\* no handler reads an UPDATE buffer that was never filled.
THEOREM TypeCorrect == Spec => []TypeOK
<1>1. TypeInv => TypeOK
    BY DEF TypeInv
<1> QED BY <1>1, TypeInvariant, PTL

-----------------------------------------------------------------------------
(* The history invariant.  A client packet is honest about a battle whose  *)
(* picks are ch and whose taken boards are ap: a move it carries was       *)
(* picked in its session, and a board it acknowledges was taken.           *)

Picked(sess, mv, ch) == \E t \in Byte : <<sess, t, mv>> \in ch

Honest(ch, ap) ==
    {m \in ClientPkts : m.type = "ACTION_V2" =>
        /\ m.act \in Moves => Picked(m.sess, m.act, ch)
        /\ m.acked # 0 => <<m.sess, m.acked>> \in ap}

ClientKnown(c, ch, ap) ==
    /\ c.actionType \in Moves => Picked(c.session, c.actionType, ch)
    /\ c.lastApplied # 0 => <<c.session, c.lastApplied>> \in ap
    /\ c.preAccept # NoPkt => c.preAccept.sess = c.session

PickKnown(s, e, ch) ==
    s.mode = "NETWORKED" /\ e.pend[1] # NoAct
        => Picked(s.session, e.pend[1], ch)

AckKnown(s, ap) ==
    s.mode = "NETWORKED" /\ s.updateSeq # 0 /\ ~s.unackedUpdate
        => <<s.session, s.updateSeq>> \in ap

HistoryInv ==
    /\ toSrv \in Seq(Honest(chosen, applied))
    /\ ClientKnown(cli, chosen, applied)
    /\ PickKnown(srv, eng, chosen) /\ AckKnown(srv, applied)

LEMMA HonestIsTyped ==
    \A ch, ap : Honest(ch, ap) \subseteq ClientPkts
BY DEF Honest

LEMMA HonestMonotonic ==
    ASSUME NEW ch, NEW ap, NEW ch2, NEW ap2, ch \subseteq ch2, ap \subseteq ap2,
           NEW net \in Seq(Honest(ch, ap))
    PROVE  net \in Seq(Honest(ch2, ap2))
<1>1. Honest(ch, ap) \subseteq Honest(ch2, ap2)
    BY DEF Honest, Picked
<1> QED BY <1>1, SeqMonotonic

\* A packet without a move or an acknowledgement is always honest.
LEMMA PlainIsHonest ==
    ASSUME NEW ch, NEW ap, NEW m \in ClientPkts, m.type # "ACTION_V2",
           NEW net \in Seq(Honest(ch, ap))
    PROVE  Enqueue(net, m) \in Seq(Honest(ch, ap))
<1>1. m \in Honest(ch, ap)
    BY DEF Honest
<1> QED BY <1>1, EnqueueType

\* clientAuthSendActionV2() stays honest if the move it is given was picked.
LEMMA SendActionKnown ==
    ASSUME NEW ch, NEW ap, NEW c, GoodClient(c), c.session \in Sessions,
           ClientKnown(c, ch, ap), NEW net \in Seq(Honest(ch, ap)),
           NEW act \in Moves \cup {Flee, PureAck},
           act \in Moves => Picked(c.session, act, ch)
    PROVE  /\ ClientKnown(SendActionV2(c, net, act).cli, ch, ap)
           /\ SendActionV2(c, net, act).net \in Seq(Honest(ch, ap))
<1> DEFINE m == ActionV2(c.session, c.clientTurn, act, c.lastApplied)
<1>1. c \in Clients /\ c.clientTurn \in Byte /\ c.lastApplied \in Byte
    BY DEF GoodClient, Clients
<1>2. m \in ClientPkts
    BY <1>1 DEF ActionV2, ClientPkts
<1>3. m \in Honest(ch, ap)
    <2>1. /\ m.act = act /\ m.sess = c.session /\ m.acked = c.lastApplied
        BY DEF ActionV2
    <2> HIDE DEF m
    <2> QED BY <1>2, <2>1 DEF Honest, ClientKnown
<1>4. SendActionV2(c, net, act).net \in Seq(Honest(ch, ap))
    BY <1>3, EnqueueType DEF SendActionV2
<1>5. CASE act = PureAck
    BY <1>4, <1>5 DEF SendActionV2
<1>6. CASE act # PureAck
    <2> DEFINE d == [c EXCEPT !.actionType = act, !.actionTurn = c.clientTurn]
    <2>1. /\ d.actionType = act /\ d.session = c.session
          /\ d.lastApplied = c.lastApplied /\ d.preAccept = c.preAccept
        BY <1>1 DEF Clients
    <2>2. SendActionV2(c, net, act).cli = d
        BY <1>6 DEF SendActionV2
    <2> HIDE DEF d
    <2> QED BY <1>4, <2>1, <2>2 DEF ClientKnown
<1> QED BY <1>5, <1>6

\* clientAuthOnUpdatePkt(): what it acknowledges it has taken, and a move it
\* re-sends was picked.
LEMMA ApplyUpdateKnown ==
    ASSUME NEW c, GoodClient(c), c.mode = "NETWORKED",
           ClientKnown(c, chosen, applied), NEW m \in UpdatePkts,
           m.sess = c.session, NEW net \in Seq(Honest(chosen, applied)),
           NEW levelUp
    PROVE  LET r  == ApplyUpdate(c, net, m, levelUp)
               ap == Took(r.cli, m)
           IN  ClientKnown(r.cli, chosen, ap) /\ r.net \in Seq(Honest(chosen, ap))
<1> DEFINE r  == ApplyUpdate(c, net, m, levelUp)
           ap == Took(r.cli, m)
<1>1. /\ c \in Clients /\ c.session \in Sessions
      /\ c.actionType \in Moves \cup {NoAct, Flee}
    BY DEF GoodClient, ClientOn, Clients
<1>2. m.seq \in Byte
    BY DEF UpdatePkts
<1>3. applied \subseteq ap
    BY DEF Took
<1>4. net \in Seq(Honest(chosen, ap))
    BY <1>3, HonestMonotonic
<1>5. ClientKnown(c, chosen, ap)
    BY <1>3 DEF ClientKnown
<1>6. /\ GoodClient(Shown(c, m)) /\ Shown(c, m) \in Clients
      /\ Shown(c, m).session = c.session
      /\ Shown(c, m).mode = "NETWORKED"
    BY ShownType DEF GoodClient
<1>7. /\ Shown(c, m).actionType = c.actionType
      /\ Shown(c, m).lastApplied = c.lastApplied
      /\ Shown(c, m).preAccept = c.preAccept
    BY <1>1 DEF Shown, ClientWins, Clients
<1> HIDE DEF ap
<1>8. CASE m.seq = c.lastApplied /\ c.lastApplied # 0
    <2> DEFINE d == [c EXCEPT !.awaitingFirst = FALSE]
               act == IF c.actionType # NoAct THEN c.actionType ELSE PureAck
    <2>1. /\ GoodClient(d) /\ d.session = c.session
          /\ d.actionType = c.actionType /\ d.lastApplied = c.lastApplied
          /\ d.preAccept = c.preAccept
        BY <1>1 DEF GoodClient, ClientOn, Clients
    <2>2. act \in Moves \cup {Flee, PureAck}
          /\ (act \in Moves => act = c.actionType)
        BY <1>1, ActionTypeAssumption
    <2>3. r = SendActionV2(d, net, act)
        BY <1>8 DEF ApplyUpdate
    <2> HIDE DEF d, act, r
    <2>4. ClientKnown(d, chosen, ap)
        BY <1>5, <2>1 DEF ClientKnown
    <2>5. act \in Moves => Picked(d.session, act, chosen)
        BY <2>1, <2>2, <2>4 DEF ClientKnown
    <2> QED BY <1>1, <1>4, <2>1, <2>2, <2>3, <2>4, <2>5, SendActionKnown
            DEF r, ap
<1>9. CASE ~(m.seq = c.lastApplied /\ c.lastApplied # 0)
           /\ ~SameHash(c, m, levelUp)
    <2> DEFINE d == [Shown(c, m) EXCEPT !.needsFullState = TRUE]
               q == StateRequest(c.session)
    <2>1. /\ d.session = c.session /\ d.actionType = c.actionType
          /\ d.lastApplied = c.lastApplied /\ d.preAccept = c.preAccept
        BY <1>6, <1>7 DEF Clients
    <2>2. q \in ClientPkts /\ q.type # "ACTION_V2"
        BY <1>1 DEF StateRequest, ClientPkts
    <2>3. r = [cli |-> d, net |-> Enqueue(net, q)]
        BY <1>9 DEF ApplyUpdate
    <2> HIDE DEF d, q, r
    <2>4. ClientKnown(d, chosen, ap)
        BY <1>5, <2>1 DEF ClientKnown
    <2> QED BY <1>4, <2>2, <2>3, <2>4, PlainIsHonest DEF r, ap
<1>10. CASE ~(m.seq = c.lastApplied /\ c.lastApplied # 0)
            /\ SameHash(c, m, levelUp) /\ m.result # "ONGOING"
    <2> DEFINE d == [Shown(c, m) EXCEPT !.lastApplied = m.seq,
                                        !.phase = "FINISHED"]
    <2>1. /\ GoodClient(d) /\ d.session = c.session
          /\ d.actionType = c.actionType /\ d.lastApplied = m.seq
          /\ d.preAccept = c.preAccept
        BY <1>2, <1>6, <1>7, NamesType DEF GoodClient, ClientOn, Clients
    <2>2. r = SendActionV2(d, net, PureAck)
        BY <1>10 DEF ApplyUpdate
    <2>3. r.cli = d
        BY <2>2 DEF SendActionV2
    <2> HIDE DEF d, r
    <2>4. <<c.session, m.seq>> \in ap
        BY <2>1, <2>3 DEF ap, Took
    <2>5. ClientKnown(d, chosen, ap)
        BY <1>5, <2>1, <2>4 DEF ClientKnown
    <2>6. PureAck \notin Moves
        BY ActionTypeAssumption
    <2> QED BY <1>1, <1>4, <2>1, <2>2, <2>5, <2>6, SendActionKnown DEF r, ap
<1>11. CASE ~(m.seq = c.lastApplied /\ c.lastApplied # 0)
            /\ SameHash(c, m, levelUp) /\ m.result = "ONGOING"
    <2> DEFINE d == [Shown(c, m) EXCEPT !.lastApplied = m.seq,
                                        !.phase = "WAIT_ACTION",
                                        !.actionType = NoAct]
    <2>1. /\ d.session = c.session /\ d.actionType = NoAct
          /\ d.lastApplied = m.seq /\ d.preAccept = c.preAccept
        BY <1>6, <1>7 DEF Clients
    <2>2. r = [cli |-> d, net |-> net]
        BY <1>11 DEF ApplyUpdate
    <2> HIDE DEF d, r
    <2>3. <<c.session, m.seq>> \in ap
        BY <2>1, <2>2 DEF ap, Took
    <2>4. ClientKnown(d, chosen, ap)
        BY <1>5, <2>1, <2>3, EngineAssumption DEF ClientKnown
    <2> QED BY <1>4, <2>2, <2>4 DEF r, ap
<1> QED BY <1>8, <1>9, <1>10, <1>11

\* serverAuthSendUpdate() opens a new acknowledgement and moves no action.
LEMMA SendUpdateKnown ==
    ASSUME NEW s \in Servers, NEW e, NEW f, NEW net, NEW ch, NEW ap,
           PickKnown(s, f, ch)
    PROVE  /\ PickKnown(SendUpdate(s, e, net).srv, f, ch)
           /\ AckKnown(SendUpdate(s, e, net).srv, ap)
<1> DEFINE t == SendUpdate(s, e, net).srv
<1>1. /\ t.mode = s.mode /\ t.session = s.session /\ t.unackedUpdate = TRUE
    BY DEF SendUpdate, Servers
<1> HIDE DEF t
<1>2. PickKnown(t, f, ch) /\ AckKnown(t, ap)
    BY <1>1 DEF PickKnown, AckKnown
<1> QED BY <1>2 DEF t

\* serverAuthRetransmit() neither acknowledges nor plays anything.
LEMMA RetransmitKeeps ==
    ASSUME NEW s \in Servers, NEW net
    PROVE  LET t == Retransmit(s, net).srv
           IN  /\ t.mode = s.mode /\ t.session = s.session
               /\ t.updateSeq = s.updateSeq
               /\ t.unackedUpdate = s.unackedUpdate
BY DEF Retransmit, OutOfTries, Servers

LEMMA NothingPending ==
    /\ \A teams : Start(teams).pend[1] = NoAct
    /\ \A e \in Engines, side \in Side : Forfeit(e, side).pend = e.pend
    /\ \A e \in Engines : \A f \in ExecuteTurn(e) :
          f.pend[1] = NoAct \/ f.pend = e.pend
    /\ \A e \in Engines, mv \in Moves : Submit(e, 0, mv).pend[1] = e.pend[1]
    /\ \A e \in Engines, mv \in Moves : Submit(e, 1, mv).pend[1] = mv
<1>1. \A teams : Start(teams).pend[1] = NoAct
    BY DEF Start, Side
<1>2. \A e \in Engines, side \in Side : Forfeit(e, side).pend = e.pend
    BY DEF Forfeit, Engines
<1>3. \A e \in Engines : \A f \in ExecuteTurn(e) :
          f.pend[1] = NoAct \/ f.pend = e.pend
    BY DEF ExecuteTurn, Side
<1>4. \A e \in Engines, mv \in Moves : Submit(e, 0, mv).pend[1] = e.pend[1]
    BY DEF Submit, Engines, Side
<1>5. \A e \in Engines, mv \in Moves : Submit(e, 1, mv).pend[1] = mv
    BY DEF Submit, Engines, Side
<1> QED BY <1>1, <1>2, <1>3, <1>4, <1>5

LEMMA SendChallengeKnown ==
    ASSUME TypeInv, HistoryInv, SendChallenge PROVE HistoryInv'
<1>1. UNCHANGED <<cli, toSrv, chosen, applied>>
    BY DEF SendChallenge, HistoryUnchanged
<1>2. eng'.pend[1] = NoAct
    BY NothingPending DEF SendChallenge
<1>3. srv'.updateSeq = 0
    BY DEF SendChallenge, TypeInv, TypeOK, Servers
<1> QED BY <1>1, <1>2, <1>3 DEF HistoryInv, PickKnown, AckKnown

\* The handlers of the server: an acknowledgement clears the flag only for the
\* current UPDATE, and only a move enters the engine.
LEMMA ServerReceiveKnown ==
    ASSUME TypeInv, HistoryInv, ServerReceive PROVE HistoryInv'
<1> USE DEF HistoryInv
<1>1. PICK i \in Deliverable(toSrv) : ServerTakes(i)
    BY DEF ServerReceive
<1> DEFINE m == toSrv[i]
<1>2. /\ m \in Honest(chosen, applied)
      /\ RemoveAt(toSrv, i) \in Seq(Honest(chosen, applied))
    BY DeliverableType
<1>3. /\ toSrv' = RemoveAt(toSrv, i) /\ UNCHANGED <<cli, chosen, applied>>
      /\ \/ UNCHANGED <<srv, eng>>
         \/ srv.mode # "OFF" /\ OnAccept(m)
         \/ m.type = "ACTION_V2" /\ OnActionV2(m)
    BY <1>1 DEF ServerTakes, HistoryUnchanged, OnStateRequest
<1>4. srv \in Servers /\ eng \in Engines
    BY DEF TypeInv, TypeOK
<1> HIDE DEF m
<1>5. PickKnown(srv', eng', chosen) /\ AckKnown(srv', applied)
    <2>1. CASE UNCHANGED <<srv, eng>>
        BY <2>1
    <2>2. CASE srv.mode # "OFF" /\ OnAccept(m)
        <3>1. CASE UNCHANGED <<srv, eng, toCli>>
            BY <3>1
        <3>2. CASE srv' = [srv EXCEPT !.phase = "FINISHED",
                                      !.awaitingAccept = FALSE]
                   /\ UNCHANGED <<eng, toCli>>
            <4>1. /\ srv'.mode = srv.mode /\ srv'.session = srv.session
                  /\ srv'.updateSeq = srv.updateSeq
                  /\ srv'.unackedUpdate = srv.unackedUpdate
                BY <1>4, <3>2 DEF Servers
            <4> QED BY <3>2, <4>1 DEF PickKnown, AckKnown
        <3>3. CASE /\ eng' = Start(FullTeams)
                   /\ \E kept \in DropPendingSends(toCli) :
                        LET s == [srv EXCEPT !.awaitingAccept = FALSE,
                                   !.peerReady = TRUE,
                                   !.pendingRemoteAction = FALSE,
                                   !.phase = "WAIT_ACTION"]
                            r == SendUpdate(s, Start(FullTeams), kept)
                        IN  srv' = r.srv /\ toCli' = r.net
            <4> DEFINE s == [srv EXCEPT !.awaitingAccept = FALSE,
                               !.peerReady = TRUE,
                               !.pendingRemoteAction = FALSE,
                               !.phase = "WAIT_ACTION"]
            <4>1. PICK kept : srv' = SendUpdate(s, Start(FullTeams), kept).srv
                BY <3>3
            <4>2. s \in Servers
                BY <1>4, NamesType DEF Servers
            <4>3. PickKnown(s, eng', chosen)
                BY <3>3, NothingPending DEF PickKnown
            <4> HIDE DEF s
            <4> QED BY <4>1, <4>2, <4>3, SendUpdateKnown
        <3> QED BY <2>2, <3>1, <3>2, <3>3 DEF OnAccept
    <2>3. CASE m.type = "ACTION_V2" /\ OnActionV2(m)
        <3> DEFINE s == Acknowledged(srv, m)
        <3>1. CASE m.sess # srv.session
            BY <2>3, <3>1 DEF OnActionV2, ActionCounts
        <3>2. CASE m.sess = srv.session
            <4>1. /\ s \in Servers /\ s.mode = srv.mode
                  /\ s.session = srv.session /\ s.updateSeq = srv.updateSeq
                BY <1>4 DEF Acknowledged, Servers
            <4>2. s.unackedUpdate = srv.unackedUpdate \/ m.acked = srv.updateSeq
                BY <1>4 DEF Acknowledged, Servers
            <4>3. m.acked # 0 => <<srv.session, m.acked>> \in applied
                BY <1>2, <2>3, <3>2 DEF Honest
            <4>4. m.act \in Moves => Picked(srv.session, m.act, chosen)
                BY <1>2, <2>3, <3>2 DEF Honest
            <4> HIDE DEF s
            <4>5. AckKnown(s, applied) /\ PickKnown(s, eng, chosen)
                BY <4>1, <4>2, <4>3 DEF AckKnown, PickKnown
            <4>6. CASE srv' = s /\ UNCHANGED eng
                BY <4>5, <4>6
            <4>7. CASE /\ eng' = Forfeit(eng, 1)
                       /\ srv' = SendUpdate([s EXCEPT !.phase = "FINISHED"],
                                            Forfeit(eng, 1), toCli).srv
                <5> DEFINE d == [s EXCEPT !.phase = "FINISHED"]
                <5>1. d \in Servers /\ d.mode = s.mode /\ d.session = s.session
                    BY <4>1, NamesType DEF Servers
                <5>2. eng'.pend = eng.pend
                    BY <1>4, <4>7, NothingPending DEF Side
                <5>3. srv' = SendUpdate(d, Forfeit(eng, 1), toCli).srv
                    BY <4>7
                <5> HIDE DEF d
                <5>4. PickKnown(d, eng', chosen)
                    BY <4>5, <5>1, <5>2 DEF PickKnown
                <5> QED BY <5>1, <5>3, <5>4, SendUpdateKnown
            <4>8. CASE /\ eng' = Submit(eng, 1, m.act) /\ m.act \in Moves
                       /\ srv' = [s EXCEPT !.pendingRemoteAction = TRUE]
                <5>1. /\ srv'.mode = s.mode /\ srv'.session = s.session
                      /\ srv'.updateSeq = s.updateSeq
                      /\ srv'.unackedUpdate = s.unackedUpdate
                    BY <4>1, <4>8 DEF Servers
                <5>2. eng'.pend[1] = m.act
                    BY <1>4, <4>8, NothingPending
                <5>3. PickKnown(srv', eng', chosen)
                    BY <4>1, <4>4, <4>8, <5>1, <5>2 DEF PickKnown
                <5>4. AckKnown(srv', applied)
                    BY <4>5, <5>1 DEF AckKnown
                <5> QED BY <5>3, <5>4
            <4>9. m.act \in Moves \cup {Flee, PureAck}
                BY <1>2, <2>3 DEF Honest, ClientPkts
            <4>10. \/ srv' = s /\ UNCHANGED eng
                   \/ /\ eng' = Forfeit(eng, 1)
                      /\ srv' = SendUpdate([s EXCEPT !.phase = "FINISHED"],
                                           Forfeit(eng, 1), toCli).srv
                   \/ /\ eng' = Submit(eng, 1, m.act) /\ m.act \in Moves
                      /\ srv' = [s EXCEPT !.pendingRemoteAction = TRUE]
                BY <2>3, <3>2, <4>9 DEF OnActionV2, ActionCounts, s
            <4> QED BY <4>6, <4>7, <4>8, <4>10
        <3> QED BY <3>1, <3>2
    <2> QED BY <1>3, <2>1, <2>2, <2>3
<1> QED BY <1>2, <1>3, <1>5

\* tick() at the server: playing a turn clears both picks.
LEMMA ServerTickKnown ==
    ASSUME TypeInv, HistoryInv, ServerTick PROVE HistoryInv'
<1> USE DEF HistoryInv
<1>1. PICK due \in BOOLEAN, held \in BOOLEAN, silent \in BOOLEAN :
        ServerTickWhen(due, held, silent)
    BY DEF ServerTick, TypeInv, TypeOK, Servers
<1> DEFINE r == IF due THEN Retransmit(srv, toCli)
                       ELSE [srv |-> srv, net |-> toCli]
           s == r.srv
<1>2. /\ srv \in Servers /\ GoodServer(srv) /\ eng \in Engines
      /\ srv.mode = "NETWORKED" /\ toCli \in Seq(ServerPkts)
    BY <1>1 DEF ServerTickWhen, TypeInv, TypeOK, GoodServer
<1>3. /\ s \in Servers /\ s.mode = srv.mode /\ s.session = srv.session
      /\ s.updateSeq = srv.updateSeq /\ s.unackedUpdate = srv.unackedUpdate
    <2>1. GoodServer(Retransmit(srv, toCli).srv)
        BY <1>2, RetransmitType
    <2>2. CASE due
        BY <1>2, <2>1, <2>2, RetransmitKeeps DEF GoodServer
    <2>3. CASE ~due
        BY <1>2, <2>3
    <2> QED BY <2>2, <2>3
<1>4. /\ UNCHANGED <<cli, toSrv, chosen, applied>>
      /\ \/ srv' = ServerExited(s) /\ UNCHANGED eng
         \/ /\ eng' = IF eng.result = "ONGOING" THEN Forfeit(eng, 1) ELSE eng
            /\ srv' = [s EXCEPT !.phase = "FINISHED"]
         \/ ResolveTurn(s, r.net)
         \/ srv' = s /\ UNCHANGED eng
    BY <1>1 DEF ServerTickWhen, HistoryUnchanged
<1> HIDE DEF r, s
<1>5. PickKnown(s, eng, chosen) /\ AckKnown(s, applied)
    BY <1>3 DEF PickKnown, AckKnown
<1>6. PickKnown(srv', eng', chosen) /\ AckKnown(srv', applied)
    <2>1. CASE srv' = ServerExited(s) /\ UNCHANGED eng
        <3>1. srv'.mode = "OFF"
            BY <1>3, <2>1 DEF ServerExited, Servers
        <3> QED BY <3>1 DEF PickKnown, AckKnown
    <2>2. CASE /\ eng' = IF eng.result = "ONGOING" THEN Forfeit(eng, 1) ELSE eng
               /\ srv' = [s EXCEPT !.phase = "FINISHED"]
        <3>1. eng'.pend = eng.pend
            BY <1>2, <2>2, NothingPending DEF Side
        <3>2. /\ srv'.mode = s.mode /\ srv'.session = s.session
              /\ srv'.updateSeq = s.updateSeq
              /\ srv'.unackedUpdate = s.unackedUpdate
            BY <1>3, <2>2 DEF Servers
        <3> QED BY <1>5, <3>1, <3>2 DEF PickKnown, AckKnown
    <2>3. CASE ResolveTurn(s, r.net)
        <3>1. PICK e \in ExecuteTurn(eng) :
                LET over == e.result # "ONGOING"
                    u == SendUpdate(
                           [s EXCEPT
                              !.playerWon = @ \/ e.result = "P1_WIN",
                              !.pendingRemoteAction = over,
                              !.phase = IF over THEN "FINISHED"
                                                ELSE "WAIT_ACTION"],
                           e, r.net)
                IN  eng' = e /\ srv' = u.srv
            BY <2>3 DEF ResolveTurn
        <3> DEFINE over == e.result # "ONGOING"
                   d == [s EXCEPT
                           !.playerWon = @ \/ e.result = "P1_WIN",
                           !.pendingRemoteAction = over,
                           !.phase = IF over THEN "FINISHED" ELSE "WAIT_ACTION"]
        <3>2. d \in Servers /\ d.mode = s.mode /\ d.session = s.session
            <4>1. (s.playerWon \/ e.result = "P1_WIN") \in BOOLEAN
                OBVIOUS
            <4>2. (IF over THEN "FINISHED" ELSE "WAIT_ACTION") \in Phases
                BY NamesType
            <4>3. over \in BOOLEAN
                OBVIOUS
            <4> HIDE DEF over
            <4> QED BY <1>3, <4>1, <4>2, <4>3 DEF Servers
        <3>3. eng' = e /\ srv' = SendUpdate(d, e, r.net).srv
            BY <3>1
        <3>4. eng'.pend[1] = NoAct \/ eng'.pend = eng.pend
            BY <1>2, <3>3, NothingPending
        <3> HIDE DEF d
        <3>5. PickKnown(d, eng', chosen)
            BY <1>5, <3>2, <3>4 DEF PickKnown
        <3> QED BY <3>2, <3>3, <3>5, SendUpdateKnown
    <2>4. CASE srv' = s /\ UNCHANGED eng
        BY <1>5, <2>4
    <2> QED BY <1>4, <2>1, <2>2, <2>3, <2>4
<1> QED BY <1>4, <1>6

LEMMA ServerKeyKnown ==
    ASSUME TypeInv, HistoryInv, ServerKey PROVE HistoryInv'
<1> USE DEF HistoryInv
<1>1. UNCHANGED <<cli, toSrv, chosen, applied>>
    BY DEF ServerKey, ServerKeyFinished, ServerKeyEsc, ServerKeyFlee,
           ServerKeySwitchMenu, ServerKeyPick, ServerEvicted, ServerKeys,
           HistoryUnchanged
<1>2. srv \in Servers /\ eng \in Engines
    BY DEF TypeInv, TypeOK
<1>3. \A p \in Phases :
         LET t == [srv EXCEPT !.phase = p]
         IN  /\ t \in Servers /\ t.mode = srv.mode /\ t.session = srv.session
             /\ t.updateSeq = srv.updateSeq
             /\ t.unackedUpdate = srv.unackedUpdate
    BY <1>2 DEF Servers
<1>4. PickKnown(srv', eng', chosen) /\ AckKnown(srv', applied)
    <2>1. CASE srv'.mode = "OFF"
        BY <2>1 DEF PickKnown, AckKnown
    <2>2. CASE ServerKeyEsc
        <3> DEFINE d == [srv EXCEPT !.phase = "FINISHED"]
        <3>1. eng' = Forfeit(eng, 0) /\ srv' = SendUpdate(d, Forfeit(eng, 0), toCli).srv
            BY <2>2 DEF ServerKeyEsc
        <3>2. d \in Servers /\ d.mode = srv.mode /\ d.session = srv.session
            BY <1>3, NamesType
        <3>3. eng'.pend = eng.pend
            BY <1>2, <3>1, NothingPending DEF Side
        <3> HIDE DEF d
        <3>4. PickKnown(d, eng', chosen)
            BY <3>2, <3>3 DEF PickKnown
        <3> QED BY <3>1, <3>2, <3>4, SendUpdateKnown
    <2>3. CASE \E p \in Phases : /\ srv' = [srv EXCEPT !.phase = p]
                                 /\ eng'.pend[1] = eng.pend[1]
        <3>1. PICK p \in Phases : /\ srv' = [srv EXCEPT !.phase = p]
                                  /\ eng'.pend[1] = eng.pend[1]
            BY <2>3
        <3>2. /\ srv'.mode = srv.mode /\ srv'.session = srv.session
              /\ srv'.updateSeq = srv.updateSeq
              /\ srv'.unackedUpdate = srv.unackedUpdate
            BY <1>3, <3>1
        <3> QED BY <3>1, <3>2 DEF PickKnown, AckKnown
    <2>4. CASE ServerKeyFinished
        <3>1. CASE srv' = ServerExited(srv)
            BY <1>2, <2>1, <3>1 DEF ServerExited, Servers
        <3>2. CASE srv' = [srv EXCEPT !.pendingKeyExit = TRUE]
            <4>1. /\ srv'.mode = srv.mode /\ srv'.session = srv.session
                  /\ srv'.updateSeq = srv.updateSeq
                  /\ srv'.unackedUpdate = srv.unackedUpdate
                BY <1>2, <3>2 DEF Servers
            <4>2. eng' = eng
                BY <2>4 DEF ServerKeyFinished
            <4> QED BY <4>1, <4>2 DEF PickKnown, AckKnown
        <3> QED BY <2>4, <3>1, <3>2 DEF ServerKeyFinished
    <2>5. CASE ServerKeyFlee
        <3>1. Forfeit(eng, 0).pend = eng.pend
            BY <1>2, NothingPending DEF Side
        <3>2. \/ srv' = [srv EXCEPT !.phase = "WAIT_FLEE"] /\ eng' = eng
              \/ srv' = [srv EXCEPT !.phase = "WAIT_ACTION"] /\ eng' = eng
              \/ srv' = [srv EXCEPT !.phase = "FINISHED"] /\ eng' = Forfeit(eng, 0)
            BY <2>5 DEF ServerKeyFlee
        <3> QED BY <2>3, <3>1, <3>2, NamesType
    <2>6. CASE ServerKeySwitchMenu
        BY <2>3, <2>6, NamesType DEF ServerKeySwitchMenu
    <2>7. CASE ServerKeyPick
        <3>1. \A mv \in Moves : Submit(eng, 0, mv).pend[1] = eng.pend[1]
            BY <1>2, NothingPending
        <3>2. eng'.pend[1] = eng.pend[1]
            BY <2>7, <3>1 DEF ServerKeyPick
        <3> QED BY <2>3, <2>7, <3>2, NamesType DEF ServerKeyPick
    <2>8. CASE ServerEvicted
        BY <1>2, <2>1, <2>8 DEF ServerEvicted, ServerExited, Servers
    <2> QED BY <2>2, <2>4, <2>5, <2>6, <2>7, <2>8 DEF ServerKey
<1> QED BY <1>1, <1>4

\* What PickKnown and AckKnown say survives a longer history.
LEMMA ServerKnownMonotonic ==
    ASSUME NEW s, NEW e, NEW ch, NEW ap, NEW ch2, NEW ap2,
           ch \subseteq ch2, ap \subseteq ap2,
           PickKnown(s, e, ch), AckKnown(s, ap)
    PROVE  PickKnown(s, e, ch2) /\ AckKnown(s, ap2)
BY DEF PickKnown, AckKnown, Picked

\* A client whose picks, acknowledgement and buffer did not change.
LEMMA ClientKnownKeeps ==
    ASSUME NEW c, NEW d, NEW ch, NEW ap, ClientKnown(c, ch, ap),
           d.session = c.session, d.preAccept \in {c.preAccept, NoPkt},
           d.lastApplied = c.lastApplied,
           d.actionType = c.actionType \/ d.actionType = NoAct
    PROVE  ClientKnown(d, ch, ap)
BY EngineAssumption DEF ClientKnown

LEMMA ClientReceiveKnown ==
    ASSUME TypeInv, HistoryInv, ClientReceive PROVE HistoryInv'
<1> USE DEF HistoryInv
<1>1. PICK i \in Deliverable(toCli) : ClientTakes(i)
    BY DEF ClientReceive
<1> DEFINE m == toCli[i]
<1>2. m \in ServerPkts
    BY DeliverableType DEF TypeInv, TypeOK
<1>3. /\ UNCHANGED <<srv, eng, chosen>>
      /\ \/ m.type = "CHALLENGE" /\ OnChallenge(m)
         \/ cli.mode # "OFF" /\ m.type = "UPDATE" /\ OnUpdate(m)
         \/ m.type = "FULL_STATE" /\ OnFullState(m)
         \/ OnForfeit(m)
         \/ UNCHANGED <<cli, toSrv, applied>>
    BY <1>1 DEF ClientTakes, ServerUnchanged
<1> HIDE DEF m
<1>4. cli \in Clients /\ GoodClient(cli)
      /\ (cli.mode # "OFF" => cli.mode = "NETWORKED")
    BY DEF TypeInv, TypeOK, GoodClient, Clients, Modes
<1>5. /\ applied \subseteq applied'
      /\ toSrv' \in Seq(Honest(chosen, applied'))
      /\ ClientKnown(cli', chosen, applied')
    <2>1. CASE m.type = "CHALLENGE" /\ OnChallenge(m)
        <3>1. UNCHANGED <<toSrv, applied>>
            BY <2>1 DEF OnChallenge
        <3>2. CASE cli' = cli
            BY <3>1, <3>2
        <3>3. CASE cli' = [cli EXCEPT !.mode = "NETWORKED",
                      !.phase = "WAIT_CHALLENGE_OVERLAY", !.session = m.sess,
                      !.lastApplied = 0, !.actionType = NoAct,
                      !.needsFullState = FALSE, !.preAccept = NoPkt,
                      !.playerWon = FALSE, !.xpDrops = 0]
            <4>1. /\ cli'.lastApplied = 0 /\ cli'.actionType = NoAct
                  /\ cli'.preAccept = NoPkt
                BY <1>4, <3>3 DEF Clients
            <4> QED BY <3>1, <4>1, EngineAssumption DEF ClientKnown
        <3> QED BY <2>1, <3>2, <3>3 DEF OnChallenge
    <2>2. CASE cli.mode # "OFF" /\ m.type = "UPDATE" /\ OnUpdate(m)
        <3>1. m \in UpdatePkts
            BY <1>2, <2>2 DEF ServerPkts
        <3>2. CASE UNCHANGED <<cli, toSrv, applied>>
            BY <3>2
        <3>3. CASE /\ m.sess = cli.session /\ cli' = [cli EXCEPT !.preAccept = m]
                   /\ UNCHANGED <<toSrv, applied>>
            <4>1. /\ cli'.session = cli.session /\ cli'.preAccept = m
                  /\ cli'.lastApplied = cli.lastApplied
                  /\ cli'.actionType = cli.actionType
                BY <1>4, <3>3 DEF Clients
            <4> QED BY <3>3, <4>1 DEF ClientKnown
        <3>4. CASE /\ m.sess = cli.session
                   /\ \E levelUp \in {FALSE, LevelUps} :
                        LET r == ApplyUpdate(cli, toSrv, m, levelUp)
                        IN  cli' = r.cli /\ toSrv' = r.net
                            /\ applied' = Took(r.cli, m)
            <4>1. PICK levelUp \in {FALSE, LevelUps} :
                    LET r == ApplyUpdate(cli, toSrv, m, levelUp)
                    IN  cli' = r.cli /\ toSrv' = r.net
                        /\ applied' = Took(r.cli, m)
                BY <3>4
            <4>2. applied \subseteq applied'
                BY <4>1 DEF Took
            <4> QED BY <1>4, <2>2, <3>1, <3>4, <4>1, <4>2, ApplyUpdateKnown
        <3> QED BY <2>2, <3>2, <3>3, <3>4 DEF OnUpdate
    <2>3. CASE m.type = "FULL_STATE" /\ OnFullState(m)
        <3>1. CASE UNCHANGED <<cli, applied>>
            BY <2>3, <3>1 DEF OnFullState
        <3>2. CASE /\ m.sess = cli.session
                   /\ cli' = [cli EXCEPT !.alive = Overlay(@, m),
                         !.needsFullState = FALSE, !.awaitingFirst = FALSE,
                         !.lastApplied = m.seq, !.actionType = NoAct,
                         !.phase = "WAIT_ACTION"]
                   /\ applied' = Took(cli', m)
            <4>1. /\ cli'.session = cli.session /\ cli'.lastApplied = m.seq
                  /\ cli'.preAccept = cli.preAccept /\ cli'.actionType = NoAct
                BY <1>4, <3>2 DEF Clients
            <4>2. applied \subseteq applied' /\ <<m.sess, m.seq>> \in applied'
                BY <3>2, <4>1 DEF Took
            <4>3. ClientKnown(cli', chosen, applied')
                BY <3>2, <4>1, <4>2, EngineAssumption DEF ClientKnown
            <4>4. toSrv' = toSrv
                BY <2>3 DEF OnFullState
            <4> QED BY <4>2, <4>3, <4>4, HonestMonotonic
        <3> QED BY <2>3, <3>1, <3>2 DEF OnFullState
    <2>4. CASE OnForfeit(m)
        <3>1. /\ cli'.session = cli.session /\ cli'.preAccept = cli.preAccept
              /\ cli'.lastApplied = cli.lastApplied
              /\ cli'.actionType = cli.actionType
            BY <1>4, <2>4 DEF OnForfeit, Clients
        <3> QED BY <2>4, <3>1, ClientKnownKeeps DEF OnForfeit
    <2>5. CASE UNCHANGED <<cli, toSrv, applied>>
        BY <2>5
    <2> QED BY <1>3, <2>1, <2>2, <2>3, <2>4, <2>5
<1> QED BY <1>3, <1>5, ServerKnownMonotonic

LEMMA ClientTickKnown ==
    ASSUME TypeInv, HistoryInv, ClientTick PROVE HistoryInv'
<1> USE DEF HistoryInv
<1>1. PICK first \in {"none", "accept", "request"},
           due \in BOOLEAN, silent \in BOOLEAN :
        ClientTickWhen(first, due, silent)
    BY DEF ClientTick
<1> DEFINE sent == IF ~cli.awaitingFirst \/ first = "none" THEN toSrv
                   ELSE IF Asks(first)
                   THEN Enqueue(toSrv, StateRequest(cli.session))
                   ELSE Enqueue(toSrv, Accept(cli.session, TRUE))
           resend == due /\ Resends(cli)
           r == IF resend THEN SendActionV2(cli, sent, cli.actionType)
                          ELSE [cli |-> cli, net |-> sent]
<1>2. /\ cli \in Clients /\ GoodClient(cli) /\ cli.session \in Sessions
      /\ cli.actionType \in Moves \cup {NoAct, Flee}
    BY <1>1 DEF ClientTickWhen, TypeInv, TypeOK, GoodClient, ClientOn, Clients
<1>3. /\ StateRequest(cli.session) \in ClientPkts
      /\ StateRequest(cli.session).type # "ACTION_V2"
    BY <1>2 DEF StateRequest, ClientPkts
<1>4. /\ Accept(cli.session, TRUE) \in ClientPkts
      /\ Accept(cli.session, TRUE).type # "ACTION_V2"
    BY <1>2 DEF Accept, ClientPkts
<1>5. sent \in Seq(Honest(chosen, applied))
    BY <1>3, <1>4, PlainIsHonest
<1>6. /\ UNCHANGED <<srv, eng, toCli, chosen, applied>>
      /\ cli' = IF silent THEN [r.cli EXCEPT !.phase = "FINISHED"] ELSE r.cli
      /\ toSrv' = r.net
    BY <1>1 DEF ClientTickWhen, HistoryUnchanged, ServerUnchanged
<1> HIDE DEF sent
<1>7. /\ r.cli \in Clients /\ ClientKnown(r.cli, chosen, applied)
      /\ r.net \in Seq(Honest(chosen, applied))
    <2>1. CASE resend
        <3>1. cli.actionType \in Moves \cup {Flee, PureAck}
            BY <1>2, <2>1 DEF Resends
        <3>2. cli.actionType \in Moves
                => Picked(cli.session, cli.actionType, chosen)
            BY DEF ClientKnown
        <3>3. sent \in Seq(ClientPkts)
            BY <1>5, HonestIsTyped, SeqMonotonic
        <3>4. SendActionV2(cli, sent, cli.actionType).cli \in Clients
            BY <1>2, <3>1, <3>3, SendActionType DEF GoodClient
        <3> QED BY <1>2, <1>5, <2>1, <3>1, <3>2, <3>4, SendActionKnown
    <2>2. CASE ~resend
        BY <1>2, <1>5, <2>2
    <2> QED BY <2>1, <2>2
<1> HIDE DEF r
<1>8. ClientKnown(cli', chosen, applied)
    <2>1. /\ cli'.session = r.cli.session /\ cli'.preAccept = r.cli.preAccept
          /\ cli'.lastApplied = r.cli.lastApplied
          /\ cli'.actionType = r.cli.actionType
        BY <1>6, <1>7 DEF Clients
    <2> QED BY <1>7, <2>1, ClientKnownKeeps
<1> QED BY <1>6, <1>7, <1>8

LEMMA ClientKeyKnown ==
    ASSUME TypeInv, HistoryInv, ClientKey PROVE HistoryInv'
<1> USE DEF HistoryInv
<1>1. UNCHANGED <<srv, eng>>
    BY DEF ClientKey, ClientKeyFinished, ClientKeyYes, ClientKeyNo,
           ClientKeyFlee, ClientKeySwitchMenu, ClientKeyPick, ClientEvicted,
           ClientKeys, ServerUnchanged
<1>2. /\ cli.mode = "NETWORKED" /\ GoodClient(cli) /\ cli \in Clients
      /\ cli.session \in Sessions
    BY DEF ClientKey, ClientKeyFinished, ClientKeyYes, ClientKeyNo,
           ClientKeyFlee, ClientKeySwitchMenu, ClientKeyPick, ClientEvicted,
           GoodClient, ClientOn, TypeInv, TypeOK
<1>3. \A c \in Clients, p \in Phases :
         ClientKnown(c, chosen, applied)
           => ClientKnown([c EXCEPT !.phase = p], chosen, applied)
    BY DEF ClientKnown, Clients
<1>4. /\ chosen \subseteq chosen' /\ applied \subseteq applied'
      /\ toSrv' \in Seq(Honest(chosen', applied'))
      /\ ClientKnown(cli', chosen', applied')
    <2>1. CASE cli' = ClientExited(cli) /\ UNCHANGED <<toSrv, chosen, applied>>
        <3>1. /\ cli'.session = cli.session /\ cli'.preAccept = NoPkt
              /\ cli'.lastApplied = cli.lastApplied /\ cli'.actionType = NoAct
            BY <1>2, <2>1 DEF ClientExited, Clients
        <3> QED BY <2>1, <3>1, ClientKnownKeeps
    <2>2. CASE ClientKeyYes
        <3> DEFINE sent == Enqueue(toSrv, Accept(cli.session, TRUE))
                   c == [cli EXCEPT !.phase = "WAIT_REMOTE",
                           !.awaitingFirst = TRUE, !.alive = FullTeams,
                           !.preAccept = NoPkt]
        <3>1. /\ Accept(cli.session, TRUE) \in ClientPkts
              /\ Accept(cli.session, TRUE).type # "ACTION_V2"
            BY <1>2 DEF Accept, ClientPkts
        <3>2. sent \in Seq(Honest(chosen, applied))
            BY <3>1, PlainIsHonest
        <3>3. GoodClient(c) /\ c.mode = "NETWORKED"
            BY <1>2, TeamsType, NamesType DEF GoodClient, ClientOn, Clients
        <3>4. /\ c.session = cli.session /\ c.preAccept = NoPkt
              /\ c.lastApplied = cli.lastApplied
              /\ c.actionType = cli.actionType
            BY <1>2 DEF Clients
        <3>5. /\ chosen' = chosen
              /\ \/ cli.preAccept = NoPkt /\ cli' = c /\ toSrv' = sent
                    /\ UNCHANGED applied
                 \/ /\ cli.preAccept # NoPkt
                    /\ \E levelUp \in {FALSE, LevelUps} :
                         LET r == ApplyUpdate(c, sent, cli.preAccept, levelUp)
                         IN  /\ cli' = r.cli /\ toSrv' = r.net
                             /\ applied' = Took(r.cli, cli.preAccept)
            BY <2>2 DEF ClientKeyYes
        <3> HIDE DEF c, sent
        <3>6. ClientKnown(c, chosen, applied)
            BY <3>4, ClientKnownKeeps
        <3>7. CASE cli.preAccept = NoPkt
            BY <3>2, <3>5, <3>6, <3>7
        <3>8. CASE cli.preAccept # NoPkt
            <4>1. cli.preAccept \in UpdatePkts /\ cli.preAccept.sess = c.session
                BY <1>2, <3>4, <3>8 DEF Clients, ClientKnown
            <4>2. PICK levelUp \in {FALSE, LevelUps} :
                    LET r == ApplyUpdate(c, sent, cli.preAccept, levelUp)
                    IN  /\ cli' = r.cli /\ toSrv' = r.net
                        /\ applied' = Took(r.cli, cli.preAccept)
                BY <3>5, <3>8
            <4>3. applied \subseteq applied'
                BY <4>2 DEF Took
            <4> QED BY <3>2, <3>3, <3>5, <3>6, <4>1, <4>2, <4>3,
                       ApplyUpdateKnown
        <3> QED BY <3>7, <3>8
    <2>3. CASE ClientKeyNo
        <3>1. /\ Accept(cli.session, FALSE) \in ClientPkts
              /\ Accept(cli.session, FALSE).type # "ACTION_V2"
            BY <1>2 DEF Accept, ClientPkts
        <3>2. /\ cli'.session = cli.session /\ cli'.preAccept = cli.preAccept
              /\ cli'.lastApplied = cli.lastApplied
              /\ cli'.actionType = cli.actionType
            BY <1>2, <2>3 DEF ClientKeyNo, Clients
        <3>3. /\ toSrv' = Enqueue(toSrv, Accept(cli.session, FALSE))
              /\ UNCHANGED <<chosen, applied>>
            BY <2>3 DEF ClientKeyNo, HistoryUnchanged
        <3> QED BY <3>1, <3>2, <3>3, PlainIsHonest, ClientKnownKeeps
    <2>4. CASE ClientKeyFlee
        <3> DEFINE r == SendActionV2(cli, toSrv, Flee)
        <3>1. Flee \notin Moves
            BY ActionTypeAssumption
        <3>2. /\ ClientKnown(r.cli, chosen, applied)
              /\ r.net \in Seq(Honest(chosen, applied))
            BY <1>2, <3>1, SendActionKnown
        <3>3. toSrv \in Seq(ClientPkts)
            BY DEF TypeInv, TypeOK
        <3>4. r.cli \in Clients
            BY <1>2, <3>3, SendActionType DEF GoodClient
        <3>5. UNCHANGED <<chosen, applied>>
              /\ \/ cli' = [r.cli EXCEPT !.phase = "FINISHED"] /\ toSrv' = r.net
                 \/ cli' = [cli EXCEPT !.phase = "WAIT_FLEE"] /\ UNCHANGED toSrv
                 \/ cli' = [cli EXCEPT !.phase = "WAIT_ACTION"] /\ UNCHANGED toSrv
            BY <2>4 DEF ClientKeyFlee, HistoryUnchanged
        <3> HIDE DEF r
        <3> QED BY <1>2, <1>3, <3>2, <3>4, <3>5, NamesType
    <2>5. CASE ClientKeySwitchMenu
        <3>1. /\ UNCHANGED <<toSrv, chosen, applied>>
              /\ \/ cli' = [cli EXCEPT !.phase = "WAIT_SWITCH"]
                 \/ cli' = [cli EXCEPT !.phase = "WAIT_ACTION"]
            BY <2>5 DEF ClientKeySwitchMenu, HistoryUnchanged
        <3> QED BY <1>2, <1>3, <3>1, NamesType
    <2>6. CASE ClientKeyPick
        <3>1. PICK mv \in Moves :
                LET r == SendActionV2(cli, toSrv, mv)
                IN  /\ cli' = [r.cli EXCEPT !.phase = "WAIT_REMOTE"]
                    /\ toSrv' = r.net
                    /\ chosen' = chosen \cup {<<cli.session, cli.clientTurn, mv>>}
            BY <2>6 DEF ClientKeyPick
        <3> DEFINE r == SendActionV2(cli, toSrv, mv)
        <3>2. cli.clientTurn \in Byte /\ applied' = applied
              /\ toSrv \in Seq(ClientPkts)
            BY <1>2, <2>6 DEF Clients, ClientKeyPick, TypeInv, TypeOK
        <3>3. chosen \subseteq chosen' /\ Picked(cli.session, mv, chosen')
            BY <3>1, <3>2 DEF Picked
        <3>4. /\ toSrv \in Seq(Honest(chosen', applied))
              /\ ClientKnown(cli, chosen', applied)
            BY <3>3, HonestMonotonic DEF ClientKnown, Picked
        <3>5. /\ ClientKnown(r.cli, chosen', applied)
              /\ r.net \in Seq(Honest(chosen', applied))
            BY <1>2, <3>3, <3>4, SendActionKnown
        <3>6. r.cli \in Clients
            BY <1>2, <3>2, SendActionType DEF GoodClient
        <3>7. cli' = [r.cli EXCEPT !.phase = "WAIT_REMOTE"] /\ toSrv' = r.net
            BY <3>1
        <3> HIDE DEF r
        <3>8. /\ cli'.session = r.cli.session /\ cli'.preAccept = r.cli.preAccept
              /\ cli'.lastApplied = r.cli.lastApplied
              /\ cli'.actionType = r.cli.actionType
            BY <3>6, <3>7 DEF Clients
        <3> QED BY <3>2, <3>3, <3>5, <3>7, <3>8, ClientKnownKeeps
    <2> QED BY <2>1, <2>2, <2>3, <2>4, <2>5, <2>6
            DEF ClientKey, ClientKeyFinished, ClientEvicted, HistoryUnchanged
<1> QED BY <1>1, <1>4, ServerKnownMonotonic

LEMMA LoseKnown ==
    ASSUME TypeInv, HistoryInv, Lose PROVE HistoryInv'
<1>1. /\ UNCHANGED <<srv, eng, cli, chosen, applied>>
      /\ toSrv' \in Losses(toSrv) \cup {toSrv}
    BY DEF Lose, ServerUnchanged, HistoryUnchanged
<1>2. toSrv' \in Seq(Honest(chosen, applied))
    BY <1>1, LossType DEF HistoryInv
<1> QED BY <1>1, <1>2 DEF HistoryInv

LEMMA HistoryInit == Init => HistoryInv
<1> SUFFICES ASSUME Init PROVE HistoryInv
    OBVIOUS
<1>1. toSrv \in Seq(Honest(chosen, applied))
    BY DEF Init
<1> QED BY <1>1, EngineAssumption
        DEF Init, HistoryInv, ClientKnown, PickKnown, AckKnown

LEMMA HistoryStep == TypeInv /\ HistoryInv /\ [Next]_vars => HistoryInv'
<1> SUFFICES ASSUME TypeInv, HistoryInv, [Next]_vars PROVE HistoryInv'
    OBVIOUS
<1>1. CASE SendChallenge
    BY <1>1, SendChallengeKnown
<1>2. CASE ServerReceive
    BY <1>2, ServerReceiveKnown
<1>3. CASE ServerTick
    BY <1>3, ServerTickKnown
<1>4. CASE ServerKey
    BY <1>4, ServerKeyKnown
<1>5. CASE ClientReceive
    BY <1>5, ClientReceiveKnown
<1>6. CASE ClientTick
    BY <1>6, ClientTickKnown
<1>7. CASE ClientKey
    BY <1>7, ClientKeyKnown
<1>8. CASE Lose
    BY <1>8, LoseKnown
<1>9. CASE UNCHANGED vars
    BY <1>9 DEF vars, HistoryInv
<1> QED BY <1>1, <1>2, <1>3, <1>4, <1>5, <1>6, <1>7, <1>8, <1>9 DEF Next

LEMMA HistoryInvariant == Spec => []HistoryInv
<1>1. Init => HistoryInv
    BY HistoryInit
<1>2. TypeInv /\ HistoryInv /\ [Next]_vars => HistoryInv'
    BY HistoryStep
<1> QED BY <1>1, <1>2, TypeInvariant, PTL DEF Spec

\* serverAuthOnActionV2Pkt() never lets anything into the engine that the
\* client's user did not pick in this battle, however packets are lost,
\* repeated and reordered.
THEOREM MovesPicked == Spec => []MovesArePicked
<1>1. HistoryInv => MovesArePicked
    BY DEF HistoryInv, PickKnown, Picked, MovesArePicked
<1> QED BY <1>1, HistoryInvariant, PTL

\* The lastAckedSeq echo: serverAuthRetransmit() falls silent about a board
\* only after the client has taken it.
THEOREM AckedTaken == Spec => []AckedWasTaken
<1>1. HistoryInv => AckedWasTaken
    BY DEF HistoryInv, AckKnown, AckedWasTaken
<1> QED BY <1>1, HistoryInvariant, PTL

-----------------------------------------------------------------------------
(* One winner.  The server has settled that it did not win battle x: the   *)
(* battle is behind it, or over without a win of its own and past ACCEPT.  *)
(* Every packet that announces the client's win is about such a battle.    *)

Lost(x, s) ==
    \/ x < s.session
    \/ /\ x = s.session /\ ~s.playerWon /\ ~s.awaitingAccept
       /\ s.mode = "OFF" \/ s.phase = "FINISHED"

Reports(s) ==
    {p \in ServerPkts :
        /\ p.sess <= s.session
        /\ p.type = "UPDATE" /\ p.result = "P2_WIN" => Lost(p.sess, s)}

\* The server's record agrees with its engine: a win is final, a battle that
\* goes on is undecided, and nothing is picked while ACCEPT is outstanding.
Standing(s, e) ==
    /\ s.playerWon => ~s.awaitingAccept
                      /\ (s.mode = "OFF" \/ s.phase = "FINISHED")
    /\ s.mode = "NETWORKED" =>
          /\ s.awaitingAccept => e.pend[0] = NoAct
          /\ s.phase # "FINISHED" => e.result = "ONGOING"

BufferReports(s) == s.unackedUpdate => s.lastUpdate \in Reports(s)

\* The client: of no later battle than the server, and a winner only where
\* the server has settled that it is not.
ClientBehind(s, c) ==
    /\ c.session <= s.session
    /\ c.preAccept # NoPkt => c.preAccept \in Reports(s)
    /\ c.playerWon => Lost(c.session, s)

WinInv == /\ Standing(srv, eng) /\ BufferReports(srv)
          /\ toCli \in Seq(Reports(srv))
          /\ ClientBehind(srv, cli)

\* What the server settled stays settled from s to t.
Onward(s, t) ==
    /\ s.session <= t.session
    /\ \A x \in 0 .. MaxSession : Lost(x, s) => Lost(x, t)

SameStanding(s, t) ==
    /\ t.mode = s.mode /\ t.phase = s.phase /\ t.session = s.session
    /\ t.awaitingAccept = s.awaitingAccept /\ t.playerWon = s.playerWon

\* The server's part of WinInv after a step from s to t, e and ch.
Moved(s, t, e, ch) ==
    /\ t \in Servers /\ Standing(t, e) /\ BufferReports(t)
    /\ Onward(s, t) /\ ch \in Seq(Reports(t))

LEMMA SessionRange ==
    /\ \A p \in ServerPkts : p.sess \in 0 .. MaxSession
    /\ \A s \in Servers : s.session \in 0 .. MaxSession
<1>1. \A p \in ServerPkts : p.sess \in Sessions
    BY DEF ServerPkts, UpdatePkts
<1>2. \A s \in Servers : s.session \in 0 .. MaxSession
    BY DEF Servers
<1> QED BY <1>1, <1>2, BoundAssumption DEF Sessions

LEMMA SameReports ==
    ASSUME NEW s, NEW t, SameStanding(s, t)
    PROVE  /\ Reports(t) = Reports(s)
           /\ \A x : Lost(x, t) <=> Lost(x, s)
           /\ \A e : Standing(s, e) => Standing(t, e)
BY DEF SameStanding, Reports, Lost, Standing

LEMMA OnwardReports ==
    ASSUME NEW s \in Servers, NEW t \in Servers, Onward(s, t)
    PROVE  Reports(s) \subseteq Reports(t)
<1> SUFFICES ASSUME NEW p \in Reports(s) PROVE p \in Reports(t)
    OBVIOUS
<1>1. p \in ServerPkts /\ p.sess <= s.session
    BY DEF Reports
<1>2. /\ p.sess \in 0 .. MaxSession /\ s.session \in 0 .. MaxSession
      /\ t.session \in 0 .. MaxSession
    BY <1>1, SessionRange
<1>3. p.sess <= t.session
    BY <1>1, <1>2, BoundAssumption DEF Onward
<1>4. p.type = "UPDATE" /\ p.result = "P2_WIN" => Lost(p.sess, t)
    BY <1>2 DEF Reports, Onward
<1> QED BY <1>1, <1>3, <1>4 DEF Reports

LEMMA OnwardTransitive ==
    ASSUME NEW s \in Servers, NEW t \in Servers, NEW u \in Servers,
           Onward(s, t), Onward(t, u)
    PROVE  Onward(s, u)
BY SessionRange, BoundAssumption DEF Onward

\* Within a battle, what is settled stays so while the server neither wins it
\* nor takes it up again.
LEMMA OnwardInBattle ==
    ASSUME NEW s \in Servers, NEW t, t.session = s.session,
           /\ ~s.playerWon /\ ~s.awaitingAccept
           /\ s.mode = "OFF" \/ s.phase = "FINISHED"
           => /\ ~t.playerWon /\ ~t.awaitingAccept
              /\ t.mode = "OFF" \/ t.phase = "FINISHED"
    PROVE  Onward(s, t)
BY SessionRange DEF Onward, Lost

\* A step that builds no UPDATE.
LEMMA QuietMove ==
    ASSUME NEW s \in Servers, NEW t \in Servers, NEW e, NEW ch,
           BufferReports(s), ch \in Seq(Reports(s)),
           Standing(t, e), Onward(s, t),
           t.unackedUpdate => s.unackedUpdate /\ t.lastUpdate = s.lastUpdate
    PROVE  Moved(s, t, e, ch)
<1>1. Reports(s) \subseteq Reports(t)
    BY OnwardReports
<1>2. ch \in Seq(Reports(t))
    BY <1>1, SeqMonotonic
<1>3. BufferReports(t)
    BY <1>1 DEF BufferReports
<1> QED BY <1>2, <1>3 DEF Moved

\* serverAuthSendUpdate(): a board that gives the client the win is sent only
\* by a server that has settled the battle.
LEMMA SendingMove ==
    ASSUME NEW s \in Servers, NEW d \in Servers, d.session \in Sessions,
           NEW e \in Engines, NEW ch \in Seq(ServerPkts), ch \in Seq(Reports(s)),
           Onward(s, d), Standing(d, e),
           e.result = "P2_WIN" => Lost(d.session, d)
    PROVE  Moved(s, SendUpdate(d, e, ch).srv, e, SendUpdate(d, e, ch).net)
<1> DEFINE t   == SendUpdate(d, e, ch).srv
           upd == t.lastUpdate
<1>1. /\ GoodServer(t) /\ t \in Servers
      /\ SendUpdate(d, e, ch).net \in Seq(ServerPkts)
    BY SendUpdateType DEF GoodServer
<1>2. SameStanding(d, t) /\ t.unackedUpdate
    BY DEF SendUpdate, SameStanding, Servers
<1>3. /\ upd = Update(d.session, Wire(d.updateSeq + 1), e, d.peerReady)
      /\ SendUpdate(d, e, ch).net = Enqueue(ch, upd)
    BY DEF SendUpdate, Servers
<1> HIDE DEF t
<1>4. upd \in UpdatePkts /\ upd \in ServerPkts
    BY <1>1, <1>2 DEF GoodServer, ServerBuffer, ServerPkts
<1>5. upd.sess = d.session /\ upd.result = e.result
    BY <1>3 DEF Update
<1>6. d.session \in Nat
    BY SessionRange
<1>7. upd \in Reports(d)
    BY <1>4, <1>5, <1>6 DEF Reports
<1>8. Reports(t) = Reports(d) /\ Standing(t, e) /\ (\A x : Lost(x, t) <=> Lost(x, d))
    BY <1>2, SameReports
<1>9. ch \in Seq(Reports(d))
    BY OnwardReports, SeqMonotonic
<1>10. SendUpdate(d, e, ch).net \in Seq(Reports(t))
    BY <1>3, <1>7, <1>8, <1>9, EnqueueType
<1>11. BufferReports(t)
    BY <1>7, <1>8 DEF BufferReports
<1>12. Onward(s, t)
    BY <1>2, <1>8 DEF Onward, SameStanding
<1> QED BY <1>1, <1>8, <1>10, <1>11, <1>12 DEF Moved, t


\* serverAuthRetransmit(): repeats what it sent, or gives the challenge up.
LEMMA RetransmitMove ==
    ASSUME TypeInv, WinInv, srv.mode = "NETWORKED"
    PROVE  LET r == Retransmit(srv, toCli)
           IN  /\ Moved(srv, r.srv, eng, r.net)
               /\ r.net \in Seq(ServerPkts)
<1> DEFINE r == Retransmit(srv, toCli)
<1>1. /\ GoodServer(srv) /\ srv \in Servers /\ toCli \in Seq(ServerPkts)
      /\ Standing(srv, eng) /\ BufferReports(srv) /\ toCli \in Seq(Reports(srv))
    BY DEF TypeInv, TypeOK, GoodServer, WinInv
<1>2. r.srv \in Servers /\ r.net \in Seq(ServerPkts)
    BY <1>1, RetransmitType DEF GoodServer
<1>3. /\ srv.session \in Nat /\ srv.session \in Sessions
    BY <1>1, SessionRange DEF GoodServer, ServerOn
<1>4. /\ r.srv.unackedUpdate = srv.unackedUpdate
      /\ r.srv.lastUpdate = srv.lastUpdate
      /\ r.srv.session = srv.session /\ r.srv.mode = srv.mode
      /\ r.srv.playerWon = srv.playerWon
      /\ \/ r.srv.phase = srv.phase /\ r.srv.awaitingAccept = srv.awaitingAccept
         \/ srv.awaitingAccept /\ ~r.srv.awaitingAccept /\ r.srv.phase = "FINISHED"
    BY <1>1 DEF Retransmit, OutOfTries, Servers
<1>5. r.net \in Seq(Reports(srv))
    <2>1. Challenge(srv.session) \in Reports(srv)
        BY <1>3 DEF Challenge, Reports, ServerPkts
    <2>2. \/ r.net = toCli
          \/ r.net = Enqueue(toCli, Challenge(srv.session))
          \/ srv.unackedUpdate /\ r.net = Enqueue(toCli, srv.lastUpdate)
        BY DEF Retransmit
    <2> QED BY <1>1, <2>1, <2>2, EnqueueType DEF BufferReports
<1> HIDE DEF r
<1>6. Standing(r.srv, eng)
    BY <1>1, <1>4 DEF Standing
<1>7. Onward(srv, r.srv)
    BY <1>1, <1>4, OnwardInBattle
<1>8. Moved(srv, r.srv, eng, r.net)
    BY <1>1, <1>2, <1>4, <1>5, <1>6, <1>7, QuietMove
<1> QED BY <1>2, <1>8 DEF r

\* resolveTurn(): the only handler that records a win, and it ends the battle
\* in the same step.
LEMMA ResolveMove ==
    ASSUME NEW s \in Servers, s.mode = "NETWORKED", s.session \in Sessions,
           s.phase = "WAIT_REMOTE", eng \in Engines,
           NEW ch \in Seq(ServerPkts), ch \in Seq(Reports(s)),
           Standing(s, eng), ResolveTurn(s, ch)
    PROVE  Moved(s, srv', eng', toCli')
<1>1. PICK e \in ExecuteTurn(eng) :
        LET over == e.result # "ONGOING"
            u == SendUpdate(
                   [s EXCEPT
                      !.playerWon = @ \/ e.result = "P1_WIN",
                      !.pendingRemoteAction = over,
                      !.phase = IF over THEN "FINISHED" ELSE "WAIT_ACTION"],
                   e, ch)
        IN  eng' = e /\ srv' = u.srv /\ toCli' = u.net
    BY DEF ResolveTurn
<1> DEFINE over == e.result # "ONGOING"
           d == [s EXCEPT
                   !.playerWon = @ \/ e.result = "P1_WIN",
                   !.pendingRemoteAction = over,
                   !.phase = IF over THEN "FINISHED" ELSE "WAIT_ACTION"]
<1>2. e \in Engines
    BY ExecuteTurnType
<1>3. /\ d \in Servers /\ d.session = s.session /\ d.mode = "NETWORKED"
      /\ d.awaitingAccept = s.awaitingAccept
      /\ d.playerWon = (s.playerWon \/ e.result = "P1_WIN")
      /\ d.phase = IF over THEN "FINISHED" ELSE "WAIT_ACTION"
    <2>1. (s.playerWon \/ e.result = "P1_WIN") \in BOOLEAN
        OBVIOUS
    <2>2. (IF over THEN "FINISHED" ELSE "WAIT_ACTION") \in Phases
        BY NamesType
    <2>3. over \in BOOLEAN
        OBVIOUS
    <2> HIDE DEF over
    <2> QED BY <2>1, <2>2, <2>3 DEF Servers
<1>4. eng' = e /\ srv' = SendUpdate(d, e, ch).srv /\ toCli' = SendUpdate(d, e, ch).net
    BY <1>1
<1> HIDE DEF d
<1>5. ~s.playerWon /\ eng.result = "ONGOING"
    BY DEF Standing
<1>6. over => ~s.awaitingAccept
    <2>1. CASE s.awaitingAccept
        <3>1. eng.pend[0] = NoAct
            BY <2>1 DEF Standing
        <3>2. e = eng
            BY <3>1 DEF ExecuteTurn, Ready, Side
        <3> QED BY <1>5, <3>2
    <2> QED BY <2>1
<1>7. s.awaitingAccept => e.pend[0] = NoAct
    <2>1. CASE s.awaitingAccept
        <3>1. eng.pend[0] = NoAct
            BY <2>1 DEF Standing
        <3>2. e = eng
            BY <3>1 DEF ExecuteTurn, Ready, Side
        <3> QED BY <3>1, <3>2
    <2> QED BY <2>1
<1>8. Standing(d, e)
    BY <1>3, <1>5, <1>6, <1>7 DEF Standing
<1>9. e.result = "P2_WIN" => Lost(d.session, d)
    BY <1>3, <1>5, <1>6 DEF Lost
<1>10. Onward(s, d)
    BY <1>3, OnwardInBattle
<1> QED BY <1>2, <1>3, <1>4, <1>8, <1>9, <1>10, SendingMove

\* tick() at the server.
LEMMA TickMove ==
    ASSUME TypeInv, WinInv, ServerTick
    PROVE  Moved(srv, srv', eng', toCli')
<1>1. PICK due \in BOOLEAN, held \in BOOLEAN, silent \in BOOLEAN :
        ServerTickWhen(due, held, silent)
    BY DEF ServerTick, TypeInv, TypeOK, Servers
<1> DEFINE r == IF due THEN Retransmit(srv, toCli)
                       ELSE [srv |-> srv, net |-> toCli]
           s == r.srv
<1>2. /\ srv \in Servers /\ eng \in Engines /\ srv.mode = "NETWORKED"
      /\ srv.session \in Sessions /\ GoodServer(srv)
      /\ Standing(srv, eng) /\ BufferReports(srv) /\ toCli \in Seq(Reports(srv))
      /\ toCli \in Seq(ServerPkts)
    BY <1>1 DEF ServerTickWhen, TypeInv, TypeOK, WinInv, ServerOn, GoodServer
<1>3. Moved(srv, s, eng, r.net) /\ r.net \in Seq(ServerPkts)
    <2>1. CASE due
        BY <1>2, <2>1, RetransmitMove
    <2>2. CASE ~due
        <3>1. Onward(srv, srv)
            BY <1>2, OnwardInBattle
        <3>2. Moved(srv, srv, eng, toCli)
            BY <1>2, <3>1, QuietMove
        <3> QED BY <1>2, <2>2, <3>2
    <2> QED BY <2>1, <2>2
<1>4. s.mode = "NETWORKED" /\ s.session = srv.session
    <2>1. CASE due
        BY <1>2, <2>1, RetransmitKeeps
    <2>2. CASE ~due
        BY <1>2, <2>2
    <2> QED BY <2>1, <2>2
<1>5. \/ srv' = ServerExited(s) /\ toCli' = r.net /\ UNCHANGED eng
      \/ /\ ~s.awaitingAccept
         /\ eng' = IF eng.result = "ONGOING" THEN Forfeit(eng, 1) ELSE eng
         /\ srv' = [s EXCEPT !.phase = "FINISHED"]
         /\ toCli' = r.net
      \/ s.phase = "WAIT_REMOTE" /\ ResolveTurn(s, r.net)
      \/ srv' = s /\ toCli' = r.net /\ UNCHANGED eng
    BY <1>1 DEF ServerTickWhen
<1> HIDE DEF r, s
<1>6. /\ s \in Servers /\ Standing(s, eng) /\ BufferReports(s)
      /\ Onward(srv, s) /\ r.net \in Seq(Reports(s))
    BY <1>3 DEF Moved
<1>7. Moved(s, srv', eng', toCli')
    <2>1. CASE srv' = ServerExited(s) /\ toCli' = r.net /\ UNCHANGED eng
        <3>1. ServerExited(s) \in Servers
            BY <1>6, ServerExitedType DEF GoodServer
        <3>2. /\ srv'.session = s.session /\ srv'.mode = "OFF"
              /\ srv'.playerWon = s.playerWon /\ ~srv'.awaitingAccept
              /\ ~srv'.unackedUpdate
            BY <1>6, <2>1 DEF ServerExited, Servers
        <3>3. Standing(srv', eng) /\ Onward(s, srv')
            BY <1>6, <3>2, OnwardInBattle DEF Standing
        <3> QED BY <1>6, <2>1, <3>1, <3>2, <3>3, QuietMove
    <2>2. CASE /\ ~s.awaitingAccept
               /\ eng' = IF eng.result = "ONGOING" THEN Forfeit(eng, 1) ELSE eng
               /\ srv' = [s EXCEPT !.phase = "FINISHED"]
               /\ toCli' = r.net
        <3>1. /\ srv' \in Servers /\ srv'.phase = "FINISHED"
              /\ srv'.session = s.session /\ srv'.mode = s.mode
              /\ srv'.playerWon = s.playerWon
              /\ srv'.awaitingAccept = s.awaitingAccept
              /\ srv'.unackedUpdate = s.unackedUpdate
              /\ srv'.lastUpdate = s.lastUpdate
            BY <1>6, <2>2, NamesType DEF Servers
        <3>2. Standing(srv', eng') /\ Onward(s, srv')
            BY <1>6, <2>2, <3>1, OnwardInBattle DEF Standing
        <3> QED BY <1>6, <2>2, <3>1, <3>2, QuietMove
    <2>3. CASE s.phase = "WAIT_REMOTE" /\ ResolveTurn(s, r.net)
        BY <1>2, <1>3, <1>4, <1>6, <2>3, ResolveMove
    <2>4. CASE srv' = s /\ toCli' = r.net /\ UNCHANGED eng
        <3>1. Onward(s, s)
            BY <1>6, OnwardInBattle
        <3> QED BY <1>6, <2>4, <3>1, QuietMove
    <2> QED BY <1>5, <2>1, <2>2, <2>3, <2>4
<1> QED BY <1>2, <1>6, <1>7, OnwardTransitive DEF Moved


\* startServerAuthAsInitiator(): the battle before is behind it for good.
LEMMA ChallengeMove ==
    ASSUME TypeInv, WinInv, SendChallenge
    PROVE  Moved(srv, srv', eng', toCli')
<1>1. /\ srv \in Servers /\ toCli \in Seq(Reports(srv))
      /\ srv' \in Servers /\ srv'.session \in Sessions
    <2>1. TypeInv'
        BY SendChallengeType
    <2>2. srv'.mode = "NETWORKED"
        BY DEF SendChallenge, TypeInv, TypeOK, Servers
    <2> QED BY <2>1, <2>2 DEF TypeInv, TypeOK, WinInv, ServerOn
<1>2. /\ srv'.session = srv.session + 1 /\ ~srv'.playerWon
      /\ srv'.phase = "WAIT_REMOTE" /\ ~srv'.unackedUpdate
    BY <1>1 DEF SendChallenge, Servers
<1>3. /\ eng'.pend[0] = NoAct /\ eng'.result = "ONGOING"
    BY DEF SendChallenge, Start, Side
<1>4. srv.session \in Nat
    BY <1>1, SessionRange
<1>5. Onward(srv, srv')
    <2>1. \A x \in 0 .. MaxSession : Lost(x, srv) => x < srv'.session
        BY <1>2, <1>4, BoundAssumption DEF Lost
    <2> QED BY <1>2, <1>4, <2>1 DEF Onward, Lost
<1>6. Standing(srv', eng')
    BY <1>2, <1>3 DEF Standing
<1>7. toCli \in Seq(Reports(srv'))
    BY <1>1, <1>5, OnwardReports, SeqMonotonic
<1>8. Challenge(srv'.session) \in Reports(srv')
    <2>1. srv'.session \in Nat
        BY <1>1, SessionRange
    <2> QED BY <1>1, <2>1 DEF Challenge, Reports, ServerPkts
<1>9. toCli' = Enqueue(toCli, Challenge(srv'.session))
    BY <1>2 DEF SendChallenge
<1>10. toCli' \in Seq(Reports(srv'))
    BY <1>7, <1>8, <1>9, EnqueueType
<1> QED BY <1>1, <1>2, <1>5, <1>6, <1>10 DEF Moved, BufferReports

\* serverAuthOnAcceptPkt(): the engine starts afresh.
LEMMA AcceptMove ==
    ASSUME TypeInv, WinInv, srv.mode # "OFF", NEW m, OnAccept(m)
    PROVE  Moved(srv, srv', eng', toCli')
<1>1. /\ srv \in Servers /\ srv.session \in Sessions /\ srv.mode = "NETWORKED"
      /\ toCli \in Seq(ServerPkts) /\ toCli \in Seq(Reports(srv))
      /\ Standing(srv, eng) /\ BufferReports(srv)
    BY DEF TypeInv, TypeOK, WinInv, ServerOn, Servers, Modes
<1>2. CASE UNCHANGED <<srv, eng, toCli>>
    <2>1. Onward(srv, srv)
        BY <1>1, OnwardInBattle
    <2> QED BY <1>1, <1>2, <2>1, QuietMove
<1>3. CASE /\ srv.awaitingAccept
           /\ srv' = [srv EXCEPT !.phase = "FINISHED", !.awaitingAccept = FALSE]
           /\ UNCHANGED <<eng, toCli>>
    <2>1. /\ srv' \in Servers /\ srv'.phase = "FINISHED"
          /\ srv'.session = srv.session /\ ~srv'.awaitingAccept
          /\ srv'.playerWon = srv.playerWon
          /\ srv'.unackedUpdate = srv.unackedUpdate
          /\ srv'.lastUpdate = srv.lastUpdate
        BY <1>1, <1>3, NamesType DEF Servers
    <2>2. Standing(srv', eng) /\ Onward(srv, srv')
        BY <1>1, <1>3, <2>1, OnwardInBattle DEF Standing
    <2> QED BY <1>1, <1>3, <2>1, <2>2, QuietMove
<1>4. CASE /\ srv.awaitingAccept /\ eng' = Start(FullTeams)
           /\ \E kept \in DropPendingSends(toCli) :
                LET s == [srv EXCEPT !.awaitingAccept = FALSE,
                           !.peerReady = TRUE,
                           !.pendingRemoteAction = FALSE,
                           !.phase = "WAIT_ACTION"]
                    r == SendUpdate(s, Start(FullTeams), kept)
                IN  srv' = r.srv /\ toCli' = r.net
    <2> DEFINE e == Start(FullTeams)
               d == [srv EXCEPT !.awaitingAccept = FALSE,
                       !.peerReady = TRUE,
                       !.pendingRemoteAction = FALSE,
                       !.phase = "WAIT_ACTION"]
    <2>1. PICK kept \in DropPendingSends(toCli) :
            srv' = SendUpdate(d, e, kept).srv /\ toCli' = SendUpdate(d, e, kept).net
        BY <1>4
    <2>2. kept \in Seq(ServerPkts) /\ kept \in Seq(Reports(srv))
        BY <1>1, DropType
    <2>3. /\ d \in Servers /\ d.session = srv.session /\ ~d.awaitingAccept
          /\ d.playerWon = srv.playerWon
        BY <1>1, NamesType DEF Servers
    <2>4. e \in Engines /\ e.result = "ONGOING"
        <3>1. e \in Engines
            BY TeamsType, StartType
        <3>2. e.result = "ONGOING"
            BY DEF Start
        <3> QED BY <3>1, <3>2
    <2> HIDE DEF d, e
    <2>5. ~srv.playerWon
        BY <1>1, <1>4 DEF Standing
    <2>6. Standing(d, e) /\ Onward(srv, d)
        BY <1>1, <1>4, <2>3, <2>4, <2>5, OnwardInBattle DEF Standing
    <2>7. eng' = e
        BY <1>4 DEF e
    <2> QED BY <1>1, <2>1, <2>2, <2>3, <2>4, <2>6, <2>7, SendingMove
<1> QED BY <1>2, <1>3, <1>4 DEF OnAccept

\* serverAuthOnActionV2Pkt(): a flee gives the battle to the server's side and
\* nothing else announces a result.
LEMMA ActionMove ==
    ASSUME TypeInv, WinInv, srv.mode # "OFF", NEW m \in ClientPkts,
           m.type = "ACTION_V2", OnActionV2(m)
    PROVE  Moved(srv, srv', eng', toCli')
<1> DEFINE s == Acknowledged(srv, m)
<1>1. /\ srv \in Servers /\ srv.session \in Sessions /\ srv.mode = "NETWORKED"
      /\ toCli \in Seq(ServerPkts) /\ toCli \in Seq(Reports(srv))
      /\ Standing(srv, eng) /\ BufferReports(srv) /\ eng \in Engines
    BY DEF TypeInv, TypeOK, WinInv, ServerOn, Servers, Modes
<1>2. /\ s \in Servers /\ SameStanding(srv, s)
      /\ s.unackedUpdate => srv.unackedUpdate
      /\ s.lastUpdate = srv.lastUpdate
    BY <1>1 DEF Acknowledged, SameStanding, Servers
<1>3. m.act \in Moves \cup {Flee, PureAck}
    BY DEF ClientPkts
<1>4. \/ UNCHANGED <<srv, eng, toCli>>
      \/ srv' = s /\ UNCHANGED <<eng, toCli>>
      \/ /\ eng' = Forfeit(eng, 1)
         /\ LET r == SendUpdate([s EXCEPT !.phase = "FINISHED"],
                                Forfeit(eng, 1), toCli)
            IN  srv' = r.srv /\ toCli' = r.net
      \/ /\ m.act \in Moves /\ eng' = Submit(eng, 1, m.act)
         /\ srv' = [s EXCEPT !.pendingRemoteAction = TRUE]
         /\ UNCHANGED toCli
    BY <1>3 DEF OnActionV2, ActionCounts
<1> HIDE DEF s
<1>5. Standing(s, eng)
    BY <1>1, <1>2, SameReports
<1>6. CASE UNCHANGED <<srv, eng, toCli>>
    <2>1. Onward(srv, srv)
        BY <1>1, OnwardInBattle
    <2> QED BY <1>1, <1>6, <2>1, QuietMove
<1>7. CASE srv' = s /\ UNCHANGED <<eng, toCli>>
    <2>1. Onward(srv, s)
        BY <1>1, <1>2, OnwardInBattle DEF SameStanding
    <2> QED BY <1>1, <1>2, <1>5, <1>7, <2>1, QuietMove
<1>8. CASE /\ eng' = Forfeit(eng, 1)
           /\ LET r == SendUpdate([s EXCEPT !.phase = "FINISHED"],
                                  Forfeit(eng, 1), toCli)
              IN  srv' = r.srv /\ toCli' = r.net
    <2> DEFINE d == [s EXCEPT !.phase = "FINISHED"]
               e == Forfeit(eng, 1)
    <2>1. /\ d \in Servers /\ d.session = srv.session /\ d.phase = "FINISHED"
          /\ d.awaitingAccept = srv.awaitingAccept /\ d.mode = srv.mode
          /\ d.playerWon = srv.playerWon
        BY <1>2, NamesType DEF Servers, SameStanding
    <2>2. e \in Engines /\ e.result = "P1_WIN" /\ e.pend = eng.pend
        <3>1. e \in Engines
            BY <1>1, ForfeitType DEF Side
        <3>2. e.pend = eng.pend
            BY <1>1, NothingPending DEF Side
        <3>3. e.result = "P1_WIN"
            BY <1>1 DEF Forfeit, Engines
        <3> QED BY <3>1, <3>2, <3>3
    <2>3. /\ eng' = e /\ srv' = SendUpdate(d, e, toCli).srv
          /\ toCli' = SendUpdate(d, e, toCli).net
        BY <1>8
    <2> HIDE DEF d, e
    <2>4. Standing(d, e) /\ Onward(srv, d)
        BY <1>1, <2>1, <2>2, OnwardInBattle DEF Standing
    <2> QED BY <1>1, <2>1, <2>2, <2>3, <2>4, SendingMove
<1>9. CASE /\ m.act \in Moves /\ eng' = Submit(eng, 1, m.act)
           /\ srv' = [s EXCEPT !.pendingRemoteAction = TRUE]
           /\ UNCHANGED toCli
    <2>1. /\ srv' \in Servers /\ srv'.session = srv.session
          /\ srv'.phase = srv.phase /\ srv'.mode = srv.mode
          /\ srv'.awaitingAccept = srv.awaitingAccept
          /\ srv'.playerWon = srv.playerWon
          /\ srv'.unackedUpdate => srv.unackedUpdate
          /\ srv'.lastUpdate = srv.lastUpdate
        BY <1>2, <1>9 DEF Servers, SameStanding
    <2>2. eng'.pend[0] = eng.pend[0] /\ eng'.result = eng.result
        BY <1>1, <1>9 DEF Submit, Engines, Side
    <2>3. Standing(srv', eng') /\ Onward(srv, srv')
        BY <1>1, <2>1, <2>2, OnwardInBattle DEF Standing
    <2> QED BY <1>1, <1>9, <2>1, <2>3, QuietMove
<1> QED BY <1>4, <1>6, <1>7, <1>8, <1>9

LEMMA ReceiveMove ==
    ASSUME TypeInv, WinInv, ServerReceive
    PROVE  Moved(srv, srv', eng', toCli')
<1>1. PICK i \in Deliverable(toSrv) : ServerTakes(i)
    BY DEF ServerReceive
<1> DEFINE m == toSrv[i]
<1>2. m \in ClientPkts
    BY DeliverableType DEF TypeInv, TypeOK
<1>3. \/ UNCHANGED <<srv, eng, toCli>>
      \/ srv.mode # "OFF" /\ OnAccept(m)
      \/ srv.mode # "OFF" /\ m.type = "ACTION_V2" /\ OnActionV2(m)
      \/ srv.mode # "OFF" /\ OnStateRequest(m)
    BY <1>1 DEF ServerTakes
<1> HIDE DEF m
<1>4. /\ srv \in Servers /\ eng \in Engines
      /\ toCli \in Seq(Reports(srv)) /\ Standing(srv, eng) /\ BufferReports(srv)
    BY DEF TypeInv, TypeOK, WinInv
<1>5. Onward(srv, srv)
    BY <1>4, OnwardInBattle
<1>6. CASE UNCHANGED <<srv, eng, toCli>>
    BY <1>4, <1>5, <1>6, QuietMove
<1>7. CASE srv.mode # "OFF" /\ OnStateRequest(m)
    <2> DEFINE full == FullState(srv.session, srv.updateSeq, eng, srv.peerReady)
    <2>1. /\ srv.session \in Sessions /\ srv.updateSeq \in Byte
          /\ eng.alive \in Alive /\ srv.peerReady \in BOOLEAN
          /\ srv.session \in Nat
        BY <1>4, <1>7, SessionRange
           DEF TypeInv, ServerOn, Servers, Modes, Engines, Alive
    <2>2. full \in Reports(srv)
        BY <2>1 DEF FullState, ServerPkts, Reports
    <2>3. UNCHANGED <<srv, eng>> /\ toCli' \in {toCli, Enqueue(toCli, full)}
        BY <1>7 DEF OnStateRequest
    <2> HIDE DEF full
    <2>4. toCli' \in Seq(Reports(srv))
        BY <1>4, <2>2, <2>3, EnqueueType
    <2> QED BY <1>4, <1>5, <2>3, <2>4, QuietMove
<1> QED BY <1>2, <1>3, <1>6, <1>7, AcceptMove, ActionMove

\* handleKey() at the server.  With the keyboard held until ACCEPT a fled
\* battle has begun, so it will not be started again.
LEMMA KeyMove ==
    ASSUME TypeInv, WinInv, TerminalHeld, ServerKey
    PROVE  Moved(srv, srv', eng', toCli')
<1>1. /\ srv \in Servers /\ eng \in Engines
      /\ toCli \in Seq(Reports(srv)) /\ toCli \in Seq(ServerPkts)
      /\ Standing(srv, eng) /\ BufferReports(srv)
      /\ srv.mode = "NETWORKED" /\ srv.session \in Sessions
    BY DEF TypeInv, TypeOK, WinInv, ServerOn,
           ServerKey, ServerKeyFinished, ServerKeyEsc, ServerKeyFlee,
           ServerKeySwitchMenu, ServerKeyPick, ServerEvicted, ServerHasKeys
<1>2. Forfeit(eng, 0) \in Engines /\ Forfeit(eng, 0).pend = eng.pend
    BY <1>1, ForfeitType, NothingPending DEF Side
<1>3. CASE srv' = ServerExited(srv) /\ UNCHANGED <<eng, toCli>>
    <2>1. /\ srv' \in Servers /\ srv'.session = srv.session
          /\ srv'.mode = "OFF" /\ srv'.playerWon = srv.playerWon
          /\ ~srv'.awaitingAccept /\ ~srv'.unackedUpdate
        BY <1>1, <1>3, ServerExitedType DEF GoodServer, ServerExited, Servers
    <2>2. Standing(srv', eng) /\ Onward(srv, srv')
        BY <1>1, <2>1, OnwardInBattle DEF Standing
    <2> QED BY <1>1, <1>3, <2>1, <2>2, QuietMove
<1>4. CASE srv' = [srv EXCEPT !.pendingKeyExit = TRUE] /\ UNCHANGED <<eng, toCli>>
    <2>1. /\ srv' \in Servers /\ srv'.session = srv.session
          /\ srv'.mode = srv.mode /\ srv'.playerWon = srv.playerWon
          /\ srv'.phase = srv.phase /\ srv'.awaitingAccept = srv.awaitingAccept
          /\ srv'.unackedUpdate = srv.unackedUpdate
          /\ srv'.lastUpdate = srv.lastUpdate
        BY <1>1, <1>4 DEF Servers
    <2>2. Standing(srv', eng) /\ Onward(srv, srv')
        BY <1>1, <2>1, OnwardInBattle DEF Standing
    <2> QED BY <1>1, <1>4, <2>1, <2>2, QuietMove
<1>5. CASE /\ ServerHasKeys /\ srv.phase # "FINISHED"
           /\ eng' = Forfeit(eng, 0)
           /\ LET r == SendUpdate([srv EXCEPT !.phase = "FINISHED"],
                                  Forfeit(eng, 0), toCli)
              IN  srv' = r.srv /\ toCli' = r.net
    <2> DEFINE d == [srv EXCEPT !.phase = "FINISHED"]
               e == Forfeit(eng, 0)
    <2>1. /\ d \in Servers /\ d.session = srv.session /\ d.phase = "FINISHED"
          /\ d.awaitingAccept = srv.awaitingAccept /\ d.mode = srv.mode
          /\ d.playerWon = srv.playerWon
        BY <1>1, NamesType DEF Servers
    <2>2. ~srv.awaitingAccept /\ ~srv.playerWon
        BY <1>1, <1>5 DEF ServerHasKeys, Standing
    <2>3. /\ eng' = e /\ srv' = SendUpdate(d, e, toCli).srv
          /\ toCli' = SendUpdate(d, e, toCli).net
        BY <1>5
    <2>4. e \in Engines
        BY <1>2
    <2> HIDE DEF d, e
    <2>5. Standing(d, e) /\ Onward(srv, d) /\ Lost(d.session, d)
        BY <1>1, <2>1, <2>2, OnwardInBattle DEF Standing, Lost
    <2> QED BY <1>1, <2>1, <2>3, <2>4, <2>5, SendingMove
<1>6. CASE \E p \in MenuPhases \cup {"WAIT_REMOTE"} :
             /\ ~srv.awaitingAccept
             /\ srv.phase \in MenuPhases /\ srv' = [srv EXCEPT !.phase = p]
             /\ eng'.result = eng.result /\ UNCHANGED toCli
    <2>1. PICK p \in MenuPhases \cup {"WAIT_REMOTE"} :
            srv' = [srv EXCEPT !.phase = p]
        BY <1>6
    <2>2. /\ srv' \in Servers /\ srv'.session = srv.session
          /\ srv'.mode = srv.mode /\ srv'.playerWon = srv.playerWon
          /\ ~srv'.awaitingAccept
          /\ srv'.unackedUpdate = srv.unackedUpdate
          /\ srv'.lastUpdate = srv.lastUpdate
        BY <1>1, <1>6, <2>1 DEF Servers, Phases
    <2>3. srv.phase # "FINISHED" /\ ~srv.playerWon
        BY <1>1, <1>6 DEF MenuPhases, Standing
    <2>4. Standing(srv', eng') /\ Onward(srv, srv')
        BY <1>1, <1>6, <2>2, <2>3, OnwardInBattle DEF Standing
    <2> QED BY <1>1, <1>6, <2>2, <2>4, QuietMove
<1>7. CASE /\ srv.phase = "WAIT_FLEE" /\ ~srv.awaitingAccept
           /\ srv' = [srv EXCEPT !.phase = "FINISHED"]
           /\ eng' = Forfeit(eng, 0)
           /\ toCli' = Enqueue(toCli, ForfeitPkt(srv.session))
    <2>1. /\ srv' \in Servers /\ srv'.session = srv.session
          /\ srv'.mode = srv.mode /\ srv'.playerWon = srv.playerWon
          /\ srv'.phase = "FINISHED" /\ ~srv'.awaitingAccept
          /\ srv'.unackedUpdate = srv.unackedUpdate
          /\ srv'.lastUpdate = srv.lastUpdate
        BY <1>1, <1>7, NamesType DEF Servers
    <2>2. Standing(srv', eng') /\ Onward(srv, srv')
        BY <1>1, <2>1, OnwardInBattle DEF Standing
    <2>3. ForfeitPkt(srv.session) \in Reports(srv)
        BY <1>1, SessionRange DEF ForfeitPkt, Reports, ServerPkts
    <2>4. toCli' \in Seq(Reports(srv))
        BY <1>1, <1>7, <2>3, EnqueueType
    <2> QED BY <1>1, <2>1, <2>2, <2>4, QuietMove
<1>8. \A mv \in Moves : Submit(eng, 0, mv).result = eng.result
    BY <1>1 DEF Submit, Engines
<1> QED BY <1>3, <1>4, <1>5, <1>6, <1>7, <1>8
        DEF ServerKey, ServerKeyFinished, ServerKeyEsc, ServerKeyFlee,
            ServerKeySwitchMenu, ServerKeyPick, ServerEvicted, ServerHasKeys,
            MenuPhases


\* The client's side: it books a win only from a packet that announces one.
SameClient(c, d) ==
    /\ d.session = c.session /\ d.preAccept \in {c.preAccept, NoPkt}
    /\ d.playerWon = c.playerWon

LEMMA SameClientBehind ==
    ASSUME NEW s, NEW c, NEW d, ClientBehind(s, c), SameClient(c, d)
    PROVE  ClientBehind(s, d)
BY DEF ClientBehind, SameClient

LEMMA SendActionSame ==
    ASSUME NEW c \in Clients, NEW net, NEW act
    PROVE  SameClient(c, SendActionV2(c, net, act).cli)
BY DEF SendActionV2, SameClient, Clients

LEMMA ApplyUpdateWins ==
    ASSUME NEW c \in Clients, NEW net, NEW m, NEW levelUp
    PROVE  LET d == ApplyUpdate(c, net, m, levelUp).cli
           IN  /\ d.session = c.session /\ d.preAccept = c.preAccept
               /\ d.playerWon => c.playerWon \/ m.result = "P2_WIN"
BY DEF ApplyUpdate, SendActionV2, Shown, ClientWins, Clients

LEMMA UpdateBehind ==
    ASSUME NEW c \in Clients, ClientBehind(srv, c), NEW net, NEW levelUp,
           NEW m \in UpdatePkts, m \in Reports(srv), m.sess = c.session
    PROVE  ClientBehind(srv, ApplyUpdate(c, net, m, levelUp).cli)
<1> DEFINE d == ApplyUpdate(c, net, m, levelUp).cli
<1>1. /\ d.session = c.session /\ d.preAccept = c.preAccept
      /\ d.playerWon => c.playerWon \/ m.result = "P2_WIN"
    BY ApplyUpdateWins
<1>2. m.type = "UPDATE"
    BY DEF UpdatePkts
<1> HIDE DEF d
<1>3. m.result = "P2_WIN" => Lost(c.session, srv)
    BY <1>2 DEF Reports
<1>4. ClientBehind(srv, d)
    BY <1>1, <1>3 DEF ClientBehind
<1> QED BY <1>4 DEF d

LEMMA ClientReceiveWin ==
    ASSUME TypeInv, WinInv, ClientReceive PROVE WinInv'
<1> USE DEF WinInv
<1>1. PICK i \in Deliverable(toCli) : ClientTakes(i)
    BY DEF ClientReceive
<1> DEFINE m == toCli[i]
<1>2. m \in Reports(srv) /\ RemoveAt(toCli, i) \in Seq(Reports(srv))
    BY DeliverableType
<1>3. /\ toCli' = RemoveAt(toCli, i) /\ UNCHANGED <<srv, eng>>
      /\ \/ m.type = "CHALLENGE" /\ OnChallenge(m)
         \/ m.type = "UPDATE" /\ OnUpdate(m)
         \/ m.type = "FULL_STATE" /\ OnFullState(m)
         \/ OnForfeit(m)
         \/ UNCHANGED cli
    BY <1>1 DEF ClientTakes, ServerUnchanged
<1> HIDE DEF m
<1>4. cli \in Clients
    BY DEF TypeInv, TypeOK
<1>5. ClientBehind(srv, cli')
    <2>1. CASE SameClient(cli, cli')
        BY <2>1, SameClientBehind
    <2>2. CASE m.type = "CHALLENGE" /\ OnChallenge(m)
        <3>1. CASE cli' = cli
            BY <3>1
        <3>2. CASE cli' = [cli EXCEPT !.mode = "NETWORKED",
                      !.phase = "WAIT_CHALLENGE_OVERLAY", !.session = m.sess,
                      !.lastApplied = 0, !.actionType = NoAct,
                      !.needsFullState = FALSE, !.preAccept = NoPkt,
                      !.playerWon = FALSE, !.xpDrops = 0]
            <4>1. /\ cli'.session = m.sess /\ cli'.preAccept = NoPkt
                  /\ cli'.playerWon = FALSE
                BY <1>4, <3>2 DEF Clients
            <4> QED BY <1>2, <4>1 DEF ClientBehind, Reports
        <3> QED BY <2>2, <3>1, <3>2 DEF OnChallenge
    <2>3. CASE m.type = "UPDATE" /\ OnUpdate(m)
        <3>1. m \in UpdatePkts
            BY <1>2, <2>3 DEF ServerPkts, Reports
        <3>2. CASE UNCHANGED cli
            BY <3>2
        <3>3. CASE cli' = [cli EXCEPT !.preAccept = m]
            <4>1. /\ cli'.session = cli.session /\ cli'.preAccept = m
                  /\ cli'.playerWon = cli.playerWon
                BY <1>4, <3>3 DEF Clients
            <4> QED BY <1>2, <4>1 DEF ClientBehind
        <3>4. CASE m.sess = cli.session
                   /\ \E levelUp \in {FALSE, LevelUps} :
                        cli' = ApplyUpdate(cli, toSrv, m, levelUp).cli
            BY <1>2, <1>4, <3>1, <3>4, UpdateBehind
        <3> QED BY <2>3, <3>2, <3>3, <3>4 DEF OnUpdate
    <2>4. CASE OnFullState(m) \/ OnForfeit(m) \/ UNCHANGED cli
        <3>1. SameClient(cli, cli')
            BY <1>4, <2>4 DEF OnFullState, OnForfeit, SameClient, Clients
        <3> QED BY <3>1, SameClientBehind
    <2> QED BY <1>3, <2>2, <2>3, <2>4
<1> QED BY <1>2, <1>3, <1>5

LEMMA ClientTickWin ==
    ASSUME TypeInv, WinInv, ClientTick PROVE WinInv'
<1>1. PICK first \in {"none", "accept", "request"},
           due \in BOOLEAN, silent \in BOOLEAN :
        ClientTickWhen(first, due, silent)
    BY DEF ClientTick
<1>2. cli \in Clients
    BY DEF TypeInv, TypeOK
<1>3. \E net : LET c == SendActionV2(cli, net, cli.actionType).cli
               IN  cli' \in {cli, [cli EXCEPT !.phase = "FINISHED"],
                             c, [c EXCEPT !.phase = "FINISHED"]}
    <2> DEFINE sent == IF ~cli.awaitingFirst \/ first = "none" THEN toSrv
                   ELSE IF Asks(first)
                   THEN Enqueue(toSrv, StateRequest(cli.session))
                   ELSE Enqueue(toSrv, Accept(cli.session, TRUE))
               c == SendActionV2(cli, sent, cli.actionType).cli
    <2>1. cli' \in {cli, [cli EXCEPT !.phase = "FINISHED"],
                    c, [c EXCEPT !.phase = "FINISHED"]}
        BY <1>1 DEF ClientTickWhen
    <2> HIDE DEF sent
    <2> QED BY <2>1
<1>4. SameClient(cli, cli')
    BY <1>2, <1>3 DEF SendActionV2, SameClient, Clients
<1>5. UNCHANGED <<srv, eng, toCli>>
    BY <1>1 DEF ClientTickWhen, ServerUnchanged
<1> QED BY <1>4, <1>5, SameClientBehind DEF WinInv

LEMMA ClientKeyWin ==
    ASSUME TypeInv, HistoryInv, WinInv, ClientKey PROVE WinInv'
<1>1. UNCHANGED <<srv, eng, toCli>>
    BY DEF ClientKey, ClientKeyFinished, ClientKeyYes, ClientKeyNo,
           ClientKeyFlee, ClientKeySwitchMenu, ClientKeyPick, ClientEvicted,
           ClientKeys, ServerUnchanged
<1>2. cli \in Clients /\ ClientBehind(srv, cli)
    BY DEF TypeInv, TypeOK, WinInv
<1>3. CASE ClientKeyYes /\ cli.preAccept # NoPkt
    <2> DEFINE m    == cli.preAccept
               sent == Enqueue(toSrv, Accept(cli.session, TRUE))
               c    == [cli EXCEPT !.phase = "WAIT_REMOTE", !.awaitingFirst = TRUE,
                                   !.alive = FullTeams, !.preAccept = NoPkt]
    <2>1. m \in UpdatePkts /\ m \in Reports(srv) /\ m.sess = cli.session
        BY <1>2, <1>3 DEF Clients, ClientBehind, HistoryInv, ClientKnown
    <2>2. c \in Clients /\ SameClient(cli, c)
        BY <1>2, TeamsType, NamesType DEF Clients, SameClient
    <2>3. \E levelUp \in {FALSE, LevelUps} :
            cli' = ApplyUpdate(c, sent, m, levelUp).cli
        BY <1>3 DEF ClientKeyYes
    <2> HIDE DEF c, sent, m
    <2>4. ClientBehind(srv, c) /\ c.session = cli.session
        BY <1>2, <2>2, SameClientBehind DEF SameClient
    <2>5. ClientBehind(srv, cli')
        BY <2>1, <2>2, <2>3, <2>4, UpdateBehind
    <2> QED BY <1>1, <2>5 DEF WinInv
<1>4. CASE ~(ClientKeyYes /\ cli.preAccept # NoPkt)
    <2>1. SameClient(cli, cli')
        <3>1. \A p \in Phases : SameClient(cli, [cli EXCEPT !.phase = p])
            BY <1>2 DEF SameClient, Clients
        <3>2. \A act, p : SameClient(cli, [SendActionV2(cli, toSrv, act).cli
                                             EXCEPT !.phase = p])
            BY <1>2 DEF SendActionV2, SameClient, Clients
        <3>3. SameClient(cli, ClientExited(cli))
            BY <1>2 DEF ClientExited, SameClient, Clients
        <3>4. CASE ClientKeyYes
            BY <1>2, <1>4, <3>4 DEF ClientKeyYes, SameClient, Clients
        <3>5. CASE ClientKeyNo
            BY <1>2, <3>5 DEF ClientKeyNo, SameClient, Clients
        <3>6. CASE ClientKeyFlee \/ ClientKeySwitchMenu
            BY <3>1, <3>2, <3>6, NamesType DEF ClientKeyFlee, ClientKeySwitchMenu
        <3>7. CASE ClientKeyPick
            BY <3>2, <3>7 DEF ClientKeyPick
        <3> QED BY <1>4, <3>3, <3>4, <3>5, <3>6, <3>7
                DEF ClientKey, ClientKeyFinished, ClientEvicted
    <2> QED BY <1>1, <1>2, <2>1, SameClientBehind DEF WinInv
<1> QED BY <1>3, <1>4

LEMMA WinInit == Init => WinInv
<1> SUFFICES ASSUME Init PROVE WinInv
    OBVIOUS
<1>1. toCli \in Seq(Reports(srv))
    BY DEF Init
<1>2. 0 <= 0
    OBVIOUS
<1> QED BY <1>1, <1>2 DEF Init, WinInv, Standing, BufferReports, ClientBehind

\* A step of the server keeps what the client was told true.
LEMMA ServerMoveWin ==
    ASSUME TypeInv, WinInv, Moved(srv, srv', eng', toCli'), UNCHANGED cli
    PROVE  WinInv'
<1>1. srv \in Servers /\ srv' \in Servers /\ Onward(srv, srv') /\ cli \in Clients
    BY DEF TypeInv, TypeOK, Moved
<1>2. Reports(srv) \subseteq Reports(srv')
    BY <1>1, OnwardReports
<1>3. /\ cli.session \in 0 .. MaxSession /\ srv.session \in 0 .. MaxSession
      /\ srv'.session \in 0 .. MaxSession
    BY <1>1 DEF Clients, Servers
<1>4. cli.session <= srv'.session
    BY <1>1, <1>3, BoundAssumption DEF WinInv, ClientBehind, Onward
<1>5. ClientBehind(srv', cli)
    BY <1>1, <1>2, <1>3, <1>4 DEF WinInv, ClientBehind, Onward
<1> QED BY <1>5 DEF WinInv, Moved

LEMMA WinStep ==
    TerminalHeld /\ TypeInv /\ HistoryInv /\ WinInv /\ [Next]_vars => WinInv'
<1> SUFFICES ASSUME TerminalHeld, TypeInv, HistoryInv, WinInv, [Next]_vars
             PROVE  WinInv'
    OBVIOUS
<1>1. CASE SendChallenge
    <2>1. UNCHANGED cli
        BY <1>1 DEF SendChallenge
    <2> QED BY <1>1, <2>1, ChallengeMove, ServerMoveWin
<1>2. CASE ServerReceive
    <2>1. UNCHANGED cli
        BY <1>2 DEF ServerReceive, ServerTakes
    <2> QED BY <1>2, <2>1, ReceiveMove, ServerMoveWin
<1>3. CASE ServerTick
    <2>1. UNCHANGED cli
        BY <1>3 DEF ServerTick, ServerTickWhen
    <2> QED BY <1>3, <2>1, TickMove, ServerMoveWin
<1>4. CASE ServerKey
    <2>1. UNCHANGED cli
        BY <1>4 DEF ServerKey, ServerKeyFinished, ServerKeyEsc, ServerKeyFlee,
           ServerKeySwitchMenu, ServerKeyPick, ServerEvicted, ServerKeys
    <2> QED BY <1>4, <2>1, KeyMove, ServerMoveWin
<1>5. CASE ClientReceive
    BY <1>5, ClientReceiveWin
<1>6. CASE ClientTick
    BY <1>6, ClientTickWin
<1>7. CASE ClientKey
    BY <1>7, ClientKeyWin
<1>8. CASE Lose
    <2>1. UNCHANGED <<srv, eng, cli>> /\ toCli' \in Losses(toCli) \cup {toCli}
        BY <1>8 DEF Lose, ServerUnchanged
    <2>2. toCli' \in Seq(Reports(srv))
        BY <2>1, LossType DEF WinInv
    <2> QED BY <2>1, <2>2 DEF WinInv
<1>9. CASE UNCHANGED vars
    BY <1>9 DEF vars, WinInv
<1> QED BY <1>1, <1>2, <1>3, <1>4, <1>5, <1>6, <1>7, <1>8, <1>9 DEF Next

\* Never do both sides of one battle record a win (playerWon_), on any link, if
\* the server's keyboard is held until ACCEPT: a server that flees before it
\* tells the client it won, and then starts the battle on ACCEPT all the same.
THEOREM OneSideWins ==
    ASSUME TerminalHeld
    PROVE  Spec => []OneWinner
<1>1. Init => WinInv
    BY WinInit
<1>2. TypeInv /\ HistoryInv /\ WinInv /\ [Next]_vars => WinInv'
    BY WinStep
<1>3. TypeInv /\ WinInv => OneWinner
    <2> SUFFICES ASSUME TypeInv, WinInv PROVE OneWinner
        OBVIOUS
    <2>1. srv.session \in Nat
        BY SessionRange DEF TypeInv, TypeOK
    <2> QED BY <2>1 DEF WinInv, ClientBehind, Lost, OneWinner
<1> QED BY <1>1, <1>2, <1>3, TypeInvariant, HistoryInvariant, PTL DEF Spec

-----------------------------------------------------------------------------
(* Knock-outs.  On a direct link the boards of a battle arrive in the      *)
(* order the server built them, and it never revives its mons, so a board  *)
(* the client has still to see shows at most as many of them as the board  *)
(* it has seen.                                                            *)

Boards == {"UPDATE", "FULL_STATE"}
Fits(c, standing) == c.xpDrops + standing <= TeamSize

Falls(p, q) ==
    p.type \in Boards /\ q.type \in Boards /\ q.sess = p.sess
        => q.alive[0] <= p.alive[0]
Falling == {r \in ServerPkts \X ServerPkts : Falls(r[1], r[2])}
Followers(p) == {q \in ServerPkts : <<p, q>> \in Falling}

\* The boards the client c can take without booking a mon twice, and that the
\* server s with engine e can have built.
Fair(s, e, c) ==
    {p \in ServerPkts : p.type \in Boards =>
        /\ p.sess = c.session => Fits(c, p.alive[0])
        /\ p.sess = s.session => e.alive[0] <= p.alive[0]}

\* The link to the client, with the UPDATE it keeps at the Y/N prompt as the
\* packet before the first.
LinkFair(s, e, c, ch) ==
    /\ ch \in Seq(Fair(s, e, c)) /\ ch \in Seq(ServerPkts)
    /\ Chain(ch, Falling)
    /\ c.phase = "WAIT_CHALLENGE_OVERLAY" /\ c.preAccept # NoPkt
         => c.preAccept \in Fair(s, e, c) /\ ch \in Seq(Followers(c.preAccept))

ServerFair(s, e) ==
    /\ s.mode = "NETWORKED" /\ s.awaitingAccept => e.alive[0] = TeamSize
    /\ s.unackedUpdate => /\ s.lastUpdate.sess = s.session
                          /\ s.lastUpdate.alive[0] = e.alive[0]

ClientFair(s, e, c) ==
    /\ Fits(c, c.alive[0])
    /\ c.session = s.session => Fits(c, e.alive[0])
    /\ c.phase = "WAIT_CHALLENGE_OVERLAY" => c.xpDrops = 0

XpFair(s, e, c, ch) ==
    ServerFair(s, e) /\ ClientFair(s, e, c) /\ LinkFair(s, e, c, ch)

XpInv == XpFair(srv, eng, cli, toCli)

LEMMA StandingType ==
    /\ \A e \in Engines : e.alive[0] \in 0 .. TeamSize
    /\ \A c \in Clients : c.alive[0] \in 0 .. TeamSize /\ c.xpDrops \in Nat
    /\ \A p \in ServerPkts : p.type \in Boards => p.alive[0] \in 0 .. TeamSize
    /\ TeamSize \in Nat
<1>1. \A e \in Engines : e.alive[0] \in 0 .. TeamSize
    BY DEF Engines, Side
<1>2. \A c \in Clients : c.alive[0] \in 0 .. TeamSize /\ c.xpDrops \in Nat
    BY DEF Clients, Alive, Side
<1>3. \A p \in ServerPkts : p.type \in Boards => p.alive \in Alive
    BY DEF ServerPkts, UpdatePkts, Boards
<1>4. \A a \in Alive : a[0] \in 0 .. TeamSize
    BY DEF Alive, Side
<1> QED BY <1>1, <1>2, <1>3, <1>4, EngineAssumption

LEMMA FallingPairs ==
    \A p, q \in ServerPkts : <<p, q>> \in Falling <=> Falls(p, q)
BY DEF Falling

LEMMA FollowersDef ==
    \A p, q \in ServerPkts : q \in Followers(p) <=> Falls(p, q)
BY FallingPairs DEF Followers

\* A step of the server that builds no board and knocks nothing out.
LEMMA QuietFair ==
    ASSUME NEW s, NEW t, NEW e, NEW f, NEW c, NEW ch, XpFair(s, e, c, ch),
           t.session = s.session, f.alive = e.alive,
           t.mode = "NETWORKED" /\ t.awaitingAccept
             => s.mode = "NETWORKED" /\ s.awaitingAccept,
           t.unackedUpdate => s.unackedUpdate /\ t.lastUpdate = s.lastUpdate
    PROVE  XpFair(t, f, c, ch)
<1>1. Fair(t, f, c) = Fair(s, e, c)
    BY DEF Fair
<1> QED BY <1>1 DEF XpFair, ServerFair, ClientFair, LinkFair

\* The next packet of the server: no board, or a board of the open battle as
\* the engine stands.
LEMMA SendFair ==
    ASSUME NEW s, NEW e \in Engines, NEW c \in Clients, NEW ch,
           LinkFair(s, e, c, ch), ClientFair(s, e, c), NEW m \in ServerPkts,
           m.type \in Boards => m.sess = s.session /\ m.alive[0] = e.alive[0]
    PROVE  LinkFair(s, e, c, Enqueue(ch, m))
<1>1. m \in Fair(s, e, c)
    BY StandingType DEF Fair, ClientFair
<1>2. \A p \in Fair(s, e, c) : p \in ServerPkts /\ Falls(p, m)
    BY DEF Fair, Falls
<1>3. \A p \in Fair(s, e, c) : m \in Followers(p)
    BY <1>2, FollowersDef
<1>4. Chain(Enqueue(ch, m), Falling)
    <2>1. Fair(s, e, c) \subseteq {q \in ServerPkts : <<q, m>> \in Falling}
        BY <1>2, FallingPairs
    <2>2. ch \in Seq({q \in ServerPkts : <<q, m>> \in Falling})
        BY <2>1, SeqMonotonic DEF LinkFair
    <2> QED BY <2>2, ChainEnqueue DEF LinkFair
<1>5. /\ Enqueue(ch, m) \in Seq(Fair(s, e, c))
      /\ Enqueue(ch, m) \in Seq(ServerPkts)
    BY <1>1, EnqueueType DEF LinkFair
<1>6. ASSUME c.phase = "WAIT_CHALLENGE_OVERLAY", c.preAccept # NoPkt
      PROVE  /\ c.preAccept \in Fair(s, e, c)
             /\ Enqueue(ch, m) \in Seq(Followers(c.preAccept))
    BY <1>3, <1>6, EnqueueType DEF LinkFair
<1> QED BY <1>4, <1>5, <1>6 DEF LinkFair

\* Knock-outs of the server's mons leave every older board above the engine.
LEMMA KnockOutFair ==
    ASSUME NEW s, NEW t, NEW e \in Engines, NEW f \in Engines, NEW c \in Clients,
           NEW ch, LinkFair(s, e, c, ch), ClientFair(s, e, c),
           t.session = s.session, f.alive[0] <= e.alive[0]
    PROVE  LinkFair(t, f, c, ch) /\ ClientFair(t, f, c)
<1>1. Fair(s, e, c) \subseteq Fair(t, f, c)
    BY StandingType DEF Fair
<1>2. ch \in Seq(Fair(t, f, c))
    BY <1>1, SeqMonotonic DEF LinkFair
<1>3. ClientFair(t, f, c)
    BY StandingType DEF ClientFair, Fits
<1> QED BY <1>1, <1>2, <1>3 DEF LinkFair

\* serverAuthSendUpdate()
LEMMA SendUpdateFair ==
    ASSUME NEW s, NEW d \in Servers, d.session \in Sessions, d.session = s.session,
           NEW e \in Engines, NEW f \in Engines, NEW c \in Clients,
           NEW ch \in Seq(ServerPkts), LinkFair(s, e, c, ch), ClientFair(s, e, c),
           f.alive[0] <= e.alive[0],
           d.mode = "NETWORKED" /\ d.awaitingAccept => f.alive[0] = TeamSize
    PROVE  XpFair(SendUpdate(d, f, ch).srv, f, c, SendUpdate(d, f, ch).net)
<1> DEFINE t   == SendUpdate(d, f, ch).srv
           upd == t.lastUpdate
<1>1. GoodServer(t)
    BY SendUpdateType
<1>2. SameStanding(d, t) /\ t.unackedUpdate
    BY DEF SendUpdate, SameStanding, Servers
<1>3. /\ upd = Update(d.session, Wire(d.updateSeq + 1), f, d.peerReady)
      /\ SendUpdate(d, f, ch).net = Enqueue(ch, upd)
    BY DEF SendUpdate, Servers
<1> HIDE DEF t
<1>4. upd \in ServerPkts
    BY <1>1, <1>2 DEF GoodServer, ServerBuffer, ServerPkts
<1>5. upd.sess = t.session /\ upd.alive = f.alive
    BY <1>2, <1>3 DEF Update, SameStanding
<1>6. LinkFair(t, f, c, ch) /\ ClientFair(t, f, c)
    BY <1>2, KnockOutFair DEF SameStanding
<1>7. LinkFair(t, f, c, Enqueue(ch, upd))
    BY <1>4, <1>5, <1>6, SendFair
<1>8. ServerFair(t, f)
    BY <1>2, <1>5 DEF ServerFair, SameStanding
<1> QED BY <1>3, <1>6, <1>7, <1>8 DEF XpFair, t

\* dropPendingSends()
LEMMA DropFair ==
    ASSUME NEW s, NEW e, NEW c, NEW ch, LinkFair(s, e, c, ch),
           NEW kept \in DropPendingSends(ch)
    PROVE  LinkFair(s, e, c, kept)
BY DropType, ChainDrop DEF LinkFair


\* What a step of the server establishes, the client standing still.
Fairly == XpFair(srv', eng', cli, toCli')

LEMMA ChallengeFair ==
    ASSUME TypeInv, WinInv, XpInv, SendChallenge PROVE Fairly
<1>1. /\ srv \in Servers /\ cli \in Clients /\ toCli \in Seq(ServerPkts)
      /\ srv' \in Servers /\ srv'.session \in Sessions
    <2>1. TypeInv'
        BY SendChallengeType
    <2>2. srv'.mode = "NETWORKED"
        BY DEF SendChallenge, TypeInv, TypeOK, Servers
    <2> QED BY <2>1, <2>2 DEF TypeInv, TypeOK, ServerOn
<1>2. srv'.session = srv.session + 1 /\ ~srv'.unackedUpdate
    BY <1>1 DEF SendChallenge, Servers
<1>3. eng'.alive[0] = TeamSize
    BY DEF SendChallenge, Start, FullTeams, Side
<1>4. srv.session \in Nat /\ cli.session \in Nat /\ cli.session <= srv.session
    BY <1>1, SessionRange DEF WinInv, ClientBehind, Clients
<1>5. Reports(srv) \cap Fair(srv, eng, cli) \subseteq Fair(srv', eng', cli)
    <2>1. \A p \in Reports(srv) : p.sess # srv'.session
        <3> SUFFICES ASSUME NEW p \in Reports(srv) PROVE p.sess # srv'.session
            OBVIOUS
        <3>1. p \in ServerPkts /\ p.sess <= srv.session
            BY DEF Reports
        <3>2. p.sess \in 0 .. MaxSession
            BY <3>1, SessionRange
        <3> QED BY <1>2, <1>4, <3>1, <3>2
    <2> QED BY <2>1 DEF Fair
<1>6. toCli \in Seq(Fair(srv', eng', cli))
    <2>1. toCli \in Seq(Reports(srv) \cap Fair(srv, eng, cli))
        BY SeqBoth DEF WinInv, XpInv, XpFair, LinkFair
    <2> QED BY <1>5, <2>1, SeqMonotonic
<1>7. ClientFair(srv', eng', cli)
    BY <1>2, <1>4 DEF ClientFair, XpInv, XpFair
<1>8. LinkFair(srv', eng', cli, toCli)
    BY <1>5, <1>6 DEF LinkFair, XpInv, XpFair, WinInv, ClientBehind
<1>9. Challenge(srv'.session) \in ServerPkts /\ Challenge(srv'.session).type \notin Boards
    BY <1>1 DEF Challenge, ServerPkts, Boards
<1>10. toCli' = Enqueue(toCli, Challenge(srv'.session))
    BY <1>2 DEF SendChallenge
<1>11. eng' \in Engines
    BY SendChallengeType DEF TypeInv, TypeOK
<1>12. LinkFair(srv', eng', cli, toCli')
    BY <1>1, <1>7, <1>8, <1>9, <1>10, <1>11, SendFair
<1> QED BY <1>2, <1>3, <1>7, <1>12 DEF Fairly, XpFair, ServerFair

LEMMA AcceptFair ==
    ASSUME TypeInv, XpInv, srv.mode # "OFF", NEW m, OnAccept(m)
    PROVE  Fairly
<1>1. /\ srv \in Servers /\ srv.session \in Sessions /\ srv.mode = "NETWORKED"
      /\ toCli \in Seq(ServerPkts) /\ eng \in Engines /\ cli \in Clients
    BY DEF TypeInv, TypeOK, ServerOn, Servers, Modes
<1>2. CASE UNCHANGED <<srv, eng, toCli>>
    BY <1>2 DEF XpInv, Fairly
<1>3. CASE /\ srv' = [srv EXCEPT !.phase = "FINISHED", !.awaitingAccept = FALSE]
           /\ UNCHANGED <<eng, toCli>>
    <2>1. /\ srv'.session = srv.session /\ ~srv'.awaitingAccept
          /\ srv'.unackedUpdate = srv.unackedUpdate
          /\ srv'.lastUpdate = srv.lastUpdate
        BY <1>1, <1>3 DEF Servers
    <2> QED BY <1>3, <2>1, QuietFair DEF XpInv, Fairly
<1>4. CASE /\ srv.awaitingAccept /\ eng' = Start(FullTeams)
           /\ \E kept \in DropPendingSends(toCli) :
                LET s == [srv EXCEPT !.awaitingAccept = FALSE,
                           !.peerReady = TRUE,
                           !.pendingRemoteAction = FALSE,
                           !.phase = "WAIT_ACTION"]
                    r == SendUpdate(s, Start(FullTeams), kept)
                IN  srv' = r.srv /\ toCli' = r.net
    <2> DEFINE e == Start(FullTeams)
               d == [srv EXCEPT !.awaitingAccept = FALSE,
                       !.peerReady = TRUE,
                       !.pendingRemoteAction = FALSE,
                       !.phase = "WAIT_ACTION"]
    <2>1. PICK kept \in DropPendingSends(toCli) :
            srv' = SendUpdate(d, e, kept).srv /\ toCli' = SendUpdate(d, e, kept).net
        BY <1>4
    <2>2. kept \in Seq(ServerPkts) /\ LinkFair(srv, eng, cli, kept)
        BY <1>1, DropType, DropFair DEF XpInv, XpFair
    <2>3. d \in Servers /\ d.session = srv.session /\ ~d.awaitingAccept
        BY <1>1, NamesType DEF Servers
    <2>4. e \in Engines
        BY TeamsType, StartType
    <2>5. e.alive[0] = TeamSize
        BY DEF Start, FullTeams, Side
    <2>6. e.alive[0] <= eng.alive[0]
        BY <1>1, <1>4, <2>5, StandingType DEF XpInv, XpFair, ServerFair
    <2>7. eng' = e
        BY <1>4
    <2> HIDE DEF d, e
    <2> QED BY <1>1, <2>1, <2>2, <2>3, <2>4, <2>6, <2>7, SendUpdateFair
            DEF XpInv, XpFair, Fairly
<1> QED BY <1>2, <1>3, <1>4 DEF OnAccept

LEMMA EngineStanding ==
    /\ \A e \in Engines, side \in Side : Forfeit(e, side).alive = e.alive
    /\ \A e \in Engines, side \in Side, mv \in Moves :
          Submit(e, side, mv).alive = e.alive
    /\ \A e \in Engines : \A f \in ExecuteTurn(e) : f.alive[0] <= e.alive[0]
<1>1. \A e \in Engines, side \in Side : Forfeit(e, side).alive = e.alive
    BY DEF Forfeit, Engines
<1>2. \A e \in Engines, side \in Side, mv \in Moves :
          Submit(e, side, mv).alive = e.alive
    BY DEF Submit, Engines
<1>3. ASSUME NEW e \in Engines, NEW f \in ExecuteTurn(e)
      PROVE  f.alive[0] <= e.alive[0]
    <2>1. e.alive[0] \in Nat
        BY StandingType
    <2>2. CASE f = e
        BY <2>1, <2>2
    <2>3. CASE \E a \in Survivors(e.alive) : f.alive = a
        <3>1. PICK a \in Survivors(e.alive) : f.alive = a
            BY <2>3
        <3>2. a[0] \in Nat /\ (a[0] = e.alive[0] \/ a[0] + 1 = e.alive[0])
            BY EngineAssumption DEF Survivors, Side
        <3> QED BY <2>1, <3>1, <3>2
    <2>4. f = e \/ \E a \in Survivors(e.alive) : f.alive = a
        BY DEF ExecuteTurn
    <2> QED BY <2>2, <2>3, <2>4
<1> QED BY <1>1, <1>2, <1>3

LEMMA ActionFair ==
    ASSUME TypeInv, XpInv, srv.mode # "OFF", NEW m \in ClientPkts,
           m.type = "ACTION_V2", OnActionV2(m)
    PROVE  Fairly
<1> DEFINE s == Acknowledged(srv, m)
<1>1. /\ srv \in Servers /\ srv.session \in Sessions /\ srv.mode = "NETWORKED"
      /\ toCli \in Seq(ServerPkts) /\ eng \in Engines /\ cli \in Clients
    BY DEF TypeInv, TypeOK, ServerOn, Servers, Modes
<1>2. /\ s \in Servers /\ SameStanding(srv, s)
      /\ s.unackedUpdate => srv.unackedUpdate
      /\ s.lastUpdate = srv.lastUpdate
    BY <1>1 DEF Acknowledged, SameStanding, Servers
<1>3. m.act \in Moves \cup {Flee, PureAck}
    BY DEF ClientPkts
<1>4. \/ UNCHANGED <<srv, eng, toCli>>
      \/ srv' = s /\ UNCHANGED <<eng, toCli>>
      \/ /\ eng' = Forfeit(eng, 1)
         /\ LET r == SendUpdate([s EXCEPT !.phase = "FINISHED"],
                                Forfeit(eng, 1), toCli)
            IN  srv' = r.srv /\ toCli' = r.net
      \/ /\ m.act \in Moves /\ eng' = Submit(eng, 1, m.act)
         /\ srv' = [s EXCEPT !.pendingRemoteAction = TRUE]
         /\ UNCHANGED toCli
    BY <1>3 DEF OnActionV2, ActionCounts
<1> HIDE DEF s
<1>5. CASE UNCHANGED <<srv, eng, toCli>>
    BY <1>5 DEF XpInv, Fairly
<1>6. CASE srv' = s /\ UNCHANGED <<eng, toCli>>
    BY <1>2, <1>6, QuietFair DEF XpInv, Fairly, SameStanding
<1>7. CASE /\ eng' = Forfeit(eng, 1)
           /\ LET r == SendUpdate([s EXCEPT !.phase = "FINISHED"],
                                  Forfeit(eng, 1), toCli)
              IN  srv' = r.srv /\ toCli' = r.net
    <2> DEFINE d == [s EXCEPT !.phase = "FINISHED"]
               e == Forfeit(eng, 1)
    <2>1. /\ d \in Servers /\ d.session = srv.session
          /\ d.awaitingAccept = srv.awaitingAccept /\ d.mode = srv.mode
        BY <1>2, NamesType DEF Servers, SameStanding
    <2>2. e \in Engines /\ e.alive = eng.alive
        BY <1>1, ForfeitType, EngineStanding DEF Side
    <2>3. /\ eng' = e /\ srv' = SendUpdate(d, e, toCli).srv
          /\ toCli' = SendUpdate(d, e, toCli).net
        BY <1>7
    <2> HIDE DEF d, e
    <2>4. e.alive[0] <= eng.alive[0]
        BY <1>1, <2>2, StandingType
    <2>5. d.mode = "NETWORKED" /\ d.awaitingAccept => e.alive[0] = TeamSize
        BY <2>1, <2>2 DEF XpInv, XpFair, ServerFair
    <2> QED BY <1>1, <2>1, <2>2, <2>3, <2>4, <2>5, SendUpdateFair
            DEF XpInv, XpFair, Fairly
<1>8. CASE /\ m.act \in Moves /\ eng' = Submit(eng, 1, m.act)
           /\ srv' = [s EXCEPT !.pendingRemoteAction = TRUE]
           /\ UNCHANGED toCli
    <2>1. /\ srv'.session = srv.session /\ srv'.mode = srv.mode
          /\ srv'.awaitingAccept = srv.awaitingAccept
          /\ srv'.unackedUpdate => srv.unackedUpdate
          /\ srv'.lastUpdate = srv.lastUpdate
        BY <1>2, <1>8 DEF Servers, SameStanding
    <2>2. eng'.alive = eng.alive
        BY <1>1, <1>8, EngineStanding DEF Side
    <2>3. XpFair(srv', eng', cli, toCli)
        BY <2>1, <2>2, QuietFair DEF XpInv
    <2>4. toCli' = toCli
        BY <1>8
    <2> QED BY <2>3, <2>4 DEF Fairly
<1> QED BY <1>4, <1>5, <1>6, <1>7, <1>8

LEMMA ReceiveFair ==
    ASSUME TypeInv, XpInv, ServerReceive PROVE Fairly
<1>1. PICK i \in Deliverable(toSrv) : ServerTakes(i)
    BY DEF ServerReceive
<1> DEFINE m == toSrv[i]
<1>2. m \in ClientPkts
    BY DeliverableType DEF TypeInv, TypeOK
<1>3. \/ UNCHANGED <<srv, eng, toCli>>
      \/ srv.mode # "OFF" /\ OnAccept(m)
      \/ srv.mode # "OFF" /\ m.type = "ACTION_V2" /\ OnActionV2(m)
      \/ srv.mode # "OFF" /\ OnStateRequest(m)
    BY <1>1 DEF ServerTakes
<1> HIDE DEF m
<1>4. srv \in Servers /\ eng \in Engines /\ cli \in Clients
    BY DEF TypeInv, TypeOK
<1>5. CASE UNCHANGED <<srv, eng, toCli>>
    BY <1>5 DEF XpInv, Fairly
<1>6. CASE srv.mode # "OFF" /\ OnStateRequest(m)
    <2> DEFINE full == FullState(srv.session, srv.updateSeq, eng, srv.peerReady)
    <2>1. /\ srv.session \in Sessions /\ srv.updateSeq \in Byte
          /\ eng.alive \in Alive /\ srv.peerReady \in BOOLEAN
        BY <1>4, <1>6 DEF TypeInv, ServerOn, Servers, Modes, Engines, Alive
    <2>2. full \in ServerPkts /\ full.sess = srv.session /\ full.alive = eng.alive
        BY <2>1 DEF FullState, ServerPkts
    <2>3. UNCHANGED <<srv, eng>> /\ toCli' \in {toCli, Enqueue(toCli, full)}
        BY <1>6 DEF OnStateRequest
    <2> HIDE DEF full
    <2>4. LinkFair(srv, eng, cli, toCli) /\ ClientFair(srv, eng, cli)
        BY DEF XpInv, XpFair
    <2>5. LinkFair(srv, eng, cli, Enqueue(toCli, full))
        BY <1>4, <2>2, <2>4, SendFair
    <2> QED BY <2>3, <2>4, <2>5 DEF XpInv, XpFair, Fairly
<1> QED BY <1>2, <1>3, <1>5, <1>6, AcceptFair, ActionFair


\* resolveTurn(): knocks out mons, never while ACCEPT is outstanding.
LEMMA ResolveFair ==
    ASSUME NEW s \in Servers, s.mode = "NETWORKED", s.session \in Sessions,
           eng \in Engines, cli \in Clients, NEW ch \in Seq(ServerPkts),
           Standing(s, eng), XpFair(s, eng, cli, ch), ResolveTurn(s, ch)
    PROVE  Fairly
<1>1. PICK e \in ExecuteTurn(eng) :
        LET over == e.result # "ONGOING"
            u == SendUpdate(
                   [s EXCEPT
                      !.playerWon = @ \/ e.result = "P1_WIN",
                      !.pendingRemoteAction = over,
                      !.phase = IF over THEN "FINISHED" ELSE "WAIT_ACTION"],
                   e, ch)
        IN  eng' = e /\ srv' = u.srv /\ toCli' = u.net
    BY DEF ResolveTurn
<1> DEFINE over == e.result # "ONGOING"
           d == [s EXCEPT
                   !.playerWon = @ \/ e.result = "P1_WIN",
                   !.pendingRemoteAction = over,
                   !.phase = IF over THEN "FINISHED" ELSE "WAIT_ACTION"]
<1>2. e \in Engines /\ e.alive[0] <= eng.alive[0]
    BY ExecuteTurnType, EngineStanding
<1>3. /\ d \in Servers /\ d.session = s.session /\ d.mode = "NETWORKED"
      /\ d.awaitingAccept = s.awaitingAccept
    <2>1. (s.playerWon \/ e.result = "P1_WIN") \in BOOLEAN
        OBVIOUS
    <2>2. (IF over THEN "FINISHED" ELSE "WAIT_ACTION") \in Phases
        BY NamesType
    <2>3. over \in BOOLEAN
        OBVIOUS
    <2> HIDE DEF over
    <2> QED BY <2>1, <2>2, <2>3 DEF Servers
<1>4. eng' = e /\ srv' = SendUpdate(d, e, ch).srv /\ toCli' = SendUpdate(d, e, ch).net
    BY <1>1
<1> HIDE DEF d
<1>5. s.awaitingAccept => e.alive[0] = TeamSize
    <2>1. CASE s.awaitingAccept
        <3>1. eng.pend[0] = NoAct
            BY <2>1 DEF Standing
        <3>2. e = eng
            BY <3>1 DEF ExecuteTurn, Ready, Side
        <3> QED BY <2>1, <3>2 DEF XpFair, ServerFair
    <2> QED BY <2>1
<1> QED BY <1>2, <1>3, <1>4, <1>5, SendUpdateFair DEF XpFair, Fairly

LEMMA RetransmitFair ==
    ASSUME TypeInv, XpInv, srv.mode = "NETWORKED"
    PROVE  LET r == Retransmit(srv, toCli)
           IN  XpFair(r.srv, eng, cli, r.net)
<1> DEFINE r == Retransmit(srv, toCli)
<1>1. /\ srv \in Servers /\ eng \in Engines /\ cli \in Clients
      /\ srv.session \in Sessions
      /\ srv.unackedUpdate => srv.lastUpdate \in ServerPkts
    BY DEF TypeInv, TypeOK, ServerOn, ServerBuffer, ServerPkts
<1>2. /\ r.srv.unackedUpdate = srv.unackedUpdate
      /\ r.srv.lastUpdate = srv.lastUpdate
      /\ r.srv.session = srv.session /\ r.srv.mode = srv.mode
      /\ r.srv.awaitingAccept => srv.awaitingAccept
    BY <1>1 DEF Retransmit, OutOfTries, Servers
<1>3. LinkFair(srv, eng, cli, r.net)
    <2>1. Challenge(srv.session) \in ServerPkts /\ Challenge(srv.session).type \notin Boards
        BY <1>1 DEF Challenge, ServerPkts, Boards
    <2>2. \/ r.net = toCli
          \/ r.net = Enqueue(toCli, Challenge(srv.session))
          \/ srv.unackedUpdate /\ r.net = Enqueue(toCli, srv.lastUpdate)
        BY DEF Retransmit
    <2>3. ServerFair(srv, eng) /\ LinkFair(srv, eng, cli, toCli) /\ ClientFair(srv, eng, cli)
        BY DEF XpInv, XpFair
    <2>4. LinkFair(srv, eng, cli, Enqueue(toCli, Challenge(srv.session)))
        BY <1>1, <2>1, <2>3, SendFair
    <2>5. srv.unackedUpdate => LinkFair(srv, eng, cli, Enqueue(toCli, srv.lastUpdate))
        BY <1>1, <2>3, SendFair DEF ServerFair
    <2> HIDE DEF r
    <2> QED BY <2>2, <2>3, <2>4, <2>5
<1> HIDE DEF r
<1>4. XpFair(srv, eng, cli, r.net)
    BY <1>3 DEF XpInv, XpFair
<1>5. XpFair(r.srv, eng, cli, r.net)
    BY <1>2, <1>4, QuietFair
<1> QED BY <1>5 DEF r

LEMMA TickFair ==
    ASSUME TypeInv, WinInv, XpInv, ServerTick PROVE Fairly
<1>1. PICK due \in BOOLEAN, held \in BOOLEAN, silent \in BOOLEAN :
        ServerTickWhen(due, held, silent)
    BY DEF ServerTick, TypeInv, TypeOK, Servers
<1> DEFINE r == IF due THEN Retransmit(srv, toCli)
                       ELSE [srv |-> srv, net |-> toCli]
           s == r.srv
<1>2. /\ srv \in Servers /\ eng \in Engines /\ cli \in Clients
      /\ srv.mode = "NETWORKED" /\ srv.session \in Sessions
      /\ toCli \in Seq(ServerPkts)
    BY <1>1 DEF ServerTickWhen, TypeInv, TypeOK, ServerOn
<1>3. /\ s \in Servers /\ s.mode = "NETWORKED" /\ s.session = srv.session
      /\ Standing(s, eng) /\ r.net \in Seq(ServerPkts)
      /\ XpFair(s, eng, cli, r.net)
    <2>1. CASE due
        <3>1. Moved(srv, Retransmit(srv, toCli).srv, eng, Retransmit(srv, toCli).net)
              /\ Retransmit(srv, toCli).net \in Seq(ServerPkts)
            BY <1>2, RetransmitMove
        <3>2. XpFair(Retransmit(srv, toCli).srv, eng, cli, Retransmit(srv, toCli).net)
            BY <1>2, RetransmitFair
        <3>3. /\ Retransmit(srv, toCli).srv.mode = srv.mode
              /\ Retransmit(srv, toCli).srv.session = srv.session
            BY <1>2, RetransmitKeeps
        <3> QED BY <1>2, <2>1, <3>1, <3>2, <3>3 DEF Moved
    <2>2. CASE ~due
        BY <1>2, <2>2 DEF XpInv, WinInv
    <2> QED BY <2>1, <2>2
<1>4. \/ srv' = ServerExited(s) /\ toCli' = r.net /\ UNCHANGED eng
      \/ /\ eng' = IF eng.result = "ONGOING" THEN Forfeit(eng, 1) ELSE eng
         /\ srv' = [s EXCEPT !.phase = "FINISHED"]
         /\ toCli' = r.net
      \/ ResolveTurn(s, r.net)
      \/ srv' = s /\ toCli' = r.net /\ UNCHANGED eng
    BY <1>1 DEF ServerTickWhen
<1> HIDE DEF r, s
<1>6. CASE srv' = ServerExited(s) /\ toCli' = r.net /\ UNCHANGED eng
    <2>1. /\ srv'.session = s.session /\ ~srv'.awaitingAccept
          /\ ~srv'.unackedUpdate
        BY <1>3, <1>6 DEF ServerExited, Servers
    <2>2. XpFair(srv', eng, cli, r.net)
        BY <1>3, <2>1, QuietFair
    <2> QED BY <1>6, <2>2 DEF Fairly
<1>7. CASE /\ eng' = IF eng.result = "ONGOING" THEN Forfeit(eng, 1) ELSE eng
           /\ srv' = [s EXCEPT !.phase = "FINISHED"]
           /\ toCli' = r.net
    <2>1. /\ srv'.session = s.session /\ srv'.mode = s.mode
          /\ srv'.awaitingAccept = s.awaitingAccept
          /\ srv'.unackedUpdate = s.unackedUpdate
          /\ srv'.lastUpdate = s.lastUpdate
        BY <1>3, <1>7 DEF Servers
    <2>2. eng'.alive = eng.alive
        BY <1>2, <1>7, EngineStanding DEF Side
    <2>3. XpFair(srv', eng', cli, r.net)
        BY <1>3, <2>1, <2>2, QuietFair
    <2> QED BY <1>7, <2>3 DEF Fairly
<1>8. CASE ResolveTurn(s, r.net)
    BY <1>2, <1>3, <1>8, ResolveFair
<1>9. CASE srv' = s /\ toCli' = r.net /\ UNCHANGED eng
    BY <1>3, <1>9 DEF Fairly
<1> QED BY <1>4, <1>6, <1>7, <1>8, <1>9

LEMMA KeyFair ==
    ASSUME TypeInv, XpInv, ServerKey PROVE Fairly
<1>1. /\ srv \in Servers /\ eng \in Engines /\ cli \in Clients
      /\ toCli \in Seq(ServerPkts)
      /\ srv.mode = "NETWORKED" /\ srv.session \in Sessions
    BY DEF TypeInv, TypeOK, ServerOn,
           ServerKey, ServerKeyFinished, ServerKeyEsc, ServerKeyFlee,
           ServerKeySwitchMenu, ServerKeyPick, ServerEvicted, ServerHasKeys
<1>2. Forfeit(eng, 0) \in Engines /\ Forfeit(eng, 0).alive = eng.alive
    BY <1>1, ForfeitType, EngineStanding DEF Side
<1>3. \A mv \in Moves : Submit(eng, 0, mv).alive = eng.alive
    BY <1>1, EngineStanding DEF Side
<1>4. CASE ServerKeyEsc
    <2> DEFINE d == [srv EXCEPT !.phase = "FINISHED"]
               e == Forfeit(eng, 0)
    <2>1. /\ d \in Servers /\ d.session = srv.session
          /\ d.awaitingAccept = srv.awaitingAccept /\ d.mode = srv.mode
        BY <1>1, NamesType DEF Servers
    <2>2. /\ eng' = e /\ srv' = SendUpdate(d, e, toCli).srv
          /\ toCli' = SendUpdate(d, e, toCli).net
        BY <1>4 DEF ServerKeyEsc
    <2>3. e \in Engines /\ e.alive = eng.alive
        BY <1>2
    <2> HIDE DEF d, e
    <2>4. e.alive[0] <= eng.alive[0]
        BY <1>1, <2>3, StandingType
    <2>5. d.mode = "NETWORKED" /\ d.awaitingAccept => e.alive[0] = TeamSize
        BY <2>1, <2>3 DEF XpInv, XpFair, ServerFair
    <2> QED BY <1>1, <2>1, <2>2, <2>3, <2>4, <2>5, SendUpdateFair
            DEF XpInv, XpFair, Fairly
<1>5. CASE ~ServerKeyEsc
    <2>1. /\ srv'.session = srv.session
          /\ srv'.mode = "NETWORKED" /\ srv'.awaitingAccept => srv.awaitingAccept
          /\ srv'.unackedUpdate => srv.unackedUpdate /\ srv'.lastUpdate = srv.lastUpdate
        BY <1>1, <1>5 DEF ServerKey, ServerKeyFinished, ServerKeyFlee,
            ServerKeySwitchMenu, ServerKeyPick, ServerEvicted, ServerExited, Servers
    <2>2. eng'.alive = eng.alive
        BY <1>2, <1>3, <1>5 DEF ServerKey, ServerKeyFinished, ServerKeyFlee,
            ServerKeySwitchMenu, ServerKeyPick, ServerEvicted
    <2>3. toCli' = toCli \/ toCli' = Enqueue(toCli, ForfeitPkt(srv.session))
        BY <1>5 DEF ServerKey, ServerKeyFinished, ServerKeyFlee,
            ServerKeySwitchMenu, ServerKeyPick, ServerEvicted
    <2>4. ForfeitPkt(srv.session) \in ServerPkts /\ ForfeitPkt(srv.session).type \notin Boards
        BY <1>1 DEF ForfeitPkt, ServerPkts, Boards
    <2>5. LinkFair(srv, eng, cli, toCli')
        <3>1. LinkFair(srv, eng, cli, toCli) /\ ClientFair(srv, eng, cli)
            BY DEF XpInv, XpFair
        <3>2. LinkFair(srv, eng, cli, Enqueue(toCli, ForfeitPkt(srv.session)))
            BY <1>1, <2>4, <3>1, SendFair
        <3> QED BY <2>3, <3>1, <3>2
    <2>6. XpFair(srv, eng, cli, toCli')
        BY <2>5 DEF XpInv, XpFair
    <2>7. ASSUME NEW ch, XpFair(srv, eng, cli, ch)
          PROVE  XpFair(srv', eng', cli, ch)
        BY <1>1, <2>1, <2>2, <2>7, QuietFair
    <2> QED BY <2>6, <2>7 DEF Fairly
<1> QED BY <1>4, <1>5


\* The client's side of a step: d is c with its standing mons and its credit
\* as they were.
SameCredit(c, d) ==
    /\ d.session = c.session /\ d.xpDrops = c.xpDrops
    /\ d.alive[0] = c.alive[0]
    /\ d.phase = "WAIT_CHALLENGE_OVERLAY"
         => c.phase = "WAIT_CHALLENGE_OVERLAY" /\ d.preAccept = c.preAccept

LEMMA SameCreditFair ==
    ASSUME NEW s, NEW e, NEW c, NEW d, NEW ch, ClientFair(s, e, c),
           LinkFair(s, e, c, ch), SameCredit(c, d)
    PROVE  ClientFair(s, e, d) /\ LinkFair(s, e, d, ch)
<1>1. Fair(s, e, d) = Fair(s, e, c)
    BY DEF Fair, SameCredit, Fits
<1> QED BY <1>1 DEF ClientFair, LinkFair, SameCredit, Fits

\* c has taken the board of m, the packet before the first of ch: it books the
\* mons it sees fall, and what is behind m shows no more of them than m.
TakenBoard(c, d, m) ==
    /\ d.session = c.session /\ d.phase # "WAIT_CHALLENGE_OVERLAY"
    /\ d.alive[0] = m.alive[0]
    /\ d.xpDrops \in {c.xpDrops, c.xpDrops + KnockOuts(c.alive, m)}

LEMMA TakenBoardFair ==
    ASSUME NEW s, NEW e \in Engines, NEW c \in Clients, NEW d \in Clients,
           NEW ch \in Seq(ServerPkts), ch \in Seq(Fair(s, e, c)), Chain(ch, Falling),
           ClientFair(s, e, c), NEW m, m \in Fair(s, e, c), m.type \in Boards,
           m.sess = c.session, ch \in Seq(Followers(m)), TakenBoard(c, d, m)
    PROVE  ClientFair(s, e, d) /\ LinkFair(s, e, d, ch)
<1>1. /\ m \in ServerPkts /\ m.alive[0] \in 0 .. TeamSize
      /\ c.alive[0] \in 0 .. TeamSize /\ c.xpDrops \in Nat
      /\ e.alive[0] \in 0 .. TeamSize /\ TeamSize \in Nat /\ d.xpDrops \in Nat
    BY StandingType DEF Fair
<1>2. Fits(c, m.alive[0]) /\ Fits(c, c.alive[0])
    BY DEF Fair, ClientFair
<1>3. Fits(d, m.alive[0])
    BY <1>1, <1>2 DEF TakenBoard, KnockOuts, Fits
<1>4. \A x \in Nat : x <= m.alive[0] => Fits(d, x)
    BY <1>1, <1>3 DEF Fits
<1>5. ClientFair(s, e, d)
    <2>1. d.session = s.session => e.alive[0] <= m.alive[0]
        BY DEF Fair, TakenBoard
    <2>2. d.session = s.session => Fits(d, e.alive[0])
        BY <1>1, <1>4, <2>1
    <2> QED BY <1>3, <2>2 DEF ClientFair, TakenBoard
<1>6. Fair(s, e, c) \cap Followers(m) \subseteq Fair(s, e, d)
    <2> SUFFICES ASSUME NEW p \in Fair(s, e, c) \cap Followers(m)
                 PROVE  p \in Fair(s, e, d)
        OBVIOUS
    <2>1. p \in ServerPkts /\ Falls(m, p)
        BY <1>1, FollowersDef DEF Fair
    <2>2. p.type \in Boards /\ p.sess = d.session => Fits(d, p.alive[0])
        <3> SUFFICES ASSUME p.type \in Boards, p.sess = d.session
                     PROVE  Fits(d, p.alive[0])
            OBVIOUS
        <3>1. p.alive[0] <= m.alive[0]
            BY <2>1 DEF Falls, TakenBoard
        <3>2. p.alive[0] \in 0 .. TeamSize
            BY <2>1, StandingType
        <3> QED BY <1>4, <3>1, <3>2
    <2> QED BY <2>1, <2>2 DEF Fair
<1>7. ch \in Seq(Fair(s, e, d))
    <2>1. ch \in Seq(Fair(s, e, c) \cap Followers(m))
        BY SeqBoth
    <2> QED BY <1>6, <2>1, SeqMonotonic
<1> QED BY <1>5, <1>7 DEF LinkFair, TakenBoard

\* clientAuthOnUpdatePkt(): a repeat changes no credit, any other board is
\* taken.
LEMMA ApplyUpdateCredit ==
    ASSUME NEW c \in Clients, c.phase # "WAIT_CHALLENGE_OVERLAY",
           NEW net, NEW m \in UpdatePkts, NEW levelUp
    PROVE  LET d == ApplyUpdate(c, net, m, levelUp).cli
           IN  SameCredit(c, d) \/ TakenBoard(c, d, m)
<1> DEFINE d == ApplyUpdate(c, net, m, levelUp).cli
<1>1. Overlay(c.alive, m)[0] = m.alive[0]
    BY DEF Overlay, Clients, Alive, Side
<1>2. /\ Shown(c, m).session = c.session /\ Shown(c, m).phase = c.phase
      /\ Shown(c, m).alive[0] = m.alive[0]
      /\ Shown(c, m).xpDrops = c.xpDrops + KnockOuts(c.alive, m)
      /\ DOMAIN Shown(c, m) = DOMAIN c
    BY <1>1 DEF Shown, Clients
<1>3. CASE m.seq = c.lastApplied /\ c.lastApplied # 0
    <2>1. SameCredit(c, d)
        BY <1>3 DEF ApplyUpdate, SendActionV2, SameCredit, Clients
    <2> QED BY <2>1
<1>4. CASE ~(m.seq = c.lastApplied /\ c.lastApplied # 0)
    <2>1. /\ d.session = Shown(c, m).session /\ d.alive = Shown(c, m).alive
          /\ d.xpDrops = Shown(c, m).xpDrops
          /\ d.phase \in {c.phase, "FINISHED", "WAIT_ACTION"}
        BY <1>2, <1>4 DEF ApplyUpdate, SendActionV2, Shown, Clients
    <2>2. TakenBoard(c, d, m)
        BY <1>2, <2>1 DEF TakenBoard
    <2> QED BY <2>2
<1> QED BY <1>3, <1>4

LEMMA UpdateFair ==
    ASSUME NEW s, NEW e \in Engines, NEW c, GoodClient(c), c.mode = "NETWORKED",
           c.phase # "WAIT_CHALLENGE_OVERLAY", NEW net \in Seq(ClientPkts), NEW levelUp,
           NEW ch \in Seq(ServerPkts), ch \in Seq(Fair(s, e, c)), Chain(ch, Falling),
           ClientFair(s, e, c), NEW m \in UpdatePkts, m \in Fair(s, e, c),
           m.sess = c.session, ch \in Seq(Followers(m))
    PROVE  LET d == ApplyUpdate(c, net, m, levelUp).cli
           IN  ClientFair(s, e, d) /\ LinkFair(s, e, d, ch)
<1> DEFINE d == ApplyUpdate(c, net, m, levelUp).cli
<1>1. c \in Clients /\ d \in Clients
    BY ApplyUpdateType DEF GoodClient
<1>2. SameCredit(c, d) \/ TakenBoard(c, d, m)
    BY <1>1, ApplyUpdateCredit
<1>3. m.type \in Boards
    BY DEF UpdatePkts, Boards
<1> HIDE DEF d
<1>4. LinkFair(s, e, c, ch)
    BY DEF LinkFair
<1>5. ClientFair(s, e, d) /\ LinkFair(s, e, d, ch)
    BY <1>1, <1>2, <1>3, <1>4, SameCreditFair, TakenBoardFair
<1> QED BY <1>5 DEF d


LEMMA ClientReceiveFair ==
    ASSUME ~Reorder, TypeInv, WinInv, XpInv, ClientReceive PROVE XpInv'
<1>1. PICK i \in Deliverable(toCli) : ClientTakes(i)
    BY DEF ClientReceive
<1>2. i = 1 /\ 1 \in DOMAIN toCli
    BY DEF Deliverable
<1> DEFINE m    == toCli[1]
           rest == RemoveAt(toCli, 1)
<1>3. /\ toCli \in Seq(ServerPkts) /\ toCli \in Seq(Fair(srv, eng, cli))
      /\ Chain(toCli, Falling) /\ toCli \in Seq(Reports(srv))
      /\ ServerFair(srv, eng) /\ ClientFair(srv, eng, cli)
    BY DEF WinInv, XpInv, XpFair, LinkFair
<1>4. /\ m \in ServerPkts /\ m \in Fair(srv, eng, cli) /\ m \in Reports(srv)
      /\ rest \in Seq(ServerPkts) /\ rest \in Seq(Fair(srv, eng, cli))
      /\ rest \in Seq(Reports(srv))
    BY <1>2, <1>3, ElementOfSeq, LenProperties, RemoveAtType
<1>5. Chain(rest, Falling) /\ rest \in Seq(Followers(m))
    BY <1>2, <1>3, ChainRemove, ChainHead DEF Followers
<1>6. ASSUME cli.phase = "WAIT_CHALLENGE_OVERLAY", cli.preAccept # NoPkt
      PROVE  /\ cli.preAccept \in Fair(srv, eng, cli)
             /\ rest \in Seq(Followers(cli.preAccept))
    BY <1>2, <1>6, RemoveAtType DEF XpInv, XpFair, LinkFair
<1>7. LinkFair(srv, eng, cli, rest)
    BY <1>4, <1>5, <1>6 DEF LinkFair
<1>8. /\ toCli' = rest /\ UNCHANGED <<srv, eng>>
      /\ \/ m.type = "CHALLENGE" /\ OnChallenge(m)
         \/ cli.mode # "OFF" /\ m.type = "UPDATE" /\ OnUpdate(m)
         \/ cli.mode # "OFF" /\ m.type = "FULL_STATE" /\ OnFullState(m)
         \/ OnForfeit(m)
         \/ UNCHANGED cli
    BY <1>1, <1>2 DEF ClientTakes, ServerUnchanged
<1> HIDE DEF m, rest
<1>9. /\ cli \in Clients /\ GoodClient(cli) /\ eng \in Engines /\ srv \in Servers
      /\ cli' \in Clients /\ toSrv \in Seq(ClientPkts)
      /\ (cli.mode # "OFF" => cli.mode = "NETWORKED")
    BY ClientReceiveType DEF TypeInv, TypeOK, GoodClient, Clients, Modes
<1>10. ClientFair(srv, eng, cli') /\ LinkFair(srv, eng, cli', rest)
    <2>1. CASE SameCredit(cli, cli')
        BY <1>3, <1>7, <2>1, SameCreditFair
    <2>2. CASE TakenBoard(cli, cli', m) /\ m.sess = cli.session /\ m.type \in Boards
        BY <1>3, <1>4, <1>5, <1>9, <2>2, TakenBoardFair
    <2>3. CASE UNCHANGED cli
        BY <1>3, <1>7, <2>3
    <2>4. CASE m.type = "CHALLENGE" /\ OnChallenge(m)
        <3>1. CASE cli' = [cli EXCEPT !.mode = "NETWORKED",
                      !.phase = "WAIT_CHALLENGE_OVERLAY", !.session = m.sess,
                      !.lastApplied = 0, !.actionType = NoAct,
                      !.needsFullState = FALSE, !.preAccept = NoPkt,
                      !.playerWon = FALSE, !.xpDrops = 0]
            <4>1. /\ cli'.session = m.sess /\ cli'.preAccept = NoPkt
                  /\ cli'.xpDrops = 0
                BY <1>9, <3>1 DEF Clients
            <4>2. \A x \in 0 .. TeamSize : Fits(cli', x)
                BY <4>1, EngineAssumption DEF Fits
            <4>3. \A p \in Fair(srv, eng, cli) : p \in Fair(srv, eng, cli')
                BY <4>2, StandingType DEF Fair
            <4>4. rest \in Seq(Fair(srv, eng, cli'))
                BY <1>4, <4>3, SeqMonotonic
            <4>5. cli'.alive[0] \in 0 .. TeamSize /\ eng.alive[0] \in 0 .. TeamSize
                BY <1>9, StandingType
            <4> QED BY <1>4, <1>5, <4>1, <4>2, <4>4, <4>5 DEF ClientFair, LinkFair
        <3> QED BY <2>3, <2>4, <3>1 DEF OnChallenge
    <2>5. CASE cli.mode # "OFF" /\ m.type = "UPDATE" /\ OnUpdate(m)
        <3>1. m \in UpdatePkts
            BY <1>4, <2>5 DEF ServerPkts
        <3>2. CASE /\ cli.phase = "WAIT_CHALLENGE_OVERLAY"
                   /\ cli' = [cli EXCEPT !.preAccept = m]
            <4>1. /\ cli'.session = cli.session /\ cli'.preAccept = m
                  /\ cli'.phase = cli.phase /\ cli'.alive = cli.alive
                  /\ cli'.xpDrops = cli.xpDrops
                BY <1>9, <3>2 DEF Clients
            <4>2. Fair(srv, eng, cli') = Fair(srv, eng, cli)
                BY <4>1 DEF Fair, Fits
            <4> QED BY <1>3, <1>4, <1>5, <4>1, <4>2 DEF ClientFair, LinkFair, Fits
        <3>3. CASE /\ cli.phase # "WAIT_CHALLENGE_OVERLAY" /\ m.sess = cli.session
                   /\ \E levelUp \in {FALSE, LevelUps} :
                        cli' = ApplyUpdate(cli, toSrv, m, levelUp).cli
            BY <1>3, <1>4, <1>5, <1>9, <2>5, <3>1, <3>3, UpdateFair
        <3> QED BY <2>3, <2>5, <3>2, <3>3 DEF OnUpdate
    <2>6. CASE cli.mode # "OFF" /\ m.type = "FULL_STATE" /\ OnFullState(m)
        <3>1. CASE m.sess = cli.session
            <4>1. Overlay(cli.alive, m)[0] = m.alive[0]
                BY <1>9 DEF Overlay, Clients, Alive, Side
            <4>2. TakenBoard(cli, cli', m)
                BY <1>9, <2>6, <3>1, <4>1 DEF OnFullState, TakenBoard, Clients
            <4> QED BY <2>2, <2>6, <3>1, <4>2 DEF Boards
        <3> QED BY <2>3, <2>6, <3>1 DEF OnFullState
    <2>7. CASE OnForfeit(m)
        <3>1. SameCredit(cli, cli')
            BY <1>9, <2>7 DEF OnForfeit, SameCredit, Clients
        <3> QED BY <2>1, <3>1
    <2> QED BY <1>8, <2>3, <2>4, <2>5, <2>6, <2>7
<1> QED BY <1>3, <1>8, <1>10 DEF XpInv, XpFair

LEMMA ClientTickFair ==
    ASSUME TypeInv, XpInv, ClientTick PROVE XpInv'
<1>1. PICK first \in {"none", "accept", "request"},
           due \in BOOLEAN, silent \in BOOLEAN :
        ClientTickWhen(first, due, silent)
    BY DEF ClientTick
<1>2. cli \in Clients
    BY DEF TypeInv, TypeOK
<1>3. \E net : LET c == SendActionV2(cli, net, cli.actionType).cli
               IN  cli' \in {cli, [cli EXCEPT !.phase = "FINISHED"],
                             c, [c EXCEPT !.phase = "FINISHED"]}
    <2> DEFINE sent == IF ~cli.awaitingFirst \/ first = "none" THEN toSrv
                   ELSE IF Asks(first)
                   THEN Enqueue(toSrv, StateRequest(cli.session))
                   ELSE Enqueue(toSrv, Accept(cli.session, TRUE))
               c == SendActionV2(cli, sent, cli.actionType).cli
    <2>1. cli' \in {cli, [cli EXCEPT !.phase = "FINISHED"],
                    c, [c EXCEPT !.phase = "FINISHED"]}
        BY <1>1 DEF ClientTickWhen
    <2> HIDE DEF sent
    <2> QED BY <2>1
<1>4. SameCredit(cli, cli')
    BY <1>2, <1>3 DEF SendActionV2, SameCredit, Clients
<1>5. UNCHANGED <<srv, eng, toCli>>
    BY <1>1 DEF ClientTickWhen, ServerUnchanged
<1>6. ClientFair(srv, eng, cli') /\ LinkFair(srv, eng, cli', toCli)
    BY <1>4, SameCreditFair DEF XpInv, XpFair
<1> QED BY <1>5, <1>6 DEF XpInv, XpFair

LEMMA ClientKeyFair ==
    ASSUME TypeInv, HistoryInv, XpInv, ClientKey PROVE XpInv'
<1>1. UNCHANGED <<srv, eng, toCli>>
    BY DEF ClientKey, ClientKeyFinished, ClientKeyYes, ClientKeyNo,
           ClientKeyFlee, ClientKeySwitchMenu, ClientKeyPick, ClientEvicted,
           ClientKeys, ServerUnchanged
<1>2. /\ cli \in Clients /\ GoodClient(cli) /\ eng \in Engines
      /\ toCli \in Seq(ServerPkts) /\ toSrv \in Seq(ClientPkts)
      /\ ServerFair(srv, eng) /\ ClientFair(srv, eng, cli)
      /\ LinkFair(srv, eng, cli, toCli)
    BY DEF TypeInv, TypeOK, GoodClient, XpInv, XpFair
<1>3. ClientFair(srv, eng, cli') /\ LinkFair(srv, eng, cli', toCli)
    <2>1. CASE ClientKeyYes
        <3> DEFINE m    == cli.preAccept
                   sent == Enqueue(toSrv, Accept(cli.session, TRUE))
                   c    == [cli EXCEPT !.phase = "WAIT_REMOTE",
                              !.awaitingFirst = TRUE, !.alive = FullTeams,
                              !.preAccept = NoPkt]
        <3>1. /\ cli.phase = "WAIT_CHALLENGE_OVERLAY" /\ cli.mode = "NETWORKED"
              /\ cli.session \in Sessions
            BY <1>2, <2>1 DEF ClientKeyYes, GoodClient, ClientOn
        <3>2. /\ GoodClient(c) /\ c.mode = "NETWORKED" /\ c.phase = "WAIT_REMOTE"
              /\ c.session = cli.session /\ c.xpDrops = cli.xpDrops
              /\ c.alive[0] = TeamSize
            BY <1>2, <3>1, TeamsType, NamesType
               DEF GoodClient, ClientOn, Clients, FullTeams, Side
        <3>3. sent \in Seq(ClientPkts)
            <4>1. Accept(cli.session, TRUE) \in ClientPkts
                BY <3>1 DEF Accept, ClientPkts
            <4> QED BY <1>2, <4>1, EnqueueType
        <3>4. \/ m = NoPkt /\ cli' = c
              \/ /\ m # NoPkt
                 /\ \E levelUp \in {FALSE, LevelUps} :
                      cli' = ApplyUpdate(c, sent, m, levelUp).cli
            BY <2>1 DEF ClientKeyYes
        <3>5. m # NoPkt => /\ m \in UpdatePkts /\ m.sess = cli.session
                           /\ m \in Fair(srv, eng, cli) /\ toCli \in Seq(Followers(m))
            BY <1>2, <3>1 DEF Clients, HistoryInv, ClientKnown, LinkFair
        <3> HIDE DEF c, sent, m
        <3>6. cli.xpDrops = 0
            BY <1>2, <3>1 DEF ClientFair
        <3>7. Fair(srv, eng, c) = Fair(srv, eng, cli)
            BY <3>2 DEF Fair, Fits
        <3>8. ClientFair(srv, eng, c)
            BY <1>2, <3>2, <3>6, EngineAssumption DEF ClientFair, Fits
        <3>9. LinkFair(srv, eng, c, toCli)
            BY <1>2, <3>2, <3>7 DEF LinkFair
        <3>10. CASE m = NoPkt
            BY <3>4, <3>8, <3>9, <3>10
        <3>11. CASE m # NoPkt
            <4>1. PICK levelUp \in {FALSE, LevelUps} :
                    cli' = ApplyUpdate(c, sent, m, levelUp).cli
                BY <3>4, <3>11
            <4>2. /\ toCli \in Seq(Fair(srv, eng, c)) /\ Chain(toCli, Falling)
                  /\ m \in UpdatePkts /\ m \in Fair(srv, eng, c)
                  /\ m.sess = c.session /\ toCli \in Seq(Followers(m))
                  /\ c.phase # "WAIT_CHALLENGE_OVERLAY"
                BY <3>2, <3>5, <3>7, <3>9, <3>11 DEF LinkFair
            <4> QED BY <1>2, <3>2, <3>3, <3>8, <4>1, <4>2, UpdateFair
        <3> QED BY <3>10, <3>11
    <2>2. CASE ~ClientKeyYes
        <3>1. \A p \in Phases : p # "WAIT_CHALLENGE_OVERLAY"
                => SameCredit(cli, [cli EXCEPT !.phase = p])
            BY <1>2 DEF SameCredit, Clients
        <3>2. \A act, p : p # "WAIT_CHALLENGE_OVERLAY"
                => SameCredit(cli, [SendActionV2(cli, toSrv, act).cli
                                      EXCEPT !.phase = p])
            BY <1>2 DEF SendActionV2, SameCredit, Clients
        <3>3. SameCredit(cli, ClientExited(cli))
            BY <1>2 DEF ClientExited, SameCredit, Clients
        <3>4. SameCredit(cli, cli')
            <4>1. CASE ClientKeyNo
                BY <1>2, <4>1 DEF ClientKeyNo, SameCredit, Clients
            <4>2. CASE ClientKeyFlee \/ ClientKeySwitchMenu
                BY <3>1, <3>2, <4>2, NamesType DEF ClientKeyFlee, ClientKeySwitchMenu
            <4>3. CASE ClientKeyPick
                BY <3>2, <4>3 DEF ClientKeyPick
            <4> QED BY <2>2, <3>3, <4>1, <4>2, <4>3
                    DEF ClientKey, ClientKeyFinished, ClientEvicted
        <3> QED BY <1>2, <3>4, SameCreditFair
    <2> QED BY <2>1, <2>2
<1> QED BY <1>1, <1>2, <1>3 DEF XpInv, XpFair

LEMMA LoseFair ==
    ASSUME TypeInv, XpInv, Lose PROVE XpInv'
<1>1. UNCHANGED <<srv, eng, cli>> /\ toCli' \in Losses(toCli) \cup {toCli}
    BY DEF Lose, ServerUnchanged
<1>2. LinkFair(srv, eng, cli, toCli')
    BY <1>1, LossType, ChainLoss DEF XpInv, XpFair, LinkFair
<1> QED BY <1>1, <1>2 DEF XpInv, XpFair

LEMMA XpInit == Init => XpInv
<1> SUFFICES ASSUME Init PROVE XpInv
    OBVIOUS
<1>1. /\ toCli \in Seq(Fair(srv, eng, cli)) /\ toCli \in Seq(ServerPkts)
      /\ Chain(toCli, Falling)
    BY DEF Init, Chain
<1>2. Fits(cli, 0) /\ cli.alive[0] = 0 /\ eng.alive[0] = 0
    BY EngineAssumption DEF Init, Fits, Start, Side
<1> QED BY <1>1, <1>2 DEF Init, XpInv, XpFair, ServerFair, ClientFair, LinkFair

LEMMA XpStep ==
    /\ TerminalHeld /\ ~Reorder
    /\ TypeInv /\ HistoryInv /\ WinInv /\ XpInv /\ [Next]_vars
    => XpInv'
<1> SUFFICES ASSUME TerminalHeld, ~Reorder, TypeInv, HistoryInv, WinInv, XpInv,
                    [Next]_vars
             PROVE  XpInv'
    OBVIOUS
<1>1. Fairly /\ UNCHANGED cli => XpInv'
    BY DEF Fairly, XpInv
<1>2. CASE SendChallenge
    <2>1. UNCHANGED cli
        BY <1>2 DEF SendChallenge
    <2> QED BY <1>1, <1>2, <2>1, ChallengeFair
<1>3. CASE ServerReceive
    <2>1. UNCHANGED cli
        BY <1>3 DEF ServerReceive, ServerTakes
    <2> QED BY <1>1, <1>3, <2>1, ReceiveFair
<1>4. CASE ServerTick
    <2>1. UNCHANGED cli
        BY <1>4 DEF ServerTick, ServerTickWhen
    <2> QED BY <1>1, <1>4, <2>1, TickFair
<1>5. CASE ServerKey
    <2>1. UNCHANGED cli
        BY <1>5 DEF ServerKey, ServerKeyFinished, ServerKeyEsc, ServerKeyFlee,
           ServerKeySwitchMenu, ServerKeyPick, ServerEvicted, ServerKeys
    <2> QED BY <1>1, <1>5, <2>1, KeyFair
<1>6. CASE ClientReceive
    BY <1>6, ClientReceiveFair
<1>7. CASE ClientTick
    BY <1>7, ClientTickFair
<1>8. CASE ClientKey
    BY <1>8, ClientKeyFair
<1>9. CASE Lose
    BY <1>9, LoseFair
<1>10. CASE UNCHANGED vars
    BY <1>10 DEF vars, XpInv
<1> QED BY <1>2, <1>3, <1>4, <1>5, <1>6, <1>7, <1>8, <1>9, <1>10 DEF Next

\* The XP mirror of clientAuthOnUpdatePkt() credits no knock-out twice on a
\* direct link, whatever is lost or repeated on it: with ACCEPT outstanding the
\* keyboard is held, so the engine that ACCEPT restarts has lost no mon yet.
THEOREM NoXpFromNothing ==
    ASSUME TerminalHeld, ~Reorder
    PROVE  Spec => []NoXpMinted
<1>1. Init => WinInv /\ XpInv
    BY WinInit, XpInit
<1>2. TypeInv /\ HistoryInv /\ WinInv /\ XpInv /\ [Next]_vars => WinInv' /\ XpInv'
    BY WinStep, XpStep
<1>3. XpInv => NoXpMinted
    BY DEF XpInv, XpFair, ClientFair, Fits, NoXpMinted, SameBattle
<1> QED BY <1>1, <1>2, <1>3, TypeInvariant, HistoryInvariant, PTL DEF Spec

-----------------------------------------------------------------------------
(* The first board.  A client that has accepted stops repeating ACCEPT when *)
(* it sees a board of that battle.  The server answers nobody before it    *)
(* has an ACCEPT, provided that nobody asks: it sends a board only after   *)
(* ACCEPT, to a STATE_REQUEST or to an action, and the client sends those  *)
(* only in a battle of which it has seen a board.                          *)

\* The battles whose ACCEPT is no longer awaited.
Answered(s) ==
    {x \in 0 .. MaxSession :
        x < s.session \/ (x = s.session /\ ~s.awaitingAccept)}

FromServer(s) ==
    {p \in ServerPkts :
        p.sess <= s.session /\ (p.type \in Boards => p.sess \in Answered(s))}
FromClient(s) ==
    {p \in ClientPkts :
        p.type \in {"ACTION_V2", "STATE_REQUEST"} => p.sess \in Answered(s)}

ServerWaits(s) ==
    /\ s.awaitingAccept => ~s.unackedUpdate /\ ~s.pendingRemoteAction
    /\ s.unackedUpdate => s.lastUpdate \in FromServer(s)

\* A client in a battle that is still to be accepted has no menu to pick from.
ClientWaits(s, c) ==
    /\ c.session <= s.session
    /\ c.preAccept # NoPkt => c.session \in Answered(s)
    /\ c.session \in Answered(s)
         \/ /\ c.actionType = NoAct
            /\ c.phase \in {"IDLE", "WAIT_CHALLENGE_OVERLAY", "WAIT_REMOTE",
                            "FINISHED"}
            /\ c.phase = "WAIT_REMOTE" => c.awaitingFirst

AnswerInv ==
    /\ ServerWaits(srv) /\ ClientWaits(srv, cli)
    /\ toCli \in Seq(FromServer(srv)) /\ toSrv \in Seq(FromClient(srv))

\* No step of the server takes a battle back to waiting.
Proceeds(s, t) ==
    /\ s.session <= t.session
    /\ t.session = s.session /\ t.awaitingAccept => s.awaitingAccept

LEMMA ProceedsAnswered ==
    ASSUME NEW s \in Servers, NEW t \in Servers, Proceeds(s, t)
    PROVE  /\ Answered(s) \subseteq Answered(t)
           /\ FromServer(s) \subseteq FromServer(t)
           /\ FromClient(s) \subseteq FromClient(t)
           /\ \A c \in Clients : ClientWaits(s, c) => ClientWaits(t, c)
<1>1. s.session \in 0 .. MaxSession /\ t.session \in 0 .. MaxSession
    BY SessionRange
<1>2. 0 .. MaxSession \subseteq Nat
    OBVIOUS
<1>3. Answered(s) \subseteq Answered(t)
    BY <1>1, <1>2 DEF Answered, Proceeds
<1>4. \A x \in 0 .. MaxSession : x <= s.session => x <= t.session
    BY <1>1, <1>2 DEF Proceeds
<1>5. FromServer(s) \subseteq FromServer(t)
    BY <1>3, <1>4, SessionRange DEF FromServer
<1>6. FromClient(s) \subseteq FromClient(t)
    BY <1>3 DEF FromClient
<1>7. \A c \in Clients : c.session \in 0 .. MaxSession
    BY DEF Clients
<1>8. ASSUME NEW c \in Clients, ClientWaits(s, c) PROVE ClientWaits(t, c)
    BY <1>3, <1>4, <1>7, <1>8 DEF ClientWaits
<1> QED BY <1>3, <1>5, <1>6, <1>8

\* The server's part of AnswerInv after a step from s to t with queue ch.
Answers(s, t, ch) ==
    Proceeds(s, t) /\ ServerWaits(t) /\ ch \in Seq(FromServer(t))

\* A step that builds no UPDATE.
LEMMA QuietAnswers ==
    ASSUME NEW s \in Servers, NEW t \in Servers, NEW ch,
           ServerWaits(s), ch \in Seq(FromServer(s)), Proceeds(s, t),
           t.awaitingAccept => s.awaitingAccept /\ ~t.pendingRemoteAction,
           t.unackedUpdate => s.unackedUpdate /\ t.lastUpdate = s.lastUpdate
    PROVE  Answers(s, t, ch)
<1>1. FromServer(s) \subseteq FromServer(t)
    BY ProceedsAnswered
<1> QED BY <1>1, SeqMonotonic DEF Answers, ServerWaits

\* serverAuthSendUpdate(), past ACCEPT.
LEMMA SendingAnswers ==
    ASSUME NEW s \in Servers, NEW d \in Servers, d.session \in Sessions,
           NEW e \in Engines, NEW ch \in Seq(ServerPkts), ch \in Seq(FromServer(s)),
           Proceeds(s, d), ~d.awaitingAccept
    PROVE  Answers(s, SendUpdate(d, e, ch).srv, SendUpdate(d, e, ch).net)
<1> DEFINE t   == SendUpdate(d, e, ch).srv
           upd == t.lastUpdate
<1>1. /\ GoodServer(t) /\ t \in Servers
      /\ SendUpdate(d, e, ch).net \in Seq(ServerPkts)
    BY SendUpdateType DEF GoodServer
<1>2. /\ t.session = d.session /\ t.awaitingAccept = d.awaitingAccept
      /\ t.unackedUpdate
    BY DEF SendUpdate, Servers
<1>3. /\ upd = Update(d.session, Wire(d.updateSeq + 1), e, d.peerReady)
      /\ SendUpdate(d, e, ch).net = Enqueue(ch, upd)
    BY DEF SendUpdate, Servers
<1> HIDE DEF t
<1>4. upd \in UpdatePkts /\ upd \in ServerPkts
    BY <1>1, <1>2 DEF GoodServer, ServerBuffer, ServerPkts
<1>5. upd.sess = t.session
    BY <1>2, <1>3 DEF Update
<1>6. t.session \in 0 .. MaxSession /\ t.session \in Nat
    BY <1>1, SessionRange
<1>7. upd \in FromServer(t)
    BY <1>2, <1>4, <1>5, <1>6 DEF FromServer, Answered
<1>8. Proceeds(s, t)
    BY <1>2 DEF Proceeds
<1>9. ch \in Seq(FromServer(t))
    BY <1>1, <1>8, ProceedsAnswered, SeqMonotonic
<1>10. SendUpdate(d, e, ch).net \in Seq(FromServer(t))
    BY <1>3, <1>7, <1>9, EnqueueType
<1>11. ServerWaits(t)
    BY <1>2, <1>7 DEF ServerWaits
<1> QED BY <1>8, <1>10, <1>11 DEF Answers, t

LEMMA ChallengeAnswers ==
    ASSUME TypeInv, AnswerInv, SendChallenge
    PROVE  Answers(srv, srv', toCli')
<1>1. /\ srv \in Servers /\ toCli \in Seq(FromServer(srv))
      /\ srv' \in Servers /\ srv'.session \in Sessions
    <2>1. TypeInv'
        BY SendChallengeType
    <2>2. srv'.mode = "NETWORKED"
        BY DEF SendChallenge, TypeInv, TypeOK, Servers
    <2> QED BY <2>1, <2>2 DEF TypeInv, TypeOK, AnswerInv, ServerOn
<1>2. /\ srv'.session = srv.session + 1
      /\ ~srv'.unackedUpdate /\ ~srv'.pendingRemoteAction
    BY <1>1 DEF SendChallenge, Servers
<1>3. srv.session \in Nat /\ srv'.session \in Nat
    BY <1>1, SessionRange
<1>4. Proceeds(srv, srv')
    BY <1>2, <1>3 DEF Proceeds
<1>5. toCli \in Seq(FromServer(srv'))
    BY <1>1, <1>4, ProceedsAnswered, SeqMonotonic
<1>6. Challenge(srv'.session) \in FromServer(srv')
    BY <1>1, <1>3 DEF Challenge, FromServer, ServerPkts, Boards
<1>7. toCli' = Enqueue(toCli, Challenge(srv'.session))
    BY <1>2 DEF SendChallenge
<1>8. toCli' \in Seq(FromServer(srv'))
    BY <1>5, <1>6, <1>7, EnqueueType
<1> QED BY <1>2, <1>4, <1>8 DEF Answers, ServerWaits

LEMMA AcceptAnswers ==
    ASSUME TypeInv, AnswerInv, srv.mode # "OFF", NEW m, OnAccept(m)
    PROVE  Answers(srv, srv', toCli')
<1>1. /\ srv \in Servers /\ srv.session \in Sessions
      /\ srv.session \in Nat /\ ServerWaits(srv)
      /\ toCli \in Seq(ServerPkts) /\ toCli \in Seq(FromServer(srv))
    BY SessionRange DEF TypeInv, TypeOK, AnswerInv, ServerOn, Servers, Modes
<1>2. CASE UNCHANGED <<srv, toCli>>
    BY <1>1, <1>2, QuietAnswers DEF Proceeds, ServerWaits
<1>3. CASE /\ srv' = [srv EXCEPT !.phase = "FINISHED", !.awaitingAccept = FALSE]
           /\ UNCHANGED toCli
    <2>1. /\ srv' \in Servers /\ srv'.session = srv.session
          /\ ~srv'.awaitingAccept /\ srv'.unackedUpdate = srv.unackedUpdate
          /\ srv'.lastUpdate = srv.lastUpdate
        BY <1>1, <1>3, NamesType DEF Servers
    <2>2. Proceeds(srv, srv') /\ toCli' \in Seq(FromServer(srv))
        BY <1>1, <1>3, <2>1 DEF Proceeds
    <2> QED BY <1>1, <2>1, <2>2, QuietAnswers
<1>4. CASE \E kept \in DropPendingSends(toCli) :
                LET s == [srv EXCEPT !.awaitingAccept = FALSE,
                           !.peerReady = TRUE,
                           !.pendingRemoteAction = FALSE,
                           !.phase = "WAIT_ACTION"]
                    r == SendUpdate(s, Start(FullTeams), kept)
                IN  srv' = r.srv /\ toCli' = r.net
    <2> DEFINE e == Start(FullTeams)
               d == [srv EXCEPT !.awaitingAccept = FALSE,
                       !.peerReady = TRUE,
                       !.pendingRemoteAction = FALSE,
                       !.phase = "WAIT_ACTION"]
    <2>1. PICK kept \in DropPendingSends(toCli) :
            srv' = SendUpdate(d, e, kept).srv /\ toCli' = SendUpdate(d, e, kept).net
        BY <1>4
    <2>2. kept \in Seq(ServerPkts) /\ kept \in Seq(FromServer(srv))
        BY <1>1, DropType
    <2>3. d \in Servers /\ d.session = srv.session /\ ~d.awaitingAccept
        BY <1>1, NamesType DEF Servers
    <2>4. e \in Engines
        BY TeamsType, StartType
    <2> HIDE DEF d, e
    <2> QED BY <1>1, <2>1, <2>2, <2>3, <2>4, SendingAnswers DEF Proceeds
<1> QED BY <1>2, <1>3, <1>4 DEF OnAccept

\* serverAuthOnActionV2Pkt(): an action counts only in a battle that was
\* accepted, because the client sends none before.
LEMMA ActionAnswers ==
    ASSUME TypeInv, AnswerInv, srv.mode # "OFF", NEW m \in ClientPkts,
           m \in FromClient(srv), m.type = "ACTION_V2", OnActionV2(m)
    PROVE  Answers(srv, srv', toCli')
<1> DEFINE s == Acknowledged(srv, m)
<1>1. /\ srv \in Servers /\ GoodServer(srv) /\ srv.session \in Sessions
      /\ srv.session \in Nat /\ ServerWaits(srv) /\ eng \in Engines
      /\ toCli \in Seq(ServerPkts) /\ toCli \in Seq(FromServer(srv))
    BY SessionRange DEF TypeInv, TypeOK, AnswerInv, ServerOn, Servers, Modes, GoodServer
<1>2. CASE m.sess # srv.session
    BY <1>1, <1>2, QuietAnswers DEF OnActionV2, Proceeds, ServerWaits
<1>3. CASE m.sess = srv.session
    <2>1. ~srv.awaitingAccept
        BY <1>1, <1>3 DEF FromClient, Answered
    <2>2. /\ s \in Servers /\ s.session = srv.session /\ ~s.awaitingAccept
          /\ s.lastUpdate = srv.lastUpdate
          /\ s.unackedUpdate => srv.unackedUpdate
        BY <1>1, <2>1 DEF Acknowledged, Servers
    <2>3. \/ srv' = s /\ UNCHANGED toCli
          \/ srv' = [s EXCEPT !.pendingRemoteAction = TRUE] /\ UNCHANGED toCli
          \/ LET r == SendUpdate([s EXCEPT !.phase = "FINISHED"],
                                 Forfeit(eng, 1), toCli)
             IN  srv' = r.srv /\ toCli' = r.net
        BY <1>3 DEF OnActionV2
    <2> HIDE DEF s
    <2>4. CASE srv' = s /\ UNCHANGED toCli
        BY <1>1, <2>1, <2>2, <2>4, QuietAnswers DEF Proceeds
    <2>5. CASE srv' = [s EXCEPT !.pendingRemoteAction = TRUE] /\ UNCHANGED toCli
        <3>1. /\ srv' \in Servers /\ srv'.session = srv.session
              /\ ~srv'.awaitingAccept /\ srv'.lastUpdate = srv.lastUpdate
              /\ srv'.unackedUpdate => srv.unackedUpdate
            BY <2>2, <2>5 DEF Servers
        <3>2. Proceeds(srv, srv') /\ toCli' \in Seq(FromServer(srv))
            BY <1>1, <2>5, <3>1 DEF Proceeds
        <3> QED BY <1>1, <3>1, <3>2, QuietAnswers
    <2>6. CASE LET r == SendUpdate([s EXCEPT !.phase = "FINISHED"],
                                   Forfeit(eng, 1), toCli)
               IN  srv' = r.srv /\ toCli' = r.net
        <3> DEFINE d == [s EXCEPT !.phase = "FINISHED"]
        <3>1. d \in Servers /\ d.session = srv.session /\ ~d.awaitingAccept
            BY <2>2, NamesType DEF Servers
        <3>2. Forfeit(eng, 1) \in Engines
            BY <1>1, ForfeitType DEF Side
        <3>3. /\ srv' = SendUpdate(d, Forfeit(eng, 1), toCli).srv
              /\ toCli' = SendUpdate(d, Forfeit(eng, 1), toCli).net
            BY <2>6
        <3> HIDE DEF d
        <3> QED BY <1>1, <3>1, <3>2, <3>3, SendingAnswers DEF Proceeds
    <2> QED BY <2>3, <2>4, <2>5, <2>6
<1> QED BY <1>2, <1>3

LEMMA ReceiveAnswers ==
    ASSUME TypeInv, AnswerInv, ServerReceive
    PROVE  /\ Answers(srv, srv', toCli')
           /\ toSrv' \in Seq(FromClient(srv)) /\ UNCHANGED cli
<1>1. PICK i \in Deliverable(toSrv) : ServerTakes(i)
    BY DEF ServerReceive
<1> DEFINE m == toSrv[i]
<1>2. /\ m \in FromClient(srv) /\ RemoveAt(toSrv, i) \in Seq(FromClient(srv))
      /\ m \in ClientPkts
    BY DeliverableType DEF AnswerInv, FromClient
<1>3. /\ srv \in Servers /\ srv.session \in Nat /\ ServerWaits(srv)
      /\ eng \in Engines /\ toCli \in Seq(FromServer(srv))
      /\ (srv.mode # "OFF" => srv.session \in Sessions)
    BY SessionRange DEF TypeInv, TypeOK, AnswerInv, ServerOn, Servers, Modes
<1>4. toSrv' = RemoveAt(toSrv, i) /\ UNCHANGED cli
    BY <1>1 DEF ServerTakes
<1>5. \/ UNCHANGED <<srv, toCli>>
      \/ srv.mode # "OFF" /\ OnAccept(m)
      \/ srv.mode # "OFF" /\ m.type = "ACTION_V2" /\ OnActionV2(m)
      \/ srv.mode # "OFF" /\ m.type = "STATE_REQUEST" /\ OnStateRequest(m)
    BY <1>1 DEF ServerTakes
<1> HIDE DEF m
<1> SUFFICES Answers(srv, srv', toCli')
    BY <1>2, <1>4
<1>6. CASE UNCHANGED <<srv, toCli>>
    BY <1>3, <1>6, QuietAnswers DEF Proceeds, ServerWaits
<1>7. CASE srv.mode # "OFF" /\ m.type = "STATE_REQUEST" /\ OnStateRequest(m)
    <2>1. CASE m.sess # srv.session
        BY <1>6, <1>7, <2>1 DEF OnStateRequest
    <2>2. CASE m.sess = srv.session
        <3> DEFINE p == FullState(srv.session, srv.updateSeq, eng, srv.peerReady)
        <3>1. ~srv.awaitingAccept
            BY <1>2, <1>3, <1>7, <2>2 DEF FromClient, Answered
        <3>2. srv.updateSeq \in Byte /\ srv.peerReady \in BOOLEAN /\ eng.alive \in Alive
            BY <1>3 DEF Servers, Engines, Alive
        <3>3. p \in ServerPkts /\ p.sess = srv.session
            BY <1>3, <1>7, <3>2 DEF FullState, ServerPkts
        <3>4. toCli' = Enqueue(toCli, p) /\ srv' = srv
            BY <1>7, <2>2 DEF OnStateRequest
        <3> HIDE DEF p
        <3>5. p \in FromServer(srv)
            BY <1>3, <3>1, <3>3, SessionRange DEF FromServer, Answered
        <3>6. toCli' \in Seq(FromServer(srv))
            BY <1>3, <3>4, <3>5, EnqueueType
        <3> QED BY <1>3, <3>4, <3>6 DEF Answers, Proceeds
    <2> QED BY <2>1, <2>2
<1> QED BY <1>2, <1>5, <1>6, <1>7, AcceptAnswers, ActionAnswers

LEMMA TickAnswers ==
    ASSUME TypeInv, AnswerInv, ServerTick
    PROVE  Answers(srv, srv', toCli')
<1>1. PICK due \in {FALSE, srv.awaitingAccept \/ srv.unackedUpdate},
           held \in {FALSE, srv.pendingKeyExit},
           silent \in {FALSE, srv.phase # "FINISHED"} :
            ServerTickWhen(due, held, silent)
    BY DEF ServerTick
<1> DEFINE r == IF due THEN Retransmit(srv, toCli)
                       ELSE [srv |-> srv, net |-> toCli]
           s == r.srv
<1>2. /\ srv.mode = "NETWORKED" /\ GoodServer(srv) /\ srv \in Servers
      /\ srv.session \in Sessions /\ srv.session \in Nat /\ eng \in Engines
      /\ ServerWaits(srv)
      /\ toCli \in Seq(ServerPkts) /\ toCli \in Seq(FromServer(srv))
    BY <1>1, SessionRange DEF ServerTickWhen, TypeInv, TypeOK, AnswerInv, ServerOn,
                              GoodServer
<1>3. s \in Servers /\ r.net \in Seq(ServerPkts)
    BY <1>2, RetransmitType DEF GoodServer
<1>4. /\ s.session = srv.session /\ s.unackedUpdate = srv.unackedUpdate
      /\ s.lastUpdate = srv.lastUpdate
      /\ s.pendingRemoteAction = srv.pendingRemoteAction
      /\ s.awaitingAccept => srv.awaitingAccept
    BY <1>2 DEF Retransmit, OutOfTries, Servers
<1>5. r.net \in Seq(FromServer(srv))
    <2>1. Challenge(srv.session) \in FromServer(srv)
        BY <1>2 DEF Challenge, FromServer, ServerPkts, Boards
    <2>2. \/ r.net = toCli
          \/ r.net = Enqueue(toCli, Challenge(srv.session))
          \/ srv.unackedUpdate /\ r.net = Enqueue(toCli, srv.lastUpdate)
        BY DEF Retransmit
    <2> QED BY <1>2, <2>1, <2>2, EnqueueType DEF ServerWaits
<1>6. \/ srv' = ServerExited(s) /\ toCli' = r.net
      \/ srv' = [s EXCEPT !.phase = "FINISHED"] /\ toCli' = r.net
      \/ s.pendingRemoteAction /\ ResolveTurn(s, r.net)
      \/ srv' = s /\ toCli' = r.net
    BY <1>1 DEF ServerTickWhen
<1> HIDE DEF r
<1>7. CASE srv' = ServerExited(s) /\ toCli' = r.net
    <2>1. /\ srv' \in Servers /\ srv'.session = s.session
          /\ ~srv'.awaitingAccept /\ ~srv'.unackedUpdate
        BY <1>3, <1>7, ServerExitedType DEF GoodServer, ServerExited, Servers
    <2> QED BY <1>2, <1>4, <1>5, <1>7, <2>1, QuietAnswers DEF Proceeds
<1>8. CASE srv' = [s EXCEPT !.phase = "FINISHED"] /\ toCli' = r.net
    <2>1. /\ srv' \in Servers /\ srv'.session = s.session
          /\ srv'.awaitingAccept = s.awaitingAccept
          /\ srv'.unackedUpdate = s.unackedUpdate
          /\ srv'.pendingRemoteAction = s.pendingRemoteAction
          /\ srv'.lastUpdate = s.lastUpdate
        BY <1>3, <1>8, NamesType DEF Servers
    <2>2. Proceeds(srv, srv') /\ toCli' \in Seq(FromServer(srv))
        BY <1>2, <1>4, <1>5, <1>8, <2>1 DEF Proceeds
    <2> QED BY <1>2, <1>4, <2>1, <2>2, QuietAnswers DEF ServerWaits
<1>9. CASE s.pendingRemoteAction /\ ResolveTurn(s, r.net)
    <2>1. ~s.awaitingAccept
        BY <1>2, <1>4, <1>9 DEF ServerWaits
    <2>2. PICK e \in ExecuteTurn(eng) :
            LET u == SendUpdate(
                   [s EXCEPT
                      !.playerWon = @ \/ e.result = "P1_WIN",
                      !.pendingRemoteAction = e.result # "ONGOING",
                      !.phase = IF e.result # "ONGOING" THEN "FINISHED"
                                                        ELSE "WAIT_ACTION"],
                   e, r.net)
            IN  srv' = u.srv /\ toCli' = u.net
        BY <1>9 DEF ResolveTurn
    <2> DEFINE d == [s EXCEPT
                      !.playerWon = @ \/ e.result = "P1_WIN",
                      !.pendingRemoteAction = e.result # "ONGOING",
                      !.phase = IF e.result # "ONGOING" THEN "FINISHED"
                                                        ELSE "WAIT_ACTION"]
    <2>3. e \in Engines
        BY <1>2, ExecuteTurnType
    <2>4. /\ (s.playerWon \/ e.result = "P1_WIN") \in BOOLEAN
          /\ (e.result # "ONGOING") \in BOOLEAN
        OBVIOUS
    <2>5. (IF e.result # "ONGOING" THEN "FINISHED" ELSE "WAIT_ACTION") \in Phases
        BY NamesType
    <2>6. d \in Servers /\ d.session = s.session /\ d.awaitingAccept = s.awaitingAccept
        BY <1>3, <2>4, <2>5 DEF Servers
    <2>7. srv' = SendUpdate(d, e, r.net).srv /\ toCli' = SendUpdate(d, e, r.net).net
        BY <2>2
    <2> HIDE DEF d
    <2>8. Proceeds(srv, d)
        BY <1>2, <1>4, <2>6 DEF Proceeds
    <2> QED BY <1>2, <1>3, <1>4, <1>5, <2>1, <2>3, <2>6, <2>7, <2>8, SendingAnswers
<1>10. CASE srv' = s /\ toCli' = r.net
    BY <1>2, <1>3, <1>4, <1>5, <1>10, QuietAnswers DEF Proceeds, ServerWaits
<1> QED BY <1>6, <1>7, <1>8, <1>9, <1>10

LEMMA KeyAnswers ==
    ASSUME TypeInv, AnswerInv, TerminalHeld, ServerKey
    PROVE  Answers(srv, srv', toCli')
<1>1. /\ srv \in Servers /\ eng \in Engines /\ srv.session \in Nat
      /\ toCli \in Seq(FromServer(srv)) /\ toCli \in Seq(ServerPkts)
      /\ srv.mode = "NETWORKED" /\ srv.session \in Sessions /\ ServerWaits(srv)
    BY SessionRange DEF TypeInv, TypeOK, AnswerInv, ServerOn,
           ServerKey, ServerKeyFinished, ServerKeyEsc, ServerKeyFlee,
           ServerKeySwitchMenu, ServerKeyPick, ServerEvicted, ServerHasKeys
<1>2. CASE srv' = ServerExited(srv) /\ UNCHANGED toCli
    <2>1. /\ srv' \in Servers /\ srv'.session = srv.session
          /\ ~srv'.awaitingAccept /\ ~srv'.unackedUpdate
        BY <1>1, <1>2, ServerExitedType DEF GoodServer, ServerExited, Servers
    <2> QED BY <1>1, <1>2, <2>1, QuietAnswers DEF Proceeds
<1>3. CASE ServerHasKeys /\ srv' = [srv EXCEPT !.pendingKeyExit = TRUE]
           /\ UNCHANGED toCli
    <2>1. /\ srv' \in Servers /\ srv'.session = srv.session
          /\ ~srv'.awaitingAccept /\ srv'.unackedUpdate = srv.unackedUpdate
          /\ srv'.lastUpdate = srv.lastUpdate
        BY <1>1, <1>3 DEF Servers, ServerHasKeys
    <2>2. Proceeds(srv, srv') /\ toCli' \in Seq(FromServer(srv))
        BY <1>1, <1>3, <2>1 DEF Proceeds
    <2> QED BY <1>1, <2>1, <2>2, QuietAnswers
<1>4. CASE /\ ServerHasKeys
           /\ LET r == SendUpdate([srv EXCEPT !.phase = "FINISHED"],
                                  Forfeit(eng, 0), toCli)
              IN  srv' = r.srv /\ toCli' = r.net
    <2> DEFINE d == [srv EXCEPT !.phase = "FINISHED"]
    <2>1. d \in Servers /\ d.session = srv.session /\ ~d.awaitingAccept
        BY <1>1, <1>4, NamesType DEF Servers, ServerHasKeys
    <2>2. Forfeit(eng, 0) \in Engines
        BY <1>1, ForfeitType DEF Side
    <2>3. /\ srv' = SendUpdate(d, Forfeit(eng, 0), toCli).srv
          /\ toCli' = SendUpdate(d, Forfeit(eng, 0), toCli).net
        BY <1>4
    <2> HIDE DEF d
    <2> QED BY <1>1, <2>1, <2>2, <2>3, SendingAnswers DEF Proceeds
<1>5. CASE /\ ServerHasKeys
           /\ \E p \in Phases : srv' = [srv EXCEPT !.phase = p]
           /\ toCli' \in {toCli, Enqueue(toCli, ForfeitPkt(srv.session))}
    <2>1. PICK p \in Phases : srv' = [srv EXCEPT !.phase = p]
        BY <1>5
    <2>2. /\ srv' \in Servers /\ srv'.session = srv.session
          /\ ~srv'.awaitingAccept /\ srv'.unackedUpdate = srv.unackedUpdate
          /\ srv'.lastUpdate = srv.lastUpdate
        BY <1>1, <1>5, <2>1 DEF Servers, ServerHasKeys
    <2>3. ForfeitPkt(srv.session) \in FromServer(srv)
        BY <1>1 DEF ForfeitPkt, FromServer, ServerPkts, Boards
    <2>4. toCli' \in Seq(FromServer(srv))
        BY <1>1, <1>5, <2>3, EnqueueType
    <2> QED BY <1>1, <2>2, <2>4, QuietAnswers DEF Proceeds
<1> QED BY <1>2, <1>3, <1>4, <1>5, NamesType
        DEF ServerKey, ServerKeyFinished, ServerKeyEsc, ServerKeyFlee,
            ServerKeySwitchMenu, ServerKeyPick, ServerEvicted, Phases, MenuPhases

\* The client's steps, the server standing still.  In a battle that the server
\* has accepted the client may do as it likes.
LEMMA AnsweredWaits ==
    ASSUME NEW s, NEW c, NEW d, ClientWaits(s, c), c.session \in Answered(s),
           d.session = c.session
    PROVE  ClientWaits(s, d)
BY DEF ClientWaits

\* The client d is c without a new action or menu.
Idler(c, d) ==
    /\ d.session = c.session /\ d.preAccept \in {c.preAccept, NoPkt}
    /\ d.actionType \in {c.actionType, NoAct}
    /\ \/ d.phase = c.phase /\ d.awaitingFirst = c.awaitingFirst
       \/ d.phase \in {"IDLE", "FINISHED"}
       \/ d.phase = "WAIT_REMOTE" /\ d.awaitingFirst

LEMMA IdlerWaits ==
    ASSUME NEW s, NEW c, NEW d, ClientWaits(s, c), Idler(c, d)
    PROVE  ClientWaits(s, d)
BY DEF ClientWaits, Idler

LEMMA SendActionAnswered ==
    ASSUME NEW s, NEW c, GoodClient(c), c.session \in Sessions,
           c.session \in Answered(s), NEW net \in Seq(FromClient(s)),
           NEW act \in Moves \cup {Flee, PureAck}
    PROVE  LET r == SendActionV2(c, net, act)
           IN  r.net \in Seq(FromClient(s)) /\ r.cli.session = c.session
<1> DEFINE p == ActionV2(c.session, c.clientTurn, act, c.lastApplied)
<1>1. p \in ClientPkts /\ p.sess = c.session
    BY DEF ActionV2, ClientPkts, GoodClient, Clients
<1> HIDE DEF p
<1>2. p \in FromClient(s)
    BY <1>1 DEF FromClient
<1>3. SendActionV2(c, net, act).net = Enqueue(net, p)
    BY DEF SendActionV2, p
<1>4. SendActionV2(c, net, act).cli.session = c.session
    BY DEF SendActionV2, GoodClient, Clients
<1> QED BY <1>2, <1>3, <1>4, EnqueueType

LEMMA ApplyUpdateAnswered ==
    ASSUME NEW s, NEW c, GoodClient(c), c.mode = "NETWORKED",
           c.session \in Answered(s), NEW m \in UpdatePkts,
           NEW net \in Seq(FromClient(s)), NEW levelUp
    PROVE  LET r == ApplyUpdate(c, net, m, levelUp)
           IN  r.net \in Seq(FromClient(s)) /\ r.cli.session = c.session
<1> DEFINE r == ApplyUpdate(c, net, m, levelUp)
<1>1. /\ c \in Clients /\ c.session \in Sessions
      /\ c.actionType \in Moves \cup {NoAct, Flee}
    BY DEF GoodClient, ClientOn, Clients
<1>2. net \in Seq(ClientPkts)
    BY SeqMonotonic DEF FromClient
<1>3. r.cli.session = c.session
    BY <1>2, ApplyUpdateType
<1>4. CASE m.seq = c.lastApplied /\ c.lastApplied # 0
    <2> DEFINE d   == [c EXCEPT !.awaitingFirst = FALSE]
               act == IF c.actionType # NoAct THEN c.actionType ELSE PureAck
    <2>1. GoodClient(d) /\ d.session = c.session
        BY <1>1 DEF GoodClient, ClientOn, Clients
    <2>2. act \in Moves \cup {Flee, PureAck}
        BY <1>1
    <2>3. r = SendActionV2(d, net, act)
        BY <1>4 DEF ApplyUpdate
    <2> HIDE DEF d, act, r
    <2>4. r.net \in Seq(FromClient(s))
        BY <1>1, <2>1, <2>2, <2>3, SendActionAnswered
    <2> QED BY <1>3, <2>4 DEF r
<1>5. CASE ~(m.seq = c.lastApplied /\ c.lastApplied # 0)
           /\ ~SameHash(c, m, levelUp)
    <2>1. StateRequest(c.session) \in FromClient(s)
        BY <1>1 DEF StateRequest, ClientPkts, FromClient
    <2>2. r.net = Enqueue(net, StateRequest(c.session))
        BY <1>5 DEF ApplyUpdate
    <2> HIDE DEF r
    <2>3. r.net \in Seq(FromClient(s))
        BY <2>1, <2>2, EnqueueType
    <2> QED BY <1>3, <2>3 DEF r
<1>6. CASE ~(m.seq = c.lastApplied /\ c.lastApplied # 0)
           /\ SameHash(c, m, levelUp) /\ m.result # "ONGOING"
    <2> DEFINE g == Shown(c, m)
               d == [g EXCEPT !.lastApplied = m.seq, !.phase = "FINISHED"]
    <2>1. GoodClient(g) /\ g.session = c.session /\ g.mode = "NETWORKED"
        BY ShownType
    <2> HIDE DEF g
    <2>2. m.seq \in Byte
        BY DEF UpdatePkts
    <2>3. GoodClient(d) /\ d.session = c.session
        BY <2>1, <2>2, NamesType DEF GoodClient, ClientOn, Clients
    <2>4. r = SendActionV2(d, net, PureAck)
        BY <1>6 DEF ApplyUpdate, g
    <2>5. PureAck \in Moves \cup {Flee, PureAck}
        OBVIOUS
    <2> HIDE DEF d, r
    <2>6. r.net \in Seq(FromClient(s))
        BY <1>1, <2>3, <2>4, <2>5, SendActionAnswered
    <2> QED BY <1>3, <2>6 DEF r
<1>7. CASE ~(m.seq = c.lastApplied /\ c.lastApplied # 0)
           /\ SameHash(c, m, levelUp) /\ m.result = "ONGOING"
    <2>1. r.net = net
        BY <1>7 DEF ApplyUpdate
    <2> QED BY <1>3, <2>1
<1> QED BY <1>4, <1>5, <1>6, <1>7

\* What a step of the client establishes.
Asked ==
    ClientWaits(srv, cli') /\ toSrv' \in Seq(FromClient(srv))
    /\ (cli'.phase = "WAIT_ACTION" => cli'.session = cli.session)

LEMMA ClientReceiveAsked ==
    ASSUME TypeInv, AnswerInv, ClientReceive
    PROVE  Asked /\ toCli' \in Seq(FromServer(srv)) /\ UNCHANGED srv
<1>1. PICK i \in Deliverable(toCli) : ClientTakes(i)
    BY DEF ClientReceive
<1> DEFINE m == toCli[i]
<1>2. /\ m \in FromServer(srv) /\ RemoveAt(toCli, i) \in Seq(FromServer(srv))
      /\ m \in ServerPkts
    BY DeliverableType DEF AnswerInv, FromServer
<1>3. /\ cli \in Clients /\ GoodClient(cli) /\ srv \in Servers
      /\ ClientWaits(srv, cli) /\ toSrv \in Seq(FromClient(srv))
      /\ (cli.mode # "OFF" => cli.mode = "NETWORKED")
    BY DEF TypeInv, TypeOK, AnswerInv, GoodClient, Clients, Modes
<1>4. toCli' = RemoveAt(toCli, i) /\ UNCHANGED srv
    BY <1>1 DEF ClientTakes, ServerUnchanged
<1>5. \/ m.type = "CHALLENGE" /\ OnChallenge(m)
      \/ cli.mode # "OFF" /\ m.type = "UPDATE" /\ OnUpdate(m)
      \/ cli.mode # "OFF" /\ m.type = "FULL_STATE" /\ OnFullState(m)
      \/ OnForfeit(m)
      \/ UNCHANGED <<cli, toSrv>>
    BY <1>1 DEF ClientTakes
<1> HIDE DEF m
<1> SUFFICES Asked
    BY <1>2, <1>4
<1>6. CASE UNCHANGED <<cli, toSrv>>
    BY <1>3, <1>6 DEF Asked
<1>7. CASE OnForfeit(m)
    <2>1. Idler(cli, cli') /\ UNCHANGED toSrv /\ cli'.session = cli.session
        BY <1>3, <1>7 DEF OnForfeit, Idler, Clients
    <2> QED BY <1>3, <2>1, IdlerWaits DEF Asked
<1>8. CASE OnChallenge(m)
    <2>1. CASE cli' = cli
        BY <1>6, <1>8, <2>1 DEF OnChallenge
    <2>2. CASE cli' # cli
        <3>1. /\ cli'.session = m.sess /\ cli'.phase = "WAIT_CHALLENGE_OVERLAY"
              /\ cli'.actionType = NoAct /\ cli'.preAccept = NoPkt
              /\ UNCHANGED toSrv
            BY <1>3, <1>8, <2>2 DEF OnChallenge, Clients
        <3> QED BY <1>2, <1>3, <3>1 DEF Asked, ClientWaits, FromServer
    <2> QED BY <2>1, <2>2
<1>9. ASSUME m.sess = cli.session, m.type \in Boards
      PROVE  cli.session \in Answered(srv)
    BY <1>2, <1>9 DEF FromServer
<1>10. CASE cli.mode # "OFF" /\ m.type = "UPDATE" /\ OnUpdate(m)
    <2>1. CASE m.sess # cli.session
        BY <1>6, <1>10, <2>1 DEF OnUpdate
    <2>2. CASE m.sess = cli.session
        <3>1. cli.session \in Answered(srv)
            BY <1>9, <1>10, <2>2 DEF Boards
        <3>2. m \in UpdatePkts
            BY <1>2, <1>10 DEF ServerPkts
        <3>3. CASE cli' = [cli EXCEPT !.preAccept = m] /\ UNCHANGED toSrv
            <4>1. cli'.session = cli.session
                BY <1>3, <3>3 DEF Clients
            <4> QED BY <1>3, <3>1, <3>3, <4>1, AnsweredWaits DEF Asked
        <3>4. CASE \E levelUp \in {FALSE, LevelUps} :
                     LET r == ApplyUpdate(cli, toSrv, m, levelUp)
                     IN  cli' = r.cli /\ toSrv' = r.net
            <4>1. cli'.session = cli.session /\ toSrv' \in Seq(FromClient(srv))
                BY <1>3, <1>10, <3>1, <3>2, <3>4, ApplyUpdateAnswered
            <4> QED BY <1>3, <3>1, <4>1, AnsweredWaits DEF Asked
        <3> QED BY <1>10, <2>2, <3>3, <3>4 DEF OnUpdate
    <2> QED BY <2>1, <2>2
<1>11. CASE m.type = "FULL_STATE" /\ OnFullState(m)
    <2>1. CASE m.sess # cli.session
        BY <1>6, <1>11, <2>1 DEF OnFullState
    <2>2. CASE m.sess = cli.session
        <3>1. cli.session \in Answered(srv)
            BY <1>9, <1>11, <2>2 DEF Boards
        <3>2. cli'.session = cli.session /\ UNCHANGED toSrv
            BY <1>3, <1>11, <2>2 DEF OnFullState, Clients
        <3> QED BY <1>3, <3>1, <3>2, AnsweredWaits DEF Asked
    <2> QED BY <2>1, <2>2
<1> QED BY <1>5, <1>6, <1>7, <1>8, <1>10, <1>11

LEMMA ClientTickAsked ==
    ASSUME TypeInv, AnswerInv, ~SlowStart, ClientTick PROVE Asked
<1>1. PICK first \in {"none", "accept", "request"},
           due \in BOOLEAN, silent \in BOOLEAN :
        ClientTickWhen(first, due, silent)
    BY DEF ClientTick
<1> DEFINE sent == IF ~cli.awaitingFirst \/ first = "none" THEN toSrv
                   ELSE IF Asks(first)
                   THEN Enqueue(toSrv, StateRequest(cli.session))
                   ELSE Enqueue(toSrv, Accept(cli.session, TRUE))
           resend == due /\ Resends(cli)
           r == IF resend THEN SendActionV2(cli, sent, cli.actionType)
                          ELSE [cli |-> cli, net |-> sent]
<1>2. /\ cli \in Clients /\ GoodClient(cli) /\ cli.session \in Sessions
      /\ cli.actionType \in Moves \cup {NoAct, Flee}
      /\ ClientWaits(srv, cli) /\ toSrv \in Seq(FromClient(srv))
    BY <1>1 DEF ClientTickWhen, TypeInv, TypeOK, GoodClient, ClientOn, Clients,
                AnswerInv
<1>3. /\ cli' = IF silent THEN [r.cli EXCEPT !.phase = "FINISHED"] ELSE r.cli
      /\ toSrv' = r.net
    BY <1>1 DEF ClientTickWhen
<1>4. sent \in Seq(FromClient(srv))
    <2>1. Accept(cli.session, TRUE) \in FromClient(srv)
        BY <1>2 DEF Accept, ClientPkts, FromClient
    <2> QED BY <1>2, <2>1, EnqueueType DEF Asks
<1> HIDE DEF sent
<1>5. /\ r.net \in Seq(FromClient(srv)) /\ r.cli \in Clients
      /\ r.cli.session = cli.session /\ r.cli.actionType = cli.actionType
      /\ r.cli.phase = cli.phase /\ r.cli.awaitingFirst = cli.awaitingFirst
      /\ r.cli.preAccept = cli.preAccept
    <2>1. CASE resend
        <3>1. cli.actionType # NoAct /\ cli.actionType \in Moves \cup {Flee, PureAck}
            BY <1>2, <2>1 DEF Resends
        <3>2. cli.session \in Answered(srv)
            BY <1>2, <3>1 DEF ClientWaits
        <3>3. r.net \in Seq(FromClient(srv))
            BY <1>2, <1>4, <2>1, <3>1, <3>2, SendActionAnswered
        <3>4. r.cli \in {cli, [cli EXCEPT !.actionType = cli.actionType,
                                          !.actionTurn = cli.clientTurn]}
            BY <2>1 DEF SendActionV2
        <3> QED BY <1>2, <3>3, <3>4 DEF Clients
    <2>2. CASE ~resend
        BY <1>2, <1>4, <2>2
    <2> QED BY <2>1, <2>2
<1> HIDE DEF r
<1>6. Idler(cli, cli') /\ cli'.session = cli.session
    BY <1>3, <1>5 DEF Idler, Clients
<1> QED BY <1>2, <1>3, <1>5, <1>6, IdlerWaits DEF Asked

LEMMA ClientKeyAsked ==
    ASSUME TypeInv, AnswerInv, ~EarlyFlee, ClientKey PROVE Asked
<1>1. /\ cli \in Clients /\ GoodClient(cli) /\ cli.mode = "NETWORKED"
      /\ cli.session \in Sessions /\ ClientWaits(srv, cli)
      /\ toSrv \in Seq(FromClient(srv))
    BY DEF ClientKey, ClientKeyFinished, ClientKeyYes, ClientKeyNo,
           ClientKeyFlee, ClientKeySwitchMenu, ClientKeyPick, ClientEvicted,
           GoodClient, ClientOn, TypeInv, TypeOK, AnswerInv
<1>2. \A b \in BOOLEAN : Enqueue(toSrv, Accept(cli.session, b)) \in Seq(FromClient(srv))
    <2>1. \A b \in BOOLEAN : Accept(cli.session, b) \in FromClient(srv)
        BY <1>1 DEF Accept, ClientPkts, FromClient
    <2> QED BY <1>1, <2>1, EnqueueType
<1>3. CASE cli' = ClientExited(cli) /\ UNCHANGED toSrv
    <2>1. Idler(cli, cli') /\ cli'.session = cli.session
        BY <1>1, <1>3 DEF ClientExited, Idler, Clients
    <2> QED BY <1>1, <1>3, <2>1, IdlerWaits DEF Asked
<1>4. CASE ClientKeyNo
    <2>1. /\ Idler(cli, cli') /\ cli'.session = cli.session
          /\ toSrv' \in Seq(FromClient(srv))
        BY <1>1, <1>2, <1>4 DEF ClientKeyNo, Idler, Clients
    <2> QED BY <1>1, <2>1, IdlerWaits DEF Asked
<1>5. CASE ClientKeyYes
    <2> DEFINE m    == cli.preAccept
               sent == Enqueue(toSrv, Accept(cli.session, TRUE))
               c    == [cli EXCEPT !.phase = "WAIT_REMOTE", !.awaitingFirst = TRUE,
                                   !.alive = FullTeams, !.preAccept = NoPkt]
    <2>1. /\ GoodClient(c) /\ c \in Clients /\ c.mode = "NETWORKED"
          /\ c.session = cli.session /\ Idler(cli, c)
        BY <1>1, TeamsType, NamesType DEF GoodClient, ClientOn, Clients, Idler
    <2>2. sent \in Seq(FromClient(srv))
        BY <1>2
    <2>3. \/ cli' = c /\ toSrv' = sent
          \/ /\ m # NoPkt
             /\ \E levelUp \in {FALSE, LevelUps} :
                  LET r == ApplyUpdate(c, sent, m, levelUp)
                  IN  cli' = r.cli /\ toSrv' = r.net
        BY <1>5 DEF ClientKeyYes
    <2>4. m # NoPkt => m \in UpdatePkts /\ cli.session \in Answered(srv)
        BY <1>1 DEF Clients, ClientWaits
    <2> HIDE DEF c, sent, m
    <2>5. CASE cli' = c /\ toSrv' = sent
        BY <1>1, <2>1, <2>2, <2>5, IdlerWaits DEF Asked
    <2>6. CASE /\ m # NoPkt
               /\ \E levelUp \in {FALSE, LevelUps} :
                    LET r == ApplyUpdate(c, sent, m, levelUp)
                    IN  cli' = r.cli /\ toSrv' = r.net
        <3>1. cli'.session = cli.session /\ toSrv' \in Seq(FromClient(srv))
            BY <2>1, <2>2, <2>4, <2>6, ApplyUpdateAnswered
        <3> QED BY <1>1, <2>4, <2>6, <3>1, AnsweredWaits DEF Asked
    <2> QED BY <2>3, <2>5, <2>6
<1>6. ASSUME cli.phase \in MenuPhases \/ (cli.phase = "WAIT_REMOTE" /\ ~cli.awaitingFirst)
      PROVE  cli.session \in Answered(srv)
    BY <1>1, <1>6 DEF ClientWaits, MenuPhases
<1>7. ASSUME cli.session \in Answered(srv), NEW act \in Moves \cup {Flee},
             NEW p \in Phases,
             LET r == SendActionV2(cli, toSrv, act)
             IN  cli' = [r.cli EXCEPT !.phase = p] /\ toSrv' = r.net
      PROVE  Asked
    <2>1. act \in Moves \cup {Flee, PureAck}
        OBVIOUS
    <2> DEFINE r == SendActionV2(cli, toSrv, act)
    <2>2. r.net \in Seq(FromClient(srv)) /\ r.cli.session = cli.session
        BY <1>1, <1>7, <2>1, SendActionAnswered
    <2>3. r.cli \in Clients
        BY <1>1, <2>1 DEF SendActionV2, Clients
    <2>4. cli' = [r.cli EXCEPT !.phase = p] /\ toSrv' = r.net
        BY <1>7
    <2> HIDE DEF r
    <2>5. cli'.session = cli.session
        BY <2>2, <2>3, <2>4 DEF Clients
    <2> QED BY <1>1, <1>7, <2>2, <2>4, <2>5, AnsweredWaits DEF Asked
<1>8. ASSUME cli.phase \in MenuPhases, NEW p \in MenuPhases,
             cli' = [cli EXCEPT !.phase = p], UNCHANGED toSrv
      PROVE  Asked
    <2>1. cli'.session = cli.session
        BY <1>1, <1>8 DEF Clients
    <2> QED BY <1>1, <1>6, <1>8, <2>1, AnsweredWaits DEF Asked
<1>9. CASE ClientKeyFlee
    <2>1. CASE cli.phase \in MenuPhases \cup {"WAIT_REMOTE"} /\ ~cli.awaitingFirst
               /\ LET r == SendActionV2(cli, toSrv, Flee)
                  IN  cli' = [r.cli EXCEPT !.phase = "FINISHED"] /\ toSrv' = r.net
        BY <1>6, <1>7, <2>1, NamesType
    <2>2. CASE UNCHANGED toSrv /\ cli.phase \in MenuPhases
               /\ \E p \in MenuPhases : cli' = [cli EXCEPT !.phase = p]
        BY <1>8, <2>2
    <2> QED BY <1>9, <2>1, <2>2 DEF ClientKeyFlee, MenuPhases
<1>10. CASE ClientKeySwitchMenu
    BY <1>8, <1>10 DEF ClientKeySwitchMenu, MenuPhases
<1>11. CASE ClientKeyPick
    <2>1. cli.session \in Answered(srv)
        BY <1>6, <1>11 DEF ClientKeyPick, MenuPhases
    <2>2. PICK mv \in Moves :
            LET r == SendActionV2(cli, toSrv, mv)
            IN  cli' = [r.cli EXCEPT !.phase = "WAIT_REMOTE"] /\ toSrv' = r.net
        BY <1>11 DEF ClientKeyPick
    <2> QED BY <1>7, <2>1, <2>2, NamesType
<1> QED BY <1>3, <1>4, <1>5, <1>9, <1>10, <1>11
        DEF ClientKey, ClientKeyFinished, ClientEvicted

LEMMA AnswerInit == Init => AnswerInv
BY EngineAssumption, BoundAssumption
   DEF Init, AnswerInv, ServerWaits, ClientWaits

LEMMA AnswerStep ==
    ASSUME TerminalHeld, ~SlowStart, ~EarlyFlee
    PROVE  TypeInv /\ AnswerInv /\ [Next]_vars
             => /\ AnswerInv'
                /\ cli' = cli \/ (UNCHANGED srv /\ Asked)
<1> SUFFICES ASSUME TypeInv, AnswerInv, [Next]_vars
             PROVE  AnswerInv' /\ (cli' = cli \/ (UNCHANGED srv /\ Asked))
    OBVIOUS
<1>1. ASSUME Answers(srv, srv', toCli'), toSrv' \in Seq(FromClient(srv)),
             UNCHANGED cli, srv' \in Servers
      PROVE  AnswerInv'
    <2>1. /\ FromClient(srv) \subseteq FromClient(srv')
          /\ ClientWaits(srv', cli)
        BY <1>1, ProceedsAnswered DEF Answers, AnswerInv, TypeInv, TypeOK
    <2>2. toSrv' \in Seq(FromClient(srv'))
        BY <1>1, <2>1, SeqMonotonic
    <2> QED BY <1>1, <2>1, <2>2 DEF Answers, AnswerInv
<1>2. TypeInv' /\ srv' \in Servers
    BY TypeStep DEF TypeInv, TypeOK
<1>3. ASSUME Asked, UNCHANGED srv, toCli' \in Seq(FromServer(srv))
      PROVE  AnswerInv'
    BY <1>3 DEF Asked, AnswerInv
<1>4. toSrv \in Seq(FromClient(srv)) /\ toCli \in Seq(FromServer(srv))
    BY DEF AnswerInv
<1>5. CASE SendChallenge
    BY <1>1, <1>2, <1>4, <1>5, ChallengeAnswers DEF SendChallenge
<1>6. CASE ServerReceive
    BY <1>1, <1>2, <1>6, ReceiveAnswers
<1>7. CASE ServerTick
    <2>1. UNCHANGED <<cli, toSrv>>
        BY <1>7 DEF ServerTick, ServerTickWhen
    <2> QED BY <1>1, <1>2, <1>4, <1>7, <2>1, TickAnswers
<1>8. CASE ServerKey
    <2>1. UNCHANGED <<cli, toSrv>>
        BY <1>8 DEF ServerKey, ServerKeyFinished, ServerKeyEsc, ServerKeyFlee,
           ServerKeySwitchMenu, ServerKeyPick, ServerEvicted, ServerKeys
    <2> QED BY <1>1, <1>2, <1>4, <1>8, <2>1, KeyAnswers
<1>9. CASE ClientReceive
    BY <1>3, <1>9, ClientReceiveAsked
<1>10. CASE ClientTick
    <2>1. UNCHANGED <<srv, toCli>>
        BY <1>10 DEF ClientTick, ClientTickWhen, ServerUnchanged
    <2> QED BY <1>3, <1>4, <1>10, <2>1, ClientTickAsked
<1>11. CASE ClientKey
    <2>1. UNCHANGED <<srv, toCli>>
        BY <1>11 DEF ClientKey, ClientKeyFinished, ClientKeyYes, ClientKeyNo,
           ClientKeyFlee, ClientKeySwitchMenu, ClientKeyPick, ClientEvicted,
           ClientKeys, ServerUnchanged
    <2> QED BY <1>3, <1>4, <1>11, <2>1, ClientKeyAsked
<1>12. CASE Lose
    <2>1. /\ UNCHANGED <<srv, cli>>
          /\ toCli' \in Losses(toCli) \cup {toCli}
          /\ toSrv' \in Losses(toSrv) \cup {toSrv}
        BY <1>12 DEF Lose, ServerUnchanged
    <2>2. toCli' \in Seq(FromServer(srv)) /\ toSrv' \in Seq(FromClient(srv))
        BY <1>4, <2>1, LossType
    <2> QED BY <2>1, <2>2 DEF AnswerInv
<1>13. CASE UNCHANGED vars
    BY <1>13 DEF vars, AnswerInv
<1> QED BY <1>5, <1>6, <1>7, <1>8, <1>9, <1>10, <1>11, <1>12, <1>13 DEF Next

\* The client starts playing, and stops repeating its ACCEPT, only when the
\* server has it (the comments of clientAuthOnUpdatePkt(),
\* clientAuthOnFullStatePkt() and clientAuthRetransmit()), on every kind of
\* link, if the first UPDATE takes less than 15 s and nobody flees before it:
\* a FULL_STATE asked for earlier could otherwise confirm a later ACCEPT.
THEOREM AcceptIsConfirmed ==
    ASSUME TerminalHeld, ~SlowStart, ~EarlyFlee
    PROVE  Spec => AcceptConfirmed
<1>1. Init => AnswerInv
    BY AnswerInit
<1>2. TypeInv /\ AnswerInv /\ [Next]_vars
        => /\ AnswerInv'
           /\ cli' = cli \/ (UNCHANGED srv /\ Asked)
    BY AnswerStep
<1>3. TypeInv /\ AnswerInv /\ (cli' = cli \/ (UNCHANGED srv /\ Asked))
        => [cli.awaitingFirst /\ ~cli'.awaitingFirst
            /\ cli'.phase = "WAIT_ACTION" /\ cli.session = srv.session
              => ~srv.awaitingAccept]_vars
    <2> SUFFICES ASSUME TypeInv, AnswerInv, UNCHANGED srv, Asked,
                        cli'.phase = "WAIT_ACTION", cli.session = srv.session
                 PROVE  ~srv.awaitingAccept
        OBVIOUS
    <2>1. cli'.session = srv.session /\ cli'.session \in Answered(srv)
        BY DEF Asked, ClientWaits
    <2>2. srv.session \in Nat
        BY SessionRange DEF TypeInv, TypeOK
    <2> QED BY <2>1, <2>2 DEF Answered
<1> QED BY <1>1, <1>2, <1>3, TypeInvariant, PTL DEF Spec, AcceptConfirmed
=============================================================================
