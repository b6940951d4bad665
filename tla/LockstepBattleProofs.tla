------------------------ MODULE LockstepBattleProofs ------------------------
(***************************************************************************)
(* Proofs about LockstepBattle, for every value of its constants: typing,  *)
(* that engines play only what users picked for that turn of that battle,  *)
(* and that the two engines of a battle entered without a leftover flag    *)
(* play the same moves and are at most one turn apart.                     *)
(*                                                                         *)
(* NodeInv(n) speaks of one node and of the picks; what a packet claims is *)
(* kept in the set its channel ranges over (PktsTo), so an action of one   *)
(* node leaves the other's NodeInv alone (Untouched).                      *)
(***************************************************************************)
EXTENDS LockstepBattle, MeshChannelProofs

Pair == (Moves \cup {NoAct}) \X (Moves \cup {NoAct})
Hashes == Seq(Pair) \X [Node -> Nat]
NodeRec == [phase : {"OFF", "WAIT_ACTION", "WAIT_REMOTE", "FINISHED"},
            session : Nat, pendingRemote : BOOLEAN,
            lastSent : Sent, prevSent : Sent,
            clean : BOOLEAN, aborted : BOOLEAN]

ActionPkts == [type : {"ACTION"}, sess : Nat, turn : Nat, act : Moves]
ForfeitPkts == [type : {"FORFEIT"}, sess : Nat]
HashPkts == [type : {"HASH"}, sess : Nat, turn : Nat, hash : Hashes]

\* An action on its way to n was picked by its peer for that turn.
PktsTo(n, ps) ==
    {m \in ActionPkts : <<m.sess, Peer(n), m.turn, m.act>> \in ps}
    \cup ForfeitPkts \cup HashPkts

NetInv ==
    /\ net = [n \in Node |-> net[n]]
    /\ \A n \in Node : net[n] \in Seq(PktsTo(n, picks)) /\ Len(net[n]) <= QueueDepth

PickedBy(n, m, t, act) == act \in Moves /\ <<node[n].session, m, t, act>> \in picks

\* What waits in an engine, and what it played, was picked.
EngineKnown(n) ==
    /\ \A s \in Side : eng[n].pend[s] # NoAct =>
         PickedBy(n, IF s = 0 THEN n ELSE Peer(n), eng[n].turn, eng[n].pend[s])
    /\ \A t \in 1 .. Len(played[n]) :
         /\ PickedBy(n, 0, t - 1, played[n][t][1])
         /\ PickedBy(n, 1, t - 1, played[n][t][2])

\* What lastSent and prevSent remember when they can be replayed.
SentKnown(n) ==
    LET last == node[n].lastSent
        prev == node[n].prevSent
        turn == eng[n].turn
    IN  /\ node[n].phase = "WAIT_REMOTE" => last.turn = turn
        /\ node[n].phase = "WAIT_REMOTE" \/ turn > 0 =>
              /\ last.turn \in {turn - 1, turn}
              /\ PickedBy(n, n, last.turn, last.act)
        /\ turn > 0 /\ last.turn > 0 => PickedBy(n, n, prev.turn, prev.act)

\* Users pick for the current turn; without a leftover flag, once.
PicksKnown(n) ==
    /\ \A s \in Nat, t \in Nat, act \in Moves :
         <<s, n, t, act>> \in picks =>
            s <= node[n].session /\ (s = node[n].session => t <= eng[n].turn)
    /\ node[n].clean =>
         \A t \in Nat, a, b \in Moves :
            PickedBy(n, n, t, a) /\ PickedBy(n, n, t, b) => a = b
    /\ node[n].clean /\ node[n].phase = "WAIT_ACTION" =>
         \A act \in Moves : ~PickedBy(n, n, eng[n].turn, act)

\* While the battle is played the flag says that the peer's action is in.
FlagKnown(n) ==
    /\ Playing(n) => eng[n].result = "ONGOING"
    /\ node[n].phase = "WAIT_REMOTE" => eng[n].pend[0] # NoAct
    /\ node[n].clean /\ Playing(n) /\ node[n].pendingRemote => eng[n].pend[1] # NoAct

NodeTyped(n) ==
    /\ node[n] \in NodeRec /\ eng[n] \in Engines /\ level[n] \in Nat
    /\ played[n] \in Seq(Pair) /\ eng[n].turn = Len(played[n])

NodeInv(n) == /\ NodeTyped(n) /\ EngineKnown(n) /\ SentKnown(n)
              /\ PicksKnown(n) /\ FlagKnown(n)

Shape == /\ node = [n \in Node |-> node[n]] /\ eng = [n \in Node |-> eng[n]]
         /\ level = [n \in Node |-> level[n]] /\ played = [n \in Node |-> played[n]]

IInv == Shape /\ NetInv /\ \A n \in Node : NodeInv(n)

Untouched(n) ==
    /\ node'[n] = node[n] /\ eng'[n] = eng[n]
    /\ level'[n] = level[n] /\ played'[n] = played[n]

-----------------------------------------------------------------------------
\* The engine as start(), submitAction() and forfeit() leave it.
LEMMA FreshEngine == Start(FullTeams) \in Engines
BY EngineAssumption DEF Start, FullTeams, Engines, Results, Side

LEMMA EngineMoves ==
    ASSUME NEW e \in Engines, NEW side \in Side, NEW mv \in Moves
    PROVE  /\ Submit(e, side, mv) \in Engines /\ Forfeit(e, side) \in Engines
           /\ Submit(e, side, mv).pend = [e.pend EXCEPT ![side] = mv]
           /\ Submit(e, side, mv).turn = e.turn /\ Submit(e, side, mv).result = e.result
           /\ Forfeit(e, side).pend = e.pend /\ Forfeit(e, side).turn = e.turn
BY DEF Submit, Forfeit, Engines, Results

LEMMA Peers == \A n \in Node : Peer(n) \in Node /\ Peer(n) # n /\ Peer(Peer(n)) = n
                               /\ \A m \in Node : m # n => m = Peer(n)
BY DEF Node, Peer

\* A node that did nothing, when its user picked nothing.
LEMMA NodeUntouched ==
    ASSUME NEW n \in Node, NodeInv(n), Untouched(n), picks \subseteq picks',
           \A x \in picks' \ picks : x[2] # n
    PROVE  NodeInv(n)'
<1>1. NodeTyped(n)' /\ FlagKnown(n)'
    BY DEF NodeInv, NodeTyped, FlagKnown, Untouched, Playing
<1>2. EngineKnown(n)' /\ SentKnown(n)'
    BY DEF NodeInv, EngineKnown, SentKnown, PickedBy, Untouched
<1>3. \A s, t, act : <<s, n, t, act>> \in picks' => <<s, n, t, act>> \in picks
    OBVIOUS
<1>4. PicksKnown(n)'
    BY <1>3 DEF NodeInv, PicksKnown, PickedBy, Untouched
<1> QED BY <1>1, <1>2, <1>4 DEF NodeInv

LEMMA PktsMonotonic ==
    ASSUME NEW n, NEW ps, NEW qs, ps \subseteq qs
    PROVE  PktsTo(n, ps) \subseteq PktsTo(n, qs)
BY DEF PktsTo

\* A channel nobody touched.
LEMMA NetUnchanged ==
    ASSUME NetInv, net' = net, picks \subseteq picks'
    PROVE  NetInv'
<1>1. ASSUME NEW n \in Node
      PROVE  net'[n] \in Seq(PktsTo(n, picks')) /\ Len(net'[n]) <= QueueDepth
    BY PktsMonotonic, SeqMonotonic DEF NetInv
<1> QED BY <1>1 DEF NetInv

\* A packet added to the channel to k.
LEMMA NetSent ==
    ASSUME NetInv, NEW k \in Node, NEW m \in PktsTo(k, picks'), picks \subseteq picks',
           net' = [net EXCEPT ![k] = Enqueue(@, m)]
    PROVE  NetInv'
<1>1. net' = [n \in Node |-> IF n = k THEN Enqueue(net[k], m) ELSE net[n]]
    BY DEF NetInv
<1>2. ASSUME NEW n \in Node
      PROVE  net[n] \in Seq(PktsTo(n, picks')) /\ Len(net[n]) <= QueueDepth
    BY PktsMonotonic, SeqMonotonic DEF NetInv
<1>3. Enqueue(net[k], m) \in Seq(PktsTo(k, picks'))
         /\ Len(Enqueue(net[k], m)) <= QueueDepth
    BY <1>2, EnqueueType, EnqueueLen
<1> QED BY <1>1, <1>2, <1>3 DEF NetInv

\* A packet handed over or lost.
LEMMA NetTaken ==
    ASSUME NetInv, NEW k \in Node, NEW i \in DOMAIN net[k],
           NEW rest, rest = [net EXCEPT ![k] = RemoveAt(@, i)]
    PROVE  /\ rest = [n \in Node |-> rest[n]]
           /\ \A n \in Node : rest[n] \in Seq(PktsTo(n, picks))
                              /\ Len(rest[n]) <= QueueDepth
<1>1. rest = [n \in Node |-> IF n = k THEN RemoveAt(net[k], i) ELSE net[n]]
    BY DEF NetInv
<1>2. \A n \in Node : net[n] \in Seq(PktsTo(n, picks)) /\ Len(net[n]) <= QueueDepth
    BY DEF NetInv
<1>3. RemoveAt(net[k], i) \in Seq(PktsTo(k, picks))
         /\ Len(RemoveAt(net[k], i)) = Len(net[k]) - 1 /\ Len(net[k]) \in Nat
    BY <1>2, RemoveAtType, RemoveAtLen, LenProperties
<1>4. Len(RemoveAt(net[k], i)) <= QueueDepth
    BY <1>2, <1>3, ChannelAssumption
<1> QED BY <1>1, <1>2, <1>3, <1>4

\* One node moved, the other is as it was.
LEMMA StepOf ==
    ASSUME IInv, NEW n \in Node, Shape', NetInv', NodeInv(n)', Untouched(Peer(n)),
           picks \subseteq picks', \A x \in picks' \ picks : x[2] = n
    PROVE  IInv'
<1>1. NodeInv(Peer(n))'
    BY Peers, NodeUntouched DEF IInv
<1>2. \A m \in Node : NodeInv(m)'
    BY <1>1, Peers
<1> QED BY <1>2 DEF IInv

-----------------------------------------------------------------------------
LEMMA InitInv == Init => IInv
<1> SUFFICES ASSUME Init PROVE IInv
    OBVIOUS
<1>1. Shape
    BY DEF Init, Shape
<1>2. NetInv
    <2>1. ASSUME NEW n \in Node
          PROVE  net[n] \in Seq(PktsTo(n, picks)) /\ Len(net[n]) <= QueueDepth
        <3>1. net[n] = << >>
            BY DEF Init
        <3> QED BY <3>1, EmptySeq, ChannelAssumption
    <2> QED BY <2>1 DEF Init, NetInv
<1>3. ASSUME NEW n \in Node PROVE NodeInv(n)
    <2>1. /\ node[n] = [phase |-> "OFF", session |-> 0, pendingRemote |-> FALSE,
                        lastSent |-> NothingSent, prevSent |-> NothingSent,
                        clean |-> TRUE, aborted |-> FALSE]
          /\ eng[n] = Start(FullTeams) /\ level[n] = 0
          /\ played[n] = << >> /\ picks = {}
        BY DEF Init
    <2>2. NodeTyped(n)
        <3>1. NothingSent \in Sent
            BY DEF NothingSent, Sent
        <3>2. node[n] \in NodeRec
            BY <2>1, <3>1 DEF NodeRec
        <3>3. eng[n] \in Engines
            BY <2>1, FreshEngine
        <3>4. played[n] \in Seq(Pair) /\ eng[n].turn = Len(played[n])
            BY <2>1, EmptySeq DEF Start
        <3> QED BY <2>1, <3>2, <3>3, <3>4 DEF NodeTyped
    <2>3. EngineKnown(n)
        BY <2>1, EmptySeq DEF EngineKnown, Start
    <2>4. SentKnown(n) /\ FlagKnown(n)
        BY <2>1 DEF SentKnown, FlagKnown, Start, Playing
    <2>5. PicksKnown(n)
        BY <2>1 DEF PicksKnown, PickedBy
    <2> QED BY <2>2, <2>3, <2>4, <2>5 DEF NodeInv
<1> QED BY <1>1, <1>2, <1>3 DEF IInv

-----------------------------------------------------------------------------
(* One lemma per action. *)

LEMMA LaunchStep ==
    ASSUME IInv, NEW n \in Node, Launch(n)
    PROVE  IInv'
<1> DEFINE s == node[n].session + 1
<1>1. node[n] \in NodeRec /\ PicksKnown(n) /\ Shape /\ NetInv
    BY DEF IInv, NodeInv, NodeTyped
<1>2. /\ node' = [node EXCEPT ![n].phase = "WAIT_ACTION", ![n].session = s,
                              ![n].pendingRemote = LaunchKept(n),
                              ![n].clean = ~LaunchKept(n),
                              ![n].aborted = FALSE]
      /\ eng' = [eng EXCEPT ![n] = Start(FullTeams)]
      /\ level' = [level EXCEPT ![n] = 0]
      /\ played' = [played EXCEPT ![n] = << >>]
      /\ picks' = picks
    BY DEF Launch
<1>3. /\ Shape'
      /\ eng'[n] = Start(FullTeams) /\ level'[n] = 0 /\ played'[n] = << >>
    BY <1>1, <1>2 DEF Shape
<1>4. PICK kept \in BOOLEAN, clean \in BOOLEAN :
        /\ ~(kept /\ clean)
        /\ node'[n] = [node[n] EXCEPT !.phase = "WAIT_ACTION", !.session = s,
                                      !.pendingRemote = kept,
                                      !.clean = clean, !.aborted = FALSE]
    <2>1. CASE LaunchKept(n)
        <3>1. LaunchKept(n) = TRUE /\ (~LaunchKept(n)) = FALSE
            BY <2>1 DEF LaunchKept
        <3>2. node'[n] = [node[n] EXCEPT !.phase = "WAIT_ACTION", !.session = s,
                                         !.pendingRemote = TRUE,
                                         !.clean = FALSE, !.aborted = FALSE]
            BY <1>1, <1>2, <3>1 DEF Shape
        <3> QED BY <3>2
    <2>2. CASE ~LaunchKept(n)
        <3>1. LaunchKept(n) = FALSE /\ (~LaunchKept(n)) = TRUE
            BY <2>2 DEF LaunchKept, NodeRec
        <3>2. node'[n] = [node[n] EXCEPT !.phase = "WAIT_ACTION", !.session = s,
                                         !.pendingRemote = FALSE,
                                         !.clean = TRUE, !.aborted = FALSE]
            BY <1>1, <1>2, <3>1 DEF Shape
        <3> QED BY <3>2
    <2> QED BY <2>1, <2>2
<1>5. Untouched(Peer(n))
    BY <1>1, <1>2, Peers DEF Shape, Untouched
<1>6. NodeTyped(n)'
    <2>1. s \in Nat
        BY <1>1 DEF NodeRec
    <2>2. node'[n] \in NodeRec
        <3> HIDE DEF s
        <3> QED BY <1>1, <1>4, <2>1 DEF NodeRec
    <2>3. eng'[n] \in Engines
        BY <1>3, FreshEngine
    <2>4. played'[n] \in Seq(Pair) /\ eng'[n].turn = Len(played'[n])
        BY <1>3, EmptySeq DEF Start
    <2> QED BY <1>3, <2>2, <2>3, <2>4 DEF NodeTyped
<1>7. node'[n].session = s /\ node'[n].phase = "WAIT_ACTION"
      /\ node'[n].pendingRemote = kept /\ node'[n].clean = clean
      /\ s \in Nat /\ s > node[n].session
    BY <1>1, <1>4 DEF NodeRec
<1>8. EngineKnown(n)'
    BY <1>3, EmptySeq DEF EngineKnown, Start
<1>9. SentKnown(n)'
    BY <1>3, <1>7 DEF SentKnown, Start
<1>10. PicksKnown(n)'
    <2>1. \A r \in Nat, t \in Nat, act \in Moves :
            <<r, n, t, act>> \in picks' => r <= node[n].session
        BY <1>1, <1>2 DEF PicksKnown
    <2>2. \A r \in Nat, t \in Nat, act \in Moves :
            <<r, n, t, act>> \in picks' => r < s
        BY <2>1, <1>7, <1>1 DEF NodeRec
    <2>3. \A t \in Nat, act \in Moves : ~PickedBy(n, n, t, act)'
        BY <2>2, <1>7 DEF PickedBy
    <2>4. eng'[n].turn \in Nat
        BY <1>3 DEF Start
    <2> QED BY <2>2, <2>3, <2>4, <1>7 DEF PicksKnown
<1>11. FlagKnown(n)'
    <2>1. ~(node'[n].clean /\ node'[n].pendingRemote)
        BY <1>4, <1>7
    <2> QED BY <1>3, <1>7, <2>1 DEF FlagKnown, Playing, Start
<1>12. NetInv'
    <2>1. CASE n = 0
        BY <1>1, <1>2, <2>1, NetUnchanged DEF Launch
    <2>2. CASE n # 0
        <3> DEFINE m == [type |-> "HASH", sess |-> s, turn |-> 0,
                         hash |-> <<<< >>, [k \in Node |-> 0]>>]
        <3>1. net' = [net EXCEPT ![Peer(n)] = Enqueue(@, m)]
            BY <2>2 DEF Launch, Transmit
        <3>2. << >> \in Seq(Pair)
            BY EmptySeq
        <3>3. m \in HashPkts
            BY <1>7, <3>2 DEF HashPkts, Hashes
        <3>4. m \in PktsTo(Peer(n), picks')
            BY <3>3 DEF PktsTo
        <3> HIDE DEF m
        <3> QED BY <1>1, <1>2, <3>1, <3>4, Peers, NetSent
    <2> QED BY <2>1, <2>2
<1>13. NodeInv(n)'
    BY <1>6, <1>8, <1>9, <1>10, <1>11 DEF NodeInv
<1> QED BY <1>2, <1>3, <1>5, <1>12, <1>13, StepOf

\* A node that leaves the battle, or stays out of it.
LEMMA Ended ==
    ASSUME NEW n \in Node, NodeInv(n), node'[n] \in NodeRec, eng'[n] \in Engines,
           node'[n].phase \in {"FINISHED", "OFF"},
           node'[n].session = node[n].session, node'[n].clean = node[n].clean,
           node'[n].lastSent = node[n].lastSent, node'[n].prevSent = node[n].prevSent,
           eng'[n].pend = eng[n].pend, eng'[n].turn = eng[n].turn,
           level'[n] = level[n], played'[n] = played[n], picks' = picks
    PROVE  NodeInv(n)'
<1>1. NodeTyped(n)'
    BY DEF NodeInv, NodeTyped
<1>2. \A m, t, act : PickedBy(n, m, t, act)' <=> PickedBy(n, m, t, act)
    BY DEF PickedBy
<1>3. EngineKnown(n)' /\ SentKnown(n)'
    BY <1>2 DEF NodeInv, EngineKnown, SentKnown
<1>4. PicksKnown(n)'
    BY <1>2 DEF NodeInv, PicksKnown
<1>5. FlagKnown(n)'
    BY DEF FlagKnown, Playing
<1> QED BY <1>1, <1>3, <1>4, <1>5 DEF NodeInv

\* sendAction() of an action the user picked for this turn: in both its uses
\* the packet is honest and lastSent, prevSent stay replayable.
LEMMA SendActionKeeps ==
    ASSUME IInv, NEW n \in Node, NEW act \in Moves, SendAction(n, act),
           <<node[n].session, n, eng[n].turn, act>> \in picks',
           picks \subseteq picks', eng'[n].turn = eng[n].turn
    PROVE  /\ node' = [k \in Node |-> node'[k]] /\ NetInv'
           /\ node'[Peer(n)] = node[Peer(n)]
           /\ node'[n] \in NodeRec /\ node'[n].phase = "WAIT_REMOTE"
           /\ node'[n].session = node[n].session /\ node'[n].clean = node[n].clean
           /\ node'[n].pendingRemote = node[n].pendingRemote
           /\ SentKnown(n)'
<1> DEFINE last == [act |-> act, turn |-> eng[n].turn]
<1>1. node[n] \in NodeRec /\ eng[n].turn \in Nat /\ Shape /\ NetInv /\ SentKnown(n)
    BY DEF IInv, NodeInv, NodeTyped, Engines
<1>2. Demote(node[n]) \in Sent /\ last \in Sent
    BY <1>1 DEF Demote, NodeRec, Sent
<1>3. /\ node' = [k \in Node |-> node'[k]]
      /\ node'[Peer(n)] = node[Peer(n)]
      /\ node'[n] = [node[n] EXCEPT !.phase = "WAIT_REMOTE",
                                    !.prevSent = Demote(node[n]), !.lastSent = last]
    BY <1>1, Peers DEF SendAction, Shape
<1>4. /\ node'[n] \in NodeRec /\ node'[n].phase = "WAIT_REMOTE"
      /\ node'[n].session = node[n].session /\ node'[n].clean = node[n].clean
      /\ node'[n].pendingRemote = node[n].pendingRemote
      /\ node'[n].lastSent = last /\ node'[n].prevSent = Demote(node[n])
    <2> HIDE DEF last
    <2> QED BY <1>1, <1>2, <1>3 DEF NodeRec
<1>5. SentKnown(n)'
    <2>1. PickedBy(n, n, last.turn, last.act)'
        BY <1>4 DEF PickedBy
    <2>2. ASSUME eng[n].turn > 0
          PROVE  PickedBy(n, n, node[n].prevSent.turn, node[n].prevSent.act)'
        <3>1. PickedBy(n, n, node[n].lastSent.turn, node[n].lastSent.act)
            BY <1>1, <2>2 DEF SentKnown
        <3>2. Demote(node[n]) = node[n].lastSent
            BY <3>1, EngineAssumption DEF Demote, PickedBy
        <3> QED BY <3>1, <3>2, <1>4 DEF PickedBy
    <2> QED BY <2>1, <2>2, <1>1, <1>4 DEF SentKnown
<1>6. NetInv'
    <2> DEFINE m == Action(node[n].session, eng[n].turn, act)
    <2>1. m \in ActionPkts /\ m.sess = node[n].session /\ m.turn = eng[n].turn
             /\ m.act = act
        BY <1>1 DEF Action, ActionPkts, NodeRec
    <2>2. m \in PktsTo(Peer(n), picks')
        BY <2>1, Peers DEF PktsTo
    <2>3. net' = [net EXCEPT ![Peer(n)] = Enqueue(@, m)]
        BY DEF SendAction, Transmit
    <2> HIDE DEF m
    <2> QED BY <1>1, <2>2, <2>3, Peers, NetSent
<1> QED BY <1>3, <1>4, <1>5, <1>6

LEMMA PickStep ==
    ASSUME IInv, NEW n \in Node, NEW mv \in Moves, Pick(n, mv)
    PROVE  IInv'
<1> DEFINE pick == <<node[n].session, n, eng[n].turn, mv>>
<1>1. /\ node[n].phase = "WAIT_ACTION" /\ SendAction(n, mv)
      /\ eng' = [eng EXCEPT ![n] = Submit(@, 0, mv)]
      /\ picks' = picks \cup {pick} /\ level' = level /\ played' = played
    BY DEF Pick
<1>2. Shape /\ NodeInv(n) /\ NodeTyped(n)
    BY DEF IInv, NodeInv
<1>3. /\ eng' = [k \in Node |-> eng'[k]] /\ eng'[Peer(n)] = eng[Peer(n)]
      /\ eng'[n] = Submit(eng[n], 0, mv)
    BY <1>1, <1>2, Peers DEF Shape
<1>4. /\ eng'[n] \in Engines /\ eng'[n].turn = eng[n].turn
      /\ eng'[n].result = eng[n].result /\ eng'[n].pend = [eng[n].pend EXCEPT ![0] = mv]
      /\ eng[n].pend \in [Side -> Moves \cup {NoAct}]
    <2>1. eng[n] \in Engines /\ 0 \in Side
        BY <1>2 DEF NodeTyped, Side
    <2> QED BY <1>3, <2>1, EngineMoves DEF Engines
<1>5. /\ node' = [k \in Node |-> node'[k]] /\ NetInv'
      /\ node'[Peer(n)] = node[Peer(n)]
      /\ node'[n] \in NodeRec /\ node'[n].phase = "WAIT_REMOTE"
      /\ node'[n].session = node[n].session /\ node'[n].clean = node[n].clean
      /\ node'[n].pendingRemote = node[n].pendingRemote
      /\ SentKnown(n)'
    BY <1>1, <1>4, SendActionKeeps
<1>6. Shape' /\ Untouched(Peer(n))
    BY <1>1, <1>2, <1>3, <1>5 DEF Shape, Untouched
<1>7. NodeTyped(n)'
    BY <1>1, <1>2, <1>4, <1>5 DEF NodeTyped
<1>8. \A m, t, act : PickedBy(n, m, t, act) => PickedBy(n, m, t, act)'
    BY <1>1, <1>5 DEF PickedBy
<1>9. EngineKnown(n)'
    <2>1. PickedBy(n, n, eng[n].turn, mv)'
        BY <1>1, <1>4, <1>5 DEF PickedBy
    <2>2. eng'[n].pend[0] = mv /\ eng'[n].pend[1] = eng[n].pend[1]
        BY <1>4 DEF Side
    <2> QED BY <2>1, <2>2, <1>1, <1>2, <1>4, <1>8 DEF NodeInv, EngineKnown, Side
<1>10. PicksKnown(n)'
    <2>1. PicksKnown(n) /\ node[n].session \in Nat /\ eng[n].turn \in Nat
        BY <1>2 DEF NodeInv, NodeTyped, NodeRec, Engines
    <2>2. \A s, m, t, act : <<s, m, t, act>> \in picks' =>
            \/ <<s, m, t, act>> \in picks
            \/ s = node[n].session /\ m = n /\ t = eng[n].turn /\ act = mv
        BY <1>1
    <2>3. \A s \in Nat, t \in Nat, act \in Moves :
            <<s, n, t, act>> \in picks' =>
               s <= node'[n].session /\ (s = node'[n].session => t <= eng'[n].turn)
        BY <2>1, <2>2, <1>4, <1>5 DEF PicksKnown
    <2>4. \A t, act : PickedBy(n, n, t, act)' =>
            PickedBy(n, n, t, act) \/ (t = eng[n].turn /\ act = mv)
        BY <2>2, <1>5 DEF PickedBy
    <2>5. node'[n].clean => \A act \in Moves : ~PickedBy(n, n, eng[n].turn, act)
        BY <2>1, <1>1, <1>5 DEF PicksKnown
    <2>6. node'[n].clean =>
            \A t \in Nat, a, b \in Moves :
               PickedBy(n, n, t, a)' /\ PickedBy(n, n, t, b)' => a = b
        BY <2>1, <2>4, <2>5, <1>5 DEF PicksKnown
    <2> QED BY <2>3, <2>6, <1>5 DEF PicksKnown
<1>11. FlagKnown(n)'
    <2>1. FlagKnown(n) /\ Playing(n)
        BY <1>1, <1>2 DEF NodeInv, Playing
    <2>2. eng'[n].pend[0] = mv /\ eng'[n].pend[1] = eng[n].pend[1] /\ mv # NoAct
        BY <1>4, EngineAssumption DEF Side
    <2> QED BY <2>1, <2>2, <1>4, <1>5 DEF FlagKnown
<1>12. NodeInv(n)'
    BY <1>5, <1>7, <1>9, <1>10, <1>11 DEF NodeInv
<1>13. picks \subseteq picks' /\ \A x \in picks' \ picks : x[2] = n
    BY <1>1
<1> QED BY <1>5, <1>6, <1>12, <1>13, StepOf

LEMMA ResendStep ==
    ASSUME IInv, NEW n \in Node, Resend(n)
    PROVE  IInv'
<1> DEFINE act == node[n].lastSent.act
<1>1. /\ node[n].phase = "WAIT_REMOTE" /\ SendAction(n, act)
      /\ eng' = eng /\ picks' = picks /\ level' = level /\ played' = played
    BY DEF Resend, ResendDue
<1>2. Shape /\ NodeInv(n)
    BY DEF IInv
<1>3. act \in Moves /\ <<node[n].session, n, eng[n].turn, act>> \in picks
    BY <1>1, <1>2 DEF NodeInv, SentKnown, PickedBy
<1>4. /\ node' = [k \in Node |-> node'[k]] /\ NetInv'
      /\ node'[Peer(n)] = node[Peer(n)]
      /\ node'[n] \in NodeRec /\ node'[n].phase = "WAIT_REMOTE"
      /\ node'[n].session = node[n].session /\ node'[n].clean = node[n].clean
      /\ node'[n].pendingRemote = node[n].pendingRemote
      /\ SentKnown(n)'
    <2> HIDE DEF act
    <2> QED BY <1>1, <1>3, SendActionKeeps
<1>5. Shape' /\ Untouched(Peer(n))
    BY <1>1, <1>2, <1>4 DEF Shape, Untouched
<1>6. \A m, t, a : PickedBy(n, m, t, a)' <=> PickedBy(n, m, t, a)
    BY <1>1, <1>4 DEF PickedBy
<1>7. NodeTyped(n)' /\ EngineKnown(n)'
    BY <1>1, <1>2, <1>4, <1>6 DEF NodeInv, NodeTyped, EngineKnown
<1>8. PicksKnown(n)' /\ FlagKnown(n)'
    BY <1>1, <1>2, <1>4, <1>6 DEF NodeInv, PicksKnown, FlagKnown, Playing
<1>9. NodeInv(n)'
    BY <1>4, <1>7, <1>8 DEF NodeInv
<1> QED BY <1>1, <1>4, <1>5, <1>9, StepOf

\* A forfeit decides the engine and touches nothing that waits in it.
LEMMA ForfeitKeeps ==
    ASSUME IInv, NEW n \in Node, NEW side \in Side,
           eng' = [eng EXCEPT ![n] = Forfeit(@, side)]
    PROVE  /\ eng' = [k \in Node |-> eng'[k]] /\ eng'[Peer(n)] = eng[Peer(n)]
           /\ eng'[n] \in Engines /\ eng'[n].pend = eng[n].pend
           /\ eng'[n].turn = eng[n].turn
<1>1. Shape /\ eng[n] \in Engines
    BY DEF IInv, NodeInv, NodeTyped
<1>2. /\ eng' = [k \in Node |-> eng'[k]] /\ eng'[Peer(n)] = eng[Peer(n)]
      /\ eng'[n] = Forfeit(eng[n], side)
    BY <1>1, Peers DEF Shape
<1>3. /\ Forfeit(eng[n], side) \in Engines
      /\ Forfeit(eng[n], side).pend = eng[n].pend
      /\ Forfeit(eng[n], side).turn = eng[n].turn
    BY <1>1 DEF Forfeit, Engines, Results
<1> QED BY <1>2, <1>3

\* The phase changes to FINISHED or OFF; aborted may be set.
LEMMA Leaving ==
    ASSUME IInv, NEW n \in Node, NEW phase \in {"FINISHED", "OFF"}, NEW aborted \in BOOLEAN,
           node' = [node EXCEPT ![n].phase = phase, ![n].aborted = aborted],
           eng' = [k \in Node |-> eng'[k]], eng'[Peer(n)] = eng[Peer(n)],
           eng'[n] \in Engines, eng'[n].pend = eng[n].pend,
           eng'[n].turn = eng[n].turn,
           level' = level, played' = played, picks' = picks, NetInv'
    PROVE  IInv'
<1>1. Shape /\ NodeInv(n) /\ node[n] \in NodeRec
    BY DEF IInv, NodeInv, NodeTyped
<1>2. /\ node' = [k \in Node |-> node'[k]] /\ node'[Peer(n)] = node[Peer(n)]
      /\ node'[n] = [node[n] EXCEPT !.phase = phase, !.aborted = aborted]
    BY <1>1, Peers DEF Shape
<1>3. /\ node'[n] \in NodeRec /\ node'[n].phase = phase
      /\ node'[n].session = node[n].session /\ node'[n].clean = node[n].clean
      /\ node'[n].lastSent = node[n].lastSent /\ node'[n].prevSent = node[n].prevSent
    BY <1>1, <1>2 DEF NodeRec
<1>4. Shape' /\ Untouched(Peer(n))
    BY <1>1, <1>2 DEF Shape, Untouched
<1>5. NodeInv(n)'
    BY <1>1, <1>3, Ended
<1> QED BY <1>4, <1>5, StepOf

\* The same without the abort.
LEMMA LeavingQuietly ==
    ASSUME IInv, NEW n \in Node, NEW phase \in {"FINISHED", "OFF"},
           node' = [node EXCEPT ![n].phase = phase],
           eng' = [k \in Node |-> eng'[k]], eng'[Peer(n)] = eng[Peer(n)],
           eng'[n] \in Engines, eng'[n].pend = eng[n].pend,
           eng'[n].turn = eng[n].turn,
           level' = level, played' = played, picks' = picks, NetInv'
    PROVE  IInv'
<1>1. Shape /\ NodeInv(n) /\ node[n] \in NodeRec
    BY DEF IInv, NodeInv, NodeTyped
<1>2. node[n].aborted \in BOOLEAN
    BY <1>1 DEF NodeRec
<1>3. node' = [node EXCEPT ![n].phase = phase, ![n].aborted = node[n].aborted]
    <2>1. node'[n] = [node[n] EXCEPT !.phase = phase, !.aborted = node[n].aborted]
        BY <1>1 DEF Shape, NodeRec
    <2>2. \A k \in Node : k # n => node'[k] = node[k]
        BY <1>1 DEF Shape
    <2> QED BY <1>1, <2>1, <2>2 DEF Shape
<1> QED BY <1>2, <1>3, Leaving

LEMMA FleeStep ==
    ASSUME IInv, NEW n \in Node, Flee(n)
    PROVE  IInv'
<1>1. /\ eng' = [eng EXCEPT ![n] = Forfeit(@, 0)]
      /\ node' = [node EXCEPT ![n].phase = "FINISHED"]
      /\ level' = level /\ played' = played /\ picks' = picks
    BY DEF Flee
<1>2. NetInv'
    <2> DEFINE m == ForfeitPkt(node[n].session)
    <2>1. node[n].session \in Nat /\ NetInv
        BY DEF IInv, NodeInv, NodeTyped, NodeRec
    <2>2. m \in PktsTo(Peer(n), picks')
        BY <2>1 DEF ForfeitPkt, ForfeitPkts, PktsTo
    <2>3. net' = [net EXCEPT ![Peer(n)] = Enqueue(@, m)]
        BY DEF Flee, Transmit
    <2> HIDE DEF m
    <2> QED BY <1>1, <2>1, <2>2, <2>3, Peers, NetSent
<1>3. 0 \in Side
    BY DEF Side
<1> QED BY <1>1, <1>2, <1>3, ForfeitKeeps, LeavingQuietly

\* A step that leaves the engines alone keeps them whole.
LEMMA EngineKept ==
    ASSUME IInv, NEW n \in Node, eng' = eng
    PROVE  /\ eng' = [k \in Node |-> eng'[k]] /\ eng'[Peer(n)] = eng[Peer(n)]
           /\ eng'[n] \in Engines /\ eng'[n].pend = eng[n].pend
           /\ eng'[n].turn = eng[n].turn
BY DEF IInv, Shape, NodeInv, NodeTyped

LEMMA ExitStep ==
    ASSUME IInv, NEW n \in Node, Exit(n)
    PROVE  IInv'
<1>1. /\ node' = [node EXCEPT ![n].phase = "OFF"]
      /\ eng' = eng /\ level' = level /\ played' = played /\ picks' = picks
      /\ NetInv'
    BY NetUnchanged DEF Exit, IInv
<1> QED BY <1>1, EngineKept, LeavingQuietly

LEMMA TimeoutStep ==
    ASSUME IInv, NEW n \in Node, Timeout(n)
    PROVE  IInv'
<1>1. /\ node' = [node EXCEPT ![n].phase = "FINISHED"]
      /\ level' = level /\ played' = played /\ picks' = picks /\ NetInv'
    BY NetUnchanged DEF Timeout, IInv
<1>2. CASE eng[n].result = "ONGOING"
    <2>1. eng' = [eng EXCEPT ![n] = Forfeit(@, 1)] /\ 1 \in Side
        BY <1>2 DEF Timeout, Side
    <2> QED BY <1>1, <2>1, ForfeitKeeps, LeavingQuietly
<1>3. CASE eng[n].result # "ONGOING"
    <2>1. eng' = eng
        BY <1>3 DEF Timeout, IInv, Shape
    <2> QED BY <1>1, <2>1, EngineKept, LeavingQuietly
<1> QED BY <1>2, <1>3

\* A step of the channels alone.
LEMMA NetStep ==
    ASSUME IInv, NetInv',
           node' = node, eng' = eng, level' = level, played' = played, picks' = picks
    PROVE  IInv'
<1>1. ASSUME NEW n \in Node PROVE NodeInv(n)'
    BY NodeUntouched DEF IInv, Untouched
<1> QED BY <1>1 DEF IInv, Shape

LEMMA LoseStep ==
    ASSUME IInv, NEW n \in Node, Lose(n)
    PROVE  IInv'
<1>1. PICK i \in DOMAIN net[n] : net' = [net EXCEPT ![n] = RemoveAt(@, i)]
    BY DEF Lose, Losses
<1>2. picks' = picks /\ NetInv
    BY DEF Lose, IInv
<1>3. NetInv'
    BY <1>1, <1>2, NetTaken DEF NetInv
<1> QED BY <1>3, NetStep DEF Lose

-----------------------------------------------------------------------------
(* resolveTurn() and handlePacket(). *)

\* The two actions a turn is played with were picked.
LEMMA OrientedPicked ==
    ASSUME NEW n \in Node, EngineKnown(n), Ready(eng[n]), NodeTyped(n)
    PROVE  /\ Oriented(n, eng[n].pend) \in Pair
           /\ PickedBy(n, 0, eng[n].turn, Oriented(n, eng[n].pend)[1])
           /\ PickedBy(n, 1, eng[n].turn, Oriented(n, eng[n].pend)[2])
<1>1. /\ eng[n].pend[0] \in Moves \cup {NoAct} /\ eng[n].pend[1] \in Moves \cup {NoAct}
      /\ eng[n].pend[0] # NoAct /\ eng[n].pend[1] # NoAct
    BY DEF NodeTyped, Engines, Ready, Side
<1>2. /\ PickedBy(n, n, eng[n].turn, eng[n].pend[0])
      /\ PickedBy(n, Peer(n), eng[n].turn, eng[n].pend[1])
    BY <1>1 DEF EngineKnown, Side
<1>3. \/ /\ n = 0 /\ Peer(n) = 1
         /\ Oriented(n, eng[n].pend) = <<eng[n].pend[0], eng[n].pend[1]>>
      \/ /\ n = 1 /\ Peer(n) = 0
         /\ Oriented(n, eng[n].pend) = <<eng[n].pend[1], eng[n].pend[0]>>
    BY DEF Node, Peer, Oriented
<1>4. Oriented(n, eng[n].pend) \in Pair
    BY <1>1, <1>3 DEF Pair
<1>5. /\ PickedBy(n, 0, eng[n].turn, Oriented(n, eng[n].pend)[1])
      /\ PickedBy(n, 1, eng[n].turn, Oriented(n, eng[n].pend)[2])
    <2>1. CASE n = 0
        BY <1>2, <1>3, <2>1
    <2>2. CASE n = 1
        BY <1>2, <1>3, <2>2
    <2> QED BY <2>1, <2>2 DEF Node
<1> QED BY <1>4, <1>5

\* What is left of the two teams, in the order of the node's engine.
LEMMA OutcomeType ==
    ASSUME NEW n \in Node, NodeTyped(n), NEW f \in Outcomes(n)
    PROVE  [s \in Side |-> IF (s = 0) = (n = 0) THEN f.alive[1] ELSE f.alive[2]]
              \in [Side -> 0 .. TeamSize]
<1>1. PICK a \in Survivors(eng[n].alive) : f.alive = Oriented(n, a)
    BY DEF Outcomes
<1>2. a[0] \in 0 .. TeamSize /\ a[1] \in 0 .. TeamSize
    BY DEF Survivors, Side
<1>3. f.alive[1] \in 0 .. TeamSize /\ f.alive[2] \in 0 .. TeamSize
    BY <1>1, <1>2 DEF Oriented, Node, Peer
<1> QED BY <1>3

LEMMA PlayTurnStep ==
    ASSUME IInv, NEW n \in Node, node[n].phase = "WAIT_REMOTE", Ready(eng[n]),
           PlayTurn(n), picks' = picks
    PROVE  IInv'
<1> DEFINE pair == Oriented(n, eng[n].pend)
           Board(f) == [s \in Side |-> IF (s = 0) = (n = 0) THEN f.alive[1] ELSE f.alive[2]]
           After(f) == [turn |-> eng[n].turn + 1, result |-> ResultOf(Board(f)),
                        pend |-> [s \in Side |-> NoAct], alive |-> Board(f)]
<1>1. /\ Shape /\ NetInv /\ NodeInv(n) /\ NodeTyped(n) /\ EngineKnown(n)
      /\ node[n] \in NodeRec /\ eng[n].turn \in Nat /\ eng[n].turn = Len(played[n])
      /\ played[n] \in Seq(Pair) /\ level[n] \in Nat
    BY DEF IInv, NodeInv, NodeTyped, Engines
<1>2. PICK f \in Outcomes(n) :
        /\ eng' = [eng EXCEPT ![n] = After(f)]
        /\ played' = [played EXCEPT ![n] = Append(@, pair)]
        /\ \E up \in 0 .. IF LevelUps /\ Board(f)[1] < eng[n].alive[1] /\ Board(f)[0] > 0
                           THEN 1 ELSE 0 :
              level' = [level EXCEPT ![n] = @ + up]
        /\ IF After(f).result # "ONGOING"
           THEN /\ node' = [node EXCEPT ![n].phase = "FINISHED"]
                /\ UNCHANGED net
           ELSE /\ node' = [node EXCEPT ![n].phase = "WAIT_ACTION",
                                        ![n].pendingRemote = FALSE]
                /\ Transmit(n, [type |-> "HASH", sess |-> node[n].session,
                                turn |-> After(f).turn,
                                hash |-> <<played'[n],
                                    [m \in Node |-> IF m = n THEN level'[n] ELSE 0]>>])
    BY Zenon DEF PlayTurn
<1>3. Board(f) \in [Side -> 0 .. TeamSize]
    BY <1>1, OutcomeType
<1>4. /\ pair \in Pair /\ PickedBy(n, 0, eng[n].turn, pair[1])
      /\ PickedBy(n, 1, eng[n].turn, pair[2])
    BY <1>1, OrientedPicked
<1>5. /\ eng' = [k \in Node |-> eng'[k]] /\ eng'[Peer(n)] = eng[Peer(n)]
      /\ eng'[n] = After(f)
    BY <1>1, <1>2, Peers DEF Shape
<1>6. /\ eng'[n] \in Engines /\ eng'[n].turn = eng[n].turn + 1
      /\ eng'[n].pend = [s \in Side |-> NoAct]
      /\ eng'[n].result = ResultOf(Board(f))
    <2> HIDE DEF Board
    <2>1. ResultOf(Board(f)) \in Results
        BY DEF ResultOf, Results
    <2> QED BY <1>1, <1>3, <1>5, <2>1 DEF Engines
<1>7. /\ played' = [k \in Node |-> played'[k]] /\ played'[Peer(n)] = played[Peer(n)]
      /\ played'[n] = Append(played[n], pair)
    <2> HIDE DEF pair
    <2> QED BY <1>1, <1>2, Peers DEF Shape
<1>8. /\ played'[n] \in Seq(Pair) /\ Len(played'[n]) = Len(played[n]) + 1
      /\ Len(played[n]) \in Nat
      /\ \A t \in 1 .. Len(played[n]) : played'[n][t] = played[n][t]
      /\ played'[n][Len(played[n]) + 1] = pair
    <2> HIDE DEF pair
    <2> QED BY <1>1, <1>4, <1>7, AppendProperties, LenProperties
<1>9. /\ level' = [k \in Node |-> level'[k]] /\ level'[Peer(n)] = level[Peer(n)]
      /\ level'[n] \in Nat
    <2> DEFINE most == IF LevelUps /\ Board(f)[1] < eng[n].alive[1] /\ Board(f)[0] > 0
                       THEN 1 ELSE 0
    <2>0. most \in {0, 1}
        OBVIOUS
    <2>1. PICK up \in 0 .. most : level' = [level EXCEPT ![n] = @ + up]
        BY <1>2
    <2> HIDE DEF most
    <2>2. up \in Nat
        BY <2>0, <2>1
    <2>3. level[n] + up \in Nat
        BY <1>1, <2>2
    <2> QED BY <1>1, <2>1, <2>3, Peers DEF Shape
<1>10. /\ node' = [k \in Node |-> node'[k]] /\ node'[Peer(n)] = node[Peer(n)]
       /\ node'[n] \in NodeRec
       /\ node'[n].session = node[n].session /\ node'[n].clean = node[n].clean
       /\ node'[n].lastSent = node[n].lastSent /\ node'[n].prevSent = node[n].prevSent
       /\ \/ node'[n].phase = "FINISHED"
          \/ /\ node'[n].phase = "WAIT_ACTION" /\ node'[n].pendingRemote = FALSE
             /\ eng'[n].result = "ONGOING"
    <2>1. CASE After(f).result # "ONGOING"
        <3>1. node' = [node EXCEPT ![n].phase = "FINISHED"]
            BY <1>2, <2>1
        <3>2. /\ node' = [k \in Node |-> node'[k]] /\ node'[Peer(n)] = node[Peer(n)]
              /\ node'[n] = [node[n] EXCEPT !.phase = "FINISHED"]
            BY <3>1, <1>1, Peers DEF Shape
        <3> QED BY <3>2, <1>1 DEF NodeRec
    <2>2. CASE After(f).result = "ONGOING"
        <3>1. node' = [node EXCEPT ![n].phase = "WAIT_ACTION", ![n].pendingRemote = FALSE]
            BY <1>2, <2>2
        <3>2. /\ node' = [k \in Node |-> node'[k]] /\ node'[Peer(n)] = node[Peer(n)]
              /\ node'[n] = [node[n] EXCEPT !.phase = "WAIT_ACTION", !.pendingRemote = FALSE]
            BY <3>1, <1>1, Peers DEF Shape
        <3>3. eng'[n].result = "ONGOING"
            BY <1>5, <2>2
        <3> QED BY <3>2, <3>3, <1>1 DEF NodeRec
    <2> QED BY <2>1, <2>2
<1>11. Shape' /\ Untouched(Peer(n))
    BY <1>5, <1>7, <1>9, <1>10 DEF Shape, Untouched
<1>12. \A m, t, act : PickedBy(n, m, t, act)' <=> PickedBy(n, m, t, act)
    BY <1>10 DEF PickedBy
<1>13. NodeTyped(n)'
    BY <1>1, <1>6, <1>8, <1>9, <1>10 DEF NodeTyped
<1>14. EngineKnown(n)'
    <2>1. \A s \in Side : eng'[n].pend[s] = NoAct
        BY <1>6
    <2>2. ASSUME NEW t \in 1 .. Len(played'[n])
          PROVE  PickedBy(n, 0, t - 1, played'[n][t][1])
                 /\ PickedBy(n, 1, t - 1, played'[n][t][2])
        <3> HIDE DEF pair
        <3>1. CASE t \in 1 .. Len(played[n])
            BY <3>1, <1>1, <1>8 DEF EngineKnown
        <3>2. CASE t = Len(played[n]) + 1
            <4>1. t - 1 = eng[n].turn /\ played'[n][t] = pair
                BY <3>2, <1>1, <1>8
            <4> QED BY <4>1, <1>4
        <3> QED BY <3>1, <3>2, <1>8
    <2> QED BY <2>1, <2>2, <1>10 DEF EngineKnown, PickedBy
<1>15. SentKnown(n)'
    <2>1. SentKnown(n)
        BY <1>1 DEF NodeInv
    <2>2. /\ node[n].lastSent.turn = eng[n].turn
          /\ PickedBy(n, n, node[n].lastSent.turn, node[n].lastSent.act)
          /\ node[n].lastSent.turn > 0 =>
                PickedBy(n, n, node[n].prevSent.turn, node[n].prevSent.act)
        BY <2>1, <1>1 DEF SentKnown
    <2>3. node'[n].phase # "WAIT_REMOTE" /\ node[n].lastSent.turn = eng'[n].turn - 1
        BY <2>2, <1>1, <1>6, <1>10
    <2> QED BY <2>2, <2>3, <1>10, <1>12 DEF SentKnown
<1>16. PicksKnown(n)'
    <2>1. PicksKnown(n)
        BY <1>1 DEF NodeInv
    <2>2. \A s \in Nat, t \in Nat, act \in Moves :
            <<s, n, t, act>> \in picks' =>
               s <= node'[n].session /\ (s = node'[n].session => t < eng'[n].turn)
        BY <2>1, <1>1, <1>6, <1>10 DEF PicksKnown
    <2>3. \A s \in Nat, t \in Nat, act \in Moves :
            <<s, n, t, act>> \in picks' =>
               s <= node'[n].session /\ (s = node'[n].session => t <= eng'[n].turn)
        BY <2>2, <1>1, <1>6
    <2>4. \A act \in Moves : ~PickedBy(n, n, eng[n].turn, act)'
        <3>1. node'[n].session \in Nat /\ eng'[n].turn \in Nat
            BY <1>1, <1>6, <1>10 DEF NodeRec
        <3> QED BY <2>2, <3>1 DEF PickedBy
    <2> QED BY <2>1, <2>3, <2>4, <1>10, <1>12 DEF PicksKnown
<1>17. FlagKnown(n)'
    BY <1>10 DEF FlagKnown, Playing
<1>18. NetInv'
    <2>1. CASE After(f).result # "ONGOING"
        BY <1>1, <1>2, <2>1, NetUnchanged
    <2>2. CASE After(f).result = "ONGOING"
        <3> DEFINE m == [type |-> "HASH", sess |-> node[n].session,
                         turn |-> After(f).turn,
                         hash |-> <<played'[n],
                             [k \in Node |-> IF k = n THEN level'[n] ELSE 0]>>]
        <3>1. net' = [net EXCEPT ![Peer(n)] = Enqueue(@, m)]
            BY <1>2, <2>2 DEF Transmit
        <3>2. m \in HashPkts
            BY <1>1, <1>8, <1>9 DEF HashPkts, Hashes, NodeRec
        <3>3. m \in PktsTo(Peer(n), picks')
            BY <3>2 DEF PktsTo
        <3> HIDE DEF m
        <3> QED BY <1>1, <3>1, <3>3, Peers, NetSent
    <2> QED BY <2>1, <2>2
<1>19. NodeInv(n)'
    BY <1>13, <1>14, <1>15, <1>16, <1>17 DEF NodeInv
<1> QED BY <1>11, <1>18, <1>19, StepOf

\* The flag alone: only a battle entered with a leftover flag gets here.
LEMMA PhantomStep ==
    ASSUME IInv, NEW n \in Node, node[n].phase = "WAIT_REMOTE", node[n].pendingRemote,
           ~Ready(eng[n]),
           node' = [node EXCEPT ![n].phase = "WAIT_ACTION", ![n].pendingRemote = FALSE],
           Transmit(n, Hash(n, node[n].session)),
           eng' = eng, level' = level, played' = played, picks' = picks
    PROVE  IInv'
<1>1. /\ Shape /\ NetInv /\ NodeInv(n) /\ NodeTyped(n) /\ FlagKnown(n)
      /\ node[n] \in NodeRec /\ eng[n].turn \in Nat
      /\ played[n] \in Seq(Pair) /\ level[n] \in Nat
    BY DEF IInv, NodeInv, NodeTyped, Engines
<1>2. ~node[n].clean
    BY <1>1 DEF FlagKnown, Playing, Ready, Side
<1>3. /\ node' = [k \in Node |-> node'[k]] /\ node'[Peer(n)] = node[Peer(n)]
      /\ node'[n] = [node[n] EXCEPT !.phase = "WAIT_ACTION", !.pendingRemote = FALSE]
    BY <1>1, Peers DEF Shape
<1>4. /\ node'[n] \in NodeRec /\ node'[n].phase = "WAIT_ACTION"
      /\ node'[n].session = node[n].session /\ node'[n].clean = node[n].clean
      /\ node'[n].lastSent = node[n].lastSent /\ node'[n].prevSent = node[n].prevSent
      /\ node'[n].pendingRemote = FALSE
    BY <1>1, <1>3 DEF NodeRec
<1>5. Shape' /\ Untouched(Peer(n))
    BY <1>1, <1>3 DEF Shape, Untouched
<1>6. \A m, t, act : PickedBy(n, m, t, act)' <=> PickedBy(n, m, t, act)
    BY <1>4 DEF PickedBy
<1>7. NodeTyped(n)' /\ EngineKnown(n)' /\ SentKnown(n)'
    BY <1>1, <1>4, <1>6 DEF NodeInv, NodeTyped, EngineKnown, SentKnown
<1>8. PicksKnown(n)'
    BY <1>1, <1>2, <1>4, <1>6 DEF NodeInv, PicksKnown
<1>9. FlagKnown(n)'
    BY <1>1, <1>4 DEF FlagKnown, Playing
<1>10. NetInv'
    <2> DEFINE m == Hash(n, node[n].session)
    <2>1. m \in HashPkts
        BY <1>1 DEF Hash, HashState, HashPkts, Hashes, NodeRec
    <2>2. m \in PktsTo(Peer(n), picks')
        BY <2>1 DEF PktsTo
    <2>3. net' = [net EXCEPT ![Peer(n)] = Enqueue(@, m)]
        BY DEF Transmit
    <2> HIDE DEF m
    <2> QED BY <1>1, <2>2, <2>3, Peers, NetSent
<1>11. NodeInv(n)'
    BY <1>7, <1>8, <1>9 DEF NodeInv
<1> QED BY <1>5, <1>10, <1>11, StepOf

LEMMA ResolveTurnStep ==
    ASSUME IInv, NEW n \in Node, ResolveTurn(n)
    PROVE  IInv'
<1>1. CASE Ready(eng[n])
    BY <1>1, PlayTurnStep DEF ResolveTurn
<1>2. CASE ~Ready(eng[n])
    BY <1>2, PhantomStep DEF ResolveTurn
<1> QED BY <1>1, <1>2

\* An action for this turn goes to the engine, one for an earlier turn is
\* answered with what was sent then.
LEMMA OnActionStep ==
    ASSUME IInv, NEW n \in Node, NEW i \in DOMAIN net[n], NEW m, m = net[n][i],
           NEW rest, rest = [net EXCEPT ![n] = RemoveAt(@, i)],
           Playing(n) \/ node[n].phase = "FINISHED",
           m.sess = node[n].session, m.type = "ACTION", OnAction(n, m, rest),
           level' = level, played' = played, picks' = picks
    PROVE  IInv'
<1>1. /\ Shape /\ NetInv /\ NodeInv(n) /\ NodeTyped(n)
      /\ node[n] \in NodeRec /\ eng[n] \in Engines /\ eng[n].turn \in Nat
    BY DEF IInv, NodeInv, NodeTyped, Engines
<1>2. m \in PktsTo(n, picks)
    <2>1. net[n] \in Seq(PktsTo(n, picks))
        BY <1>1 DEF NetInv
    <2> QED BY <2>1, LenProperties, ElementOfSeq
<1>3. /\ m.turn \in Nat /\ m.act \in Moves
      /\ PickedBy(n, Peer(n), m.turn, m.act)
    BY <1>2 DEF PktsTo, ActionPkts, ForfeitPkts, HashPkts, PickedBy
<1>4. /\ rest = [k \in Node |-> rest[k]]
      /\ \A k \in Node : rest[k] \in Seq(PktsTo(k, picks)) /\ Len(rest[k]) <= QueueDepth
    BY <1>1, NetTaken
<1>5. CASE Submits(n, m)
    <2>1. /\ eng' = [eng EXCEPT ![n] = Submit(@, 1, m.act)]
          /\ node' = [node EXCEPT ![n].pendingRemote = TRUE]
          /\ net' = rest /\ m.turn = eng[n].turn
        BY <1>5 DEF OnAction, Submits
    <2>2. /\ node' = [k \in Node |-> node'[k]] /\ node'[Peer(n)] = node[Peer(n)]
          /\ node'[n] = [node[n] EXCEPT !.pendingRemote = TRUE]
          /\ eng' = [k \in Node |-> eng'[k]] /\ eng'[Peer(n)] = eng[Peer(n)]
          /\ eng'[n] = Submit(eng[n], 1, m.act)
        BY <1>1, <2>1, Peers DEF Shape
    <2>3. /\ node'[n] \in NodeRec /\ node'[n].phase = node[n].phase
          /\ node'[n].session = node[n].session /\ node'[n].clean = node[n].clean
          /\ node'[n].lastSent = node[n].lastSent /\ node'[n].prevSent = node[n].prevSent
        BY <1>1, <2>2 DEF NodeRec
    <2>4. /\ eng'[n] \in Engines /\ eng'[n].turn = eng[n].turn
          /\ eng'[n].result = eng[n].result
          /\ eng'[n].pend[0] = eng[n].pend[0] /\ eng'[n].pend[1] = m.act
        <3>1. 1 \in Side /\ eng[n].pend \in [Side -> Moves \cup {NoAct}]
            BY <1>1 DEF Side, Engines
        <3>2. /\ eng'[n] \in Engines /\ eng'[n].turn = eng[n].turn
              /\ eng'[n].result = eng[n].result
              /\ eng'[n].pend = [eng[n].pend EXCEPT ![1] = m.act]
            BY <1>1, <1>3, <2>2, <3>1, EngineMoves
        <3> QED BY <3>1, <3>2 DEF Side
    <2>5. Shape' /\ Untouched(Peer(n))
        BY <1>1, <2>2 DEF Shape, Untouched
    <2>6. \A k, t, act : PickedBy(n, k, t, act)' <=> PickedBy(n, k, t, act)
        BY <2>3 DEF PickedBy
    <2>7. NodeTyped(n)' /\ SentKnown(n)' /\ PicksKnown(n)'
        BY <1>1, <2>3, <2>4, <2>6 DEF NodeInv, NodeTyped, SentKnown, PicksKnown
    <2>8. EngineKnown(n)'
        BY <1>1, <1>3, <2>1, <2>4, <2>6 DEF NodeInv, EngineKnown, Side
    <2>9. FlagKnown(n)'
        BY <1>1, <1>3, <2>3, <2>4, EngineAssumption DEF NodeInv, FlagKnown, Playing
    <2>10. NetInv'
        BY <1>4, <2>1 DEF NetInv
    <2>11. NodeInv(n)'
        BY <2>7, <2>8, <2>9 DEF NodeInv
    <2> QED BY <2>5, <2>10, <2>11, StepOf
<1>6. CASE ~Submits(n, m)
    <2>1. eng' = eng /\ node' = node
        BY <1>6 DEF OnAction
    <2>2. CASE ~(m.turn < eng[n].turn /\ Replay(n, m.turn) # {})
        <3>1. net' = rest
            BY <1>6, <2>2 DEF OnAction
        <3>2. NetInv'
            BY <1>4, <3>1 DEF NetInv
        <3> QED BY <2>1, <3>2, NetStep
    <2>3. CASE m.turn < eng[n].turn /\ Replay(n, m.turn) # {}
        <3>1. PICK act \in Replay(n, m.turn) :
                net' = [rest EXCEPT ![Peer(n)] =
                          Enqueue(@, Action(node[n].session, m.turn, act))]
            BY <1>6, <2>3 DEF OnAction
        <3>2. PickedBy(n, n, m.turn, act)
            <4> DEFINE last == node[n].lastSent
                       prev == node[n].prevSent
            <4>1. /\ SentKnown(n) /\ eng[n].turn > 0
                  /\ last.turn \in Nat /\ prev.turn \in Nat
                BY <1>1, <1>3, <2>3 DEF NodeInv, NodeRec, Sent
            <4>2. CASE SentIn(last, m.turn)
                BY <4>1, <4>2, <3>1 DEF SentKnown, SentIn, Replay
            <4>3. CASE ~SentIn(last, m.turn)
                <5>1. last.act # NoAct
                    BY <4>1, EngineAssumption DEF SentKnown, PickedBy
                <5>2. last.turn # m.turn /\ last.turn \in {eng[n].turn - 1, eng[n].turn}
                    BY <4>1, <4>3, <5>1 DEF SentIn, SentKnown
                <5>3. last.turn > 0
                    BY <4>1, <5>2, <2>3, <1>1, <1>3
                <5>4. act = prev.act /\ prev.turn = m.turn
                    BY <4>3, <3>1 DEF SentIn, Replay
                <5> QED BY <4>1, <5>3, <5>4 DEF SentKnown
            <4> QED BY <4>2, <4>3
        <3> DEFINE p == Action(node[n].session, m.turn, act)
        <3>3. p \in PktsTo(Peer(n), picks)
            BY <1>1, <1>3, <3>2, Peers
            DEF Action, ActionPkts, PktsTo, PickedBy, NodeRec
        <3>4. Enqueue(rest[Peer(n)], p) \in Seq(PktsTo(Peer(n), picks))
                 /\ Len(Enqueue(rest[Peer(n)], p)) <= QueueDepth
            <4> HIDE DEF p
            <4> QED BY <1>4, <3>3, Peers, EnqueueType, EnqueueLen
        <3>5. net' = [k \in Node |-> IF k = Peer(n) THEN Enqueue(rest[Peer(n)], p)
                                     ELSE rest[k]]
            BY <1>4, <3>1
        <3>6. NetInv'
            <4> HIDE DEF p
            <4>1. \A k \in Node : net'[k] \in Seq(PktsTo(k, picks'))
                                 /\ Len(net'[k]) <= QueueDepth
                BY <1>4, <3>4, <3>5
            <4> QED BY <4>1, <3>5 DEF NetInv
        <3> QED BY <2>1, <3>6, NetStep
    <2> QED BY <2>2, <2>3
<1> QED BY <1>5, <1>6

LEMMA ReceiveStep ==
    ASSUME IInv, NEW n \in Node, NEW type \in PktTypes, Receive(n, type)
    PROVE  IInv'
<1>1. PICK i \in Deliverable(net[n]) :
        LET m == net[n][i]
            rest == [net EXCEPT ![n] = RemoveAt(@, i)]
        IN  /\ m.type = type
            /\ IF node[n].phase = "OFF" \/ m.sess # node[n].session
               THEN net' = rest /\ UNCHANGED <<node, eng>>
               ELSE \/ type = "ACTION" /\ OnAction(n, m, rest)
                    \/ type = "FORFEIT" /\ OnForfeit(n, rest)
                    \/ type = "HASH" /\ OnHash(n, m, rest)
            /\ UNCHANGED <<level, fate, played, picks>>
    BY DEF Receive
<1> DEFINE m == net[n][i]
           rest == [net EXCEPT ![n] = RemoveAt(@, i)]
<1>2. /\ i \in DOMAIN net[n] /\ node[n].phase \in {"OFF", "WAIT_ACTION", "WAIT_REMOTE", "FINISHED"}
      /\ level' = level /\ played' = played /\ picks' = picks /\ NetInv
    BY <1>1 DEF Deliverable, IInv, NodeInv, NodeTyped, NodeRec
<1>3. net' = rest => NetInv'
    BY <1>2, NetTaken DEF NetInv
<1>4. CASE node[n].phase = "OFF" \/ m.sess # node[n].session
    BY <1>1, <1>2, <1>3, <1>4, NetStep
<1>5. CASE ~(node[n].phase = "OFF" \/ m.sess # node[n].session)
    <2>1. CASE type = "ACTION" /\ OnAction(n, m, rest)
        BY <1>1, <1>2, <1>5, <2>1, OnActionStep DEF Playing
    <2>2. CASE OnForfeit(n, rest)
        <3>1. 1 \in Side
            BY DEF Side
        <3> QED BY <1>2, <1>3, <2>2, <3>1, ForfeitKeeps, LeavingQuietly DEF OnForfeit
    <2>3. CASE OnHash(n, m, rest)
        <3>1. CASE Desync(n, m)
            <4>1. 0 \in Side
                BY DEF Side
            <4>2. /\ eng' = [eng EXCEPT ![n] = Forfeit(@, 0)]
                  /\ node' = [node EXCEPT ![n].phase = "FINISHED", ![n].aborted = TRUE]
                  /\ net' = rest
                BY <2>3, <3>1 DEF OnHash
            <4> QED BY <1>2, <1>3, <4>1, <4>2, ForfeitKeeps, Leaving
        <3>2. CASE ~Desync(n, m)
            BY <1>2, <1>3, <2>3, <3>2, NetStep DEF OnHash
        <3> QED BY <3>1, <3>2
    <2> QED BY <1>1, <1>5, <2>1, <2>2, <2>3
<1> QED BY <1>4, <1>5

-----------------------------------------------------------------------------
LEMMA Step == IInv /\ [Next]_vars => IInv'
<1> SUFFICES ASSUME IInv, [Next]_vars PROVE IInv'
    OBVIOUS
<1>1. CASE UNCHANGED vars
    BY <1>1, NetUnchanged, NetStep DEF vars, IInv
<1>2. ASSUME NEW n \in Node, Launch(n) PROVE IInv'
    BY <1>2, LaunchStep
<1>3. ASSUME NEW n \in Node, NEW mv \in Moves, Pick(n, mv) PROVE IInv'
    BY <1>3, PickStep
<1>4. ASSUME NEW n \in Node, Flee(n) \/ Exit(n) PROVE IInv'
    BY <1>4, FleeStep, ExitStep
<1>5. ASSUME NEW n \in Node, Resend(n) \/ Timeout(n) \/ ResolveTurn(n) PROVE IInv'
    BY <1>5, ResendStep, TimeoutStep, ResolveTurnStep
<1>6. ASSUME NEW n \in Node, NEW type \in PktTypes, Receive(n, type) PROVE IInv'
    BY <1>6, ReceiveStep
<1>7. ASSUME NEW n \in Node, Lose(n) PROVE IInv'
    BY <1>7, LoseStep
<1> QED BY <1>1, <1>2, <1>3, <1>4, <1>5, <1>6, <1>7 DEF Next

LEMMA Invariant == Spec => []IInv
BY InitInv, Step, PTL DEF Spec

\* Type correctness.
THEOREM TypeCorrect == Spec => []TypeOK
<1>1. IInv => TypeOK
    <2> SUFFICES ASSUME IInv PROVE TypeOK
        OBVIOUS
    <2>1. \A n \in Node : NodeTyped(n)
        BY DEF IInv, NodeInv
    <2>2. node \in [Node -> NodeRec] /\ eng \in [Node -> Engines]
             /\ level \in [Node -> Nat]
        BY <2>1 DEF IInv, Shape, NodeTyped
    <2>3. \A n \in Node : Len(net[n]) <= QueueDepth /\ eng[n].turn = Len(played[n])
        BY <2>1 DEF IInv, NetInv, NodeTyped
    <2> QED BY <2>2, <2>3 DEF TypeOK, NodeRec
<1> QED BY <1>1, Invariant, PTL

\* No engine plays a move its user did not pick for that turn of that battle,
\* however packets are lost, reordered, repeated or left over.
THEOREM PlayedMovesWerePicked == Spec => []PlayedWerePicked
<1>1. IInv => PlayedWerePicked
    <2> SUFFICES ASSUME IInv, NEW n \in Node, NEW t \in DOMAIN played[n], NEW m \in Node
                 PROVE  <<node[n].session, m, t - 1, played[n][t][m + 1]>> \in picks
        BY DEF PlayedWerePicked
    <2>1. played[n] \in Seq(Pair) /\ EngineKnown(n)
        BY DEF IInv, NodeInv, NodeTyped
    <2>2. t \in 1 .. Len(played[n])
        BY <2>1, LenProperties
    <2>3. CASE m = 0
        <3>1. m + 1 = 1
            BY <2>3
        <3> QED BY <2>1, <2>2, <2>3, <3>1 DEF EngineKnown, PickedBy
    <2>4. CASE m = 1
        <3>1. m + 1 = 2
            BY <2>4
        <3> QED BY <2>1, <2>2, <2>4, <3>1 DEF EngineKnown, PickedBy
    <2> QED BY <2>3, <2>4 DEF Node
<1> QED BY <1>1, Invariant, PTL

\* The two engines of a battle entered without a leftover flag play the same
\* pairs of moves, and are at most one turn apart.
THEOREM CleanBattlesAgree == Spec => []CleanLockstep
<1>1. IInv => CleanLockstep
    <2> SUFFICES ASSUME IInv, node[0].clean, node[1].clean, SameBattle
                 PROVE  InStep
        BY DEF CleanLockstep, Lockstep
    <2> DEFINE s == node[0].session
    <2>1. /\ 0 \in Node /\ 1 \in Node /\ Peer(0) = 1 /\ Peer(1) = 0
          /\ node[1].session = s
        BY DEF Node, Peer, SameBattle
    <2>2. \A n \in Node : /\ EngineKnown(n) /\ PicksKnown(n) /\ node[n].clean
                          /\ played[n] \in Seq(Pair) /\ Len(played[n]) \in Nat
                          /\ DOMAIN played[n] = 1 .. Len(played[n])
                          /\ eng[n].turn = Len(played[n]) /\ node[n].session \in Nat
                          /\ node[n].session = s
        BY <2>1, LenProperties DEF IInv, NodeInv, NodeTyped, NodeRec, Node
    <2>3. ASSUME NEW n \in Node, NEW t \in 1 .. Len(played[n])
          PROVE  /\ t - 1 \in Nat
                 /\ played[n][t] = <<played[n][t][1], played[n][t][2]>>
                 /\ PickedBy(0, 0, t - 1, played[n][t][1])
                 /\ PickedBy(1, 1, t - 1, played[n][t][2])
        <3>1. played[n][t] \in Pair
            BY <2>2, ElementOfSeq
        <3>2. t - 1 \in Nat /\ played[n][t] = <<played[n][t][1], played[n][t][2]>>
            BY <3>1 DEF Pair
        <3>3. /\ PickedBy(n, 0, t - 1, played[n][t][1])
              /\ PickedBy(n, 1, t - 1, played[n][t][2])
            BY <2>2 DEF EngineKnown
        <3>4. node[n].session = node[0].session /\ node[n].session = node[1].session
            BY <2>1, <2>2
        <3> QED BY <3>2, <3>3, <3>4 DEF PickedBy
    <2>4. ASSUME NEW t \in DOMAIN played[0] \cap DOMAIN played[1]
          PROVE  played[0][t] = played[1][t]
        <3>1. t \in 1 .. Len(played[0]) /\ t \in 1 .. Len(played[1])
            BY <2>1, <2>2
        <3>2. /\ PickedBy(0, 0, t - 1, played[0][t][1]) /\ PickedBy(0, 0, t - 1, played[1][t][1])
              /\ PickedBy(1, 1, t - 1, played[0][t][2]) /\ PickedBy(1, 1, t - 1, played[1][t][2])
              /\ t - 1 \in Nat
            BY <2>1, <2>3, <3>1
        <3>3. ASSUME NEW n \in Node, NEW u \in Nat, NEW a, NEW b,
                     PickedBy(n, n, u, a), PickedBy(n, n, u, b)
              PROVE  a = b
            <4>1. a \in Moves /\ b \in Moves
                BY <3>3 DEF PickedBy
            <4>2. PicksKnown(n) /\ node[n].clean
                BY <2>2
            <4> QED BY <3>3, <4>1, <4>2 DEF PicksKnown
        <3>4. played[0][t][1] = played[1][t][1] /\ played[0][t][2] = played[1][t][2]
            BY <2>1, <3>2, <3>3
        <3>5. /\ played[0][t] = <<played[0][t][1], played[0][t][2]>>
              /\ played[1][t] = <<played[1][t][1], played[1][t][2]>>
            BY <2>1, <2>3, <3>1
        <3> QED BY <3>4, <3>5, Zenon
    <2>5. ASSUME NEW n \in Node, NEW k \in Node
          PROVE  Len(played[n]) <= Len(played[k]) + 1
        <3>1. CASE Len(played[n]) = 0
            BY <3>1, <2>2
        <3>2. CASE Len(played[n]) > 0
            <4> DEFINE t == Len(played[n])
            <4>1. t \in 1 .. Len(played[n]) /\ t - 1 \in Nat
                BY <3>2, <2>2
            <4>2. PickedBy(0, 0, t - 1, played[n][t][1]) /\ PickedBy(1, 1, t - 1, played[n][t][2])
                BY <2>3, <4>1
            <4>3. \E act \in Moves : <<s, k, t - 1, act>> \in picks
                BY <2>1, <4>2 DEF PickedBy, Node
            <4>4. t - 1 <= eng[k].turn
                BY <2>2, <4>1, <4>3 DEF PicksKnown
            <4> QED BY <2>2, <4>4
        <3> QED BY <3>1, <3>2, <2>2
    <2>6. Len(played[0]) - Len(played[1]) \in -1 .. 1
        BY <2>1, <2>2, <2>5
    <2> QED BY <2>4, <2>6 DEF InStep
<1> QED BY <1>1, Invariant, PTL

-----------------------------------------------------------------------------
(* Aborts.  When no mon levels up in battle, a hash on its way tells what   *)
(* its sender played up to the turn it names, so a hash of the own turn     *)
(* that differs is the mark of two engines that played different moves.     *)

NoLevels == [m \in Node |-> 0]

\* What a hash on its way to n says of its sender, if that is still in the
\* battle of the hash.
HashTrue(n, m) ==
    LET p == Peer(n)
    IN  /\ m.sess <= node[p].session
        /\ m.sess = node[p].session =>
             /\ m.turn <= Len(played[p]) /\ Len(m.hash[1]) = m.turn
             /\ \A t \in 1 .. m.turn : m.hash[1][t] = played[p][t]
             /\ m.hash[2] = NoLevels

TruePkts(n) == ActionPkts \cup ForfeitPkts \cup {m \in HashPkts : HashTrue(n, m)}

Parted == \E t \in 1 .. Len(played[0]) :
             t <= Len(played[1]) /\ played[0][t] # played[1][t]

\* The node that goes on to the next battle leaves the other one behind.
SyncKnown(n) ==
    LET p == Peer(n)
    IN  /\ level[n] = 0
        /\ node[p].session <= node[n].session + 1
        /\ node[p].session > node[n].session => node[n].phase = "OFF"
        /\ node[n].aborted => /\ node[p].session >= node[n].session
                              /\ SameBattle => Parted

SyncInv == \A n \in Node : SyncKnown(n) /\ net[n] \in Seq(TruePkts(n))

\* A node of a battle that goes on has only added to what it played.
PlayedMore(n) ==
    /\ node'[n].session = node[n].session
    /\ Len(played[n]) <= Len(played'[n])
    /\ \A t \in 1 .. Len(played[n]) : played'[n][t] = played[n][t]

LEMMA PlayedSeqs ==
    ASSUME IInv, NEW n \in Node
    PROVE  /\ played[n] \in Seq(Pair) /\ Len(played[n]) \in Nat
           /\ DOMAIN played[n] = 1 .. Len(played[n])
           /\ node[n] \in NodeRec /\ node[n].session \in Nat
           /\ eng[n] \in Engines /\ eng[n].turn = Len(played[n]) /\ Shape /\ NetInv
BY LenProperties DEF IInv, NodeInv, NodeTyped, NodeRec

LEMMA PlayedSeqsNext ==
    ASSUME IInv', NEW n \in Node
    PROVE  /\ Len(played'[n]) \in Nat /\ node'[n].session \in Nat /\ NetInv'
BY LenProperties DEF IInv, NodeInv, NodeTyped, NodeRec

\* What is true of the sender stays true as it plays on; a packet of a battle
\* it has left claims nothing.
LEMMA HashStaysTrue ==
    ASSUME IInv, IInv', NEW n \in Node,
           PlayedMore(Peer(n)) \/ node'[Peer(n)].session > node[Peer(n)].session
    PROVE  TruePkts(n) \subseteq TruePkts(n)'
<1> DEFINE p == Peer(n)
<1>1. /\ p \in Node /\ Len(played[p]) \in Nat /\ node[p].session \in Nat
      /\ Len(played'[p]) \in Nat /\ node'[p].session \in Nat
    BY Peers, PlayedSeqs, PlayedSeqsNext
<1>2. ASSUME NEW m \in HashPkts, HashTrue(n, m) PROVE HashTrue(n, m)'
    <2>1. m.sess \in Nat /\ m.turn \in Nat
        BY DEF HashPkts
    <2>2. CASE PlayedMore(p)
        BY <1>1, <1>2, <2>1, <2>2 DEF HashTrue, PlayedMore
    <2>3. CASE node'[p].session > node[p].session
        BY <1>1, <1>2, <2>1, <2>3 DEF HashTrue
    <2> QED BY <2>2, <2>3
<1> QED BY <1>2 DEF TruePkts

LEMMA NetStaysTrue ==
    ASSUME IInv, IInv', SyncInv, NEW n \in Node, Untouched(Peer(n)),
           PlayedMore(n) \/ node'[n].session > node[n].session
    PROVE  \A k \in Node : net[k] \in Seq(TruePkts(k)')
<1>1. TruePkts(Peer(n)) \subseteq TruePkts(Peer(n))'
    BY Peers, HashStaysTrue
<1>2. PlayedMore(Peer(n))
    BY Peers, PlayedSeqs DEF Untouched, PlayedMore
<1>3. TruePkts(n) \subseteq TruePkts(n)'
    BY <1>2, HashStaysTrue
<1>4. ASSUME NEW k \in Node PROVE net[k] \in Seq(TruePkts(k)')
    <2>1. TruePkts(k) \subseteq TruePkts(k)'
        BY <1>1, <1>3, Peers
    <2> QED BY <2>1, SeqMonotonic DEF SyncInv
<1> QED BY <1>4

LEMMA NetTrueSent ==
    ASSUME NetInv, NEW k \in Node, NEW m \in TruePkts(k)',
           \A j \in Node : net[j] \in Seq(TruePkts(j)'),
           net' = [net EXCEPT ![k] = Enqueue(@, m)]
    PROVE  \A j \in Node : net'[j] \in Seq(TruePkts(j)')
<1>1. net' = [j \in Node |-> IF j = k THEN Enqueue(net[k], m) ELSE net[j]]
    BY DEF NetInv
<1>2. Enqueue(net[k], m) \in Seq(TruePkts(k)')
    BY EnqueueType
<1> QED BY <1>1, <1>2

LEMMA NetTrueTaken ==
    ASSUME NetInv, NEW k \in Node, NEW i \in DOMAIN net[k],
           \A j \in Node : net[j] \in Seq(TruePkts(j)'),
           NEW rest, rest = [net EXCEPT ![k] = RemoveAt(@, i)]
    PROVE  \A j \in Node : rest[j] \in Seq(TruePkts(j)')
<1>1. rest = [j \in Node |-> IF j = k THEN RemoveAt(net[k], i) ELSE net[j]]
    BY DEF NetInv
<1>2. RemoveAt(net[k], i) \in Seq(TruePkts(k)')
    BY RemoveAtType
<1> QED BY <1>1, <1>2

LEMMA PartedStays ==
    ASSUME IInv, IInv', \A n \in Node : PlayedMore(n), Parted
    PROVE  Parted'
<1>1. 0 \in Node /\ 1 \in Node
    BY DEF Node
<1>2. PICK t \in 1 .. Len(played[0]) : t <= Len(played[1]) /\ played[0][t] # played[1][t]
    BY DEF Parted
<1>3. \A n \in {0, 1} : Len(played[n]) \in Nat /\ Len(played'[n]) \in Nat
    BY <1>1, PlayedSeqs, PlayedSeqsNext
<1>4. /\ t \in 1 .. Len(played'[0]) /\ t <= Len(played'[1])
      /\ played'[0][t] = played[0][t] /\ played'[1][t] = played[1][t]
    BY <1>1, <1>2, <1>3 DEF PlayedMore
<1> QED BY <1>2, <1>4 DEF Parted

\* A step of n within its battle.
LEMMA SyncStep ==
    ASSUME IInv, IInv', SyncInv, NEW n \in Node, Untouched(Peer(n)),
           PlayedMore(n), level'[n] = 0,
           node[n].phase = "OFF" => node'[n].phase = "OFF",
           node'[n].aborted => \/ node[n].aborted
                               \/ /\ node[Peer(n)].session >= node[n].session
                                  /\ SameBattle => Parted,
           \A k \in Node : net'[k] \in Seq(TruePkts(k)')
    PROVE  SyncInv'
<1>1. /\ Peer(n) \in Node /\ Peer(Peer(n)) = n /\ SyncKnown(n) /\ SyncKnown(Peer(n))
      /\ PlayedMore(Peer(n))
    BY Peers, PlayedSeqs DEF SyncInv, Untouched, PlayedMore
<1>2. \A k \in Node : PlayedMore(k)
    BY <1>1, Peers
<1>3. Parted => Parted'
    BY <1>2, PartedStays
<1>4. SameBattle' <=> SameBattle
    <2>1. 0 \in Node /\ 1 \in Node
        BY DEF Node
    <2> QED BY <1>2, <2>1 DEF SameBattle, PlayedMore
<1>5. SyncKnown(n)'
    BY <1>1, <1>3, <1>4 DEF SyncKnown, PlayedMore
<1>6. SyncKnown(Peer(n))'
    BY <1>1, <1>3, <1>4 DEF SyncKnown, PlayedMore, Untouched
<1>7. \A k \in Node : SyncKnown(k)'
    BY <1>5, <1>6, Peers
<1> QED BY <1>7 DEF SyncInv

LEMMA HashType ==
    ASSUME NEW a \in Seq(Pair), NEW b \in [Node -> Nat]
    PROVE  <<a, b>> \in Hashes
BY DEF Hashes

LEMMA NoLevelsHash ==
    ASSUME NEW n \in Node, level[n] = 0
    PROVE  HashState(n) = <<played[n], NoLevels>>
BY DEF HashState, NoLevels

LEMMA LaunchSync ==
    ASSUME IInv, IInv', SyncInv, NEW n \in Node, Launch(n)
    PROVE  SyncInv'
<1> DEFINE s == node[n].session + 1
           p == Peer(n)
<1>1. /\ Shape /\ NetInv /\ node[n] \in NodeRec /\ node[n].session \in Nat
      /\ p \in Node /\ Peer(p) = n /\ p # n /\ SyncKnown(n) /\ SyncKnown(p)
      /\ node[p].session \in Nat /\ node[p] \in NodeRec
    BY Peers, PlayedSeqs DEF SyncInv
<1>2. /\ node[n].phase = "OFF"
      /\ node[p].session = s \/ (node[p].session = s - 1 /\ node[p].phase = "OFF")
      /\ node' = [node EXCEPT ![n].phase = "WAIT_ACTION", ![n].session = s,
                              ![n].pendingRemote = LaunchKept(n),
                              ![n].clean = ~LaunchKept(n),
                              ![n].aborted = FALSE]
      /\ eng' = [eng EXCEPT ![n] = Start(FullTeams)]
      /\ level' = [level EXCEPT ![n] = 0]
      /\ played' = [played EXCEPT ![n] = << >>]
    BY DEF Launch
<1>3. /\ node'[n].session = s /\ node'[n].aborted = FALSE /\ level'[n] = 0
      /\ played'[n] = << >> /\ Untouched(p)
    BY <1>1, <1>2 DEF Shape, NodeRec, Untouched
<1>4. SyncKnown(n)'
    <2>1. node'[p].session = node[p].session
        BY <1>3 DEF Untouched
    <2>2. node'[p].session <= node'[n].session /\ node'[p].session \in Nat
             /\ node'[n].session \in Nat
        BY <2>1, <1>1, <1>2, <1>3
    <2> QED BY <2>2, <1>3 DEF SyncKnown
<1>5. SyncKnown(p)'
    <2>1. /\ node'[p] = node[p] /\ level'[p] = level[p]
          /\ 0 \in Node /\ 1 \in Node
        BY <1>3 DEF Untouched, Node
    <2>2. ~node[p].aborted \/ node[p].session = s - 1
        BY <1>1, <1>2 DEF SyncKnown
    <2>3. SameBattle' => ~node'[p].aborted
        BY <2>1, <2>2, <1>1, <1>3, Peers DEF SameBattle
    <2> QED BY <2>1, <2>2, <2>3, <1>1, <1>2, <1>3 DEF SyncKnown
<1>6. \A k \in Node : SyncKnown(k)'
    BY <1>4, <1>5, Peers
<1>7. \A k \in Node : net[k] \in Seq(TruePkts(k)')
    BY <1>1, <1>3, NetStaysTrue
<1>8. \A k \in Node : net'[k] \in Seq(TruePkts(k)')
    <2>1. CASE n = 0
        BY <1>7, <2>1 DEF Launch
    <2>2. CASE n # 0
        <3>1. PICK m : m = [type |-> "HASH", sess |-> s, turn |-> 0,
                            hash |-> <<<< >>, NoLevels>>]
            OBVIOUS
        <3>2. net' = [net EXCEPT ![p] = Enqueue(@, m)]
            BY <2>2, <3>1 DEF Launch, Transmit, NoLevels
        <3>3. << >> \in Seq(Pair) /\ Len(<< >>) = 0 /\ NoLevels \in [Node -> Nat]
            BY EmptySeq DEF NoLevels
        <3>4. m \in HashPkts
            <4>1. s \in Nat
                BY <1>1
            <4>2. <<<< >>, NoLevels>> \in Hashes
                BY <3>3, HashType
            <4> HIDE DEF s
            <4> QED BY <3>1, <4>1, <4>2 DEF HashPkts
        <3>5. HashTrue(p, m)'
            <4>1. /\ m.sess = s /\ m.turn = 0 /\ m.hash[1] = << >> /\ m.hash[2] = NoLevels
                  /\ node'[n].session = s /\ played'[n] = << >> /\ Peer(p) = n /\ s \in Nat
                BY <1>1, <1>3, <3>1
            <4>2. m.sess <= s /\ m.turn <= Len(<< >>) /\ Len(m.hash[1]) = m.turn
                  /\ \A t \in 1 .. m.turn : FALSE
                BY <3>3, <4>1
            <4> HIDE DEF s, p
            <4> QED BY <4>1, <4>2 DEF HashTrue
        <3>6. m \in TruePkts(p)'
            BY <3>4, <3>5 DEF TruePkts
        <3> QED BY <1>1, <1>7, <3>2, <3>6, NetTrueSent
    <2> QED BY <2>1, <2>2
<1> QED BY <1>6, <1>8 DEF SyncInv

\* A step of n that plays no turn and sends no hash.
LEMMA SendingSync ==
    ASSUME IInv, IInv', SyncInv, NEW n \in Node, Untouched(Peer(n)),
           NEW m \in ActionPkts \cup ForfeitPkts,
           net' = net \/ net' = [net EXCEPT ![Peer(n)] = Enqueue(@, m)],
           node'[n].session = node[n].session, node'[n].aborted = node[n].aborted,
           node[n].phase = "OFF" => node'[n].phase = "OFF",
           level' = level, played' = played
    PROVE  SyncInv'
<1>1. PlayedMore(n) /\ level'[n] = 0
    BY PlayedSeqs DEF PlayedMore, SyncInv, SyncKnown
<1>2. /\ \A k \in Node : net[k] \in Seq(TruePkts(k)')
      /\ m \in TruePkts(Peer(n))' /\ NetInv /\ Peer(n) \in Node
    BY <1>1, NetStaysTrue, PlayedSeqs, Peers DEF TruePkts
<1>3. \A k \in Node : net'[k] \in Seq(TruePkts(k)')
    BY <1>2, NetTrueSent
<1> QED BY <1>1, <1>3, SyncStep

LEMMA SendActionSync ==
    ASSUME IInv, IInv', SyncInv, NEW n \in Node, NEW act \in Moves, SendAction(n, act),
           node[n].phase # "OFF", eng'[Peer(n)] = eng[Peer(n)],
           level' = level, played' = played
    PROVE  SyncInv'
<1>1. /\ Shape /\ node[n] \in NodeRec /\ node[n].session \in Nat
      /\ eng[n].turn \in Nat /\ Peer(n) \in Node /\ Peer(n) # n
    BY PlayedSeqs, Peers DEF Engines
<1>2. /\ Untouched(Peer(n))
      /\ node'[n].session = node[n].session /\ node'[n].aborted = node[n].aborted
    BY <1>1 DEF SendAction, Shape, NodeRec, Untouched
<1>3. Action(node[n].session, eng[n].turn, act) \in ActionPkts \cup ForfeitPkts
    BY <1>1 DEF Action, ActionPkts
<1>4. net' = [net EXCEPT ![Peer(n)] = Enqueue(@, Action(node[n].session, eng[n].turn, act))]
    BY DEF SendAction, Transmit
<1> QED BY <1>2, <1>3, <1>4, SendingSync

LEMMA PickSync ==
    ASSUME IInv, IInv', SyncInv, NEW n \in Node, NEW mv \in Moves, Pick(n, mv)
    PROVE  SyncInv'
<1>1. eng'[Peer(n)] = eng[Peer(n)]
    BY PlayedSeqs, Peers DEF Pick, Shape
<1> QED BY <1>1, SendActionSync DEF Pick

LEMMA ResendSync ==
    ASSUME IInv, IInv', SyncInv, NEW n \in Node, Resend(n)
    PROVE  SyncInv'
<1>1. /\ node[n].phase = "WAIT_REMOTE" /\ SendAction(n, node[n].lastSent.act)
      /\ eng' = eng /\ level' = level /\ played' = played
    BY DEF Resend, ResendDue
<1>2. node[n].lastSent.act \in Moves
    BY <1>1 DEF IInv, NodeInv, SentKnown, PickedBy
<1> QED BY <1>1, <1>2, SendActionSync

\* Flee, exit, timeout and the peer's forfeit end the battle quietly.
LEMMA PhaseSync ==
    ASSUME IInv, NEW n \in Node, NEW phase \in {"FINISHED", "OFF"},
           node' = [node EXCEPT ![n].phase = phase],
           eng' = eng \/ \E side \in Side : eng' = [eng EXCEPT ![n] = Forfeit(@, side)],
           level' = level, played' = played
    PROVE  /\ Untouched(Peer(n)) /\ node'[n].phase = phase
           /\ node'[n].session = node[n].session /\ node'[n].aborted = node[n].aborted
BY PlayedSeqs, Peers DEF Shape, NodeRec, Untouched

LEMMA EndingSync ==
    ASSUME IInv, IInv', SyncInv, NEW n \in Node, Flee(n) \/ Exit(n) \/ Timeout(n)
    PROVE  SyncInv'
<1> DEFINE m == ForfeitPkt(node[n].session)
<1>1. m \in ActionPkts \cup ForfeitPkts
    BY PlayedSeqs DEF ForfeitPkt, ForfeitPkts
<1>2. CASE Flee(n)
    <2>1. /\ node' = [node EXCEPT ![n].phase = "FINISHED"] /\ node[n].phase # "OFF"
          /\ eng' = [eng EXCEPT ![n] = Forfeit(@, 0)] /\ 0 \in Side
          /\ level' = level /\ played' = played
          /\ net' = [net EXCEPT ![Peer(n)] = Enqueue(@, m)]
        BY <1>2 DEF Flee, Transmit, Side
    <2>2. /\ Untouched(Peer(n))
          /\ node'[n].session = node[n].session /\ node'[n].aborted = node[n].aborted
        BY <2>1, PhaseSync
    <2> HIDE DEF m
    <2> QED BY <1>1, <2>1, <2>2, SendingSync
<1>3. CASE Exit(n)
    <2>1. /\ node' = [node EXCEPT ![n].phase = "OFF"]
          /\ eng' = eng /\ level' = level /\ played' = played /\ net' = net
        BY <1>3 DEF Exit
    <2>2. /\ Untouched(Peer(n)) /\ node'[n].phase = "OFF"
          /\ node'[n].session = node[n].session /\ node'[n].aborted = node[n].aborted
        BY <2>1, PhaseSync
    <2> QED BY <1>1, <2>1, <2>2, SendingSync
<1>4. CASE Timeout(n)
    <2>1. /\ node' = [node EXCEPT ![n].phase = "FINISHED"] /\ node[n].phase # "OFF"
          /\ level' = level /\ played' = played /\ net' = net
        BY <1>4 DEF Timeout, Silence
    <2>2. eng' = eng \/ \E side \in Side : eng' = [eng EXCEPT ![n] = Forfeit(@, side)]
        <3>1. CASE eng[n].result = "ONGOING"
            BY <1>4, <3>1 DEF Timeout, Side
        <3>2. CASE eng[n].result # "ONGOING"
            BY <1>4, <3>2, PlayedSeqs DEF Timeout, Shape
        <3> QED BY <3>1, <3>2
    <2>3. /\ Untouched(Peer(n))
          /\ node'[n].session = node[n].session /\ node'[n].aborted = node[n].aborted
        BY <2>1, <2>2, PhaseSync
    <2> QED BY <1>1, <2>1, <2>3, SendingSync
<1> QED BY <1>2, <1>3, <1>4

\* A hash of the own turn that differs is one of other moves.
LEMMA AbortsApart ==
    ASSUME IInv, SyncInv, NEW n \in Node, NEW m \in TruePkts(n), m.type = "HASH",
           node[n].phase # "OFF", m.sess = node[n].session, Desync(n, m)
    PROVE  node[Peer(n)].session = node[n].session /\ Parted
<1> DEFINE p == Peer(n)
<1>1. /\ p \in Node /\ played[n] \in Seq(Pair) /\ played[p] \in Seq(Pair)
      /\ Len(played[n]) \in Nat /\ Len(played[p]) \in Nat /\ SyncKnown(n)
      /\ node[n].session \in Nat /\ node[p].session \in Nat
      /\ eng[n].turn = Len(played[n])
    BY Peers, PlayedSeqs DEF SyncInv
<1>2. m \in HashPkts /\ HashTrue(n, m)
    BY DEF TruePkts, ActionPkts, ForfeitPkts
<1>3. node[p].session = node[n].session
    BY <1>1, <1>2 DEF HashTrue, SyncKnown
<1>4. /\ m.turn = Len(played[n]) /\ m.turn <= Len(played[p])
      /\ Len(m.hash[1]) = m.turn /\ m.hash[2] = NoLevels
      /\ \A t \in 1 .. m.turn : m.hash[1][t] = played[p][t]
    BY <1>1, <1>2, <1>3 DEF HashTrue, Desync
<1>5. m.hash # <<played[n], NoLevels>>
    BY <1>1, NoLevelsHash DEF Desync, SyncKnown
<1>6. m.hash = <<m.hash[1], m.hash[2]>> /\ m.hash[1] \in Seq(Pair)
    BY <1>2 DEF HashPkts, Hashes
<1>7. m.hash[1] # played[n]
    BY <1>4, <1>5, <1>6
<1>8. PICK t \in 1 .. Len(played[n]) : m.hash[1][t] # played[n][t]
    BY <1>1, <1>4, <1>6, <1>7, SeqEqual
<1>9. t \in 1 .. Len(played[p]) /\ played[n][t] # played[p][t]
    BY <1>1, <1>4, <1>8
<1>10. Parted
    <2>1. CASE n = 0
        BY <1>1, <1>8, <1>9, <2>1 DEF Parted, Peer
    <2>2. CASE n = 1
        BY <1>1, <1>8, <1>9, <2>2 DEF Parted, Peer
    <2> QED BY <2>1, <2>2 DEF Node
<1> QED BY <1>3, <1>10

\* A step that changes nothing of any battle object but the channels.
LEMMA QuietSync ==
    ASSUME IInv, IInv', SyncInv, node' = node, eng' = eng, level' = level, played' = played,
           NEW n \in Node, \A k \in Node : net'[k] \in Seq(TruePkts(k)')
    PROVE  SyncInv'
<1>1. /\ Peer(n) \in Node /\ Untouched(Peer(n)) /\ PlayedMore(n) /\ level'[n] = 0
    BY Peers, PlayedSeqs DEF Untouched, PlayedMore, SyncInv, SyncKnown
<1> QED BY <1>1, SyncStep

LEMMA UntouchedNet ==
    ASSUME IInv, IInv', SyncInv, NEW n \in Node, Untouched(Peer(n)),
           node'[n].session = node[n].session, played' = played
    PROVE  PlayedMore(n) /\ \A k \in Node : net[k] \in Seq(TruePkts(k)')
<1>1. PlayedMore(n)
    BY PlayedSeqs DEF PlayedMore
<1> QED BY <1>1, NetStaysTrue

LEMMA LoseSync ==
    ASSUME IInv, IInv', SyncInv, NEW n \in Node, Lose(n)
    PROVE  SyncInv'
<1>1. PICK i \in DOMAIN net[n] : net' = [net EXCEPT ![n] = RemoveAt(@, i)]
    BY DEF Lose, Losses
<1>2. node' = node /\ eng' = eng /\ level' = level /\ played' = played
    BY DEF Lose
<1>3. Untouched(Peer(n)) /\ NetInv
    BY <1>2, PlayedSeqs DEF Untouched
<1>4. \A k \in Node : net[k] \in Seq(TruePkts(k)')
    BY <1>2, <1>3, UntouchedNet
<1> QED BY <1>1, <1>2, <1>3, <1>4, NetTrueTaken, QuietSync

LEMMA ReceiveSync ==
    ASSUME IInv, IInv', SyncInv, NEW n \in Node, NEW type \in PktTypes, Receive(n, type)
    PROVE  SyncInv'
<1>1. PICK i \in Deliverable(net[n]) :
        LET m == net[n][i]
            rest == [net EXCEPT ![n] = RemoveAt(@, i)]
        IN  /\ m.type = type
            /\ IF node[n].phase = "OFF" \/ m.sess # node[n].session
               THEN net' = rest /\ UNCHANGED <<node, eng>>
               ELSE \/ type = "ACTION" /\ OnAction(n, m, rest)
                    \/ type = "FORFEIT" /\ OnForfeit(n, rest)
                    \/ type = "HASH" /\ OnHash(n, m, rest)
            /\ UNCHANGED <<level, fate, played, picks>>
    BY DEF Receive
<1>2. PICK m, rest : m = net[n][i] /\ rest = [net EXCEPT ![n] = RemoveAt(@, i)]
    OBVIOUS
<1>3. /\ i \in DOMAIN net[n] /\ Shape /\ NetInv /\ node[n] \in NodeRec
      /\ Peer(n) \in Node /\ Peer(n) # n /\ level[n] = 0
      /\ level' = level /\ played' = played /\ m.type = type
      /\ net[n] \in Seq(TruePkts(n))
    BY <1>1, <1>2, PlayedSeqs, Peers DEF Deliverable, SyncInv, SyncKnown
<1>4. m \in TruePkts(n)
    BY <1>2, <1>3, LenProperties, ElementOfSeq
<1>5. \A k \in Node : net[k] \in Seq(TruePkts(k)') => rest[k] \in Seq(TruePkts(k)')
    <2> SUFFICES ASSUME NEW k \in Node, net[k] \in Seq(TruePkts(k)')
                 PROVE  rest[k] \in Seq(TruePkts(k)')
        OBVIOUS
    <2>1. rest = [j \in Node |-> IF j = n THEN RemoveAt(net[n], i) ELSE net[j]]
        BY <1>2, <1>3 DEF NetInv
    <2>2. k = n => RemoveAt(net[n], i) \in Seq(TruePkts(k)')
        BY <1>3, RemoveAtType
    <2> QED BY <2>1, <2>2
<1>6. rest = [k \in Node |-> rest[k]]
    BY <1>2, <1>3 DEF NetInv
\* A packet that is dropped or does nothing.
<1>7. CASE net' = rest /\ node' = node /\ eng' = eng
    <2>1. Untouched(Peer(n)) /\ node'[n].session = node[n].session
        BY <1>3, <1>7 DEF Untouched
    <2>2. \A k \in Node : net'[k] \in Seq(TruePkts(k)')
        BY <1>3, <1>5, <1>7, <2>1, UntouchedNet
    <2> QED BY <1>3, <1>7, <2>2, QuietSync
<1>8. CASE /\ type = "ACTION" /\ OnAction(n, m, rest) /\ Submits(n, m)
    <2>1. /\ eng' = [eng EXCEPT ![n] = Submit(@, 1, m.act)]
          /\ node' = [node EXCEPT ![n].pendingRemote = TRUE] /\ net' = rest
        BY <1>8 DEF OnAction
    <2>2. /\ Untouched(Peer(n)) /\ node'[n].session = node[n].session
          /\ node'[n].aborted = node[n].aborted /\ node'[n].phase = node[n].phase
        BY <1>3, <2>1 DEF Shape, NodeRec, Untouched
    <2>3. PlayedMore(n) /\ \A k \in Node : net'[k] \in Seq(TruePkts(k)')
        BY <1>3, <1>5, <2>1, <2>2, UntouchedNet
    <2> QED BY <1>3, <2>2, <2>3, SyncStep
<1>9. CASE /\ type = "ACTION" /\ OnAction(n, m, rest) /\ ~Submits(n, m)
           /\ m.turn < eng[n].turn /\ Replay(n, m.turn) # {}
    <2>1. PICK act \in Replay(n, m.turn) :
            /\ net' = [rest EXCEPT ![Peer(n)] =
                         Enqueue(@, Action(node[n].session, m.turn, act))]
            /\ node' = node /\ eng' = eng
        BY <1>9 DEF OnAction
    <2>2. PICK sent : sent = Action(node[n].session, m.turn, act)
        OBVIOUS
    <2>3. sent \in ActionPkts
        <3>1. m.turn \in Nat /\ node[n].session \in Nat
            BY <1>3, <1>4, <1>9 DEF TruePkts, ActionPkts, ForfeitPkts, HashPkts, NodeRec
        <3>2. node[n].lastSent \in Sent /\ node[n].prevSent \in Sent
            BY <1>3 DEF NodeRec
        <3>3. act \in Moves
            <4>1. CASE SentIn(node[n].lastSent, m.turn)
                BY <2>1, <3>2, <4>1 DEF Replay, SentIn, Sent
            <4>2. CASE ~SentIn(node[n].lastSent, m.turn)
                BY <2>1, <3>2, <4>2 DEF Replay, SentIn, Sent
            <4> QED BY <4>1, <4>2
        <3> QED BY <2>2, <3>1, <3>3 DEF Action, ActionPkts
    <2>4. Untouched(Peer(n)) /\ node'[n].session = node[n].session
        BY <1>3, <2>1 DEF Untouched
    <2>5. \A k \in Node : rest[k] \in Seq(TruePkts(k)')
        BY <1>3, <1>5, <2>4, UntouchedNet
    <2>6. Enqueue(rest[Peer(n)], sent) \in Seq(TruePkts(Peer(n))')
        BY <1>3, <2>3, <2>5, EnqueueType DEF TruePkts
    <2>7. \A k \in Node : net'[k] \in Seq(TruePkts(k)')
        BY <1>6, <2>1, <2>2, <2>5, <2>6
    <2> QED BY <1>3, <2>1, <2>7, QuietSync
<1>10. CASE type = "FORFEIT" /\ OnForfeit(n, rest) /\ node[n].phase # "OFF"
    <2>1. /\ node' = [node EXCEPT ![n].phase = "FINISHED"] /\ net' = rest
          /\ \E side \in Side : eng' = [eng EXCEPT ![n] = Forfeit(@, side)]
        BY <1>10 DEF OnForfeit, Side
    <2>2. /\ Untouched(Peer(n)) /\ node'[n].phase = "FINISHED"
          /\ node'[n].session = node[n].session /\ node'[n].aborted = node[n].aborted
        BY <1>3, <2>1, PhaseSync
    <2>3. PlayedMore(n) /\ \A k \in Node : net'[k] \in Seq(TruePkts(k)')
        BY <1>3, <1>5, <2>1, <2>2, UntouchedNet
    <2> QED BY <1>3, <1>10, <2>2, <2>3, SyncStep
<1>11. CASE type = "HASH" /\ OnHash(n, m, rest) /\ Desync(n, m)
           /\ node[n].phase # "OFF" /\ m.sess = node[n].session
    <2>1. /\ node' = [node EXCEPT ![n].phase = "FINISHED", ![n].aborted = TRUE]
          /\ eng' = [eng EXCEPT ![n] = Forfeit(@, 0)] /\ net' = rest
        BY <1>11 DEF OnHash
    <2>2. /\ Untouched(Peer(n)) /\ node'[n].phase = "FINISHED"
          /\ node'[n].session = node[n].session
        BY <1>3, <2>1 DEF Shape, NodeRec, Untouched
    <2>3. PlayedMore(n) /\ \A k \in Node : net'[k] \in Seq(TruePkts(k)')
        BY <1>3, <1>5, <2>1, <2>2, UntouchedNet
    <2>4. node[Peer(n)].session >= node[n].session /\ Parted
        BY <1>3, <1>4, <1>11, AbortsApart, PlayedSeqs
    <2> QED BY <1>3, <1>11, <2>2, <2>3, <2>4, SyncStep
<1> QED BY <1>1, <1>2, <1>7, <1>8, <1>9, <1>10, <1>11 DEF OnAction, OnHash

\* A hash that is sent tells the truth.
LEMMA HashSentSync ==
    ASSUME IInv, IInv', SyncInv, NEW n \in Node, Untouched(Peer(n)), PlayedMore(n),
           level'[n] = 0, node'[n].aborted = node[n].aborted, node[n].phase # "OFF",
           Transmit(n, [type |-> "HASH", sess |-> node[n].session,
                        turn |-> Len(played'[n]), hash |-> <<played'[n], NoLevels>>])
    PROVE  SyncInv'
<1> DEFINE p == Peer(n)
<1>1. /\ NetInv /\ p \in Node /\ Peer(p) = n /\ node[n].session \in Nat
      /\ \A k \in Node : net[k] \in Seq(TruePkts(k)')
    BY PlayedSeqs, Peers, NetStaysTrue
<1>2. played'[n] \in Seq(Pair) /\ Len(played'[n]) \in Nat
    BY LenProperties DEF IInv, NodeInv, NodeTyped
<1>3. PICK m : m = [type |-> "HASH", sess |-> node[n].session,
                    turn |-> Len(played'[n]), hash |-> <<played'[n], NoLevels>>]
    OBVIOUS
<1>4. net' = [net EXCEPT ![p] = Enqueue(@, m)]
    BY <1>3 DEF Transmit
<1>5. m \in HashPkts
    <2>1. <<played'[n], NoLevels>> \in Hashes
        BY <1>2, HashType DEF NoLevels
    <2> QED BY <1>1, <1>2, <1>3, <2>1 DEF HashPkts
<1>6. HashTrue(p, m)'
    <2>1. /\ m.sess = node'[n].session /\ m.turn = Len(played'[n])
          /\ m.hash[1] = played'[n] /\ m.hash[2] = NoLevels
        BY <1>3 DEF PlayedMore
    <2> QED BY <1>1, <1>2, <2>1 DEF HashTrue, PlayedMore
<1>7. m \in TruePkts(p)'
    BY <1>5, <1>6 DEF TruePkts
<1>8. \A k \in Node : net'[k] \in Seq(TruePkts(k)')
    BY <1>1, <1>4, <1>7, NetTrueSent
<1> QED BY <1>8, SyncStep

LEMMA PlayTurnSync ==
    ASSUME ~LevelUps, IInv, IInv', SyncInv, NEW n \in Node, PlayTurn(n),
           node[n].phase = "WAIT_REMOTE"
    PROVE  SyncInv'
<1> DEFINE pair == Oriented(n, eng[n].pend)
           p == Peer(n)
<1>1. /\ Shape /\ NetInv /\ node[n] \in NodeRec
      /\ eng[n].turn = Len(played[n]) /\ played[n] \in Seq(Pair) /\ Len(played[n]) \in Nat
      /\ level[n] = 0 /\ p \in Node /\ p # n
    BY PlayedSeqs, Peers DEF SyncInv, SyncKnown
<1>2. PICK e :
        /\ eng' = [eng EXCEPT ![n] = e] /\ e.turn = eng[n].turn + 1
        /\ played' = [played EXCEPT ![n] = Append(@, pair)]
        /\ \E up \in {0} : level' = [level EXCEPT ![n] = @ + up]
        /\ IF e.result # "ONGOING"
           THEN /\ node' = [node EXCEPT ![n].phase = "FINISHED"]
                /\ UNCHANGED net
           ELSE /\ node' = [node EXCEPT ![n].phase = "WAIT_ACTION",
                                        ![n].pendingRemote = FALSE]
                /\ Transmit(n, [type |-> "HASH", sess |-> node[n].session,
                                turn |-> e.turn,
                                hash |-> <<played'[n],
                                    [m \in Node |-> IF m = n THEN level'[n] ELSE 0]>>])
    <2> DEFINE Board(f) == [s \in Side |-> IF (s = 0) = (n = 0) THEN f.alive[1] ELSE f.alive[2]]
               After(f) == [turn |-> eng[n].turn + 1, result |-> ResultOf(Board(f)),
                            pend |-> [s \in Side |-> NoAct], alive |-> Board(f)]
               Up(f) == IF LevelUps /\ Board(f)[1] < eng[n].alive[1] /\ Board(f)[0] > 0
                        THEN 1 ELSE 0
    <2>1. PICK f \in Outcomes(n) :
            /\ eng' = [eng EXCEPT ![n] = After(f)]
            /\ played' = [played EXCEPT ![n] = Append(@, pair)]
            /\ \E up \in 0 .. Up(f) : level' = [level EXCEPT ![n] = @ + up]
            /\ IF After(f).result # "ONGOING"
               THEN /\ node' = [node EXCEPT ![n].phase = "FINISHED"]
                    /\ UNCHANGED net
               ELSE /\ node' = [node EXCEPT ![n].phase = "WAIT_ACTION",
                                            ![n].pendingRemote = FALSE]
                    /\ Transmit(n, [type |-> "HASH", sess |-> node[n].session,
                                    turn |-> After(f).turn,
                                    hash |-> <<played'[n],
                                        [m \in Node |-> IF m = n THEN level'[n] ELSE 0]>>])
        BY Zenon DEF PlayTurn
    <2>2. Up(f) = 0
        OBVIOUS
    <2>3. 0 .. Up(f) = {0}
        BY <2>2
    <2>4. After(f).turn = eng[n].turn + 1
        OBVIOUS
    <2> HIDE DEF After, Up
    <2> QED BY <2>1, <2>3, <2>4
<1>3. /\ played'[n] = Append(played[n], pair) /\ played'[p] = played[p]
      /\ eng'[p] = eng[p] /\ level'[n] = 0 /\ level'[p] = level[p]
    <2> HIDE DEF pair
    <2> QED BY <1>1, <1>2 DEF Shape
<1>4. Len(played'[n]) = e.turn /\ \A t \in 1 .. Len(played[n]) : played'[n][t] = played[n][t]
    <2> HIDE DEF pair
    <2>1. /\ Len(played'[n]) = Len(played[n]) + 1
          /\ \A t \in 1 .. Len(played[n]) : played'[n][t] = played[n][t]
        BY <1>1, <1>3
    <2> QED BY <1>1, <1>2, <2>1
<1>5. /\ node'[p] = node[p] /\ node'[n].session = node[n].session
      /\ node'[n].aborted = node[n].aborted
    <2>1. CASE node' = [node EXCEPT ![n].phase = "FINISHED"]
        BY <1>1, <2>1 DEF Shape, NodeRec
    <2>2. CASE node' = [node EXCEPT ![n].phase = "WAIT_ACTION", ![n].pendingRemote = FALSE]
        BY <1>1, <2>2 DEF Shape, NodeRec
    <2> QED BY <1>2, <2>1, <2>2
<1>6. Untouched(p) /\ PlayedMore(n)
    BY <1>1, <1>2, <1>3, <1>4, <1>5 DEF Untouched, PlayedMore
<1>7. CASE net' = net
    BY <1>1, <1>3, <1>5, <1>6, <1>7, NetStaysTrue, SyncStep
<1>8. CASE Transmit(n, [type |-> "HASH", sess |-> node[n].session, turn |-> e.turn,
                        hash |-> <<played'[n],
                            [m \in Node |-> IF m = n THEN level'[n] ELSE 0]>>])
    <2>1. [m \in Node |-> IF m = n THEN level'[n] ELSE 0] = NoLevels
        BY <1>3 DEF NoLevels
    <2>2. Transmit(n, [type |-> "HASH", sess |-> node[n].session,
                       turn |-> Len(played'[n]), hash |-> <<played'[n], NoLevels>>])
        BY <1>4, <1>8, <2>1
    <2> QED BY <1>3, <1>5, <1>6, <2>2, HashSentSync
<1> QED BY <1>2, <1>7, <1>8

LEMMA ResolveSync ==
    ASSUME ~LevelUps, IInv, IInv', SyncInv, NEW n \in Node, ResolveTurn(n)
    PROVE  SyncInv'
<1>1. CASE Ready(eng[n])
    BY <1>1, PlayTurnSync DEF ResolveTurn
<1>2. CASE ~Ready(eng[n])
    <2>1. /\ node' = [node EXCEPT ![n].phase = "WAIT_ACTION", ![n].pendingRemote = FALSE]
          /\ Transmit(n, Hash(n, node[n].session)) /\ node[n].phase = "WAIT_REMOTE"
          /\ eng' = eng /\ level' = level /\ played' = played
        BY <1>2 DEF ResolveTurn
    <2>2. /\ Shape /\ node[n] \in NodeRec /\ eng[n].turn = Len(played[n]) /\ level[n] = 0
          /\ Peer(n) \in Node /\ Peer(n) # n
        BY PlayedSeqs, Peers DEF SyncInv, SyncKnown
    <2>3. /\ Untouched(Peer(n)) /\ node'[n].session = node[n].session
          /\ node'[n].aborted = node[n].aborted
        BY <2>1, <2>2 DEF Shape, NodeRec, Untouched
    <2>4. PlayedMore(n)
        BY <2>1, <2>3, UntouchedNet
    <2>5. Hash(n, node[n].session)
            = [type |-> "HASH", sess |-> node[n].session,
               turn |-> Len(played'[n]), hash |-> <<played'[n], NoLevels>>]
        BY <2>1, <2>2, NoLevelsHash DEF Hash
    <2> QED BY <2>1, <2>2, <2>3, <2>4, <2>5, HashSentSync
<1> QED BY <1>1, <1>2

LEMMA InitSync == Init => SyncInv
<1> SUFFICES ASSUME Init, NEW n \in Node PROVE SyncKnown(n) /\ net[n] \in Seq(TruePkts(n))
    BY DEF SyncInv
<1>1. /\ Peer(n) \in Node /\ net[n] = << >> /\ level[n] = 0
      /\ node[n].session = 0 /\ ~node[n].aborted /\ node[Peer(n)].session = 0
    BY Peers DEF Init
<1> QED BY <1>1, EmptySeq DEF SyncKnown

LEMMA StepSync ==
    ASSUME ~LevelUps, IInv, IInv', SyncInv, [Next]_vars
    PROVE  SyncInv'
<1>1. CASE UNCHANGED vars
    <2>1. 0 \in Node /\ Untouched(Peer(0)) /\ node'[0].session = node[0].session
        BY <1>1 DEF vars, Untouched, Node
    <2> QED BY <1>1, <2>1, UntouchedNet, QuietSync DEF vars
<1>2. ASSUME NEW n \in Node, Launch(n) PROVE SyncInv'
    BY <1>2, LaunchSync
<1>3. ASSUME NEW n \in Node, NEW mv \in Moves, Pick(n, mv) PROVE SyncInv'
    BY <1>3, PickSync
<1>4. ASSUME NEW n \in Node, Flee(n) \/ Exit(n) \/ Timeout(n) PROVE SyncInv'
    BY <1>4, EndingSync
<1>5. ASSUME NEW n \in Node, Resend(n) \/ ResolveTurn(n) PROVE SyncInv'
    BY <1>5, ResendSync, ResolveSync
<1>6. ASSUME NEW n \in Node, NEW type \in PktTypes, Receive(n, type) PROVE SyncInv'
    BY <1>6, ReceiveSync
<1>7. ASSUME NEW n \in Node, Lose(n) PROVE SyncInv'
    BY <1>7, LoseSync
<1> QED BY <1>1, <1>2, <1>3, <1>4, <1>5, <1>6, <1>7 DEF Next

\* Without level-ups the hash comparison aborts only a battle in which the two
\* engines played different moves in some turn, also one entered with the flag
\* of an earlier battle and with that battle's packets still in the air.
THEOREM AbortsAreReal ==
    ASSUME ~LevelUps
    PROVE  Spec => []DesyncIsReal
<1>1. IInv /\ SyncInv => DesyncIsReal
    <2> SUFFICES ASSUME IInv, SyncInv, SameBattle, NEW n \in Node, node[n].aborted
                 PROVE  ~InStep
        BY DEF DesyncIsReal
    <2>1. Parted
        BY DEF SyncInv, SyncKnown
    <2>2. /\ DOMAIN played[0] = 1 .. Len(played[0]) /\ DOMAIN played[1] = 1 .. Len(played[1])
          /\ Len(played[0]) \in Nat /\ Len(played[1]) \in Nat
        BY PlayedSeqs DEF Node
    <2> QED BY <2>1, <2>2 DEF Parted, InStep
<1>2. IInv /\ SyncInv /\ [Next]_vars => (IInv /\ SyncInv)'
    BY Step, StepSync
<1> QED BY <1>1, <1>2, InitInv, InitSync, PTL DEF Spec

=============================================================================
