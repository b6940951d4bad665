# MonsterMesh in TLA+

MonsterMesh is a Meshtastic firmware with a game in it: players train Generation 1
monsters in a Game Boy emulator and fight each other over LoRa radio. The upstream
firmware brings the mesh (routing, radio, phone API, power); the game lives in
`src/src/modules/monstermesh`. This directory holds TLA+ models of the game's protocols
and of the mesh beneath them, the TLC configurations that check them, and proofs checked
by TLAPS.

Paths below are relative to `src/src/modules/monstermesh` unless they start with `src/`.
TB stands for `MonsterMeshTextBattle.cpp`, MM for `MonsterMeshModule.cpp`.

## 1. Inventory

### The game

| component | state it keeps | operations | what is hard | what makes it correct |
|---|---|---|---|---|
| **Server-authoritative live PvP** (TB, `MonsterMeshTextBattle.h`) | one object per node: mode, role, phase, session, retransmission state, an engine | challenge, accept/decline, update, action, state request, full state, timers, keys | lossy link, retransmissions on both sides, two users pressing keys at any time | each turn plays the move picked for it; results reach both; nothing waits for ever |
| **Legacy lockstep battle** (TB, role `LEGACY`) | an engine on each node, last and previous sent action | launch, ACTION, HASH, FORFEIT, resend, replay, timeout | two engines must see the same inputs in the same turn | both engines agree or both abort |
| **Battle engine** (`Gen1BattleEngine`) | two parties, pending actions, turn, result | start, submit, execute turn, forfeit | used with a placeholder party before ACCEPT; `forfeit()` overwrites results | a turn needs both actions; a result is reached once |
| **Transport queue** (`MeshtasticTransport.h`) | two FreeRTOS queues | queueSend, dropPendingSends | full queue drops silently | FIFO, bounded |
| **Wire format** (`BattlePacket.h`) | none | pack/unpack, 24-bit board hash | 8-bit turn and sequence | round trip |
| **Module hub** (MM) | current battle, pending requests, gauntlet, party exchange, save file | packet dispatch, key routing, launch and clean-up of battles, the blocks of `runOnce` | three tasks (radio, UI, main loop) share it through plain flags | one battle at a time; one writer of the save at a time |
| **Daycare** (`PokemonDaycare`) | what is checked in, its gain, event log, `daycare.dat` | check-in/out, hourly event, arrival, autosave | restart between events, SD failures, a game in memory meanwhile | experience is neither lost nor doubled |
| **Terminal** (`MonsterMeshTerminal`) | its own copy of the party, the staged party | open, credit experience, commands | its copy is stale while the game runs | never writes over what the player saved |
| **Emulator and file browser** | cartridge RAM, whether it runs | launch, resume, leave, eject, save | owns the save file while a game is in memory | saves are never undone |
| **Party exchange** (MM) | chunk masks, timers | request, chunk, retry | chunks lost, two exchanges interleaved | a party is used only when complete |
| **LORD campaign** (`Lord*`) | badges, coins, turns left today, save | travel, fight, rest, day roll-over | clock jumps | daily limits, badge order |
| **BBS gym and ladder** (`gauntlet/`) | challenger queue, leader, profiles, MQTT bridge | challenge, defend, promote | leader changes during a challenge | one leader; a slot is not lost |
| **Co-op dungeon** (`dungeon/`) | lobby, floor, shared monster | join, act, advance | players vanish mid-floor | all alive players on one floor |
| **Audio, data tables** | hardware state, constants | | | outside the protocols |

### The firmware beneath

| component | state it keeps | operations | what is hard | what makes it correct |
|---|---|---|---|---|
| **Packet history** (`src/src/mesh/PacketHistory`) | a fixed array of records | find, insert, merge, remove a relayer | full table, wrapping clock, first match only | one record per packet; the best hop limit is kept |
| **Mesh routers** (`Router`, `FloodingRouter`, `NextHopRouter`, `ReliableRouter`) | received queue, pending retransmissions, learned next hops | send, filter, sniff, relay, acknowledge, retransmit, give up | duplicates, implicit acknowledgements, learning from others' traffic | true acknowledgements; always a verdict; silence in the end |
| **Radio transmit path** (`MeshPacketQueue`, `RadioLibInterface`, `SX126xInterface`, `NotifiedWorkerThread`) | priority queue, packet on the air, one notification | send, cancel, replace, transmit, sleep, reconfigure | an interrupt between any two statements, nested handlers | everything queued is sent, in order |
| **Phone API, node database, channels and crypto, power state machine, MQTT, store-and-forward, other modules, drivers** | | | | upstream, not modelled |

`PROJECT.json` lists every component with its status.

### How they interact

`MonsterMeshModule::runOnce` works through its pending requests block by block, drives
`tick()` of the battle, drains the transport's TX queue into `Router::send`, and dispatches
received packets to `handlePacket()`. The UI task calls `handleKeyPress()`, which gives keys to
the terminal, the emulator or `handleKey()` and sets request flags that `runOnce` finds later. The
battle never calls the module: the module notices at its next tick that the battle is over,
stages the experience for the terminal and releases the screen. The router asks the packet
history about every packet it hears or sends, hands what must be sent to the radio's queue,
and takes its own acknowledgements from the same received queue as everything off the air.

## 2. What is modelled

| module | models | code it maps |
|---|---|---|
| `MeshChannel` | one direction of a link: TX queue, loss, reordering when `Reorder` | transport queue |
| `BattleEngine` | the engine as the protocols see it | `Gen1BattleEngine` |
| `ServerAuthBattle` | the two roles of a live PvP battle over two channels | TB, MM |
| `LiveBattle` | what a live battle promises its players; `ServerAuthBattle` implements it | (abstract) |
| `LockstepBattle` | the legacy battle: two engines over two channels | TB, MM |
| `DaycareSave` | the save file, the emulator, the daycare and the terminal's party | MM, `PokemonDaycare`, `MonsterMeshEmulator`, `MonsterMeshTerminal` |
| `PacketHistory` | the table of seen packets | `PacketHistory` |
| `ReliableRouting` | the four routers on every node of a small mesh | `src/src/mesh` |
| `RadioTransmit` | queue, worker thread, interrupts and chip | `src/src/mesh`, `src/src/concurrency`, `src/src/sleep.cpp` |

`MC*` modules add what TLC needs (model values, symmetry sets, the networks); `*Proofs`
modules hold the theorems. Each model names its bounds as constants (`MaxSession`, `MaxTurn`,
`MaxSeq`, `MaxSends`, `MaxFaults`, `MaxArrivals`, `MaxTime`, `MaxEvents`, `MaxBattles`, `MaxPlays`).

### MeshChannel

A channel is a bounded sequence. `Enqueue` is `queueSend` (dropped when full), and
`DropPendingSends` keeps any prefix, because how much of the queue has already been put on
the air depends on the drain. With `Reorder` any packet may be delivered next (several
hops, MQTT); without it only the first (direct radio). The channel loses any packet but
never duplicates one: the router drops packet ids it has already seen, so every repeat a
receiver sees was sent by its sender's timers, which are in the models.

### BattleEngine

Side 0 is the node that runs the engine. A turn may take down the active mon of either
side; damage, speed, status and the random number generator only choose which of these
outcomes happens, so `ExecuteTurn` is the set of all of them. `forfeit()` decides the
battle whatever the result was, as in the code. `needPlayerSwitch` is not modelled:
`handleFaints()` has replaced a fallen active mon before any board of an ongoing battle is
built, so the flag is never set on the wire.

### ServerAuthBattle

`srv` and `eng` are the challenger's `MonsterMeshTextBattle` (role `SERVER`) and its engine;
`cli` is the challenged node's (role `CLIENT`) with the parties of its engine, which it only
overwrites from packets. Fields carry the source's names. Every packet handler, both ticks and
every key that changes the state is one action:

| action | code |
|---|---|
| `SendChallenge` | `startServerAuthAsInitiator` |
| `ServerReceive` → `OnAccept`, `OnActionV2`, `OnStateRequest` | `handlePacket`, `serverAuthOn*Pkt` |
| `ServerTick` → `Retransmit`, `ResolveTurn` | `tick`, `serverAuthRetransmit`, `resolveTurn` |
| `ServerKeyFinished/Esc/Flee/SwitchMenu/Pick` | `handleKey` by phase |
| `ClientReceive` → `OnChallenge`, `OnUpdate`, `OnFullState`, `OnForfeit` | `handlePacket`, `clientAuthOn*Pkt` |
| `ClientTick` | `tick`, `clientAuthRetransmit` |
| `ClientKeyYes/No/Finished/Flee/SwitchMenu/Pick` | `handleKey`, `clientAuthSendAccept` |
| `ServerEvicted`, `ClientEvicted` | the fight command's clean-up of a stale battle (MM) |
| `Lose` | the air |

Abstractions, all deliberate:

- **Time.** A timer that is armed may run out at any tick; nothing else is assumed of 5, 8,
  11, 12, 15, 45 or 60 seconds, so the timers race in every order. `SlowStart` is the one
  restriction: when FALSE the first UPDATE comes within 15 s of ACCEPT and the client
  never sends its 15 s STATE_REQUEST; the runs use FALSE, the theorems hold for both unless they say so.
- **The board** is the turn, the number of mons standing on each side, and `real`, which is
  FALSE for a board of the placeholder engine a server holds before ACCEPT. Two boards of the
  same turn hash differently exactly when one of them is a placeholder, or when a knock-out
  levelled up one of the client's mons and thereby changed its HP (`LevelUps`).
- **Turn and sequence** are one byte on the wire (`Wire`). The mismatch of the 16-bit and the
  8-bit turn in the board hash from turn 256 on is not modelled (hazard list).
- **XP** is the number of knock-outs credited in a battle.
- **Sessions** are fresh numbers; the 16-bit session id of the code may collide.
- **Users** press any key their phase accepts at any moment. The PP, trap and disable checks
  choose among moves and are left out. `Menus` and `EarlyFlee` switch off the detours through
  the switch and flee menus and a flee before the first UPDATE, for size.
- **`TerminalHeld`**: the server's terminal keeps the keyboard until ACCEPT arrives, as it does
  from the fight command on. Without it ESC before ACCEPT ends a battle that a late ACCEPT
  starts again.
- **The peer.** Packets are those of the one peer; the `remoteId_` checks are not modelled.
- Two pieces of code are unreachable and left out: the duplicate-CHALLENGE branch of
  `clientAuthOnChallengePkt` and `c == 27` in the switch menu.
- The UI task and the main loop are taken to alternate between whole handlers; the code
  has no lock (hazard list).

`chosen` and `applied` are history: the moves users picked, the boards the client took.
Properties read them, no action depends on them.

### LiveBattle

The battle without packets: a challenge is offered, accepted or given up; every turn plays a
move the challenged player picked (`Strict`: picked for that very turn); the battle ends by
the last knock-out or a flee; nobody drops out of a battle that is being played. The refinement
mapping is at the end of `ServerAuthBattle`: `Stage` is computed from the server's mode,
`awaitingAccept` and phase; turn, result and mons standing are the server engine's; picks are
`chosen`. What is not obvious is what the abstract step forbids: a second board of the same
turn, a turn without a fresh pick, leaving a battle in play.

### LockstepBattle

Both nodes run the engine from one seed. The engine is deterministic, so `fate` records what
each turn (a battle and the moves played in it) did, and a second engine in the same state does
the same. `Launch` is the hub's start of the battle after the parties are exchanged: the initiator
resets `pendingRemoteAction_`, the receiver keeps it from its last battle. `Pick`, `Flee`, `Exit` are
keys; `ResolveTurn`, `Resend`, `Timeout` the ticks; `OnAction` (with the replay from `lastSent` and
`prevSent` for a peer one turn behind), `OnForfeit`, `OnHash` the handlers. The hash covers
everything that happened and each node's own level-ups, because only the own side is levelled
up in battle. The party exchange before the launch is not modelled (see below).

### PacketHistory

`recentPackets` is the array of `PacketRecord`s, `now` the uptime whose low bits are `millis()`
(`Wrap` stands for 2^32). `Hear` is `wasSeenRecently()` for a packet off the air, `Send` the call a
router makes for a packet it is about to transmit, `RemoveRelayer` what `Router::cancelSending` asks
for when a queued relay is taken back. `find()`, `insert()` with its choice of slot, and
the merge of relayers and hop limits are operators of their own. `OurNum` is the node itself, whose own packets are
never taken for a fallback to flooding. The two hop limits that the code
packs into one byte are kept apart (`highest`, `ourTx`) and put together where the code compares
the whole byte. `storedAt` is history: the uptime at which a slot was written, which the record's
32-bit `rxTimeMsec` only approximates.

### ReliableRouting

One record per node holds what its routers keep in RAM: the packet history (as a function of
(sender, id)), pending retransmissions, the transmit queue, `fromRadioQueue` (`inbox`) and learned
next hops. A handler runs to its end on the main loop, so the code's functions are operators
from a node's record to the record they leave: `Send` is the chain `ReliableRouter::send` →
`NextHopRouter::send` → `Router::send`, `Filter` the chain of `shouldFilterReceived`, `Sniff` the chain
of `sniffReceived`, `Handle` one round of `Router::runOnce`, `Retransmit` one packet of
`doRetransmissions`. `Submit` is a phone sending a packet with `want_ack`. `OnAir` puts one queued
packet on the air; each neighbour hears it or, within `MaxFaults`, misses it. Nodes begin with
nothing learned or with a next hop on a shortest path. A network says who hears whom, who is a ROUTER, and which
ROUTERs each node has among its favourites: what a favourite has relayed keeps its hop limit at a ROUTER, except on the
first hop (`Decremented`).

- Retransmission timers run out when the mesh is quiet, or at any time within `MaxFaults`.
- The queue of the radio sends in any order: its order is `RadioTransmit`'s subject. Eviction
  of history records and the six relayer places are `PacketHistory`'s.
- Left out: packets that cannot be decoded, MQTT and UDP, the duty cycle, roles other than CLIENT
  and ROUTER, modules that send a reply of their own, collisions of last bytes.

### RadioTransmit

The interrupt may come between any two statements of the main loop's code, and calls nest:
`setStandby()` handles a pending notification from inside the handler of another one. The
main loop is therefore a `stack` of statements that are still to be executed, innermost first;
an action executes the top one. `TxDone` and `RxDone` are the interrupt handlers, `Run` and `Check`/`Clear`
are `NotifiedWorkerThread`'s reading and clearing of its one notification (two statements,
with room for an interrupt between them), the rest are the statements of `onNotify`, `startSend`,
`setStandby`, `startReceive`, `reconfigure` and `doDeepSleep`. Callers send (`Send`; a retransmission sends a copy, which
may wait beside the first one or while that is on the air), cancel
(`Cancel`), clamp a packet to the late window (`ClampToLate`) and replace a queued copy by a better
one (`RemovePending`). `Inserted` is `std::upper_bound` with `CompareMeshPacketFunc`. The chip is the SX126x
family. The history variables `lost` and `outage` say that an interrupt's notification was
wiped, and that the radio was reconfigured, a send refused or failed and nothing woke the
worker since.

### DaycareSave

`runOnce()` is a sequence of blocks, and `pc` names the next one: save the game, enter the emulator,
browser (`LaunchROM`, `ClearCart`), flush after an event, write-back after a battle, load the party, check-out
and check-in. The key handler runs on the display's task between any two blocks and only sets flags
(`pend`) and `mode`; leaving the emulator takes two stores with room for a block between them. The emulator runs its
frames on a task of its own (Core 1): `FrameEnds` is the end of one, where `emuTaskLoop()` saves when a battle in the game
is over, also in the last frame (`emu.busy`), which may end after the emulator was left; that every frame may be such a one
is the model's choice, since it does not follow the game. `Event`,
`Arrival`, `Autosave` are the daycare's tick, `Battle` a finished battle that staged experience,
`TryConsumeStagedParty` the terminal's. `Play` is the player training and saving in the game, `PowerLoss` a
reboot. Each access to the SD card may fail within `MaxFaults`; a write that fails after the truncation
leaves a `TornFile`.

A party is one creature and its experience, there is one ROM, and experience per event, battle and
play is one. The creature carries a mark for the name of its original trainer (`ot`), because the terminal loses it:
`loadPartyFromSavOnSd()` (`Loaded`) starts from zeros and does not read the names, and the write-back puts those zeros in
the file. HP, status and PP, which the write-back takes from the file itself, are left out. A row of the browser is taken to
be picked only after the last frame of the emulator is over: the browser scans the card first, and a frame takes
milliseconds. Beacons, the neighbour table, mood, friendship and achievements never touch the save and
are left out. The unlocked addition to `stagedXp_` (a data race) is taken as atomic.

### How the modules compose

`ServerAuthBattle` and `LockstepBattle` are built from `MeshChannel` and `BattleEngine`.
`ServerAuthBattle` instantiates `LiveBattle`. `ReliableRouting`, `PacketHistory` and
`RadioTransmit` are three views of one send path, each leaving open what another one decides:
the router model keeps every history record and sends in any order, so it covers every table
and queue that does not run over; `MeshChannel` stands for all three.

## 3. Properties and runs

Bounds appear only as guards of actions. Deadlock is checked in all runs but those of the battles:
when the bounded challenges are over and both nodes are idle, those models have nothing left to do.

| run | question | bounds | states |
|---|---|---|---|
| `turns` | direct link: does every turn play the move picked for it, is XP credited once, does the battle implement `LiveBattle` strictly? | 2 mons, 2 turns, 3 UPDATEs, 2 moves, level-ups | 1.0 M |
| `mesh` | reordering path, menus, early flees: are boards acknowledged only when taken, is it still a `LiveBattle`? | 1 mon, 1 turn, 2 UPDATEs, level-ups | 0.7 M |
| `progress` | two battles in a row on a fair link: do challenges end, picked turns get played, results arrive, whatever the first battle left behind? | 2 battles, 1 try, 1 turn, 2 UPDATEs each, one packet in flight | 44 k |
| `lockstep` | lossy link: do two engines play the same picked moves, and does nobody stay behind? | 2 turns, queue of 2, no level-ups | 0.15 M |
| `history` | full table: one record per packet, the oldest gives way, the best hop limit stays? | 3 packet ids, 2 slots, 2 relayers, 2 ms | 59 k |
| `routing` | are acknowledgements true, next hops acyclic, and is the phone always told? | line and triangle of clients, line with a ROUTER whose favourite is the ROUTER that sends, triangle with two ROUTERs that are favourites of each other; 2 hops, 1 packet, 1 loss or early timer | 0.43 M |
| `settling` | does the mesh fall silent? | line of clients, same bounds | 14 k |
| `radio` | does the queue keep its order and keep emptying under interrupts and copies? | 3 packets and copies of them, 2 places, 2 arrivals | 0.12 M |
| `daycare` | is what the game saved never undone, does the daycare resume? | 2 species, one event, battle, play and fault, equal caps | 3.2 M |

The bounds are small because the hazards are short. In the battles the counterexamples found need at
most two turns, two packets in flight and one repeat of each; two UPDATEs per turn boundary are what the
sequence numbers can confuse, a third lets the first be repeated after the second. In the lockstep battle
two turns are what `lastSent` and `prevSent` can hold. In the routers a line of three is the smallest mesh
with a relay, the triangle the smallest with two paths; the retransmission counts are the code's own (3 and
2). Two slots and three packets fill and overfill a history. Three packets for a queue of two are one of each
kind the comparator tells apart. In the daycare every pair of event, battle, play and fault can meet in
every block; a third species or a second play repeats what the first does. The two caps are equal in the run; the theorem
covers every pair.

Each module has one type invariant, and each is a theorem (section 4). Runs check those of the server-authoritative
battle, the routers and the radio as well.

**Battles**

- `TypeOK` also bounds `challengeTries` by `TB_CHALLENGE_MAX_TRIES`.
- `TurnsPlayPickedMoves` (action): a turn plays the client move its user picked for that turn of that battle.
- `MovesArePicked`: weaker, true on every path and proved: what waits in the engine was picked in this battle.
- `AckedWasTaken`: the server stops repeating a board only after the client took it.
- `AckedIsInStep`: when it has stopped, the client is at the server's turn. Otherwise the client's actions
  would be dropped, nothing repeated, and the battle would die of silence.
- `AcceptConfirmed` (action): a client starts playing only on a board of the battle it accepted, so only when
  the server has its ACCEPT.
- `NoXpMinted`: never more knock-outs credited than the server lost mons.
- `OneWinner`, `AckedResultIsShown`; liveness `ChallengeEnds`, `PicksPlayTheTurn`, `ResultArrives`.
- `ImplementsLiveBattle`, `ImplementsStrictBattle`: the refinements.
- Lockstep: `PlayedWerePicked`; `CleanLockstep`, equal moves and at most one turn apart; `DesyncIsReal`, an abort
  only when the two engines, in the same battle, played different moves (a HASH of the battle before cannot cause one); liveness `PickedTurnIsPlayed`, `FinishSpreads`.

**Mesh**

- History: `NoDuplicateEntries` ("be careful not to create duplicate entries", since `find()` stops at the first
  match), `OldestIsEvicted`, `HighestIsKept`.
- Routing: `AckIsTrue`; `HeardDirectly`, on which both the answer's hop limit and learning rest, also where ROUTERs keep
  the hop limit of what a favourite has relayed;
  `NoRoutingLoop`; `VerdictReached`, every reliable packet of a phone gets an answer; `NoNakOnceAcked`, a
  failure is not reported after an acknowledgement; liveness `Settles`. Hearing a neighbour relay the packet
  ("implicit") counts as a verdict, as the code tells the phone so.
- Radio: `QueueInOrder`, sorted as `upper_bound` needs it, with any number of copies of a packet; `TransmitterFree`, the assertion in `beginSending()` under nesting;
  `TransmitterIsWatched`; `StallsOnlyInOutage`; `EvictsLeastUrgent`; liveness `KeepsSending` and `SendsFinish`,
  both except after an interrupt that the worker thread wipes, which the code cannot exclude.

**Save file**

- `PlayIsKept`: the species and the experience that the game last saved are never undone by the daycare's or the terminal's
  write, although both write what they read earlier. The name of the original trainer is kept only until the first
  battle: the write-back zeroes it. Two SD failures may undo it, and a torn file is excepted. Experience counts up
  to the lower cap: the terminal holds 1,000,000 for every species (`MonsterMeshTerminal.cpp:294`), the game 1,250,000
  for the slow ones, so a battle's write-back cuts what lies between.
- `CartOwnsSave` (action): while the emulator holds a game, or has one to write, only it writes.
- `DaycareResumes` (liveness): whoever leaves the emulator or browser finds the daycare at work again.

**Fairness.** Battles (`FairSpec`): `tick()` runs for ever on both nodes and its retransmission timers come due
(the main loop reschedules `runOnce` unconditionally); a packet kind that can be delivered infinitely often is
delivered (a lossy but usable link: strong fairness, because the channel may be empty in between). No key is
ever assumed to be pressed. In the server-authoritative battle the 60 s silence is not assumed to occur, so
its three liveness properties do not rest on the timeout that would trivially end a battle; in the
lockstep battle it is assumed only when the peer has left, where it is the code's only remedy.
Radio: the worker thread gets its turn, a transmission ends, and the channel is not found busy at every
look. Routing: some node with work to do does it. Daycare: `runOnce` goes on to its next block.

**Expected violations.** Three runs check what a comment of the code states and find it broken. Each is a
finding in `PROJECT.json`.

| run | property | what happens |
|---|---|---|
| `stale_move` | `TurnsPlayPickedMoves` with reordering | UPDATE 2 fails the hash (level-up) and sets `clientTurn_`; an older copy of UPDATE 1, still the last applied one, makes the client send its last move again, stamped with the new turn; the server plays it. The timer path has a guard for exactly this, the dedupe path has not. |
| `sleep_cuts_send` | `SleepCutsNoSend` | the transmit queue is empty while its last packet is on the air: `canSleep()` agrees, and deep sleep stops the chip. |
| `double_count` | `XpCountedOnce` | `checkOut()` does not reset `totalXpGained`, saves it, and the next check-in loads it again: the next check-out adds the experience of the first once more. The comment at the call says it is zeroed. |

**Other divergences met while modelling**, described here and covered by the assumptions a run names:

- A first UPDATE that takes more than 15 s (`SlowStart`): the STATE_REQUEST is answered from the placeholder
  engine, the client stops repeating a lost ACCEPT, and `AckedResultIsShown` can fail the same way.
- With a level-up the final UPDATE may fail the hash, and the FULL_STATE that replaces it cannot carry a result:
  the client is not shown it. `progress` therefore runs without level-ups.
- An UPDATE on its way reopens a client that has fled (`clientAuthOnUpdatePkt` assigns the phase).
- A declined or unanswered challenge is FINISHED with the result ONGOING.
- On a reordering path an older UPDATE revives a fallen mon on the client, and its next fall is credited again:
  `NoXpMinted` is about the direct link.
- A FULL_STATE that carries a knock-out patches the HP without crediting it.
- The server's F/K flee sends one FORFEIT that is never repeated; its ESC sends an UPDATE that is.
- An action for another turn, or a STATE_REQUEST, does not refresh `lastRecvMs_` (TB:2045).
- Lockstep: each resend demotes `lastSent` to `prevSent` (TB:899), so after one resend a peer one turn behind can
  no longer be helped but by the timeout; the receiver keeps `pendingRemoteAction_` in a rematch (TB:140), and
  may play a turn without the peer's action (`CleanLockstep` is about battles without it); only the own
  side is levelled up (TB:755), so a level-up aborts the battle as a desync.
- History: `PacketHistory.cpp:92` compares the byte that also holds our own transmission, so a better copy is not
  noticed as one after we have sent; every copy heard shifts the relayer array (:170) until our own byte falls off;
  a record stored in the millisecond where `millis()` is 0 is stamped 1.
- `waitEnterSleep()` polls on the loop that alone can empty the queue: with a packet queued it ends in `assert(0)`.
- A flush after an event checks the daycare out, and nothing checks it in before the emulator or the browser
  is left; the watermark moves before the flush that may fail; a write-back while a cart is loaded is
  dropped; FILE_WRITE truncates the save before the new one is written; an SD failure at launch starts
  the game with blank memory, which its next save writes over the file.
- `loadPartyFromSavOnSd()` never reads the names of the original trainers (MM:4733-4745), and `writePartyToSavOnSd()` copies
  the zeros it holds instead over those in the file (MM:4856-4858): every write-back of a battle erases them.

**Slips.** For each property of a passing run `PROJECT.json` names a variant of one operator with a plausible
slip (a guard dropped, the previous turn kept, one try too many). The variants stand next to the operators they
vary; each makes its property fail.

## 4. What is proved

All theorems hold for every value of the constants that the named assumptions allow: any set of
moves, team size, queue depth, capacity and bounds, ordered or reordering links.

| module | theorem | statement |
|---|---|---|
| `ServerAuthBattleProofs` | `TypeCorrect`, `MovesPicked`, `AckedTaken` | `Spec => []TypeOK`, `[]MovesArePicked`, `[]AckedWasTaken` |
| | `OneSideWins`, `NoXpFromNothing` | with `TerminalHeld`, `[]OneWinner`; on a direct link also `[]NoXpMinted` |
| | `AcceptIsConfirmed` | with `TerminalHeld`, no slow start and no early flee, `AcceptConfirmed`, on every kind of link |
| `LiveBattleProofs` | `LiveBattleImplemented` | with `TerminalHeld`, `Spec => ImplementsLiveBattle` |
| | `PickedTurnsPlayed`, `StrictBattleImplemented` | on a direct link, `MaxSeq <= 255`: `TurnsPlayPickedMoves`; with `TerminalHeld`, `ImplementsStrictBattle` |
| | `AckedInStep` | on a direct link, `MaxSeq <= 255`, with `TerminalHeld`, no slow start and no early flee: `[]AckedIsInStep` |
| | `AckedEndShown` | on the same terms and without level-ups: `[]AckedResultIsShown` |
| `LockstepBattleProofs` | `TypeCorrect`, `PlayedMovesWerePicked`, `CleanBattlesAgree`, `AbortsAreReal` | `Spec => []TypeOK`, `[]PlayedWerePicked`, `[]CleanLockstep`; without level-ups `[]DesyncIsReal` |
| `PacketHistoryProofs` | `TypeCorrect`, `EntriesUnique`, `HighestKept`, `OldestEvicted` | `Spec => []TypeOK`, `[]NoDuplicateEntries`, `HighestIsKept`; before the clock starts again `OldestIsEvicted` |
| `ReliableRoutingProofs` | `Typing`, `DirectIsDirect`, `AcksAreTrue`, `AckIsFinal` | `Spec => []TypeOK`, `[]HeardDirectly`, `[]AckIsTrue`, `NoNakOnceAcked` |
| | `VerdictsReached` | if no full inbox discards a verdict of its own node (`VerdictsStay`), `[]VerdictReached` |
| `RadioTransmitProofs` | `Typing`, `Order`, `FreeToSend`, `SendIsWatched`, `NoOtherStall`, `Eviction` | `Spec => []TypeOK`, `[]QueueInOrder`, `[]TransmitterFree`, `[]TransmitterIsWatched`, `[]StallsOnlyInOutage`, `EvictsLeastUrgent` |
| `DaycareSaveProofs` | `TypeCorrect`, `OnlyTheCartWrites`, `PlayKept` | `Spec => []TypeOK`, `CartOwnsSave`, `[]PlayIsKept` (for every pair of caps) |
| `MeshChannelProofs` | lemmas | what enqueuing, loss, delivery and dropping do to a channel of packets of a set, and to one whose packets are in an order |

**Server-authoritative battle.** `TypeOK` is not inductive: a packet carries its sender's session, which is one
of `Sessions` only while a battle is on, and an unacknowledged UPDATE is sent again from a buffer that must
hold one. `TypeInv` adds these facts about both nodes (`ServerOn`, `ServerBuffer`, `ClientOn`) and is inductive.
`MovesArePicked` and `AckedWasTaken` are about the server, but what they say was decided at the
client and travelled in a packet. `HistoryInv` therefore adds what each ACTION_V2 in flight says: its move was
picked in its session, and a nonzero sequence number in it was taken in its session; the client's
remembered action and `lastApplied` satisfy the same; and the server's pending action and cleared
`unackedUpdate` follow from the packet that caused them. Facts about channels have the form
`ch \in Seq(S)` with S the set of honest packets, so loss, reordering, removal and appending are each one
lemma. Histories only grow, so honest packets stay honest (`HonestMonotonic`). Sequence numbers are bytes
here as in the code; past 256 UPDATEs in a battle `AckedTaken` speaks of the number, not of the board.

**Refinement.** `LiveBattleImplemented` needs `TypeInv`, `HistoryInv` and one more fact, `StageInv`: which stages go
with which phases, boards and results (an offer has not been played; a battle in play is undecided).
With it every action of the two nodes is a step of `LiveBattle` or leaves its variables alone. The abstract
`PlayTurn` demands a pick of this battle, which is where `HistoryInv` is used.

**Winners and knock-outs.** `OneSideWins` adds `WinInv`: every packet that announces the client's win is of a battle
the server has not won and can no longer win (`Lost`), because that battle is behind it, or decided. It needs
`TerminalHeld`: a challenger who could press keys before ACCEPT could lose the battle, and ACCEPT would start it
afresh. `NoXpFromNothing` compares boards with boards. The client credits a knock-out when a board shows
fewer standing mons than it has, so what it has been credited plus what the next board shows must stay within the
team. On a direct link the boards of a battle arrive in the order they were built and the server's mons only
fall, so the queue is a chain (`Falling`): each board shows at most as many mons as those before it.
With reordering the chain breaks and so does the property, as noted in section 3.

**The first board.** For `AcceptIsConfirmed`, `AnswerInv` says of every packet and buffer whose battle it may belong to: a
board, a STATE_REQUEST and an action only to one whose ACCEPT is no longer awaited (`Answered`). It closes a circle:
the server builds a board before ACCEPT only if somebody asks or flees, and the client can ask or act only
where it has seen a board. Hence the three assumptions, none of which can be dropped: with a slow start, an early flee or
an unguarded server terminal the circle is entered, and TLC finds a FULL_STATE for the abandoned first attempt that
confirms a second ACCEPT to the same challenge while that ACCEPT is lost or still on its way.

**The move of the turn.** A board that hashes differently moves the client's mirror of the turn on and leaves its
last action in place, now stale. The timer does not repeat a stale action, but the DUPLICATE branch does: a repeat of
the last board applied makes the client send it, stamped with the new turn (`stale_move`). `TurnInv` shows why this
cannot happen on a direct link. The boards in flight are a chain of rising numbers (`Rising`); a client with a stale
action has seen a board newer than the last one it applied, so no repeat of that one is behind it (`NotBefore`). The
exception is a final board, applied without clearing the action; then the battle is one in which no further
turn is played (`Settled`). So an action in flight, in the engine or in the client's memory is the pick for the turn it
names (`Exact`, `PickExact`, `ActExact`), and the strict refinement follows from the plain one step by step
(`StrictStep`). `MaxSeq <= 255` says that a battle sends at most 255 boards: past that the 8-bit number of the
code starts again at 0, which the client takes for "nothing applied yet", and rising numbers mean nothing.
`TurnsPlayPickedMoves` itself needs no assumption about the terminal.

**In step.** `AckedIsInStep` is about two nodes that each see only what the other sent some time ago. It is not
inductive, because a FULL_STATE moves the client to the turn of the board and is acknowledged whatever that turn is:
one built before the last turn would, if it came after the UPDATE of that turn, clear `unackedUpdate` with the client a
turn behind. `PaceInv` says why none is on its way. It has three parts, and one witness, the mons standing before the last turn,
against which a board one turn old is compared:

- `Fresh`: before ACCEPT no board has been sent, and a repeated challenge, which resets the client, can
  only meet one that has done nothing in the battle, since the challenges of a battle precede its boards on the link (`OfferFirst`).
- `Echoed`: an acknowledgement in flight names a board the client has applied, so a server whose UPDATE is
  acknowledged faces a client whose last applied board is that one.
- `Level`: the UPDATEs of a battle number its turns, and the client is at the turn of the engine or one behind. It asks for a
  board only in the turn it has just moved to and before it acts in it (`AsksFirst`); so once the action for the turn
  is with the engine no request for it is left (`NoAsk`), and an answer still on its way is not older than the client's turn (`From`).

Each part needs the others: an acknowledgement that is honest about the number says something about the turn only because numbers
are turns, and they are because nothing is built before ACCEPT. A slow start, an early flee or an unguarded server
terminal makes the last false. TLC finds `AckedIsInStep` violated on a reordering link, and with a slow start once a challenge is tried
twice; with an early flee or an unguarded terminal alone it finds no violation, so those two assumptions may be more than
is needed.

**The end.** `AckedResultIsShown` adds `EndInv`: without level-ups every board hashes equal (`RealBoards`), so nobody asks
for one (`NoRequest`) and all boards are UPDATEs; those with the last number of a decided battle bear its result
(`Ending`), so a client that has applied it shows the result, and a repeat leaves it there. With
level-ups the FULL_STATE that takes the place of the last UPDATE cannot carry a result (section 3): `~LevelUps` cannot be dropped.

**Lockstep battle.** `IInv` joins to the types what is known of each node: what waits in an engine and what it
played was picked (`EngineKnown`), what `lastSent` and `prevSent` can replay was picked for the turn it says
(`SentKnown`), a user of a clean battle picks once per turn and not ahead of the engine (`PicksKnown`), and
the flag means what the engine holds (`FlagKnown`); packets in flight carry picked actions (`NetInv`).
Agreement follows because both engines play, for each turn, the one pair that was picked; being at most a
turn apart follows because a turn needs the peer's pick, and the peer picks only for its own current turn.

`AbortsAreReal` reads a HASH in flight as a claim about its sender: it carries what the sender's engine had gone
through at a turn of its present battle, or it is of a battle the sender has left (`TruePkts`). Equal turns played
give equal hashes when nobody levels up, so a difference shows that some turn was played differently
(`Parted`). The theorem needs `~LevelUps` because the code hashes each side's own level-ups.

**Packet history.** `NoDuplicateEntries` is not inductive alone: `insert()` stops at the first free slot, so a record
behind a free slot would be stored twice. The array fills from the front (`FillsFromTheFront`), which every
operation keeps because no record is ever freed. `OldestEvicted` adds that a record carries the time at which
it was stored (`Dated`), so that the ages `insert()` compares are true ages. It assumes `Start > 0` and
`MaxTime < Wrap`: a record stored while `millis()` is 0 is stamped 1, and ages are differences of 32 bits, so after
49.7 days an old record looks young again. Both are limits of the code.

**Routers.** What a packet says must be compared with what other nodes did long before, so the invariant speaks of
all packets made so far: there is a set C of their cores (sender, addressee, id, what they answer) such that an id was
given once, a failure is addressed to its own sender, and an acknowledgement was made only by a node whose modules
got the packet (`Made`); everything in a queue, in the air, or waiting for a retransmission is a copy of one in C.
Two facts about keys carry the rest. A history holds a packet addressed to its node only if the modules got it
(`HistoryKeys`): a repeated packet that is answered again was therefore received. And no packet of which the phone was
told that it arrived is still to be retransmitted (`PendingKeys`), so nothing is left that could give up on it. Each
router function (`Filter`, `Sniff`, `Rebroadcast`, `Send` and so on) has a lemma that it keeps a node `Good` for C. `HeardDirectly`
follows because every relay sends with a lower hop limit than the sender started with (`Sendable`, `Aired`): the first
hop takes one off, whoever relays it, and a favourite's packet keeps what it has only after that.
`NoNakOnceAcked` counts failures in the inbox, and its proof maps
the failures after a step one to one into those before. All this holds on every network, with or without routes
learned before, for every number of losses, early timers and packets. The only assumption beyond types is
`RetxAssumption` (a relay tries at least twice and no more often than a sender; the code has 2 and 3): with one try the
count of tries left would start below what `Retry` tests for.

`VerdictsReached` follows a packet through its node: as long as the phone has no verdict on it, the node either still
repeats it or has in its inbox a verdict to itself that the history does not know (`Awaited`, `VerdictInv`). The
router ends a retransmission in three ways (an implicit acknowledgement, `MAX_RETRANSMIT`, an answer from the other end), and the
lemmas `FilterStill`, `SniffStill`, `RetransmitDue` and their kin show that each leaves such a verdict behind. That the
history does not know it (`Unheard`) matters because `wasSeenRecently` would drop it otherwise; it rests on the ids
that answers get being new. The theorem assumes `VerdictsStay`: a node whose inbox is full does not throw out the verdict it
has just handed itself. `enqueueReceivedMessage` does discard the oldest packet of a full queue, so this cannot be
shown: with an inbox of two packets instead of four TLC finds a phone left without a verdict. In the runs the
inbox overflows as well, but not at such a moment.

**Radio.** `IInv` follows the worker through its nested handlers. The stack has a fixed shape (`StackInv`): at most one scan
waits below, and only the calls that `setStandby()` can make lie above it. While it waits no delay can fire
(`Quiet`), so `startSend()` is not entered twice; whoever is about to scan or send has a packet and the radio for itself
(`Free`), which is `TransmitterFree`. The chip at work has its handler attached (`Attached`), what is remembered will be
read (`Noted`), so the end of a transmission is ahead, remembered or being handled (`Watched`); and while the queue
holds a packet something will look at it again (`Woken`, `Resumed`), unless a notification was wiped or an outage left nothing
to do so. The order of the queue needs that `Inserted` puts a packet behind its equals (`std::upper_bound`) and that
`ClampToLate` takes the packet out before it goes back in. It does not need packets to differ: a copy that waits beside
the first is behind it like any other equal. `Eviction` counts copies, since the packet that gives way may be one of two.

**Save file.** `CartOwnsSave` needs to know where the key handler can set its flags (`FlagsInPlace`): a save
that is still to be written when the cart is out finds `runOnce` at the block that writes it, and the emulator's task is
busy only with a cart in, so that a save it makes by itself is the cart's own; what it saves is what the
file is compared with from then on (`WriteHolds`). `TypeCorrect`
needs that what is gained is bounded by what was counted. `PlayKept` says the same of every copy of the party from which
the file may be written: the file itself (`SavHolds`), the party the terminal has or is about to take when nothing
is to be reloaded first (`Fresh`, `NeverRun`), and the one a battle is about to write back (`BackFresh`); `Pending` says
which requests can be pending together and where `runOnce` is then, that is, that the reload always comes before
the write-back. As long as no battle was counted, nobody has written what the terminal holds, so the file and the game
agree on the name of the trainer (`Named`).

Only model-checked: all liveness (fairness is out of the prover's reach), and `NoRoutingLoop`, the one invariant of
the runs without a theorem. It holds on the checked networks, but no argument for every network is known: a next hop is
learned from who relayed an acknowledgement, without a sequence number or distance, so on a larger mesh two nodes could each
learn the other from acknowledgements that took different ways. Random simulation of a mesh of four found no such case.
No module declares a recursive operator.

## 5. Not modelled, and what could come next

- **Party exchange.** `challengePeerByShortName()`, the only function that starts one, has no caller at this
  commit (the terminal's `mmb` command uses the server-authoritative battle). A node meets the exchange only as
  the receiver of a peer of older firmware. The battle it would launch is `LockstepBattle`.
- **The hub's launch queue** (`pendingMmb2Initiator_`, gym chaining, clean-up of the screen): a queued launch may
  start after another battle has taken the object; two nodes that challenge each other both stay servers until
  the challenge times out.
- **LORD campaign, BBS gym and ladder, co-op dungeon**: protocols and rule engines of their own, with their own
  packet kinds, independent of what is modelled. The ladder is the next candidate.
- **Daycare's neighbour table, beacons and achievements**, which never reach the save.
- **Phone API, node database, channels and crypto, power state machine, MQTT, store-and-forward, other upstream
  modules**: upstream firmware. What the game and the modelled layers see of them is in the models:
  the verdict the phone is told, deep sleep and boot, reordering.
- **Data races** on plain fields between the display's task, the main loop and the radio's interrupt, other than
  those of `RadioTransmit`: handlers are taken as atomic.
- **Drivers, rendering, the Game Boy core, audio, data tables, the damage rules** of the engine (they decide among
  outcomes every one of which is modelled).

Theorems that could follow: for which networks `NoRoutingLoop` holds.

## 6. Running

    tlc -workers 2 -config Turns.cfg MCServerAuthBattle
    tlapm ServerAuthBattleProofs.tla

`PROJECT.json` names the module of each `.cfg`. The longest run (`daycare`) takes just under four minutes, the proofs of
one module between one and fifteen minutes.
