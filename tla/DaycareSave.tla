----------------------------- MODULE DaycareSave -----------------------------
(***************************************************************************)
(* The save file of the game and everything that writes it: the emulator,  *)
(* when it is left and when a battle in the game ends; the daycare that    *)
(* credits experience in the background; and the terminal that credits the *)
(* experience of its battles to its own copy of the party.                 *)
(*                                                                         *)
(* runOnce() of the main loop works through the requests of the key        *)
(* handler, which runs on the task of the display, block by block in a     *)
(* fixed order: "pc" names the block that comes next. The key handler acts *)
(* between any two blocks, and so does the emulator's own task (Core 1).   *)
(*                                                                         *)
(* A party is one creature, its experience, and whether the name of its    *)
(* original trainer ("ot") is still there; what the writers of the file    *)
(* restore to it (HP, status, PP) is left out. There is one ROM.           *)
(***************************************************************************)
EXTENDS Naturals, FiniteSets

CONSTANTS Mons,         \* species the player may have
          Starter,      \* the one in the save at first
          None,         \* no creature: an empty party, a blank save
          Torn,         \* a file that holds less than a save
          MaxExp,       \* expForLevel(species, 100)
          TerminalCap,  \* the terminal's cap, 1000000 for every species
          ExpPerLevel,  \* experience from one level to the next
          MaxEvents,    \* bound on daycare events
          MaxBattles,   \* bound on battles
          MaxPlays,     \* bound on saves made in the game
          MaxFaults     \* bound on SD failures and power losses

ASSUME DaycareAssumption ==
    /\ Starter \in Mons /\ None \notin Mons /\ Torn \notin Mons /\ None # Torn
    /\ {MaxEvents, MaxBattles, MaxPlays, MaxFaults} \subseteq Nat
    /\ {MaxExp, TerminalCap, ExpPerLevel} \subseteq Nat \ {0}

VARIABLES sav,      \* the .sav file on the SD card
          emu,      \* the emulator: cart (emuInitialized_), running_, busy
                    \* (~emuTaskIdle_), rom (its path is known), ram (cartRam_)
          mode,     \* "mesh", "browser" or "emulator"
          pend,     \* the pending... flags that are set
          pc,       \* the next block of runOnce()
          ui,       \* how far the key handler is in leaving the emulator
          term,     \* the terminal's party
          staged,   \* terminalStagedParty_
          stagedXp, \* stagedXp_: battle experience not yet in term
          path,     \* loadedSavPath_ is set
          autoLoaded, \* autoPartyLoadDone_
          dc,       \* the daycare's state in memory
          fresh,    \* lastEventTimeMs_ has moved past lastSavSyncedEventTime_
          flash,    \* daycare.dat
          count,    \* how many events, battles, plays and faults there were
          played    \* history: what the game last saved

vars == <<sav, emu, mode, pend, pc, ui, term, staged, stagedXp, path,
          autoLoaded, dc, fresh, flash, count, played>>
daycare  == <<dc, fresh, flash>>
terminal == <<term, staged, stagedXp, path, autoLoaded>>

Blank == [mon |-> None, exp |-> 0, ot |-> FALSE]
TornFile == [mon |-> Torn, exp |-> 0, ot |-> FALSE]
NoCart == [cart |-> FALSE, running |-> FALSE, busy |-> FALSE, rom |-> FALSE,
           ram |-> Blank]
HasParty(p) == p.mon \in Mons
AtMost(e, cap) == IF e > cap THEN cap ELSE e
LevelExp(e) == e - (e % ExpPerLevel)

Blocks == {"save", "enter", "browser", "flush", "writeBack", "load", "check"}
Flags == {"save", "resume", "browse", "writeBack", "load", "checkOut",
          "checkIn", "staged", "credit"}
Idle == [active |-> FALSE, mon |-> None, savExp |-> 0, gain |-> 0]

\* A step in which the SD card works, one in which it fails
Works == UNCHANGED count
Fails == /\ count.faults < MaxFaults
         /\ count' = [count EXCEPT !.faults = @ + 1]

Count(kind, bound) == /\ count[kind] < bound
                      /\ count' = [count EXCEPT ![kind] = @ + 1]

Goto(block) == pc' = block

----------------------------------------------------------------------------
(* The daycare: PokemonDaycare *)

\* What a successful flush leaves in slot p: the whole gain, capped.
Patched(p) == IF dc.gain = 0 THEN p
              ELSE [p EXCEPT !.exp = AtMost(@ + dc.gain, MaxExp)]

\* saveState(): a state without a gain is as good as that of no species, since
\* the check-in takes nothing but the gain from it
Saved == [mon |-> IF dc.gain = 0 THEN None ELSE dc.mon, gain |-> dc.gain]

\* checkOut(): the daycare stops and its state is saved, to be loaded by the
\* next check-in (what stays in memory is not read before)
CheckOut == /\ dc' = Idle
            /\ flash' = Saved

\* checkIn(): the saved state, started afresh if the species is another one
CheckIn(p) ==
    IF HasParty(p)
    THEN dc' = [active |-> TRUE, mon |-> p.mon, savExp |-> LevelExp(p.exp),
                gain |-> IF flash.mon = p.mon THEN flash.gain ELSE 0]
    ELSE UNCHANGED dc

\* An event credits experience, up to level 100; an arrival does so uncapped
Gain(xp) == /\ dc' = [dc EXCEPT !.gain = @ + xp]
            /\ fresh' = TRUE

----------------------------------------------------------------------------
(* The blocks of runOnce() *)

\* writeSaveFile(): the emulator writes its memory to the file
WriteSave == \/ /\ Works /\ sav' = emu.ram /\ played' = emu.ram
             \/ /\ Fails /\ sav' \in {sav, TornFile} /\ UNCHANGED played

\* pendingSave_
SaveGame ==
    /\ pc = "save" /\ Goto("enter")
    /\ pend' = pend \ {"save"}
    /\ IF "save" \in pend /\ emu.running
       THEN WriteSave ELSE UNCHANGED <<sav, played, count>>
    /\ UNCHANGED <<emu, mode, ui, terminal, daycare>>

\* pendingEmuResume_, back into the loaded cart, and pendingBrowserActivate_,
\* into the browser of ROMs: enterEmulatorMode() asks the daycare to check out
Enter ==
    /\ pc = "enter"
    /\ \/ /\ "resume" \in pend /\ mode = "mesh" /\ emu.cart
          /\ mode' = "emulator" /\ emu' = [emu EXCEPT !.busy = TRUE]
          /\ pend' = (pend \ {"resume"}) \cup {"checkOut"}
       \/ /\ "browse" \in pend /\ mode = "mesh"
          /\ ~("resume" \in pend /\ emu.cart)
          /\ mode' = "browser" /\ UNCHANGED emu
          /\ pend' = (pend \ {"browse"}) \cup {"checkOut"}
       \/ /\ mode = "mesh" => /\ "browse" \notin pend
                              /\ ~("resume" \in pend /\ emu.cart)
          /\ UNCHANGED <<mode, emu, pend>>
    /\ Goto(IF mode' = "browser" THEN "browser" ELSE "flush")
    /\ UNCHANGED <<sav, ui, terminal, daycare, count, played>>

\* No key, or the browser is closed
NoKey == /\ pc = "browser" /\ Goto("flush")
         /\ UNCHANGED <<sav, emu, mode, pend, ui, terminal, daycare, count,
                        played>>

\* The player picks a row of the browser, which has scanned the card by then:
\* the frame in which the emulator was left is taken to be over.
PicksRow == pc = "browser" /\ mode = "browser" /\ ~emu.busy

\* launchROM(): begin() forgets the last game, then loads the ROM and the
\* save; when the file cannot be read the game starts with blank memory
Inserted(ram) == [cart |-> TRUE, running |-> TRUE, busy |-> TRUE, rom |-> TRUE,
                  ram |-> ram]
LaunchROM ==
    /\ PicksRow /\ Goto("flush")
    /\ \/ /\ Works /\ mode' = "emulator"
          /\ emu' = Inserted(IF sav = TornFile THEN Blank ELSE sav)
       \/ /\ Fails /\ mode' = "emulator" /\ emu' = Inserted(Blank)
       \/ /\ Fails /\ UNCHANGED mode
          /\ emu' = [emu EXCEPT !.running = FALSE, !.rom = TRUE]
    /\ UNCHANGED <<sav, pend, ui, terminal, daycare, played>>

\* clearCart() from the [Eject Cart] row: runOnce() returns at once
ClearCart ==
    /\ PicksRow /\ emu.cart /\ Goto("save")
    /\ emu' = [emu EXCEPT !.cart = FALSE]
    /\ pend' = pend \cup (IF emu.running THEN {"save"} ELSE {})
    /\ UNCHANGED <<sav, mode, ui, terminal, daycare, count, played>>

\* patchSdSavPathWithDaycareXp(): read the file, check out, write it back
Patch ==
    \/ /\ Works /\ sav # TornFile
       /\ CheckOut /\ sav' = Patched(sav)
    \/ /\ Fails /\ sav # TornFile           \* the file opened for writing is
       /\ CheckOut                          \* truncated before it is written
       /\ sav' \in {sav, TornFile}
PatchFails == Fails \/ (Works /\ sav = TornFile)   \* before the check-out

\* Mutant of MayPatch: with a cart in memory as well.
MayPatchAnyway == mode = "mesh"

\* The gate of the daycare's and of the terminal's writes
MayPatch == mode = "mesh" /\ ~emu.cart

\* The experience of an event goes to the file, if it can
Flush ==
    /\ pc = "flush" /\ Goto("writeBack")
    /\ IF MayPatch /\ dc.active /\ path /\ fresh
       THEN /\ fresh' = FALSE
            /\ \/ Patch
               \/ PatchFails /\ UNCHANGED <<sav, dc, flash>>
       ELSE UNCHANGED <<sav, daycare, count>>
    /\ UNCHANGED <<emu, mode, pend, ui, terminal, played>>

\* writePartyToSavOnSd(): the terminal's party replaces that of the file, with
\* the names it has for the original trainers
WriteBack ==
    /\ pc = "writeBack" /\ Goto("load")
    /\ pend' = pend \ {"writeBack"}
    /\ IF "writeBack" \in pend /\ MayPatch /\ HasParty(term) /\ path
       THEN \/ Works /\ sav' = (IF sav = TornFile THEN sav ELSE term)
            \/ Fails /\ sav' \in {sav, TornFile}
       ELSE UNCHANGED <<sav, count>>
    /\ UNCHANGED <<emu, mode, ui, terminal, daycare, played>>

\* The first load, without being asked (autoPartyLoadDone_)
AutoLoad == IF ~autoLoaded /\ ~HasParty(term) /\ mode = "mesh"
            THEN {"load"} ELSE {}

\* loadPartyFromSavOnSd(): the staged party starts as zeros, and the names of
\* the original trainers are not read
Loaded(p) == [p EXCEPT !.ot = FALSE]

\* What the terminal stages: the party of the file or, when the file cannot be
\* read, that of the running game, whose file is then not known. (The names are
\* read there, but without a file they go nowhere; they are dropped as well.)
Stage(p, known) == /\ staged' = p /\ path' = known
                   /\ pend' = (pend \ {"load"}) \cup {"staged"} \cup AutoLoad
                   /\ CheckIn(p)

\* terminalNeedsParty_: load the party of the file and check it in. When there
\* is nothing to load yet, ask for it once.
LoadParty ==
    /\ pc = "load" /\ Goto("check")
    /\ \/ /\ "load" \in pend
          /\ \/ Works /\ sav # TornFile /\ Stage(Loaded(sav), TRUE)
             \/ /\ Fails \/ (Works /\ sav = TornFile)
                /\ IF emu.running THEN Stage(Loaded(emu.ram), FALSE)
                   ELSE /\ pend' = (pend \ {"load"}) \cup AutoLoad
                        /\ UNCHANGED <<staged, path, dc>>
       \/ /\ "load" \notin pend /\ pend' = pend \cup AutoLoad
          /\ UNCHANGED <<staged, path, dc, count>>
    /\ autoLoaded' = (autoLoaded \/ AutoLoad # {})
    /\ UNCHANGED <<sav, emu, mode, ui, term, stagedXp, fresh, flash, played>>

\* pendingAutoCheckOut_: the emulator or the browser was entered
AutoCheckOut ==
    IF "checkOut" \in pend /\ dc.active
    THEN IF ~emu.cart /\ emu.rom
         THEN \/ Patch
              \/ PatchFails /\ CheckOut /\ UNCHANGED sav
         ELSE CheckOut /\ UNCHANGED <<sav, count>>
    ELSE UNCHANGED <<sav, dc, flash, count>>

\* The flags once the check-out and, outside the emulator and the browser, the
\* check-in have been seen to
Checked == pend \ ({"checkOut"} \cup (IF mode = "mesh" THEN {"checkIn"} ELSE {}))
MayCheckIn == "checkIn" \in pend /\ mode = "mesh"

\* Mutant of AutoCheckIn: the check-in is decided before the check-out.
AutoCheckInFirst(active) ==
    pend' = Checked \cup (IF MayCheckIn /\ ~dc.active THEN {"load"} ELSE {})

\* Mutant of AutoCheckIn: the party is not read again if there is one.
AutoCheckInOnce(active) ==
    pend' = Checked \cup (IF MayCheckIn /\ ~active /\ ~HasParty(term)
                          THEN {"load"} ELSE {})

\* pendingAutoCheckin_: it was left; read the party again
AutoCheckIn(active) ==
    pend' = Checked \cup (IF MayCheckIn /\ ~active THEN {"load"} ELSE {})

\* The check-out comes before the check-in
Check ==
    /\ pc = "check" /\ Goto("save")
    /\ AutoCheckOut
    /\ AutoCheckIn(dc'.active)
    /\ UNCHANGED <<emu, mode, ui, terminal, fresh, played>>

Ticking == mode = "mesh" /\ dc.active

\* runEventCycle(), every five minutes
Event ==
    /\ pc = "save" /\ Ticking /\ Count("events", MaxEvents)
    /\ Gain(IF dc.savExp + dc.gain < MaxExp THEN 1 ELSE 0)
    /\ UNCHANGED <<sav, emu, mode, pend, pc, ui, terminal, flash, played>>

\* triggerArrivalEvent(), on the first beacon of a neighbour
Arrival ==
    /\ pc = "save" /\ dc.active /\ Count("events", MaxEvents)
    /\ Gain(1)
    /\ UNCHANGED <<sav, emu, mode, pend, pc, ui, terminal, flash, played>>

\* The daycare's own saveState(), every five minutes
Autosave ==
    /\ pc = "save" /\ Ticking
    /\ flash' = Saved
    /\ UNCHANGED <<sav, emu, mode, pend, pc, ui, terminal, dc, fresh, count,
                   played>>

\* A battle, from its start to its end. It takes many passes and keeps ALT from
\* the key handler, so no request but a write-back can wait when it ends.
Battle ==
    /\ pc = "save" /\ mode = "mesh" /\ HasParty(term)
    /\ pend \subseteq {"writeBack"} /\ ui = "idle"
    /\ Count("battles", MaxBattles)
    /\ stagedXp' = stagedXp + 1
    /\ pend' = pend \cup {"credit"} \cup (IF path THEN {"writeBack"} ELSE {})
    /\ UNCHANGED <<sav, emu, mode, pc, ui, term, staged, path, autoLoaded, daycare,
                   played>>

\* A block of runOnce(); what may happen at its end
Pass == \/ SaveGame \/ Enter \/ NoKey \/ LaunchROM \/ ClearCart
        \/ Flush \/ WriteBack \/ LoadParty \/ Check
Tick == Event \/ Arrival \/ Autosave \/ Battle

----------------------------------------------------------------------------
(* The key handler and the terminal, on the task of the display *)

\* tryConsumeStagedParty(): first the battle's experience, then the party
TryConsumeStagedParty ==
    /\ pend \cap {"credit", "staged"} # {}
    /\ term' = IF "staged" \in pend THEN staged
               ELSE IF HasParty(term)
               THEN [term EXCEPT !.exp = AtMost(@ + stagedXp, TerminalCap)]
               ELSE term
    /\ stagedXp' = IF "credit" \in pend THEN 0 ELSE stagedXp
    /\ pend' = (pend \ {"credit", "staged"})
               \cup (IF "credit" \in pend /\ stagedXp > 0
                     THEN {"writeBack"} ELSE {})
    /\ staged' = Blank
    /\ UNCHANGED <<sav, emu, mode, pc, ui, path, autoLoaded, daycare, count,
                   played>>

\* monsterMeshKeyboardRead() handles a key after it has taken what is staged
Key == ui = "idle" /\ pend \cap {"credit", "staged"} = {}

\* The terminal asks for a party as long as it has none
OpenTerminal ==
    /\ Key /\ mode = "mesh" /\ ~HasParty(term)
    /\ pend' = pend \cup {"load"}
    /\ UNCHANGED <<sav, emu, mode, pc, ui, terminal, daycare, count, played>>

\* ALT: into the loaded cart or, when there is none, into the browser
EnterByAlt ==
    /\ Key /\ mode = "mesh"
    /\ pend' = pend \cup (IF emu.cart THEN {"resume"} ELSE {"browse"})
    /\ UNCHANGED <<sav, emu, mode, pc, ui, terminal, daycare, count, played>>

\* ALT or backspace in the browser
LeaveBrowser ==
    /\ Key /\ mode = "browser"
    /\ mode' = "mesh" /\ pend' = pend \cup {"checkIn"}
    /\ UNCHANGED <<sav, emu, pc, ui, terminal, daycare, count, played>>

\* SYM+ALT in the emulator: the cart stays in memory. Not between the block
\* that resumes the emulator and the next one, which follows at once.
EjectROM ==
    /\ Key /\ mode = "emulator" /\ pc # "browser"
    /\ mode' = "browser"
    /\ pend' = pend \cup (IF emu.running THEN {"save"} ELSE {})
    /\ UNCHANGED <<sav, emu, pc, ui, terminal, daycare, count, played>>

\* ALT in the emulator. The game is asked to save after the daycare is asked
\* to check in, and the main loop may run in between.
LeaveEmulator ==
    /\ \/ /\ Key /\ mode = "emulator"
          /\ mode' = "mesh" /\ ui' = "leaving"
          /\ pend' = pend \cup {"checkIn"}
       \/ /\ ui = "leaving" /\ ui' = "idle"
          /\ pend' = pend \cup (IF emu.running THEN {"save"} ELSE {})
          /\ UNCHANGED mode
    /\ UNCHANGED <<sav, emu, pc, terminal, daycare, count, played>>

----------------------------------------------------------------------------
(* The emulator's task, the player and the power *)

\* emuTaskLoop() runs frame after frame in the emulator, and saves after the
\* one in which a battle of the game ends. The last frame may end after the
\* emulator was left: the key handler waits for it 250 ms, or not at all.
FrameEnds ==
    /\ emu.busy
    /\ emu' = [emu EXCEPT !.busy = (mode = "emulator")]
    /\ \/ emu.running /\ WriteSave
       \/ UNCHANGED <<sav, played, count>>
    /\ UNCHANGED <<mode, pend, pc, ui, terminal, daycare>>

\* In a frame the player trains or changes the party, and saves in the game
Play ==
    /\ emu.busy /\ emu.running /\ Count("plays", MaxPlays)
    /\ \E p \in {[emu.ram EXCEPT !.exp = @ + 1]} \cup
                {[mon |-> m, exp |-> 1, ot |-> TRUE] : m \in Mons \ {emu.ram.mon}} :
          /\ HasParty(p) /\ p.exp <= MaxExp
          /\ emu' = [emu EXCEPT !.ram = p]
    /\ UNCHANGED <<sav, mode, pend, pc, ui, terminal, daycare, played>>

PowerLoss ==
    /\ Fails
    /\ emu' = NoCart
    /\ mode' = "mesh" /\ pend' = {} /\ pc' = "save" /\ ui' = "idle"
    /\ term' = Blank /\ staged' = Blank /\ stagedXp' = 0
    /\ path' = FALSE /\ autoLoaded' = FALSE
    /\ dc' = Idle /\ fresh' = FALSE
    /\ UNCHANGED <<sav, flash, played>>

----------------------------------------------------------------------------

Init ==
    /\ sav = [mon |-> Starter, exp |-> 1, ot |-> TRUE]
    /\ emu = NoCart
    /\ mode = "mesh" /\ pend = {} /\ pc = "save" /\ ui = "idle"
    /\ term = Blank /\ staged = Blank /\ stagedXp = 0
    /\ path = FALSE /\ autoLoaded = FALSE
    /\ dc = Idle /\ fresh = FALSE /\ flash = [mon |-> None, gain |-> 0]
    /\ count = [events |-> 0, battles |-> 0, plays |-> 0, faults |-> 0]
    /\ played = sav

Next == \/ Pass \/ Tick \/ TryConsumeStagedParty \/ OpenTerminal \/ EnterByAlt
        \/ LeaveBrowser \/ EjectROM \/ LeaveEmulator \/ FrameEnds \/ Play
        \/ PowerLoss

Spec == Init /\ [][Next]_vars /\ WF_vars(Pass)

----------------------------------------------------------------------------
(* Properties *)

\* The types of the variables, with the caps on the experience: what the
\* patcher (patchPokemon), the game and the terminal may write.
Party(cap) == [mon: Mons \cup {None}, exp: 0..cap, ot: BOOLEAN]
TopExp == IF TerminalCap > MaxExp THEN TerminalCap ELSE MaxExp
TypeOK ==
    /\ sav \in Party(TopExp) \cup {TornFile}
    /\ emu \in [cart: BOOLEAN, running: BOOLEAN, busy: BOOLEAN, rom: BOOLEAN,
                ram: Party(TopExp)]
    /\ mode \in {"mesh", "browser", "emulator"}
    /\ pend \subseteq Flags /\ pc \in Blocks
    /\ ui \in {"idle", "leaving"}
    /\ term \in Party(TopExp) /\ staged \in Party(TopExp)
    /\ stagedXp \in 0..MaxBattles
    /\ path \in BOOLEAN /\ autoLoaded \in BOOLEAN /\ fresh \in BOOLEAN
    /\ dc \in [active: BOOLEAN, mon: Mons \cup {None}, savExp: 0..TopExp,
               gain: 0..MaxEvents]
    /\ flash \in [mon: Mons \cup {None}, gain: 0..MaxEvents]
    /\ count \in [events: 0..MaxEvents, battles: 0..MaxBattles,
                  plays: 0..MaxPlays, faults: 0..MaxFaults]
    /\ played \in Party(TopExp)

\* The species and the experience that the game last saved are never undone by
\* the daycare's or the terminal's write, although both write what they read
\* before the player went to play: the party is read again before a battle can
\* be written back. The name of the original trainer is kept as well, but only
\* until the first battle: the write-back puts zeros in its place.
\* (A card that fails twice may undo what was saved, and one that fails while
\* it is written leaves no save at all. Experience beyond a cap is cut off: by
\* the patcher at level 100, by a battle at 1000000, which a slowly growing
\* species reaches before level 100.)
LowCap == IF TerminalCap < MaxExp THEN TerminalCap ELSE MaxExp
PlayIsKept ==
    \/ sav = TornFile \/ count.faults > 1
    \/ /\ sav.mon = played.mon /\ sav.exp >= AtMost(played.exp, LowCap)
       /\ count.battles = 0 => sav.ot = played.ot

\* As long as the emulator holds a game, or has one still to write, nothing
\* but the emulator writes the file: a patch would be lost with its next save.
CartOwnsSave ==
    [][(emu.cart \/ "save" \in pend) => sav' \in {sav, emu.ram, TornFile}]_vars

\* Whoever leaves the emulator or the browser finds the daycare at work again,
\* unless he goes back there or the card fails.
DaycareResumes ==
    ("checkIn" \in pend)
        ~> \/ dc.active /\ "checkOut" \notin pend
           \/ mode # "mesh" \/ count.faults = MaxFaults

\* Experience reaches the save once: the file never holds
\* more than the game, the daycare and the battles have credited so far.
XpCountedOnce == sav.exp <= 1 + count.events + count.battles + count.plays
=============================================================================
