-------------------------- MODULE DaycareSaveProofs --------------------------
(***************************************************************************)
(* While a game is in memory, or has been asked to save, nothing but the   *)
(* emulator writes the save file. The gate of the other writers asks only  *)
(* whether a cart is in memory; it suffices because a cart that is ejected *)
(* with a save still to write sends runOnce() back to the block that writes*)
(* it, and because no key can ask for a save once the cart is out.         *)
(***************************************************************************)
EXTENDS DaycareSave, TLAPS

\* Where the flags of the key handler can be set.
FlagsInPlace ==
    /\ mode \in {"mesh", "browser", "emulator"} /\ ui \in {"idle", "leaving"}
    /\ emu \in [cart: BOOLEAN, running: BOOLEAN, busy: BOOLEAN, rom: BOOLEAN,
               ram: {emu.ram}]
    /\ emu.busy => emu.cart
    /\ "browse" \in pend => mode = "mesh" /\ ~emu.cart
    /\ "resume" \in pend => mode = "mesh" /\ emu.cart
    /\ mode = "emulator" => emu.cart
    /\ ui = "leaving" => mode = "mesh" /\ emu.cart /\ "resume" \notin pend
    /\ "save" \in pend /\ ~emu.cart => pc = "save"

LEMMA InitInPlace == Init => FlagsInPlace
  BY DEF Init, FlagsInPlace, NoCart

LEMMA StepInPlace == FlagsInPlace /\ [Next]_vars => FlagsInPlace'
  <1> SUFFICES ASSUME FlagsInPlace, [Next]_vars PROVE FlagsInPlace'
    OBVIOUS
  <1> USE DEF FlagsInPlace
  <1>1. CASE SaveGame
    <2>1. pend' = pend \ {"save"} /\ UNCHANGED <<emu, mode, ui>>
      BY <1>1 DEF SaveGame
    <2> QED
      BY <2>1
  <1>2. CASE Enter
    BY <1>2 DEF Enter, Goto
  <1>3. CASE NoKey
    BY <1>3 DEF NoKey, Goto
  <1>4. CASE LaunchROM
    <2>1. /\ pc = "browser" /\ mode = "browser" /\ UNCHANGED <<pend, ui>>
          /\ mode' \in {"emulator", "browser"}
      BY <1>4 DEF LaunchROM, PicksRow
    <2>2. CASE \E r \in {Blank, sav} : emu' = Inserted(r)
      BY <2>1, <2>2 DEF Inserted
    <2>3. CASE mode' = mode /\ emu' = [emu EXCEPT !.running = FALSE, !.rom = TRUE]
      <3>1. /\ emu' \in [cart: BOOLEAN, running: BOOLEAN, busy: BOOLEAN,
                          rom: BOOLEAN, ram: {emu'.ram}]
            /\ emu'.cart = emu.cart /\ emu'.busy = emu.busy
        BY <2>3
      <3> QED
        BY <2>1, <2>3, <3>1
    <2> QED
      BY <1>4, <2>2, <2>3 DEF LaunchROM
  <1>5. CASE ClearCart
    BY <1>5 DEF ClearCart, PicksRow, Goto
  <1>6. CASE Flush
    BY <1>6 DEF Flush, Goto
  <1>7. CASE WriteBack
    BY <1>7 DEF WriteBack, Goto
  <1>8. CASE LoadParty
    BY <1>8 DEF LoadParty, Goto, Stage, AutoLoad
  <1>9. CASE Check
    BY <1>9 DEF Check, Goto, AutoCheckIn, Checked
  <1>10. CASE Tick
    BY <1>10 DEF Tick, Event, Arrival, Autosave, Battle
  <1>11. CASE TryConsumeStagedParty
    BY <1>11 DEF TryConsumeStagedParty
  <1>12. CASE OpenTerminal \/ EnterByAlt
    BY <1>12 DEF OpenTerminal, EnterByAlt, Key
  <1>13. CASE LeaveBrowser \/ EjectROM
    BY <1>13 DEF LeaveBrowser, EjectROM, Key
  <1>14. CASE LeaveEmulator
    BY <1>14 DEF LeaveEmulator, Key
  <1>15. CASE Play
    BY <1>15 DEF Play
  <1>16. CASE PowerLoss
    BY <1>16 DEF PowerLoss, NoCart
  <1>17. CASE UNCHANGED vars
    BY <1>17 DEF vars
  <1>18. CASE FrameEnds
    BY <1>18 DEF FrameEnds
  <1> QED
    BY <1>1, <1>2, <1>3, <1>4, <1>5, <1>6, <1>7, <1>8, <1>9, <1>10, <1>11,
       <1>12, <1>13, <1>14, <1>15, <1>16, <1>17, <1>18 DEF Next, Pass

LEMMA InPlace == Spec => []FlagsInPlace
  BY InitInPlace, StepInPlace, PTL DEF Spec

\* CartOwnsSave: of the blocks that write the file, the flush, the write-back
\* and the check-out's patch are shut while the cart is in memory, and come
\* after the block "save" otherwise.
THEOREM OnlyTheCartWrites == Spec => CartOwnsSave
  <1>1. ASSUME FlagsInPlace, [Next]_vars, emu.cart \/ "save" \in pend
        PROVE  sav' \in {sav, emu.ram, TornFile}
    <2> USE <1>1 DEF FlagsInPlace
    <2>1. CASE SaveGame
      BY <2>1 DEF SaveGame, WriteSave
    <2>2. CASE Flush
      BY <2>2 DEF Flush, MayPatch
    <2>3. CASE WriteBack
      BY <2>3 DEF WriteBack, MayPatch
    <2>4. CASE Check
      BY <2>4 DEF Check, AutoCheckOut, CheckOut
    <2>5. CASE \/ Enter \/ NoKey \/ LaunchROM \/ ClearCart \/ LoadParty \/ Tick
      BY <2>5 DEF Enter, NoKey, LaunchROM, ClearCart, LoadParty, Tick, Event,
                  Arrival, Autosave, Battle
    <2>6. CASE \/ TryConsumeStagedParty \/ OpenTerminal \/ EnterByAlt
               \/ LeaveBrowser \/ EjectROM \/ LeaveEmulator \/ Play \/ PowerLoss
      BY <2>6 DEF TryConsumeStagedParty, OpenTerminal, EnterByAlt, LeaveBrowser,
                  EjectROM, LeaveEmulator, Play, PowerLoss
    <2>7. CASE UNCHANGED vars
      BY <2>7 DEF vars
    <2>8. CASE FrameEnds
      BY <2>8 DEF FrameEnds, WriteSave
    <2> QED
      BY <2>1, <2>2, <2>3, <2>4, <2>5, <2>6, <2>7, <2>8 DEF Next, Pass
  <1> QED
    BY InPlace, <1>1, PTL DEF Spec, CartOwnsSave

----------------------------------------------------------------------------
(* The types, with the counts that bound what is gained *)

P == Party(TopExp)
Counts == [events: 0..MaxEvents, battles: 0..MaxBattles, plays: 0..MaxPlays,
           faults: 0..MaxFaults]

TypeInv ==
    /\ TypeOK
    /\ stagedXp <= count.battles
    /\ dc.gain <= count.events /\ flash.gain <= count.events

USE DaycareAssumption

LEMMA Caps == /\ MaxExp \in Nat \ {0} /\ TerminalCap \in Nat \ {0}
              /\ ExpPerLevel \in Nat \ {0}
              /\ MaxEvents \in Nat /\ MaxBattles \in Nat
              /\ MaxPlays \in Nat /\ MaxFaults \in Nat
              /\ TopExp \in Nat /\ MaxExp <= TopExp /\ TerminalCap <= TopExp
              /\ 1 <= TopExp
  BY DEF TopExp

LEMMA CapBounds ==
    ASSUME NEW e \in Nat, NEW cap \in Nat, cap <= TopExp
    PROVE  AtMost(e, cap) \in 0..TopExp
  BY Caps DEF AtMost

LEMMA LevelBounds ==
    ASSUME NEW e \in 0..TopExp
    PROVE  LevelExp(e) \in 0..TopExp
  <1>1. e % ExpPerLevel \in 0..(ExpPerLevel - 1)
    BY Caps
  <1>2. e = ExpPerLevel * (e \div ExpPerLevel) + (e % ExpPerLevel)
        /\ e \div ExpPerLevel \in Nat
    BY Caps, Z3
  <1>3. ExpPerLevel * (e \div ExpPerLevel) \in Nat
    BY Caps, <1>2
  <1> QED
    BY Caps, <1>1, <1>2, <1>3 DEF LevelExp

\* The ways a step counts
LEMMA Counting ==
    ASSUME TypeInv
    PROVE  /\ Works => count' = count
           /\ Fails => /\ count' \in Counts /\ count'.events = count.events
                       /\ count'.battles = count.battles
           /\ Count("events", MaxEvents) =>
                 /\ count' \in Counts /\ count'.events = count.events + 1
                 /\ count'.battles = count.battles
           /\ Count("battles", MaxBattles) =>
                 /\ count' \in Counts /\ count'.battles = count.battles + 1
                 /\ count'.events = count.events
           /\ Count("plays", MaxPlays) =>
                 /\ count' \in Counts /\ count'.events = count.events
                 /\ count'.battles = count.battles
  <1> USE DEF TypeInv, TypeOK, Counts
  <1>1. Works => count' = count
    BY DEF Works
  <1>2. Fails => /\ count' \in Counts /\ count'.events = count.events
                 /\ count'.battles = count.battles
    BY Caps DEF Fails
  <1>3. Count("events", MaxEvents) =>
                 /\ count' \in Counts /\ count'.events = count.events + 1
                 /\ count'.battles = count.battles
    BY Caps DEF Count
  <1>4. Count("battles", MaxBattles) =>
                 /\ count' \in Counts /\ count'.battles = count.battles + 1
                 /\ count'.events = count.events
    BY Caps DEF Count
  <1>5. Count("plays", MaxPlays) =>
                 /\ count' \in Counts /\ count'.events = count.events
                 /\ count'.battles = count.battles
    BY Caps DEF Count
  <1> QED
    BY <1>1, <1>2, <1>3, <1>4, <1>5

LEMMA InitTyped == Init => TypeInv
  <1> SUFFICES ASSUME Init PROVE TypeInv
    OBVIOUS
  <1> USE Caps DEF Init, Party
  <1>1. /\ sav \in P /\ term \in P /\ staged \in P /\ played \in P
        /\ emu \in [cart: BOOLEAN, running: BOOLEAN, busy: BOOLEAN, rom: BOOLEAN,
                    ram: P]
    BY DEF P, Blank, NoCart
  <1>2. /\ dc \in [active: BOOLEAN, mon: Mons \cup {None}, savExp: 0..TopExp,
                   gain: 0..MaxEvents]
        /\ flash \in [mon: Mons \cup {None}, gain: 0..MaxEvents]
        /\ dc.gain = 0 /\ flash.gain = 0
    BY DEF Idle
  <1>3. count \in Counts /\ count.events = 0 /\ count.battles = 0
    BY DEF Counts
  <1>4. /\ mode \in {"mesh", "browser", "emulator"} /\ pend \subseteq Flags
        /\ pc \in Blocks /\ ui \in {"idle", "leaving"} /\ stagedXp = 0
        /\ path \in BOOLEAN /\ autoLoaded \in BOOLEAN /\ fresh \in BOOLEAN
    BY DEF Blocks
  <1>5. 0 \in 0..MaxBattles /\ 0 <= 0
    OBVIOUS
  <1>6. TypeOK
    BY <1>1, <1>2, <1>3, <1>4, <1>5 DEF TypeOK, P, Counts
  <1> QED
    BY <1>2, <1>3, <1>4, <1>5, <1>6 DEF TypeInv

\* What the parts of the actions write
LEMMA PatchedTyped ==
    ASSUME TypeInv, sav # TornFile
    PROVE  Patched(sav) \in P
  <1>0. sav \in P /\ sav.exp \in 0..TopExp /\ dc.gain \in 0..MaxEvents
    <2>1. sav \in Party(TopExp)
      BY DEF TypeInv, TypeOK
    <2> QED
      BY <2>1 DEF P, Party, TypeInv, TypeOK
  <1>1. sav \in P /\ sav.exp + dc.gain \in Nat
    BY <1>0, Caps
  <1>2. AtMost(sav.exp + dc.gain, MaxExp) \in 0..TopExp
    BY Caps, CapBounds, <1>1
  <1> QED
    BY <1>1, <1>2 DEF Patched, P, Party

DcTyped == dc \in [active: BOOLEAN, mon: Mons \cup {None}, savExp: 0..TopExp,
                   gain: 0..MaxEvents]
FlashTyped == flash \in [mon: Mons \cup {None}, gain: 0..MaxEvents]

LEMMA CheckOutTyped ==
    ASSUME TypeInv, CheckOut
    PROVE  /\ DcTyped' /\ dc'.gain = 0
           /\ FlashTyped' /\ flash'.gain <= count.events
  <1>1. DcTyped' /\ dc'.gain = 0
    BY Caps DEF CheckOut, DcTyped, Idle
  <1>2. flash' = Saved /\ dc.mon \in Mons \cup {None}
        /\ dc.gain \in 0..MaxEvents /\ dc.gain <= count.events
    BY DEF CheckOut, TypeInv, TypeOK
  <1> QED
    BY <1>1, <1>2 DEF FlashTyped, Saved

LEMMA CheckInTyped ==
    ASSUME TypeInv, NEW p \in P, CheckIn(p)
    PROVE  DcTyped' /\ dc'.gain <= count.events
  <1>1. CASE HasParty(p)
    <2>1. p.mon \in Mons /\ LevelExp(p.exp) \in 0..TopExp
      BY <1>1, LevelBounds DEF HasParty, P, Party
    <2>2. /\ flash.gain \in 0..MaxEvents /\ flash.gain <= count.events
          /\ 0 \in 0..MaxEvents /\ 0 <= count.events
      BY Caps DEF TypeInv, TypeOK
    <2> DEFINE g == IF flash.mon = p.mon THEN flash.gain ELSE 0
    <2>3. g \in 0..MaxEvents /\ g <= count.events
      BY <2>2
    <2>4. dc' = [active |-> TRUE, mon |-> p.mon, savExp |-> LevelExp(p.exp),
                 gain |-> g]
      BY <1>1 DEF CheckIn
    <2> HIDE DEF g
    <2> QED
      BY <2>1, <2>3, <2>4 DEF DcTyped
  <1>2. CASE ~HasParty(p)
    BY <1>2 DEF CheckIn, DcTyped, TypeInv, TypeOK
  <1> QED
    BY <1>1, <1>2

LEMMA GainTyped ==
    ASSUME TypeInv, NEW xp \in {0, 1}, Gain(xp), Count("events", MaxEvents)
    PROVE  DcTyped' /\ dc'.gain <= count'.events
  <1>1. /\ count'.events = count.events + 1 /\ count'.events \in 0..MaxEvents
        /\ dc.gain + xp \in Nat /\ dc.gain + xp <= count.events + 1
    <2>1. count'.events = count.events + 1 /\ count' \in Counts
      BY Counting
    <2>2. dc.gain \in 0..MaxEvents /\ count.events \in 0..MaxEvents
          /\ dc.gain <= count.events
      BY DEF TypeInv, TypeOK
    <2> QED
      BY <2>1, <2>2, Caps DEF Counts
  <1>2. dc' = [dc EXCEPT !.gain = dc.gain + xp]
    BY DEF Gain
  <1>3. dc.gain + xp \in 0..MaxEvents
    BY <1>1, Caps DEF TypeInv, TypeOK, Counts
  <1> QED
    BY <1>1, <1>2, <1>3 DEF DcTyped, TypeInv, TypeOK

\* A flush or a check-out that patches the file, and one that cannot
LEMMA PatchTyped ==
    ASSUME TypeInv, Patch \/ (PatchFails /\ UNCHANGED <<sav, dc, flash>>)
                          \/ (PatchFails /\ CheckOut /\ UNCHANGED sav)
    PROVE  /\ sav' \in P \cup {TornFile}
           /\ DcTyped' /\ dc'.gain <= count'.events
           /\ FlashTyped' /\ flash'.gain <= count'.events
           /\ count' \in Counts /\ count'.battles = count.battles
  <1>1. /\ count' \in Counts /\ count'.battles = count.battles
        /\ count'.events = count.events /\ 0 <= count.events
    BY Counting, Caps DEF Patch, PatchFails, TypeInv, TypeOK, Counts
  <1>2. sav' \in P \cup {TornFile}
    <2>1. sav \in P \cup {TornFile}
      BY DEF TypeInv, TypeOK, P
    <2> QED
      BY <2>1, PatchedTyped DEF Patch
  <1>3. CASE CheckOut
    BY <1>1, <1>2, <1>3, CheckOutTyped
  <1>4. CASE UNCHANGED <<dc, flash>>
    BY <1>1, <1>2, <1>4 DEF DcTyped, FlashTyped, TypeInv, TypeOK
  <1> QED
    BY <1>3, <1>4 DEF Patch

\* The conjuncts of TypeInv that a step leaves alone together
PlaceTyped == /\ mode \in {"mesh", "browser", "emulator"} /\ pend \subseteq Flags
              /\ pc \in Blocks /\ ui \in {"idle", "leaving"}
EmuTyped == emu \in [cart: BOOLEAN, running: BOOLEAN, busy: BOOLEAN,
                    rom: BOOLEAN, ram: P]
TermTyped == /\ term \in P /\ staged \in P /\ path \in BOOLEAN
             /\ autoLoaded \in BOOLEAN
XpTyped == stagedXp \in 0..MaxBattles /\ stagedXp <= count.battles
GainsTyped == /\ DcTyped /\ dc.gain <= count.events
              /\ FlashTyped /\ flash.gain <= count.events
SavTyped == sav \in P \cup {TornFile} /\ played \in P

LEMMA Parts ==
    TypeInv <=> /\ PlaceTyped /\ EmuTyped /\ TermTyped /\ XpTyped /\ GainsTyped
                /\ SavTyped /\ count \in Counts /\ fresh \in BOOLEAN
  BY DEF TypeInv, TypeOK, PlaceTyped, EmuTyped, TermTyped, XpTyped, GainsTyped,
         SavTyped, DcTyped, FlashTyped, P, Counts

LEMMA SameCount ==
    ASSUME TypeInv, count'.battles = count.battles, UNCHANGED stagedXp
    PROVE  XpTyped'
  BY Parts DEF XpTyped

LEMMA SameGains ==
    ASSUME TypeInv, count'.events = count.events, UNCHANGED <<dc, flash>>
    PROVE  GainsTyped'
  BY Parts DEF GainsTyped, DcTyped, FlashTyped

LEMMA BlankTyped == Blank \in P
  BY Caps DEF Blank, P, Party

PartsTyped == /\ PlaceTyped /\ EmuTyped /\ TermTyped /\ XpTyped /\ GainsTyped
              /\ SavTyped /\ count \in Counts /\ fresh \in BOOLEAN

LEMMA PassTyped == TypeInv /\ Pass => PartsTyped'
  <1> SUFFICES ASSUME TypeInv, Pass PROVE PartsTyped'
    OBVIOUS
  <1> USE DEF PartsTyped
  <1>0. PartsTyped
    BY Parts
  <1>1. CASE SaveGame
    <2>1. /\ PlaceTyped' /\ EmuTyped' /\ TermTyped' /\ fresh' \in BOOLEAN
      BY <1>0, <1>1 DEF SaveGame, Goto, Blocks, PlaceTyped, EmuTyped, TermTyped,
                        terminal, daycare
    <2>2. /\ count' \in Counts /\ count'.battles = count.battles
          /\ count'.events = count.events
      BY <1>0, <1>1, Counting DEF SaveGame, WriteSave
    <2>3. SavTyped'
      BY <1>0, <1>1 DEF SaveGame, WriteSave, SavTyped, EmuTyped
    <2> QED
      BY <1>1, <2>1, <2>2, <2>3, SameCount, SameGains
         DEF SaveGame, terminal, daycare
  <1>2. CASE Enter
    <2>1. PlaceTyped'
      BY <1>0, <1>2 DEF Enter, Goto, Blocks, PlaceTyped, Flags
    <2>2. EmuTyped'
      BY <1>0, <1>2 DEF Enter, EmuTyped
    <2> QED
      BY <1>0, <1>2, <2>1, <2>2, SameCount, SameGains
         DEF Enter, terminal, daycare, TermTyped, SavTyped
  <1>3. CASE NoKey
    BY <1>0, <1>3, SameCount, SameGains
       DEF NoKey, Goto, Blocks, PlaceTyped, terminal, daycare, EmuTyped,
           TermTyped, SavTyped
  <1>4. CASE LaunchROM
    <2>1. /\ PlaceTyped' /\ TermTyped' /\ SavTyped' /\ fresh' \in BOOLEAN
      BY <1>0, <1>4 DEF LaunchROM, PicksRow, Goto, Blocks, PlaceTyped, TermTyped,
                        SavTyped, terminal, daycare
    <2>2. /\ count' \in Counts /\ count'.battles = count.battles
          /\ count'.events = count.events
      BY <1>0, <1>4, Counting DEF LaunchROM
    <2>3. EmuTyped'
      <3>1. Blank \in P /\ (sav = TornFile \/ sav \in P)
        BY <1>0, BlankTyped DEF SavTyped
      <3>2. CASE \E r \in P : emu' = Inserted(r)
        BY <3>2 DEF EmuTyped, Inserted
      <3>3. CASE emu' = [emu EXCEPT !.running = FALSE, !.rom = TRUE]
        BY <1>0, <3>3 DEF EmuTyped
      <3> QED
        BY <1>4, <3>1, <3>2, <3>3 DEF LaunchROM
    <2> QED
      BY <1>4, <2>1, <2>2, <2>3, SameCount, SameGains
         DEF LaunchROM, terminal, daycare
  <1>5. CASE ClearCart
    <2>1. PlaceTyped'
      BY <1>0, <1>5 DEF ClearCart, PicksRow, Goto, Blocks, PlaceTyped, Flags
    <2>2. EmuTyped'
      BY <1>0, <1>5 DEF ClearCart, EmuTyped
    <2> QED
      BY <1>0, <1>5, <2>1, <2>2, SameCount, SameGains
         DEF ClearCart, terminal, daycare, TermTyped, SavTyped
  <1>6. CASE Flush
    <2>1. /\ PlaceTyped' /\ EmuTyped' /\ TermTyped' /\ fresh' \in BOOLEAN
          /\ played' \in P
      BY <1>0, <1>6 DEF Flush, Goto, Blocks, PlaceTyped, EmuTyped, TermTyped,
                        SavTyped, terminal, daycare
    <2>2. CASE Patch \/ (PatchFails /\ UNCHANGED <<sav, dc, flash>>)
      BY <1>6, <2>1, <2>2, PatchTyped, SameCount
         DEF GainsTyped, SavTyped, Flush, terminal
    <2>3. CASE UNCHANGED <<sav, dc, flash, count>>
      BY <1>0, <1>6, <2>1, <2>3, SameCount, SameGains
         DEF SavTyped, Flush, terminal
    <2> QED
      BY <1>6, <2>2, <2>3 DEF Flush, daycare
  <1>7. CASE WriteBack
    <2>1. /\ PlaceTyped' /\ EmuTyped' /\ TermTyped' /\ fresh' \in BOOLEAN
      BY <1>0, <1>7 DEF WriteBack, Goto, Blocks, PlaceTyped, EmuTyped, TermTyped,
                        terminal, daycare
    <2>2. /\ count' \in Counts /\ count'.battles = count.battles
          /\ count'.events = count.events
      BY <1>0, <1>7, Counting DEF WriteBack
    <2>3. SavTyped'
      BY <1>0, <1>7 DEF WriteBack, SavTyped, TermTyped
    <2> QED
      BY <1>7, <2>1, <2>2, <2>3, SameCount, SameGains
         DEF WriteBack, terminal, daycare
  <1>8. CASE LoadParty
    <2>1. /\ EmuTyped' /\ SavTyped' /\ fresh' \in BOOLEAN /\ flash' = flash
          /\ UNCHANGED <<mode, ui, stagedXp, term>>
      BY <1>0, <1>8 DEF LoadParty, EmuTyped, SavTyped
    <2>2. /\ count' \in Counts /\ count'.battles = count.battles
          /\ count'.events = count.events
      BY <1>0, <1>8, Counting DEF LoadParty
    <2>3. AutoLoad \subseteq Flags /\ AutoLoad \subseteq {"load"}
      BY DEF AutoLoad, Flags
    <2>4. PlaceTyped'
      BY <1>0, <1>8, <2>3 DEF LoadParty, Goto, Blocks, PlaceTyped, Stage, Flags
    <2>5. TermTyped' /\ GainsTyped'
      <3>1. CASE \E p \in P, known \in BOOLEAN : Stage(p, known)
        <4>1. PICK p \in P, known \in BOOLEAN : Stage(p, known)
          BY <3>1
        <4>2. DcTyped' /\ dc'.gain <= count.events
          BY <4>1, CheckInTyped DEF Stage
        <4>3. FlashTyped' /\ flash'.gain <= count'.events
          BY <1>0, <2>1, <2>2 DEF GainsTyped, FlashTyped
        <4>4. TermTyped'
          BY <1>0, <1>8, <2>1, <4>1 DEF TermTyped, Stage, LoadParty
        <4> QED
          BY <2>2, <4>2, <4>3, <4>4 DEF GainsTyped
      <3>2. CASE UNCHANGED <<staged, path, dc>>
        BY <1>0, <1>8, <2>1, <2>2, <3>2, SameGains DEF TermTyped, LoadParty
      <3>3. /\ Loaded(emu.ram) \in P /\ (sav # TornFile => Loaded(sav) \in P)
            /\ TRUE \in BOOLEAN /\ FALSE \in BOOLEAN
        BY <1>0 DEF EmuTyped, SavTyped, Loaded, P, Party
      <3> QED
        BY <1>8, <3>1, <3>2, <3>3 DEF LoadParty
    <2> QED
      BY <2>1, <2>2, <2>4, <2>5, SameCount
  <1>9. CASE Check
    <2>1. PlaceTyped'
      <3>1. Checked \subseteq Flags
        BY <1>0 DEF Checked, PlaceTyped
      <3> QED
        BY <1>0, <1>9, <3>1
           DEF Check, Goto, Blocks, PlaceTyped, AutoCheckIn, Flags
    <2>2. /\ EmuTyped' /\ TermTyped' /\ fresh' \in BOOLEAN /\ played' \in P
          /\ UNCHANGED stagedXp
      BY <1>0, <1>9 DEF Check, EmuTyped, TermTyped, SavTyped, terminal
    <2>3. CASE Patch \/ (PatchFails /\ CheckOut /\ UNCHANGED sav)
      BY <2>1, <2>2, <2>3, PatchTyped, SameCount DEF GainsTyped, SavTyped
    <2>4. CASE CheckOut /\ UNCHANGED <<sav, count>>
      BY <1>0, <2>1, <2>2, <2>4, CheckOutTyped, SameCount, Caps
         DEF GainsTyped, SavTyped, Counts
    <2>5. CASE UNCHANGED <<sav, dc, flash, count>>
      BY <1>0, <2>1, <2>2, <2>5, SameCount, SameGains DEF SavTyped
    <2> QED
      BY <1>9, <2>3, <2>4, <2>5 DEF Check, AutoCheckOut
  <1> QED
    BY <1>1, <1>2, <1>3, <1>4, <1>5, <1>6, <1>7, <1>8, <1>9 DEF Pass

LEMMA RestTyped ==
    ASSUME TypeInv,
           \/ Tick \/ TryConsumeStagedParty \/ OpenTerminal \/ EnterByAlt
           \/ LeaveBrowser \/ EjectROM \/ LeaveEmulator \/ FrameEnds \/ Play
           \/ PowerLoss \/ UNCHANGED vars
    PROVE  PartsTyped'
  <1> USE DEF PartsTyped
  <1>0. PartsTyped
    BY Parts
  <1>1. CASE Event \/ Arrival
    <2>1. /\ PlaceTyped' /\ EmuTyped' /\ TermTyped' /\ SavTyped'
          /\ UNCHANGED <<stagedXp, flash>>
      BY <1>0, <1>1 DEF Event, Arrival, PlaceTyped, EmuTyped, TermTyped,
                        SavTyped, terminal
    <2>2. \E xp \in {0, 1} : Gain(xp)
      BY <1>1 DEF Event, Arrival
    <2>3. Count("events", MaxEvents)
      BY <1>1 DEF Event, Arrival
    <2>4. DcTyped' /\ dc'.gain <= count'.events /\ fresh' \in BOOLEAN
      BY <2>2, <2>3, GainTyped DEF Gain
    <2>5. /\ count' \in Counts /\ count'.events = count.events + 1
          /\ count'.battles = count.battles
      BY <2>3, Counting
    <2>6. FlashTyped' /\ flash'.gain <= count'.events
      BY <1>0, <2>1, <2>5, Caps DEF GainsTyped, FlashTyped, Counts
    <2> QED
      BY <2>1, <2>4, <2>5, <2>6, SameCount DEF GainsTyped
  <1>2. CASE Autosave
    <2>1. /\ flash' = Saved
          /\ UNCHANGED <<dc, count, stagedXp>>
      BY <1>2 DEF Autosave, terminal
    <2>2. GainsTyped'
      BY <1>0, <2>1 DEF GainsTyped, DcTyped, FlashTyped, Saved
    <2> QED
      BY <1>0, <1>2, <2>1, <2>2, SameCount
         DEF Autosave, terminal, PlaceTyped, EmuTyped, TermTyped, SavTyped
  <1>3. CASE Battle
    <2>1. /\ count' \in Counts /\ count'.battles = count.battles + 1
          /\ count'.events = count.events
      BY <1>3, Counting DEF Battle
    <2>2. XpTyped'
      BY <1>0, <1>3, <2>1, Caps DEF Battle, XpTyped, Counts
    <2>3. PlaceTyped'
      BY <1>0, <1>3 DEF Battle, PlaceTyped, Flags
    <2> QED
      BY <1>0, <1>3, <2>1, <2>2, <2>3, SameGains
         DEF Battle, daycare, EmuTyped, TermTyped, SavTyped
  <1>4. CASE TryConsumeStagedParty
    <2>1. /\ EmuTyped' /\ SavTyped' /\ fresh' \in BOOLEAN
          /\ UNCHANGED <<count, dc, flash>>
      BY <1>0, <1>4 DEF TryConsumeStagedParty, EmuTyped, SavTyped, daycare
    <2>2. PlaceTyped'
      BY <1>0, <1>4 DEF TryConsumeStagedParty, PlaceTyped, Flags
    <2>3. XpTyped'
      BY <1>0, <1>4, <2>1, Caps DEF TryConsumeStagedParty, XpTyped, Counts
    <2>4. TermTyped'
      <3>1. term.exp \in 0..TopExp /\ stagedXp \in Nat
        BY <1>0 DEF TermTyped, XpTyped, P, Party
      <3>2. AtMost(term.exp + stagedXp, TerminalCap) \in 0..TopExp
        <4>1. term.exp + stagedXp \in Nat /\ TerminalCap \in Nat
              /\ TerminalCap <= TopExp
          BY <3>1, Caps
        <4> QED
          BY <4>1, CapBounds
      <3>3. [term EXCEPT !.exp = AtMost(term.exp + stagedXp, TerminalCap)] \in P
        BY <1>0, <3>2 DEF TermTyped, P, Party
      <3>4. term' \in P
        BY <1>0, <1>4, <3>3 DEF TryConsumeStagedParty, TermTyped
      <3> QED
        BY <1>0, <1>4, <3>4, BlankTyped DEF TryConsumeStagedParty, TermTyped
    <2> QED
      BY <1>0, <2>1, <2>2, <2>3, <2>4, SameGains
  <1>5. CASE OpenTerminal \/ EnterByAlt \/ LeaveBrowser \/ EjectROM \/ LeaveEmulator
    <2>1. PlaceTyped'
      BY <1>0, <1>5 DEF OpenTerminal, EnterByAlt, LeaveBrowser, EjectROM,
                        LeaveEmulator, PlaceTyped, Flags
    <2>2. UNCHANGED <<sav, emu, terminal, daycare, count, played>>
      BY <1>5 DEF OpenTerminal, EnterByAlt, LeaveBrowser, EjectROM, LeaveEmulator
    <2> QED
      BY <1>0, <2>1, <2>2, SameCount, SameGains
         DEF terminal, daycare, EmuTyped, TermTyped, SavTyped
  <1>6. CASE Play
    <2>1. /\ count' \in Counts /\ count'.events = count.events
          /\ count'.battles = count.battles
      BY <1>6, Counting DEF Play
    <2>2. EmuTyped'
      <3>1. PICK p \in {[emu.ram EXCEPT !.exp = emu.ram.exp + 1]} \cup
                       {[mon |-> m, exp |-> 1, ot |-> TRUE] : m \in Mons \ {emu.ram.mon}} :
               p.exp <= MaxExp /\ emu' = [emu EXCEPT !.ram = p]
        BY <1>6 DEF Play
      <3>2. p \in P
        <4>1. CASE p = [emu.ram EXCEPT !.exp = emu.ram.exp + 1]
          <5>1. emu.ram \in P /\ emu.ram.exp \in Nat
            BY <1>0 DEF EmuTyped, P, Party
          <5>2. p.exp = emu.ram.exp + 1
            BY <4>1, <5>1 DEF P, Party
          <5>3. emu.ram.exp + 1 \in 0..TopExp
            BY <3>1, <5>1, <5>2, Caps
          <5> QED
            BY <4>1, <5>1, <5>3 DEF P, Party
        <4>2. CASE \E m \in Mons : p = [mon |-> m, exp |-> 1, ot |-> TRUE]
          BY <4>2, Caps DEF P, Party
        <4> QED
          BY <3>1, <4>1, <4>2
      <3> QED
        BY <1>0, <3>1, <3>2 DEF EmuTyped
    <2> QED
      BY <1>0, <1>6, <2>1, <2>2, SameCount, SameGains
         DEF Play, terminal, daycare, PlaceTyped, TermTyped, SavTyped
  <1>7. CASE PowerLoss
    <2>1. /\ count' \in Counts /\ count'.events = count.events
          /\ count'.battles = count.battles
          /\ count.events \in 0..MaxEvents /\ count.battles \in 0..MaxBattles
      BY <1>0, <1>7, Counting DEF PowerLoss, Counts
    <2>2. XpTyped'
      BY <1>7, <2>1, Caps DEF PowerLoss, XpTyped
    <2>3. GainsTyped'
      BY <1>0, <1>7, <2>1, Caps
         DEF PowerLoss, GainsTyped, DcTyped, FlashTyped, Idle
    <2>4. PlaceTyped' /\ EmuTyped' /\ TermTyped' /\ SavTyped' /\ fresh' \in BOOLEAN
      BY <1>0, <1>7, BlankTyped
         DEF PowerLoss, NoCart, PlaceTyped, EmuTyped, TermTyped, SavTyped, Blocks
    <2> QED
      BY <2>1, <2>2, <2>3, <2>4
  <1>8. CASE UNCHANGED vars
    BY <1>0, <1>8, SameCount, SameGains
       DEF vars, PlaceTyped, EmuTyped, TermTyped, SavTyped
  <1>9. CASE FrameEnds
    <2>1. /\ EmuTyped' /\ PlaceTyped' /\ TermTyped' /\ fresh' \in BOOLEAN
          /\ UNCHANGED <<dc, flash, stagedXp>>
      BY <1>0, <1>9 DEF FrameEnds, EmuTyped, PlaceTyped, TermTyped, terminal,
                        daycare
    <2>2. /\ count' \in Counts /\ count'.battles = count.battles
          /\ count'.events = count.events
      BY <1>0, <1>9, Counting DEF FrameEnds, WriteSave
    <2>3. SavTyped'
      BY <1>0, <1>9 DEF FrameEnds, WriteSave, SavTyped, EmuTyped
    <2> QED
      BY <2>1, <2>2, <2>3, SameCount, SameGains
  <1> QED
    BY <1>1, <1>2, <1>3, <1>4, <1>5, <1>6, <1>7, <1>8, <1>9 DEF Tick

LEMMA StepTyped == TypeInv /\ [Next]_vars => TypeInv'
  <1>1. TypeInv /\ [Next]_vars => PartsTyped'
    BY PassTyped, RestTyped DEF Next
  <1>2. PartsTyped <=> TypeInv
    BY Parts DEF PartsTyped
  <1>3. PartsTyped' => TypeInv'
    BY <1>2, PTL
  <1> QED
    BY <1>1, <1>3

\* TypeOK: whatever the emulator, the daycare and the terminal write in turn,
\* no experience exceeds the larger of the two caps, and the daycare's gain
\* stays within the events that were credited.
THEOREM TypeCorrect == Spec => []TypeOK
  <1>1. TypeInv => TypeOK
    BY DEF TypeInv
  <1> QED
    BY InitTyped, StepTyped, <1>1, PTL DEF Spec

----------------------------------------------------------------------------
(* What the player saved is kept.                                           *)
(*                                                                          *)
(* The terminal's party may be older than the save while a cart is in       *)
(* memory. Once the cart is out, either a reload is still due, which no     *)
(* battle can overtake, or the party the terminal has or is about to take   *)
(* holds what was played (Fresh). A write-back is never older than the pass *)
(* in which it was asked for (BackIn), so no save comes before it.          *)

Holds(p) == p.mon = played.mon /\ p.exp >= AtMost(played.exp, LowCap)
Sound == sav # TornFile /\ count.faults <= 1

\* The party the terminal has, or will have when it takes what is staged
Upcoming == IF "staged" \in pend THEN staged ELSE term

ReloadDue == \/ "load" \in pend
             \/ "checkIn" \in pend /\ (~dc.active \/ "checkOut" \in pend)

SavHolds == Sound => Holds(sav)
Ready == ~emu.cart /\ mode = "mesh" /\ ~ReloadDue
Fresh == path /\ Sound /\ Ready /\ HasParty(Upcoming) => Holds(Upcoming)
\* A card that fails may leave the terminal without its reload, but not if a
\* game was running: then the party of the game is staged, and path forgotten.
NeverRun == path /\ count.faults = 0 /\ ~emu.running /\ HasParty(Upcoming)
               => Holds(Upcoming)
BackFresh == pend \cap {"writeBack", "credit"} # {} /\ path /\ Sound /\ ~emu.cart
                => Holds(term)

\* What else can be pending with each flag, and where.
CreditIn == "credit" \in pend =>
    /\ pend \subseteq {"credit", "writeBack"}
    /\ mode = "mesh" /\ ui = "idle" /\ HasParty(term)
BackIn == "writeBack" \in pend =>
    /\ HasParty(term) /\ "load" \notin pend /\ "staged" \notin pend
    /\ \/ pc \in {"flush", "writeBack"} \/ (pc = "browser" /\ ~emu.cart)
       \/ /\ mode = "mesh" /\ ui = "idle" /\ pc # "browser"
          /\ pend \cap {"checkOut", "checkIn", "save"} = {}
BrowserIn == pc = "browser" => mode = "browser" \/ "checkIn" \in pend
SaveDue == "save" \in pend /\ ~emu.cart =>
    /\ mode = "browser" \/ "checkIn" \in pend
    /\ dc.active => "checkOut" \in pend
OutIn == mode # "mesh" =>
    /\ dc.active => "checkOut" \in pend
    /\ "load" \in pend => /\ "checkOut" \in pend
                          /\ \/ pc \in {"flush", "writeBack", "load"}
                             \/ pc = "browser" /\ ~emu.cart

Pending == CreditIn /\ BackIn /\ BrowserIn /\ SaveDue /\ OutIn
Kept == SavHolds /\ Fresh /\ NeverRun /\ BackFresh

\* What the blocks do to the daycare: every way of checking it out stops it
LEMMA PatchStops ==
    ASSUME Patch \/ (PatchFails /\ CheckOut /\ UNCHANGED sav)
                 \/ (CheckOut /\ UNCHANGED <<sav, count>>)
    PROVE  ~dc'.active
  BY DEF Patch, CheckOut, Idle

LEMMA InitPending == Init => Pending
  BY DEF Init, Pending, CreditIn, BackIn, BrowserIn, SaveDue, OutIn, Idle

LEMMA StepPending ==
    ASSUME FlagsInPlace, TypeInv, Pending, [Next]_vars
    PROVE  Pending'
  <1> USE DEF FlagsInPlace, Pending, CreditIn, BackIn, BrowserIn, SaveDue, OutIn
  <1>1. CASE SaveGame
    <2>1. pend' = pend \ {"save"} /\ pc = "save" /\ pc' = "enter"
          /\ UNCHANGED <<emu, mode, ui, term, dc>>
      BY <1>1 DEF SaveGame, terminal, daycare, Goto
    <2> QED
      BY <2>1
  <1>2. CASE Enter
    <2>1. UNCHANGED <<ui, term, dc>> /\ pc = "enter" /\ emu'.cart = emu.cart
      BY <1>2 DEF Enter, terminal, daycare
    <2>2. CASE pend' = (pend \ {"resume"}) \cup {"checkOut"} /\ mode' = "emulator"
               /\ "resume" \in pend /\ mode = "mesh"
      BY <1>2, <2>1, <2>2 DEF Enter, Goto
    <2>3. CASE pend' = (pend \ {"browse"}) \cup {"checkOut"} /\ mode' = "browser"
               /\ "browse" \in pend /\ mode = "mesh"
      BY <1>2, <2>1, <2>3 DEF Enter, Goto
    <2>4. CASE UNCHANGED <<mode, pend>>
      BY <1>2, <2>1, <2>4 DEF Enter, Goto
    <2> QED
      BY <1>2, <2>2, <2>3, <2>4 DEF Enter
  <1>3. CASE NoKey
    BY <1>3 DEF NoKey, Goto, terminal, daycare
  <1>4. CASE LaunchROM
    <2>1. UNCHANGED <<pend, ui, term, dc>> /\ pc = "browser" /\ pc' = "flush"
          /\ mode = "browser" /\ mode' \in {"emulator", "browser"}
      BY <1>4 DEF LaunchROM, PicksRow, Goto, terminal, daycare
    <2>2. emu'.cart \/ emu'.cart = emu.cart
      <3>1. emu' = [emu EXCEPT !.running = FALSE, !.rom = TRUE]
            => emu'.cart = emu.cart
        OBVIOUS
      <3> QED
        BY <1>4, <3>1 DEF LaunchROM, Inserted
    <2> QED
      BY <2>1, <2>2
  <1>5. CASE ClearCart
    <2>1. UNCHANGED <<mode, ui, term, dc>> /\ pc = "browser" /\ pc' = "save"
          /\ mode = "browser" /\ emu.cart /\ ~emu'.cart
          /\ pend' \in {pend, pend \cup {"save"}}
      BY <1>5 DEF ClearCart, PicksRow, Goto, terminal, daycare
    <2> QED
      BY <2>1
  <1>6. CASE Flush
    <2>1. UNCHANGED <<emu, mode, pend, ui, term>> /\ pc = "flush" /\ pc' = "writeBack"
      BY <1>6 DEF Flush, Goto, terminal
    <2>2. dc'.active => dc.active
      BY <1>6 DEF Flush, Patch, CheckOut, Idle, daycare
    <2> QED
      BY <2>1, <2>2
  <1>7. CASE WriteBack
    <2>1. UNCHANGED <<emu, mode, ui, term, dc>> /\ pc = "writeBack" /\ pc' = "load"
          /\ pend' = pend \ {"writeBack"}
      BY <1>7 DEF WriteBack, Goto, terminal, daycare
    <2> QED
      BY <2>1
  <1>8. CASE LoadParty
    <2>1. UNCHANGED <<emu, mode, ui, term>> /\ pc = "load" /\ pc' = "check"
      BY <1>8 DEF LoadParty, Goto
    <2>2. /\ HasParty(term) => AutoLoad = {}
          /\ mode # "mesh" => AutoLoad = {}
          /\ AutoLoad \subseteq {"load"}
      BY DEF AutoLoad
    <2>3. CASE "load" \notin pend
      BY <1>8, <2>1, <2>2, <2>3 DEF LoadParty
    <2>4. CASE "load" \in pend
      <3>1. pend' = (pend \ {"load"}) \cup {"staged"} \cup AutoLoad
            \/ pend' = (pend \ {"load"}) \cup AutoLoad
        BY <1>8, <2>4 DEF LoadParty, Stage
      <3>2. "writeBack" \notin pend /\ "credit" \notin pend /\ (mode # "mesh" => "checkOut" \in pend)
            /\ ("save" \in pend => emu.cart)
        BY <2>1, <2>4
      <3> QED
        BY <2>1, <2>2, <3>1, <3>2
    <2> QED
      BY <2>3, <2>4
  <1>9. CASE Check
    <2>1. UNCHANGED <<emu, mode, ui, term>> /\ pc = "check" /\ pc' = "save"
          /\ AutoCheckOut /\ AutoCheckIn(dc'.active)
      BY <1>9 DEF Check, Goto, terminal
    <2>2. dc'.active => dc.active /\ "checkOut" \notin pend
      BY <2>1, PatchStops DEF AutoCheckOut
    <2>3. /\ pend' \ {"load"} \subseteq pend \ {"checkOut"}
          /\ mode = "mesh" => "checkIn" \notin pend'
          /\ "load" \in pend' => "load" \in pend \/ ("checkIn" \in pend /\ mode = "mesh")
          /\ \A f \in {"save", "credit", "writeBack", "staged"} : f \in pend' <=> f \in pend
      BY <2>1 DEF AutoCheckIn, Checked, MayCheckIn
    <2> QED
      BY <2>1, <2>2, <2>3
  <1>10. CASE Event \/ Arrival \/ Autosave
    <2>1. UNCHANGED <<emu, mode, pend, pc, ui, term>>
      BY <1>10 DEF Event, Arrival, Autosave, terminal
    <2>2. dc'.active = dc.active
      BY <1>10 DEF Event, Arrival, Autosave, Gain, TypeInv, TypeOK
    <2> QED
      BY <2>1, <2>2
  <1>11. CASE Battle
    BY <1>11 DEF Battle, daycare
  <1>12. CASE TryConsumeStagedParty
    <2>1. UNCHANGED <<emu, mode, pc, ui, dc>>
      BY <1>12 DEF TryConsumeStagedParty, daycare
    <2>2. CASE "staged" \in pend
      BY <1>12, <2>1, <2>2 DEF TryConsumeStagedParty
    <2>3. CASE "staged" \notin pend
      <3>1. "credit" \in pend /\ pend' \subseteq {"writeBack"} /\ mode = "mesh" /\ ui = "idle"
        BY <1>12, <2>3 DEF TryConsumeStagedParty
      <3>2. HasParty(term')
        BY <1>12, <2>3, <3>1 DEF TryConsumeStagedParty, HasParty
      <3> QED
        BY <2>1, <3>1, <3>2
    <2> QED
      BY <2>2, <2>3
  <1>13. CASE OpenTerminal \/ EnterByAlt
    BY <1>13 DEF OpenTerminal, EnterByAlt, Key, terminal, daycare
  <1>14. CASE LeaveBrowser \/ EjectROM
    BY <1>14 DEF LeaveBrowser, EjectROM, Key, terminal, daycare
  <1>15. CASE LeaveEmulator
    BY <1>15 DEF LeaveEmulator, Key, terminal, daycare
  <1>16. CASE Play
    <2>1. UNCHANGED <<mode, pend, pc, ui, term, dc>> /\ emu'.cart = emu.cart
      BY <1>16 DEF Play, terminal, daycare
    <2> QED
      BY <2>1
  <1>17. CASE PowerLoss
    BY <1>17 DEF PowerLoss, Idle
  <1>18. CASE UNCHANGED vars
    BY <1>18 DEF vars
  <1>19. CASE FrameEnds
    <2>1. UNCHANGED <<mode, pend, pc, ui, term, dc>> /\ emu'.cart = emu.cart
      BY <1>19 DEF FrameEnds, terminal, daycare
    <2> QED
      BY <2>1
  <1> QED
    BY <1>1, <1>2, <1>3, <1>4, <1>5, <1>6, <1>7, <1>8, <1>9, <1>10, <1>11,
       <1>12, <1>13, <1>14, <1>15, <1>16, <1>17, <1>18, <1>19 DEF Next, Pass, Tick

\* A cap that is no lower than the lower one does not cut what was played
LEMMA HoldsCapped ==
    ASSUME TypeInv, NEW p \in P, NEW n \in Nat, NEW cap \in Nat,
           LowCap <= cap, Holds(p)
    PROVE  Holds([p EXCEPT !.exp = AtMost(p.exp + n, cap)])
  <1>1. p.exp \in Nat /\ played.exp \in Nat /\ LowCap \in Nat
    BY Caps DEF TypeInv, TypeOK, P, Party, LowCap
  <1>2. AtMost(p.exp + n, cap) >= AtMost(played.exp, LowCap)
    BY <1>1 DEF Holds, AtMost
  <1>3. [p EXCEPT !.exp = AtMost(p.exp + n, cap)].exp = AtMost(p.exp + n, cap)
        /\ [p EXCEPT !.exp = AtMost(p.exp + n, cap)].mon = p.mon
    BY DEF P, Party
  <1> QED
    BY <1>2, <1>3 DEF Holds

LEMMA Faulting ==
    ASSUME TypeInv
    PROVE  /\ count.faults \in Nat
           /\ Works => count'.faults = count.faults
           /\ Fails => count'.faults = count.faults + 1
           /\ \A k \in {"events", "battles", "plays"}, n \in Nat :
                 Count(k, n) => count'.faults = count.faults
  BY DEF TypeInv, TypeOK, Works, Fails, Count

\* A step that changes no party but the file's, and makes nothing ready
LEMMA KeptCarried ==
    ASSUME Kept, UNCHANGED <<played, term>>, Upcoming' = Upcoming, path' => path,
           Sound' => Sound /\ (sav' = sav \/ Holds(sav)'),
           Ready' => Ready,
           count'.faults = 0 => count.faults = 0 /\ (emu.running => emu'.running),
           ~emu'.cart /\ pend' \cap {"writeBack", "credit"} # {}
               => ~emu.cart /\ pend \cap {"writeBack", "credit"} # {}
    PROVE  Kept'
  <1> USE DEF Kept, Holds
  <1>1. SavHolds'
    BY DEF SavHolds
  <1>2. Fresh'
    BY DEF Fresh, HasParty
  <1>3. NeverRun'
    BY DEF NeverRun, HasParty
  <1>4. BackFresh'
    BY DEF BackFresh
  <1> QED
    BY <1>1, <1>2, <1>3, <1>4

\* The daycare's patch of the file
LEMMA PatchKeeps ==
    ASSUME TypeInv, Kept, UNCHANGED played,
           Patch \/ (PatchFails /\ UNCHANGED sav)
    PROVE  Sound' => Sound /\ (sav' = sav \/ Holds(sav)')
  <1>1. CASE UNCHANGED sav
    BY <1>1, Faulting DEF Sound, Patch, PatchFails
  <1>2. CASE sav' = TornFile
    BY <1>2 DEF Sound
  <1>3. CASE Works /\ sav # TornFile /\ sav' = Patched(sav)
    <2>1. SUFFICES ASSUME Sound' PROVE Sound /\ Holds(sav')
      BY DEF Holds
    <2>2. Sound /\ Holds(sav)
      BY <1>3, <2>1, Faulting DEF Sound, Kept, SavHolds
    <2>3. sav \in P /\ dc.gain \in Nat /\ LowCap <= MaxExp /\ MaxExp \in Nat
      BY <1>3, Caps DEF TypeInv, TypeOK, LowCap, P
    <2> QED
      BY <1>3, <2>2, <2>3, HoldsCapped DEF Patched
  <1> QED
    BY <1>1, <1>2, <1>3 DEF Patch

\* The emulator's write of its own memory
LEMMA WriteHolds ==
    ASSUME TypeInv, Kept, WriteSave
    PROVE  SavHolds'
  <1>1. CASE sav' = emu.ram /\ played' = emu.ram
    <2>1. emu.ram.exp \in Nat /\ LowCap \in Nat
      BY Caps DEF TypeInv, TypeOK, P, Party, LowCap
    <2> QED
      BY <1>1, <2>1 DEF SavHolds, Holds, AtMost
  <1>2. CASE Fails /\ sav' \in {sav, TornFile} /\ UNCHANGED played
    BY <1>2, Faulting DEF Kept, SavHolds, Sound, Holds
  <1> QED
    BY <1>1, <1>2 DEF WriteSave

\* The first three blocks but one
LEMMA SaveKeeps ==
    ASSUME TypeInv, Pending, Kept, SaveGame
    PROVE  Kept'
  <1>0. /\ pc = "save" /\ pend' = pend \ {"save"}
        /\ UNCHANGED <<emu, mode, term, staged, path, dc>>
    BY DEF SaveGame, terminal, daycare
  <1>1. CASE "save" \in pend /\ emu.running
    <2>1. ~Ready'
      BY <1>0, <1>1 DEF Pending, SaveDue, Ready, ReloadDue
    <2>2. ~emu.cart => pend \cap {"writeBack", "credit"} = {}
      BY <1>0, <1>1 DEF Pending, BackIn, CreditIn
    <2>3. SavHolds'
      BY <1>1, WriteHolds DEF SaveGame
    <2> QED
      BY <1>0, <1>1, <2>1, <2>2, <2>3 DEF Kept, Fresh, NeverRun, BackFresh
  <1>2. CASE ~("save" \in pend /\ emu.running)
    <2>1. UNCHANGED <<sav, played, count>>
      BY <1>2 DEF SaveGame
    <2> QED
      BY <1>0, <2>1, KeptCarried DEF Upcoming, Sound, Ready, ReloadDue
  <1> QED
    BY <1>1, <1>2

LEMMA LaunchKeeps ==
    ASSUME TypeInv, Pending, Kept, LaunchROM \/ ClearCart
    PROVE  Kept'
  <1>1. CASE LaunchROM
    <2>1. /\ UNCHANGED <<sav, pend, term, staged, path, dc, played>>
          /\ mode = "browser" /\ mode' \in {"browser", "emulator"}
          /\ Works \/ Fails
      BY <1>1 DEF LaunchROM, PicksRow, terminal, daycare
    <2>2. ~Ready' /\ Upcoming' = Upcoming
      BY <2>1 DEF Ready, Upcoming
    <2>3. Sound' => Sound
      BY <2>1, Faulting DEF Sound
    <2>4. emu.cart => emu'.cart
      <3>1. CASE emu' = [emu EXCEPT !.running = FALSE, !.rom = TRUE]
        BY <3>1 DEF TypeInv, TypeOK
      <3>2. CASE \E r \in {Blank, sav} : emu' = Inserted(r)
        BY <3>2 DEF Inserted
      <3> QED
        BY <1>1, <3>1, <3>2 DEF LaunchROM
    <2>5. count'.faults = 0 => count.faults = 0 /\ emu'.running
      BY <1>1, Faulting DEF LaunchROM, Inserted
    <2> QED
      BY <2>1, <2>2, <2>3, <2>4, <2>5, KeptCarried
  <1>2. CASE ClearCart
    <2>1. /\ UNCHANGED <<sav, mode, term, staged, path, dc, count, played>>
          /\ pc = "browser" /\ mode = "browser" /\ emu.cart
          /\ pend' \in {pend, pend \cup {"save"}}
      BY <1>2 DEF ClearCart, PicksRow, terminal, daycare
    <2>2. emu'.running = emu.running
      BY <1>2 DEF ClearCart, TypeInv, TypeOK
    <2>3. pend' \cap {"writeBack", "credit"} = {}
      BY <2>1 DEF Pending, BackIn, CreditIn
    <2>4. ~Ready' /\ Upcoming' = Upcoming
      BY <2>1 DEF Ready, Upcoming
    <2> QED
      BY <2>1, <2>2, <2>3, <2>4, KeptCarried DEF Sound
  <1> QED
    BY <1>1, <1>2

LEMMA WriteKeeps ==
    ASSUME TypeInv, Pending, Kept, Flush \/ WriteBack
    PROVE  Kept'
  <1>1. CASE Flush
    <2>1. UNCHANGED <<emu, mode, pend, term, staged, path, played>>
      BY <1>1 DEF Flush, terminal
    <2>2. dc'.active => dc.active
      BY <1>1 DEF Flush, Patch, CheckOut, Idle, daycare
    <2>3. Sound' => Sound /\ (sav' = sav \/ Holds(sav)')
      BY <1>1, <2>1, PatchKeeps DEF Flush, Sound
    <2>4. count'.faults = 0 => count.faults = 0
      BY <1>1, Faulting DEF Flush, Patch, PatchFails
    <2>5. Upcoming' = Upcoming /\ (Ready' => Ready)
      BY <2>1, <2>2 DEF Upcoming, Ready, ReloadDue
    <2> QED
      BY <2>1, <2>3, <2>4, <2>5, KeptCarried
  <1>2. CASE WriteBack
    <2>1. /\ UNCHANGED <<emu, mode, term, staged, path, dc, played>>
          /\ pend' = pend \ {"writeBack"}
      BY <1>2 DEF WriteBack, terminal, daycare
    <2>2. Sound' => Sound /\ (sav' = sav \/ Holds(sav)')
      <3>1. CASE "writeBack" \in pend /\ MayPatch /\ HasParty(term) /\ path
        <4>1. Sound => Holds(term)
          BY <3>1 DEF Kept, BackFresh, MayPatch
        <4>2. (Works /\ sav' = (IF sav = TornFile THEN sav ELSE term))
              \/ (Fails /\ sav' \in {sav, TornFile})
          BY <1>2, <3>1 DEF WriteBack
        <4> QED
          BY <2>1, <4>1, <4>2, Faulting DEF Sound, Holds
      <3>2. CASE ~("writeBack" \in pend /\ MayPatch /\ HasParty(term) /\ path)
        BY <1>2, <3>2 DEF WriteBack, Sound
      <3> QED
        BY <3>1, <3>2
    <2>3. count'.faults = 0 => count.faults = 0
      BY <1>2, Faulting DEF WriteBack
    <2>4. Upcoming' = Upcoming /\ (Ready' => Ready)
      BY <2>1 DEF Upcoming, Ready, ReloadDue
    <2> QED
      BY <2>1, <2>2, <2>3, <2>4, KeptCarried
  <1> QED
    BY <1>1, <1>2

LEMMA LoadKeeps ==
    ASSUME TypeInv, Pending, Kept, LoadParty
    PROVE  Kept'
  <1>0. UNCHANGED <<emu, mode, term, sav, played>> /\ AutoLoad \subseteq {"load"}
    BY DEF LoadParty, AutoLoad
  <1>1. CASE "load" \notin pend
    <2>1. UNCHANGED <<staged, path, dc, count>> /\ pend' = pend \cup AutoLoad
      BY <1>1 DEF LoadParty
    <2>2. Upcoming' = Upcoming /\ (Ready' => Ready)
          /\ pend' \cap {"writeBack", "credit"} = pend \cap {"writeBack", "credit"}
      BY <1>0, <2>1 DEF Upcoming, Ready, ReloadDue
    <2> QED
      BY <1>0, <2>1, <2>2, KeptCarried DEF Sound
  <1>2. CASE "load" \in pend
    <2>1. pend \cap {"writeBack", "credit"} = {}
      BY <1>2 DEF Pending, BackIn, CreditIn
    <2>2. /\ Works \/ Fails
          /\ \/ pend' = (pend \ {"load"}) \cup {"staged"} \cup AutoLoad
             \/ pend' = (pend \ {"load"}) \cup AutoLoad
      BY <1>2 DEF LoadParty, Stage
    <2>3. BackFresh'
      BY <1>0, <2>1, <2>2 DEF BackFresh
    <2>4. Sound' => Sound
      BY <1>0, <2>2, Faulting DEF Sound
    <2>5. SavHolds'
      BY <1>0, <2>4 DEF Kept, SavHolds, Holds
    <2>6. CASE Works /\ sav # TornFile /\ Stage(Loaded(sav), TRUE)
      <3>1. /\ Upcoming'.mon = sav.mon /\ Upcoming'.exp = sav.exp
        <4>1. sav \in P
          BY <2>6 DEF TypeInv, TypeOK, P
        <4> QED
          BY <2>6, <4>1 DEF Stage, Upcoming, Loaded, P, Party
      <3>2. count'.faults = 0 => Sound
        BY <2>6, Faulting DEF Sound
      <3> QED
        BY <1>0, <2>3, <2>4, <2>5, <3>1, <3>2
           DEF Kept, SavHolds, Fresh, NeverRun, Holds
    <2>7. CASE ~path'
      BY <2>3, <2>5, <2>7 DEF Kept, Fresh, NeverRun
    <2>8. CASE /\ Fails \/ (Works /\ sav = TornFile)
               /\ ~emu.running
               /\ pend' = (pend \ {"load"}) \cup AutoLoad
               /\ UNCHANGED <<staged, path, dc>>
      <3>1. Upcoming' = Upcoming
        BY <1>0, <2>8 DEF Upcoming
      <3>2. Sound' \/ count'.faults = 0 => count.faults = 0
        BY <1>0, <2>8, Faulting DEF Sound
      <3> QED
        BY <1>0, <2>3, <2>5, <2>8, <3>1, <3>2
           DEF Kept, Fresh, NeverRun, Holds, HasParty
    <2> QED
      BY <1>2, <2>6, <2>7, <2>8 DEF LoadParty, Stage
  <1> QED
    BY <1>1, <1>2

\* The check-out stops the daycare, so the check-in asks for the reload
LEMMA CheckKeeps ==
    ASSUME TypeInv, Kept, Check
    PROVE  Kept'
  <1>1. /\ UNCHANGED <<emu, mode, term, staged, path, played>>
        /\ AutoCheckOut /\ AutoCheckIn(dc'.active)
    BY DEF Check, terminal
  <1>2. Sound' => Sound /\ (sav' = sav \/ Holds(sav)')
    <2>1. Patch \/ (PatchFails /\ UNCHANGED sav) \/ UNCHANGED <<sav, count>>
      BY <1>1 DEF AutoCheckOut
    <2> QED
      BY <1>1, <2>1, PatchKeeps DEF Sound
  <1>3. count'.faults = 0 => count.faults = 0
    BY <1>1, Faulting DEF AutoCheckOut, Patch, PatchFails
  <1>4. \A f \in {"load", "staged", "writeBack", "credit"} : f \in pend => f \in pend'
    BY <1>1 DEF AutoCheckIn, Checked
  <1>5. \A f \in {"staged", "writeBack", "credit"} : f \in pend' => f \in pend
    BY <1>1 DEF AutoCheckIn, Checked
  <1>6. Ready' => Ready
    <2>1. SUFFICES ASSUME mode = "mesh", ReloadDue PROVE "load" \in pend'
      BY <1>1 DEF Ready, ReloadDue
    <2>2. CASE "checkIn" \in pend /\ (~dc.active \/ "checkOut" \in pend)
      <3>1. ~dc'.active
        BY <1>1, <2>2, PatchStops DEF AutoCheckOut
      <3> QED
        BY <1>1, <2>1, <2>2, <3>1 DEF AutoCheckIn, MayCheckIn
    <2> QED
      BY <1>4, <2>1, <2>2 DEF ReloadDue
  <1> QED
    BY <1>1, <1>2, <1>3, <1>4, <1>5, <1>6, KeptCarried DEF Upcoming

LEMMA TickKeeps ==
    ASSUME TypeInv, Kept, Tick
    PROVE  Kept'
  <1>1. CASE Event \/ Arrival \/ Autosave
    <2>1. UNCHANGED <<sav, emu, mode, pend, term, staged, path, played>>
      BY <1>1 DEF Event, Arrival, Autosave, terminal
    <2>2. dc'.active = dc.active
      BY <1>1 DEF Event, Arrival, Autosave, Gain, TypeInv, TypeOK
    <2>3. count'.faults = count.faults
      BY <1>1, Faulting, Caps DEF Event, Arrival, Autosave
    <2> QED
      BY <2>1, <2>2, <2>3, KeptCarried DEF Sound, Upcoming, Ready, ReloadDue
  <1>2. CASE Battle
    <2>1. /\ UNCHANGED <<sav, emu, mode, term, staged, path, dc, played>>
          /\ mode = "mesh" /\ HasParty(term) /\ pend \subseteq {"writeBack"}
          /\ pend' = pend \cup {"credit"} \cup (IF path THEN {"writeBack"} ELSE {})
      BY <1>2 DEF Battle, daycare
    <2>2. count'.faults = count.faults
      BY <1>2, Faulting, Caps DEF Battle
    <2>3. Upcoming = term /\ Upcoming' = term /\ ~ReloadDue
      BY <2>1 DEF Upcoming, ReloadDue
    <2>4. path /\ Sound /\ ~emu.cart => Holds(term)
      BY <2>1, <2>3 DEF Kept, Fresh, Ready
    <2> QED
      BY <2>1, <2>2, <2>3, <2>4
         DEF Kept, SavHolds, Fresh, NeverRun, BackFresh, Ready, Sound, Holds
  <1> QED
    BY <1>1, <1>2 DEF Tick

LEMMA ConsumeKeeps ==
    ASSUME TypeInv, Pending, Kept, TryConsumeStagedParty
    PROVE  Kept'
  <1>1. /\ UNCHANGED <<sav, emu, mode, path, dc, count, played>>
        /\ "staged" \notin pend' /\ "credit" \notin pend'
        /\ \A f \in {"load", "checkIn", "checkOut"} : f \in pend' <=> f \in pend
        /\ "writeBack" \in pend' => "writeBack" \in pend \/ "credit" \in pend
    BY DEF TryConsumeStagedParty, daycare
  <1>2. Upcoming' = term' /\ (Sound' <=> Sound) /\ (Ready' <=> Ready)
    BY <1>1 DEF Upcoming, Sound, Ready, ReloadDue
  <1>3. SavHolds'
    BY <1>1, <1>2 DEF Kept, SavHolds, Holds
  <1>4. CASE "staged" \in pend
    <2>1. term' = Upcoming
      BY <1>4 DEF TryConsumeStagedParty, Upcoming
    <2>2. "writeBack" \notin pend'
      BY <1>1, <1>4 DEF Pending, BackIn, CreditIn
    <2> QED
      BY <1>1, <1>2, <1>3, <2>1, <2>2
         DEF Kept, Fresh, NeverRun, BackFresh, Holds, HasParty
  <1>5. CASE "staged" \notin pend
    <2>1. "credit" \in pend /\ Upcoming = term /\ HasParty(term)
      BY <1>5 DEF TryConsumeStagedParty, Upcoming, Pending, CreditIn
    <2>2. term' = [term EXCEPT !.exp = AtMost(term.exp + stagedXp, TerminalCap)]
      BY <1>5, <2>1 DEF TryConsumeStagedParty
    <2>3. Holds(term) => Holds(term')
      <3>1. term \in P /\ stagedXp \in Nat /\ TerminalCap \in Nat
            /\ LowCap <= TerminalCap
        BY Caps DEF TypeInv, TypeOK, P, LowCap
      <3> QED
        BY <2>2, <3>1, HoldsCapped
    <2> QED
      BY <1>1, <1>2, <1>3, <2>1, <2>3
         DEF Kept, Fresh, NeverRun, BackFresh, Holds
  <1> QED
    BY <1>4, <1>5

LEMMA StepKept ==
    ASSUME FlagsInPlace, TypeInv, Pending, Kept, [Next]_vars
    PROVE  Kept'
  <1>1. CASE Enter
    <2>1. /\ UNCHANGED <<sav, term, staged, path, dc, count, played>>
          /\ emu'.cart = emu.cart /\ emu'.running = emu.running
      BY <1>1 DEF Enter, terminal, daycare, TypeInv, TypeOK
    <2>2. (mode' # "mesh" \/ UNCHANGED <<mode, pend>>)
          /\ \A f \in {"staged", "writeBack", "credit"} : f \in pend' <=> f \in pend
      BY <1>1 DEF Enter
    <2> QED
      BY <2>1, <2>2, KeptCarried DEF Sound, Upcoming, Ready, ReloadDue
  <1>2. CASE NoKey
    <2>1. UNCHANGED <<sav, emu, mode, pend, term, staged, path, dc, count, played>>
      BY <1>2 DEF NoKey, terminal, daycare
    <2> QED
      BY <2>1, KeptCarried DEF Sound, Upcoming, Ready, ReloadDue
  <1>3. CASE OpenTerminal \/ EnterByAlt \/ LeaveBrowser \/ EjectROM \/ LeaveEmulator
    <2>1. UNCHANGED <<sav, emu, term, staged, path, dc, count, played>>
      BY <1>3 DEF OpenTerminal, EnterByAlt, LeaveBrowser, EjectROM,
                  LeaveEmulator, terminal, daycare
    <2>2. /\ pend \subseteq pend'
          /\ pend' \subseteq pend \cup {"load", "resume", "browse", "checkIn", "save"}
      BY <1>3 DEF OpenTerminal, EnterByAlt, LeaveBrowser, EjectROM, LeaveEmulator
    <2>3. Ready' => Ready
      <3>1. CASE mode' = mode \/ mode' = "browser"
        BY <2>1, <2>2, <3>1 DEF Ready, ReloadDue
      <3>2. CASE LeaveBrowser
        BY <2>1, <2>2, <3>2 DEF LeaveBrowser, Ready, ReloadDue, Pending, OutIn
      <3>3. CASE mode = "emulator"
        BY <2>1, <3>3 DEF Ready, FlagsInPlace
      <3> QED
        BY <1>3, <3>1, <3>2, <3>3
           DEF OpenTerminal, EnterByAlt, EjectROM, LeaveEmulator
    <2> QED
      BY <2>1, <2>2, <2>3, KeptCarried DEF Sound, Upcoming
  <1>4. CASE Play
    <2>1. UNCHANGED <<sav, mode, pend, term, staged, path, dc, played>>
      BY <1>4 DEF Play, terminal, daycare
    <2>2. emu'.cart = emu.cart /\ emu'.running = emu.running
      BY <1>4 DEF Play, TypeInv, TypeOK
    <2>3. count'.faults = count.faults
      BY <1>4, Faulting, Caps DEF Play
    <2> QED
      BY <2>1, <2>2, <2>3, KeptCarried DEF Sound, Upcoming, Ready, ReloadDue
  <1>5. CASE PowerLoss
    <2>1. UNCHANGED <<sav, played>> /\ ~path' /\ pend' = {} /\ (Sound' => Sound)
      BY <1>5, Faulting DEF PowerLoss, Sound
    <2> QED
      BY <2>1 DEF Kept, SavHolds, Fresh, NeverRun, BackFresh, Holds
  <1>6. CASE UNCHANGED vars
    BY <1>6, KeptCarried DEF vars, Sound, Upcoming, Ready, ReloadDue
  <1>7. CASE FrameEnds
    <2>1. /\ UNCHANGED <<mode, pend, term, staged, path, dc>>
          /\ emu'.cart /\ emu'.running = emu.running
      BY <1>7 DEF FrameEnds, FlagsInPlace, terminal, daycare
    <2>2. CASE emu.running /\ WriteSave
      BY <2>1, <2>2, WriteHolds
         DEF Kept, Fresh, Ready, NeverRun, BackFresh
    <2>3. CASE UNCHANGED <<sav, played, count>>
      BY <2>1, <2>3, KeptCarried DEF Sound, Upcoming, Ready, ReloadDue,
                                     FlagsInPlace
    <2> QED
      BY <1>7, <2>2, <2>3 DEF FrameEnds
  <1> QED
    BY <1>1, <1>2, <1>3, <1>4, <1>5, <1>6, <1>7, SaveKeeps, LaunchKeeps, WriteKeeps,
       LoadKeeps, CheckKeeps, TickKeeps, ConsumeKeeps DEF Next, Pass

LEMMA InitKept == Init => Kept
  <1> SUFFICES ASSUME Init PROVE Kept
    OBVIOUS
  <1>1. sav.exp \in Nat /\ LowCap \in Nat /\ sav = played
    BY Caps DEF Init, LowCap
  <1>2. Holds(sav)
    BY <1>1 DEF Holds, AtMost
  <1> QED
    BY <1>2 DEF Init, Kept, SavHolds, Fresh, NeverRun, BackFresh, Sound

----------------------------------------------------------------------------
(* The names of the original trainers, until a battle is written back      *)

Named == count.battles = 0 =>
    /\ pend \cap {"writeBack", "credit"} = {}
    /\ sav # TornFile => sav.ot = played.ot

LEMMA PatchNames ==
    ASSUME TypeInv, Patch \/ PatchFails, sav' = sav \/ Patch
    PROVE  sav' # TornFile => sav # TornFile /\ sav'.ot = sav.ot
  <1>1. sav # TornFile => Patched(sav).ot = sav.ot
    BY DEF TypeInv, TypeOK, P, Party, Patched
  <1> QED
    BY <1>1 DEF Patch

LEMMA StepNamed ==
    ASSUME TypeInv, Named, [Next]_vars
    PROVE  Named'
  <1> USE DEF Named
  <1>1. CASE SaveGame \/ FrameEnds
    <2>1. pend' \subseteq pend /\ (WriteSave \/ UNCHANGED <<sav, played, count>>)
      BY <1>1 DEF SaveGame, FrameEnds
    <2>2. count'.battles = count.battles
      BY <2>1, Counting DEF WriteSave
    <2> QED
      BY <2>1, <2>2 DEF WriteSave
  <1>2. CASE Enter \/ NoKey \/ LaunchROM \/ ClearCart \/ LoadParty
    <2>1. /\ UNCHANGED <<sav, played>>
          /\ pend' \subseteq pend \cup {"save", "checkOut", "staged", "load"}
      BY <1>2 DEF Enter, NoKey, LaunchROM, ClearCart, LoadParty, Stage, AutoLoad
    <2>2. count'.battles = count.battles
      BY <1>2, Counting DEF Enter, NoKey, LaunchROM, ClearCart, LoadParty
    <2> QED
      BY <2>1, <2>2
  <1>3. CASE Flush \/ Check
    <2>1. played' = played /\ pend' \subseteq pend \cup {"load"}
      BY <1>3 DEF Flush, Check, AutoCheckIn, Checked
    <2>2. (Patch \/ (PatchFails /\ sav' = sav)) \/ UNCHANGED <<sav, count>>
      BY <1>3 DEF Flush, Check, AutoCheckOut
    <2>3. count'.battles = count.battles
      BY <2>2, Counting DEF Patch, PatchFails
    <2> QED
      BY <2>1, <2>2, <2>3, PatchNames
  <1>4. CASE WriteBack
    <2>1. /\ played' = played /\ pend' \subseteq pend
          /\ "writeBack" \notin pend => UNCHANGED <<sav, count>>
      BY <1>4 DEF WriteBack
    <2>2. count'.battles = count.battles
      BY <1>4, Counting DEF WriteBack
    <2> QED
      BY <2>1, <2>2
  <1>5. CASE Event \/ Arrival \/ Autosave
    <2>1. UNCHANGED <<sav, pend, played>>
      BY <1>5 DEF Event, Arrival, Autosave
    <2>2. count'.battles = count.battles
      BY <1>5, Counting DEF Event, Arrival, Autosave
    <2> QED
      BY <2>1, <2>2
  <1>6. CASE Battle
    <2>1. count'.battles # 0
      BY <1>6, Counting DEF Battle, TypeInv, TypeOK
    <2> QED
      BY <2>1
  <1>7. CASE TryConsumeStagedParty
    <2>1. /\ UNCHANGED <<sav, played, count>>
          /\ "credit" \notin pend => pend' \subseteq pend
      BY <1>7 DEF TryConsumeStagedParty
    <2> QED
      BY <2>1
  <1>8. CASE OpenTerminal \/ EnterByAlt \/ LeaveBrowser \/ EjectROM \/ LeaveEmulator
    <2>1. /\ UNCHANGED <<sav, played, count>>
          /\ pend' \subseteq pend \cup {"load", "resume", "browse", "checkIn", "save"}
      BY <1>8 DEF OpenTerminal, EnterByAlt, LeaveBrowser, EjectROM, LeaveEmulator
    <2> QED
      BY <2>1
  <1>9. CASE Play \/ PowerLoss
    <2>1. UNCHANGED <<sav, played>> /\ pend' \subseteq pend
      BY <1>9 DEF Play, PowerLoss
    <2>2. count'.battles = count.battles
      BY <1>9, Counting DEF Play, PowerLoss
    <2> QED
      BY <2>1, <2>2
  <1>10. CASE UNCHANGED vars
    BY <1>10 DEF vars
  <1> QED
    BY <1>1, <1>2, <1>3, <1>4, <1>5, <1>6, <1>7, <1>8, <1>9, <1>10
       DEF Next, Pass, Tick

LEMMA InitNamed == Init => Named
  BY DEF Init, Named

\* PlayIsKept: the species and the experience that the game last saved are
\* never undone by the daycare's patch or by the write-back of a battle, in
\* whatever order the requests of the keys, the blocks of the main loop, the
\* frames of the emulator with their own saves, and one fault of the card or of
\* the power come; and until the first battle the names are kept as well.
THEOREM PlayKept == Spec => []PlayIsKept
  <1>1. FlagsInPlace /\ TypeInv /\ Pending /\ Kept /\ [Next]_vars => (Pending /\ Kept)'
    BY StepPending, StepKept
  <1>2. TypeInv /\ Named /\ [Next]_vars => Named'
    BY StepNamed
  <1>3. TypeInv /\ Kept /\ Named => PlayIsKept
    BY DEF TypeInv, TypeOK, Kept, Named, SavHolds, Sound, Holds, PlayIsKept
  <1> QED
    BY InitInPlace, StepInPlace, InitTyped, StepTyped, InitPending, InitKept,
       InitNamed, <1>1, <1>2, <1>3, PTL DEF Spec
=============================================================================
