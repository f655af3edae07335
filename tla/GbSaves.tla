-------------------------------- MODULE GbSaves --------------------------------
(***************************************************************************)
(* The battery saves of the Game Boy VM: BatteryStore (vm/gb/saves.h) with *)
(* the calls gbvm.cpp makes of it.  A ROM with a battery has two slots on  *)
(* the card; a save goes to the one that is not active, is read back, and  *)
(* only then becomes the active one.  Saving and loading are cut at their  *)
(* operations on the card, between which power may fail.                   *)
(*                                                                         *)
(* What is in the battery RAM is a version: every change of it makes a new *)
(* one, one that is taken back too.  The code's two revision counters are  *)
(* equal exactly while the RAM holds the version that was loaded or saved  *)
(* last, which saved names.                                                *)
(***************************************************************************)
EXTENDS VmFiles

CONSTANTS
  Roms,    \* the ROMs on the card
  Battery, \* those that save
  NoRom    \* nothing loaded yet

ASSUME GbAssumption == Battery \subseteq Roms /\ NoRom \notin Roms

VARIABLES
  slots,  \* the card: [Battery -> [0..1 -> Contents]]
  rom, ram, changes, \* the core: its ROM, its battery RAM, versions made so far
  game,   \* a game runs; else the picker is shown
  saveBlocked, enabled, saved,
  active, serial, \* BatteryStore: the slot verified last, its sequence number
  gbpc,   \* where pump() is
  after,  \* what a save is for
  want,   \* the ROM that is to be loaded
  found,  \* load(): a slot's file is there
  kept,   \* history: by ROM, the version of the last verified save
  overlooked \* history: ROMs of which a load took a good slot for none

core == <<rom, ram, changes>>
store == <<enabled, saved, active, serial>>
gbHistory == <<kept, overlooked>>
gb == <<slots, core, game, saveBlocked, store, gbpc, after, want, found,
        gbHistory>>

GbPcs == {"off", "idle", "open", "write", "sync", "verify", "rom", "load0", "load1"}

GbTypeOK ==
  /\ slots \in [Battery -> [0..1 -> Contents]]
  /\ rom \in Roms \cup {NoRom} /\ want \in Roms \cup {NoRom}
  /\ ram \in Versions /\ changes \in Versions /\ saved \in Versions
  /\ {game, saveBlocked, enabled, found} \subseteq BOOLEAN
  /\ active \in -1..1 /\ serial \in Nat
  /\ gbpc \in GbPcs /\ after \in {"load", "leave", "tick"}
  /\ kept \in [Battery -> Versions] /\ overlooked \subseteq Battery

\* vm_entry: statics as the module's image has them.
FreshModule ==
  /\ rom' = NoRom /\ ram' = 0 /\ want' = NoRom
  /\ game' = FALSE /\ saveBlocked' = FALSE
  /\ enabled' = FALSE /\ saved' = 0 /\ active' = -1 /\ serial' = 0
  /\ after' = "load" /\ found' = FALSE

GbInit ==
  /\ slots = [r \in Battery |-> [s \in 0..1 |-> Absent]]
  /\ rom = NoRom /\ ram = 0 /\ changes = 0 /\ want = NoRom
  /\ game = FALSE /\ saveBlocked = FALSE
  /\ enabled = FALSE /\ saved = 0 /\ active = -1 /\ serial = 0
  /\ gbpc = "off" /\ after = "load" /\ found = FALSE
  /\ kept = [r \in Battery |-> 0] /\ overlooked = {}

GbPowerOn ==
  /\ gbpc = "off" /\ gbpc' = "idle"
  /\ UNCHANGED <<troubles, slots, core, game, saveBlocked, store, after, want,
                 found, gbHistory>>
--------------------------------------------------------------------------------
(* flush(), and what its caller does with its result.                         *)

Dirty == enabled /\ ram # saved

\* Seeded fault of Target: the slot verified last is saved over.
TargetActive == IF active < 0 THEN 0 ELSE active

Target == IF active < 0 THEN 0 ELSE 1 - active

\* Seeded fault of Flushed: a ROM is loaded though the save failed.
FlushedRegardless(ok) ==
  /\ gbpc' = IF after = "load" THEN "rom" ELSE "idle"
  /\ game' = (game /\ ok) /\ saveBlocked' = FALSE
  /\ UNCHANGED after

\* Before a ROM is loaded a failed save stops everything, and so does, once,
\* one that has recovered.  A checkpoint that fails returns to the picker,
\* which tries again.
Flushed(ok) ==
  \/ /\ after = "load"
     /\ gbpc' = IF ok /\ ~saveBlocked THEN "rom" ELSE "idle"
     /\ saveBlocked' = ~ok
     /\ UNCHANGED <<game, after>>
  \/ /\ after = "leave"
     /\ gbpc' = "idle" /\ saveBlocked' = ~ok
     /\ UNCHANGED <<game, after>>
  \/ /\ after = "tick" /\ ok
     /\ gbpc' = "idle"
     /\ UNCHANGED <<game, saveBlocked, after>>
  \/ /\ after = "tick" /\ ~ok
     /\ gbpc' = "open" /\ game' = FALSE /\ after' = "leave"
     /\ UNCHANGED saveBlocked

\* The directory is there or is made; the slot is opened and truncated.
FlushOpen ==
  /\ gbpc = "open"
  /\ \E ok \in BOOLEAN :
       /\ Operation(ok)
       /\ \/ slots' = [slots EXCEPT ![rom][Target] = Torn]
          \/ ~ok /\ UNCHANGED slots
       /\ IF ok THEN gbpc' = "write" /\ UNCHANGED <<game, saveBlocked, after>>
          ELSE Flushed(FALSE)
  /\ UNCHANGED <<core, store, want, found, gbHistory>>

\* The data after the header's place, then the header.
FlushWrite ==
  /\ gbpc = "write"
  /\ \E ok \in BOOLEAN :
       /\ WriteAt(TRUE, ok)
       /\ IF ok THEN gbpc' = "sync" /\ UNCHANGED <<game, saveBlocked, after>>
          ELSE Flushed(FALSE)
  /\ UNCHANGED <<slots, core, store, want, found, gbHistory>>

\* Synchronised and closed; if that fails the bytes may be there all the same.
FlushSync ==
  /\ gbpc = "sync"
  /\ \E ok \in BOOLEAN :
       /\ Operation(ok)
       /\ \/ slots' = [slots EXCEPT ![rom][Target] = Whole(ram, serial + 1)]
          \/ ~ok /\ UNCHANGED slots
       /\ IF ok THEN gbpc' = "verify" /\ UNCHANGED <<game, saveBlocked, after>>
          ELSE Flushed(FALSE)
  /\ UNCHANGED <<core, store, want, found, gbHistory>>

\* Read back and compared: only now is it the active slot.
FlushVerify ==
  /\ gbpc = "verify"
  /\ \E ok \in BOOLEAN :
       /\ Operation(ok) /\ Flushed(ok)
       /\ IF ok THEN /\ active' = Target /\ serial' = serial + 1 /\ saved' = ram
                     /\ kept' = [kept EXCEPT ![rom] = ram]
          ELSE UNCHANGED <<active, serial, saved, kept>>
  /\ UNCHANGED <<slots, core, enabled, want, found, overlooked>>
--------------------------------------------------------------------------------
(* What starts a save or a load.                                              *)

\* Start and Select, or a fault of the core: returnMenu.
Leave ==
  /\ gbpc = "idle" /\ game
  /\ game' = FALSE /\ after' = "leave"
  /\ IF Dirty THEN gbpc' = "open" /\ UNCHANGED saveBlocked
     ELSE gbpc' = "idle" /\ saveBlocked' = FALSE
  /\ UNCHANGED <<troubles, slots, core, store, want, found, gbHistory>>

\* Every five seconds, at a frame's end, a changed RAM is saved.
Checkpoint ==
  /\ gbpc = "idle" /\ game /\ Dirty
  /\ gbpc' = "open" /\ after' = "tick"
  /\ UNCHANGED <<troubles, slots, core, game, saveBlocked, store, want, found,
                 gbHistory>>

\* Fire in the picker: loadPath, which first saves what is still to be saved.
FireRom(r) ==
  /\ gbpc = "idle" /\ ~game
  /\ want' = r /\ after' = "load"
  /\ IF Dirty THEN gbpc' = "open" /\ UNCHANGED saveBlocked
     ELSE gbpc' = (IF saveBlocked THEN "idle" ELSE "rom") /\ saveBlocked' = FALSE
  /\ UNCHANGED <<troubles, slots, core, game, store, found, gbHistory>>

\* The ROM is read and the core started on it, or it is refused and everything
\* stays; then load() begins.
LoadRom ==
  /\ gbpc = "rom"
  /\ \/ gbpc' = "idle"
        /\ UNCHANGED <<core, game, store, found>>
     \/ /\ rom' = want /\ ram' = 0 /\ UNCHANGED changes
        /\ enabled' = (want \in Battery)
        /\ serial' = 0 /\ saved' = 0 /\ active' = -1 /\ found' = FALSE
        /\ game' = (want \notin Battery)
        /\ gbpc' = IF want \in Battery THEN "load0" ELSE "idle"
  /\ UNCHANGED <<troubles, slots, saveBlocked, after, want, gbHistory>>

\* load() takes a slot that is good and newer than what it has; one it cannot
\* open is not there for it.
LoadSlot(s, opened, good) ==
  LET c == slots[rom][s]
      takes == good /\ (active < 0 \/ c.n > serial)
  IN
  /\ opened => c # Absent
  /\ good => opened /\ IsWhole(c)
  /\ IF IsWhole(c) /\ ~good THEN Fails /\ overlooked' = overlooked \cup {rom}
     ELSE /\ UNCHANGED overlooked
          /\ Opened(c, opened)
  /\ found' = (found \/ opened)
  /\ IF takes THEN ram' = c.v /\ saved' = c.v /\ serial' = c.n /\ active' = s
     ELSE UNCHANGED <<ram, saved, serial, active>>
  /\ UNCHANGED <<slots, rom, changes, saveBlocked, enabled, after, want, kept>>

LoadFirst ==
  /\ gbpc = "load0" /\ gbpc' = "load1"
  /\ \E opened, good \in BOOLEAN : LoadSlot(0, opened, good)
  /\ UNCHANGED game

\* Damaged slots are no new game.
LoadSecond ==
  /\ gbpc = "load1" /\ gbpc' = "idle"
  /\ \E opened, good \in BOOLEAN : LoadSlot(1, opened, good)
  /\ game' = (~found' \/ active' >= 0)
--------------------------------------------------------------------------------
\* The game writes its battery RAM.
WriteRam ==
  /\ gbpc = "idle" /\ game /\ enabled
  /\ changes + 1 \in Versions
  /\ changes' = changes + 1 /\ ram' = changes + 1
  /\ UNCHANGED <<troubles, slots, rom, game, saveBlocked, store, gbpc, after,
                 want, found, gbHistory>>

\* What was written but not synchronised may have got there or not.
GbPowerCut ==
  /\ gbpc # "off" /\ gbpc' = "off"
  /\ \/ UNCHANGED slots
     \/ /\ gbpc = "sync"
        /\ slots' = [slots EXCEPT ![rom][Target] = Whole(ram, serial + 1)]
  /\ FreshModule
  /\ UNCHANGED <<troubles, changes, gbHistory>>

Flush == FlushOpen \/ FlushWrite \/ FlushSync \/ FlushVerify
Load == LoadRom \/ LoadFirst \/ LoadSecond

GbNext ==
  \/ GbPowerOn \/ Flush \/ Load
  \/ Leave \/ Checkpoint \/ WriteRam \/ GbPowerCut
  \/ \E r \in Roms : FireRom(r)

GbSpec == VmFilesInit /\ GbInit /\ [][GbNext]_<<troubles, gb>>
--------------------------------------------------------------------------------
\* The slot that load() would take if nothing failed.
NewestSlot(r) ==
  IF IsWhole(slots[r][1])
     /\ (IsWhole(slots[r][0]) => slots[r][1].n > slots[r][0].n)
  THEN 1 ELSE 0

Survives(r) ==
  kept[r] # 0 => /\ IsWhole(slots[r][NewestSlot(r)])
                 /\ slots[r][NewestSlot(r)].v >= kept[r]

\* "Never overwrite the last verified battery save" (saves.h:2): however often
\* power fails or a save goes wrong, a save that was verified is what the next
\* load finds, or a newer one, unless a load has once taken a good slot for
\* none because the card failed.
BatterySurvives == \A r \in Battery \ overlooked : Survives(r)

\* The RAM holds something that no slot of its ROM does.
Unsaved ==
  /\ enabled /\ ram # 0
  /\ \A s \in 0..1 : ~(IsWhole(slots[rom][s]) /\ slots[rom][s].v = ram)

\* "Save failures return to the picker and block loading another ROM until Fire
\* successfully retries" (vms/GBVM/README.md:39): nothing but the game itself
\* and a power cut takes unsaved data out of the RAM.
NeverDropsUnsaved ==
  [][Unsaved /\ ~WriteRam /\ ~GbPowerCut => UNCHANGED <<rom, ram>>]_gb

\* "Changed battery RAM is checkpointed" (vms/GBVM/README.md:36): while the card
\* works, what a game has written is saved.  It never is with a card library
\* that refuses to seek beyond the end of a file, as the repository says this
\* one does: the data goes behind the place of a header not yet written.
Checkpointed == game /\ Unsaved /\ troubles = 0 ~> ~Unsaved

GbFairness ==
  /\ WF_gb(Flush) /\ WF_gb(Load) /\ WF_gb(Checkpoint)

GbFairSpec == GbSpec /\ GbFairness
--------------------------------------------------------------------------------
(* Why: an inductive invariant.                                               *)

\* A store that is not enabled has nothing to save; a save or load under way is
\* of a ROM with a battery; a ROM is loaded over saved data only.
StoreInv ==
  /\ enabled => rom \in Battery
  /\ gbpc \in {"open", "write", "sync", "verify", "load0", "load1"} => enabled
  /\ gbpc \in {"rom", "load0", "load1"} => ~Dirty
  /\ gbpc \in {"load0", "load1"} => active < 1
  /\ gbpc = "load0" => active < 0

\* The active slot holds what was loaded or saved last, whatever goes wrong.
ActiveInv ==
  enabled => IF active < 0 THEN saved = 0 /\ serial = 0
             ELSE LET c == slots[rom][active] IN
                  IsWhole(c) /\ c.v = saved /\ c.n = serial

\* A verified copy is one of what is in the RAM.
VerifyInv ==
  gbpc = "verify" => slots[rom][Target] = Whole(ram, serial + 1)

\* Versions grow.
VersionInv ==
  /\ enabled => saved <= ram /\ ram <= changes
  /\ \A r \in Battery, s \in 0..1 : slots[r][s].v <= changes

\* Once loaded, what the ROM's other slot may hold: an older save, or a newer
\* one that was not verified.
OtherInv ==
  enabled /\ rom \notin overlooked =>
    CASE gbpc = "load0" -> TRUE
      [] gbpc = "load1" -> active < 0 => ~IsWhole(slots[rom][0])
      [] OTHER ->
           LET c == slots[rom][Target] IN
           /\ saved >= kept[rom]
           /\ IsWhole(c) => \/ active >= 0 /\ c.n < serial
                            \/ active = 0 /\ c.n = serial
                            \/ c.n = serial + 1 /\ c.v >= saved
           /\ active < 0 => ~IsWhole(slots[rom][1])

GbInv ==
  /\ GbTypeOK /\ StoreInv /\ ActiveInv /\ VerifyInv /\ VersionInv /\ OtherInv
  /\ BatterySurvives
================================================================================
