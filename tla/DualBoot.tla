------------------------------- MODULE DualBoot --------------------------------
(***************************************************************************)
(* The two firmware images and how they hand the machine to each other.    *)
(* Every reset enters MinimalBoot (MinimalBoot.ino), which runs what is    *)
(* too large for the full image - a big CRT, or a VM package - when the    *)
(* boot indicator in EEPROM asks for it, and jumps to the full image       *)
(* (Teensy.ino) otherwise.  The full image asks by writing the name, then  *)
(* the indicator, then resetting; the minimal one clears the indicator     *)
(* before it tries, so that a launch is tried once.                        *)
(*                                                                         *)
(* EEPROM bytes are written one at a time and power may fail between any   *)
(* two.  A name is two parts, its first and its last bytes; the settings   *)
(* are one value that tells defaults, the user's and a mixture apart.      *)
(***************************************************************************)
EXTENDS Naturals, Sequences, FiniteSets

CONSTANTS
  Crts,      \* CRT files too large for the full image
  LongNames, \* those whose path, of more than 255 characters, does not fit
             \* eepAdCrtBootName
  Vms,       \* VM packages
  Others,    \* programs the full image runs itself
  LongPress, \* the user may hold the button to restore the defaults
  MaxLosses  \* bound: power failures in a behaviour

ASSUME DualBootAssumption ==
  /\ LongNames \subseteq Crts /\ Crts \cap Vms = {}
  /\ MaxLosses \in Nat
  /\ LongPress \in BOOLEAN
  /\ {"none", "@VM1"} \cap (Crts \cup Vms \cup Others) = {}

VARIABLES
  ind, name, magic, settings, \* EEPROM
  record,          \* /VMS/launch.vml on the SD card
  at, todo, goto,  \* where the processor is, the writes it is about to make
                   \* there, and where it goes when they are made
  button, pressed, \* the button is held; BtnPressed
  auto,            \* what autolaunch.txt or the EEPROM names
  asked,           \* history: the launch asked for and not yet tried
  leaving,         \* history: the button has left a program for the menu
  losses

eeprom == <<ind, name, magic, settings>>
where == <<at, todo, goto>>
user == <<button, auto>>
vars == <<eeprom, record, where, pressed, user, asked, leaving, losses>>

SkipMin == 0
ExecuteMin == 1
FromMin == 2
LaunchFull == 3
Blank == 255

Programs == Crts \cup Vms \cup Others
Names == Programs \cup {"none", "@VM1"}
Places == {"reset", "load", "crt", "vm", "main", "settled", "launch", "menu"}
W(cell, value) == [cell |-> cell, value |-> value]

TypeOK ==
  /\ ind \in {SkipMin, ExecuteMin, FromMin, LaunchFull, Blank}
  /\ name \in [head : Names, tail : Names]
  /\ settings \in {"blank", "default", "user", "mixed"}
  /\ record \in Vms \cup {"none"}
  /\ at \in Places /\ goto \in Places
  /\ \A i \in DOMAIN todo :
       todo[i].cell \in {"ind", "head", "tail", "magic", "settings", "record"}
  /\ {magic, button, pressed, leaving} \subseteq BOOLEAN
  /\ {auto, asked} \subseteq Programs \cup {"none"}
  /\ losses \in 0..MaxLosses

Init ==
  /\ \/ ind = Blank /\ magic = FALSE /\ settings = "blank"
     \/ ind = SkipMin /\ magic = TRUE /\ settings = "default"
  /\ name = [head |-> "none", tail |-> "none"] /\ record = "none"
  /\ at = "reset" /\ todo = <<>> /\ goto = "reset"
  /\ button \in BOOLEAN /\ pressed = FALSE
  /\ auto \in Programs \cup {"none"}
  /\ asked = "none" /\ leaving = FALSE /\ losses = 0
--------------------------------------------------------------------------------
(* Writes.                                                                    *)

Go(place) == at' = place /\ UNCHANGED <<todo, goto>>
WriteThen(writes, place) == todo' = writes /\ goto' = place /\ UNCHANGED at

\* One byte (or one part of several) becomes permanent.
Write ==
  /\ todo # <<>>
  /\ LET w == Head(todo) IN
       /\ ind' = IF w.cell = "ind" THEN w.value ELSE ind
       /\ name' = IF w.cell \in {"head", "tail"}
                  THEN [name EXCEPT ![w.cell] = w.value] ELSE name
       /\ magic' = (magic \/ w.cell = "magic")
       /\ settings' = IF w.cell # "settings" \/ (w.value = "mixed" /\ settings = "default")
                      THEN settings ELSE w.value
       /\ record' = IF w.cell = "record" THEN w.value ELSE record
  /\ todo' = Tail(todo)
  /\ at' = IF todo' = <<>> THEN goto ELSE at
  /\ UNCHANGED <<goto, pressed, user, asked, leaving, losses>>

\* A name is written from its end.  The end of one that does not fit goes into
\* the indicator and, as the indicator's own write follows, has no terminator.
\* (The autolaunch name after it is overwritten too: an autolaunch may fail.)
NameWrites(n) ==
  IF n \in LongNames THEN <<W("ind", Blank), W("tail", "none"), W("head", n)>>
  ELSE <<W("tail", n), W("head", n)>>
--------------------------------------------------------------------------------
(* The full image.                                                            *)

\* Seeded fault of Commit: the indicator is written before the name.
CommitIndicatorFirst(n) ==
  <<W("ind", ExecuteMin)>> \o
  (IF n \in Vms THEN <<W("record", "none"), W("record", n)>> \o NameWrites("@VM1")
   ELSE NameWrites(n))

\* Seeded fault of Commit: the marker and the package change places.
CommitSwapped(n) ==
  (IF n \in Vms THEN <<W("record", "none"), W("record", "@VM1")>> \o NameWrites(n)
   ELSE NameWrites(n)) \o
  <<W("ind", ExecuteMin)>>

\* What is written before the reset that lets the minimal image run n.
Commit(n) ==
  (IF n \in Vms THEN <<W("record", "none"), W("record", n)>> \o NameWrites("@VM1")
   ELSE NameWrites(n)) \o
  <<W("ind", ExecuteMin)>>

\* Executing n: in this image, or by way of the minimal one; a missing file or
\* a failed check leaves the menu.
Execute(n) ==
  \/ Go("menu") /\ asked' = "none"
  \/ /\ n \in Crts \cup Vms
     /\ WriteThen(Commit(n), "reset") /\ asked' = n

Idle(place) == at = place /\ todo = <<>>

\* Seeded fault of Defaults: the magic number first.
DefaultsMagicFirst ==
  <<W("magic", TRUE), W("settings", "mixed"), W("ind", SkipMin),
    W("settings", "default")>>
Defaults ==
  <<W("settings", "mixed"), W("ind", SkipMin), W("settings", "default"),
    W("magic", TRUE)>>

MainSetup ==
  /\ Idle("main")
  /\ IF magic THEN Go("settled") ELSE WriteThen(Defaults, "settled")
  /\ UNCHANGED <<eeprom, record, pressed, user, asked, leaving, losses>>

\* The switch on the boot indicator at the end of setup.
MainSwitch ==
  /\ Idle("settled")
  /\ \/ /\ ind = SkipMin
        /\ IF button \/ auto = "none" THEN Go("menu") /\ UNCHANGED asked
           ELSE Execute(auto)
        /\ pressed' = button
     \/ /\ ind = LaunchFull
        /\ WriteThen(<<W("ind", SkipMin)>>, "launch")
        /\ UNCHANGED <<asked, pressed>>
     \/ /\ ind \notin {SkipMin, LaunchFull}
        /\ WriteThen(<<W("ind", SkipMin)>>, "menu")
        /\ pressed' = button /\ UNCHANGED asked
  /\ UNCHANGED <<eeprom, record, user, leaving, losses>>

\* The beginning of one path and the end of another may be any path.
ReadName ==
  IF name.head = name.tail THEN {name.head} ELSE Programs \cup {"none"}

\* The program a terminal asked for while the minimal image was running.
MainLaunch ==
  /\ Idle("launch")
  /\ \E n \in ReadName : Execute(n)
  /\ pressed' = button
  /\ UNCHANGED <<eeprom, record, user, leaving, losses>>

\* The menu, and whatever the full image runs: its loop, the button, a launch,
\* a changed setting, and the long press that restores the defaults.
MenuLoop ==
  /\ Idle("menu") /\ (pressed \/ leaving)
  /\ pressed' = FALSE /\ leaving' = FALSE
  /\ UNCHANGED <<eeprom, record, where, user, asked, losses>>

MenuLaunch(n) ==
  /\ Idle("menu") /\ ~pressed /\ ~leaving /\ n \in Programs
  /\ Execute(n)
  /\ UNCHANGED <<eeprom, record, pressed, user, leaving, losses>>

MenuSetting ==
  /\ Idle("menu") /\ settings = "default"
  /\ settings' = "user"
  /\ UNCHANGED <<ind, name, magic, record, where, pressed, user, asked, leaving,
                 losses>>

RestoreDefaults ==
  /\ Idle("menu") /\ LongPress /\ button
  /\ WriteThen(Defaults, "reset") /\ leaving' = FALSE
  /\ UNCHANGED <<eeprom, record, pressed, user, asked, losses>>
--------------------------------------------------------------------------------
(* The minimal image.                                                         *)

ClearIndicator == WriteThen(<<W("ind", SkipMin)>>, "load")

MinBoot ==
  /\ Idle("reset")
  /\ IF ind # ExecuteMin \/ button \/ ~magic THEN Go("main") ELSE ClearIndicator
  /\ pressed' = FALSE
  /\ UNCHANGED <<eeprom, record, user, asked, leaving, losses>>

\* What the name in EEPROM stands for.
Named ==
  IF name.head = "@VM1" THEN record
  ELSE IF name.head = name.tail THEN name.head ELSE "none"

\* runMainTRApp: while TCP is listening the jump is not possible, a reset is.
ToMain == {"main", "reset"}

\* Seeded fault of ReturnWrites: the indicator of a power-up.
ReturnWritesSkipMin == <<W("ind", SkipMin)>>
ReturnWrites == <<W("ind", FromMin)>>

\* VMHostBoot or LoadCRT; both may fail.
MinLoad ==
  /\ Idle("load")
  /\ \/ name.head = "@VM1" /\ record # "none" /\ Go("vm") /\ pressed' = FALSE
     \/ name.head = "@VM1" /\ Go("reset") /\ pressed' = FALSE
     \/ name.head # "@VM1" /\ Named # "none" /\ Go("crt") /\ pressed' = button
     \/ /\ name.head # "@VM1" /\ pressed' = FALSE
        /\ \E place \in ToMain : WriteThen(ReturnWrites, place)
  /\ asked' = "none"
  /\ UNCHANGED <<eeprom, record, user, leaving, losses>>

\* The loop: the button leaves the program; a VM by a plain reset, which
\* autolaunches like any other.
MinButton ==
  /\ pressed /\ leaving' = (at = "crt" \/ auto \notin Crts \cup Vms)
  /\ \/ Idle("vm") /\ Go("reset")
     \/ Idle("crt") /\ \E place \in ToMain : WriteThen(ReturnWrites, place)
  /\ pressed' = FALSE
  /\ UNCHANGED <<eeprom, record, user, asked, losses>>

\* Serial and TCP commands, not served while a VM runs.
MinReset ==
  /\ Idle("crt")
  /\ \E place \in ToMain : WriteThen(ReturnWrites, place)
  /\ UNCHANGED <<eeprom, record, pressed, user, asked, leaving, losses>>

\* First the drive, as a string, then the path.  This image counts the bytes of
\* a string modulo 256: of a longer path it writes only the beginning.
LaunchWrites(n) ==
  IF n \in LongNames
  THEN <<W("head", "none"), W("head", n), W("ind", LaunchFull)>>
  ELSE <<W("head", "none"), W("tail", n), W("head", n), W("ind", LaunchFull)>>

LaunchFile(n) ==
  /\ Idle("crt") /\ n \in Programs
  /\ \E place \in ToMain : WriteThen(LaunchWrites(n), place)
  /\ asked' = n
  /\ UNCHANGED <<eeprom, record, pressed, user, leaving, losses>>
--------------------------------------------------------------------------------
(* The user and the power.                                                    *)

Press ==
  /\ ~button /\ button' = TRUE /\ pressed' = TRUE
  /\ UNCHANGED <<eeprom, record, where, auto, asked, leaving, losses>>

LetGo ==
  /\ button /\ button' = FALSE
  /\ UNCHANGED <<eeprom, record, where, pressed, auto, asked, leaving, losses>>

PowerLoss ==
  /\ losses < MaxLosses /\ losses' = losses + 1
  /\ at' = "reset" /\ todo' = <<>> /\ goto' = "reset"
  /\ pressed' = FALSE /\ leaving' = FALSE
  /\ UNCHANGED <<eeprom, record, user, asked>>

System ==
  Write \/ MainSetup \/ MainSwitch \/ MainLaunch \/ MenuLoop \/ MinBoot
  \/ MinLoad \/ MinButton
User ==
  \/ MenuSetting \/ RestoreDefaults \/ MinReset \/ Press \/ LetGo
  \/ \E n \in Programs : MenuLaunch(n) \/ LaunchFile(n)
Next == System \/ User \/ PowerLoss

Spec == Init /\ [][Next]_vars
\* The processor runs; the user lets go of the button.
FairSpec == Spec /\ WF_vars(System) /\ WF_vars(LetGo)
--------------------------------------------------------------------------------
\* A launch is tried only if it was asked for and not tried since, and what is
\* tried is what was asked for, wherever power failed (the one-shot commit:
\* VMRegistry.h:131, MinimalBoot.ino:158, FileParsers.ino:166).  A name that
\* does not fit its field names nothing to the minimal image; what it hands to
\* the full image is then only the beginning of the name.
LaunchesAsAsked ==
  /\ Idle("load") =>
       asked # "none" /\ Named = IF asked \in LongNames THEN "none" ELSE asked
  /\ Idle("launch") =>
       name.head = asked /\ (asked \notin LongNames => name.tail = asked)

\* The magic number, which makes the next boot take the settings for valid, is
\* written only over complete ones, also when power failed among the writes of
\* an earlier boot ("set this last in case of power down", Teensy.ino:473).
SettingsWhole == [][~magic /\ magic' => settings = "default"]_vars

\* The button ends a program in the menu, not in a program started again
\* (Common_Defs.h:140, MinimalBoot.ino:220); a VM ends so if there is nothing to
\* autolaunch by way of the minimal image.
ButtonEndsInMenu == leaving => ~Idle("crt") /\ ~Idle("vm")

\* Every reset ends with the menu or a program, whatever fails to load, and no
\* sequence of images handing over goes on for ever; but MinimalBoot may reject
\* a VM that the full image launches again at every power-up.
BootSettles == []<>(at \in {"menu", "crt", "vm"} \/ auto \in Vms)
================================================================================
