# Verification of the TeensyROM firmware with desktop GUI and native VMs

This directory holds TLA+ specifications of the parts of this repository whose correctness depends on the order in
which things happen: the firmware on the Teensy, the 6510 programs it talks to in the C64, and the modules (virtual
machines) it runs. TLC checks them on small instances; TLAPS proves the central invariants for every value of the
constants. Paths below are relative to the repository; `MB` is `Source/Teensy/MinimalBoot`, `IOH` is
`MB/Common/IO_Handlers`.

1. The system: components, state, operations, hazards, and what makes each one correct
2. The modules and how they correspond to the code
3. The runs: questions, bounds, fairness
4. The proofs
5. Divergences between the code and what its text says
6. What is only model-checked, what is not modelled
7. Plan

## 1. The system

A TeensyROM is a Teensy 4.1 on the C64's expansion bus. A **bus interrupt** (`MB/Common/ISRs.c`) answers each bus
cycle of the C64 through the register handlers of `IOH/*.c`; the **foreground** (`setup`, `loop`) does everything that
takes time: files, the network, USB, virtual machines. The two share `volatile` variables and register arrays; the
C64's program runs beside both. Flash holds **two firmware images**: `MinimalBoot`, entered at every reset, which runs
programs that need nearly all RAM (large CRTs, VM packages), and the full image with menu, desktop and settings. They
communicate through EEPROM bytes and one file on the SD card, and by resetting.

In a **VM** session (DOS, NES, Game Boy, AGI, Doom) the engine runs on the Teensy and the C64 runs a terminal
(`vm/client/host/*.mjs` assemble it). They exchange packets and inputs through a **mailbox** in EasyFlash RAM and write
pictures into C64 memory by **DMA**.

| Component | State | Operations | Talks to | What is hard, and what makes it correct |
|---|---|---|---|---|
| Native arena lease (`engine/native-runtime/mhs_native_arena.h`) | owner, phase, generation, size, alignment | claim, hand-off, release, seal, view, lease check | DOS and Doom engines, title decoder | generation wrap, views kept too long. A stale view is never a valid lease; a sealed arena stays sealed; the control block never becomes invalid |
| VM mailbox link (`MB/VMHost.h`, `MB/VMHostPoll.h`, `vm/client/host/mpe3-title-terminal.mjs`, `dos/tools/dos_terminal.mjs`) | registers $F5-$FB and slot; `startRequested`, `quietRequested`, `inputPending`, `pending`, `sequence`, `failure`; the client's copy, retries and input transaction | IO2 interrupt, `VMHostPoll`, the terminal's packet loop | module ABI (pump, packet, ack, input, fail) | interrupt in the middle of a turn, torn copies, misread and lost bus cycles, sequence wrap, a module failing in the middle of a turn. Packets are carried out in order and before they are released, inputs arrive once and in order, failures silence the link and are reported |
| Indexed video (`MB/VMIndexedVideo.h`, `vm/client/host/mpe-video-client.mjs`) | phase, active and target bank, exact image of each bank, stream offset, border grant; the client's bank, mode, pending flip | submit, publish, acknowledge, transfer, slice; pause, resume, stream, flip, border tick | mailbox, DMA, raster interrupt | two processors that must agree on a bank, differential upload from a remembered image, late grants, native replacement. What is shown is the last frame; uploads stay hidden; every frame gets there |
| Dual boot and launch (`MB/MinimalBoot.ino`, `MB/Min_RunTeensyApp.ino`, `MB/Min_SerUSBIO.ino`, `Teensy.ino`, `RemoteControl.ino`, `FileParsers.ino`, `MB/Common/VMRegistry.h`) | boot indicator, boot name, magic number, settings (EEPROM); `launch.vml` | both `setup`s and `loop`s, button, autolaunch, remote launch, restoring defaults | SD card, C64 reset, PC tool | power failure between any two EEPROM bytes, chains of resets. Nothing is launched that was not asked for; settings are never half written; the button leads to the menu; boot settles |
| VM input path (`dos/tools/dos_terminal.mjs`, `nes/tools/nes_terminal.mjs`, `vm/dos/dosvm.cpp`, `vm/nes/nesvm.cpp`, `vm/gb/gbvm.cpp`; `vm/client/host/mpe4-keyboard.mjs`, `mpe4-mouse.mjs`, `vm/agi/agivm.cpp`) | capture ring, transaction, latch, module queue; AGI's waiting mouse event, joystick level, pointer | capture, scan, sample, accept, deliver, module turn | mailbox link | full rings and queues, a guest that does not read, auto-repeat, three devices on one transaction, the launch of a game. No DOS event and no AGI press is lost or reordered, what is held at last always arrives |
| Desktop file operations (`Source/Teensy/DesktopFileOpsCore.h`, `IOH/DesktopFileOps.c`, `GeosFileOps.s`) | engine state, clipboard, pending deletion, open handles, temporary file; command and cancel written by the interrupt; dialog | copy, paste, prepare and confirm delete, cancel, one slice per poll | SD, USB, C64 desktop, button | cancellation, removal, change and power failure between slices, stale confirmation. Only whole copies get a name; nothing is left open; temporaries are removed or reported; only what was confirmed is deleted |
| VM registry, loader, image checks (`MB/Common/VMRegistry.h`, `VMImageLoad.h`, `VMABI.h`) | package list | scan, parse, check | SD | sequential checks; accepted or not |
| VM file service (`MB/Common/VMFiles.h`) and saves (`vm/gb/saves.h`, `vm/agi/agivm.cpp`) | handle table; battery slots, save, backup and temporary of a slot | open, read, write, rename, close; save, load, restore | VM modules, SD | failing operations and power cuts inside a save. A verified save is found again; nothing unsaved is given up; what was changed is saved |
| Desktop storage snapshot (`DesktopStorageCore.h`, `IOH/DesktopStorage.c`) | registers | refresh | C64 desktop | registers read while they are replaced |
| Firmware target, menu view (`DesktopFirmwareTarget.h`, `IOH/DesktopFirmwareTarget.c`, `IOH/DesktopMenuView.c`, `GeosDialog.s`) | captured update, its fingerprint, generation; visible window of a directory | discover, prepare, check, confirm, begin, cancel; scroll, select | update, C64 desktop | the selection moves and the file changes between capture and use; a cancel from the interrupt in the middle of each step. A guarded update writes what the dialog named and the user affirmed |
| Firmware update (`FlashUpdate.ino`, `Flash/`) | staging buffer, program flash | open, stage, verify, move, free | SD, USB, C64 messages | power cuts before, while and after the copy, leftovers of interrupted updates. The program is the old one or a whole image for this board; the C64's wait ends |
| File transfer, serial, TCP (`FileTransfer.ino`, `SerUSBIO.ino`, `RemoteControl.ino`, `ServiceTCP.ino`, `MeatloafComm.ino`) | current command, files | post, copy, delete, remote launch | PC, C64 menu | timeouts in the middle of a transfer, retries, a launch while the C64 asks for something else |
| Bus interrupt and cartridge handlers (`MB/Common/ISRs.c`, `IOH/IOH_EasyFlash.c`, ...) | bank registers | every bus cycle | C64 | cycle-exact timing |
| REU and DMA control (`IOH/IOH_REU.c`, `DMAControl.ino`) | DMA state | transfer | bus interrupt | foreground and interrupt share it |
| Swiftlink modem (`IOH/IOH_Swiftlink.c`, `Swift_*.c`) and its terminal (`C64/SimpSwiftTerm/source/*.asm`) | ACIA registers, receive queue, NMI line, connection; the terminal's ring, counters and flow control | register accesses, `PollingHndlr_SwiftLink`, AT commands, escape; main loop, `sw_CharOut`, NMI handler; browser | network, C64 | the status register changed from two sides, an NMI between any two steps, flow control from two places, queues at their limits. Bytes stay in order and arrive; a key is transmitted |
| Directories and disk images (`DriveDirLoad.ino`, `D64.ino`, `FileParsers.ino`) | current directory | load, launch | menu | sequential parsing |
| C64 menu registers (`IOH/IOH_TeensyROM.c`, `IOH/StatusFunctions.c`) | status register, settings | commands | C64 menu | commands overtaking each other |
| DOS redirector (`engine/native-dos/mpe5_redirector.cpp`, `mpe5_folder_fs.h`) | open file table with owners and modes, a library file per handle, searches | open, create, write, cut, close, remove, rename, exit, reset; search | DOS guest, SD | sharing rules, one file open twice, entries that are stale, handles of ended programs. What was saved stays, whichever handle is closed last; what is denied is not done |
| VM modules and cores (`vm/agi`, `vm/nes`, `vm/gb`, `vm/doom`) | emulated machines | pump, packet, ack, input | mailbox link | computation; only their contract with the host matters here |
| NFC, MIDI, SID; C64 programs; tools | | | | devices, user interfaces, builds |

`PROJECT.json` lists every component with its status, and the hazards with the line where each bites and the properties
that would catch it.

## 2. The modules

All modules share a style: one action per handler or per step between two points where another processor can
interfere; guards are the code's conditions and early returns; data is abstracted to what the properties distinguish.
Definitions commented *Seeded fault* are not part of a specification. Each is a plausible wrong version of the
definition after it; the property it breaks is named in `PROJECT.json`, which shows that the property can fail.

### NativeArena, NativeArenaProofs

The control block field by field. A call that is refused stutters. `issued` (history) remembers each view handed out
with the number of the transition after which it was: `StaleLeaseRejected` says that only views of the current
transition pass `MHSNativeArenaLeaseValid`, as long as fewer than a whole cycle of generations went by.

### VmMailbox, VmHost, VmClient, VmLink; PacketChannel; VmLinkProofs

`VmMailbox` has the registers and what a bus access may do: be misread (`Read`), be lost (`Lost`), or work. `Faults`
selects the kinds, `MaxFaults` bounds their number. `VmHost` is `VMHostPoll`, cut wherever the interrupt may run
(`hpc`), and the interrupt's latches; the module behind the ABI is external (it offers the next packet or none, takes
inputs, and may call `host->fail` in the callbacks named by `ModuleFails`). `VmClient` is the terminal, cut at its
mailbox accesses (`cpc`): status, commit, compare, copy of head and tail, CRC check, recheck, dispatch, acknowledge,
plus the held-input transaction and DOS's quiet recovery. `VmLink` composes the two.

A packet is its number (modulo `Window`) and its sequence byte (`1..SeqMax`). A copy is good exactly if both halves are
of one packet and no byte was misread: a CRC collision is ignored. `PacketChannel` is the abstract specification (send,
receive, release of one packet at a time); the refinement maps `full` to `InMailbox`, `received` to the number the
client applied last and `released` to the number whose `ack()` the module saw.

Modelling decisions: a misread status changes between Run and Quiet only (a misread to Error stops the client, by
design); one quiet poll stands for the 256 of the code; native replacement of an indexed picture only happens with no
frame outstanding, which is the modules' discipline (`vm/abi/README.md:73`).

### IndexedVideo, IndexedVideoProofs

`VMIndexedVideo.h` and the client's video code over a perfect `PacketChannel` (which `VmLink` proves to be there). A
picture is three regions; equal values are equal bytes. The host variables keep their names. `mem` is C64 memory,
`view` the client's state. `Init` chooses the session: with a workspace large enough for exact images (`delta`) and the
set of modes the user switches between, or without.

### DualBoot, DualBootProofs

The EEPROM cells `ind`, `name`, `magic`, `settings` and the record on SD; `todo` is the sequence of writes in progress,
one cell at a time, and `PowerLoss` may come between any two. A name is its first and its last part, so that a half
written name is neither the old nor the new one. The checks that reject a program are one nondeterministic failure;
where a remote launch falls back is likewise a choice (`ToMain`). `asked` and `leaving` are history. `LongNames` are the
programs whose path does not fit. The images treat one differently: the full image's string write (`NameWrites`) runs on
into the indicator; the minimal one's counts bytes modulo 256 and writes the beginning only (`LaunchWrites`), so that the
full image reads it with the end of the name before (`ReadName`).

### VmInput, AgiInput

The path of a key from the raster interrupt to the guest, for DOS (every event counts) and the NES (the newest state
counts), chosen by `vm`. The transaction itself (resending, acknowledging) is `VmLink`'s and is one step here. The Game
Boy has the NES's client (`vm/gb/build-client.mjs:22`), and its module queues as the NES's does (`vm/gb/gbvm.cpp:101`).

`AgiInput` is AGI's path, which has no ring: `AgiScan` is `sample_game_input` with the mouse (`Disarmed` until nothing is
held, then `Armed`), a mouse event waits as it was (`Frozen`) while keys go first, and a turn is `input` with what `pump`
makes of it: nothing while a packet is pending (`BusyTurn`), an event or the mouse's place for a game (`GameTurn`), all
events for the picker (`PickTurn`), the launch of a game (`LaunchTurn`), a full queue (`FullTurn`). The key is Return, the
joystick is Up and Fire, the mouse is in one of two places with a button up or down. `pressed`, `given`, `heldOver`,
`refired` and `moved` are history. Left out: letters (they repeat), modifiers, the second button, the mouse's probing
and filtering, the way in which Up and Down cancel each other.

### VmFiles, GbSaves, AgiSaves, DosFiles, MCVmGuest, MCVmSession; VmGuestProofs

`VmFiles` says what the services of `VMFiles.h` come to for a module that saves: what is in a file (nothing, torn bytes,
or a whole save with its version and sequence number), and when opening, writing, renaming succeed. Any operation may
fail while `troubles` last. Length and checksums are abstracted to the difference between `Torn` and `Whole`: a file that
was truncated and not synchronised is torn. A write seeks first. `SeekPastEnd` is the set
of what a seek beyond the end of a file may come to: the card's library accepts it, refuses it, or does either (section 5).

`GbSaves` is `BatteryStore` (`vm/gb/saves.h`) with its callers in `gbvm.cpp`: `loadPath` (`FireRom`, `LoadRom`,
`LoadFirst`, `LoadSecond`), `returnMenu` (`Leave`) and the checkpoint of `pump` (`Checkpoint`). `flush` is four steps on
the card (`FlushOpen`, `FlushWrite`, `FlushSync`, `FlushVerify`), and `Flushed` is what the caller does with its result.
The RAM holds a version, so that "older" and "newer" can be told; `kept` (the last verified version of each ROM) and
`overlooked` (ROMs of which a load took a good slot for none) are history. `AgiSaves` is a slot of `agivm.cpp`: `save`
step by step (`SaveOpen` ... `SaveUndo`), `restore` with its fallback; `agiKept` and `cuts` are history. Both have a power
cut between any two steps; a file being synchronised may be whole or torn after it.

`DosFiles` is drive D: of the DOS VM: the redirector's decision who may share a file (`SharingViolation`), and the folder's
file system, whose every handle is a file of the card's library. The library is external and is modelled by what matters
here: an open file keeps a copy of its directory entry (`entry`), and writes it back when it is synchronised and dirty.
`Opens` takes the first free handle; a created or replaced file is `Published` at once; a write and a cut synchronise
(`DosWrite`, `DosTruncate`); a process ends with `DosExit`, the drive with `DosReset`, everything with `DosPowerCut`.
`expected` (history) is what each file should hold, by the calls alone. A handle that changes a file which another handle
has changed since is stale (`staleWrite`): section 5 says what happens then, and the model follows a behaviour no further.
Left out: reading, duplicated handles, flushing (everything is synchronised already), operations that fail, searches,
directories, times, free space.

`MCVmGuest` composes them with `VmInput` and `AgiInput`: `vm` says which VM runs, and only one does; `followed` says
whether a behaviour follows its input, its saves or its files, which do not touch each other. `MCVmSession` adds the arena
an engine works in, for the run: `leased` says whether a behaviour follows that or the guest. Left out: the table of 24
handles, the picker's directory, the save picker's list (`saveInfo`).

### DesktopFiles, DesktopFilesProofs

The engine of `DesktopFileOpsCore.h` (`Copy` ... `Step`), `PollingHndlr_TeensyROM` and `DesktopFilePoll` as the loop
(`Handler`, `Poll`, `Publish`), the button (`ButtonReset`, then `C64Reset` 50 ms later, with the C64's program alive in
between), the interrupt's guard while the engine is locked (`Ask`, `Confirm`), and the dialog of `GeosFileOps.s`. `Poll`
and `Publish` are separate because the folder is read again between them while the registers still show the old state.
Every storage operation may fail. Devices may be ejected and inserted, files changed from outside, power may fail:
`MaxEvents` bounds these. What a chunk of a copy is worth (`whole`, `mixed`, `corrupt`) stands for the CRCs. `source`,
`copied`, `confirmed` and `left` are history; the model forgets what an ended operation leaves behind and nothing reads.
Assumed: a card is not taken out and put back between two polls, and a changed file has a new size or date (the code
compares dates in steps of two seconds).

### SwiftModem, SwiftTerm, SwiftTermProofs

`SwiftModem` is the Teensy's side: the bus interrupt's four register accesses (operators, since an access runs to
completion inside one bus cycle of the C64) and `PollingHndlr_SwiftLink`, cut where an access can fall between two of
its steps (`fpc`). The foreground's `SwiftRegStatus |= ...` is a read (`Load`) and a write (`StoreAs`): an access in
between is undone by the write. The bus interrupt has the highest priority, and the foreground may be held by the
network's and the timer's (`Teensy.ino:131`, `:360`), so any number of accesses may fall between two of its steps. Bytes
are numbered in the order they enter the queue, so that order is checkable; a response of several characters is one
byte. `SwiftTerm` is the terminal of `SST.asm` and `SSTSupport.asm`, one step per access to a register or to a variable
shared with its NMI handler, interrupt driven or polling (`mode`). An NMI is remembered (`latch`) and taken at an
instruction's end, possibly one step late. `lost` names what can go wrong: a status change undone, the ring overrun, a
byte announced and taken twice (`repeated`), an interrupt swallowed by `swwait`'s read. The first three (`Voided`) end
what the model follows, as the order of the bytes means nothing after them; a swallowed interrupt does not. Liveness is
asked only up to the first loss of any kind (`FairSpec`). The time of a byte passes at any moment (`BytePeriod`): at the
highest rates it is shorter than the NMI handler.

Left out: browser mode, the transmit interrupt (this terminal never enables it), baud rates, the keys F1, F2 and F4.

### FileTransfer, FirmwareUpdate, Upkeep, MCUpkeep; UpkeepProofs

`FileTransfer` is the drive and the computer's commands, cut where a power cut leaves an intermediate state. A file's
content is a whole image for this board, one for another board, a part, or nothing. `FirmwareUpdate` is the registers,
the handler of `DesktopFirmwareTarget.c` step by step (`hpc`) and the flasher; the C64 posts and cancels between any two
steps. `Discover` is one failure or success: why a discovery fails (no card, a directory that cannot be read, nothing
installed) makes no difference to what follows, and the media generation beside the fingerprint is left out. The
generation counter is asked one thing only, whether a cancel has come since a handler's snapshot, and
`cancelled` says that. A CRC is the content it was taken of. `leftover` counts the sectors above the program that an
interrupted update has left: `firmware_buffer_init` begins its buffer above them. `Upkeep` adds the C64's menu (the
desktop's dialog and the text menu's y/n), the loop with the computer's commands, the button and power cuts.

One message of the handler stands for a run of them. A user's key is not faster than the loop on its way from the
button to the C64's reset (`UserStep`). Left out: the answers to the computer, copying a file onto itself, the creation
of directories, the C64's own reset button, the menu's other requests and the launch of items that are no `.hex` file.

## 3. The runs

| Run | Question | Bounds |
|---|---|---|
| `link_faults` | Is the link a packet channel, and does it fall silent on failure, under every kind of fault, timeouts and failing modules? | `SeqMax` 2: the smallest number of sequence bytes that alternates, so any confusion of old and new shows; two faults |
| `link_live` | Do packets and inputs flow, after a fault too, and does a failure reach the C64's error screen? | one fault, `Rereads` 1, `Retries` 2, a module that may fail in `pump` or `packet` |
| `link_error_lost` | `ErrorLatched` with a module that fails inside `input` (violated, section 5) | no faults |
| `video` | Is the last frame shown, do both sides agree on the bank, does every frame complete? | two values per region; exact sessions with modes 1 and 3, plain sessions with mode 0 or 2; DMA may fail |
| `video_stale` | `ShownIsFrame` when modes 0 and 1 alternate with exact images (violated, section 5) | as above |
| `boot` | Is something launched that was not asked for? Are half written settings ever taken for valid? Does the button lead to the menu, does boot settle? | two big CRTs, one with a path too long for its field, a VM, another program, restoring of defaults; two power failures |
| `session` | Can a stale view of the arena pass for a lease? Is an event lost or reordered, does the guest see what is held? Does a save survive failures and power cuts, is unsaved data ever given up? Do the files of two DOS processes keep what was written, and hold their denials? | rings and queues of 2 (31 in the code, AGI's 127), 5 changes (4 of what AGI's user holds, `MaxUses`): enough to overfill the ring behind a transaction, or the module's queue behind an unread input; three versions to save, three operations that fail, a card library that accepts or refuses seeks beyond the end, any number of power cuts, a ROM with a battery and one without; two DOS processes, two files of one cluster, two handles, one write, and three modes: compatibility, to write with nothing denied, to read with writing denied; an arena of capacity 2 with three owners, two alignments, three bad requests, and a generation modulo 4 that wraps within the 5 transitions |
| `battery_never_saved` | `Checkpointed` with a library that refuses seeks beyond the end (violated, section 5) | no other failure, no fault of the card |
| `files` | Do copies and deletions keep their promises whenever they are cancelled, interrupted or outrun? | two devices, one name, an empty file and one of two chunks; one outside event |
| `modem` | Are bytes reordered, repeated or left out, interrupt driven or polling? Does every byte arrive and is a key transmitted, as long as nothing is lost? | queue of 2, ring of 5 with marks 4 and 1, one byte from the host (up to five with the modem's messages), one key, an escape of one `+`; a behaviour is followed up to its first loss |
| `upkeep` | Can anything but a whole and, when guarded, confirmed image be flashed? Does the C64's wait end? | two files, two images, two requests for an update, one command of the computer, one press or power cut; `Room` 3, so that one interrupted update leaves too little room for another |
| `upkeep_fallthrough` | `NeverFallsThrough` (violated, section 5) | as above |

**Why these bounds suffice.** The sequence test compares for equality only, so two values show every confusion that 255
can; the proof covers all widths. Two faults can hit a copy and its repetition, or a packet and its acknowledgement. A
ring of two has a full, an empty and a middle state. Three versions are a save, its successor in the other slot and one
that overwrites the first; three failures can hit a save, its repetition and a load. Two handles are one that keeps an
entry and one that changes the file. Of the three modes, two may be opened twice by anybody and compatibility by the
same process only; no two of them go together, so that each denial is tried. Two chunks can be of different versions of
a file. The ring of 5 has the marks where 200 and 50 of 256 lie, so that the signed comparisons take the same counts for
low and high: a count of 1 stops the flow, of 0 starts it; four bytes reach the high mark, and two that become one the
low one. One name suffices because copying keeps the name and folders are on different devices.

**Faults and properties.** `InputInOrder` is checked without `inputAckRead`: a misread input acknowledgement drops an
input, and nothing in the protocol can tell. A misread commit register (`commitRead` in `link_live`) can make the client
ask for quiet with nothing pending, which is never released (section 5): `PacketsFlow` and `InputsFlow`, which
`BothWaysFlow` joins, except that state, named `Held`. They excuse nothing else but a failed module. `Rereads` must
reach the number of faults that hit one packet: 1 against one fault, the code's 3 against three. In `modem`, `Delivered` and
`TransmitCompletes` except the four named losses, after the first of which the run follows no further, and `Deadlocked`, each
of which section 5 describes; at these bounds `Deadlocked` does not occur, with two bytes from the host it does. `RxInOrder`
is proved of more than the run follows: past a swallowed interrupt, too. `upkeep` excepts nothing but a board that power left
without a program.

**Fairness.** Each processor keeps running: weak fairness of the firmware's loop, of the client's loop, of the raster
interrupt and of the C64's dialog. Stronger assumptions are named where they are made:
- `VmLink`: strong fairness of `HostPacket`: a module that is asked again and again offers a packet at last. The
  modules send idle frame ends for this (`vm/agi/agivm.cpp:190`, `vm/dos/dosvm.cpp:474`, `vm/nes/session.h:484`).
- `IndexedVideo`: strong fairness of a slice that makes progress: not every border grant comes too late.
- `GbSaves` (`battery_never_saved`): a save, a load and a checkpoint that can go on do; none for the player and the power.
- `VmInput`: a turn in which the module is idle and the guest reads its input comes again and again. AGI's client scans
  between two packets, and its module sends idle frame ends for that (`vm/agi/agivm.cpp:190`).
- `DualBoot`: the user lets go of the button.
- `SwiftTerm`: the Teensy's loop, the C64's program and the byte clock go on; none for the user and the host.
- `Upkeep`: the loop, and those steps of the C64 that need no key; none for the user, the computer, the power.
- `DesktopFiles`: none beyond the loop and the dialog; users, media and power do as they like.

Deadlock is not checked where a bound ends the behaviour (`session`) or the system stops by design: a failed
link whose client shows its error screen, a program that runs until somebody presses the button.

## 4. The proofs

**Arena** (`NativeArenaProofs`, for every capacity, set of owners, generation width). The inductive invariant `IInv`
adds to the type invariant that the generation is ahead of each issued view by the number of transitions since, modulo
the number of generations, or that the view is at least a cycle old. `LeaseTypeOK` includes the code's own check of
the record, `MHSNativeArenaControlValid`. `DistanceStep` shows that skipping 0 keeps this;
`StaleLeaseRejected` follows because two generations less than a cycle apart differ.

**Link** (`VmLinkProofs`, for every `SeqMax > 1`, `Window > 2`, set and number of faults, bounds on retries, boot
results and failing callbacks). `ImplementsChannel` is not inductive: whether the client carries out the right packet
depends on what may be in its copy, in the mailbox and in the acknowledgement register. `LinkInv` says, part by part:
- `BootInv`: nothing is published before the start command;
- `TurnInv`: a turn that is going to publish has nothing pending;
- `AppliedInv`: the client is at most one packet ahead of the module;
- `AckInv`: the acknowledgement register equals the current sequence only if this packet was applied, or none is there;
- `SlotInv`: each half of the slot is of the current packet or of the one before;
- `StageInv`: a good copy is of the packet in the mailbox, or of the one before while the client has not gone further.

`LinkInit` and `LinkStep` prove it inductive: firmware steps are split by what they do to the data
(`SilentData`, `PacketData`, `HeadData`, `TailData`, `AckData`), client steps by the part they disturb (`StageClient`,
`AppliedClient`, `AckClient`). From it follow `LinkTypeOK`, `LinkPacketIsImmutable`, `LinkImplementsChannel` (each
action of the link is a step of the channel or a stutter) and `LinkSilentAfterFailure`. `LinkInv` was found with TLC on the
instance of `link_faults`.

`LinkInputInOrder` has an invariant of its own: an input is on its way in one of the latch, the foreground's copy and the
delivery at a time, and the acknowledgement register tells whether the client's input is the one accepted last
(`InputInv`). It is proved for every set of faults that leaves out a misread input acknowledgement, which loses an input
(section 3).

**Dual boot** (`DualBootProofs`, for any programs and any number of power failures). None of the properties is
inductive: the danger of a write lies in what an earlier power failure has left beside it. `BootInv` says where
everything stands. `Progress` lists the writes that may be left, per place, with what those before them have made
permanent: while a launch is committed (`Committing`), handed over (`Handing`) or sent by a terminal (`Sending`), the
indicator asks for nothing and the part of the name already written is the program asked for (`Sent` says what the
minimal image's write makes of a name, fitting or not); while the defaults are restored, the magic number comes after
complete settings. `IndInv` says that an indicator that asks for a launch finds record and name of the program asked
for, and `LeaveInv` that from the button on no indicator asks for anything until the menu. One lemma per kind of list
(`CommittingWrite`, `HandingWrite`, `SendingWrite`, `ClearingWrite`, `ReturningWrite`, `DefaultingWrite`) carries it
over a write, one per place over the processor's steps, `PowerStep` over a power failure. The lists of up to five writes
are joined by `JoinIs` and its instances. From it follow `BootTypeOK`, `BootLaunchesAsAsked`, `BootButtonEndsInMenu` and
`BootSettingsWhole`.

**File operations** (`DesktopFilesProofs`, for any devices, names, file sizes and number of outside events).
`NothingLeftOpen` and `TemporariesAccounted` need `BusyOwns`: a copy under way owns its temporary, and has closed it for
writing once it verifies. Without the second half the rename, which closes only the reader, would seem to leave the
writer open. `IInv` adds the types the sums rest on. The lemmas follow the code: `PasteStep`, `AbortStep`,
`CancelStep`, `EngineStep` for the engine, `CommandStep` for a command of the C64, `LoopStep`, `C64Step`, `PowerStep`.

`FilesOnlyWholeCopies` rests on the dates (`CopyInv`): no file is from the future, and as long as the source has the size
and date it had when it was pasted, everything copied is of it (`SourceKnown`); the engine compares them before it
verifies, and from then on the source no longer matters. `FilesDeletesWhatWasConfirmed` rests on the order of engine,
registers and dialog (`DeleteInv`): the registers name the file that is ready (`ReadyShown`), the loop takes no other
command while a dialog is drawn (`DialogQuiet`), so the dialog names it too (`DialogNames`), and a confirmation that will
be carried out is of that file (`ConfirmedReady`).

`TypeOK` (`FilesTypeOK`) is not inductive either: that the temporaries left on a device stay within `MaxEvents` rests on
where they come from. `LeftCounted` says that each was paid for by an event, and that a copy whose device is away has
paid for the one it will leave; `TemporariesAccounted` says whose the others are.

**Updates** (`UpkeepProofs`, for any files, images, size of the flash and bounds). `OnlyWholeImages` is not inductive:
that the move leaves a whole image behind rests on where the buffer begins and what was found in it. `StagingInv` adds
that nothing is staged before the buffer is open, that the buffer begins where the last interrupted update ended while it
is filled, verified and moved, and that a buffer which is moved holds a whole image. `IInv` is the three together, with the
types; `C64Keeps`, `LoopKeeps`, `TargetKeeps`, `FlashKeeps`, `FinishKeeps`, `RebootKeeps`, `PowerKeeps` and `PressKeeps`
carry it over the steps of each actor.

**Consent** (`UpkeepProofs`). `FlashesWhatWasConfirmed` relates the user's answer to what the flasher holds many
steps later, with a cancellation possible between any two. `ConsentInv` follows the answer along: `DialogInv` says where
the handler and the loop may be while the C64 waits, `CheckInv` that a target that is being checked is the one the dialog
names and that only a checked one is shown as ready, `ConfirmedInv` that a confirmed target belongs to the dialog that is
open, and `CarriedInv` that the job under way is what was agreed to, name and fingerprint.

**Battery saves** (`VmGuestProofs`, for any ROMs, versions and number of failures). `GbInv` has six parts besides the
types. `StoreInv`: a ROM is replaced over saved data only. `ActiveInv`: the active slot holds what was loaded or saved last,
whatever fails; `VerifyInv`: a copy that is read back is of what is in the RAM. `VersionInv`: versions grow. `OtherInv`: the
other slot holds an older save or one that was never verified, so that losing it loses nothing. `BatterySurvives` follows
because `flush` writes to the other slot only, `NeverDropsUnsaved` because data that is on no slot is dirty and a ROM is not
loaded over it.

**Save slots** (`VmGuestProofs`, likewise). `AgiInv` says that the temporary is the verified save while the files change
places (`TempInv`), and that since the last save that succeeded the save is in place, or is the backup while its successor
moves there (`PlaceInv`), or one replacement was cut short and `restore` finds it all the same. The lemmas go through
`SaveRemove`, `SaveBackup`, `SavePromote` and `SaveUndo`; no other step touches the two files.

**DOS files** (`VmGuestProofs`, for any files, processes, sharing modes, sizes and number of handles). `SavedStays`
compares what the card holds with what the calls asked for; between them are the entries that the open files keep.
`FilesInv` says, until a handle goes stale: an entry's size fits what is in its cluster (`EntriesFit`), no two files
share a cluster (`ClustersApart`), a handle that is not dirty has the directory's entry (`HandlesClean`), two handles of
one file whose modes conflict are of one process, both in compatibility mode (`SharedAsAgreed`), and each file is as
expected (`ContentsExpected`). A file that is created finds a free cluster because there are more clusters than files
(`EnoughClusters`, by the pigeonhole principle). `DosFilesDenied` follows from `SharedAsAgreed`, call by call.

**Input** (`VmGuestProofs`, for any sizes of ring and queue). `InputNothingLost` for DOS: the places an event passes are
one sequence (`InTransit`), and each step moves an event from one of them to the next without changing it; `InputInv`
adds that ring and queue hold events only, never the mark of an empty place. For AGI what is on its way is again one
sequence (`AgiTransit`), but a click may be overtaken by a key: keys and joystick go before the mouse. `AgiOrder`
therefore compares the clicks, the keys, and the keys with Fire, each apart (`Only`; `OnlyConcat` says that it goes
through concatenation). What the client sends is a change from what it has seen last, so order alone is not inductive:
`AgiSeen` says that what it has seen last is where the joystick and the button will be once all that is on its way has
been taken in, and `AgiPhases` what holds before the client arms and before a game is launched. A turn of the module
then gives the game exactly the changes, except Fire held over the launch (`refired`).

**The guest** (`VmGuestProofs`). `GuestInv` is the invariants of the five parts together with the count of failing
operations they share. The VM that runs takes a step of its part and leaves the others alone, so `GuestTypes`,
`GuestLosesNothing`, `GuestKeeps` and `GuestNeverDropsUnsaved` hold of the composition, and `GuestFiles` says that it
implements `DosFilesSpec`.

**Indexed video** (`IndexedVideoProofs`, for any frames, regions' values and sets of modes). `InStep` depends on every
byte that was said and not yet heard: `StepInv` says for each phase which packets may be in the channel and what the
client will make of them (`MailboxInv`, `PhaseInv`) and which bank the firmware takes for the shown one (`BankInv`).
`VideoShown` adds what is in C64 memory: what the firmware remembers of a bank is in it, to the byte (`ImageInv`), and
the regions that an upload has passed hold the new frame (`PaintInv`). It has a hypothesis, `ModesApart`: no exact
session mixes mode 0 with modes 1 and 2. The code does not see to that, and `video_stale` shows what happens then; the
sets of modes of the run `video` satisfy it.

**Modem and terminal** (`SwiftTermProofs`, for any sizes of queue and ring, marks and length of the session).
`RxInOrder` speaks of one step, from one byte shown to the next. `OrderInv` follows the numbers along the whole way: the
queue's cells, the register, the ring and the byte in hand hold consecutive numbers without a gap (`QueueInOrder`,
`RingInOrder`; `Appended` and `Removed` are the two lemmas on arrays used in a circle), and the register is written only
when the byte in it was read (`FullClear`). Polling, no interrupt is ever announced and the register is read when it is
full (`MainInv`, `PollInv`). Nothing bounds the number of accesses between two steps of the modem. That an NMI finds an
unread byte is therefore no invariant: an NMI handler that reads the register when it is empty has been announced a byte
twice, which is the loss `repeated`. `OrderInv` holds until a loss that concerns the order (`Voided`). `SwiftAccounted`
says of every such state that the bytes on the way are all that were queued and not shown.

The assumptions are the named `ASSUME`s of the modules. They say that the constants have their types, that there are
at least two sequence numbers, at least three packet numbers and a device, that a game not yet played is a version, that a
program is a CRT or a VM but not both, that there is a DOS process, and nothing else. Two theorems have a hypothesis of
their own: `LinkInputInOrder` and `VideoShown`.

## 5. Divergences between the code and what its text says

Shown by a run:
- **An error is lost** (`link_error_lost`, `MB/VMHostPoll.h:18`). A module that fails inside `input` or `ack` has its
  error status overwritten by the acknowledgement of the same turn; `vm/abi/README.md:75` says it remains latched.
- **A stale byte is shown** (`video_stale`, `MB/VMIndexedVideo.h:137`). A mode 0 frame writes its last cell bytes to
  colour RAM, but is remembered as the bank's exact image; a streamed frame skips bytes that were never written there.
- **A posted start outlives its target** (`upkeep_fallthrough`, `DriveDirLoad.ino:25`). The desktop's dialog confirms a
  target and the C64 posts the start. If a remote launch or the button sets up the main menu before the loop takes the
  start up, `DesktopFirmwareCancel` disarms the target, the start stays, and the same pass of the loop flashes the selected
  item by the unguarded path. The comment at line 32 says that this must never happen.
- **A battery is never saved** (`battery_never_saved`, `MB/Common/VMFiles.h:32`). A save is written at offset 20 of a file
  just truncated (`vm/gb/saves.h:52`), and `writeFile` seeks first. In the repository's own harness a seek beyond the end
  fails, as "FAT FsFile cannot seek beyond EOF" (`tests/mpe4-firmware-native-harness.cpp:231`, `:296`), and
  `mpe5_folder_fs.h:334` writes zeros to extend a file. With such a card library no save ever succeeds;
  `vms/GBVM/README.md:36` says that changed RAM is checkpointed.

Met while modelling, without a run of their own. For the first five TLC finds a counterexample as soon as the exception
named is dropped:
- **Quiet is never released** (`MB/VMHostPoll.h:29`). A misread commit register makes the DOS client write command 4
  (`dos_terminal.mjs:235`) with nothing pending; only an acknowledgement clears it (`MB/VMHostPoll.h:16`), and none is due.
  `vm/abi/README.md:82` says that it stops the module until the pending packet's acknowledgement. `BothWaysFlow` excepts
  this state (`Held`).
- **A terminal's long path is cut** (`MB/Min_SerUSBIO.ino:273`). The minimal image receives a path of up to
  `MaxNamePathLength` (358) and writes it with a length that is a `uint8_t` (`MB/MinimalBoot.ino:276`). If path and
  terminator are longer than 255 bytes only the beginning is written, the end of the name that was there before stays
  behind it, and the full image is told to launch what it reads. (At 255 bytes nothing of the path is written: the
  beginning is empty.) `LaunchesAsAsked` asks of such a launch only that the name begins with what was asked for.
- **Settings are mixed** (`Teensy.ino:473`). Restoring the defaults leaves the old magic number valid while it writes; after
  a power failure in the middle the next boot takes a mixture for valid settings. The comment says "set this last in case
  of power down". `SettingsWhole` says only that the number is written over complete defaults.
- **A verified save is overwritten** (`vm/gb/saves.h:15`). A slot that a load cannot open or read counts as absent. If it
  was the newest, the next save overwrites it; if it was the only one, a new game begins with sequence 1 and a later load
  prefers the old save. Line 2 says "never overwrite the last verified battery save", line 39 "Do not silently replace
  damaged existing saves". `BatterySurvives` leaves these ROMs out (`overlooked`).
- **Terminal and modem wait for each other** (`SSTSupport.asm:200`). Polling, the terminal waits in `swwait` for its key to
  be taken, while the modem waits in `FlushRxQueue` (`IOH/Swift_RxQueue.c:116`) for the terminal to take the queue.
  `SSTSupport.asm:109` says that the call blocks until the transmission is completed. `Delivered` and `TransmitCompletes`
  except this state (`Deadlocked`).
- A rejected autolaunch VM is tried for ever (`MB/MinimalBoot.ino:163`): MinimalBoot resets with the indicator cleared,
  the full image launches again. `VMRegistry.h:131` calls the launch one-shot. `BootSettles` excepts an autolaunched VM.
- The client writes its video timing to $FB, the error register (`MB/VMHost.h:135`; `vm/abi/README.md:74` gives it to
  the firmware), and a failure code set at boot can be replaced by it (`MB/VMHost.h:172`).
- The button in an autolaunched VM launches it again (`MB/MinimalBoot.ino:222`); the same exception.
- The full image writes a path of 256 bytes or more over the end of its EEPROM field (`FileParsers.ino:165`, whose
  `EEPwriteNBuf` has a `uint16_t` length). The indicator's own write follows, so the path has no terminator and the minimal
  image launches nothing. Paths whose last byte or terminator alone falls on the indicator are not told apart.
- An NES state that is applied live while older ones are queued is applied again (`vm/nes/nesvm.cpp:51`).
- An AGI save can be lost by two interruptions (`vm/agi/agivm.cpp:96`; so in `engine/native-game/mpe4_firmware.h:126`). The
  first, after the save was renamed, leaves only the backup; the next save removes the backup before its own file is in
  place. `mpe4_firmware.h` says "A power loss can always leave a verified backup". The verified temporary is still there,
  but `restore` reads the save and the backup only; `releases/native27/MHS-POWER-ENGINE.md` says that it validates the
  temporary too. `SlotSurvives` promises the first interruption only.
- A full DOS keyboard queue is a fatal error (`vm/dos/dosvm.cpp:550`), and so is AGI's (`vm/agi/agivm.cpp:160`); the
  properties of `session` hold up to it.
- `vms/AGIVM/README.md:42` says "held launch keys must be released before game input arms". The client arms once, in the
  picker; a launch makes the module forget the joystick (`vm/agi/agivm.cpp:130`) and tells the client nothing. Fire held
  over the launch is taken for a new press as soon as the stick moves, and a direction held over it steers only then.
  `AgiNothingLost` leaves that Fire out (`refired`), `AgiConverges` that direction (`heldOver`).
- Two handles of one DOS process on one file do not know of each other's changes (`mpe5_redirector.cpp:186` permits them).
  If one creates the file, the other writes to it and the first writes then, its entry (no cluster, size 0) replaces the
  other's, and what the other saved is lost. `vms/DOSVM/README.md:97` promises only that the first handle may be retained.
  `SavedStays` and `DenyHolds` hold up to there (`staleWrite`).
- A search remembers how many entries it has seen (`mpe5_redirector.cpp:278`). A program that deletes what it finds as it
  goes shifts the rest and skips a file; the redirector's own deletion by wildcard stays at its index (line 359).
- AGI's mouse is not remembered until the client is armed: a game is not told where it is until it moves again.
- A file command the C64 writes between `DesktopFileReset` and its own reset survives both (`rwRegStatus` is not
  cleared): a prepared deletion then locks the engine while the menu shows no dialog, until a file command opens it or
  the button is pressed again. `IOH/DesktopFileOps.c:117` says that the button discards it. Nothing is deleted without a
  confirmation (`DeletesWhatWasConfirmed`).
- A cancellation written while the folder is read again after a copy stays set until the next poll
  (`IOH/DesktopFileOps.c:109`) and would cancel a paste asked for within that loop.
- Interrupt driven, `swwait` reads the status register and so takes back an NMI that has not been served; the byte then
  waits for the next write of the command register.
- `swwait` also forces the flow control on, whatever the ring holds, so that the ring can be overrun while a key is sent.
- The one-byte counts are compared by sign (`SSTSupport.asm:182`, `:147`): a count of 1 to 71 looks "full", one of 178 or
  more looks "low".
- The main loop takes the flags of `cpx #50` for those of the byte when the ring is not low (`SSTSupport.asm:147`, `:158`,
  `SST.asm:79`): a byte whose removal leaves exactly 50 is taken for none and never printed.
  `SSTSupport.asm:136` says "or 0 if empty". `CheckLow` models it.
- The foreground's read-modify-write of `SwiftRegStatus` (`IOH/Swift_RxQueue.c:65`, `IOH/IOH_Swiftlink.c:593`) undoes a
  change the interrupt makes in between: a taken byte is announced again, or a key is transmitted late or never.
- Between `Swift_RxQueue.c:65` and `:72` the byte is in the register and not yet announced. If the C64's program enables its
  receive interrupt there, that write announces the byte (`IOH/IOH_Swiftlink.c:487`), the NMI handler takes it, and the
  modem's handler announces it once more: it is delivered twice (`repeated`), without any change being undone.
- A programmed reset of the modem leaves the NMI line as it is; a receive queue that is full drops bytes.
- A posted file that times out or fails its checksum stays on the drive in part (`FileTransfer.ino:117`), and posting it
  again is refused because it exists (`:51`). A write the card did not take is acknowledged all the same. Copying a file
  onto itself destroys it. After "Error getting storage device!" `DeleteFileCommand` goes on (`FileTransfer.ino:540`).
- `PollingHndlr_TeensyROM` ends by storing `rsReady` (`IOH/IOH_TeensyROM.c:1007`) over a request posted while it ran: the
  request is lost, its wait ends (`WaitsEnd`).
- `MainMenu.asm` near line 738 says that completed scans remain latched across a cancel; `DesktopFirmwareTarget.c:22`
  forgets them.
- The text menu's y/n may be answered for one file and start the update of another that a remote launch has selected
  meanwhile; that path has no guard.
- Each power cut while an update is staged shrinks the buffer of the next (`Flash/FlashTxx.c:51`), until an update is
  freed or succeeds: a board may refuse an image that fits.

## 6. Only model-checked, not modelled

Liveness and everything that depends on fairness (`BothWaysFlow`, `FailureReported`,
`FrameCompletes`, `BootSettles`, `GuestConverges`, `PasteEnds`, `Delivered`, `TransmitCompletes`, `WaitsEnd`) is
only model-checked: the prover has no rule for it. Every safety property of the passing runs is proved.

Not modelled: cycle-exact bus emulation (its difficulty is timing); emulator cores, pixel conversion, disk-image and
CRT parsing (sequential computation); hardware drivers; 6502 user interfaces beyond the dialogs of file operations and
updates and the terminal; the modem's browser; the TCP and Meatloaf front ends; the window of a directory on the desktop;
build tools and vendored code. Of modelled components: CRC collisions; Doom's input and what `AgiInput` leaves out;
the overflow counter of the NES ring, read twice while the interrupt may count (the firmware refuses the transaction
and the client resends); the checks that reject a program, one by one; the form of paths.

## 7. Plan

1. Done: arena, link, video, boot, input, file operations, modem and terminal, firmware target and update with file
   transfers, saves of the Game Boy and AGI, files of the DOS VM; proofs of every safety property of them.
2. Next, extend the model, in this order: the searches of the DOS redirector over the shared enumeration of a folder;
   the window of a directory on the desktop; the modem's browser mode.
3. Proofs: the refinements of the abstract specifications below.
4. Abstract specifications worth stating: a paste as one atomic step, implemented by the sliced one; a launch as a
   one-shot register, implemented by the EEPROM protocol; a save slot as one register that a save replaces atomically.
