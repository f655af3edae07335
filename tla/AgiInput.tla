-------------------------------- MODULE AgiInput -------------------------------
(***************************************************************************)
(* The input path of the AGI VM.  Its client (mpe4-keyboard.mjs,           *)
(* mpe4-mouse.mjs) has no ring: between two packets it scans the keyboard, *)
(* the joystick and the mouse and sends what has changed, one transaction  *)
(* at a time.  Key strokes are events; the joystick is a level, of which   *)
(* the module takes the presses of Fire; the mouse is a place, and its     *)
(* button makes events.  The module (agivm.cpp) is a game, or the picker   *)
(* from which one is launched.  The key is Return, which does not repeat;  *)
(* a direction of the joystick is "up".                                    *)
(***************************************************************************)
EXTENDS VmInput, FiniteSets

CONSTANT MaxUses \* bound: changes of what the user of AGI holds

ASSUME AgiInputAssumption == MaxUses \in 0..MaxEvents

VARIABLES
  pad, key, mouse,     \* what the user holds; where the mouse is
  armed,               \* nothing was held once
  lastPad, lastKey, lastMouse, \* what the client has seen last
  frozen,              \* the mouse event that waits behind a key
  sent, accepted,      \* the transaction; the firmware's latch
  launched,                \* a game runs, not the picker
  agiQueue,            \* Runtime.events
  joy, pointer, dirty, \* joy; pointerX, pointerY, pointerButtons; pointerDirty
  steered, pointed,    \* what the game was given: a direction, the mouse
  pressed, given,      \* history: the presses sent since the game began, and
                       \* those the game was given, in order
  heldOver, refired,   \* history: what was held at the launch and did not
                       \* change since; Fire of it was taken for a new press
  moved                \* history: the game was told of the mouse

agiUser == <<pad, key, mouse>>
agiClient == <<armed, lastPad, lastKey, lastMouse, frozen, sent>>
agiModule == <<launched, agiQueue, joy, pointer, dirty, steered, pointed>>
agiHistory == <<pressed, given, heldOver, refired, moved>>
agiInput == <<agiUser, agiClient, accepted, agiModule, agiHistory>>
shared == <<events, taken, failed>>
agiVars == <<agiInput, shared>>

Keys == {0, 1}
Pads == SUBSET {"up", "fire"}
Mice == [at : {0, 1}, button : BOOLEAN]
Still == [at |-> 0, button |-> FALSE]

Press(what) == [what |-> what, mouse |-> Still]
Click(m) == [what |-> "click", mouse |-> m]
Presses == {Press("key"), Press("fire")} \cup {Click(m) : m \in Mice}

\* A transaction: a key stroke, the joystick if it changed, or the mouse.
Transaction(k, changed, p, ms) == [key |-> k, joy |-> changed, pad |-> p, mice |-> ms]
Nothing == Transaction(0, FALSE, {}, {})
Transactions ==
  [key : Keys, pad : Pads, joy : BOOLEAN, mice : {{}} \cup {{m} : m \in Mice}]

AgiInputTypeOK ==
  /\ pad \in Pads /\ key \in Keys /\ mouse \in Mice
  /\ lastPad \in Pads /\ lastKey \in Keys /\ lastMouse \in Mice
  /\ frozen \in {{}} \cup {{m} : m \in Mice}
  /\ {sent, accepted} \subseteq Transactions
  /\ {armed, launched, dirty, refired, moved} \subseteq BOOLEAN
  /\ agiQueue \in Seq(Presses) /\ Len(agiQueue) <= QueueSize
  /\ {joy, steered, heldOver} \subseteq Pads /\ {pointer, pointed} \subseteq Mice
  /\ {pressed, given} \subseteq Seq(Presses)

AgiInputInit ==
  /\ pad \in Pads /\ key = 0 /\ mouse = Still
  /\ armed = FALSE /\ lastPad = {} /\ lastKey = 0 /\ lastMouse = Still
  /\ frozen = {} /\ sent = Nothing /\ accepted = Nothing
  /\ launched \in BOOLEAN /\ agiQueue = <<>>
  /\ joy = {} /\ pointer = Still /\ dirty = FALSE
  /\ steered = {} /\ pointed = Still
  /\ pressed = <<>> /\ given = <<>>
  /\ heldOver = {} /\ refired = FALSE /\ moved = FALSE

AgiChange ==
  /\ events < MaxUses /\ events' = events + 1
  /\ \/ pad' \in Pads \ {pad} /\ UNCHANGED <<key, mouse>>
     \/ key' \in Keys \ {key} /\ UNCHANGED <<pad, mouse>>
     \/ mouse' \in Mice \ {mouse} /\ UNCHANGED <<pad, key>>
  /\ UNCHANGED <<agiClient, accepted, agiModule, agiHistory, taken, failed>>

\* The presses a transaction stands for, where the joystick was p and the
\* mouse's button b before it.
Strokes(t, p) ==
  (IF t.key = 0 THEN <<>> ELSE <<Press("key")>>)
  \o (IF t.joy /\ "fire" \in t.pad \ p THEN <<Press("fire")>> ELSE <<>>)
Clicks(ms, b) ==
  IF \E m \in ms : m.button # b THEN <<Click(CHOOSE m \in ms : TRUE)>> ELSE <<>>

PadAfter(t, p) == IF t.joy THEN t.pad ELSE p
MouseAfter(ms, m) == IF ms = {} THEN m ELSE CHOOSE n \in ms : TRUE
--------------------------------------------------------------------------------
(* The client: sample_game_input.                                             *)

\* Up grounds the row of Return, and what is in a grounded column is not seen.
SeenKey == IF "up" \in pad THEN 0 ELSE key

\* While the joystick grounds rows, the mouse's buttons are not believed.
SeenMouse == [mouse EXCEPT !.button = IF pad # {} THEN lastMouse.button ELSE @]

\* Seeded fault of Frozen: the event that waits is brought up to date.
FrozenNewest == IF SeenMouse = lastMouse THEN frozen ELSE {SeenMouse}

\* One mouse event waits, as it was; until it is sent the mouse is not noticed.
Frozen == IF frozen # {} \/ SeenMouse = lastMouse THEN frozen ELSE {SeenMouse}
NoticeMouse == lastMouse' = MouseAfter(Frozen, lastMouse)

\* Until nothing is held, nothing is sent, and the mouse is not remembered.
Disarmed ==
  /\ ~armed /\ armed' = (SeenKey = 0 /\ pad = {} /\ ~SeenMouse.button)
  /\ frozen' = {} /\ sent' = Nothing
  /\ UNCHANGED <<lastPad, lastKey, pressed>>

\* Keys and joystick go before the mouse.
Armed ==
  LET first == Transaction(IF SeenKey # lastKey THEN SeenKey ELSE 0, pad # lastPad,
                           IF pad # lastPad THEN pad ELSE {}, {})
  IN
  /\ armed /\ UNCHANGED armed
  /\ lastPad' = pad /\ lastKey' = SeenKey
  /\ IF first # Nothing
     THEN sent' = first /\ frozen' = Frozen
     ELSE sent' = Transaction(0, FALSE, {}, Frozen) /\ frozen' = {}
  /\ pressed' = IF launched
                THEN pressed \o Strokes(first, lastPad) \o Clicks(Frozen, lastMouse.button)
                ELSE pressed

AgiScan ==
  /\ sent = Nothing \/ taken
  /\ Disarmed \/ Armed
  /\ NoticeMouse /\ taken' = FALSE
  /\ UNCHANGED <<agiUser, accepted, agiModule, given, heldOver, refired, moved,
                 events, failed>>

\* As for every VM.
AgiAccept ==
  /\ sent # Nothing /\ ~taken /\ accepted = Nothing
  /\ accepted' = sent /\ taken' = TRUE
  /\ UNCHANGED <<agiUser, agiClient, agiModule, agiHistory, events, failed>>
--------------------------------------------------------------------------------
(* A turn of the firmware's loop: the module's input, then its pump.          *)

\* In the picker the joystick is keys, Fire is Return, and Up goes before Fire.
Queuing ==
  IF launched THEN Strokes(accepted, joy) \o Clicks(accepted.mice, pointer.button)
  ELSE Strokes([accepted EXCEPT !.joy = FALSE], joy)
       \o (IF accepted.joy /\ accepted.pad \ joy = {"fire"} THEN <<Press("key")>> ELSE <<>>)
       \o Clicks(accepted.mice, pointer.button)
Waiting == agiQueue \o Queuing
JoyNow == PadAfter(accepted, joy)
DirtyNow == dirty \/ accepted.mice # {}

\* What input() leaves, unless the queue is full, and what history makes of it.
Takes ==
  /\ ~failed /\ Len(Waiting) <= QueueSize /\ UNCHANGED failed
  /\ accepted' = Nothing
  /\ pointer' = MouseAfter(accepted.mice, pointer)
  /\ UNCHANGED <<agiUser, agiClient, events, taken>>
Remembers ==
  /\ heldOver' = IF accepted.joy THEN {} ELSE heldOver
  /\ refired' = (refired \/ "fire" \in heldOver \cap accepted.pad)
  /\ moved' = (moved \/ (launched /\ accepted.mice # {}))
  /\ UNCHANGED pressed

\* The module has a packet that is not acknowledged, or a frame to send.
BusyTurn ==
  /\ Takes /\ Remembers
  /\ agiQueue' = Waiting /\ joy' = JoyNow /\ dirty' = DirtyNow
  /\ UNCHANGED <<launched, steered, pointed, given>>

\* A game is given one event in a cycle, or where the mouse is.
GameTurn ==
  /\ launched /\ Takes /\ Remembers
  /\ joy' = JoyNow /\ steered' = JoyNow \ {"fire"}
  /\ \/ /\ Waiting # <<>>
        /\ agiQueue' = Tail(Waiting) /\ given' = Append(given, Head(Waiting))
        /\ pointed' = IF Head(Waiting).what = "click" THEN Head(Waiting).mouse ELSE pointed
        /\ dirty' = DirtyNow
     \/ /\ Waiting = <<>>
        /\ pointed' = IF DirtyNow THEN pointer' ELSE pointed
        /\ dirty' = FALSE /\ UNCHANGED <<agiQueue, given>>
  /\ UNCHANGED launched

\* The picker takes all events, unless one launches a game.
PickTurn ==
  /\ ~launched /\ Takes /\ Remembers
  /\ agiQueue' = <<>> /\ joy' = JoyNow /\ dirty' = DirtyNow
  /\ UNCHANGED <<launched, steered, pointed, given>>

\* launch: what the module has queued and remembered is dropped.
LaunchTurn ==
  /\ ~launched /\ Takes
  /\ \E i \in DOMAIN Waiting : Waiting[i] = Press("key")
  /\ launched' = TRUE /\ agiQueue' = <<>> /\ joy' = {} /\ dirty' = FALSE
  /\ LET t == IF taken THEN Nothing ELSE sent IN
       pressed' = Strokes(t, JoyNow) \o Clicks(t.mice, pointer'.button)
                  \o Clicks(frozen, MouseAfter(t.mice, pointer').button)
  /\ heldOver' = JoyNow
  /\ UNCHANGED <<steered, pointed, given, refired, moved>>

\* host->fail
FullTurn ==
  /\ ~failed /\ Len(Waiting) > QueueSize /\ failed' = TRUE
  /\ accepted' = Nothing
  /\ UNCHANGED <<agiUser, agiClient, agiModule, agiHistory, events, taken>>

PumpedTurn == GameTurn \/ PickTurn \/ LaunchTurn \/ FullTurn

AgiInputNext ==
  AgiChange \/ AgiScan \/ AgiAccept \/ PumpedTurn \/ (GuestSlow /\ BusyTurn)

--------------------------------------------------------------------------------
\* The presses that the game will be given, in order.
UpTo(p) == IF heldOver # {} THEN heldOver ELSE p
AgiTransit ==
  LET t == IF taken THEN Nothing ELSE sent
      p == UpTo(joy)
      m == MouseAfter(accepted.mice, pointer)
  IN given \o agiQueue
     \o Strokes(accepted, p) \o Clicks(accepted.mice, pointer.button)
     \o Strokes(t, PadAfter(accepted, p)) \o Clicks(t.mice, m.button)
     \o Clicks(frozen, MouseAfter(t.mice, m).button)

\* What of the sequence s is in the set kinds, in its order: SelectSeq, without
\* its recursion.
Places(s, kinds) == {i \in DOMAIN s : s[i] \in kinds}
Only(s, kinds) ==
  LET places == Places(s, kinds)
  IN  [k \in 1..Cardinality(places) |->
         s[CHOOSE i \in places : Cardinality({j \in places : j <= i}) = k]]

Buttons == {Click(m) : m \in Mice}
Struck == {Press("key")} \cup (IF refired THEN {} ELSE {Press("fire")})

\* A key, a press of Fire and a press or release of the mouse's button that the
\* client has seen reach a game once and in order (vms/AGIVM/README.md:40), but
\* for Fire held since the game was launched (agivm.cpp:130).
AgiNothingLost ==
  launched /\ ~failed =>
    /\ Only(AgiTransit, Buttons) = Only(pressed, Buttons)
    /\ Only(AgiTransit, Struck) = Only(pressed, Struck)

\* When the user stops, the game steers as the joystick is held, unless it was
\* held since before the launch, and knows where the mouse is, if it was told of
\* it at all, and whether its button is held, as far as the client can tell.
AgiConverges ==
  <>[](launched /\ armed /\ ~failed =>
         /\ heldOver = {} => steered = pad \ {"fire"}
         /\ moved => pointed.at = mouse.at
         /\ moved /\ pad = {} => pointed.button = mouse.button)
================================================================================
