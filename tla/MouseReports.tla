---------------------------- MODULE MouseReports ----------------------------
(***************************************************************************)
(* What VBMOUSE reports of buttons and of the wheel (mousetsr.c): counters *)
(* that programs ask for and that start again when they do, events for a   *)
(* handler that a program has set, and key strokes for the wheel.          *)
(*                                                                         *)
(* A mouse packet, an int 33h function and a command of VBMOUSE.EXE are    *)
(* one step; the handler is called last of all, so what it calls is a step *)
(* of its own.  Positions, which other modules have, are left out.         *)
(***************************************************************************)
EXTENDS Integers, FiniteSets

CONSTANTS
  NumButtons,  \* NUM_BUTTONS
  WHEEL,       \* asked for instead of a button: BX = -1
  MaxCount,    \* bound: presses or releases that nobody asked for yet
  MaxWheel,    \* bound: movement of the wheel that nobody asked for yet
  Habits       \* see AllHabits

(***************************************************************************)
(* What programs may do with a wheel mouse:                                *)
(*  wheel_query  ask for the wheel by the functions for buttons            *)
(*  late_query   ask for a button when the wheel was moved and not asked   *)
(*               for                                                       *)
(***************************************************************************)
AllHabits == {"wheel_query", "late_query"}

ASSUME MouseReportsAssumption ==
  /\ NumButtons \in Nat \ {0} /\ WHEEL \notin Nat
  /\ MaxCount \in Nat /\ MaxWheel \in 0 .. 127
  /\ Habits \subseteq AllHabits

Buttons == 0 .. NumButtons - 1
Kinds == {"press", "release"}
Wheel == <<"wheel", WHEEL>>
Events == (Kinds \X Buttons) \cup {Wheel}

VARIABLES
  buttons,   \* data.buttons: those that are down
  counts,    \* data.button[]: pressed.count and released.count of each
  wheel,     \* data: wheel_delta, haswheel, usewheel, usewheelapi, and key:
             \* wheel_up_key and wheel_down_key are set
  mask,      \* event_mask of the event handler, {} when there is none
  due,       \* history: what counts and wheel_delta should be
  told       \* history: the buttons that are down as the handler knows it

vars == <<buttons, counts, wheel, mask, due, told>>

Counts == [Kinds -> [Buttons -> 0 .. MaxCount]]

TypeOK ==
  /\ buttons \subseteq Buttons
  /\ counts \in Counts
  /\ wheel \in [delta : -MaxWheel .. MaxWheel, has : BOOLEAN, use : BOOLEAN,
                api : BOOLEAN, key : BOOLEAN]
  /\ wheel.has => wheel.use
  /\ mask \subseteq Events
  /\ due \in [counts : Counts, delta : -MaxWheel .. MaxWheel]
  /\ told \subseteq Buttons

None == [b \in Buttons |-> 0]
NoCounts == [kind \in Kinds |-> None]

Init ==
  /\ buttons = {} /\ counts = NoCounts /\ mask = {} /\ told = {}
  /\ \E has \in BOOLEAN :
       wheel = [delta |-> 0, has |-> has, use |-> TRUE,
                api |-> FALSE, key |-> FALSE]
  /\ due = [counts |-> NoCounts, delta |-> 0]

-----------------------------------------------------------------------------
(* Packets *)

Plus(f, S) == [b \in Buttons |-> IF b \in S THEN f[b] + 1 ELSE f[b]]

CountsWith(c, pressed, released) ==
  [kind \in Kinds |->
     Plus(c[kind], IF kind = "press" THEN pressed ELSE released)]

\* The movement z that is counted: without a wheel there is none, and it may be
\* typed as key strokes instead.
Counted(z) ==
  IF wheel.has /\ (wheel.api \/ ~wheel.key) THEN z ELSE 0

Pressed(b) == b \ buttons
Released(b) == buttons \ b

\* Mutant: several buttons that change at once are one event.
HappenedMutant(b, z) ==
  IF Pressed(b) # {}
    THEN {"press"} \X Pressed(b)
    ELSE ({"release"} \X Released(b))
           \cup IF Counted(z) # 0 THEN {Wheel} ELSE {}

Happened(b, z) ==
  ({"press"} \X Pressed(b)) \cup ({"release"} \X Released(b))
    \cup IF Counted(z) # 0 THEN {Wheel} ELSE {}

\* handle_mouse_event: the buttons in b are down, the wheel was moved by z.  The
\* handler is called when an event is in its mask, and gets all the buttons.
Packet(b, z) ==
  LET c == CountsWith(counts, Pressed(b), Released(b))
      delta == wheel.delta + Counted(z)
  IN  /\ c \in Counts /\ delta \in -MaxWheel .. MaxWheel
      /\ counts' = c
      /\ wheel' = [wheel EXCEPT !.delta = delta]
      /\ buttons' = b
      /\ told' = IF Happened(b, z) \cap mask # {} THEN b ELSE told
      /\ due' = [counts |-> CountsWith(due.counts, b \ buttons, buttons \ b),
                 delta |-> due.delta + Counted(z)]
      /\ UNCHANGED mask

-----------------------------------------------------------------------------
(* int 33h *)

\* Mutant: the counters survive.
ResetStateMutant ==
  /\ buttons' = {} /\ UNCHANGED counts
  /\ due' = [counts |-> NoCounts, delta |-> 0]

\* reset_mouse_state, but for the wheel.
ResetState ==
  /\ buttons' = {} /\ counts' = NoCounts
  /\ due' = [counts |-> NoCounts, delta |-> 0]

\* INT33_RESET_MOUSE and INT33_RESET_SETTINGS, which does not look for a wheel.
Reset ==
  /\ \E has \in {wheel.has, wheel.use, FALSE} :
       wheel' = [wheel EXCEPT !.api = FALSE, !.has = has, !.delta = 0]
  /\ mask' = {} /\ told' = {}
  /\ ResetState

\* INT33_GET_MOUSE_POSITION has the wheel in BH.
GetPosition ==
  /\ wheel.has
  /\ wheel' = [wheel EXCEPT !.delta = 0]
  /\ due' = [due EXCEPT !.delta = 0]
  /\ UNCHANGED <<buttons, counts, mask, told>>

\* What is in BX, the button or WHEEL, when it is looked at: its upper half has
\* been replaced by wheel_delta, where there is a wheel.  What is no button is
\* the last one.
Answered(asked) ==
  CASE ~wheel.has /\ asked # WHEEL -> asked
    [] wheel.has /\ asked # WHEEL /\ wheel.delta = 0 -> asked
    [] wheel.has /\ asked = WHEEL /\ wheel.delta = -1 -> WHEEL
    [] OTHER -> NumButtons - 1

MayAsk(asked) ==
  /\ asked = WHEEL => wheel.has /\ wheel.api /\ "wheel_query" \in Habits
  /\ wheel.has /\ wheel.delta # 0 /\ asked # WHEEL => "late_query" \in Habits

\* INT33_GET_BUTTON_PRESSED_COUNTER, INT33_GET_BUTTON_RELEASED_COUNTER.
GetCounter(kind, asked) ==
  LET hit == Answered(asked)
  IN  /\ MayAsk(asked)
      /\ IF hit = WHEEL
           THEN wheel' = [wheel EXCEPT !.delta = 0] /\ UNCHANGED counts
           ELSE counts' = [counts EXCEPT ![kind][hit] = 0] /\ UNCHANGED wheel
      /\ due' = IF asked = WHEEL
                  THEN [due EXCEPT !.delta = 0]
                  ELSE [due EXCEPT !.counts[kind][asked] = 0]
      /\ UNCHANGED <<buttons, mask, told>>

\* INT33_SET_EVENT_HANDLER, INT33_EXCHANGE_EVENT_HANDLER, by a program that has
\* asked which buttons are down.
SetHandler(m) ==
  /\ mask' = m /\ told' = buttons
  /\ UNCHANGED <<buttons, counts, wheel, due>>

\* INT33_GET_CAPABILITIES.
GetCapabilities ==
  /\ wheel' = [wheel EXCEPT !.api = TRUE]
  /\ UNCHANGED <<buttons, counts, mask, due, told>>

-----------------------------------------------------------------------------
(* VBMOUSE.EXE *)

\* set_wheel
SetWheel(enable) ==
  /\ \E found \in BOOLEAN :
       wheel' = [wheel EXCEPT !.use = enable, !.has = enable /\ found]
  /\ UNCHANGED <<buttons, counts, mask, due, told>>

\* set_wheel_key, which has both keys or none
SetWheelKey(key) ==
  /\ wheel.use /\ wheel.has
  /\ wheel' = [wheel EXCEPT !.key = key]
  /\ UNCHANGED <<buttons, counts, mask, due, told>>

Next ==
  \/ \E b \in SUBSET Buttons, z \in {-1, 0, 1} : Packet(b, z)
  \/ Reset \/ GetPosition \/ GetCapabilities
  \/ \E kind \in Kinds, asked \in Buttons \cup {WHEEL} :
       GetCounter(kind, asked)
  \/ \E m \in SUBSET Events : SetHandler(m)
  \/ \E enable \in BOOLEAN : SetWheel(enable) \/ SetWheelKey(enable)

Spec == Init /\ [][Next]_vars

-----------------------------------------------------------------------------
(* Properties *)

\* Each press and release is reported once, to the program that asks for that
\* button, and the wheel once, if it was not typed (int33.h:43-56): what nobody
\* asked for is still there, and what was asked for is gone.
ReportsAreDue == counts = due.counts /\ wheel.delta = due.delta

\* A handler that is told of the presses and releases of a button always knows
\* whether it is down, although several may change in one packet
\* (mousetsr.c:674-704).
HandlerKnows ==
  \A b \in Buttons :
    {<<"press", b>>, <<"release", b>>} \subseteq mask =>
      (b \in told <=> b \in buttons)

=============================================================================
