------------------------------ MODULE WinMouse ------------------------------
(***************************************************************************)
(* The mouse driver of Windows 3 (mousew16.c) on top of VBMOUSE: it is a   *)
(* client of int 33h, whose event handler it sets, and hands the events to *)
(* Windows, relative ones as the difference of two counts of mickeys.      *)
(*                                                                         *)
(* Enabling is cut at each of its calls of int 33h that change something,  *)
(* between which the mouse may move; while the driver is disabled, other   *)
(* programs use int 33h.                                                   *)
(***************************************************************************)
EXTENDS MouseMotion

CONSTANTS
  Enlarge,     \* 8 for x, 16 for y: range of coordinates to screen size
  Procs, NULL, \* event procedures of Windows
  Moves,       \* mickeys of a packet
  Across,      \* what the other axis adds to total_motion
  Points,      \* where the host may have its pointer, of 0 .. Word - 1
  Speeds, Thresholds, Positions, Windows,  \* arguments of int 33h
  MaxPackets,  \* bound: packets in all
  MaxSum       \* bound: squares of the movements in a second

ASSUME WinMouseAssumption ==
  /\ Enlarge \in Nat \ {0} /\ NULL \notin Procs
  /\ Moves \subseteq Int /\ Across \subseteq Nat
  /\ Speeds \subseteq Words /\ Thresholds \subseteq Nat
  /\ Points \subseteq 0 .. Word - 1 /\ Positions \subseteq Words
  /\ Windows \subseteq Words \X Words
  /\ MaxPackets \in Nat /\ MaxSum \in Nat

\* What Windows sets up, and a packet on top of it, is far from the end of a
\* word: 8 * 639 + 2 * 8 * 256 + 8 for x, 16 * 479 + 2 * 8 * 256 + 16 for y.
ASSUME RoomAssumption ==
  \A s \in Screens, x \in Moves \cup {0} :
    Enlarge * s.max + 2 * PerLine * Abs(x) + DefaultSpeed < Word \div 2

VARIABLES
  data,     \* the resident data of VBMOUSE
  fault,    \* a division raised interrupt 0, after which all may happen
  bios,     \* the video mode
  hooked,   \* the event handler is int33_mouse_callback
  win,      \* mousew16.c: at (where Enable is), proc (eventproc), prev
            \* (prev_delta_x), max (max_x)
  \* history
  trail,    \* at: the position in units of 1/speed pixels, nothing rounded;
            \* coarse: the speed was lowered since the last movement; wide:
            \* a movement led past the end of a word since the last edge
  quick,    \* sum: of the squares since a second has passed; odd: the last
            \* movement was not doubled as it should be
  windows,  \* proc: the procedure that Windows wants to be called; steady:
            \* the video mode has not changed since int33_reset in Enable
  heard,    \* what Windows heard of, see Silent
  packets   \* their number

winvars ==
  <<data, fault, bios, hooked, win, trail, quick, windows, heard, packets>>

Nowhere == [host |-> 0, told |-> 0, slack |-> 0]

\* point: where the host and Windows have the mouse, and how far this may be
\* apart.  since: what has changed the mickeys that Windows was not told of
\* ("again": the driver was enabled before; "gap": the mouse moved while it
\* was; "point": absolute events).  jump: how far the last relative movement
\* that Windows heard of was wrong, and cause: what since was then.
Silent == [point |-> Nowhere, since |-> {}, jump |-> 0, cause |-> {}]

Causes == {"again", "gap", "point"}

Wins == [at : {"off", "reset", "speed", "size", "window", "hook", "on"},
         proc : Procs \cup {NULL}, prev : Int, max : Nat]
Trails == [at : Int, coarse : BOOLEAN, wide : BOOLEAN]
Hearings == [point : [host : Int, told : Int, slack : Int],
             since : SUBSET Causes, jump : Int, cause : SUBSET Causes]

WinTypeOK ==
  /\ data \in Data /\ fault \in BOOLEAN
  /\ bios \in Screens /\ hooked \in BOOLEAN
  /\ win \in Wins /\ trail \in Trails
  /\ quick \in [sum : Nat, odd : BOOLEAN]
  /\ windows \in [proc : Procs \cup {NULL}, steady : BOOLEAN]
  /\ heard \in Hearings
  /\ packets \in 0 .. MaxPackets

WinInit ==
  /\ \E s \in Screens :
       /\ bios = s
       /\ data = [pos |-> 0, frac |-> 0, delta |-> 0, abs |-> NoPoint,
                  speed |-> DefaultSpeed, threshold |-> DefaultThreshold,
                  total |-> 0, min |-> 0, max |-> s.max, screen |-> s]
  /\ fault = FALSE /\ hooked = FALSE
  /\ win = [at |-> "off", proc |-> NULL, prev |-> 0, max |-> 0]
  /\ trail = [at |-> 0, coarse |-> FALSE, wide |-> FALSE]
  /\ quick = [sum |-> 0, odd |-> FALSE]
  /\ windows = [proc |-> NULL, steady |-> FALSE]
  /\ heard = Silent /\ packets = 0

\* History is as exact as the position when that is set.
Exact(d) == [at |-> d.pos * d.speed + d.frac, wide |-> FALSE,
             coarse |-> /\ d.frac # 0
                        /\ trail.coarse \/ Abs(d.speed) < Abs(data.speed)]

-----------------------------------------------------------------------------
(* Events *)

\* Mutant: the wrong events are remembered.
CallbackMutant(d, absolute) ==
  IF absolute THEN [win EXCEPT !.prev = d.delta] ELSE win

\* int33_mouse_callback: what is remembered ...
Callback(d, absolute) ==
  IF absolute THEN win ELSE [win EXCEPT !.prev = d.delta]

\* ... and what Windows is told of a relative ...
Difference(d) == Signed(d.delta - win.prev)

\* ... and of an absolute event: the position in 0 .. Word - 1.
Told(d) == Scaled(Clip(Snapped(d, d.pos), 0, win.max), win.max, Word - 1)

\* The driver rounds to pixels and to the grid of the video mode.
Slack == (data.screen.grid * (Word - 1)) \div win.max + 1

\* A relative event by step mickeys.
HearMove(d, step) ==
  IF hooked
    THEN heard' = [heard EXCEPT !.jump = Signed(Difference(d) - step),
                                !.cause = heard.since, !.since = {}]
    ELSE heard' = [heard EXCEPT !.since = IF win.at \in {"off", "reset"} THEN @
                                          ELSE @ \cup {"gap"}]

\* An absolute event for a host that points to v.
HearPoint(d, v) ==
  IF hooked
    THEN heard' = [heard EXCEPT
           !.since = IF d.delta = data.delta THEN @ ELSE @ \cup {"point"},
           !.point = IF windows.steady
                       THEN [host |-> v, told |-> Told(d), slack |-> Slack]
                       ELSE Nowhere]
    ELSE heard' = [heard EXCEPT
           !.since = IF win.at \in {"off", "reset"} \/ d.delta = data.delta
                       THEN @ ELSE @ \cup {"gap"}]

\* Where a movement by step mickeys leads to, before it becomes a word
Target(step) == data.pos + Quotient(Dividend(data, step), data.speed)

\* total_motion against the sum of squares that it stands for
Sum(x, across, second) == (IF second THEN 0 ELSE quick.sum) + x * x + across

Quicker(x, across, second) ==
  LET sum == Sum(x, across, second)
      bound == data.threshold * data.threshold
  IN  [sum |-> sum,
       odd |-> /\ sum < Word /\ bound < Word
               /\ Fast(data, Motion(data, x, across, second)) # (sum > bound)]

\* A packet of a mouse that was moved, or that has other news if x and across
\* are 0.
Move(x, across, second) ==
  LET d == Relative(data, x, across, second)
      step == Mickeys(data, x, across, second)
      still == x = 0 /\ across = 0
      edge == d.pos \in {d.min, d.max}
  IN  /\ still \/ Divides(data, step)
      /\ Sum(x, across, second) <= MaxSum
      /\ packets < MaxPackets /\ packets' = packets + 1
      /\ data' = d
      /\ trail' = IF still THEN trail
                  ELSE [at |-> IF edge THEN Exact(d).at
                               ELSE trail.at + PerLine * step,
                        coarse |-> FALSE,
                        wide |-> \/ Target(step) \notin Words
                                 \/ trail.wide /\ ~edge]
      /\ quick' = IF still THEN quick ELSE Quicker(x, across, second)
      /\ HearMove(d, step)
      /\ win' = IF hooked THEN Callback(d, FALSE) ELSE win
      /\ UNCHANGED <<fault, bios, hooked, windows>>

\* A packet for which the processor cannot divide: handle_mouse_event does not
\* come to its end.
Fault(x, across, second) ==
  /\ ~(x = 0 /\ across = 0)
  /\ ~Divides(data, Mickeys(data, x, across, second))
  /\ Sum(x, across, second) <= MaxSum
  /\ packets < MaxPackets /\ packets' = packets + 1
  /\ data' = Tallied(data, x, across, second) /\ fault' = TRUE
  /\ quick' = Quicker(x, across, second)
  /\ UNCHANGED <<bios, hooked, win, trail, windows, heard>>

\* A packet while the host points to v.
Point(v, other) ==
  LET d == Refresh(data, bios)
      e == Absolute(d, Pixels(d, v), other)
  IN  /\ packets < MaxPackets /\ packets' = packets + 1
      /\ data' = e /\ trail' = Exact(e)
      /\ HearPoint(e, v)
      /\ win' = IF hooked THEN Callback(e, TRUE) ELSE win
      /\ UNCHANGED <<fault, bios, hooked, quick, windows>>

-----------------------------------------------------------------------------
(* Other programs, while Windows has not enabled its driver *)

Call(d) ==
  /\ win.at = "off"
  /\ data' = d /\ trail' = Exact(d)
  /\ UNCHANGED <<fault, bios, hooked, win, quick, windows, heard, packets>>

Other ==
  \/ Call(ResetMotion(data, bios))
  \/ \E p \in Positions : Call(SetPosition(data, p))
  \/ \E w \in Windows : Call(SetWindow(data, bios, w[1], w[2]))
  \/ Call(GetMotion(data))
  \/ \E speed \in Speeds, threshold \in Thresholds :
       Call(SetSensitivity(data, speed, threshold))

\* Programs and Windows change the video mode.
SetMode(s) ==
  /\ s # bios /\ bios' = s
  /\ windows' = [windows EXCEPT !.steady = FALSE]
  /\ UNCHANGED <<data, fault, hooked, win, trail, quick, heard, packets>>

-----------------------------------------------------------------------------
(* Windows *)

\* Enable: the procedure is stored at once, and nothing else is done by a driver
\* that is enabled.
Enable(proc) ==
  /\ win.at \in {"off", "on"}
  /\ win' = [win EXCEPT !.proc = proc, !.at = IF @ = "off" THEN "reset" ELSE @]
  /\ windows' = [windows EXCEPT !.proc = proc]
  /\ UNCHANGED <<data, fault, bios, hooked, trail, quick, heard, packets>>

\* Enable: int33_reset
EnableReset ==
  LET d == ResetMotion(data, bios)
  IN  /\ win.at = "reset"
      /\ data' = d /\ hooked' = FALSE /\ trail' = Exact(d)
      /\ win' = [win EXCEPT !.at = "speed"]
      /\ windows' = [windows EXCEPT !.steady = TRUE]
      /\ heard' = [heard EXCEPT !.since = IF win.prev = 0 THEN {} ELSE {"again"}]
      /\ UNCHANGED <<fault, bios, quick, packets>>

\* Enable: int33_set_mouse_speed
EnableSpeed ==
  LET d == SetSensitivity(data, 1, data.threshold)
  IN  /\ win.at = "speed" /\ win' = [win EXCEPT !.at = "size"]
      /\ data' = d /\ trail' = Exact(d)
      /\ UNCHANGED <<fault, bios, hooked, quick, windows, heard, packets>>

\* Enable: int33_get_max_coordinates
EnableSize ==
  /\ win.at = "size"
  /\ win' = [win EXCEPT !.max = MaxCoordinate(data) * Enlarge, !.at = "window"]
  /\ UNCHANGED <<data, fault, bios, hooked, trail, quick, windows, heard,
                 packets>>

\* Mutant: the window stays as it was found.
EnableWindowMutant ==
  /\ win.at = "window" /\ win' = [win EXCEPT !.at = "hook"]
  /\ UNCHANGED <<data, fault, bios, hooked, trail, quick, windows, heard,
                 packets>>

\* Enable: int33_set_horizontal_window or int33_set_vertical_window
EnableWindow ==
  LET d == SetWindow(data, bios, 0, win.max)
  IN  /\ win.at = "window" /\ win' = [win EXCEPT !.at = "hook"]
      /\ data' = d /\ trail' = Exact(d)
      /\ UNCHANGED <<fault, bios, hooked, quick, windows, heard, packets>>

\* Enable: int33_set_event_handler
EnableHook ==
  /\ win.at = "hook"
  /\ hooked' = TRUE /\ win' = [win EXCEPT !.at = "on"]
  /\ UNCHANGED <<data, fault, bios, trail, quick, windows, heard, packets>>

\* Mutant: the driver stays hooked.
DisableMutant ==
  /\ win.at = "on"
  /\ win' = [win EXCEPT !.at = "off"]
  /\ windows' = [windows EXCEPT !.proc = NULL]
  /\ heard' = [heard EXCEPT !.point = Nowhere]
  /\ UNCHANGED <<data, fault, bios, hooked, trail, quick, packets>>

\* Disable, after which Windows may discard its procedure
Disable ==
  LET d == ResetMotion(data, bios)
  IN  /\ win.at = "on"
      /\ data' = d /\ trail' = Exact(d) /\ hooked' = FALSE
      /\ win' = [win EXCEPT !.at = "off"]
      /\ windows' = [windows EXCEPT !.proc = NULL]
      /\ heard' = [heard EXCEPT !.point = Nowhere]
      /\ UNCHANGED <<fault, bios, quick, packets>>

Steps ==
  \/ \E x \in Moves, across \in Across, second \in BOOLEAN :
       Move(x, across, second) \/ Fault(x, across, second)
  \/ \E v \in Points, other \in BOOLEAN : Point(v, other)
  \/ Other
  \/ \E s \in Screens : SetMode(s)
  \/ \E proc \in Procs : Enable(proc)
  \/ EnableReset \/ EnableSpeed \/ EnableSize \/ EnableWindow \/ EnableHook
  \/ Disable

\* After the interrupt 0 nothing more is said of the driver.
WinNext == (~fault /\ Steps) \/ (fault /\ UNCHANGED winvars)

WinSpec == WinInit /\ [][WinNext]_winvars

-----------------------------------------------------------------------------
(* Properties *)

\* Nothing of a movement is lost in rounding (mousetsr.c:642-644, utils.h:76-90):
\* between edges the position and the remainder are exactly what the mouse was
\* moved by, and the remainder is less than a pixel, unless the speed was
\* lowered, which makes pixels of it, or the position, a word, wrapped around
\* (mousetsr.h:74-76).  Neither that nor a fault of the division happens while
\* Windows uses the driver, whatever speeds and windows were set before.
PointerFollows ==
  /\ trail.wide \/ data.pos * data.speed + data.frac = trail.at
  /\ trail.coarse \/ data.frac = 0 \/ Abs(data.frac) < Abs(data.speed)
  /\ win.at \in {"off", "reset"} \/ ~(fault \/ trail.wide)

\* "If more than the double speed threshold has been moved in the last second,
\* double the speed" (mousetsr.c:627-628): so it is whenever the squares of the
\* threshold and of the movement fit in a word.
DoublesWhenFast == ~quick.odd

\* The relative movements that Windows is told of are those of the mouse
\* (mousew16.c:191-198), but for the first one after the driver was enabled for
\* a second time, after movement that came while it was being enabled, and
\* after absolute events, for which the driver makes up mickeys.
WindowsFollows == heard.cause = {} => heard.jump = 0

\* As long as the video mode stays, Windows has the mouse where the host has it
\* (mousew16.c:280-297): the window that Enable sets is the range it scales by.
PointsWhereHostPoints ==
  heard.point.host - heard.point.told \in 0 .. heard.point.slack

\* An event leads to the procedure that Windows gave last, and never to one that
\* it took back with Disable (mousew16.c:257-260, 306-312).
CallsAreWelcome ==
  hooked => win.at = "on" /\ win.proc = windows.proc /\ windows.proc # NULL

=============================================================================
