---------------------------- MODULE MouseMotion ----------------------------
(***************************************************************************)
(* The movement that VBMOUSE keeps (mousetsr.c): a position in pixels with *)
(* the part of a pixel that is left over, the mickeys that nobody asked    *)
(* for, the window, and the speed.  The operators map the resident data    *)
(* (data in the code) to what each function makes of it; WinMouse has the  *)
(* steps.  One axis is kept: the other is treated alike and meets it in    *)
(* the double-speed test alone.                                            *)
(***************************************************************************)
EXTENDS Integers

CONSTANTS
  Word,              \* 2^16: int and unsigned have 16 bits
  PerLine,           \* 8: speeds are in mickeys for 8 pixels
  DefaultSpeed,      \* 8 for x, 16 for y
  DefaultThreshold,  \* 64
  Screens            \* video modes that the driver knows, as their last
                     \* coordinate and the size of the grid for positions

ASSUME MouseMotionAssumption ==
  /\ Word \in Nat /\ Word > 2 /\ Word % 2 = 0
  /\ {PerLine, DefaultSpeed, DefaultThreshold} \subseteq Nat \ {0}
  /\ DefaultSpeed < Word \div 2
  /\ Screens \subseteq [max : 1 .. (Word \div 2) - 1, grid : Nat \ {0}]

NoPoint == -1  \* abs_pos when there is none

\* 16-bit numbers
Words == -(Word \div 2) .. (Word \div 2) - 1
Unsigned(n) == n % Word
Signed(n) == ((n + Word \div 2) % Word) - Word \div 2

\* The resident data: position, remainder, mickeys, position of the last
\* absolute event, speed, threshold, squares of a second, window, video mode.
\* Programs store any word as the speed, 0 and negative ones too.
Data == [pos : Words, frac : Words, delta : Words, abs : Words, speed : Words,
         threshold : Nat, total : Nat, min : Words, max : Words,
         screen : Screens]

Larger(a, b) == IF a > b THEN a ELSE b
Clip(n, low, high) == LET up == IF n < low THEN low ELSE n
                      IN  IF up > high THEN high ELSE up

Abs(n) == IF n < 0 THEN -n ELSE n

\* The quotient and the remainder of IDIV, which rounds towards 0.
Quotient(n, d) == LET q == Abs(n) \div Abs(d)
                  IN  IF n < 0 <=> d < 0 THEN q ELSE -q
Remainder(n, d) == n - d * Quotient(n, d)

\* scaleu: n of 0 .. from, in 0 .. to
Scaled(n, from, to) == (n * to) \div from

-----------------------------------------------------------------------------
(* Packets *)

\* bound_position_to_window, which goes by min first
InWindow(d) == [d EXCEPT !.pos = Clip(@, d.min, d.max)]

\* Mutant: a second that has passed does not count.
MotionMutant(d, x, across, second) == Unsigned(d.total + x * x + across)

\* total_motion after a movement; second: one has passed since it was 0.
Motion(d, x, across, second) ==
  Unsigned((IF second THEN 0 ELSE d.total) + x * x + across)

\* Is a movement doubled?  Both sides are products of 16-bit numbers.
Fast(d, total) == total > Unsigned(d.threshold * d.threshold)

Mickeys(d, x, across, second) ==
  IF Fast(d, Motion(d, x, across, second)) THEN 2 * x ELSE x

\* A movement by x mickeys is counted, doubled where it is.
Tallied(d, x, across, second) ==
  [d EXCEPT !.total = Motion(d, x, across, second), !.abs = NoPoint,
            !.delta = Signed(@ + Mickeys(d, x, across, second))]

\* scalei_rem divides x mickeys and what was left by the speed, where IDIV can:
\* by 0, or for a quotient that is not a word, it raises interrupt 0.
Dividend(d, x) == PerLine * x + d.frac
Divides(d, x) == d.speed # 0 /\ Quotient(Dividend(d, x), d.speed) \in Words

\* Mutant: what is left of a movement starts again from 0.
StepMutant(d, x) ==
  InWindow([d EXCEPT !.pos = Signed(@ + Quotient(PerLine * x, d.speed)),
                     !.frac = Remainder(PerLine * x, d.speed)])

\* The position, a word, after x mickeys
Step(d, x) ==
  InWindow([d EXCEPT !.pos = Signed(@ + Quotient(Dividend(d, x), d.speed)),
                     !.frac = Remainder(Dividend(d, x), d.speed)])

\* handle_mouse_event, relative; across is the square of the other axis
Relative(d, x, across, second) ==
  IF x = 0 /\ across = 0 THEN InWindow(d)
  ELSE Step(Tallied(d, x, across, second), Mickeys(d, x, across, second))

\* handle_mouse_event, absolute, at p; other: the other axis has changed.
\* Movement is made up for those who ask for it.
Absolute(d, p, other) ==
  IF p = d.pos /\ ~other THEN InWindow(d)
  ELSE InWindow([d EXCEPT !.pos = p, !.frac = 0, !.abs = p,
                          !.delta = IF d.abs = NoPoint THEN @
                                    ELSE Signed(@ + 8 * (p - d.abs))])

\* refresh_video_info: in another mode the window is that of its screen.
Refresh(d, screen) ==
  IF d.screen = screen THEN d
  ELSE [d EXCEPT !.screen = screen, !.min = 0, !.max = screen.max]

\* Where the host points to, of 0 .. Word - 1, in pixels: the window may be
\* larger than the screen (handle_ps2_packet).
Pixels(d, v) == Scaled(v, Word - 1, Larger(d.max, d.screen.max))

\* snap_to_grid
Snapped(d, p) == p - (p % d.screen.grid)

-----------------------------------------------------------------------------
(* int 33h *)

\* INT33_RESET_MOUSE, INT33_RESET_SETTINGS: total_motion stays
ResetMotion(d, screen) ==
  [d EXCEPT !.screen = screen, !.min = 0, !.max = screen.max, !.pos = 0,
            !.frac = 0, !.delta = 0, !.abs = NoPoint,
            !.speed = DefaultSpeed, !.threshold = DefaultThreshold]

\* INT33_SET_MOUSE_POSITION
SetPosition(d, p) == InWindow([d EXCEPT !.pos = p, !.frac = 0, !.delta = 0])

\* INT33_SET_HORIZONTAL_WINDOW, INT33_SET_VERTICAL_WINDOW
SetWindow(d, screen, low, high) ==
  InWindow([Refresh(d, screen) EXCEPT !.min = low, !.max = high])

\* INT33_GET_MOUSE_MOTION
GetMotion(d) == [d EXCEPT !.delta = 0]

\* INT33_SET_MOUSE_SPEED, INT33_SET_SPEED_DOUBLE_THRESHOLD and
\* INT33_SET_MOUSE_SENSITIVITY, which is both
SetSensitivity(d, speed, threshold) ==
  [d EXCEPT !.speed = speed, !.threshold = threshold]

\* INT33_GET_MAX_COORDINATES
MaxCoordinate(d) == Larger(d.screen.max, d.max)

=============================================================================
