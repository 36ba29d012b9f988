---------------------------- MODULE MouseCursor ----------------------------
(***************************************************************************)
(* The mouse cursor of VBMOUSE (mousetsr.c).  The driver draws it into the *)
(* memory of the screen, over what programs put there, and must put that   *)
(* back; or it has the VirtualBox host show one; or Windows shows its own. *)
(* All three are told by one flag, cursor_visible.                         *)
(*                                                                         *)
(* A position stands for the cells or pixels that the cursor covers, and   *)
(* what the driver saved from below the cursor is named by the place it is *)
(* still the contents of.  An int 33h function, a mouse event or a command *)
(* of VBMOUSE.EXE is one step; the operators in between take and return    *)
(* the state, in the order of the calls in the code.                       *)
(***************************************************************************)
EXTENDS Integers

CONSTANTS
  Positions,  \* where the cursor may be
  Home,       \* the top left corner
  Clipped,    \* positions at which a graphic cursor is outside the screen
  OLD,        \* saved contents that are of no place any more
  MaxCount,   \* bound of visible_count
  HasVBox,    \* there is a VirtualBox device
  Habits      \* see AllHabits

(***************************************************************************)
(* What programs and the user may do:                                      *)
(*  toggle     switch mouse integration off or on in VirtualBox's menu, or *)
(*             show the cursor before the driver knows if it is on         *)
(*  overwrite  write to the screen where the cursor is drawn               *)
(*  blind      show the cursor in a new video mode without telling the     *)
(*             driver, or change the mode while it is shown                *)
(*  integ      run vbmouse integ while the cursor is shown                 *)
(***************************************************************************)
AllHabits == {"toggle", "overwrite", "blind", "integ"}

Modes == {"unknown", "text", "graphic"}

ASSUME MouseCursorAssumption ==
  /\ Home \in Positions /\ Clipped \subseteq Positions
  /\ OLD \notin Positions
  /\ MaxCount \in Nat \ {0}
  /\ HasVBox \in BOOLEAN
  /\ Habits \subseteq AllHabits

VARIABLE now  \* everything: see States

Drivers ==
  [vbavail : BOOLEAN, vbwantcursor : BOOLEAN, vbhaveabs : BOOLEAN,
   haswin386 : BOOLEAN, w386cursor : BOOLEAN, ready : BOOLEAN,
   visible_count : -MaxCount .. MaxCount, cursor_visible : BOOLEAN,
   cursor_pos : Positions, cursor_prev : Positions \cup {OLD},
   pos : Positions, video_mode : Modes]

\* can: the guest has asked for absolute positions; wants: the user lets it
\* have them; pointer: the host shows its pointer, when it can and wants.
Hosts == [can : BOOLEAN, wants : BOOLEAN, pointer : BOOLEAN]

\* spoilt: the positions that do not show what programs put there.
States == [data : Drivers, host : Hosts, mode : Modes,
           spoilt : SUBSET Positions]

TypeOK == now \in States

-----------------------------------------------------------------------------
(* Drawing in the memory of the screen *)

Clips(s, p) == s.data.video_mode = "graphic" /\ p \in Clipped

\* Mutant: what was saved is written where the mouse is now.
EraseMutant(s) ==
  IF Clips(s, s.data.pos) THEN s
  ELSE LET p == s.data.pos
           right == s.data.cursor_prev = p /\ s.mode = s.data.video_mode
       IN  [s EXCEPT !.data.cursor_visible = FALSE,
                     !.spoilt = IF right THEN @ \ {p} ELSE @ \cup {p}]

\* hide_text_cursor, hide_graphic_cursor: what was saved is written back.
Erase(s) ==
  IF Clips(s, s.data.cursor_pos) THEN s
  ELSE LET p == s.data.cursor_pos
           right == s.data.cursor_prev = p /\ s.mode = s.data.video_mode
       IN  [s EXCEPT !.data.cursor_visible = FALSE,
                     !.spoilt = IF right THEN @ \ {p} ELSE @ \cup {p}]

\* show_text_cursor, show_graphic_cursor.
Draw(s) ==
  LET p == s.data.pos
  IN  IF Clips(s, p) THEN s
      ELSE [s EXCEPT !.data.cursor_prev = IF p \in s.spoilt THEN OLD ELSE p,
                     !.data.cursor_pos = p,
                     !.data.cursor_visible = TRUE,
                     !.spoilt = @ \cup {p}]

Shown(s) == s.data.visible_count >= 0 /\ ~s.data.w386cursor

\* The host's pointer is wanted.
ViaHost(s) == s.data.vbavail /\ s.data.vbwantcursor

\* The host's answer to vbox_get_mouse; without it, it shows no pointer.
HasAbs(s) == s.host.can /\ s.host.wants

SetPointer(s, on) == [s EXCEPT !.host.pointer = on]

\* refresh_cursor, from where the host is no concern.
Redraw(s) ==
  LET moved == s.data.cursor_pos # s.data.pos
      stays == s.data.cursor_visible = Shown(s) /\ (Shown(s) => ~moved)
      erased == IF s.data.cursor_visible THEN Erase(s) ELSE s
  IN  IF stays \/ s.data.video_mode = "unknown" THEN s
      ELSE IF Shown(s) THEN Draw(erased) ELSE erased

\* refresh_cursor.
Refresh(s) ==
  LET told == IF Shown(s) # s.data.cursor_visible THEN SetPointer(s, Shown(s))
                                                  ELSE s
  IN  IF ~ViaHost(s) THEN Redraw(s)
      ELSE IF s.data.vbhaveabs
             THEN [told EXCEPT !.data.cursor_visible = Shown(s)]
             ELSE Redraw(told)

\* hide_cursor.
HideCursor(s) ==
  LET told == IF ViaHost(s) THEN SetPointer(s, FALSE) ELSE s
  IN  IF ViaHost(s) /\ s.data.vbhaveabs
        THEN [told EXCEPT !.data.cursor_visible = FALSE]
        ELSE IF s.data.cursor_visible /\ s.data.video_mode # "unknown"
               THEN Erase(told) ELSE told

\* load_cursor: the host shows a pointer that it is sent, and is told not to.
LoadCursor(s) == IF ViaHost(s) THEN SetPointer(s, FALSE) ELSE s

\* reload_video_info
ReloadVideo(s) == [s EXCEPT !.data.video_mode = s.mode]

\* refresh_video_info: in a new mode nothing of the cursor is left.
RefreshVideo(s) ==
  IF s.data.video_mode = s.mode THEN s
  ELSE ReloadVideo([s EXCEPT !.data.cursor_visible = FALSE])

-----------------------------------------------------------------------------
(* Resets *)

\* reset_mouse_settings
ResetSettings(s) == Refresh([s EXCEPT !.data.visible_count = -1])

\* reset_mouse_hardware: set_absolute(true), load_cursor.
ResetHardware(s) ==
  LoadCursor([s EXCEPT !.data.ready = TRUE,
                       !.data.vbhaveabs = s.data.vbavail,
                       !.host.can = @ \/ s.data.vbavail])

\* reset_mouse_state
ResetState(s) ==
  [s EXCEPT !.data.pos = Home, !.data.cursor_visible = FALSE,
            !.data.cursor_pos = Home, !.data.cursor_prev = OLD]

\* int 33h function 0.
Reset(s) == ResetState(ResetHardware(ResetSettings(ReloadVideo(s))))

\* int 33h function 21h; the hardware only when nobody has reset it before.
SoftReset(s) ==
  LET settled == ResetSettings(ReloadVideo(s))
  IN  ResetState(IF s.data.ready THEN settled ELSE ResetHardware(settled))

-----------------------------------------------------------------------------
(* Programs *)

ResetMouse ==
  \/ now' = Reset(now)
  \/ now' = SoftReset(now)

\* The cursor will be shown by a driver that was told what it must know.
Prepared(s) ==
  /\ s.data.ready
  /\ s.data.video_mode = s.mode \/ "blind" \in Habits
  /\ \/ s.data.vbavail => s.data.vbhaveabs = HasAbs(s)
     \/ "toggle" \in Habits

\* A program asks for a step that ends in refresh_cursor.
Asks(s) ==
  /\ s.data.visible_count >= 0 => Prepared(now)
  /\ now' = Refresh(s)

\* Function 1.
ShowCursor ==
  /\ now.data.visible_count < MaxCount
  /\ Asks([now EXCEPT !.data.visible_count = @ + 1])

\* Function 2.
HideCursorFunction ==
  /\ now.data.visible_count > -MaxCount
  /\ Asks([now EXCEPT !.data.visible_count = @ - 1])

\* Function 4: the cursor follows with the next event.
SetPosition == \E p \in Positions : now' = [now EXCEPT !.data.pos = p]

\* Functions 7 and 8.
SetWindow ==
  \E p \in Positions : now' = [RefreshVideo(now) EXCEPT !.data.pos = p]

\* Function 9.
SetGraphicsCursor == Asks(LoadCursor(HideCursor(now)))

\* Function 10.
SetTextCursor == Asks(HideCursor(now))

\* A program changes the video mode, which clears the screen.
SetVideoMode ==
  /\ now.data.visible_count < 0 \/ "blind" \in Habits
  /\ \E m \in Modes : now' = [now EXCEPT !.mode = m, !.spoilt = {},
                                         !.data.cursor_prev = OLD]

\* A program writes where the cursor may be, or may have been.
WriteScreen ==
  \E p \in Positions :
    /\ p \in now.spoilt => "overwrite" \in Habits
    /\ now' = [now EXCEPT !.spoilt = @ \ {p},
                          !.data.cursor_prev = IF @ = p THEN OLD ELSE @]

-----------------------------------------------------------------------------
(* Events *)

\* A PS/2 packet: handle_ps2_packet, handle_mouse_event.
MouseEvent ==
  /\ now.data.ready
  /\ \E wants \in (IF "toggle" \in Habits THEN BOOLEAN ELSE {now.host.wants}),
         p \in Positions :
       LET s == [now EXCEPT !.data.pos = p, !.host.wants = wants]
           abs == s.data.vbavail /\ HasAbs(s)
           heard == [s EXCEPT !.data.vbhaveabs = IF s.data.vbavail THEN abs
                                                                   ELSE @]
       IN  now' = Refresh(IF abs THEN RefreshVideo(heard) ELSE heard)

\* Windows, which resets the mouse before, starts and stops, and in between
\* shows a cursor of its own, or sends events of the mouse to a DOS box.
WindowsStart ==
  /\ now.data.ready
  /\ now' = [now EXCEPT !.data.haswin386 = TRUE]

WindowsStop == now' = [now EXCEPT !.data.haswin386 = FALSE,
                                  !.data.w386cursor = FALSE]

WindowsCursor ==
  /\ now.data.haswin386
  /\ \E on \in BOOLEAN : now' = Refresh([now EXCEPT !.data.w386cursor = on])

WindowsEvent ==
  /\ now.data.haswin386
  /\ \E p \in Positions : now' = Refresh([now EXCEPT !.data.pos = p])

-----------------------------------------------------------------------------
(* VBMOUSE.EXE *)

\* Mutant: without the reset.
HostCursorMutant ==
  /\ now.data.vbavail
  /\ \E on \in BOOLEAN : now' = [now EXCEPT !.data.vbwantcursor = on]

\* vbmouse hostcur: a reset first, "to ensure the cursor is not drawn"
\* (mousmain.c:552).
HostCursor ==
  \E on \in BOOLEAN :
    now' = [Reset(now) EXCEPT
              !.data.vbwantcursor = IF now.data.vbavail THEN on ELSE @]

MayInteg == now.data.visible_count < 0 \/ "integ" \in Habits

\* vbmouse integ on, with or without a device.
IntegOn ==
  /\ MayInteg
  /\ now' = [now EXCEPT !.data.vbavail = HasVBox,
                        !.data.vbhaveabs = HasVBox \/ @]

\* vbmouse integ off
IntegOff ==
  /\ MayInteg /\ now.data.vbavail
  /\ now' = [now EXCEPT !.data.vbavail = FALSE, !.data.vbhaveabs = FALSE,
                        !.host.can = FALSE]

-----------------------------------------------------------------------------
\* After configure_driver; the rest of the data is zero.
Init ==
  \E m \in Modes, wants \in BOOLEAN :
    now = [data |-> [vbavail |-> HasVBox, vbwantcursor |-> HasVBox,
                     vbhaveabs |-> HasVBox, haswin386 |-> FALSE,
                     w386cursor |-> FALSE, ready |-> FALSE,
                     visible_count |-> 0, cursor_visible |-> FALSE,
                     cursor_pos |-> Home, cursor_prev |-> OLD, pos |-> Home,
                     video_mode |-> "unknown"],
           host |-> [can |-> FALSE, wants |-> wants, pointer |-> FALSE],
           mode |-> m, spoilt |-> {}]

Next ==
  \/ ResetMouse \/ ShowCursor \/ HideCursorFunction
  \/ SetPosition \/ SetWindow \/ SetGraphicsCursor \/ SetTextCursor
  \/ SetVideoMode \/ WriteScreen
  \/ MouseEvent \/ WindowsStart \/ WindowsStop \/ WindowsCursor \/ WindowsEvent
  \/ HostCursor \/ IntegOn \/ IntegOff

Spec == Init /\ [][Next]_now

-----------------------------------------------------------------------------
\* "Restore the character under the old position of the cursor"
\* (mousetsr.c:68): the screen is as programs left it, but for the cursor that
\* the driver knows it has drawn, through resets, new modes, and changes
\* between the host's cursor and the driver's.
ScreenIsRestored ==
  now.spoilt \subseteq IF now.data.cursor_visible THEN {now.data.cursor_pos}
                                                   ELSE {}

\* The host's pointer is shown only while the driver knows it is, so that it
\* can hide it again, and never besides a cursor on the screen.
PointerIsKnown ==
  now.host.pointer /\ HasAbs(now) =>
    now.data.cursor_visible /\ ViaHost(now) /\ now.spoilt = {}

=============================================================================
