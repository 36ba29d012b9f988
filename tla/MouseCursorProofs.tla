-------------------------- MODULE MouseCursorProofs --------------------------
(***************************************************************************)
(* Proofs about MouseCursor: types, for any habits, and, when programs and *)
(* the user keep to none of the habits, that the screen is restored and    *)
(* that the host's pointer is known, from the inductive invariant Sound.   *)
(*                                                                         *)
(* Refresh is where the cursor comes and goes.  It is called with states   *)
(* that another operator has just changed, so that the lemma about it      *)
(* takes what it needs of a state, Fit, and gives Sound.                   *)
(***************************************************************************)
EXTENDS MouseCursor, TLAPS

\* The driver leaves the cursor to the host.
Hosted(s) == ViaHost(s) /\ s.data.vbhaveabs

\* Nothing is shown, and Windows does not start, before the first reset.
Woken(s) == ~s.data.ready => ~s.data.cursor_visible /\ ~s.data.haswin386

\* What the driver believes is so, of the video mode and of the host, while
\* the cursor is shown or may be.
Agreed(s) ==
  (s.data.cursor_visible \/ (s.data.ready /\ s.data.visible_count >= 0)) =>
    /\ s.data.video_mode = s.mode
    /\ s.data.vbavail => s.data.vbhaveabs = HasAbs(s)

\* A cursor that is drawn covers what was saved, and can be erased; otherwise
\* the screen is as programs left it.
Drawn(s) ==
  IF s.data.cursor_visible /\ ~Hosted(s)
    THEN /\ s.spoilt = {s.data.cursor_pos}
         /\ s.data.cursor_prev = s.data.cursor_pos
         /\ ~Clips(s, s.data.cursor_pos)
         /\ s.data.video_mode # "unknown"
    ELSE s.spoilt = {}

\* The host shows a pointer because the driver told it to, and can only while
\* it has a device.
Pointed(s) ==
  /\ s.data.vbavail => HasVBox
  /\ s.host.can => s.data.vbavail
  /\ s.host.pointer => s.data.vbwantcursor
  /\ s.host.pointer /\ HasAbs(s) => s.data.cursor_visible

\* The cursor is visible only if it should be.
Fresh(s) == s.data.cursor_visible => Shown(s)

\* The inductive invariant.
Sound(s) == Woken(s) /\ Agreed(s) /\ Drawn(s) /\ Pointed(s) /\ Fresh(s)

\* What refresh_cursor needs.
Fit(s) ==
  /\ Woken(s) /\ Agreed(s) /\ Drawn(s) /\ Pointed(s)
  /\ Shown(s) => s.data.ready

Held == TypeOK /\ Sound(now)

\* States that differ in where the cursor is drawn and what the host shows.
SameRest(s, t) ==
  /\ t.data.ready = s.data.ready /\ t.data.haswin386 = s.data.haswin386
  /\ t.data.visible_count = s.data.visible_count
  /\ t.data.w386cursor = s.data.w386cursor
  /\ t.data.vbavail = s.data.vbavail
  /\ t.data.vbwantcursor = s.data.vbwantcursor
  /\ t.data.vbhaveabs = s.data.vbhaveabs
  /\ t.data.pos = s.data.pos /\ t.data.video_mode = s.data.video_mode
  /\ t.host.can = s.host.can /\ t.host.wants = s.host.wants
  /\ t.mode = s.mode

-----------------------------------------------------------------------------
(* Types, whatever the habits are *)

LEMMA PointerType ==
  ASSUME NEW s \in States, NEW on \in BOOLEAN
  PROVE  /\ SetPointer(s, on) \in States /\ SameRest(s, SetPointer(s, on))
         /\ SetPointer(s, on).data = s.data
         /\ SetPointer(s, on).spoilt = s.spoilt
         /\ SetPointer(s, on).host.pointer = on
  BY DEF SetPointer, States, Drivers, Hosts, SameRest

LEMMA EraseType == ASSUME NEW s \in States PROVE Erase(s) \in States
<1> DEFINE p == s.data.cursor_pos
           right == s.data.cursor_prev = p /\ s.mode = s.data.video_mode
           left == IF right THEN s.spoilt \ {p} ELSE s.spoilt \cup {p}
           t == [s EXCEPT !.data.cursor_visible = FALSE, !.spoilt = left]
<1>1. left \in SUBSET Positions
  BY DEF States, Drivers
<1>2. Erase(s) = IF Clips(s, p) THEN s ELSE t
  BY Zenon DEF Erase
<1>3. t \in States
  <2> HIDE DEF left
  <2> QED BY <1>1 DEF States, Drivers
<1> HIDE DEF t
<1> QED BY <1>2, <1>3

LEMMA DrawType ==
  ASSUME NEW s \in States
  PROVE  Draw(s) \in States /\ SameRest(s, Draw(s))
<1> DEFINE p == s.data.pos
           prev == IF p \in s.spoilt THEN OLD ELSE p
           more == s.spoilt \cup {p}
           t == [s EXCEPT !.data.cursor_prev = prev, !.data.cursor_pos = p,
                          !.data.cursor_visible = TRUE, !.spoilt = more]
<1>1. /\ p \in Positions /\ prev \in Positions \cup {OLD}
      /\ more \in SUBSET Positions
  BY DEF States, Drivers
<1>2. Draw(s) = IF Clips(s, p) THEN s ELSE t
  BY Zenon DEF Draw
<1>3. t \in States
  <2> HIDE DEF p, prev, more
  <2> QED BY <1>1 DEF States, Drivers
<1>4. Draw(s) \in States
  <2> HIDE DEF t
  <2> QED BY <1>2, <1>3
<1>5. SameRest(s, Draw(s))
  BY DEF Draw, SameRest, States, Drivers
<1> QED BY <1>4, <1>5

LEMMA RedrawType == ASSUME NEW s \in States PROVE Redraw(s) \in States
<1> DEFINE erased == IF s.data.cursor_visible THEN Erase(s) ELSE s
<1>1. erased \in States
  BY EraseType
<1>2. Redraw(s) \in {s, Draw(erased), erased}
  BY DEF Redraw
<1> HIDE DEF erased
<1> QED BY <1>1, <1>2, DrawType

LEMMA VisibleType ==
  ASSUME NEW s \in States, NEW on \in BOOLEAN
  PROVE  [s EXCEPT !.data.cursor_visible = on] \in States
  BY DEF States, Drivers

LEMMA RefreshType == ASSUME NEW s \in States PROVE Refresh(s) \in States
<1> DEFINE told == IF Shown(s) # s.data.cursor_visible
                     THEN SetPointer(s, Shown(s)) ELSE s
<1>1. Shown(s) \in BOOLEAN
  BY DEF Shown, States, Drivers
<1>2. told \in States
  BY <1>1, PointerType
<1>3. Refresh(s) \in {Redraw(s), Redraw(told),
                      [told EXCEPT !.data.cursor_visible = Shown(s)]}
  BY DEF Refresh
<1> HIDE DEF told
<1> QED BY <1>1, <1>2, <1>3, RedrawType, VisibleType

LEMMA HideCursorType == ASSUME NEW s \in States PROVE HideCursor(s) \in States
<1> DEFINE told == IF ViaHost(s) THEN SetPointer(s, FALSE) ELSE s
<1>1. told \in States
  BY PointerType
<1>2. HideCursor(s) \in {[told EXCEPT !.data.cursor_visible = FALSE],
                         Erase(told), told}
  BY DEF HideCursor
<1> HIDE DEF told
<1> QED BY <1>1, <1>2, EraseType, VisibleType

LEMMA LoadCursorType ==
  ASSUME NEW s \in States
  PROVE  /\ LoadCursor(s) \in States /\ SameRest(s, LoadCursor(s))
         /\ LoadCursor(s).data = s.data /\ LoadCursor(s).spoilt = s.spoilt
         /\ LoadCursor(s).host.pointer => s.host.pointer /\ ~ViaHost(s)
  BY PointerType DEF LoadCursor, SameRest

LEMMA VideoType ==
  ASSUME NEW s \in States
  PROVE  ReloadVideo(s) \in States /\ RefreshVideo(s) \in States
<1> DEFINE t == [s EXCEPT !.data.cursor_visible = FALSE]
<1>1. ASSUME NEW r \in States PROVE ReloadVideo(r) \in States
  BY DEF ReloadVideo, States, Drivers
<1>2. t \in States
  BY VisibleType
<1>3. RefreshVideo(s) \in {s, ReloadVideo(t)}
  BY DEF RefreshVideo
<1> HIDE DEF t
<1> QED BY <1>1, <1>2, <1>3

\* The bound of the count leaves room for the count after a reset.
LEMMA CountType ==
  ASSUME NEW s \in States
  PROVE  /\ [s EXCEPT !.data.visible_count = -1] \in States
         /\ s.data.visible_count \in Int
<1>1. -1 \in -MaxCount .. MaxCount /\ -MaxCount \in Int /\ MaxCount \in Int
  BY MouseCursorAssumption
<1> QED BY <1>1 DEF States, Drivers

LEMMA ResetSettingsType ==
  ASSUME NEW s \in States PROVE ResetSettings(s) \in States
<1> DEFINE t == [s EXCEPT !.data.visible_count = -1]
<1>1. t \in States
  BY CountType
<1>2. ResetSettings(s) = Refresh(t)
  BY DEF ResetSettings
<1> HIDE DEF t
<1> QED BY <1>1, <1>2, RefreshType

\* What reset_mouse_hardware sets, before it loads the cursor.
Woke(s) == [s EXCEPT !.data.ready = TRUE, !.data.vbhaveabs = s.data.vbavail,
                     !.host.can = @ \/ s.data.vbavail]

LEMMA WokeFields ==
  ASSUME NEW s \in States
  PROVE  LET w == Woke(s)
         IN  /\ w \in States /\ w.mode = s.mode /\ w.spoilt = s.spoilt
             /\ w.data.ready /\ w.data.vbhaveabs = s.data.vbavail
             /\ w.data.vbavail = s.data.vbavail
             /\ w.data.vbwantcursor = s.data.vbwantcursor
             /\ w.data.visible_count = s.data.visible_count
             /\ w.data.cursor_visible = s.data.cursor_visible
             /\ w.host.pointer = s.host.pointer
             /\ w.host.wants = s.host.wants
             /\ w.host.can = (s.host.can \/ s.data.vbavail)
<1> DEFINE d == [s.data EXCEPT !.ready = TRUE, !.vbhaveabs = s.data.vbavail]
           h == [s.host EXCEPT !.can = @ \/ s.data.vbavail]
<1>1. d \in Drivers /\ h \in Hosts
  BY DEF States, Drivers, Hosts
<1>2. Woke(s) = [s EXCEPT !.data = d, !.host = h]
  BY DEF Woke, States
<1>3. /\ d.ready /\ d.vbhaveabs = s.data.vbavail
      /\ d.vbavail = s.data.vbavail /\ d.vbwantcursor = s.data.vbwantcursor
      /\ d.visible_count = s.data.visible_count
      /\ d.cursor_visible = s.data.cursor_visible
      /\ h.pointer = s.host.pointer /\ h.wants = s.host.wants
      /\ h.can = (s.host.can \/ s.data.vbavail)
  BY DEF States, Drivers, Hosts
<1> HIDE DEF d, h
<1>4. /\ Woke(s) \in States /\ Woke(s).data = d /\ Woke(s).host = h
      /\ Woke(s).mode = s.mode /\ Woke(s).spoilt = s.spoilt
  BY <1>1, <1>2 DEF States
<1> QED BY <1>3, <1>4

LEMMA ResetHardwareType ==
  ASSUME NEW s \in States PROVE ResetHardware(s) \in States
<1>1. ResetHardware(s) = LoadCursor(Woke(s))
  BY DEF ResetHardware, Woke
<1> QED BY <1>1, WokeFields, LoadCursorType

LEMMA ResetStateType ==
  ASSUME NEW s \in States PROVE ResetState(s) \in States
  BY MouseCursorAssumption DEF ResetState, States, Drivers

LEMMA ResetType ==
  ASSUME NEW s \in States
  PROVE  Reset(s) \in States /\ SoftReset(s) \in States
<1> DEFINE r == ResetSettings(ReloadVideo(s))
           h == ResetHardware(r)
<1>1. r \in States /\ h \in States
  BY VideoType, ResetSettingsType, ResetHardwareType
<1>2. Reset(s) = ResetState(h) /\ SoftReset(s) \in {ResetState(r), ResetState(h)}
  BY DEF Reset, SoftReset
<1> HIDE DEF r, h
<1> QED BY <1>1, <1>2, ResetStateType

LEMMA AskedType ==
  ASSUME TypeOK, ShowCursor \/ HideCursorFunction PROVE TypeOK'
<1>1. now.data.visible_count \in -MaxCount .. MaxCount /\ MaxCount \in Nat
  BY MouseCursorAssumption DEF TypeOK, States, Drivers
<1>2. PICK n \in {now.data.visible_count + 1, now.data.visible_count - 1} :
        /\ n \in -MaxCount .. MaxCount
        /\ now' = Refresh([now EXCEPT !.data.visible_count = n])
  BY <1>1 DEF ShowCursor, HideCursorFunction, Asks
<1> DEFINE s == [now EXCEPT !.data.visible_count = n]
<1>3. s \in States
  BY <1>2 DEF TypeOK, States, Drivers
<1> HIDE DEF s
<1> QED BY <1>2, <1>3, RefreshType DEF TypeOK, s

LEMMA CursorShapeType ==
  ASSUME TypeOK, SetGraphicsCursor \/ SetTextCursor PROVE TypeOK'
<1> DEFINE h == HideCursor(now)
<1>1. h \in States
  BY HideCursorType DEF TypeOK
<1>2. now' \in {Refresh(h), Refresh(LoadCursor(h))}
  BY DEF SetGraphicsCursor, SetTextCursor, Asks
<1> HIDE DEF h
<1> QED BY <1>1, <1>2, LoadCursorType, RefreshType DEF TypeOK

LEMMA PlacedType ==
  ASSUME NEW s \in States, NEW p \in Positions
  PROVE  [s EXCEPT !.data.pos = p] \in States
  BY DEF States, Drivers

LEMMA SetWindowType == ASSUME TypeOK, SetPosition \/ SetWindow PROVE TypeOK'
<1>1. PICK s \in {now, RefreshVideo(now)}, p \in Positions :
        now' = [s EXCEPT !.data.pos = p]
  BY DEF SetPosition, SetWindow
<1>2. s \in States
  BY <1>1, VideoType DEF TypeOK
<1> QED BY <1>1, <1>2, PlacedType DEF TypeOK

LEMMA WriteScreenType == ASSUME TypeOK, WriteScreen PROVE TypeOK'
<1>1. PICK p \in Positions :
        now' = [now EXCEPT !.spoilt = @ \ {p},
                           !.data.cursor_prev = IF @ = p THEN OLD ELSE @]
  BY DEF WriteScreen
<1> DEFINE prev == IF now.data.cursor_prev = p THEN OLD ELSE now.data.cursor_prev
           left == now.spoilt \ {p}
<1>2. now' = [now EXCEPT !.spoilt = left, !.data.cursor_prev = prev]
  BY <1>1, Zenon
<1>3. prev \in Positions \cup {OLD} /\ left \in SUBSET Positions
  BY DEF TypeOK, States, Drivers
<1> HIDE DEF prev, left
<1> QED BY <1>2, <1>3 DEF TypeOK, States, Drivers

LEMMA MouseEventType == ASSUME TypeOK, MouseEvent PROVE TypeOK'
<1>1. PICK wants \in BOOLEAN, p \in Positions :
        LET s == [now EXCEPT !.data.pos = p, !.host.wants = wants]
            abs == s.data.vbavail /\ HasAbs(s)
            heard == [s EXCEPT !.data.vbhaveabs = IF s.data.vbavail THEN abs
                                                                    ELSE @]
        IN  now' = Refresh(IF abs THEN RefreshVideo(heard) ELSE heard)
  <2>1. now.host.wants \in BOOLEAN
    BY DEF TypeOK, States, Hosts
  <2>2. PICK wants \in (IF "toggle" \in Habits THEN BOOLEAN
                                               ELSE {now.host.wants}),
             p \in Positions :
        LET s == [now EXCEPT !.data.pos = p, !.host.wants = wants]
            abs == s.data.vbavail /\ HasAbs(s)
            heard == [s EXCEPT !.data.vbhaveabs = IF s.data.vbavail THEN abs
                                                                    ELSE @]
        IN  now' = Refresh(IF abs THEN RefreshVideo(heard) ELSE heard)
    BY Zenon DEF MouseEvent
  <2>3. wants \in BOOLEAN
    BY <2>1, <2>2
  <2> QED BY <2>2, <2>3, Zenon
<1> DEFINE s == [now EXCEPT !.data.pos = p, !.host.wants = wants]
           abs == s.data.vbavail /\ HasAbs(s)
           have == IF s.data.vbavail THEN abs ELSE s.data.vbhaveabs
           heard == [s EXCEPT !.data.vbhaveabs = have]
<1>2. now' \in {Refresh(RefreshVideo(heard)), Refresh(heard)}
  <2>1. now' = Refresh(IF abs THEN RefreshVideo(heard) ELSE heard)
    BY <1>1, Zenon
  <2> HIDE DEF abs, heard
  <2> QED BY <2>1
<1>3. s \in States
  BY DEF TypeOK, States, Drivers, Hosts
<1> HIDE DEF s
<1>4. have \in BOOLEAN
  BY <1>3 DEF HasAbs, States, Drivers, Hosts
<1> HIDE DEF have
<1>5. heard \in States
  BY <1>3, <1>4 DEF States, Drivers
<1> HIDE DEF heard
<1> QED BY <1>2, <1>5, VideoType, RefreshType DEF TypeOK

LEMMA WindowsType ==
  ASSUME TypeOK, WindowsStart \/ WindowsStop \/ WindowsCursor \/ WindowsEvent
  PROVE  TypeOK'
<1>1. ASSUME NEW on \in BOOLEAN PROVE [now EXCEPT !.data.w386cursor = on] \in States
  BY DEF TypeOK, States, Drivers
<1>2. CASE WindowsStart \/ WindowsStop
  <2>1. CASE WindowsStart
    BY <2>1 DEF WindowsStart, TypeOK, States, Drivers
  <2>2. CASE WindowsStop
    BY <2>2 DEF WindowsStop, TypeOK, States, Drivers
  <2> QED BY <1>2, <2>1, <2>2
<1>3. CASE WindowsCursor
  <2>1. PICK on \in BOOLEAN : now' = Refresh([now EXCEPT !.data.w386cursor = on])
    BY <1>3 DEF WindowsCursor
  <2> QED BY <2>1, <1>1, RefreshType DEF TypeOK
<1>4. CASE WindowsEvent
  <2>1. PICK p \in Positions : now' = Refresh([now EXCEPT !.data.pos = p])
    BY <1>4 DEF WindowsEvent
  <2> QED BY <2>1, PlacedType, RefreshType DEF TypeOK
<1> QED BY <1>2, <1>3, <1>4

LEMMA HostCursorType == ASSUME TypeOK, HostCursor PROVE TypeOK'
<1> DEFINE r == Reset(now)
<1>1. PICK on \in BOOLEAN :
        now' = [r EXCEPT !.data.vbwantcursor = IF now.data.vbavail THEN on ELSE @]
  BY DEF HostCursor
<1> DEFINE wants == IF now.data.vbavail THEN on ELSE r.data.vbwantcursor
<1>2. now' = [r EXCEPT !.data.vbwantcursor = wants]
  BY <1>1, Zenon
<1>3. r \in States
  BY ResetType DEF TypeOK
<1> HIDE DEF r
<1>4. wants \in BOOLEAN
  BY <1>3 DEF States, Drivers
<1> HIDE DEF wants
<1> QED BY <1>2, <1>3, <1>4 DEF TypeOK, States, Drivers

LEMMA StartType == Init => TypeOK
<1> SUFFICES ASSUME Init PROVE TypeOK
  OBVIOUS
<1>1. PICK m \in Modes, wants \in BOOLEAN :
        now = [data |-> [vbavail |-> HasVBox, vbwantcursor |-> HasVBox,
                         vbhaveabs |-> HasVBox, haswin386 |-> FALSE,
                         w386cursor |-> FALSE, ready |-> FALSE,
                         visible_count |-> 0, cursor_visible |-> FALSE,
                         cursor_pos |-> Home, cursor_prev |-> OLD, pos |-> Home,
                         video_mode |-> "unknown"],
               host |-> [can |-> FALSE, wants |-> wants, pointer |-> FALSE],
               mode |-> m, spoilt |-> {}]
  BY DEF Init
<1>2. /\ 0 \in -MaxCount .. MaxCount /\ "unknown" \in Modes
      /\ HasVBox \in BOOLEAN /\ Home \in Positions
  BY MouseCursorAssumption DEF Modes
<1>3. now.data \in Drivers
  BY <1>1, <1>2 DEF Drivers
<1> QED BY <1>1, <1>3 DEF TypeOK, States, Hosts

LEMMA StepType == TypeOK /\ [Next]_now => TypeOK'
<1> SUFFICES ASSUME TypeOK, [Next]_now PROVE TypeOK'
  OBVIOUS
<1>1. CASE ResetMouse
  BY <1>1, ResetType DEF ResetMouse, TypeOK
<1>2. CASE SetVideoMode
  <2>1. PICK m \in Modes :
          now' = [now EXCEPT !.mode = m, !.spoilt = {}, !.data.cursor_prev = OLD]
    BY <1>2 DEF SetVideoMode
  <2> QED BY <2>1 DEF TypeOK, States, Drivers
<1>3. CASE IntegOn \/ IntegOff
  <2>1. CASE IntegOn
    BY <2>1, MouseCursorAssumption DEF IntegOn, TypeOK, States, Drivers
  <2>2. CASE IntegOff
    BY <2>2 DEF IntegOff, TypeOK, States, Drivers, Hosts
  <2> QED BY <1>3, <2>1, <2>2
<1>4. CASE UNCHANGED now
  BY <1>4 DEF TypeOK
<1> QED
  BY <1>1, <1>2, <1>3, <1>4, AskedType, CursorShapeType, SetWindowType,
     WriteScreenType, MouseEventType, WindowsType, HostCursorType DEF Next

\* The state of the driver, the host and the screen has its type, whatever
\* programs and the user do (mousetsr.h: TSRDATA).
THEOREM TypeCorrect == Spec => []TypeOK
  BY StartType, StepType, PTL DEF Spec

-----------------------------------------------------------------------------
(* refresh_cursor *)

LEMMA ErasedState ==
  ASSUME NEW s \in States, s.data.cursor_visible,
         Agreed(s), Drawn(s), ~Hosted(s)
  PROVE  /\ Erase(s) \in States /\ SameRest(s, Erase(s))
         /\ Erase(s).host = s.host
         /\ ~Erase(s).data.cursor_visible /\ Erase(s).spoilt = {}
<1> DEFINE p == s.data.cursor_pos
           t == [s EXCEPT !.data.cursor_visible = FALSE, !.spoilt = {}]
<1>1. /\ ~Clips(s, p) /\ s.data.cursor_prev = p /\ s.spoilt = {p}
      /\ s.mode = s.data.video_mode
  BY DEF Drawn, Agreed
<1>2. s.spoilt \ {p} = {}
  BY <1>1
<1>3. Erase(s) = t
  BY <1>1, <1>2, Zenon DEF Erase
<1>4. SameRest(s, t) /\ t.host = s.host /\ ~t.data.cursor_visible /\ t.spoilt = {}
  BY DEF SameRest, States, Drivers, Hosts
<1> QED BY <1>3, <1>4, EraseType

LEMMA DrawnState ==
  ASSUME NEW s \in States, s.spoilt = {}, ~s.data.cursor_visible,
         s.data.video_mode # "unknown", s.data.ready, Shown(s), ~Hosted(s),
         Agreed(s), Pointed(s)
  PROVE  Sound(Draw(s))
  BY DEF Draw, States, Drivers, Hosts, Sound, Woken, Agreed, Drawn, Pointed,
         Fresh, HasAbs, Shown, Hosted, Clips, ViaHost

\* A host that the cursor is not left to shows no pointer.
LEMMA Unpointed ==
  ASSUME NEW s \in States, Fit(s), ~Hosted(s)
  PROVE  ~(s.host.pointer /\ HasAbs(s))
  BY DEF States, Drivers, Hosts, Fit, Woken, Agreed, Drawn, Pointed, HasAbs,
         Shown, Hosted, ViaHost

LEMMA RedrawSound ==
  ASSUME NEW s \in States, Fit(s), ~Hosted(s)
  PROVE  Sound(Redraw(s)) /\ SameRest(s, Redraw(s))
<1> DEFINE moved == s.data.cursor_pos # s.data.pos
           stays == s.data.cursor_visible = Shown(s) /\ (Shown(s) => ~moved)
           erased == IF s.data.cursor_visible THEN Erase(s) ELSE s
<1>1. CASE stays \/ s.data.video_mode = "unknown"
  <2>1. Redraw(s) = s
    BY <1>1 DEF Redraw
  <2>2. Fresh(s)
    BY <1>1 DEF Fit, Fresh, Drawn
  <2> QED BY <2>1, <2>2 DEF Sound, Fit, SameRest
<1>2. CASE ~(stays \/ s.data.video_mode = "unknown")
  <2>1. /\ erased \in States /\ SameRest(s, erased) /\ erased.host = s.host
        /\ ~erased.data.cursor_visible /\ erased.spoilt = {}
    <3>1. CASE s.data.cursor_visible
      BY <3>1, ErasedState DEF Fit
    <3>2. CASE ~s.data.cursor_visible
      BY <3>2 DEF Fit, SameRest, Drawn, States, Drivers
    <3> QED BY <3>1, <3>2
  <2>2. Redraw(s) = IF Shown(s) THEN Draw(erased) ELSE erased
    BY <1>2 DEF Redraw
  <2> HIDE DEF erased
  <2>3. Shown(erased) = Shown(s) /\ Hosted(erased) = Hosted(s)
    BY <2>1 DEF SameRest, Shown, Hosted, ViaHost
  <2>4. Agreed(erased)
    BY <2>1 DEF Fit, Agreed, SameRest, HasAbs
  <2>5. Pointed(erased)
    BY <2>1, Unpointed DEF Fit, Pointed, SameRest, HasAbs
  <2>6. CASE Shown(s)
    <3>1. erased.data.ready /\ erased.data.video_mode # "unknown"
      BY <1>2, <2>1, <2>6 DEF Fit, SameRest
    <3>2. Sound(Draw(erased))
      BY <2>1, <2>3, <2>4, <2>5, <2>6, <3>1, DrawnState
    <3> QED BY <2>1, <2>2, <2>6, <3>2, DrawType DEF SameRest
  <2>7. CASE ~Shown(s)
    BY <2>7, <2>5, <2>4, <2>3, <2>2, <2>1
    DEF Sound, Woken, Drawn, Fresh, Fit, SameRest
  <2> QED BY <2>6, <2>7
<1> QED BY <1>1, <1>2

LEMMA RefreshSound ==
  ASSUME NEW s \in States, Fit(s)
  PROVE  Sound(Refresh(s)) /\ SameRest(s, Refresh(s))
<1> DEFINE told == IF Shown(s) # s.data.cursor_visible
                     THEN SetPointer(s, Shown(s)) ELSE s
<1>1. Shown(s) \in BOOLEAN
  BY DEF Shown, States, Drivers
<1>2. /\ told \in States /\ SameRest(s, told)
      /\ told.data = s.data /\ told.spoilt = s.spoilt
      /\ told.host.pointer \in {s.host.pointer, Shown(s)}
      /\ Shown(s) # s.data.cursor_visible => told.host.pointer = Shown(s)
  BY <1>1, PointerType DEF SameRest
<1>3. CASE ~ViaHost(s)
  BY <1>3, RedrawSound DEF Refresh, Hosted
<1>4. CASE ViaHost(s) /\ ~s.data.vbhaveabs
  <2>1. Refresh(s) = Redraw(told)
    BY <1>4 DEF Refresh
  <2> HIDE DEF told
  <2>2. Fit(told) /\ ~Hosted(told)
    BY <1>2, <1>4, Unpointed
    DEF Fit, Woken, Agreed, Drawn, Pointed, HasAbs, Shown, Hosted, ViaHost,
        SameRest, Clips, States, Drivers
  <2> QED BY <2>1, <2>2, <1>2, RedrawSound DEF SameRest
<1>5. CASE Hosted(s)
  <2> DEFINE t == [told EXCEPT !.data.cursor_visible = Shown(s)]
  <2>1. Refresh(s) = t
    BY <1>5 DEF Refresh, Hosted
  <2> HIDE DEF told
  <2>2. /\ SameRest(s, t) /\ t.data.cursor_visible = Shown(s)
        /\ t.spoilt = s.spoilt /\ t.host = told.host
    BY <1>1, <1>2 DEF States, Drivers, Hosts, SameRest
  <2> HIDE DEF t
  <2>3. Sound(t)
    BY <2>2, <1>2, <1>5
    DEF Fit, Sound, Woken, Agreed, Drawn, Pointed, Fresh, HasAbs, Shown,
        Hosted, ViaHost, SameRest, States, Drivers
  <2> QED BY <2>1, <2>2, <2>3
<1> QED BY <1>3, <1>4, <1>5 DEF Hosted

-----------------------------------------------------------------------------
(* The other operators *)

LEMMA HideCursorSound ==
  ASSUME NEW s \in States, Sound(s)
  PROVE  LET h == HideCursor(s)
         IN  /\ SameRest(s, h) /\ ~h.data.cursor_visible /\ h.spoilt = {}
             /\ h.host.pointer => s.host.pointer /\ ~ViaHost(s)
<1> DEFINE told == IF ViaHost(s) THEN SetPointer(s, FALSE) ELSE s
<1>1. /\ told \in States /\ SameRest(s, told)
      /\ told.data = s.data /\ told.spoilt = s.spoilt
      /\ told.host.pointer => s.host.pointer /\ ~ViaHost(s)
  BY PointerType DEF SameRest
<1>2. CASE Hosted(s)
  <2> DEFINE t == [told EXCEPT !.data.cursor_visible = FALSE]
  <2>1. HideCursor(s) = t
    BY <1>2 DEF HideCursor, Hosted
  <2> HIDE DEF told
  <2>2. s.spoilt = {}
    BY <1>2 DEF Sound, Drawn
  <2>3. SameRest(told, t)
    BY <1>1 DEF States, Drivers, SameRest
  <2>4. /\ ~t.data.cursor_visible /\ t.host = told.host
        /\ t.spoilt = told.spoilt
    BY <1>1 DEF States, Drivers
  <2> HIDE DEF t
  <2> QED BY <1>1, <2>1, <2>2, <2>3, <2>4 DEF SameRest
<1>3. CASE ~Hosted(s) /\ s.data.cursor_visible
  <2>1. HideCursor(s) = Erase(told)
    BY <1>3 DEF HideCursor, Hosted, Sound, Drawn
  <2> HIDE DEF told
  <2>2. Agreed(told) /\ Drawn(told) /\ ~Hosted(told)
    BY <1>1, <1>3
    DEF Sound, Agreed, Drawn, Hosted, ViaHost, SameRest, HasAbs, Clips
  <2>3. /\ SameRest(told, Erase(told)) /\ Erase(told).host = told.host
        /\ ~Erase(told).data.cursor_visible /\ Erase(told).spoilt = {}
    BY <1>1, <1>3, <2>2, ErasedState
  <2> QED BY <2>1, <2>3, <1>1 DEF SameRest
<1>4. CASE ~Hosted(s) /\ ~s.data.cursor_visible
  <2>1. HideCursor(s) = told
    BY <1>4 DEF HideCursor, Hosted
  <2> QED BY <2>1, <1>1, <1>4 DEF Sound, Drawn
<1> QED BY <1>2, <1>3, <1>4

LEMMA HiddenFit ==
  ASSUME NEW s \in States, Sound(s), Prepared(s) \/ s.data.visible_count < 0,
         Habits = {}
  PROVE  Fit(HideCursor(s))
<1> DEFINE h == HideCursor(s)
<1>1. /\ SameRest(s, h) /\ ~h.data.cursor_visible /\ h.spoilt = {}
      /\ h.host.pointer => s.host.pointer /\ ~ViaHost(s)
  BY HideCursorSound
<1> HIDE DEF h
<1>2. s.data.visible_count \in Int
  BY CountType
<1>3. Fit(h)
  BY <1>1, <1>2
  DEF Sound, Fit, Prepared, Woken, Agreed, Drawn, Pointed, HasAbs, Hosted,
      ViaHost, Shown, SameRest
<1> QED BY <1>3 DEF h

LEMMA RefreshVideoSound ==
  ASSUME NEW s \in States, Woken(s), Agreed(s), Drawn(s), Pointed(s)
  PROVE  LET v == RefreshVideo(s)
         IN  /\ Woken(v) /\ Agreed(v) /\ Drawn(v) /\ Pointed(v)
             /\ Fresh(s) => Fresh(v)
             /\ Shown(v) = Shown(s) /\ v.data.ready = s.data.ready
<1>1. CASE s.data.video_mode = s.mode
  BY <1>1 DEF RefreshVideo
<1>2. CASE s.data.video_mode # s.mode
  <2> DEFINE d == [s.data EXCEPT !.cursor_visible = FALSE,
                                 !.video_mode = s.mode]
             t == [s EXCEPT !.data = d]
  <2>1. ~s.data.cursor_visible
    BY <1>2 DEF Agreed
  <2>2. d \in Drivers /\ t \in States
    BY DEF States, Drivers
  <2>3. RefreshVideo(s) = t
    BY <1>2 DEF RefreshVideo, ReloadVideo, States, Drivers
  <2>4. Woken(t) /\ Agreed(t) /\ Drawn(t) /\ Pointed(t) /\ Fresh(t)
    BY <2>1, <2>2, <1>2
    DEF Woken, Agreed, Drawn, Pointed, Fresh, HasAbs, Hosted, ViaHost, Clips,
        States, Drivers
  <2>5. Shown(t) = Shown(s) /\ t.data.ready = s.data.ready
    BY <2>2 DEF Shown, States, Drivers
  <2> QED BY <2>3, <2>4, <2>5
<1> QED BY <1>1, <1>2

\* A cursor that is visible is erased with the video mode it was drawn in, so
\* that reloading the mode first does no harm.
LEMMA SettledSound ==
  ASSUME NEW s \in States, Sound(s)
  PROVE  LET r == ResetSettings(ReloadVideo(s))
         IN  /\ r \in States /\ Sound(r) /\ ~r.data.cursor_visible
             /\ r.data.visible_count = -1
             /\ r.data.vbavail = s.data.vbavail
<1> DEFINE v == [s EXCEPT !.data.video_mode = s.mode]
           c == [v EXCEPT !.data.visible_count = -1]
<1>1. /\ v \in States /\ v.data = [s.data EXCEPT !.video_mode = s.mode]
      /\ v.mode = s.mode /\ v.host = s.host /\ v.spoilt = s.spoilt
  BY DEF States, Drivers
<1>2. /\ s.data \in Drivers /\ s.data.cursor_visible \in BOOLEAN
      /\ s.data.visible_count \in Int
  BY CountType DEF States, Drivers
<1> HIDE DEF v
<1>3. /\ c.data = [v.data EXCEPT !.visible_count = -1]
      /\ c.mode = v.mode /\ c.host = v.host /\ c.spoilt = v.spoilt
  BY <1>1 DEF States, Drivers
<1>4. c \in States
  BY <1>1, CountType
<1>5. c.data = [s.data EXCEPT !.video_mode = s.mode, !.visible_count = -1]
  BY <1>1, <1>3
<1> HIDE DEF c
<1>6. /\ c.data.visible_count = -1 /\ c.data.video_mode = s.mode
      /\ c.mode = s.mode /\ c.host = s.host /\ c.spoilt = s.spoilt
      /\ c.data.cursor_visible = s.data.cursor_visible
      /\ c.data.cursor_pos = s.data.cursor_pos
      /\ c.data.cursor_prev = s.data.cursor_prev
      /\ c.data.vbavail = s.data.vbavail
      /\ c.data.vbwantcursor = s.data.vbwantcursor
      /\ c.data.vbhaveabs = s.data.vbhaveabs
      /\ c.data.ready = s.data.ready
      /\ c.data.haswin386 = s.data.haswin386
  BY <1>1, <1>2, <1>3, <1>5 DEF Drivers
<1>7. ~Shown(c)
  BY <1>6 DEF Shown
<1>8. Fit(c)
  BY <1>6, <1>7
  DEF Fit, Sound, Woken, Agreed, Drawn, Pointed, HasAbs, Hosted, ViaHost, Clips
<1>9. ResetSettings(ReloadVideo(s)) = Refresh(c)
  BY DEF ResetSettings, ReloadVideo, c, v
<1>10. Refresh(c) \in States /\ Sound(Refresh(c)) /\ SameRest(c, Refresh(c))
  BY <1>4, <1>8, RefreshType, RefreshSound
<1>11. ~Refresh(c).data.cursor_visible
  BY <1>6, <1>10 DEF SameRest, Sound, Fresh, Shown
<1> QED BY <1>6, <1>9, <1>10, <1>11 DEF SameRest

LEMMA HardwareSound ==
  ASSUME NEW s \in States, Sound(s), ~s.data.cursor_visible,
         s.data.visible_count = -1
  PROVE  LET h == ResetHardware(s)
         IN  /\ Sound(h) /\ ~h.data.cursor_visible
             /\ h.data.vbavail = s.data.vbavail
             /\ h.data.vbavail => ~h.host.pointer
<1> DEFINE w == Woke(s)
           h == LoadCursor(w)
<1>1. /\ w \in States /\ w.mode = s.mode /\ w.spoilt = s.spoilt
      /\ w.data.ready /\ w.data.vbhaveabs = s.data.vbavail
      /\ w.data.vbavail = s.data.vbavail
      /\ w.data.vbwantcursor = s.data.vbwantcursor
      /\ w.data.visible_count = -1 /\ ~w.data.cursor_visible
      /\ w.host.pointer = s.host.pointer /\ w.host.wants = s.host.wants
      /\ w.host.can = (s.host.can \/ s.data.vbavail)
  BY WokeFields
<1> HIDE DEF w
<1>2. /\ SameRest(w, h) /\ h.data = w.data /\ h.spoilt = w.spoilt
      /\ h.host.pointer => w.host.pointer /\ ~ViaHost(w)
  BY <1>1, LoadCursorType
<1>3. ResetHardware(s) = h
  BY DEF ResetHardware, w, Woke
<1> HIDE DEF h
<1>4. Woken(h) /\ Agreed(h) /\ Fresh(h)
  BY <1>1, <1>2 DEF Woken, Agreed, Fresh
<1>5. Drawn(h)
  BY <1>1, <1>2 DEF Drawn, Sound
<1>6. Pointed(h) /\ (h.data.vbavail => ~h.host.pointer)
  BY <1>1, <1>2 DEF Pointed, Sound, SameRest, HasAbs, ViaHost
<1> QED BY <1>1, <1>2, <1>3, <1>4, <1>5, <1>6 DEF Sound

LEMMA ResetStateSound ==
  ASSUME NEW s \in States, Sound(s), ~s.data.cursor_visible
  PROVE  LET r == ResetState(s)
         IN  /\ Sound(r) /\ ~r.data.cursor_visible
             /\ r.data.vbavail = s.data.vbavail /\ r.host = s.host
<1> DEFINE r == ResetState(s)
<1>1. /\ r.data.ready = s.data.ready
      /\ r.data.haswin386 = s.data.haswin386
      /\ r.data.visible_count = s.data.visible_count
      /\ r.data.vbavail = s.data.vbavail
      /\ r.data.vbwantcursor = s.data.vbwantcursor
      /\ r.data.vbhaveabs = s.data.vbhaveabs
      /\ r.data.video_mode = s.data.video_mode
      /\ r.mode = s.mode
  BY DEF ResetState, States, Drivers
<1>2. ~r.data.cursor_visible /\ r.spoilt = s.spoilt /\ r.host = s.host
  BY DEF ResetState, States, Drivers
<1> HIDE DEF r
<1>3. Sound(r)
  BY <1>1, <1>2 DEF Sound, Woken, Agreed, Drawn, Pointed, Fresh, HasAbs
<1> QED BY <1>1, <1>2, <1>3 DEF r

LEMMA ResetSound ==
  ASSUME NEW s \in States, Sound(s)
  PROVE  /\ Sound(Reset(s)) /\ ~Reset(s).data.cursor_visible
         /\ Reset(s).data.vbavail = s.data.vbavail
         /\ Reset(s).data.vbavail => ~Reset(s).host.pointer
<1> DEFINE r == ResetSettings(ReloadVideo(s))
           h == ResetHardware(r)
<1>1. /\ r \in States /\ Sound(r) /\ ~r.data.cursor_visible
      /\ r.data.visible_count = -1 /\ r.data.vbavail = s.data.vbavail
  BY SettledSound
<1> HIDE DEF r
<1>2. /\ h \in States /\ Sound(h) /\ ~h.data.cursor_visible
      /\ h.data.vbavail = s.data.vbavail
      /\ h.data.vbavail => ~h.host.pointer
  BY <1>1, HardwareSound, ResetHardwareType
<1>3. Reset(s) = ResetState(h)
  BY DEF Reset, h, r
<1> HIDE DEF h
<1> QED BY <1>2, <1>3, ResetStateSound

LEMMA SoftResetSound == ASSUME NEW s \in States, Sound(s)
                        PROVE  Sound(SoftReset(s))
<1> DEFINE r == ResetSettings(ReloadVideo(s))
           h == IF s.data.ready THEN r ELSE ResetHardware(r)
<1>1. /\ r \in States /\ Sound(r) /\ ~r.data.cursor_visible
      /\ r.data.visible_count = -1
  BY SettledSound
<1>2. SoftReset(s) = ResetState(h)
  BY Zenon DEF SoftReset
<1> HIDE DEF r
<1>3. h \in States /\ Sound(h) /\ ~h.data.cursor_visible
  BY <1>1, HardwareSound, ResetHardwareType
<1> HIDE DEF h
<1> QED BY <1>2, <1>3, ResetStateSound

-----------------------------------------------------------------------------
(* The actions *)

LEMMA AskedSound ==
  ASSUME Held, Habits = {}, ShowCursor \/ HideCursorFunction
  PROVE  Sound(now)'
<1>1. now \in States /\ now.data.visible_count \in -MaxCount .. MaxCount
  BY DEF Held, TypeOK, States, Drivers
<1>2. PICK n \in {now.data.visible_count + 1, now.data.visible_count - 1} :
        /\ n \in -MaxCount .. MaxCount
        /\ n >= 0 => Prepared(now)
        /\ now' = Refresh([now EXCEPT !.data.visible_count = n])
  <2>1. ASSUME NEW n \in -MaxCount .. MaxCount
        PROVE  ([now EXCEPT !.data.visible_count = n]).data.visible_count = n
    BY <1>1 DEF States, Drivers
  <2>2. CASE ShowCursor
    <3>1. now.data.visible_count + 1 \in -MaxCount .. MaxCount
      BY <2>2, <1>1, MouseCursorAssumption DEF ShowCursor
    <3> QED BY <2>2, <2>1, <3>1 DEF ShowCursor, Asks
  <2>3. CASE HideCursorFunction
    <3>1. now.data.visible_count - 1 \in -MaxCount .. MaxCount
      BY <2>3, <1>1, MouseCursorAssumption DEF HideCursorFunction
    <3> QED BY <2>3, <2>1, <3>1 DEF HideCursorFunction, Asks
  <2> QED BY <2>2, <2>3
<1> DEFINE s == [now EXCEPT !.data.visible_count = n]
<1>3. s \in States
  BY <1>1, <1>2 DEF States, Drivers
<1>4. Fit(s)
  BY <1>1, <1>2
  DEF Held, Prepared, Fit, Sound, Woken, Agreed, Drawn, Pointed, Fresh, HasAbs,
      Hosted, ViaHost, Clips, Shown, States, Drivers
<1> HIDE DEF s
<1> QED BY <1>2, <1>3, <1>4, RefreshSound DEF s

LEMMA CursorShapeSound ==
  ASSUME Held, Habits = {}, SetGraphicsCursor \/ SetTextCursor
  PROVE  Sound(now)'
<1> DEFINE h == HideCursor(now)
           l == LoadCursor(h)
<1>1. now \in States /\ now.data.visible_count \in Int /\ h \in States
  BY CountType, HideCursorType DEF Held, TypeOK
<1>2. SameRest(now, h)
  BY <1>1, HideCursorSound DEF Held
<1>3. /\ SameRest(h, l) /\ l \in States
      /\ l.data = h.data /\ l.spoilt = h.spoilt
      /\ l.host.pointer => h.host.pointer
  <2> HIDE DEF h
  <2> QED BY <1>1, LoadCursorType
<1>4. /\ now.data.visible_count >= 0 => Prepared(now)
      /\ now' \in {Refresh(h), Refresh(l)}
  BY <1>2, <1>3 DEF SetGraphicsCursor, SetTextCursor, Asks, SameRest
<1>5. Fit(h)
  BY <1>1, <1>4, HiddenFit DEF Held
<1> HIDE DEF h, l
<1>6. Fit(l)
  BY <1>3, <1>5
  DEF Fit, Woken, Agreed, Drawn, Pointed, HasAbs, Hosted, ViaHost, Clips,
      Shown, SameRest
<1> QED BY <1>1, <1>3, <1>4, <1>5, <1>6, RefreshSound

LEMMA PlacedSound ==
  ASSUME NEW s \in States, NEW p \in Positions, Sound(s)
  PROVE  Sound([s EXCEPT !.data.pos = p])
  BY DEF Sound, Woken, Agreed, Drawn, Pointed, Fresh, HasAbs, Hosted, ViaHost,
         Clips, Shown, States, Drivers

LEMMA SetWindowSound ==
  ASSUME Held, SetPosition \/ SetWindow PROVE Sound(now)'
<1>1. PICK s \in {now, RefreshVideo(now)}, p \in Positions :
        now' = [s EXCEPT !.data.pos = p]
  BY DEF SetPosition, SetWindow
<1>2. s \in States /\ Sound(s)
  BY <1>1, VideoType, RefreshVideoSound DEF Held, TypeOK, Sound
<1> QED BY <1>1, <1>2, PlacedSound

LEMMA SetVideoModeSound ==
  ASSUME Held, Habits = {}, SetVideoMode PROVE Sound(now)'
<1>1. PICK m \in Modes :
        now' = [now EXCEPT !.mode = m, !.spoilt = {}, !.data.cursor_prev = OLD]
  BY DEF SetVideoMode
<1>2. now.data.visible_count < 0 /\ now.data.visible_count \in Int
  BY CountType DEF SetVideoMode, Held, TypeOK
<1>3. ~now.data.cursor_visible
  BY <1>2 DEF Held, Sound, Fresh, Shown
<1> QED
  BY <1>1, <1>2, <1>3
  DEF Held, TypeOK, Sound, Woken, Agreed, Drawn, Pointed, Fresh, HasAbs,
      States, Drivers

LEMMA WriteScreenSound ==
  ASSUME Held, Habits = {}, WriteScreen PROVE Sound(now)'
<1>1. PICK p \in Positions :
        /\ p \notin now.spoilt
        /\ now' = [now EXCEPT !.spoilt = @ \ {p},
                              !.data.cursor_prev = IF @ = p THEN OLD ELSE @]
  BY DEF WriteScreen
<1> DEFINE prev == IF now.data.cursor_prev = p THEN OLD ELSE now.data.cursor_prev
           t == [now EXCEPT !.data.cursor_prev = prev]
<1>2. now.spoilt \ {p} = now.spoilt /\ prev \in Positions \cup {OLD}
  BY <1>1 DEF Held, TypeOK, States, Drivers
<1>3. now' = t
  <2>1. now' = [now EXCEPT !.spoilt = now.spoilt \ {p}, !.data.cursor_prev = prev]
    BY <1>1, Zenon
  <2> HIDE DEF prev
  <2> QED BY <2>1, <1>2 DEF Held, TypeOK, States, Drivers
<1>4. Drawn(now) /\ now.data.cursor_visible /\ ~Hosted(now) =>
        prev = now.data.cursor_prev
  BY <1>1 DEF Drawn
<1> HIDE DEF prev
<1>5. Sound(t)
  BY <1>2, <1>4
  DEF Held, TypeOK, Sound, Woken, Agreed, Drawn, Pointed, Fresh, HasAbs,
      Hosted, ViaHost, Clips, Shown, States, Drivers
<1> QED BY <1>3, <1>5

LEMMA MouseEventSound ==
  ASSUME Held, Habits = {}, MouseEvent PROVE Sound(now)'
<1>1. PICK wants \in {now.host.wants}, p \in Positions :
        LET s == [now EXCEPT !.data.pos = p, !.host.wants = wants]
            abs == s.data.vbavail /\ HasAbs(s)
            heard == [s EXCEPT !.data.vbhaveabs = IF s.data.vbavail THEN abs
                                                                    ELSE @]
        IN  now' = Refresh(IF abs THEN RefreshVideo(heard) ELSE heard)
  BY DEF MouseEvent
<1> DEFINE s == [now EXCEPT !.data.pos = p, !.host.wants = wants]
           abs == s.data.vbavail /\ HasAbs(s)
           have == IF s.data.vbavail THEN abs ELSE s.data.vbhaveabs
           heard == [s EXCEPT !.data.vbhaveabs = have]
           v == IF abs THEN RefreshVideo(heard) ELSE heard
<1>2. now' = Refresh(v)
  BY <1>1, Zenon
<1>3. now \in States /\ Sound(now) /\ now.data.ready
  BY DEF Held, TypeOK, MouseEvent
<1>4. s = [now EXCEPT !.data.pos = p]
  BY <1>3 DEF States, Hosts
<1>5. s \in States /\ Sound(s)
  BY <1>3, <1>4, PlacedType, PlacedSound
<1>6. s.data.ready
  BY <1>3, <1>4 DEF States, Drivers
<1> HIDE DEF s
<1>7. have \in BOOLEAN
  BY <1>5 DEF HasAbs, States, Drivers, Hosts
<1>8. heard \in States
  <2> HIDE DEF have
  <2> QED BY <1>5, <1>7 DEF States, Drivers
<1>9. heard.data.vbavail => heard.data.vbhaveabs = HasAbs(heard)
  BY <1>5 DEF HasAbs, States, Drivers, Hosts
<1>10. s.data.cursor_visible => have = s.data.vbhaveabs
  BY <1>5 DEF Sound, Agreed, HasAbs, States, Drivers, Hosts
<1>11. Fit(heard)
  <2> HIDE DEF have
  <2> QED
    BY <1>5, <1>6, <1>8, <1>9, <1>10
    DEF Fit, Sound, Woken, Agreed, Drawn, Pointed, Fresh, HasAbs, Hosted,
        ViaHost, Clips, Shown, States, Drivers
<1> HIDE DEF heard
<1>12. v \in States /\ Fit(v)
  BY <1>8, <1>11, VideoType, RefreshVideoSound DEF Fit
<1> HIDE DEF v
<1> QED BY <1>2, <1>12, RefreshSound

LEMMA WindowsSound ==
  ASSUME Held, WindowsStart \/ WindowsStop \/ WindowsCursor \/ WindowsEvent
  PROVE  Sound(now)'
<1> USE DEF Held, TypeOK, Sound, Fit, Woken, Agreed, Drawn, Pointed, Fresh,
            HasAbs, Hosted, ViaHost, Clips, Shown, States, Drivers
<1>1. CASE WindowsStart
  BY <1>1 DEF WindowsStart
<1>2. CASE WindowsStop
  BY <1>2 DEF WindowsStop
<1>3. CASE WindowsCursor
  <2>1. PICK on \in BOOLEAN : now' = Refresh([now EXCEPT !.data.w386cursor = on])
    BY <1>3 DEF WindowsCursor
  <2> DEFINE t == [now EXCEPT !.data.w386cursor = on]
  <2>2. t \in States /\ Fit(t)
    BY <1>3 DEF WindowsCursor
  <2> HIDE DEF t
  <2> QED BY <2>1, <2>2, RefreshSound DEF t
<1>4. CASE WindowsEvent
  <2>1. PICK p \in Positions : now' = Refresh([now EXCEPT !.data.pos = p])
    BY <1>4 DEF WindowsEvent
  <2> DEFINE t == [now EXCEPT !.data.pos = p]
  <2>2. t \in States /\ Fit(t)
    BY <1>4 DEF WindowsEvent
  <2> HIDE DEF t
  <2> QED BY <2>1, <2>2, RefreshSound DEF t
<1> QED BY <1>1, <1>2, <1>3, <1>4

\* The reset takes the host's pointer away while it is still wanted.
LEMMA HostCursorSound == ASSUME Held, HostCursor PROVE Sound(now)'
<1> DEFINE r == Reset(now)
<1>1. PICK on \in BOOLEAN :
        now' = [r EXCEPT !.data.vbwantcursor = IF now.data.vbavail THEN on ELSE @]
  BY DEF HostCursor
<1> DEFINE wants == IF now.data.vbavail THEN on ELSE r.data.vbwantcursor
           t == [r EXCEPT !.data.vbwantcursor = wants]
<1>2. now' = t
  BY <1>1, Zenon
<1>3. /\ r \in States /\ Sound(r) /\ ~r.data.cursor_visible
      /\ r.data.vbavail = now.data.vbavail
      /\ r.data.vbavail => ~r.host.pointer
  BY ResetType, ResetSound DEF Held, TypeOK
<1> HIDE DEF r
<1>4. wants \in BOOLEAN
  BY <1>3 DEF States, Drivers
<1>5. ~r.data.vbavail => wants = r.data.vbwantcursor
  BY <1>3
<1> HIDE DEF wants
<1>6. Sound(t)
  BY <1>3, <1>4, <1>5
  DEF Sound, Woken, Agreed, Drawn, Pointed, Fresh, HasAbs, Hosted, ViaHost,
      Clips, Shown, States, Drivers
<1> QED BY <1>2, <1>6

LEMMA IntegSound ==
  ASSUME Held, Habits = {}, IntegOn \/ IntegOff PROVE Sound(now)'
<1>1. now.data.visible_count < 0 /\ now.data.visible_count \in Int
  BY CountType DEF IntegOn, IntegOff, MayInteg, Held, TypeOK
<1>2. ~now.data.cursor_visible
  BY <1>1 DEF Held, Sound, Fresh, Shown
<1>3. CASE IntegOn
  <2>1. /\ now'.data.vbavail = HasVBox /\ now'.host = now.host
        /\ now'.data.visible_count = now.data.visible_count
        /\ now'.data.ready = now.data.ready
        /\ now'.data.haswin386 = now.data.haswin386
        /\ now'.data.vbwantcursor = now.data.vbwantcursor
        /\ now'.data.cursor_visible = now.data.cursor_visible
        /\ now'.spoilt = now.spoilt
    BY <1>3 DEF IntegOn, Held, TypeOK, States, Drivers
  <2> QED
    BY <1>1, <1>2, <2>1
    DEF Held, Sound, Woken, Agreed, Drawn, Pointed, Fresh, HasAbs
<1>4. CASE IntegOff
  BY <1>1, <1>2, <1>4
  DEF IntegOff, Held, TypeOK, Sound, Woken, Agreed, Drawn, Pointed, Fresh,
      HasAbs, States, Drivers, Hosts
<1> QED BY <1>3, <1>4

-----------------------------------------------------------------------------
(* Theorems *)

LEMMA StartSound == Init => Sound(now)
  BY DEF Init, Sound, Woken, Agreed, Drawn, Pointed, Fresh, HasAbs, Hosted,
         ViaHost

LEMMA StepSound ==
  ASSUME Habits = {}
  PROVE  Held /\ [Next]_now => Sound(now)'
<1> SUFFICES ASSUME Held, [Next]_now PROVE Sound(now)'
  OBVIOUS
<1>1. CASE ResetMouse
  BY <1>1, ResetSound, SoftResetSound DEF ResetMouse, Held, TypeOK
<1>2. CASE UNCHANGED now
  BY <1>2 DEF Held
<1> QED
  BY <1>1, <1>2, AskedSound, CursorShapeSound, SetWindowSound,
     SetVideoModeSound, WriteScreenSound, MouseEventSound, WindowsSound,
     HostCursorSound, IntegSound DEF Next

\* While none of the habits is indulged in, the driver's view of the screen, of
\* the host and of the cursor stays the one that every call relies on
\* (mousetsr.c: refresh_cursor).
THEOREM Soundness == ASSUME Habits = {} PROVE Spec => []Held
<1>1. Init => Held
  BY StartType, StartSound DEF Held
<1>2. Held /\ [Next]_now => Held'
  BY StepType, StepSound DEF Held
<1> QED BY <1>1, <1>2, PTL DEF Spec

\* The screen is as programs left it, but for the cursor that the driver knows
\* it has drawn (mousetsr.c:68), in any order of resets, video modes, hides and
\* changes between the host's cursor and the driver's.
THEOREM ScreenRestored == ASSUME Habits = {} PROVE Spec => []ScreenIsRestored
<1>1. Held => ScreenIsRestored
  BY DEF Held, Sound, Drawn, ScreenIsRestored
<1> QED BY <1>1, Soundness, PTL

\* The host shows its pointer only while the driver knows that it does, and
\* never besides a cursor on the screen (mousetsr.c: refresh_cursor,
\* hide_cursor).
THEOREM PointerKnown == ASSUME Habits = {} PROVE Spec => []PointerIsKnown
<1>1. Held => PointerIsKnown
  BY DEF Held, TypeOK, Sound, Drawn, Pointed, Agreed, Fresh, Hosted, ViaHost,
         HasAbs, PointerIsKnown, States, Drivers, Hosts
<1> QED BY <1>1, Soundness, PTL

=============================================================================
