---------------------------- MODULE MousePackets ----------------------------
(***************************************************************************)
(* How VBMOUSE puts packets together from the bytes of a PS/2 mouse        *)
(* (ps2_mouse_handler, reset_mouse_hardware).  The BIOS calls the driver   *)
(* for each byte, and the driver must find out by itself where packets     *)
(* begin: it counts, and starts again when a packet takes too long.        *)
(*                                                                         *)
(* A byte is its place in its packet, and which packet that is (a bit).    *)
(* What a packet means is left out, and so is the VMware backdoor, which   *)
(* only uses packets as a signal.  An int 33h function is one step: it     *)
(* runs with interrupts off.                                               *)
(***************************************************************************)
EXTENDS Naturals

CONSTANTS
  MaxDelay,        \* MAX_PS2_PACKET_DELAY
  TickLimit,       \* the BIOS clock, as read, counts from 0 to TickLimit - 1
  ClockStart,      \* what it shows at tick 0
  MaxTick,         \* bound: ticks that are modelled
  WheelMouse,      \* the mouse knows the IMPS2 protocol
  SavesInHandler,  \* an event handler may save the state of the driver
  NIL              \* no saved state

ASSUME MousePacketsAssumption ==
  /\ MaxDelay \in Nat \ {0} /\ TickLimit \in Nat \ {0}
  /\ ClockStart \in 0 .. TickLimit - 1 /\ MaxTick \in Nat
  /\ WheelMouse \in BOOLEAN /\ SavesInHandler \in BOOLEAN

VARIABLES
  mouse,     \* the device: enabled, packet length, and the next byte it sends
  bios,      \* bytes the BIOS collects for a call: 1 (streaming) or 3 (plain)
  tick,      \* time
  drv,       \* TSRDATA, without ps2_packet
  packet,    \* ps2_packet: which packet its last byte is from, and whether its
             \* bytes up to count are the first ones of that packet
  handling,  \* "byte" or "plain": in handle_ps2_packet for that branch, or "no"
  saved,     \* what a program saved of drv, or NIL
  seen       \* history, see Watched

vars == <<mouse, bios, tick, drv, packet, handling, saved, seen>>

Plain == 3  \* PS2M_PACKET_SIZE_PLAIN
Ext == 4    \* PS2M_PACKET_SIZE_EXT
Streaming == 1

Clock == (ClockStart + tick) % TickLimit  \* bda_get_tick_count_lo

\* mode is bios_packet_size, count cur_packet_bytes, stamp cur_packet_ticks.
Setup == [mode : {0, Streaming, Plain}, size : {0, Plain, Ext},
          count : 0 .. Ext, stamp : 0 .. TickLimit - 1, usewheel : BOOLEAN]

TypeOK ==
  /\ mouse \in [on : BOOLEAN, len : {Plain, Ext}, pos : 0 .. Ext - 1, id : {0, 1}]
  /\ mouse.pos < mouse.len
  /\ bios \in {Streaming, Plain}
  /\ tick \in 0 .. MaxTick
  /\ drv \in Setup
  /\ packet \in [id : {0, 1}, whole : BOOLEAN]
  /\ handling \in {"no", "byte", "plain"}
  /\ saved \in Setup \cup {NIL}
  /\ seen \in [pause : 0 .. MaxDelay, age : 0 .. MaxDelay, clean : BOOLEAN]

-----------------------------------------------------------------------------
(* The mouse *)

\* The byte the mouse sends next is sent, n bytes in all.
Sends(n) ==
  LET wraps == mouse.pos + n >= mouse.len IN
  mouse' = [mouse EXCEPT !.pos = (@ + n) % mouse.len,
                         !.id = IF wraps THEN 1 - @ ELSE @]

\* A mouse that was reset, or knocked into the IMPS2 protocol, starts over.
StartsOver(len) ==
  mouse' = [on |-> TRUE, len |-> len, pos |-> 0, id |-> 0]

\* A byte that does not reach the driver: another program took it.
LoseByte ==
  /\ mouse.on
  /\ Sends(1)
  /\ seen' = [seen EXCEPT !.clean = FALSE]
  /\ UNCHANGED <<bios, tick, drv, packet, handling, saved>>

\* Ticks are counted up to MaxDelay.
OneMore(n) == IF n < MaxDelay THEN n + 1 ELSE n

Tick ==
  /\ tick < MaxTick
  /\ tick' = tick + 1
  /\ seen' = [seen EXCEPT !.pause = OneMore(@), !.age = OneMore(@)]
  /\ UNCHANGED <<mouse, bios, drv, packet, handling, saved>>

-----------------------------------------------------------------------------
(* ps2_mouse_handler *)

\* Mutant: a packet never takes too long.
LateMutant == FALSE

\* The packet that is under way has taken too long.
Late == drv.count > 0 /\ Clock >= (drv.stamp + MaxDelay) % TickLimit

\* Where the byte goes.
Index == IF Late THEN 0 ELSE drv.count

\* So many bytes are a packet.
Complete(n) == n >= drv.size

\* The packet with the byte of the mouse.
Added == [id |-> mouse.id,
          whole |-> /\ mouse.pos = Index
                    /\ Index = 0 \/ (packet.whole /\ mouse.id = packet.id)]

\* History: the ticks since the last byte and since the first byte of its
\* packet, and whether all is well.  After a pause the first byte of a packet
\* makes up for what went wrong before it, if driver and mouse agree on packets
\* at all; a byte that comes too late after the first of its packet is trouble.
Watched ==
  IF mouse.pos = 0
    THEN [pause |-> 0, age |-> 0,
          clean |-> \/ seen.clean
                    \/ /\ seen.pause = MaxDelay
                       /\ bios = Streaming /\ drv.mode = Streaming
                       /\ drv.size = mouse.len]
    ELSE [seen EXCEPT !.pause = 0, !.clean = @ /\ seen.age < MaxDelay]

\* A byte, when driver and BIOS are in streaming mode or the BIOS calls for
\* three bytes of which the driver takes the first.
Byte ==
  /\ mouse.on /\ handling = "no" /\ drv.mode # Plain
  /\ Sends(bios)
  /\ drv' = [drv EXCEPT !.count = Index + 1,
                        !.stamp = IF Index = 0 THEN Clock ELSE @]
  /\ packet' = Added
  /\ handling' = IF Complete(Index + 1) THEN "byte" ELSE "no"
  /\ seen' = Watched
  /\ UNCHANGED <<bios, tick, saved>>

\* Three bytes, or one and two words that the BIOS left as they were.
PlainPacket ==
  /\ mouse.on /\ handling = "no" /\ drv.mode = Plain
  /\ Sends(bios)
  /\ packet' = [id |-> mouse.id, whole |-> bios = Plain /\ mouse.pos = 0]
  /\ handling' = "plain"
  /\ UNCHANGED <<bios, tick, drv, saved, seen>>

\* handle_ps2_packet, with the event handler of the program, returns.
PacketHandled ==
  /\ handling # "no" /\ handling' = "no"
  /\ drv' = IF handling = "byte" THEN [drv EXCEPT !.count = 0] ELSE drv
  /\ UNCHANGED <<mouse, bios, tick, packet, saved, seen>>

-----------------------------------------------------------------------------
(* int 33h functions, in the program or in its event handler *)

\* Mutant: the bytes counted so far stay.
ResetMutant(knows) ==
  LET mode == IF knows THEN Streaming ELSE Plain
      wheel == drv.usewheel /\ mode = Streaming /\ WheelMouse
      len == IF wheel THEN Ext ELSE Plain
  IN /\ bios' = mode
     /\ StartsOver(len)
     /\ drv' = [drv EXCEPT !.mode = mode, !.size = len]
     /\ seen' = [seen EXCEPT !.clean = TRUE]
     /\ UNCHANGED <<tick, packet, handling, saved>>

\* reset_mouse_hardware.  The BIOS may not know the streaming mode, nor does
\* Windows.
Reset(knows) ==
  LET mode == IF knows THEN Streaming ELSE Plain
      wheel == drv.usewheel /\ mode = Streaming /\ WheelMouse
      len == IF wheel THEN Ext ELSE Plain
  IN /\ bios' = mode
     /\ StartsOver(len)
     /\ drv' = [drv EXCEPT !.mode = mode, !.size = len, !.count = 0, !.stamp = 0]
     /\ seen' = [seen EXCEPT !.clean = TRUE]
     /\ UNCHANGED <<tick, packet, handling, saved>>

Save ==
  /\ handling = "no" \/ SavesInHandler
  /\ saved' = drv
  /\ UNCHANGED <<mouse, bios, tick, drv, packet, handling, seen>>

\* All of TSRDATA is copied back, whatever has become of mouse and BIOS.  The
\* bytes in ps2_packet are of a packet that has gone by.
Load ==
  /\ saved # NIL
  /\ drv' = saved /\ packet' = [packet EXCEPT !.whole = FALSE]
  /\ seen' = [seen EXCEPT !.clean = FALSE]
  /\ UNCHANGED <<mouse, bios, tick, handling, saved>>

-----------------------------------------------------------------------------
(* The transient program *)

\* vbmouse wheel on: detect_wheel knocks, but packet_size waits for a reset.
WheelOn ==
  /\ handling = "no"
  /\ drv' = [drv EXCEPT !.usewheel = TRUE]
  /\ mouse' = [mouse EXCEPT !.pos = 0, !.len = IF WheelMouse THEN Ext ELSE @]
  /\ seen' = [seen EXCEPT !.clean = FALSE]
  /\ UNCHANGED <<bios, tick, packet, handling, saved>>

WheelOff ==
  /\ handling = "no"
  /\ drv' = [drv EXCEPT !.usewheel = FALSE]
  /\ UNCHANGED <<mouse, bios, tick, packet, handling, saved, seen>>

-----------------------------------------------------------------------------
\* configure_driver has knocked the mouse, which stays off until the first
\* reset.
Init ==
  /\ mouse = [on |-> FALSE, len |-> IF WheelMouse THEN Ext ELSE Plain,
              pos |-> 0, id |-> 0]
  /\ bios = Plain /\ tick = 0
  /\ drv = [mode |-> 0, size |-> 0, count |-> 0, stamp |-> 0,
            usewheel |-> TRUE]
  /\ packet = [id |-> 0, whole |-> FALSE]
  /\ handling = "no" /\ saved = NIL
  /\ seen = [pause |-> 0, age |-> 0, clean |-> FALSE]

Next ==
  \/ LoseByte \/ Tick \/ Byte \/ PlainPacket \/ PacketHandled
  \/ Save \/ Load \/ WheelOn \/ WheelOff
  \/ \E knows \in BOOLEAN : Reset(knows)

Spec == Init /\ [][Next]_vars

-----------------------------------------------------------------------------
\* A packet that is handled is one that the mouse sent, from its first byte to
\* its last, unless a byte was lost, late or mistaken since the mouse last
\* paused between packets.
PacketsAreWhole ==
  [][handling = "no" /\ handling' # "no" /\ seen'.clean => packet'.whole]_vars

\* The driver never falls out of step with the mouse without such a cause, so
\* it misses no packet either.
KeepsStep ==
  seen.clean /\ handling = "no" /\ drv.mode = Streaming => mouse.pos = drv.count

\* "number of bytes received so far (< packet_size)" (mousetsr.h:117), between
\* two calls of the BIOS: the next byte has its place in ps2_packet.
ByteHasAPlace == handling = "no" => drv.count < drv.size \/ drv.count = 0
=============================================================================
