------------------------- MODULE MousePacketsProofs -------------------------
(***************************************************************************)
(* Proofs about MousePackets: for any delay, clock and number of ticks, as *)
(* long as the clock does not wrap around, packets stay whole.             *)
(***************************************************************************)
EXTENDS MousePackets, TLAPS

\* The clock does not reach its limit while it is looked at.
NoWrap == ClockStart + MaxTick + MaxDelay < TickLimit

-----------------------------------------------------------------------------
(* The invariant *)

Placed(d) == d.count < d.size \/ d.count = 0

\* There is room for the next byte, also in a state that a program has saved.
Places ==
  /\ handling # "byte" => Placed(drv)
  /\ saved # NIL => Placed(saved)

\* The packet under way began no later than the last byte was sent.
Stamps ==
  /\ drv.count > 0 => drv.stamp + seen.pause <= ClockStart + tick
  /\ saved # NIL /\ saved.count > 0 =>
       saved.stamp + seen.pause <= ClockStart + tick

\* A driver that counts bytes is where the mouse is, and it has the first bytes
\* of the packet that the mouse is sending since no more than its age.
CountsRight ==
  /\ bios = Streaming /\ drv.size = mouse.len
  /\ handling = "byte" => mouse.pos = 0
  /\ handling # "byte" =>
       /\ mouse.pos = drv.count
       /\ drv.count > 0 => packet.whole /\ packet.id = mouse.id
       /\ drv.count > 0 /\ seen.age < MaxDelay =>
            ClockStart + tick <= drv.stamp + seen.age

InStep ==
  /\ seen.clean => drv.mode # 0
  /\ seen.clean /\ drv.mode = Plain =>
       bios = Plain /\ mouse.pos = 0 /\ mouse.len = Plain
  /\ seen.clean /\ drv.mode = Streaming => CountsRight

IInv == TypeOK /\ Places /\ Stamps /\ InStep

-----------------------------------------------------------------------------
(* Lemmas *)

\* What is below the limit is its own remainder.
LEMMA SmallMod ==
  ASSUME NEW n \in Nat \ {0}, NEW x \in 0 .. n - 1
  PROVE  x % n = x
OBVIOUS

\* The clock shows the ticks.
LEMMA ClockIs ==
  ASSUME NoWrap, TypeOK
  PROVE  Clock = ClockStart + tick /\ Clock \in 0 .. TickLimit - 1
<1>1. ClockStart + tick \in 0 .. TickLimit - 1
  BY MousePacketsAssumption DEF NoWrap, TypeOK
<1>2. (ClockStart + tick) % TickLimit = ClockStart + tick
  BY <1>1, SmallMod, MousePacketsAssumption
<1> QED BY <1>1, <1>2 DEF Clock

\* A packet is late when it began MaxDelay ticks ago.
LEMMA LateIs ==
  ASSUME NoWrap, TypeOK, drv.count > 0 => drv.stamp <= ClockStart + tick
  PROVE  Late <=> drv.count > 0 /\ ClockStart + tick >= drv.stamp + MaxDelay
<1>1. CASE drv.count > 0
  <2>1. drv.stamp + MaxDelay \in 0 .. TickLimit - 1
    BY <1>1, MousePacketsAssumption DEF NoWrap, TypeOK, Setup
  <2>2. (drv.stamp + MaxDelay) % TickLimit = drv.stamp + MaxDelay
    BY <2>1, SmallMod, MousePacketsAssumption
  <2> QED BY <1>1, <2>2, ClockIs DEF Late
<1>2. CASE ~(drv.count > 0)
  BY <1>2 DEF Late
<1> QED BY <1>1, <1>2

\* The next byte that the mouse sends.
LEMMA SendsIs ==
  ASSUME TypeOK, NEW n \in {Streaming, Plain}, Sends(n)
  PROVE  /\ mouse' \in [on : BOOLEAN, len : {Plain, Ext}, pos : 0 .. Ext - 1,
                        id : {0, 1}]
         /\ mouse'.pos < mouse'.len /\ mouse'.len = mouse.len
         /\ n = Streaming /\ mouse.pos + 1 < mouse.len =>
              mouse'.pos = mouse.pos + 1 /\ mouse'.id = mouse.id
         /\ n = Streaming /\ mouse.pos + 1 >= mouse.len => mouse'.pos = 0
         /\ n = Plain /\ mouse.pos = 0 /\ mouse.len = Plain => mouse'.pos = 0
<1> DEFINE p == (mouse.pos + n) % mouse.len
<1>1. /\ p \in 0 .. Ext - 1 /\ p < mouse.len
      /\ n = 1 /\ mouse.pos + 1 < mouse.len => p = mouse.pos + 1
      /\ n = 1 /\ mouse.pos + 1 >= mouse.len => p = 0
      /\ n = 3 /\ mouse.pos = 0 /\ mouse.len = 3 => p = 0
  <2>1. CASE mouse.len = 3
    BY <2>1 DEF TypeOK, Streaming, Plain, Ext
  <2>2. CASE mouse.len = 4
    BY <2>2 DEF TypeOK, Streaming, Plain, Ext
  <2> QED BY <2>1, <2>2 DEF TypeOK, Plain, Ext
<1>2. /\ mouse'.pos = p /\ mouse'.len = mouse.len /\ mouse'.on = mouse.on
      /\ mouse'.id = IF mouse.pos + n >= mouse.len THEN 1 - mouse.id ELSE mouse.id
      /\ mouse' = [on |-> mouse'.on, len |-> mouse'.len, pos |-> mouse'.pos,
                   id |-> mouse'.id]
  BY DEF Sends, TypeOK
<1> HIDE DEF p
<1> QED BY <1>1, <1>2 DEF TypeOK, Streaming, Plain, Ext

\* Where a byte goes there is room.
LEMMA IndexIs ==
  ASSUME TypeOK, Places, handling = "no"
  PROVE  Index \in 0 .. Ext - 1 /\ (Index = 0 \/ Index = drv.count)
BY DEF Index, TypeOK, Places, Placed, Setup, Plain, Ext

-----------------------------------------------------------------------------
(* Initial states *)

LEMMA InitIInv == Init => IInv
<1> SUFFICES ASSUME Init PROVE IInv
  OBVIOUS
<1>1. TypeOK
  BY MousePacketsAssumption DEF Init, TypeOK, Setup, Plain, Ext, Streaming
<1>2. Places /\ Stamps /\ InStep
  BY DEF Init, Places, Placed, Stamps, InStep
<1> QED BY <1>1, <1>2 DEF IInv

-----------------------------------------------------------------------------
(* Each action *)

LEMMA LoseByteIInv == IInv /\ LoseByte => IInv'
<1> SUFFICES ASSUME IInv, LoseByte PROVE IInv'
  OBVIOUS
<1>1. TypeOK'
  <2>1. /\ mouse' \in [on : BOOLEAN, len : {Plain, Ext}, pos : 0 .. Ext - 1,
                        id : {0, 1}]
        /\ mouse'.pos < mouse'.len
    BY SendsIs DEF IInv, LoseByte, Streaming, Plain
  <2> QED BY <2>1 DEF IInv, LoseByte, TypeOK
<1>2. Places' /\ Stamps'
  BY DEF IInv, LoseByte, Places, Stamps, TypeOK
<1>3. InStep'
  BY DEF IInv, LoseByte, InStep, TypeOK
<1> QED BY <1>1, <1>2, <1>3 DEF IInv

LEMMA TickIInv == IInv /\ Tick => IInv'
<1> SUFFICES ASSUME IInv, Tick PROVE IInv'
  OBVIOUS
<1>1. /\ seen'.pause = OneMore(seen.pause) /\ seen'.age = OneMore(seen.age)
      /\ seen'.clean = seen.clean
      /\ seen' \in [pause : 0 .. MaxDelay, age : 0 .. MaxDelay, clean : BOOLEAN]
  <2>1. ASSUME NEW n \in 0 .. MaxDelay PROVE OneMore(n) \in 0 .. MaxDelay
    BY MousePacketsAssumption DEF OneMore
  <2>2. seen' = [pause |-> OneMore(seen.pause), age |-> OneMore(seen.age),
                 clean |-> seen.clean]
    BY DEF IInv, Tick, TypeOK
  <2>3. /\ seen.pause \in 0 .. MaxDelay /\ seen.age \in 0 .. MaxDelay
        /\ seen.clean \in BOOLEAN
    BY DEF IInv, TypeOK
  <2>4. OneMore(seen.pause) \in 0 .. MaxDelay /\ OneMore(seen.age) \in 0 .. MaxDelay
    BY <2>1, <2>3
  <2> QED BY <2>2, <2>3, <2>4
<1>2. TypeOK'
  BY <1>1, MousePacketsAssumption DEF IInv, Tick, TypeOK
<1>3. Places'
  BY DEF IInv, Tick, Places
<1>4. seen'.pause <= seen.pause + 1
  BY <1>1, MousePacketsAssumption DEF IInv, TypeOK, OneMore
<1>5. Stamps'
  <2>1. ASSUME NEW d \in Setup, d.stamp + seen.pause <= ClockStart + tick
        PROVE  d.stamp + seen'.pause <= ClockStart + tick'
    <3>1. d.stamp \in Nat /\ ClockStart \in Nat
      BY MousePacketsAssumption DEF Setup
    <3>2. /\ seen.pause \in Nat /\ seen'.pause \in Nat
          /\ tick \in Nat /\ tick' = tick + 1
      <4>1. seen.pause \in 0 .. MaxDelay /\ seen'.pause \in 0 .. MaxDelay
        BY <1>1 DEF IInv, TypeOK
      <4>2. tick \in 0 .. MaxTick /\ tick' = tick + 1
        BY DEF IInv, TypeOK, Tick
      <4> QED BY <4>1, <4>2, MousePacketsAssumption
    <3> QED BY <1>4, <2>1, <3>1, <3>2
  <2>2. drv \in Setup /\ drv' = drv /\ saved' = saved
        /\ (saved # NIL => saved \in Setup)
    BY DEF IInv, TypeOK, Tick
  <2> QED BY <2>1, <2>2 DEF IInv, Stamps
<1>6. seen'.age < MaxDelay => seen.age < MaxDelay /\ seen'.age = seen.age + 1
  BY <1>1, MousePacketsAssumption DEF IInv, TypeOK, OneMore
<1>7. InStep'
  BY <1>1, <1>6, MousePacketsAssumption
     DEF IInv, Tick, TypeOK, InStep, CountsRight, Setup
<1> QED BY <1>2, <1>3, <1>5, <1>7 DEF IInv

\* What becomes of a byte while the driver is in step, or gets into it again.
LEMMA ByteInStep ==
  ASSUME NoWrap, IInv, Byte, seen'.clean, drv.mode = Streaming
  PROVE  /\ bios = Streaming /\ drv.size = mouse.len
         /\ Index = mouse.pos /\ Added.whole
         /\ Index # 0 => /\ seen.clean /\ seen' = [seen EXCEPT !.pause = 0,
                                                     !.clean = TRUE]
                         /\ drv.count = Index /\ packet.id = mouse.id
<1>1. drv.count > 0 => drv.stamp <= ClockStart + tick
  BY MousePacketsAssumption DEF IInv, Stamps, TypeOK, Setup
<1>2. Late <=> drv.count > 0 /\ ClockStart + tick >= drv.stamp + MaxDelay
  BY <1>1, LateIs DEF IInv
<1>3. CASE seen.clean
  <2>1. CountsRight /\ handling = "no"
    BY <1>3 DEF IInv, InStep, Byte
  <2>2. CASE mouse.pos = 0
    <3>1. drv.count = 0
      BY <2>1, <2>2 DEF CountsRight
    <3> QED BY <2>1, <2>2, <3>1 DEF CountsRight, Index, Late, Added
  <2>3. CASE mouse.pos # 0
    <3>1. drv.count = mouse.pos /\ drv.count > 0
      BY <2>1, <2>3 DEF CountsRight, IInv, TypeOK, Ext
    <3>2. /\ seen' = [seen EXCEPT !.pause = 0, !.clean = TRUE]
          /\ seen.age < MaxDelay
      <4>1. seen' = [seen EXCEPT !.pause = 0, !.clean = @ /\ seen.age < MaxDelay]
        BY <2>3 DEF Byte, Watched
      <4>2. seen'.clean = (seen.clean /\ seen.age < MaxDelay)
        BY <4>1 DEF IInv, TypeOK
      <4>3. seen.age < MaxDelay
        BY <4>2
      <4> QED BY <4>1, <4>3, <1>3
    <3>3. ~Late
      BY <1>2, <2>1, <3>1, <3>2, MousePacketsAssumption
         DEF CountsRight, IInv, TypeOK, Setup
    <3>4. packet.whole /\ packet.id = mouse.id
      BY <2>1, <3>1 DEF CountsRight
    <3> QED BY <1>3, <2>1, <3>1, <3>2, <3>3, <3>4 DEF CountsRight, Index, Added
  <2> QED BY <2>2, <2>3
<1>4. CASE ~seen.clean
  <2>1. /\ mouse.pos = 0 /\ seen.pause = MaxDelay
        /\ bios = Streaming /\ drv.size = mouse.len
    <3>1. mouse.pos = 0
      <4>1. SUFFICES ASSUME mouse.pos # 0 PROVE FALSE
        OBVIOUS
      <4>2. seen' = [seen EXCEPT !.pause = 0, !.clean = @ /\ seen.age < MaxDelay]
        BY <4>1 DEF Byte, Watched
      <4> QED BY <1>4, <4>2 DEF IInv, TypeOK
    <3> QED BY <1>4, <3>1 DEF Byte, Watched
  <2>2. drv.count > 0 => Late
    BY <1>2, <2>1, MousePacketsAssumption DEF IInv, Stamps, TypeOK, Setup
  <2>3. Index = 0
    BY <2>2 DEF Index, IInv, TypeOK, Setup, Ext
  <2> QED BY <2>1, <2>3 DEF Added
<1> QED BY <1>3, <1>4

LEMMA ByteIInv == NoWrap /\ IInv /\ Byte => IInv'
<1> SUFFICES ASSUME NoWrap, IInv, Byte PROVE IInv'
  OBVIOUS
<1> DEFINE i == Index
<1>1. i \in 0 .. Ext - 1 /\ (i = 0 \/ i = drv.count)
  BY IndexIs DEF IInv, Byte
<1>2. /\ drv'.count = i + 1 /\ drv'.size = drv.size /\ drv'.mode = drv.mode
      /\ drv'.stamp = IF i = 0 THEN Clock ELSE drv.stamp
      /\ drv' = [drv EXCEPT !.count = i + 1, !.stamp = drv'.stamp]
  BY DEF Byte, IInv, TypeOK, Setup
<1>3. Clock = ClockStart + tick /\ Clock \in 0 .. TickLimit - 1
  BY ClockIs DEF IInv
<1>4. /\ mouse' \in [on : BOOLEAN, len : {Plain, Ext}, pos : 0 .. Ext - 1,
                     id : {0, 1}]
      /\ mouse'.pos < mouse'.len /\ mouse'.len = mouse.len
      /\ bios = Streaming /\ mouse.pos + 1 < mouse.len =>
           mouse'.pos = mouse.pos + 1 /\ mouse'.id = mouse.id
      /\ bios = Streaming /\ mouse.pos + 1 >= mouse.len => mouse'.pos = 0
  BY SendsIs DEF IInv, Byte, TypeOK
<1>5. /\ seen' \in [pause : 0 .. MaxDelay, age : 0 .. MaxDelay, clean : BOOLEAN]
      /\ seen'.pause = 0
  <2>1. CASE mouse.pos = 0
    BY <2>1, MousePacketsAssumption DEF IInv, TypeOK, Byte, Watched
  <2>2. CASE mouse.pos # 0
    <3> DEFINE clean == seen.clean /\ seen.age < MaxDelay
    <3>1. seen' = [seen EXCEPT !.pause = 0, !.clean = clean]
      BY <2>2 DEF IInv, TypeOK, Byte, Watched
    <3>2. clean \in BOOLEAN
      OBVIOUS
    <3> HIDE DEF clean
    <3>3. seen' = [pause |-> 0, age |-> seen.age, clean |-> clean]
      BY <3>1 DEF IInv, TypeOK
    <3>4. seen.age \in 0 .. MaxDelay /\ 0 \in 0 .. MaxDelay
      BY MousePacketsAssumption DEF IInv, TypeOK
    <3> QED BY <3>2, <3>3, <3>4
  <2> QED BY <2>1, <2>2
<1>6. drv' \in Setup
  <2>1. i + 1 \in 0 .. Ext /\ drv'.stamp \in 0 .. TickLimit - 1
    BY <1>1, <1>2, <1>3 DEF IInv, TypeOK, Setup, Ext
  <2> HIDE DEF i
  <2> QED BY <1>2, <2>1 DEF IInv, TypeOK, Setup
<1>7. handling' = IF i + 1 >= drv.size THEN "byte" ELSE "no"
  BY DEF Byte, Complete
<1>8. TypeOK'
  <2>1. packet' \in [id : {0, 1}, whole : BOOLEAN]
    <3>1. packet'.whole \in BOOLEAN /\ packet'.id \in {0, 1}
          /\ packet' = [id |-> packet'.id, whole |-> packet'.whole]
      BY DEF Byte, Added, IInv, TypeOK
    <3> QED BY <3>1
  <2> HIDE DEF i
  <2> QED BY <1>4, <1>5, <1>6, <1>7, <2>1 DEF IInv, TypeOK, Byte
<1>9. Places'
  <2> HIDE DEF i
  <2> QED BY <1>1, <1>2, <1>7 DEF IInv, Places, Placed, Byte, TypeOK, Setup, Plain, Ext
<1>10. Stamps'
  <2>1. drv'.stamp <= ClockStart + tick
    BY <1>1, <1>2, <1>3, MousePacketsAssumption DEF IInv, Stamps, TypeOK, Setup
  <2>2. saved # NIL /\ saved.count > 0 => saved.stamp <= ClockStart + tick
    <3>1. SUFFICES ASSUME saved # NIL, saved.count > 0
                   PROVE  saved.stamp <= ClockStart + tick
      OBVIOUS
    <3>2. saved \in Setup /\ saved.stamp + seen.pause <= ClockStart + tick
      BY <3>1 DEF IInv, Stamps, TypeOK
    <3>3. /\ saved.stamp \in Nat /\ seen.pause \in Nat
          /\ ClockStart \in Nat /\ tick \in Nat
      BY <3>2, MousePacketsAssumption DEF IInv, TypeOK, Setup
    <3> QED BY <3>2, <3>3
  <2>3. /\ drv'.stamp \in Nat /\ seen'.pause = 0
        /\ tick' = tick /\ saved' = saved
        /\ (saved # NIL => saved.stamp \in Nat)
    <3>1. ASSUME NEW d \in Setup PROVE d.stamp \in Nat
      BY MousePacketsAssumption DEF Setup
    <3>2. drv'.stamp \in Nat
      BY <1>6, <3>1
    <3>3. tick' = tick /\ saved' = saved
      BY DEF Byte
    <3>4. saved # NIL => saved.stamp \in Nat
      BY <3>1 DEF IInv, TypeOK
    <3> QED BY <1>5, <3>2, <3>3, <3>4
  <2>4. drv'.stamp + 0 = drv'.stamp /\ (saved # NIL => saved.stamp + 0 = saved.stamp)
    BY <2>3
  <2> QED BY <2>1, <2>2, <2>3, <2>4 DEF Stamps
<1>11. InStep'
  <2>1. seen'.clean => drv.mode = Streaming
    <3>1. CASE mouse.pos = 0
      BY <3>1 DEF Byte, Watched, IInv, InStep, TypeOK, Setup, Streaming, Plain
    <3>2. CASE mouse.pos # 0
      BY <3>2 DEF Byte, Watched, IInv, InStep, TypeOK, Setup, Streaming, Plain
    <3> QED BY <3>1, <3>2
  <2>2. ASSUME seen'.clean PROVE CountsRight'
    <3>1. /\ bios = Streaming /\ drv.size = mouse.len
          /\ i = mouse.pos /\ Added.whole
          /\ i # 0 => /\ seen.clean /\ seen' = [seen EXCEPT !.pause = 0,
                                                  !.clean = TRUE]
                      /\ drv.count = i /\ packet.id = mouse.id
      BY <2>1, <2>2, ByteInStep
    <3>2. packet'.whole /\ packet'.id = mouse.id
      BY <3>1 DEF Byte, Added
    <3>3. CASE handling' = "byte"
      BY <1>1, <1>2, <1>4, <1>7, <3>1, <3>3
         DEF CountsRight, Byte, IInv, TypeOK, Plain, Ext
    <3>4. CASE handling' # "byte"
      <4>1. mouse'.pos = drv'.count /\ mouse'.id = mouse.id
        BY <1>1, <1>2, <1>4, <1>7, <3>1, <3>4 DEF IInv, TypeOK, Setup, Plain, Ext
      <4>2. seen'.age < MaxDelay => ClockStart + tick <= drv'.stamp + seen'.age
        <5>1. CASE i = 0
          BY <1>2, <1>3, <1>5, <5>1, MousePacketsAssumption DEF IInv, TypeOK
        <5>2. CASE i # 0
          <6>1. seen.clean /\ seen'.age = seen.age /\ drv'.stamp = drv.stamp
                /\ drv.count > 0
            <7>1. i > 0 /\ drv.count = i
              BY <1>1, <3>1, <5>2 DEF Ext
            <7> HIDE DEF i
            <7>2. drv.count > 0 /\ drv'.stamp = drv.stamp
              BY <1>2, <5>2, <7>1
            <7>3. seen.clean /\ seen'.age = seen.age
              BY <3>1, <5>2 DEF IInv, TypeOK
            <7> QED BY <7>2, <7>3
          <6>2. CountsRight /\ handling = "no"
            BY <6>1, <2>1, <2>2 DEF IInv, InStep, Byte
          <6> QED BY <6>1, <6>2 DEF CountsRight
        <5> QED BY <5>1, <5>2
      <4> QED BY <1>2, <1>4, <3>1, <3>2, <3>4, <4>1, <4>2 DEF CountsRight, Byte
    <3> QED BY <3>3, <3>4
  <2> QED BY <1>2, <2>1, <2>2 DEF InStep, Streaming, Plain
<1> QED BY <1>8, <1>9, <1>10, <1>11 DEF IInv

LEMMA PlainPacketIInv == IInv /\ PlainPacket => IInv'
<1> SUFFICES ASSUME IInv, PlainPacket PROVE IInv'
  OBVIOUS
<1>1. /\ mouse' \in [on : BOOLEAN, len : {Plain, Ext}, pos : 0 .. Ext - 1,
                     id : {0, 1}]
      /\ mouse'.pos < mouse'.len /\ mouse'.len = mouse.len
      /\ bios = Plain /\ mouse.pos = 0 /\ mouse.len = Plain => mouse'.pos = 0
  BY SendsIs DEF IInv, PlainPacket, TypeOK
<1>2. TypeOK'
  <2>1. packet' \in [id : {0, 1}, whole : BOOLEAN]
    BY DEF PlainPacket, IInv, TypeOK
  <2> QED BY <1>1, <2>1 DEF IInv, TypeOK, PlainPacket
<1>3. Places' /\ Stamps'
  BY DEF IInv, Places, Stamps, PlainPacket
<1>4. InStep'
  BY <1>1 DEF IInv, InStep, PlainPacket, Streaming, Plain
<1> QED BY <1>2, <1>3, <1>4 DEF IInv

LEMMA PacketHandledIInv == IInv /\ PacketHandled => IInv'
<1> SUFFICES ASSUME IInv, PacketHandled PROVE IInv'
  OBVIOUS
<1>1. CASE handling = "byte"
  <2>1. /\ drv'.count = 0 /\ drv'.mode = drv.mode /\ drv'.size = drv.size
        /\ drv' \in Setup
    BY <1>1 DEF IInv, TypeOK, PacketHandled, Setup, Ext
  <2>2. TypeOK'
    BY <2>1 DEF IInv, TypeOK, PacketHandled
  <2>3. Places' /\ Stamps'
    BY <2>1 DEF IInv, Places, Placed, Stamps, PacketHandled
  <2>4. InStep'
    BY <1>1, <2>1 DEF IInv, InStep, CountsRight, PacketHandled
  <2> QED BY <2>2, <2>3, <2>4 DEF IInv
<1>2. CASE handling # "byte"
  BY <1>2 DEF IInv, TypeOK, Places, Stamps, InStep, CountsRight, PacketHandled
<1> QED BY <1>1, <1>2

LEMMA ResetIInv ==
  ASSUME IInv, NEW knows \in BOOLEAN, Reset(knows)
  PROVE  IInv'
<1> DEFINE mode == IF knows THEN Streaming ELSE Plain
           len == IF drv.usewheel /\ mode = Streaming /\ WheelMouse
                    THEN Ext ELSE Plain
<1>1. /\ mouse' = [on |-> TRUE, len |-> len, pos |-> 0, id |-> 0]
      /\ bios' = mode
      /\ drv' = [drv EXCEPT !.mode = mode, !.size = len, !.count = 0, !.stamp = 0]
      /\ seen' = [seen EXCEPT !.clean = TRUE]
      /\ UNCHANGED <<tick, packet, handling, saved>>
  BY DEF Reset, StartsOver
<1>2. mode \in {Streaming, Plain} /\ len \in {Plain, Ext}
      /\ (mode = Plain => len = Plain)
  BY DEF Streaming, Plain
<1> HIDE DEF mode, len
<1>3. /\ drv'.mode = mode /\ drv'.size = len /\ drv'.count = 0
      /\ drv' \in Setup
  <2>1. drv' = [mode |-> mode, size |-> len, count |-> 0, stamp |-> 0,
                usewheel |-> drv.usewheel]
    BY <1>1 DEF IInv, TypeOK, Setup
  <2>2. /\ 0 \in 0 .. TickLimit - 1 /\ 0 \in 0 .. Ext
        /\ drv.usewheel \in BOOLEAN
    BY MousePacketsAssumption DEF IInv, TypeOK, Setup, Ext
  <2> QED BY <1>2, <2>1, <2>2 DEF Setup
<1>4. /\ mouse'.pos = 0 /\ mouse'.len = len /\ mouse'.id = 0
      /\ mouse' \in [on : BOOLEAN, len : {Plain, Ext}, pos : 0 .. Ext - 1,
                     id : {0, 1}]
      /\ mouse'.pos < mouse'.len
  BY <1>1, <1>2 DEF Plain, Ext
<1>5. TypeOK'
  BY <1>1, <1>2, <1>3, <1>4 DEF IInv, TypeOK
<1>6. Places' /\ Stamps'
  BY <1>1, <1>3 DEF IInv, Places, Placed, Stamps, TypeOK
<1>7. InStep'
  BY <1>1, <1>2, <1>3, <1>4 DEF InStep, CountsRight, Streaming, Plain
<1> QED BY <1>5, <1>6, <1>7 DEF IInv

LEMMA SaveLoadIInv == ~SavesInHandler /\ IInv /\ (Save \/ Load) => IInv'
<1> SUFFICES ASSUME ~SavesInHandler, IInv, Save \/ Load PROVE IInv'
  OBVIOUS
<1>1. CASE Save
  BY <1>1 DEF Save, IInv, TypeOK, Places, Stamps, InStep, CountsRight
<1>2. CASE Load
  <2>1. TypeOK'
    BY <1>2 DEF Load, IInv, TypeOK
  <2>2. Places' /\ Stamps'
    BY <1>2 DEF Load, IInv, TypeOK, Places, Stamps
  <2>3. InStep'
    BY <1>2 DEF Load, IInv, TypeOK, InStep
  <2> QED BY <2>1, <2>2, <2>3 DEF IInv
<1> QED BY <1>1, <1>2

LEMMA WheelIInv == IInv /\ (WheelOn \/ WheelOff) => IInv'
<1> SUFFICES ASSUME IInv, WheelOn \/ WheelOff PROVE IInv'
  OBVIOUS
<1>1. /\ drv'.count = drv.count /\ drv'.size = drv.size
      /\ drv'.stamp = drv.stamp /\ drv'.mode = drv.mode /\ drv' \in Setup
  BY DEF WheelOn, WheelOff, IInv, TypeOK, Setup
<1>2. CASE WheelOn
  <2>1. /\ mouse' \in [on : BOOLEAN, len : {Plain, Ext}, pos : 0 .. Ext - 1,
                       id : {0, 1}]
        /\ mouse'.pos < mouse'.len
    <3> DEFINE len == IF WheelMouse THEN Ext ELSE mouse.len
    <3>1. mouse' = [mouse EXCEPT !.pos = 0, !.len = len]
      BY <1>2 DEF WheelOn, IInv, TypeOK
    <3>2. len \in {Plain, Ext}
      BY DEF IInv, TypeOK
    <3> HIDE DEF len
    <3>3. mouse' = [on |-> mouse.on, len |-> len, pos |-> 0, id |-> mouse.id]
      BY <3>1 DEF IInv, TypeOK
    <3>4. mouse.on \in BOOLEAN /\ mouse.id \in {0, 1} /\ 0 \in 0 .. Ext - 1
      BY DEF IInv, TypeOK, Ext
    <3>5. 0 < len
      BY <3>2 DEF Plain, Ext
    <3> QED BY <3>2, <3>3, <3>4, <3>5
  <2>2. TypeOK'
    BY <1>1, <1>2, <2>1 DEF WheelOn, IInv, TypeOK
  <2>3. Places' /\ Stamps'
    BY <1>1, <1>2 DEF WheelOn, IInv, Places, Placed, Stamps, TypeOK
  <2>4. InStep'
    BY <1>2 DEF WheelOn, IInv, InStep, TypeOK
  <2> QED BY <2>2, <2>3, <2>4 DEF IInv
<1>3. CASE WheelOff
  BY <1>1, <1>3
     DEF WheelOff, IInv, TypeOK, Places, Placed, Stamps, InStep, CountsRight
<1> QED BY <1>2, <1>3

LEMMA NextIInv == NoWrap /\ ~SavesInHandler /\ IInv /\ [Next]_vars => IInv'
<1> SUFFICES ASSUME NoWrap, ~SavesInHandler, IInv, [Next]_vars PROVE IInv'
  OBVIOUS
<1>1. CASE UNCHANGED vars
  BY <1>1 DEF vars, IInv, TypeOK, Places, Stamps, InStep, CountsRight
<1>2. CASE Next
  BY <1>2, LoseByteIInv, TickIInv, ByteIInv, PlainPacketIInv, PacketHandledIInv,
     SaveLoadIInv, WheelIInv, ResetIInv DEF Next
<1> QED BY <1>1, <1>2

-----------------------------------------------------------------------------
(* Theorems *)

THEOREM InvCorrect ==
  ASSUME NoWrap, ~SavesInHandler
  PROVE  Spec => []IInv
<1>1. IInv /\ [Next]_vars => IInv'
  BY NextIInv
<1> QED BY InitIInv, <1>1, PTL DEF Spec

\* The counter of bytes never leaves ps2_packet, and the clock is never compared
\* with what it cannot reach (mousetsr.c:807-851).
THEOREM TypeCorrect ==
  ASSUME NoWrap, ~SavesInHandler
  PROVE  Spec => []TypeOK
<1>1. IInv => TypeOK
  BY DEF IInv
<1> QED BY InvCorrect, <1>1, PTL

\* The next byte always has its place, also after a saved state was loaded.
THEOREM BytesHavePlaces ==
  ASSUME NoWrap, ~SavesInHandler
  PROVE  Spec => []ByteHasAPlace
<1>1. IInv => ByteHasAPlace
  BY DEF IInv, Places, Placed, ByteHasAPlace
<1> QED BY InvCorrect, <1>1, PTL

\* Driver and mouse stay in step until a byte is lost, late or mistaken, and are
\* in step again after the first pause.
THEOREM StepsAreKept ==
  ASSUME NoWrap, ~SavesInHandler
  PROVE  Spec => []KeepsStep
<1>1. IInv => KeepsStep
  BY DEF IInv, InStep, CountsRight, KeepsStep
<1> QED BY InvCorrect, <1>1, PTL

\* Every packet that is handled in step is one that the mouse sent, whole.
THEOREM PacketsStayWhole ==
  ASSUME NoWrap, ~SavesInHandler
  PROVE  Spec => PacketsAreWhole
<1>1. ASSUME IInv, [Next]_vars, handling = "no", handling' # "no", seen'.clean
      PROVE  packet'.whole
  <2>1. Byte \/ PlainPacket
    BY <1>1 DEF Next, vars, LoseByte, Tick, PacketHandled, Save, Load, WheelOn,
                WheelOff, Reset
  <2>2. CASE Byte
    <3>1. drv.mode = Streaming
      <4>1. CASE mouse.pos = 0
        BY <1>1, <2>2, <4>1
           DEF Byte, Watched, IInv, InStep, TypeOK, Setup, Streaming, Plain
      <4>2. CASE mouse.pos # 0
        BY <1>1, <2>2, <4>2
           DEF Byte, Watched, IInv, InStep, TypeOK, Setup, Streaming, Plain
      <4> QED BY <4>1, <4>2
    <3>2. Added.whole
      BY <1>1, <2>2, <3>1, ByteInStep
    <3> QED BY <2>2, <3>2 DEF Byte
  <2>3. CASE PlainPacket
    BY <1>1, <2>3 DEF PlainPacket, IInv, InStep
  <2> QED BY <2>1, <2>2, <2>3
<1>2. IInv /\ [Next]_vars =>
        [handling = "no" /\ handling' # "no" /\ seen'.clean => packet'.whole]_vars
  BY <1>1
<1> QED BY InvCorrect, <1>2, PTL DEF Spec, PacketsAreWhole

=============================================================================
