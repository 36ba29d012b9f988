-------------------------- MODULE MouseEventsProofs --------------------------
(***************************************************************************)
(* Proofs about what programs and Windows hear of the mouse: MouseReports, *)
(* for any number of buttons and any bounds, and WinMouse with the         *)
(* movement of MouseMotion, for any screens, speeds, calls and packets and *)
(* any size of a word.                                                     *)
(***************************************************************************)
EXTENDS MouseReports, WinMouse, TLAPS

USE DEF Buttons

\* Programs without the habits for wheels get the button that they ask for.
LEMMA AnswersTheButton ==
  ASSUME Habits = {}, wheel.has \in BOOLEAN,
         NEW asked \in Buttons \cup {WHEEL}, MayAsk(asked)
  PROVE  asked \in Buttons /\ Answered(asked) = asked
<1>1. asked # WHEEL
  BY DEF MayAsk
<1>2. wheel.has => wheel.delta = 0
  BY <1>1 DEF MayAsk
<1> QED
  BY <1>1, <1>2 DEF Answered

-----------------------------------------------------------------------------
(* Types and counters *)

Inv == TypeOK /\ ReportsAreDue

LEMMA InitInv == Init => Inv
BY MouseReportsAssumption
   DEF Init, Inv, TypeOK, ReportsAreDue, Counts, NoCounts, None

LEMMA PacketInv ==
  ASSUME Inv, NEW b \in SUBSET Buttons, NEW z \in {-1, 0, 1}, Packet(b, z)
  PROVE  Inv'
<1>1. /\ counts' = due'.counts
      /\ wheel'.delta = due'.delta
  <2>1. counts' = CountsWith(counts, b \ buttons, buttons \ b)
    BY DEF Packet, Pressed, Released
  <2>2. wheel'.delta = wheel.delta + Counted(z)
    BY DEF Packet, Inv, TypeOK
  <2> QED
    BY <2>1, <2>2 DEF Packet, Inv, ReportsAreDue
<1>2. /\ counts' \in Counts
      /\ wheel'.delta \in -MaxWheel .. MaxWheel
  BY DEF Packet, Inv, TypeOK
<1>3. /\ wheel' \in [delta : -MaxWheel .. MaxWheel, has : BOOLEAN,
                     use : BOOLEAN, api : BOOLEAN, key : BOOLEAN]
      /\ wheel'.has => wheel'.use
  BY DEF Packet, Inv, TypeOK
<1>4. due' \in [counts : Counts, delta : -MaxWheel .. MaxWheel]
  <2>1. due' = [counts |-> due'.counts, delta |-> due'.delta]
    BY DEF Packet
  <2> QED
    BY <1>1, <1>2, <2>1
<1>5. /\ buttons' \subseteq Buttons /\ mask' \subseteq Events
      /\ told' \subseteq Buttons
  BY DEF Packet, Inv, TypeOK
<1> QED
  BY <1>1, <1>2, <1>3, <1>4, <1>5 DEF Inv, TypeOK, ReportsAreDue

LEMMA GetCounterInv ==
  ASSUME Habits = {}, Inv, NEW kind \in Kinds,
         NEW asked \in Buttons \cup {WHEEL}, GetCounter(kind, asked)
  PROVE  Inv'
<1>1. asked \in Buttons /\ Answered(asked) = asked
  BY AnswersTheButton DEF Inv, TypeOK, GetCounter
<1>2. asked # WHEEL
  BY <1>1, MouseReportsAssumption
<1>3. /\ counts' = [counts EXCEPT ![kind][asked] = 0]
      /\ due' = [due EXCEPT !.counts[kind][asked] = 0]
      /\ UNCHANGED <<wheel, buttons, mask, told>>
  BY <1>1, <1>2 DEF GetCounter
<1>4. counts' \in Counts
  BY <1>1, <1>3, MouseReportsAssumption DEF Inv, TypeOK, Counts
<1>5. due'.counts = counts' /\ due'.delta = wheel'.delta
  BY <1>3 DEF Inv, TypeOK, ReportsAreDue, Counts
<1>6. due' = [counts |-> due'.counts, delta |-> due'.delta]
  BY <1>3 DEF Inv, TypeOK
<1> QED
  BY <1>3, <1>4, <1>5, <1>6 DEF Inv, TypeOK, ReportsAreDue

LEMMA NextInv == Habits = {} /\ Inv /\ [Next]_vars => Inv'
<1> SUFFICES ASSUME Habits = {}, Inv, [Next]_vars PROVE Inv'
  OBVIOUS
<1> USE MouseReportsAssumption
<1>1. ASSUME NEW b \in SUBSET Buttons, NEW z \in {-1, 0, 1}, Packet(b, z)
      PROVE  Inv'
  BY <1>1, PacketInv
<1>2. CASE Reset
  <2>1. NoCounts \in Counts
    BY DEF NoCounts, None, Counts
  <2>2. /\ counts' = NoCounts /\ due' = [counts |-> NoCounts, delta |-> 0]
        /\ buttons' = {} /\ mask' = {} /\ told' = {}
    BY <1>2 DEF Reset, ResetState
  <2>3. /\ wheel' \in [delta : -MaxWheel .. MaxWheel, has : BOOLEAN,
                       use : BOOLEAN, api : BOOLEAN, key : BOOLEAN]
        /\ wheel'.has => wheel'.use
        /\ wheel'.delta = 0
    <3>1. PICK has \in {wheel.has, wheel.use, FALSE} :
            wheel' = [wheel EXCEPT !.api = FALSE, !.has = has, !.delta = 0]
      BY <1>2 DEF Reset
    <3>2. has \in BOOLEAN /\ (has => wheel.use)
      BY DEF Inv, TypeOK
    <3>3. 0 \in -MaxWheel .. MaxWheel
      OBVIOUS
    <3> QED
      BY <3>1, <3>2, <3>3 DEF Inv, TypeOK
  <2> QED
    BY <2>1, <2>2, <2>3 DEF Inv, TypeOK, ReportsAreDue
<1>3. CASE GetPosition
  BY <1>3 DEF GetPosition, Inv, TypeOK, ReportsAreDue
<1>4. CASE GetCapabilities
  BY <1>4 DEF GetCapabilities, Inv, TypeOK, ReportsAreDue
<1>5. ASSUME NEW kind \in Kinds,
             NEW asked \in Buttons \cup {WHEEL}, GetCounter(kind, asked)
      PROVE  Inv'
  BY <1>5, GetCounterInv
<1>6. ASSUME NEW m \in SUBSET Events, SetHandler(m)
      PROVE  Inv'
  BY <1>6 DEF SetHandler, Inv, TypeOK, ReportsAreDue
<1>7. ASSUME NEW enable \in BOOLEAN, SetWheel(enable)
      PROVE  Inv'
  BY <1>7 DEF SetWheel, Inv, TypeOK, ReportsAreDue
<1>8. ASSUME NEW enable \in BOOLEAN, SetWheelKey(enable)
      PROVE  Inv'
  BY <1>8 DEF SetWheelKey, Inv, TypeOK, ReportsAreDue
<1>9. CASE UNCHANGED vars
  BY <1>9 DEF vars, Inv, TypeOK, ReportsAreDue
<1> QED
  BY <1>1, <1>2, <1>3, <1>4, <1>5, <1>6, <1>7, <1>8, <1>9 DEF Next

\* The variables stay in their sets, and there is a wheel only while support for
\* it is on (mousetsr.h:110-111), whatever the commands and resets.
THEOREM TypeCorrect ==
  ASSUME Habits = {} PROVE Spec => []TypeOK
<1>1. Inv => TypeOK
  BY DEF Inv
<1>2. Inv /\ [Next]_vars => Inv'
  BY NextInv
<1> QED
  BY InitInv, <1>1, <1>2, PTL DEF Spec

\* Every press, release and movement of the wheel is reported once to programs
\* that ask for the wheel by function 3 and before they ask for buttons.
THEOREM NothingIsLost ==
  ASSUME Habits = {} PROVE Spec => []ReportsAreDue
<1>1. Inv => ReportsAreDue
  BY DEF Inv
<1>2. Inv /\ [Next]_vars => Inv'
  BY NextInv
<1> QED
  BY InitInv, <1>1, <1>2, PTL DEF Spec

-----------------------------------------------------------------------------
(* The handler *)

\* One packet tells the handler of all the buttons that it hears of.
LEMMA PacketTells ==
  ASSUME HandlerKnows, NEW b \in SUBSET Buttons, NEW z \in {-1, 0, 1},
         Packet(b, z)
  PROVE  HandlerKnows'
<1> SUFFICES ASSUME NEW a \in Buttons,
                    {<<"press", a>>, <<"release", a>>} \subseteq mask
             PROVE  a \in told' <=> a \in buttons'
  BY DEF HandlerKnows, Packet
<1>1. CASE Happened(b, z) \cap mask # {}
  BY <1>1 DEF Packet
<1>2. CASE Happened(b, z) \cap mask = {}
  <2>1. <<"press", a>> \notin Happened(b, z)
    BY <1>2
  <2>2. <<"release", a>> \notin Happened(b, z)
    BY <1>2
  <2>3. a \notin b \ buttons
    BY <2>1 DEF Happened, Pressed
  <2>4. a \notin buttons \ b
    BY <2>2 DEF Happened, Released
  <2>5. told' = told /\ buttons' = b
    BY <1>2 DEF Packet
  <2> QED
    BY <2>3, <2>4, <2>5 DEF HandlerKnows
<1> QED
  BY <1>1, <1>2

\* A handler that hears of the presses and releases of a button knows whether
\* it is down, however many buttons change in one packet, and whatever habits
\* programs have.
THEOREM TheHandlerKnows == Spec => []HandlerKnows
<1>1. Init => HandlerKnows
  BY DEF Init, HandlerKnows
<1>2. HandlerKnows /\ [Next]_vars => HandlerKnows'
  <2> SUFFICES ASSUME HandlerKnows, [Next]_vars PROVE HandlerKnows'
    OBVIOUS
  <2>1. ASSUME NEW b \in SUBSET Buttons, NEW z \in {-1, 0, 1}, Packet(b, z)
        PROVE  HandlerKnows'
    BY <2>1, PacketTells
  <2>2. CASE Reset
    BY <2>2 DEF Reset, ResetState, HandlerKnows
  <2>3. ASSUME NEW m \in SUBSET Events, SetHandler(m)
        PROVE  HandlerKnows'
    BY <2>3 DEF SetHandler, HandlerKnows
  <2>4. CASE UNCHANGED <<buttons, mask, told>>
    BY <2>4 DEF HandlerKnows
  <2> QED
    BY <2>1, <2>2, <2>3, <2>4
       DEF Next, GetPosition, GetCapabilities, GetCounter, SetWheel,
           SetWheelKey, vars
<1> QED
  BY <1>1, <1>2, PTL DEF Spec

-----------------------------------------------------------------------------
(* Arithmetic *)

\* Division of natural numbers
LEMMA DivBounds ==
  ASSUME NEW n \in Nat, NEW d \in Nat \ {0}
  PROVE  /\ n \div d \in Nat
         /\ d * (n \div d) <= n
         /\ n < d * (n \div d) + d
OBVIOUS

\* Division of integers rounds down.
LEMMA DivInt ==
  ASSUME NEW n \in Int, NEW d \in Nat \ {0}
  PROVE  /\ n \div d \in Int
         /\ n % d = n - d * (n \div d)
         /\ n % d \in 0 .. d - 1
OBVIOUS

\* A product grows with its factor ...
LEMMA Times ==
  ASSUME NEW a \in Int, NEW b \in Int, NEW c \in Nat, a <= b
  PROVE  a * c <= b * c
OBVIOUS

\* ... and only with it.
LEMMA Cancel ==
  ASSUME NEW a \in Int, NEW b \in Int, NEW c \in Nat \ {0}, a * c < b * c
  PROVE  a < b
OBVIOUS

LEMMA Distrib ==
  ASSUME NEW a \in Int, NEW b \in Int, NEW c \in Int
  PROVE  (a + b) * c = a * c + b * c
OBVIOUS

\* IDIV rounds towards 0, and the remainder has the sign of what is divided.
LEMMA QuotientIs ==
  ASSUME NEW n \in Int, NEW d \in Int, d # 0
  PROVE  /\ Quotient(n, d) \in Int /\ Remainder(n, d) \in Int
         /\ n = d * Quotient(n, d) + Remainder(n, d)
         /\ Abs(Remainder(n, d)) < Abs(d)
         /\ Abs(Quotient(n, d)) <= Abs(n)
<1> DEFINE a == Abs(n)
           b == Abs(d)
           q == a \div b
<1>1. /\ a \in Nat /\ b \in Nat \ {0}
      /\ n = (IF n < 0 THEN -a ELSE a) /\ d = (IF d < 0 THEN -b ELSE b)
  BY DEF Abs
<1>2. Quotient(n, d) = IF n < 0 <=> d < 0 THEN q ELSE -q
  BY DEF Quotient
<1>a. Abs(n) = a /\ Abs(d) = b
  OBVIOUS
<1> HIDE DEF a, b
<1>3. q \in Nat /\ b * q <= a /\ a < b * q + b
  BY <1>1, DivBounds
<1> HIDE DEF q
<1>4. b * q \in Nat /\ q <= b * q
  <2>1. b * q \in Nat
    BY <1>1, <1>3
  <2>2. 1 * q <= b * q
    BY <1>1, <1>3, Times
  <2> QED BY <1>3, <2>1, <2>2
<1> DEFINE c == b * q
<1>5. c \in Nat /\ c <= a /\ a < c + b /\ q <= c
  BY <1>3, <1>4
<1>6. /\ (-b) * q = -c /\ b * (-q) = -c /\ (-b) * (-q) = c /\ b * q = c
  BY <1>1, <1>3
<1> HIDE DEF c
<1>7. d * Quotient(n, d) = IF n < 0 THEN -c ELSE c
  BY <1>1, <1>2, <1>6
<1>8. Remainder(n, d) = IF n < 0 THEN c - a ELSE a - c
  BY <1>1, <1>5, <1>7 DEF Remainder
<1>9. Abs(Remainder(n, d)) = a - c
  BY <1>5, <1>8, <1>1 DEF Abs
<1>10. Abs(Quotient(n, d)) = q
  BY <1>2, <1>3 DEF Abs
<1>11. Quotient(n, d) \in Int /\ Remainder(n, d) \in Int
  BY <1>1, <1>2, <1>3, <1>5, <1>8
<1>12. n = d * Quotient(n, d) + Remainder(n, d)
  BY <1>1, <1>5, <1>7, <1>8
<1> QED BY <1>1, <1>3, <1>5, <1>9, <1>10, <1>11, <1>12, <1>a

LEMMA ModSmall ==
  ASSUME NEW n \in Nat, NEW d \in Nat \ {0}, n < d PROVE n % d = n
OBVIOUS

\* 16 bits of a number differ from it by a multiple of the size of a word,
LEMMA SignedIs ==
  ASSUME NEW n \in Int
  PROVE  \E k \in Int : Signed(n) = n - Word * k
<1> DEFINE h == Word \div 2
           k == (n + h) \div Word
<1>1. Word \in Nat \ {0} /\ h \in Int
  BY MouseMotionAssumption
<1> HIDE DEF h
<1>2. (n + h) % Word = n + h - Word * k /\ k \in Int
  BY <1>1, DivInt
<1>3. Signed(n) = ((n + h) % Word) - h
  BY DEF Signed, h
<1> HIDE DEF k
<1>4. Word * k \in Int
  BY <1>1, <1>2
<1>5. Signed(n) = n - Word * k
  BY <1>1, <1>2, <1>3, <1>4
<1> QED BY <1>2, <1>5

\* and are 0 for each such multiple.
LEMMA SignedZero ==
  ASSUME NEW k \in Int
  PROVE  Signed(Word * k) = 0
<1> DEFINE h == Word \div 2
           n == Word * k + h
           q == n \div Word
           r == n % Word
<1>1. Word \in Nat \ {0} /\ h \in Nat /\ h < Word
  BY MouseMotionAssumption
<1>a. Signed(Word * k) = r - h
  BY DEF Signed
<1> HIDE DEF h
<1>2. n \in Int /\ Word * k \in Int
  BY <1>1
<1>b. n = Word * k + h
  OBVIOUS
<1> HIDE DEF n
<1>3. r \in 0 .. Word - 1 /\ q \in Int /\ r = n - Word * q
  BY <1>1, <1>2, DivInt
<1> HIDE DEF q, r
<1>4. Word * (k - q) = Word * k - Word * q
  BY <1>1, <1>3
<1>5. Word * (k - q) = r - h
  BY <1>1, <1>2, <1>3, <1>4, <1>b
<1>6. (k - q) * Word < 1 * Word /\ (-1) * Word < (k - q) * Word
  BY <1>1, <1>3, <1>5
<1>7. k - q < 1 /\ -1 < k - q
  BY <1>1, <1>3, <1>6, Cancel
<1>8. k - q = 0
  BY <1>3, <1>7
<1>9. Word * (k - q) = 0
  BY <1>1, <1>8
<1> QED BY <1>1, <1>3, <1>5, <1>9, <1>a

-----------------------------------------------------------------------------
(* The resident data *)

\* The pointer is in its window.
Kept == {d \in Data : Clip(d.pos, d.min, d.max) = d.pos}

\* Fields that only what is said changes
Apart(d, e) == /\ e.speed = d.speed /\ e.threshold = d.threshold
               /\ e.total = d.total

\* Words are half negative.
LEMMA HalfIs ==
  /\ Word \div 2 \in Nat /\ Word = 2 * (Word \div 2) /\ Word \div 2 >= 2
  BY MouseMotionAssumption

LEMMA WordsAre ==
  /\ Words \subseteq Int /\ 0 \in Words /\ 1 \in Words
  /\ NoPoint \in Words /\ DefaultSpeed \in Words
<1>1. DefaultSpeed \in Nat /\ DefaultSpeed < Word \div 2
  BY MouseMotionAssumption
<1> QED BY <1>1, HalfIs DEF Words, NoPoint

\* A number is cut to a word, which a word is already.
LEMMA SignedWord ==
  ASSUME NEW n \in Int
  PROVE  Signed(n) \in Words /\ (n \in Words => Signed(n) = n)
<1> DEFINE h == Word \div 2
           m == (n + h) % Word
<1>1. h \in Nat /\ Word = 2 * h /\ h >= 2 /\ Word \in Nat \ {0}
  BY HalfIs, MouseMotionAssumption
<1>2. Signed(n) = m - h /\ Words = -h .. h - 1
  BY DEF Signed, Words
<1> HIDE DEF h
<1>3. n + h \in Int
  BY <1>1
<1>4. m \in 0 .. Word - 1
  BY <1>1, <1>3, DivInt
<1>5. n \in Words => m = n + h
  <2> SUFFICES ASSUME n \in Words PROVE m = n + h
    OBVIOUS
  <2>1. n + h \in Nat /\ n + h < Word
    BY <1>1, <1>2
  <2> QED BY <1>1, <2>1, ModSmall
<1> HIDE DEF m
<1> QED BY <1>1, <1>2, <1>4, <1>5

\* What is nearer to 0 than a word is one.
LEMMA NearerIs ==
  ASSUME NEW n \in Int, NEW w \in Words, Abs(n) < Abs(w)
  PROVE  n \in Words
<1>1. Word \div 2 \in Nat
  BY HalfIs
<1> QED BY <1>1 DEF Words, Abs

\* Screens and their grids have a size.
LEMMA ScreenIs == ASSUME NEW s \in Screens
   PROVE s.max \in Nat \ {0} /\ s.grid \in Nat \ {0} /\ s.max \in Words
<1>1. (Word \div 2) - 1 \in Int
  BY MouseMotionAssumption
<1>2. s \in [max : 1 .. (Word \div 2) - 1, grid : Nat \ {0}]
  BY MouseMotionAssumption
<1>3. Word \div 2 \in Nat
  BY HalfIs
<1> HIDE MouseMotionAssumption
<1> QED BY <1>1, <1>2, <1>3 DEF Words

\* A number that is clipped lies in the range, if there is one, and stays if it
\* did before.
LEMMA ClipIs ==
  ASSUME NEW n \in Int, NEW low \in Int, NEW high \in Int
  PROVE  /\ Clip(n, low, high) \in {n, low, high}
         /\ Clip(Clip(n, low, high), low, high) = Clip(n, low, high)
         /\ low <= high => /\ low <= Clip(n, low, high)
                           /\ Clip(n, low, high) <= high
         /\ low <= n /\ n <= high => Clip(n, low, high) = n
  BY DEF Clip

\* What the functions of MouseMotion make of the resident data, field by field
LEMMA InWindowIs ==
  ASSUME NEW d \in Data
  PROVE  LET e == InWindow(d)
         IN  /\ e \in Kept /\ Apart(d, e)
             /\ e.pos = Clip(d.pos, d.min, d.max)
             /\ e.frac = d.frac /\ e.delta = d.delta /\ e.abs = d.abs
             /\ e.min = d.min /\ e.max = d.max /\ e.screen = d.screen
<1> DEFINE p == Clip(d.pos, d.min, d.max)
<1>1. d.pos \in Words /\ d.min \in Words /\ d.max \in Words
  BY DEF Data
<1>2. d.pos \in Int /\ d.min \in Int /\ d.max \in Int
  BY <1>1, WordsAre
<1>3. p \in Words /\ Clip(p, d.min, d.max) = p
  BY <1>1, <1>2, ClipIs
<1>4. InWindow(d) = [d EXCEPT !.pos = p]
  BY DEF InWindow
<1>5. p = Clip(d.pos, d.min, d.max)
  OBVIOUS
<1> HIDE DEF p
<1>6. [d EXCEPT !.pos = p] \in Data
  BY <1>3 DEF Data
<1> QED BY <1>3, <1>4, <1>5, <1>6 DEF Data, Kept, Apart

LEMMA ResetIs ==
  ASSUME NEW d \in Data, NEW s \in Screens
  PROVE  LET e == ResetMotion(d, s)
         IN  /\ e \in Kept /\ e.total = d.total /\ e.frac = 0 /\ e.delta = 0
             /\ e.min = 0 /\ e.max = s.max /\ e.screen = s /\ e.pos = 0
             /\ e.speed = DefaultSpeed
<1> DEFINE zero == 0
           none == NoPoint
           e == [d EXCEPT !.screen = s, !.min = zero, !.max = s.max,
                          !.pos = zero, !.frac = zero, !.delta = zero,
                          !.abs = none, !.speed = DefaultSpeed,
                          !.threshold = DefaultThreshold]
<1>1. /\ zero \in Words /\ none \in Words /\ DefaultSpeed \in Words
      /\ DefaultThreshold \in Nat /\ s.max \in Words
      /\ Clip(zero, zero, s.max) = zero
  BY ScreenIs, WordsAre, MouseMotionAssumption DEF Clip
<1>2. ResetMotion(d, s) = e
  BY DEF ResetMotion
<1> HIDE DEF zero, none
<1>3. e \in Data
  BY <1>1 DEF Data
<1>4. /\ e.total = d.total /\ e.frac = zero /\ e.delta = zero /\ e.min = zero
      /\ e.max = s.max /\ e.screen = s /\ e.pos = zero
      /\ e.speed = DefaultSpeed
  BY DEF Data
<1> HIDE DEF e
<1> QED BY <1>1, <1>2, <1>3, <1>4 DEF Kept, zero

LEMMA SetPositionIs ==
  ASSUME NEW d \in Kept, NEW p \in Words
  PROVE  LET e == SetPosition(d, p)
         IN  e \in Kept /\ Apart(d, e) /\ e.frac = 0
<1> DEFINE zero == 0
           c == [d EXCEPT !.pos = p, !.frac = zero, !.delta = zero]
<1>1. d \in Data
  BY DEF Kept
<1>2. zero \in Words /\ SetPosition(d, p) = InWindow(c)
  BY WordsAre DEF SetPosition
<1> HIDE DEF zero
<1>3. c \in Data
  BY <1>1, <1>2 DEF Data
<1>4. c.frac = zero /\ Apart(d, c)
  BY <1>1 DEF Data, Apart
<1> HIDE DEF c
<1> QED BY <1>2, <1>3, <1>4, InWindowIs DEF Apart, zero

LEMMA RefreshIs ==
  ASSUME NEW d \in Data, NEW s \in Screens
  PROVE  LET e == Refresh(d, s)
         IN  /\ e \in Data /\ Apart(d, e)
             /\ e.frac = d.frac /\ e.delta = d.delta /\ e.abs = d.abs
             /\ e.screen = s /\ (d.screen = s => e = d)
             /\ (d.screen # s => e.min = 0 /\ e.max = s.max)
<1>1. CASE d.screen = s
  BY <1>1 DEF Refresh, Apart
<1>2. CASE d.screen # s
  <2> DEFINE zero == 0
             e == [d EXCEPT !.screen = s, !.min = zero, !.max = s.max]
  <2>1. zero \in Words /\ s.max \in Words /\ Refresh(d, s) = e
    BY <1>2, ScreenIs, WordsAre DEF Refresh
  <2> HIDE DEF zero
  <2>2. e \in Data
    BY <2>1 DEF Data
  <2>3. /\ Apart(d, e) /\ e.frac = d.frac /\ e.delta = d.delta
        /\ e.abs = d.abs /\ e.screen = s /\ e.min = zero /\ e.max = s.max
    BY DEF Data, Apart
  <2> HIDE DEF e
  <2> QED BY <1>2, <2>1, <2>2, <2>3 DEF zero
<1> QED BY <1>1, <1>2

LEMMA SetWindowIs ==
  ASSUME NEW d \in Data, NEW s \in Screens,
         NEW low \in Words, NEW high \in Words
  PROVE  LET e == SetWindow(d, s, low, high)
         IN  /\ e \in Kept /\ Apart(d, e)
             /\ e.frac = d.frac /\ e.delta = d.delta
             /\ e.min = low /\ e.max = high /\ e.screen = s
<1> DEFINE r == Refresh(d, s)
           c == [r EXCEPT !.min = low, !.max = high]
<1>1. /\ r \in Data /\ Apart(d, r) /\ r.frac = d.frac /\ r.delta = d.delta
      /\ r.screen = s
  BY RefreshIs
<1> HIDE DEF r
<1>2. /\ c \in Data /\ Apart(r, c) /\ c.frac = r.frac /\ c.delta = r.delta
      /\ c.min = low /\ c.max = high /\ c.screen = s
  BY <1>1 DEF Data, Apart
<1>3. SetWindow(d, s, low, high) = InWindow(c)
  BY DEF SetWindow, r
<1> HIDE DEF c
<1> QED BY <1>1, <1>2, <1>3, InWindowIs DEF Apart

LEMMA GetMotionIs ==
  ASSUME NEW d \in Kept
  PROVE  LET e == GetMotion(d)
         IN  e \in Kept /\ Apart(d, e) /\ e.frac = d.frac
<1> DEFINE zero == 0
           e == [d EXCEPT !.delta = zero]
<1>1. zero \in Words /\ d \in Data /\ Clip(d.pos, d.min, d.max) = d.pos
  BY WordsAre DEF Kept
<1>2. GetMotion(d) = e
  BY DEF GetMotion
<1> HIDE DEF zero
<1>3. /\ e \in Data /\ Apart(d, e) /\ e.frac = d.frac
      /\ e.pos = d.pos /\ e.min = d.min /\ e.max = d.max
  BY <1>1 DEF Data, Apart
<1> HIDE DEF e
<1> QED BY <1>1, <1>2, <1>3 DEF Kept

LEMMA SetSensitivityIs ==
  ASSUME NEW d \in Kept, NEW speed \in Words, NEW threshold \in Nat
  PROVE  LET e == SetSensitivity(d, speed, threshold)
         IN  /\ e \in Kept /\ e.total = d.total /\ e.frac = d.frac
             /\ e.speed = speed /\ e.delta = d.delta
             /\ e.min = d.min /\ e.max = d.max /\ e.screen = d.screen
<1> DEFINE e == [d EXCEPT !.speed = speed, !.threshold = threshold]
<1>1. d \in Data /\ Clip(d.pos, d.min, d.max) = d.pos
  BY DEF Kept
<1>2. SetSensitivity(d, speed, threshold) = e
  BY DEF SetSensitivity
<1>3. /\ e \in Data /\ e.total = d.total /\ e.frac = d.frac
      /\ e.speed = speed /\ e.delta = d.delta /\ e.pos = d.pos
      /\ e.min = d.min /\ e.max = d.max /\ e.screen = d.screen
  BY <1>1 DEF Data
<1> HIDE DEF e
<1> QED BY <1>1, <1>2, <1>3 DEF Kept

LEMMA AbsoluteIs ==
  ASSUME NEW d \in Data, NEW p \in Words, NEW other \in BOOLEAN
  PROVE  LET e == Absolute(d, p, other)
         IN  /\ e \in Kept /\ Apart(d, e) /\ e.frac \in {0, d.frac}
             /\ e.pos = Clip(p, d.min, d.max)
             /\ e.min = d.min /\ e.max = d.max /\ e.screen = d.screen
<1>1. CASE p = d.pos /\ ~other
  BY <1>1, InWindowIs DEF Absolute
<1>2. CASE ~(p = d.pos /\ ~other)
  <2> DEFINE zero == 0
             delta == IF d.abs = NoPoint THEN d.delta
                      ELSE Signed(d.delta + 8 * (p - d.abs))
             c == [d EXCEPT !.pos = p, !.frac = zero, !.abs = p,
                            !.delta = delta]
  <2>1. delta \in Words
    <3>1. d.delta \in Words /\ d.abs \in Words
      BY DEF Data
    <3>a. d.delta \in Int /\ d.abs \in Int /\ p \in Int
      BY <3>1, WordsAre
    <3>2. d.delta + 8 * (p - d.abs) \in Int
      BY <3>a
    <3> QED BY <3>1, <3>2, SignedWord
  <2>2. Absolute(d, p, other) = InWindow(c) /\ zero \in Words
    BY <1>2, WordsAre DEF Absolute
  <2> HIDE DEF delta, zero
  <2>3. c \in Data
    BY <2>1, <2>2 DEF Data
  <2>4. /\ Apart(d, c) /\ c.frac = zero /\ c.pos = p
        /\ c.min = d.min /\ c.max = d.max /\ c.screen = d.screen
    BY DEF Data, Apart
  <2> HIDE DEF c
  <2> QED BY <2>2, <2>3, <2>4, InWindowIs DEF Apart, zero
<1> QED BY <1>1, <1>2

LEMMA MotionIs ==
  ASSUME NEW d \in Data, NEW x \in Int, NEW across \in Nat,
         NEW second \in BOOLEAN
  PROVE  /\ Motion(d, x, across, second) \in Nat
         /\ Mickeys(d, x, across, second) \in {x, 2 * x}
         /\ Mickeys(d, x, across, second) \in Int
         /\ x = 0 => Mickeys(d, x, across, second) = 0
<1> DEFINE n == (IF second THEN 0 ELSE d.total) + x * x + across
<1>1. n \in Int
  BY DEF Data
<1>2. Motion(d, x, across, second) = n % Word
  BY DEF Motion, Unsigned
<1> HIDE DEF n
<1>3. n % Word \in Nat
  BY <1>1, DivInt, MouseMotionAssumption
<1> QED BY <1>2, <1>3 DEF Mickeys

\* What is counted of a packet leaves the position alone.
LEMMA TalliedIs ==
  ASSUME NEW d \in Data, NEW x \in Int, NEW across \in Nat,
         NEW second \in BOOLEAN
  PROVE  LET e == Tallied(d, x, across, second)
         IN  /\ e \in Data
             /\ e.total = Motion(d, x, across, second)
             /\ e.delta = Signed(d.delta + Mickeys(d, x, across, second))
             /\ e.pos = d.pos /\ e.frac = d.frac
             /\ e.speed = d.speed /\ e.threshold = d.threshold
             /\ e.min = d.min /\ e.max = d.max /\ e.screen = d.screen
<1> DEFINE step == Mickeys(d, x, across, second)
           total == Motion(d, x, across, second)
           delta == Signed(d.delta + step)
           none == NoPoint
           e == [d EXCEPT !.total = total, !.abs = none, !.delta = delta]
<1>1. total \in Nat /\ step \in Int /\ none \in Words
  BY MotionIs, WordsAre
<1>2. Tallied(d, x, across, second) = e
  BY DEF Tallied
<1>a. delta = Signed(d.delta + step)
  OBVIOUS
<1> HIDE DEF step, none
<1>3. delta \in Words
  <2>1. d.delta \in Int
    BY WordsAre DEF Data
  <2> QED BY <1>1, <2>1, SignedWord
<1> HIDE DEF total, delta
<1>4. /\ e \in Data /\ e.total = total /\ e.delta = delta
      /\ e.pos = d.pos /\ e.frac = d.frac
      /\ e.speed = d.speed /\ e.threshold = d.threshold
      /\ e.min = d.min /\ e.max = d.max /\ e.screen = d.screen
  BY <1>1, <1>3 DEF Data
<1> HIDE DEF e
<1> QED BY <1>2, <1>4, <1>a DEF step, total

LEMMA StepIs ==
  ASSUME NEW d \in Data, NEW step \in Int, Divides(d, step)
  PROVE  LET e == Step(d, step)
             n == Dividend(d, step)
             to == d.pos + Quotient(n, d.speed)
         IN  /\ e \in Kept /\ Apart(d, e) /\ e.delta = d.delta
             /\ e.pos = Clip(Signed(to), d.min, d.max)
             /\ e.frac = Remainder(n, d.speed)
             /\ e.min = d.min /\ e.max = d.max /\ e.screen = d.screen
<1> DEFINE n == Dividend(d, step)
           q == Quotient(n, d.speed)
           to == d.pos + q
           pos == Signed(to)
           r == Remainder(n, d.speed)
           c == [d EXCEPT !.pos = pos, !.frac = r]
<1>1. /\ d.frac \in Int /\ d.pos \in Int /\ d.speed \in Int /\ d.speed # 0
      /\ d.speed \in Words /\ PerLine \in Nat
  BY WordsAre, MouseMotionAssumption DEF Data, Divides
<1>2. n \in Int
  BY <1>1 DEF Dividend
<1>3. Step(d, step) = InWindow(c)
  BY DEF Step
<1> HIDE DEF n
<1>4. q \in Int /\ r \in Int /\ Abs(r) < Abs(d.speed)
  BY <1>1, <1>2, QuotientIs
<1>5. r \in Words
  <2> HIDE DEF r
  <2> QED BY <1>1, <1>4, NearerIs
<1> HIDE DEF q, r
<1>6. to \in Int
  BY <1>1, <1>4
<1> HIDE DEF to
<1>7. pos \in Words
  BY <1>6, SignedWord
<1> HIDE DEF pos
<1>8. c \in Data
  BY <1>5, <1>7 DEF Data
<1>9. /\ Apart(d, c) /\ c.frac = r /\ c.pos = pos /\ c.delta = d.delta
      /\ c.min = d.min /\ c.max = d.max /\ c.screen = d.screen
  BY DEF Data, Apart
<1> HIDE DEF c
<1>10. LET e == InWindow(c)
       IN  /\ e \in Kept /\ Apart(d, e) /\ e.delta = d.delta
           /\ e.pos = Clip(pos, d.min, d.max) /\ e.frac = r
           /\ e.min = d.min /\ e.max = d.max /\ e.screen = d.screen
  BY <1>8, <1>9, InWindowIs DEF Apart
<1> QED BY <1>3, <1>10 DEF n, q, r, to, pos

-----------------------------------------------------------------------------
(* Events and steps *)

\* The event handler is Windows' while the driver is enabled, and has a
\* procedure and a range from then on.
Placed ==
  /\ hooked <=> win.at = "on"
  /\ win.at # "off" => win.proc = windows.proc /\ windows.proc # NULL
  /\ win.at \in {"window", "hook", "on"} => win.max # 0

Sizes == {s.max : s \in Screens}

\* Enable has reset the driver, whose window is a screen or the range that
\* Windows scales by since: small numbers.
Settled ==
  /\ win.at \in {"window", "hook", "on"} =>
       \E m \in Sizes : win.max = m * Enlarge
  /\ win.at \in {"speed", "size", "window", "hook", "on"} =>
       /\ ~fault /\ ~trail.wide
       /\ data.speed \in 1 .. DefaultSpeed /\ Abs(data.frac) < DefaultSpeed
       /\ data.min = 0
       /\ \/ data.max \in Sizes
          \/ data.max = win.max /\ win.at \in {"hook", "on"}

Typed == WinTypeOK /\ data \in Kept /\ Placed /\ Settled

LEMMA KeptIs == ASSUME NEW d \in Kept PROVE d \in Data
  BY DEF Kept

LEMMA DataIs ==
  ASSUME NEW d \in Data
  PROVE  /\ {d.pos, d.frac, d.delta, d.abs, d.speed, d.min, d.max} \subseteq Int
         /\ d.total \in Nat /\ d.threshold \in Nat /\ d.screen \in Screens
  BY WordsAre DEF Data

\* A packet of a mouse that moved, or that did not
LEMMA RelativeIs ==
  ASSUME NEW d \in Kept, NEW x \in Int, NEW across \in Nat,
         NEW second \in BOOLEAN,
         \/ x = 0 /\ across = 0
         \/ Divides(d, Mickeys(d, x, across, second))
  PROVE  LET e == Relative(d, x, across, second)
             step == Mickeys(d, x, across, second)
             n == Dividend(d, step)
             still == x = 0 /\ across = 0
             to == d.pos + Quotient(n, d.speed)
         IN  /\ e \in Kept /\ n \in Int
             /\ e.speed = d.speed /\ e.threshold = d.threshold
             /\ still => e = d
             /\ ~still => /\ e.total = Motion(d, x, across, second)
                          /\ e.delta = Signed(d.delta + step)
                          /\ e.pos = Clip(Signed(to), d.min, d.max)
                          /\ e.frac = Remainder(n, d.speed)
             /\ e.min = d.min /\ e.max = d.max /\ e.screen = d.screen
<1> DEFINE step == Mickeys(d, x, across, second)
           c == Tallied(d, x, across, second)
<1>1. step \in Int /\ d \in Data
  BY MotionIs, KeptIs
<1>2. Dividend(d, step) \in Int
  <2>1. d.frac \in Int /\ PerLine \in Int
    BY <1>1, DataIs, MouseMotionAssumption
  <2> HIDE DEF step
  <2> QED BY <1>1, <2>1 DEF Dividend
<1>3. CASE x = 0 /\ across = 0
  <2>1. Clip(d.pos, d.min, d.max) = d.pos
    BY DEF Kept
  <2>2. InWindow(d) = [d EXCEPT !.pos = d.pos]
    BY <2>1 DEF InWindow
  <2>3. [d EXCEPT !.pos = d.pos] = d
    BY <1>1 DEF Data
  <2>4. Relative(d, x, across, second) = d
    BY <1>3, <2>2, <2>3 DEF Relative
  <2> QED BY <1>2, <1>3, <2>4
<1>4. CASE ~(x = 0 /\ across = 0)
  <2>1. Relative(d, x, across, second) = Step(c, step)
    BY <1>4 DEF Relative
  <2>2. /\ c \in Data /\ c.total = Motion(d, x, across, second)
        /\ c.delta = Signed(d.delta + step)
        /\ c.pos = d.pos /\ c.frac = d.frac
        /\ c.speed = d.speed /\ c.threshold = d.threshold
        /\ c.min = d.min /\ c.max = d.max /\ c.screen = d.screen
    BY <1>1, TalliedIs
  <2>3. Divides(d, step)
    BY <1>4
  <2> HIDE DEF c, step
  <2>4. Dividend(c, step) = Dividend(d, step) /\ Divides(c, step)
    BY <2>2, <2>3 DEF Dividend, Divides
  <2>5. LET e == Step(c, step)
            n == Dividend(c, step)
            to == c.pos + Quotient(n, c.speed)
        IN  /\ e \in Kept /\ Apart(c, e) /\ e.delta = c.delta
            /\ e.pos = Clip(Signed(to), c.min, c.max)
            /\ e.frac = Remainder(n, c.speed)
            /\ e.min = c.min /\ e.max = c.max /\ e.screen = c.screen
    BY <1>1, <2>2, <2>4, StepIs
  <2> QED BY <1>2, <1>4, <2>1, <2>2, <2>4, <2>5 DEF step, Apart
<1> QED BY <1>3, <1>4

\* Where the host points to, in pixels, is rounded down.
LEMMA PixelsIs ==
  ASSUME NEW d \in Data, NEW v \in 0 .. Word - 1
  PROVE  /\ Pixels(d, v) \in Nat /\ Pixels(d, v) \in Words
         /\ d.max >= d.screen.max =>
              /\ Pixels(d, v) * (Word - 1) <= v * d.max
              /\ v * d.max < (Pixels(d, v) + 1) * (Word - 1)
<1> DEFINE m == Larger(d.max, d.screen.max)
           n == v * m
           w == Word - 1
           p == n \div w
<1>1. w \in Nat \ {0} /\ v \in Nat /\ v <= w /\ d.max \in Int
  BY MouseMotionAssumption, DataIs
<1>2. d.screen.max \in Nat /\ d.screen.max \in Words /\ d.max \in Words
  BY ScreenIs DEF Data
<1>3. m \in Nat /\ m \in Words /\ (d.max >= d.screen.max => m = d.max)
  BY <1>1, <1>2 DEF Larger
<1>4. Pixels(d, v) = p
  BY DEF Pixels, Scaled
<1> HIDE DEF m, w
<1>5. n \in Nat /\ n <= w * m
  BY <1>1, <1>3, Times
<1>a. n = v * m
  OBVIOUS
<1> HIDE DEF n
<1>6. p \in Nat /\ w * p <= n /\ n < w * p + w
  BY <1>1, <1>5, DivBounds
<1> HIDE DEF p
<1>7. (p + 1) * w = w * p + w /\ p * w = w * p
  BY <1>1, <1>6
<1>8. p <= m
  <2>1. w * m = m * w /\ (m + 1) * w = m * w + w /\ m * w \in Nat
        /\ p * w \in Nat
    BY <1>1, <1>3, <1>6
  <2>2. p * w < (m + 1) * w
    BY <1>1, <1>5, <1>6, <1>7, <2>1
  <2>3. p < m + 1
    BY <1>1, <1>3, <1>6, <2>2, Cancel
  <2> QED BY <1>3, <1>6, <2>3
<1>9. p \in Words
  BY <1>3, <1>6, <1>8, HalfIs DEF Words
<1> QED BY <1>3, <1>4, <1>6, <1>7, <1>9, <1>a DEF w

LEMMA ToldType ==
  ASSUME NEW d \in Data, win.max \in Nat \ {0}
  PROVE  Told(d) \in Nat
<1> DEFINE grid == d.screen.grid
           p == d.pos
           w == Word - 1
           m == win.max
           s == p - (p % grid)
           c == Clip(s, 0, m)
<1>1. d.pos \in Int /\ d.screen \in Screens
  BY DataIs
<1>2. p \in Int /\ grid \in Nat \ {0} /\ w \in Nat /\ m \in Nat \ {0}
  BY <1>1, ScreenIs, MouseMotionAssumption
<1>3. Told(d) = (c * w) \div m
  BY DEF Told, Scaled, Snapped
<1> HIDE DEF grid, p, w, m
<1>4. s \in Int
  BY <1>2, DivInt
<1> HIDE DEF s
<1>5. c \in Int /\ 0 <= c
  BY <1>2, <1>4 DEF Clip
<1> HIDE DEF c
<1>6. c * w \in Nat
  BY <1>2, <1>5
<1> QED BY <1>2, <1>3, <1>6, DivBounds

LEMMA SlackType ==
  ASSUME data \in Data, win.max \in Nat \ {0}
  PROVE  Slack \in Nat
<1>1. data.screen \in Screens
  BY DEF Data
<1>2. data.screen.grid \in Nat \ {0} /\ Word - 1 \in Nat
  BY <1>1, ScreenIs, MouseMotionAssumption
<1>3. data.screen.grid * (Word - 1) \in Nat
  BY <1>2
<1>4. (data.screen.grid * (Word - 1)) \div win.max \in Nat
  BY <1>3, DivBounds
<1> QED BY <1>4 DEF Slack

\* History as it is set with the position
LEMMA ExactIs ==
  ASSUME trail \in Trails, NEW d \in Data
  PROVE  /\ Exact(d) \in Trails
         /\ Exact(d).at = d.pos * d.speed + d.frac /\ ~Exact(d).wide
         /\ Exact(d).coarse <=>
              d.frac # 0 /\ (trail.coarse \/ Abs(d.speed) < Abs(data.speed))
<1> DEFINE at == d.pos * d.speed + d.frac
           coarse == /\ d.frac # 0
                     /\ trail.coarse \/ Abs(d.speed) < Abs(data.speed)
<1>1. at \in Int
  <2>1. d.pos \in Int /\ d.speed \in Int /\ d.frac \in Int
    BY DataIs
  <2>2. d.pos * d.speed \in Int
    BY <2>1
  <2> QED BY <2>1, <2>2
<1>2. Exact(d) = [at |-> at, wide |-> FALSE, coarse |-> coarse]
  BY DEF Exact
<1>3. coarse \in BOOLEAN
  OBVIOUS
<1>a. /\ at = d.pos * d.speed + d.frac
      /\ coarse <=>
           d.frac # 0 /\ (trail.coarse \/ Abs(d.speed) < Abs(data.speed))
  OBVIOUS
<1> HIDE DEF at, coarse
<1>4. /\ Exact(d) \in Trails /\ Exact(d).at = at /\ Exact(d).wide = FALSE
      /\ Exact(d).coarse = coarse
  BY <1>1, <1>2, <1>3 DEF Trails
<1> QED BY <1>4, <1>a

\* int33_mouse_callback remembers the count of relative events alone.
LEMMA CallbackIs ==
  ASSUME win \in Wins, NEW d \in Data, NEW absolute \in BOOLEAN
  PROVE  LET w == Callback(d, absolute)
         IN  /\ w \in Wins
             /\ w.at = win.at /\ w.proc = win.proc /\ w.max = win.max
             /\ w.prev = IF absolute THEN win.prev ELSE d.delta
<1>1. d.delta \in Int
  BY DataIs
<1>2. CASE absolute
  BY <1>2 DEF Callback
<1>3. CASE ~absolute
  BY <1>1, <1>3 DEF Callback, Wins
<1> QED BY <1>2, <1>3

\* What Windows hears of, and what it is not told of
LEMMA HearMoveIs ==
  ASSUME heard \in Hearings, win \in Wins, hooked \in BOOLEAN, NEW d \in Data,
         NEW step \in Int, HearMove(d, step)
  PROVE  /\ heard' \in Hearings /\ heard'.point = heard.point
         /\ IF hooked
              THEN /\ heard'.jump = Signed(Difference(d) - step)
                   /\ heard'.cause = heard.since /\ heard'.since = {}
              ELSE /\ heard'.jump = heard.jump /\ heard'.cause = heard.cause
                   /\ heard'.since = IF win.at \in {"off", "reset"}
                                       THEN heard.since
                                       ELSE heard.since \cup {"gap"}
<1>1. CASE hooked
  <2> DEFINE jump == Signed(Difference(d) - step)
             none == {}
  <2>1. jump \in Int
    <3>1. d.delta - win.prev \in Int
      BY DataIs DEF Wins
    <3>a. Difference(d) \in Int
      BY <3>1, SignedWord, WordsAre DEF Difference
    <3>2. Difference(d) - step \in Int
      BY <3>a
    <3> QED BY <3>2, SignedWord, WordsAre
  <2>2. heard' = [heard EXCEPT !.jump = jump, !.cause = heard.since,
                               !.since = none] /\ none \in SUBSET Causes
    BY <1>1 DEF HearMove
  <2> HIDE DEF jump, none
  <2>3. /\ heard' \in Hearings /\ heard'.point = heard.point
        /\ heard'.jump = jump
        /\ heard'.cause = heard.since /\ heard'.since = none
    BY <2>1, <2>2 DEF Hearings
  <2> QED BY <1>1, <2>3 DEF jump, none
<1>2. CASE ~hooked
  <2> DEFINE since == IF win.at \in {"off", "reset"} THEN heard.since
                      ELSE heard.since \cup {"gap"}
  <2>1. since \in SUBSET Causes
    BY DEF Causes, Hearings
  <2>2. heard' = [heard EXCEPT !.since = since]
    BY <1>2 DEF HearMove
  <2> HIDE DEF since
  <2>3. /\ heard' \in Hearings /\ heard'.point = heard.point
        /\ heard'.jump = heard.jump
        /\ heard'.cause = heard.cause /\ heard'.since = since
    BY <2>1, <2>2 DEF Hearings
  <2> QED BY <1>2, <2>3 DEF since
<1> QED BY <1>1, <1>2

LEMMA HearPointIs ==
  ASSUME heard \in Hearings, win \in Wins, hooked \in BOOLEAN, data \in Data,
         hooked => win.max # 0, NEW d \in Data,
         NEW v \in Int, HearPoint(d, v)
  PROVE  /\ heard' \in Hearings
         /\ heard'.jump = heard.jump /\ heard'.cause = heard.cause
         /\ heard.since \subseteq heard'.since
         /\ d.delta # data.delta /\ win.at \notin {"off", "reset"}
              => heard'.since # {}
         /\ IF hooked
              THEN heard'.point = IF windows.steady
                                    THEN [host |-> v, told |-> Told(d),
                                          slack |-> Slack]
                                    ELSE Nowhere
              ELSE heard'.point = heard.point
<1>1. CASE hooked
  <2> DEFINE since == IF d.delta = data.delta THEN heard.since
                      ELSE heard.since \cup {"point"}
             shown == Told(d)
             slack == Slack
             here == [host |-> v, told |-> shown, slack |-> slack]
             point == IF windows.steady THEN here ELSE Nowhere
  <2>1. since \in SUBSET Causes
    BY DEF Causes, Hearings
  <2>2. shown \in Int /\ slack \in Int
    <3>1. win.max \in Nat \ {0}
      BY <1>1 DEF Wins
    <3> QED BY <3>1, ToldType, SlackType
  <2>3. heard' = [heard EXCEPT !.since = since, !.point = point]
    BY <1>1 DEF HearPoint
  <2>4. heard.since \subseteq since /\ (d.delta # data.delta => since # {})
    OBVIOUS
  <2> HIDE DEF since, shown, slack
  <2>5. here \in [host : Int, told : Int, slack : Int]
    BY <2>2
  <2>6. Nowhere \in [host : Int, told : Int, slack : Int]
    BY DEF Nowhere
  <2>7. point \in [host : Int, told : Int, slack : Int]
    BY <2>5, <2>6
  <2> HIDE DEF point
  <2>8. /\ heard' \in Hearings /\ heard'.point = point
        /\ heard'.jump = heard.jump
        /\ heard'.cause = heard.cause /\ heard'.since = since
    BY <2>1, <2>3, <2>7 DEF Hearings
  <2> QED BY <1>1, <2>4, <2>8 DEF point, shown, slack
<1>2. CASE ~hooked
  <2> DEFINE since == IF win.at \in {"off", "reset"} \/ d.delta = data.delta
                      THEN heard.since ELSE heard.since \cup {"gap"}
  <2>1. since \in SUBSET Causes
    BY DEF Causes, Hearings
  <2>2. heard' = [heard EXCEPT !.since = since]
    BY <1>2 DEF HearPoint
  <2>4. /\ heard.since \subseteq since
        /\ d.delta # data.delta /\ win.at \notin {"off", "reset"}
             => since # {}
    OBVIOUS
  <2> HIDE DEF since
  <2>3. /\ heard' \in Hearings /\ heard'.point = heard.point
        /\ heard'.jump = heard.jump
        /\ heard'.cause = heard.cause /\ heard'.since = since
    BY <2>1, <2>2 DEF Hearings
  <2> QED BY <1>2, <2>3, <2>4
<1> QED BY <1>1, <1>2

\* The sizes of screens and what Windows makes of them leave room in a word.
LEMMA SizesFit ==
  ASSUME NEW m \in Sizes, NEW x \in Moves \cup {0}
  PROVE  /\ m \in Nat \ {0} /\ m <= m * Enlarge /\ m * Enlarge \in Nat
         /\ m * Enlarge + 2 * (PerLine * Abs(x)) + DefaultSpeed < Word \div 2
<1>1. PICK s \in Screens : m = s.max
  BY DEF Sizes
<1>2. m \in Nat \ {0} /\ Enlarge \in Nat \ {0} /\ PerLine \in Nat /\ x \in Int
  BY <1>1, ScreenIs, WinMouseAssumption, MouseMotionAssumption
<1>3. m * 1 <= m * Enlarge /\ m * Enlarge = Enlarge * m /\ m * Enlarge \in Nat
  BY <1>2
<1>4. Abs(x) \in Nat
  BY <1>2 DEF Abs
<1>5. 2 * PerLine * Abs(x) = 2 * (PerLine * Abs(x))
  BY <1>2, <1>4
<1>6. Enlarge * m + 2 * PerLine * Abs(x) + DefaultSpeed < Word \div 2
  BY <1>1, RoomAssumption
<1> QED BY <1>2, <1>3, <1>5, <1>6

LEMMA SizeWord ==
  ASSUME NEW m \in Sizes
  PROVE  m * Enlarge \in Words /\ m * Enlarge # 0 /\ m * Enlarge \in Nat
<1> DEFINE e == m * Enlarge
           c == PerLine * Abs(0)
<1>1. /\ m \in Nat \ {0} /\ m <= e /\ e \in Nat
      /\ e + 2 * c + DefaultSpeed < Word \div 2
  BY SizesFit
<1>2. c \in Nat /\ DefaultSpeed \in Nat
  <2>1. Abs(0) = 0
    BY DEF Abs
  <2> QED BY <2>1, MouseMotionAssumption
<1> HIDE DEF e, c
<1>3. e \in Words /\ e # 0
  BY <1>1, <1>2, HalfIs DEF Words
<1> QED BY <1>1, <1>3 DEF e

\* Once Enable has reset the driver a movement is divided, and the position
\* stays a word.
LEMMA MovesFit ==
  ASSUME Typed, NEW x \in Moves, NEW step \in {x, 2 * x},
         win.at \in {"speed", "size", "window", "hook", "on"}
  PROVE  Divides(data, step) /\ Target(step) \in Words
<1> DEFINE b == PerLine * Abs(x)
           h == Word \div 2
           n == Dividend(data, step)
           q == Quotient(n, data.speed)
           top == data.max
           k == PerLine * step
<1>1. /\ x \in Int /\ PerLine \in Nat /\ DefaultSpeed \in Nat
      /\ data \in Kept /\ data \in Data
      /\ data.pos \in Int /\ data.frac \in Int /\ data.speed \in Int
      /\ data.max \in Int
  BY WinMouseAssumption, MouseMotionAssumption, KeptIs, DataIs
     DEF Typed
<1>2. b \in Nat /\ -(2 * b) <= k /\ k <= 2 * b /\ k \in Int
  <2>1. CASE x < 0
    <3>1. PerLine * Abs(x) = -(PerLine * x) /\ PerLine * x \in Int
      BY <1>1, <2>1 DEF Abs
    <3>2. PerLine * x <= 0
      BY <1>1, <2>1
    <3>3. PerLine * (2 * x) = 2 * (PerLine * x)
      BY <1>1
    <3> QED BY <1>1, <3>1, <3>2, <3>3
  <2>2. CASE ~(x < 0)
    <3>1. PerLine * Abs(x) = PerLine * x /\ PerLine * x \in Int
      BY <1>1, <2>2 DEF Abs
    <3>2. PerLine * x >= 0
      BY <1>1, <2>2
    <3>3. PerLine * (2 * x) = 2 * (PerLine * x)
      BY <1>1
    <3> QED BY <1>1, <3>1, <3>2, <3>3
  <2> QED BY <2>1, <2>2
<1>3. /\ data.speed \in 1 .. DefaultSpeed /\ Abs(data.frac) < DefaultSpeed
      /\ data.min = 0
  BY DEF Typed, Settled
<1>4. top \in Nat /\ top + 2 * b + DefaultSpeed < h
  <2>1. CASE data.max \in Sizes
    <3> DEFINE e == data.max * Enlarge
    <3>1. /\ data.max \in Nat /\ data.max <= e /\ e \in Nat
          /\ e + 2 * b + DefaultSpeed < h
      BY <2>1, SizesFit
    <3> HIDE DEF e, b, h
    <3> QED BY <1>1, <1>2, <3>1, HalfIs DEF h
  <2>2. CASE data.max = win.max /\ win.at \in {"hook", "on"}
    <3>1. PICK m \in Sizes : win.max = m * Enlarge
      BY <2>2 DEF Typed, Settled
    <3> DEFINE e == m * Enlarge
    <3>2. e \in Nat /\ e + 2 * b + DefaultSpeed < h
      BY SizesFit
    <3> HIDE DEF e, b, h
    <3> QED BY <2>2, <3>1, <3>2 DEF e
  <2> QED BY <2>1, <2>2 DEF Typed, Settled
<1>5. 0 <= data.pos /\ data.pos <= top
  <2>1. data.pos = Clip(data.pos, 0, top) /\ 0 \in Int /\ top \in Int /\ 0 <= top
    BY <1>1, <1>3, <1>4 DEF Kept
  <2> HIDE DEF top
  <2> QED BY <1>1, <2>1, ClipIs
<1>6. n = k + data.frac
  BY DEF Dividend
<1>7. h \in Nat /\ Words = -h .. h - 1
  BY HalfIs DEF Words
<1>a. /\ Target(step) = data.pos + q
      /\ Divides(data, step) <=> data.speed # 0 /\ q \in Words
  BY DEF Target, Divides
<1> HIDE DEF b, h, n, k, top
<1>8. n \in Int /\ Abs(n) < 2 * b + DefaultSpeed
  BY <1>1, <1>2, <1>3, <1>6 DEF Abs
<1>9. q \in Int /\ Abs(q) <= Abs(n)
  <2>1. data.speed \in Int /\ data.speed # 0 /\ n \in Int
    BY <1>1, <1>3, <1>8
  <2> QED BY <2>1, QuotientIs
<1> HIDE DEF q
<1>10. -(2 * b + DefaultSpeed) < q /\ q < 2 * b + DefaultSpeed
  BY <1>1, <1>2, <1>8, <1>9 DEF Abs
<1>11. q \in Words /\ data.pos + q \in Words
  BY <1>1, <1>2, <1>4, <1>5, <1>7, <1>9, <1>10
<1> QED BY <1>1, <1>3, <1>11, <1>a

\* What each action does to the state, as far as the proofs go by it
LEMMA MoveIs ==
  ASSUME Typed, NEW x \in Moves, NEW across \in Across, NEW second \in BOOLEAN,
         Move(x, across, second)
  PROVE  LET d == Relative(data, x, across, second)
             step == Mickeys(data, x, across, second)
             n == Dividend(data, step)
             still == x = 0 /\ across = 0
         IN  /\ data' = d /\ d \in Kept /\ d \in Data
             /\ step \in Int /\ step \in {x, 2 * x} /\ n \in Int
             /\ x \in Int /\ across \in Nat
             /\ d.speed = data.speed /\ d.threshold = data.threshold
             /\ still => d = data
             /\ ~still => /\ Divides(data, step)
                          /\ d.total = Motion(data, x, across, second)
                          /\ d.delta = Signed(data.delta + step)
                          /\ d.pos = Clip(Signed(Target(step)),
                                          data.min, data.max)
                          /\ d.frac = Remainder(n, data.speed)
             /\ d.min = data.min /\ d.max = data.max
             /\ d.screen = data.screen
             /\ win' \in Wins /\ win'.at = win.at /\ win'.proc = win.proc
             /\ win'.max = win.max
             /\ win'.prev = IF hooked THEN d.delta ELSE win.prev
             /\ UNCHANGED <<fault, bios, hooked, windows>>
<1> DEFINE d == Relative(data, x, across, second)
           step == Mickeys(data, x, across, second)
           n == Dividend(data, step)
           still == x = 0 /\ across = 0
<1>1. x \in Int /\ across \in Nat
  BY WinMouseAssumption
<1>2. data \in Kept /\ data \in Data /\ win \in Wins
  BY KeptIs DEF Typed, WinTypeOK, Wins
<1>3. /\ data' = d /\ UNCHANGED <<fault, bios, hooked, windows>>
      /\ win' = IF hooked THEN Callback(d, FALSE) ELSE win
      /\ still \/ Divides(data, step)
  BY DEF Move
<1>4. step \in {x, 2 * x} /\ step \in Int
  BY <1>1, <1>2, MotionIs
<1>5. /\ d \in Kept /\ n \in Int
      /\ d.speed = data.speed /\ d.threshold = data.threshold
      /\ still => d = data
      /\ ~still => /\ d.total = Motion(data, x, across, second)
                   /\ d.delta = Signed(data.delta + step)
                   /\ d.pos = Clip(Signed(Target(step)), data.min, data.max)
                   /\ d.frac = Remainder(n, data.speed)
      /\ d.min = data.min /\ d.max = data.max /\ d.screen = data.screen
  BY <1>1, <1>2, <1>3, RelativeIs DEF Target
<1> HIDE DEF d, step, n, still
<1>6. d \in Data
  BY <1>5, KeptIs
<1>7. /\ win' \in Wins /\ win'.at = win.at /\ win'.proc = win.proc
      /\ win'.max = win.max
      /\ win'.prev = IF hooked THEN d.delta ELSE win.prev
  BY <1>2, <1>3, <1>6, CallbackIs
<1> QED BY <1>1, <1>3, <1>4, <1>5, <1>6, <1>7 DEF d, step, n, still

\* History of a movement
LEMMA MoveTrail ==
  ASSUME Typed, NEW x \in Moves, NEW across \in Across, NEW second \in BOOLEAN,
         Move(x, across, second)
  PROVE  LET d == Relative(data, x, across, second)
             step == Mickeys(data, x, across, second)
             still == x = 0 /\ across = 0
             edge == d.pos \in {d.min, d.max}
         IN  /\ trail' \in Trails
             /\ still => trail' = trail
             /\ ~still =>
                  /\ ~trail'.coarse
                  /\ trail'.at = IF edge THEN d.pos * d.speed + d.frac
                                 ELSE trail.at + PerLine * step
                  /\ trail'.wide <=> \/ Target(step) \notin Words
                                     \/ trail.wide /\ ~edge
<1> DEFINE d == Relative(data, x, across, second)
           step == Mickeys(data, x, across, second)
           still == x = 0 /\ across = 0
           edge == d.pos \in {d.min, d.max}
           at == IF edge THEN Exact(d).at ELSE trail.at + PerLine * step
           wide == Target(step) \notin Words \/ (trail.wide /\ ~edge)
<1>1. d \in Data /\ step \in Int /\ trail \in Trails /\ PerLine \in Int
  BY MoveIs, MouseMotionAssumption DEF Typed, WinTypeOK, Trails
<1>2. trail' = IF still THEN trail
               ELSE [at |-> at, coarse |-> FALSE, wide |-> wide]
  BY DEF Move
<1> HIDE DEF d, step, still
<1>3. at \in Int /\ wide \in BOOLEAN
  BY <1>1, ExactIs DEF Trails
<1>4. at = IF edge THEN d.pos * d.speed + d.frac ELSE trail.at + PerLine * step
  BY <1>1, ExactIs
<1>5. wide <=> Target(step) \notin Words \/ (trail.wide /\ ~edge)
  OBVIOUS
<1> HIDE DEF at, wide, edge
<1>6. /\ trail' \in Trails
      /\ still => trail' = trail
      /\ ~still => ~trail'.coarse /\ trail'.at = at /\ trail'.wide = wide
  BY <1>1, <1>2, <1>3 DEF Trails
<1> QED BY <1>4, <1>5, <1>6 DEF d, step, still, edge

LEMMA QuickerIs ==
  ASSUME Typed, NEW x \in Moves, NEW across \in Across, NEW second \in BOOLEAN
  PROVE  Quicker(x, across, second) \in [sum : Nat, odd : BOOLEAN]
<1> DEFINE sum == Sum(x, across, second)
           odd == /\ sum < Word /\ data.threshold * data.threshold < Word
                  /\ Fast(data, Motion(data, x, across, second))
                       # (sum > data.threshold * data.threshold)
<1>1. sum \in Nat
  <2>1. x \in Int /\ across \in Nat
    BY WinMouseAssumption
  <2>2. x * x \in Nat /\ quick.sum \in Nat
    BY <2>1 DEF Typed, WinTypeOK
  <2> QED BY <2>1, <2>2 DEF Sum
<1>2. Quicker(x, across, second) = [sum |-> sum, odd |-> odd]
      /\ odd \in BOOLEAN
  BY DEF Quicker
<1> HIDE DEF sum, odd
<1> QED BY <1>1, <1>2

LEMMA MoveTyped ==
  ASSUME Typed, NEW x \in Moves, NEW across \in Across, NEW second \in BOOLEAN,
         Move(x, across, second)
  PROVE  Typed'
<1> DEFINE d == Relative(data, x, across, second)
           step == Mickeys(data, x, across, second)
           n == Dividend(data, step)
           still == x = 0 /\ across = 0
<1>1. /\ data' = d /\ d \in Kept /\ d \in Data
      /\ step \in Int /\ step \in {x, 2 * x} /\ n \in Int
      /\ x \in Int /\ across \in Nat
      /\ d.speed = data.speed
      /\ still => d = data
      /\ ~still => d.frac = Remainder(n, data.speed)
      /\ d.min = data.min /\ d.max = data.max
      /\ win' \in Wins /\ win'.at = win.at /\ win'.proc = win.proc
      /\ win'.max = win.max
      /\ UNCHANGED <<fault, bios, hooked, windows>>
  BY MoveIs
<1>2. /\ trail' \in Trails
      /\ still => trail' = trail
      /\ ~still /\ ~trail.wide /\ Target(step) \in Words => ~trail'.wide
  BY MoveTrail
<1>3. quick' \in [sum : Nat, odd : BOOLEAN]
  <2>1. quick' \in {quick, Quicker(x, across, second)}
    BY DEF Move
  <2> QED BY <2>1, QuickerIs DEF Typed, WinTypeOK
<1>4. packets' \in 0 .. MaxPackets
  <2>1. packets < MaxPackets /\ packets' = packets + 1
    BY DEF Move
  <2> QED BY <2>1, WinMouseAssumption DEF Typed, WinTypeOK
<1>5. heard' \in Hearings
  <2>1. HearMove(d, step)
    BY DEF Move
  <2> HIDE DEF d, step, still
  <2> QED BY <1>1, <2>1, HearMoveIs DEF Typed, WinTypeOK, Wins
<1> HIDE DEF d, step, n, still
<1>6. Placed'
  BY <1>1 DEF Typed, Placed
<1>7. Settled'
  <2>1. /\ win'.at \in {"window", "hook", "on"} =>
             \E m \in Sizes : win'.max = m * Enlarge
    BY <1>1 DEF Typed, Settled
  <2>2. ASSUME win.at \in {"speed", "size", "window", "hook", "on"}
        PROVE  /\ ~fault /\ ~trail'.wide /\ Abs(d.frac) < DefaultSpeed
    <3>1. Target(step) \in Words
      BY <1>1, <2>2, MovesFit
    <3>2. /\ ~fault /\ ~trail.wide
          /\ data.speed \in 1 .. DefaultSpeed /\ Abs(data.frac) < DefaultSpeed
      BY <2>2 DEF Typed, Settled
    <3>3. CASE still
      BY <1>1, <1>2, <3>2, <3>3
    <3>4. CASE ~still
      <4> DEFINE r == Remainder(n, data.speed)
      <4>1. r \in Int /\ Abs(r) < Abs(data.speed)
        <5>1. data.speed \in Int /\ data.speed # 0 /\ n \in Int
          BY <1>1, <3>2
        <5> QED BY <5>1, QuotientIs
      <4>2. Abs(data.speed) = data.speed /\ DefaultSpeed \in Nat
        BY <3>2, MouseMotionAssumption DEF Abs
      <4>3. Abs(r) \in Int
        BY <4>1 DEF Abs
      <4> HIDE DEF r
      <4>4. Abs(r) < DefaultSpeed
        BY <3>2, <4>1, <4>2, <4>3
      <4> QED BY <1>1, <1>2, <3>1, <3>2, <3>4, <4>4 DEF r
    <3> QED BY <3>3, <3>4
  <2> QED BY <1>1, <2>1, <2>2 DEF Typed, Settled
<1> QED BY <1>1, <1>2, <1>3, <1>4, <1>5, <1>6, <1>7
        DEF Typed, WinTypeOK, Wins, Trails

\* A fault leaves what is known of the position as it was, and never happens
\* once Enable has reset the driver.
LEMMA FaultIs ==
  ASSUME Typed, NEW x \in Moves, NEW across \in Across, NEW second \in BOOLEAN,
         Fault(x, across, second)
  PROVE  /\ win.at \in {"off", "reset"}
         /\ data' \in Kept /\ data' \in Data
         /\ data'.total = Motion(data, x, across, second)
         /\ data'.pos = data.pos /\ data'.frac = data.frac
         /\ data'.speed = data.speed /\ data'.threshold = data.threshold
         /\ fault' = TRUE /\ quick' = Quicker(x, across, second)
         /\ packets' \in 0 .. MaxPackets
         /\ UNCHANGED <<bios, hooked, win, trail, windows, heard>>
<1> DEFINE e == Tallied(data, x, across, second)
           step == Mickeys(data, x, across, second)
<1>1. x \in Int /\ across \in Nat /\ data \in Kept /\ data \in Data
  BY WinMouseAssumption, KeptIs DEF Typed
<1>2. /\ data' = e /\ ~Divides(data, step)
      /\ fault' = TRUE /\ quick' = Quicker(x, across, second)
      /\ packets < MaxPackets /\ packets' = packets + 1
      /\ UNCHANGED <<bios, hooked, win, trail, windows, heard>>
  BY DEF Fault
<1>3. step \in {x, 2 * x}
  BY <1>1, MotionIs
<1>4. win.at \in {"off", "reset"}
  <2> HIDE DEF step
  <2>1. win.at \notin {"speed", "size", "window", "hook", "on"}
    BY <1>2, <1>3, MovesFit
  <2> QED BY <2>1 DEF Typed, WinTypeOK, Wins
<1>5. /\ e \in Data /\ e.total = Motion(data, x, across, second)
      /\ e.pos = data.pos /\ e.frac = data.frac
      /\ e.speed = data.speed /\ e.threshold = data.threshold
      /\ e.min = data.min /\ e.max = data.max
  BY <1>1, TalliedIs
<1> HIDE DEF e, step
<1>6. e \in Kept
  BY <1>1, <1>5 DEF Kept
<1>7. packets' \in 0 .. MaxPackets
  BY <1>2, WinMouseAssumption DEF Typed, WinTypeOK
<1> QED BY <1>2, <1>4, <1>5, <1>6, <1>7

LEMMA FaultTyped ==
  ASSUME Typed, NEW x \in Moves, NEW across \in Across, NEW second \in BOOLEAN,
         Fault(x, across, second)
  PROVE  Typed'
<1>1. /\ win.at \in {"off", "reset"} /\ data' \in Kept /\ data' \in Data
      /\ fault' = TRUE /\ quick' \in [sum : Nat, odd : BOOLEAN]
      /\ packets' \in 0 .. MaxPackets
      /\ UNCHANGED <<bios, hooked, win, trail, windows, heard>>
  BY FaultIs, QuickerIs
<1>2. Placed' /\ Settled'
  BY <1>1 DEF Typed, Placed, Settled
<1> QED BY <1>1, <1>2 DEF Typed, WinTypeOK

\* A window of the driver that Enable has reset is one again.
LEMMA PointIs ==
  ASSUME Typed, NEW v \in Points, NEW other \in BOOLEAN, Point(v, other)
  PROVE  LET d == Refresh(data, bios)
             p == Pixels(d, v)
         IN  /\ data' = Absolute(d, p, other) /\ trail' = Exact(data')
             /\ HearPoint(data', v)
             /\ d \in Data /\ p \in Words
             /\ v \in 0 .. Word - 1 /\ v \in Int
             /\ data' \in Kept /\ data' \in Data
             /\ data'.min = d.min /\ data'.max = d.max
             /\ win' = win /\ UNCHANGED <<fault, bios, hooked, quick, windows>>
             /\ Apart(data, data') /\ data'.frac \in {0, data.frac}
<1> DEFINE d == Refresh(data, bios)
           p == Pixels(d, v)
           e == Absolute(d, p, other)
<1>1. v \in 0 .. Word - 1 /\ v \in Int
  BY WinMouseAssumption, MouseMotionAssumption
<1>2. d \in Data /\ Apart(data, d) /\ d.frac = data.frac
  BY RefreshIs, KeptIs DEF Typed, WinTypeOK
<1>3. /\ data' = e /\ trail' = Exact(e) /\ HearPoint(e, v)
      /\ UNCHANGED <<fault, bios, hooked, quick, windows>>
      /\ win' = IF hooked THEN Callback(e, TRUE) ELSE win
  BY DEF Point
<1> HIDE DEF d
<1>4. p \in Words
  BY <1>1, <1>2, PixelsIs
<1> HIDE DEF p
<1>5. /\ e \in Kept /\ e \in Data /\ Apart(d, e)
      /\ e.frac \in {0, d.frac} /\ e.min = d.min /\ e.max = d.max
  BY <1>2, <1>4, AbsoluteIs, KeptIs
<1>6. win' = win
  BY <1>3 DEF Callback
<1> QED BY <1>1, <1>2, <1>3, <1>4, <1>5, <1>6 DEF d, p, Apart

\* What is settled stays so where the position is set.
LEMMA ResetSettled ==
  ASSUME Typed, data' \in Data, trail' = Exact(data'), UNCHANGED <<fault, win>>,
         Apart(data, data'), data'.frac \in {0, data.frac},
         \/ data'.min = data.min /\ data'.max = data.max
         \/ data'.min = 0 /\ data'.max \in Sizes
  PROVE  Settled'
<1>1. ~trail'.wide
  BY ExactIs DEF Typed, WinTypeOK, Trails
<1>2. Abs(0) < DefaultSpeed
  BY MouseMotionAssumption DEF Abs
<1> QED BY <1>1, <1>2 DEF Typed, Settled, Apart

LEMMA PointTyped ==
  ASSUME Typed, NEW v \in Points, NEW other \in BOOLEAN, Point(v, other)
  PROVE  Typed'
<1> DEFINE d == Refresh(data, bios)
<1>1. /\ trail' = Exact(data') /\ HearPoint(data', v)
      /\ data' \in Kept /\ data' \in Data /\ v \in Int
      /\ data'.min = d.min /\ data'.max = d.max
      /\ Apart(data, data') /\ data'.frac \in {0, data.frac}
      /\ win' = win /\ UNCHANGED <<fault, bios, hooked, quick, windows>>
  BY PointIs
<1>2. packets' \in 0 .. MaxPackets
  <2>1. packets < MaxPackets /\ packets' = packets + 1
    BY DEF Point
  <2> QED BY <2>1, WinMouseAssumption DEF Typed, WinTypeOK
<1>3. heard' \in Hearings
  BY <1>1, HearPointIs, KeptIs DEF Typed, WinTypeOK, Wins, Placed
<1>4. trail' \in Trails
  BY <1>1, ExactIs DEF Typed, WinTypeOK, Trails
<1>5. Placed'
  BY <1>1 DEF Typed, Placed
<1>6. Settled'
  <2>1. data \in Data /\ bios \in Screens
    BY KeptIs DEF Typed, WinTypeOK
  <2>2. \/ d = data
        \/ d.min = 0 /\ d.max \in Sizes
    BY <2>1, RefreshIs DEF Sizes
  <2> HIDE DEF d
  <2> QED BY <1>1, <2>2, ResetSettled
<1> QED BY <1>1, <1>2, <1>3, <1>4, <1>5, <1>6 DEF Typed, WinTypeOK, Trails

\* Calls of other programs keep the remainder or clear it.
LEMMA OtherIs ==
  ASSUME Typed, Other
  PROVE  /\ data' \in Kept /\ data' \in Data /\ trail' = Exact(data')
         /\ data'.total = data.total /\ data'.frac \in {0, data.frac}
         /\ win.at = "off"
         /\ UNCHANGED <<fault, bios, hooked, win, quick, windows, heard,
                        packets>>
<1>0. data \in Kept /\ data \in Data /\ bios \in Screens
  BY KeptIs DEF Typed, WinTypeOK
<1> DEFINE Made(d) ==
             \/ d = ResetMotion(data, bios)
             \/ \E p \in Positions : d = SetPosition(data, p)
             \/ \E w \in Windows : d = SetWindow(data, bios, w[1], w[2])
             \/ d = GetMotion(data)
             \/ \E speed \in Speeds, threshold \in Thresholds :
                  d = SetSensitivity(data, speed, threshold)
           Good(d) == /\ d \in Kept /\ d.total = data.total
                      /\ d.frac \in {0, data.frac}
<1> SUFFICES ASSUME NEW d, Made(d) PROVE Good(d)
  <2>1. PICK d : Call(d) /\ Made(d)
    BY Zenon DEF Other
  <2>2. Good(d)
    BY <2>1
  <2>3. data' = d
    BY <2>1 DEF Call
  <2> QED BY <2>1, <2>2, <2>3, KeptIs DEF Call
<1>1. CASE d = ResetMotion(data, bios)
  BY <1>0, <1>1, ResetIs
<1>2. ASSUME NEW p \in Positions, d = SetPosition(data, p)
      PROVE  d \in Kept /\ d.total = data.total /\ d.frac \in {0, data.frac}
  <2>1. p \in Words
    BY WinMouseAssumption
  <2> QED BY <1>0, <1>2, <2>1, SetPositionIs DEF Apart
<1>3. ASSUME NEW w \in Windows, d = SetWindow(data, bios, w[1], w[2])
      PROVE  d \in Kept /\ d.total = data.total /\ d.frac \in {0, data.frac}
  <2> DEFINE low == w[1]
             high == w[2]
  <2>1. low \in Words /\ high \in Words
    BY WinMouseAssumption
  <2> HIDE DEF low, high
  <2>2. SetWindow(data, bios, low, high) \in Kept
        /\ SetWindow(data, bios, low, high).frac = data.frac
        /\ Apart(data, SetWindow(data, bios, low, high))
    BY <1>0, <2>1, SetWindowIs
  <2> QED BY <1>3, <2>2 DEF Apart, low, high
<1>4. CASE d = GetMotion(data)
  BY <1>0, <1>4, GetMotionIs DEF Apart
<1>5. ASSUME NEW speed \in Speeds, NEW threshold \in Thresholds,
             d = SetSensitivity(data, speed, threshold)
      PROVE  d \in Kept /\ d.total = data.total /\ d.frac \in {0, data.frac}
  <2>1. speed \in Words /\ threshold \in Nat
    BY WinMouseAssumption
  <2> QED BY <1>0, <1>5, <2>1, SetSensitivityIs
<1> QED BY <1>1, <1>2, <1>3, <1>4, <1>5

LEMMA EnableResetIs ==
  ASSUME Typed, EnableReset
  PROVE  /\ data' \in Kept /\ data' \in Data /\ data'.total = data.total
         /\ data'.frac = 0 /\ data'.delta = 0 /\ data'.speed = DefaultSpeed
         /\ data'.screen = bios /\ data'.max = bios.max /\ data'.min = 0
         /\ trail' = Exact(data') /\ hooked' = FALSE
         /\ win' \in Wins /\ win'.proc = win.proc /\ win'.prev = win.prev
         /\ win'.max = win.max /\ win'.at = "speed" /\ win.at = "reset"
         /\ windows' \in [proc : Procs \cup {NULL}, steady : BOOLEAN]
         /\ windows'.proc = windows.proc /\ windows'.steady
         /\ heard' \in Hearings /\ heard'.point = heard.point
         /\ heard'.jump = heard.jump /\ heard'.cause = heard.cause
         /\ (heard'.since = {} => win.prev = 0)
         /\ UNCHANGED <<fault, bios, quick, packets>>
<1> DEFINE d == ResetMotion(data, bios)
<1>1. data \in Data /\ bios \in Screens /\ win \in Wins
  BY KeptIs DEF Typed, WinTypeOK, Wins
<1>2. /\ d \in Kept /\ d \in Data /\ d.total = data.total
      /\ d.frac = 0 /\ d.delta = 0 /\ d.speed = DefaultSpeed
      /\ d.min = 0 /\ d.max = bios.max /\ d.screen = bios
  BY <1>1, ResetIs, KeptIs
<1>3. data' = d /\ trail' = Exact(d) /\ hooked' = FALSE /\ win.at = "reset"
      /\ win' = [win EXCEPT !.at = "speed"]
      /\ windows' = [windows EXCEPT !.steady = TRUE]
      /\ heard' = [heard EXCEPT
                     !.since = IF win.prev = 0 THEN {} ELSE {"again"}]
      /\ UNCHANGED <<fault, bios, quick, packets>>
  BY DEF EnableReset
<1> HIDE DEF d
<1>4. /\ win' \in Wins /\ win'.proc = win.proc /\ win'.prev = win.prev
      /\ win'.at = "speed" /\ win'.max = win.max
  BY <1>1, <1>3 DEF Wins
<1>5. /\ windows' \in [proc : Procs \cup {NULL}, steady : BOOLEAN]
      /\ windows'.proc = windows.proc /\ windows'.steady
  BY <1>3 DEF Typed, WinTypeOK
<1>6. /\ heard' \in Hearings /\ heard'.point = heard.point
      /\ heard'.jump = heard.jump /\ heard'.cause = heard.cause
      /\ (heard'.since = {} => win.prev = 0)
  BY <1>3 DEF Typed, WinTypeOK, Hearings, Causes
<1> QED BY <1>2, <1>3, <1>4, <1>5, <1>6

LEMMA EnableSpeedIs ==
  ASSUME Typed, EnableSpeed
  PROVE  /\ data' \in Kept /\ data' \in Data /\ data'.total = data.total
         /\ data'.frac = data.frac /\ data'.delta = data.delta
         /\ data'.speed = 1 /\ data'.screen = data.screen
         /\ data'.max = data.max /\ data'.min = data.min
         /\ trail' = Exact(data') /\ win.at = "speed"
         /\ win' \in Wins /\ win'.proc = win.proc /\ win'.prev = win.prev
         /\ win'.max = win.max /\ win'.at = "size"
         /\ UNCHANGED <<fault, bios, hooked, quick, windows, heard, packets>>
<1> DEFINE one == 1
           d == SetSensitivity(data, one, data.threshold)
<1>1. /\ data \in Kept /\ data \in Data /\ win \in Wins
      /\ data.threshold \in Nat /\ one \in Words
  BY KeptIs, DataIs, WordsAre DEF Typed, WinTypeOK, Wins
<1>2. /\ data' = d /\ trail' = Exact(d) /\ win.at = "speed"
      /\ win' = [win EXCEPT !.at = "size"]
      /\ UNCHANGED <<fault, bios, hooked, quick, windows, heard, packets>>
  BY DEF EnableSpeed
<1>a. one = 1
  OBVIOUS
<1> HIDE DEF one
<1>3. /\ d \in Kept /\ d \in Data /\ d.total = data.total
      /\ d.frac = data.frac /\ d.delta = data.delta /\ d.speed = one
      /\ d.min = data.min /\ d.max = data.max /\ d.screen = data.screen
  BY <1>1, SetSensitivityIs, KeptIs
<1> HIDE DEF d
<1>4. /\ win' \in Wins /\ win'.proc = win.proc /\ win'.prev = win.prev
      /\ win'.at = "size" /\ win'.max = win.max
  BY <1>1, <1>2 DEF Wins
<1> QED BY <1>2, <1>3, <1>4, <1>a

LEMMA EnableSizeIs ==
  ASSUME Typed, EnableSize
  PROVE  /\ win.at = "size" /\ MaxCoordinate(data) \in Sizes
         /\ win' \in Wins /\ win'.proc = win.proc /\ win'.prev = win.prev
         /\ win'.at = "window" /\ win'.max = MaxCoordinate(data) * Enlarge
         /\ win'.max # 0
         /\ UNCHANGED <<data, fault, bios, hooked, trail, quick, windows,
                        heard, packets>>
<1> DEFINE max == MaxCoordinate(data) * Enlarge
<1>1. /\ win \in Wins /\ win.at = "size"
      /\ win' = [win EXCEPT !.max = max, !.at = "window"]
      /\ UNCHANGED <<data, fault, bios, hooked, trail, quick, windows,
                     heard, packets>>
  BY DEF EnableSize, Typed, WinTypeOK, Wins
<1>2. MaxCoordinate(data) \in Sizes
  <2>1. data.screen \in Screens
    BY KeptIs, DataIs DEF Typed
  <2>2. data.max \in Sizes
    BY <1>1 DEF Typed, Settled
  <2> QED BY <2>1, <2>2 DEF MaxCoordinate, Larger, Sizes
<1>3. max \in Nat /\ max # 0
  BY <1>2, SizeWord
<1>a. max = MaxCoordinate(data) * Enlarge
  OBVIOUS
<1> HIDE DEF max
<1>4. /\ win' \in Wins /\ win'.proc = win.proc /\ win'.prev = win.prev
      /\ win'.at = "window" /\ win'.max = max
  BY <1>1, <1>3 DEF Wins
<1> QED BY <1>1, <1>2, <1>3, <1>4, <1>a

LEMMA EnableWindowIs ==
  ASSUME Typed, EnableWindow
  PROVE  /\ data' \in Kept /\ data' \in Data /\ Apart(data, data')
         /\ data'.frac = data.frac /\ data'.delta = data.delta
         /\ data'.screen = bios /\ data'.min = 0 /\ data'.max = win'.max
         /\ trail' = Exact(data') /\ win.at = "window"
         /\ win' \in Wins /\ win'.proc = win.proc /\ win'.prev = win.prev
         /\ win'.at = "hook" /\ win'.max = win.max
         /\ UNCHANGED <<fault, bios, hooked, quick, windows, heard, packets>>
<1> DEFINE d == SetWindow(data, bios, 0, win.max)
<1>1. data \in Data /\ bios \in Screens /\ win \in Wins
  BY KeptIs DEF Typed, WinTypeOK, Wins
<1>2. /\ win.at = "window" /\ win' = [win EXCEPT !.at = "hook"]
      /\ data' = d /\ trail' = Exact(d)
      /\ UNCHANGED <<fault, bios, hooked, quick, windows, heard, packets>>
  BY Zenon DEF EnableWindow
<1>3. win.max \in Words /\ 0 \in Words
  <2>1. PICK m \in Sizes : win.max = m * Enlarge
    BY <1>2 DEF Typed, Settled
  <2> QED BY <2>1, SizeWord, WordsAre
<1>4. /\ d \in Kept /\ Apart(data, d) /\ d.frac = data.frac
      /\ d.delta = data.delta /\ d.min = 0 /\ d.max = win.max /\ d.screen = bios
  BY <1>1, <1>3, SetWindowIs
<1> HIDE DEF d
<1>5. /\ win' \in Wins /\ win'.proc = win.proc /\ win'.prev = win.prev
      /\ win'.at = "hook" /\ win'.max = win.max
  BY <1>1, <1>2 DEF Wins
<1> QED BY <1>2, <1>4, <1>5, KeptIs

LEMMA DisableIs ==
  ASSUME Typed, Disable
  PROVE  /\ data' \in Kept /\ data' \in Data /\ data'.total = data.total
         /\ data'.frac = 0
         /\ trail' = Exact(data') /\ hooked' = FALSE
         /\ win.at = "on" /\ win' \in Wins /\ win'.at = "off"
         /\ windows' \in [proc : Procs \cup {NULL}, steady : BOOLEAN]
         /\ windows'.steady = windows.steady
         /\ heard' \in Hearings /\ heard'.point = Nowhere
         /\ heard'.jump = heard.jump /\ heard'.cause = heard.cause
         /\ UNCHANGED <<fault, bios, quick, packets>>
<1> DEFINE d == ResetMotion(data, bios)
<1>1. data \in Data /\ bios \in Screens /\ win \in Wins
  BY KeptIs DEF Typed, WinTypeOK, Wins
<1>2. d \in Kept /\ d \in Data /\ d.total = data.total /\ d.frac = 0
  BY <1>1, ResetIs, KeptIs
<1>3. /\ data' = d /\ trail' = Exact(d) /\ hooked' = FALSE /\ win.at = "on"
      /\ win' = [win EXCEPT !.at = "off"]
      /\ windows' = [windows EXCEPT !.proc = NULL]
      /\ heard' = [heard EXCEPT !.point = Nowhere]
      /\ UNCHANGED <<fault, bios, quick, packets>>
  BY DEF Disable
<1> HIDE DEF d
<1>4. win' \in Wins /\ win'.at = "off"
  BY <1>1, <1>3 DEF Wins
<1>5. /\ windows' \in [proc : Procs \cup {NULL}, steady : BOOLEAN]
      /\ windows'.steady = windows.steady
  BY <1>3 DEF Typed, WinTypeOK
<1>6. Nowhere \in [host : Int, told : Int, slack : Int]
  BY DEF Nowhere
<1>7. /\ heard' \in Hearings /\ heard'.point = Nowhere
      /\ heard'.jump = heard.jump /\ heard'.cause = heard.cause
  BY <1>3, <1>6 DEF Typed, WinTypeOK, Hearings
<1> QED BY <1>2, <1>3, <1>4, <1>5, <1>7

LEMMA EnableIs ==
  ASSUME Typed, NEW proc \in Procs, Enable(proc)
  PROVE  /\ win' \in Wins /\ win'.proc = proc /\ win'.prev = win.prev
         /\ win'.max = win.max
         /\ \/ win.at = "off" /\ win'.at = "reset"
            \/ win.at = "on" /\ win'.at = "on"
         /\ windows' \in [proc : Procs \cup {NULL}, steady : BOOLEAN]
         /\ windows'.proc = proc /\ windows'.steady = windows.steady
         /\ proc # NULL
         /\ UNCHANGED <<data, fault, bios, hooked, trail, quick, heard, packets>>
<1> DEFINE at == IF win.at = "off" THEN "reset" ELSE win.at
<1>1. win \in Wins /\ proc # NULL
  BY WinMouseAssumption DEF Typed, WinTypeOK, Wins
<1>2. /\ win.at \in {"off", "on"}
      /\ win' = [win EXCEPT !.proc = proc, !.at = at]
      /\ windows' = [windows EXCEPT !.proc = proc]
      /\ UNCHANGED <<data, fault, bios, hooked, trail, quick, heard, packets>>
  BY DEF Enable
<1>3. at \in {"reset", "on"} /\ (win.at = "off" <=> at = "reset")
  BY <1>2
<1> HIDE DEF at
<1>4. /\ win' \in Wins /\ win'.proc = proc /\ win'.prev = win.prev
      /\ win'.max = win.max /\ win'.at = at
  BY <1>1, <1>2, <1>3 DEF Wins
<1>5. /\ windows' \in [proc : Procs \cup {NULL}, steady : BOOLEAN]
      /\ windows'.proc = proc /\ windows'.steady = windows.steady
  BY <1>2 DEF Typed, WinTypeOK
<1> QED BY <1>1, <1>2, <1>3, <1>4, <1>5

LEMMA EnableHookIs ==
  ASSUME Typed, EnableHook
  PROVE  /\ win' \in Wins /\ win'.proc = win.proc /\ win'.prev = win.prev
         /\ win'.max = win.max /\ win.at = "hook" /\ win'.at = "on"
         /\ hooked' = TRUE
         /\ UNCHANGED <<data, fault, bios, trail, quick, windows, heard,
                        packets>>
<1>1. /\ win \in Wins /\ win.at = "hook" /\ hooked' = TRUE
      /\ win' = [win EXCEPT !.at = "on"]
      /\ UNCHANGED <<data, fault, bios, trail, quick, windows, heard,
                        packets>>
  BY DEF EnableHook, Typed, WinTypeOK, Wins
<1> QED BY <1>1 DEF Wins

LEMMA SetModeIs ==
  ASSUME Typed, NEW s \in Screens, SetMode(s)
  PROVE  /\ windows' \in [proc : Procs \cup {NULL}, steady : BOOLEAN]
         /\ windows'.proc = windows.proc /\ ~windows'.steady
         /\ bios' = s
         /\ UNCHANGED <<data, fault, hooked, win, trail, quick, heard, packets>>
<1>1. /\ windows' = [windows EXCEPT !.steady = FALSE] /\ bios' = s
      /\ UNCHANGED <<data, fault, hooked, win, trail, quick, heard, packets>>
  BY DEF SetMode
<1> QED BY <1>1 DEF Typed, WinTypeOK

LEMMA WinInitTyped ==
  ASSUME WinInit
  PROVE  /\ Typed /\ data.pos = 0 /\ data.frac = 0 /\ data.total = 0
         /\ trail = [at |-> 0, coarse |-> FALSE, wide |-> FALSE]
         /\ quick = [sum |-> 0, odd |-> FALSE]
<1> DEFINE zero == 0
           none == NoPoint
<1>1. PICK s \in Screens :
        /\ bios = s
        /\ data = [pos |-> zero, frac |-> zero, delta |-> zero, abs |-> none,
                   speed |-> DefaultSpeed, threshold |-> DefaultThreshold,
                   total |-> zero, min |-> zero, max |-> s.max, screen |-> s]
  BY DEF WinInit
<1>2. /\ zero \in Words /\ zero \in Nat /\ none \in Words
      /\ DefaultSpeed \in Words /\ DefaultThreshold \in Nat
      /\ s.max \in Words /\ Clip(zero, zero, s.max) = zero
  BY ScreenIs, WordsAre, MouseMotionAssumption DEF Clip
<1>a. zero = 0
  OBVIOUS
<1> HIDE DEF zero, none
<1>3. data \in Data
  BY <1>1, <1>2 DEF Data
<1>4. data \in Kept
  BY <1>1, <1>2, <1>3 DEF Kept
<1>5. /\ hooked = FALSE /\ fault = FALSE
      /\ win = [at |-> "off", proc |-> NULL, prev |-> 0, max |-> 0]
      /\ trail = [at |-> 0, coarse |-> FALSE, wide |-> FALSE]
      /\ quick = [sum |-> 0, odd |-> FALSE]
      /\ windows = [proc |-> NULL, steady |-> FALSE]
      /\ heard = Silent /\ packets = 0
  BY DEF WinInit
<1>6. heard \in Hearings
  BY <1>5 DEF Silent, Nowhere, Hearings
<1>7. Placed /\ Settled
  BY <1>5 DEF Placed, Settled
<1>8. /\ win \in Wins /\ trail \in Trails
      /\ quick \in [sum : Nat, odd : BOOLEAN]
      /\ windows \in [proc : Procs \cup {NULL}, steady : BOOLEAN]
      /\ packets \in 0 .. MaxPackets
  BY <1>5, WinMouseAssumption DEF Wins, Trails
<1> QED BY <1>1, <1>3, <1>4, <1>5, <1>6, <1>7, <1>8, <1>a
        DEF Typed, WinTypeOK, Wins, Trails

\* Every step keeps the types and the pointer in its window.
LEMMA TypedStep ==
  ASSUME Typed, [WinNext]_winvars
  PROVE  Typed'
<1> SUFFICES ASSUME ~fault, Steps PROVE Typed'
  <2>1. CASE UNCHANGED winvars
    BY <2>1 DEF winvars, Typed, WinTypeOK, Placed, Settled
  <2> QED BY <2>1 DEF WinNext
<1>1. ASSUME NEW x \in Moves, NEW across \in Across, NEW second \in BOOLEAN,
             Move(x, across, second) \/ Fault(x, across, second)
      PROVE  Typed'
  BY <1>1, MoveTyped, FaultTyped
<1>2. ASSUME NEW v \in Points, NEW other \in BOOLEAN, Point(v, other)
      PROVE  Typed'
  BY <1>2, PointTyped
<1>3. CASE Other
  <2>1. trail' \in Trails
    BY <1>3, OtherIs, ExactIs DEF Typed, WinTypeOK, Trails
  <2>2. /\ data' \in Kept /\ data' \in Data /\ win.at = "off"
        /\ UNCHANGED <<fault, bios, hooked, win, quick, windows, heard, packets>>
    BY <1>3, OtherIs
  <2>3. Placed' /\ Settled'
    BY <2>2 DEF Typed, Placed, Settled
  <2> QED BY <2>1, <2>2, <2>3 DEF Typed, WinTypeOK, Trails
<1>4. ASSUME NEW s \in Screens, SetMode(s)
      PROVE  Typed'
  <2>1. Settled'
    BY <1>4, SetModeIs DEF Typed, Settled
  <2> QED BY <1>4, <2>1, SetModeIs DEF Typed, WinTypeOK, Placed
<1>5. ASSUME NEW proc \in Procs, Enable(proc)
      PROVE  Typed'
  <2>1. Settled'
    BY <1>5, EnableIs DEF Typed, Settled
  <2> QED BY <1>5, <2>1, EnableIs DEF Typed, WinTypeOK, Placed, Wins
<1>6. CASE EnableReset
  <2>1. trail' \in Trails /\ ~trail'.wide
    <3>1. trail' = Exact(data') /\ data' \in Data
      BY <1>6, EnableResetIs
    <3> QED BY <3>1, ExactIs DEF Typed, WinTypeOK, Trails
  <2>2. Placed'
    BY <1>6, EnableResetIs DEF Typed, Placed
  <2>3. Settled'
    <3>1. /\ data'.speed = DefaultSpeed /\ data'.frac = 0 /\ data'.min = 0
          /\ data'.max \in Sizes /\ win'.at = "speed" /\ fault' = fault
      BY <1>6, EnableResetIs DEF Typed, WinTypeOK, Sizes
    <3>2. Abs(0) < DefaultSpeed /\ DefaultSpeed \in 1 .. DefaultSpeed
      BY MouseMotionAssumption DEF Abs
    <3> QED BY <2>1, <3>1, <3>2 DEF Settled
  <2> QED BY <1>6, <2>1, <2>2, <2>3, EnableResetIs
             DEF Typed, WinTypeOK, Trails, Wins
<1>7. CASE EnableSpeed
  <2>1. trail' \in Trails /\ ~trail'.wide
    <3>1. trail' = Exact(data') /\ data' \in Data
      BY <1>7, EnableSpeedIs
    <3> QED BY <3>1, ExactIs DEF Typed, WinTypeOK, Trails
  <2>2. Placed'
    BY <1>7, EnableSpeedIs DEF Typed, Placed
  <2>3. Settled'
    <3>1. /\ data'.speed = 1 /\ data'.frac = data.frac
          /\ data'.min = data.min /\ data'.max = data.max
          /\ win.at = "speed" /\ win'.at = "size" /\ fault' = fault
      BY <1>7, EnableSpeedIs
    <3>2. 1 \in 1 .. DefaultSpeed
      BY MouseMotionAssumption
    <3> QED BY <2>1, <3>1, <3>2 DEF Typed, Settled
  <2> QED BY <1>7, <2>1, <2>2, <2>3, EnableSpeedIs
             DEF Typed, WinTypeOK, Trails, Wins
<1>8. CASE EnableSize
  <2>1. Placed'
    BY <1>8, EnableSizeIs DEF Typed, Placed
  <2>2. Settled'
    BY <1>8, EnableSizeIs DEF Typed, Settled
  <2> QED BY <1>8, <2>1, <2>2, EnableSizeIs
             DEF Typed, WinTypeOK, Trails, Wins
<1>9. CASE EnableWindow
  <2>1. trail' \in Trails /\ ~trail'.wide
    <3>1. trail' = Exact(data') /\ data' \in Data
      BY <1>9, EnableWindowIs
    <3> QED BY <3>1, ExactIs DEF Typed, WinTypeOK, Trails
  <2>2. Placed'
    BY <1>9, EnableWindowIs DEF Typed, Placed
  <2>3. Settled'
    BY <1>9, <2>1, EnableWindowIs DEF Typed, Settled, Apart
  <2> QED BY <1>9, <2>1, <2>2, <2>3, EnableWindowIs
             DEF Typed, WinTypeOK, Trails, Wins
<1>10. CASE EnableHook
  <2>1. Settled'
    <3>1. /\ win.at = "hook" /\ win'.at = "on" /\ win'.max = win.max
          /\ UNCHANGED <<data, fault, trail>>
      BY <1>10, EnableHookIs
    <3>2. \E m \in Sizes : win.max = m * Enlarge
      BY <3>1 DEF Typed, Settled
    <3> QED BY <3>1, <3>2 DEF Typed, Settled
  <2> QED BY <1>10, <2>1, EnableHookIs DEF Typed, WinTypeOK, Placed, Wins
<1>11. CASE Disable
  <2>1. trail' \in Trails
    <3>1. trail' = Exact(data') /\ data' \in Data
      BY <1>11, DisableIs
    <3> QED BY <3>1, ExactIs DEF Typed, WinTypeOK, Trails
  <2>2. Placed' /\ Settled'
    BY <1>11, DisableIs DEF Typed, Placed, Settled
  <2> QED BY <1>11, <2>1, <2>2, DisableIs DEF Typed, WinTypeOK, Trails, Wins
<1> QED BY <1>11, <1>10, <1>9, <1>8, <1>7, <1>6, <1>5, <1>4, <1>3, <1>2, <1>1
        DEF Steps

\* The resident data of the driver and what Windows keeps are words and of their
\* types, with the sizes that are divided by above 0, whatever screens, calls
\* and packets there are, speeds of 0 among them.
THEOREM WinTypeCorrect == WinSpec => []WinTypeOK
<1>1. WinInit => Typed
  BY WinInitTyped
<1>2. Typed /\ [WinNext]_winvars => Typed'
  BY TypedStep
<1>3. Typed => WinTypeOK
  BY DEF Typed
<1> QED BY <1>1, <1>2, <1>3, PTL DEF WinSpec

LEMMA AlwaysTyped == WinSpec => []Typed
<1>1. WinInit => Typed
  BY WinInitTyped
<1>2. Typed /\ [WinNext]_winvars => Typed'
  BY TypedStep
<1> QED BY <1>1, <1>2, PTL DEF WinSpec

\* An event never leads to a procedure that Windows took back
\* (mousew16.c:257-260, 306-312).
THEOREM OnlyWelcomeCalls == WinSpec => []CallsAreWelcome
<1>1. Typed => CallsAreWelcome
  BY DEF Typed, Placed, CallsAreWelcome
<1> QED BY <1>1, AlwaysTyped, PTL

-----------------------------------------------------------------------------
(* Rounding *)

\* The remainder and, unless the position wrapped around, where the mouse is
Follows ==
  /\ trail.wide \/ data.pos * data.speed + data.frac = trail.at
  /\ trail.coarse \/ data.frac = 0 \/ Abs(data.frac) < Abs(data.speed)

\* Where the history is set anew it agrees, with the remainder kept or cleared.
LEMMA ExactFollows ==
  ASSUME Typed, Follows, data' \in Data, trail' = Exact(data'),
         data'.frac \in {0, data.frac}
  PROVE  Follows'
<1>1. /\ trail'.at = data'.pos * data'.speed + data'.frac
      /\ trail'.coarse <=>
           data'.frac # 0 /\ (trail.coarse \/ Abs(data'.speed) < Abs(data.speed))
  BY ExactIs DEF Typed, WinTypeOK, Trails
<1>2. /\ Abs(data'.speed) \in Int /\ Abs(data.speed) \in Int
      /\ Abs(data.frac) \in Int
  <2>1. data'.speed \in Int /\ data.speed \in Int /\ data.frac \in Int
    BY DataIs, KeptIs DEF Typed
  <2> QED BY <2>1 DEF Abs
<1>3. trail.coarse \/ data.frac = 0 \/ Abs(data.frac) < Abs(data.speed)
  BY DEF Follows
<1>4. CASE data'.frac = 0
  BY <1>1, <1>4 DEF Follows
<1>5. CASE data'.frac # 0 /\ data'.frac = data.frac
  <2>1. CASE trail.coarse \/ Abs(data'.speed) < Abs(data.speed)
    BY <1>1, <1>5, <2>1 DEF Follows
  <2>2. CASE ~trail.coarse /\ ~(Abs(data'.speed) < Abs(data.speed))
    <3>1. Abs(data.frac) < Abs(data'.speed)
      BY <1>2, <1>3, <1>5, <2>2
    <3> QED BY <1>1, <1>5, <3>1 DEF Follows
  <2> QED BY <2>1, <2>2
<1> QED BY <1>4, <1>5

\* The quotient and the remainder of a movement add up to it.
LEMMA MoveFollows ==
  ASSUME Typed, Follows,
         NEW x \in Moves, NEW across \in Across, NEW second \in BOOLEAN,
         Move(x, across, second)
  PROVE  Follows'
<1> DEFINE d == Relative(data, x, across, second)
           step == Mickeys(data, x, across, second)
           still == x = 0 /\ across = 0
           n == Dividend(data, step)
           speed == data.speed
           q == Quotient(n, speed)
           r == Remainder(n, speed)
           to == Target(step)
           edge == d.pos \in {d.min, d.max}
           k == PerLine * step
<1>1. /\ data' = d /\ d \in Data /\ step \in Int /\ n \in Int
      /\ still => d = data
      /\ ~still => /\ Divides(data, step)
                   /\ d.pos = Clip(Signed(to), data.min, data.max)
                   /\ d.frac = r
      /\ d.speed = speed /\ d.min = data.min /\ d.max = data.max
  BY MoveIs
<1>2. /\ still => trail' = trail
      /\ ~still => /\ ~trail'.coarse
                   /\ trail'.at = IF edge THEN d.pos * d.speed + d.frac
                                  ELSE trail.at + k
                   /\ trail'.wide <=> to \notin Words \/ (trail.wide /\ ~edge)
  BY MoveTrail
<1>3. CASE still
  BY <1>1, <1>2, <1>3 DEF Follows
<1>4. CASE ~still
  <2>1. /\ speed \in Int /\ speed # 0 /\ data.frac \in Int /\ data.pos \in Int
        /\ data.min \in Int /\ data.max \in Int /\ d.pos \in Int
    BY <1>1, <1>4, DataIs, KeptIs DEF Typed, Divides
  <2>2. q \in Int /\ r \in Int /\ n = speed * q + r /\ Abs(r) < Abs(speed)
    BY <1>1, <2>1, QuotientIs
  <2>3. n = k + data.frac /\ k \in Int /\ to = data.pos + q
    BY <1>1, MouseMotionAssumption DEF Dividend, Target
  <2>4. trail.wide \/ data.pos * speed + data.frac = trail.at
    BY DEF Follows
  <2> HIDE DEF q, r, n, speed, step, d, still, to, k
  <2>5. trail'.wide \/ d.pos * d.speed + d.frac = trail'.at
    <3>1. CASE edge
      BY <1>2, <1>4, <3>1
    <3>2. CASE ~edge
      <4> SUFFICES ASSUME ~trail'.wide
                   PROVE  d.pos * d.speed + d.frac = trail'.at
        OBVIOUS
      <4>1. to \in Words /\ to \in Int /\ ~trail.wide /\ trail'.at = trail.at + k
        BY <1>2, <1>4, <2>1, <2>2, <2>3, <3>2
      <4>2. d.pos = to
        <5>1. Signed(to) = to
          BY <4>1, SignedWord
        <5>2. d.pos \in {to, data.min, data.max}
          BY <1>1, <1>4, <2>1, <4>1, <5>1, ClipIs
        <5> QED BY <1>1, <3>2, <5>2
      <4>3. (data.pos + q) * speed = data.pos * speed + q * speed
        BY <2>1, <2>2, Distrib
      <4>4. /\ data.pos * speed \in Int /\ q * speed \in Int
            /\ q * speed = speed * q
        BY <2>1, <2>2
      <4> HIDE DEF edge
      <4> QED BY <1>1, <1>4, <2>1, <2>2, <2>3, <2>4, <4>1, <4>2, <4>3, <4>4
    <3> QED BY <3>1, <3>2
  <2>6. Abs(d.frac) < Abs(d.speed)
    BY <1>1, <1>4, <2>2
  <2> QED BY <1>1, <2>5, <2>6 DEF Follows
<1> QED BY <1>3, <1>4

\* Nothing of a movement is lost in rounding (mousetsr.c:642-644), until the
\* position wraps around; while Windows uses the driver it never does and the
\* division never faults.
THEOREM PointerLosesNothing == WinSpec => []PointerFollows
<1>1. WinInit => Follows
  <2> SUFFICES ASSUME WinInit PROVE Follows
    OBVIOUS
  <2>1. /\ Typed /\ data.pos = 0 /\ data.frac = 0
        /\ trail = [at |-> 0, coarse |-> FALSE, wide |-> FALSE]
    BY WinInitTyped
  <2>2. data.speed \in Int
    BY <2>1, DataIs, KeptIs DEF Typed
  <2> QED BY <2>1, <2>2 DEF Follows
<1>2. Typed /\ Follows /\ [WinNext]_winvars => Follows'
  <2> SUFFICES ASSUME Typed, Follows, Steps
               PROVE  Follows'
    BY DEF WinNext, winvars, Follows
  <2>1. ASSUME NEW x \in Moves, NEW across \in Across, NEW second \in BOOLEAN,
               Move(x, across, second) \/ Fault(x, across, second)
        PROVE  Follows'
    <3>1. CASE Move(x, across, second)
      BY <3>1, MoveFollows
    <3>2. CASE Fault(x, across, second)
      BY <3>2, FaultIs DEF Follows
    <3> QED BY <2>1, <3>1, <3>2
  <2>2. ASSUME NEW v \in Points, NEW other \in BOOLEAN, Point(v, other)
        PROVE  Follows'
    <3>1. /\ data' \in Data /\ trail' = Exact(data')
          /\ data'.frac \in {0, data.frac}
      BY <2>2, PointIs
    <3> QED BY <3>1, ExactFollows
  <2>3. CASE Other
    <3>1. /\ data' \in Data /\ trail' = Exact(data')
          /\ data'.frac \in {0, data.frac}
      BY <2>3, OtherIs
    <3> QED BY <3>1, ExactFollows
  <2>4. CASE UNCHANGED <<data, trail>>
    BY <2>4 DEF Follows
  <2>5. ASSUME NEW s \in Screens, SetMode(s)
        PROVE  Follows'
    BY <2>4, <2>5 DEF SetMode
  <2>6. ASSUME NEW proc \in Procs, Enable(proc)
        PROVE  Follows'
    BY <2>4, <2>6 DEF Enable
  <2>7. CASE EnableReset
    <3>1. /\ data' \in Data /\ trail' = Exact(data')
          /\ data'.frac \in {0, data.frac}
      BY <2>7, EnableResetIs
    <3> QED BY <3>1, ExactFollows
  <2>8. CASE EnableSpeed
    <3>1. /\ data' \in Data /\ trail' = Exact(data')
          /\ data'.frac \in {0, data.frac}
      BY <2>8, EnableSpeedIs
    <3> QED BY <3>1, ExactFollows
  <2>9. CASE EnableSize
    BY <2>4, <2>9 DEF EnableSize
  <2>10. CASE EnableWindow
    <3>1. /\ data' \in Data /\ trail' = Exact(data')
          /\ data'.frac \in {0, data.frac}
      BY <2>10, EnableWindowIs
    <3> QED BY <3>1, ExactFollows
  <2>11. CASE EnableHook
    BY <2>4, <2>11 DEF EnableHook
  <2>12. CASE Disable
    <3>1. /\ data' \in Data /\ trail' = Exact(data')
          /\ data'.frac \in {0, data.frac}
      BY <2>12, DisableIs
    <3> QED BY <3>1, ExactFollows
  <2> QED BY <2>12, <2>11, <2>10, <2>9, <2>8, <2>7, <2>6, <2>5, <2>3, <2>2, <2>1
             DEF Steps
<1>3. Typed /\ Follows => PointerFollows
  <2> SUFFICES ASSUME Typed, Follows PROVE PointerFollows
    OBVIOUS
  <2>1. win.at \in {"off", "reset"} \/ ~(fault \/ trail.wide)
    BY DEF Typed, Settled, WinTypeOK, Wins
  <2> QED BY <2>1 DEF Follows, PointerFollows
<1> QED BY <1>1, <1>2, <1>3, AlwaysTyped, PTL DEF WinSpec

-----------------------------------------------------------------------------
(* Double speed *)

\* While the squares of a second fit in a word, total_motion is their sum.
Squared == ~quick.odd /\ (quick.sum < Word => data.total = quick.sum)

LEMMA MoveSquared ==
  ASSUME Typed, Squared,
         NEW x \in Moves, NEW across \in Across, NEW second \in BOOLEAN,
         Move(x, across, second) \/ Fault(x, across, second)
  PROVE  Squared'
<1> DEFINE still == x = 0 /\ across = 0
           more == x * x + across
           base == IF second THEN 0 ELSE quick.sum
           sum == Sum(x, across, second)
           total == Motion(data, x, across, second)
           bound == data.threshold * data.threshold
<1>1. x \in Int /\ across \in Nat /\ data \in Data
  BY WinMouseAssumption, KeptIs DEF Typed
<1>2. \/ UNCHANGED <<quick, data>>
      \/ quick' = Quicker(x, across, second) /\ data'.total = total
  <2>1. CASE Fault(x, across, second)
    BY <2>1, FaultIs
  <2>2. CASE Move(x, across, second)
    <3>1. quick' = IF still THEN quick ELSE Quicker(x, across, second)
      BY <2>2 DEF Move
    <3>2. /\ still => data' = data
          /\ ~still => data'.total = total
      BY <2>2, MoveIs
    <3> QED BY <3>1, <3>2
  <2> QED BY <2>1, <2>2
<1>3. Word \in Nat \ {0} /\ quick.sum \in Nat /\ data.total \in Nat
      /\ more \in Nat /\ bound \in Nat
  <2>1. x * x \in Nat
    BY <1>1
  <2>2. data.threshold \in Nat /\ data.total \in Nat
    BY <1>1, DataIs
  <2>3. bound \in Nat
    BY <2>2
  <2> QED BY <1>1, <2>1, <2>2, <2>3, MouseMotionAssumption DEF Typed, WinTypeOK
<1>4. sum = base + more
  <2>1. x * x \in Int /\ base \in Int
    BY <1>1, <1>3
  <2>2. sum = base + x * x + across
    BY DEF Sum
  <2> QED BY <1>1, <2>1, <2>2
<1>5. total = ((IF second THEN 0 ELSE data.total) + more) % Word
  <2>1. total = ((IF second THEN 0 ELSE data.total) + x * x + across) % Word
    BY DEF Motion, Unsigned
  <2>2. data.total \in Int /\ x * x \in Int
    BY <1>1, <1>3
  <2> QED BY <1>1, <2>1, <2>2
<1>b. Fast(data, total) <=> total > bound % Word
  BY DEF Fast, Unsigned
<1>c. quick' = Quicker(x, across, second) =>
        /\ quick'.sum = sum
        /\ quick'.odd <=> /\ sum < Word /\ bound < Word
                         /\ Fast(data, total) # (sum > bound)
  BY DEF Quicker
<1> HIDE DEF total, sum, more, bound, still
<1>6. sum < Word => total = sum
  <2> SUFFICES ASSUME sum < Word PROVE total = sum
    OBVIOUS
  <2>1. CASE second
    <3>1. total = more % Word /\ sum = more
      BY <1>3, <1>4, <1>5, <2>1
    <3> QED BY <1>3, <3>1, ModSmall
  <2>2. CASE ~second
    <3>1. sum = quick.sum + more /\ quick.sum < Word
      BY <1>3, <1>4, <2>2
    <3>2. data.total = quick.sum
      BY <3>1 DEF Squared
    <3>3. total = sum % Word /\ sum \in Nat
      BY <1>3, <1>5, <2>2, <3>1, <3>2
    <3> QED BY <1>3, <3>3, ModSmall
  <2> QED BY <2>1, <2>2
<1>7. bound < Word => bound % Word = bound
  BY <1>3, ModSmall
<1>8. CASE UNCHANGED <<quick, data>>
  BY <1>8 DEF Squared
<1>9. CASE quick' = Quicker(x, across, second) /\ data'.total = total
  <2>1. quick'.sum = sum /\ data'.total = total
    BY <1>9, <1>c
  <2>2. quick'.odd <=> /\ sum < Word /\ bound < Word
                       /\ Fast(data, total) # (sum > bound)
    BY <1>9, <1>c
  <2>3. ~quick'.odd
    <3> DEFINE fast == Fast(data, total)
               more2 == sum > bound
    <3>1. fast \in BOOLEAN /\ more2 \in BOOLEAN
      BY DEF Fast
    <3>2. sum < Word /\ bound < Word => (fast <=> more2)
      BY <1>6, <1>7, <1>b
    <3>3. quick'.odd <=> sum < Word /\ bound < Word /\ (fast # more2)
      BY <2>2
    <3> HIDE DEF fast, more2
    <3> QED BY <3>1, <3>2, <3>3
  <2> QED BY <1>6, <2>1, <2>3 DEF Squared
<1> QED BY <1>2, <1>8, <1>9

\* A movement is doubled if the second's squares exceed that of the threshold
\* (mousetsr.c:627-633), as long as both fit in a word.
THEOREM DoublesInTime == WinSpec => []DoublesWhenFast
<1>1. WinInit => Squared
  <2> SUFFICES ASSUME WinInit PROVE Squared
    OBVIOUS
  <2>1. data.total = 0 /\ quick = [sum |-> 0, odd |-> FALSE]
    BY WinInitTyped
  <2> QED BY <2>1 DEF Squared
<1>2. Typed /\ Squared /\ [WinNext]_winvars => Squared'
  <2> SUFFICES ASSUME Typed, Squared, Steps
               PROVE  Squared'
    BY DEF WinNext, winvars, Squared
  <2>1. ASSUME NEW x \in Moves, NEW across \in Across, NEW second \in BOOLEAN,
               Move(x, across, second) \/ Fault(x, across, second)
        PROVE  Squared'
    BY <2>1, MoveSquared
  <2>2. ASSUME quick' = quick, data'.total = data.total PROVE Squared'
    BY <2>2 DEF Squared
  <2>3. ASSUME NEW v \in Points, NEW other \in BOOLEAN, Point(v, other)
        PROVE  Squared'
    BY <2>2, <2>3, PointIs DEF Apart
  <2>4. CASE Other
    BY <2>2, <2>4, OtherIs
  <2>5. CASE EnableReset
    BY <2>2, <2>5, EnableResetIs
  <2>6. CASE EnableSpeed
    BY <2>2, <2>6, EnableSpeedIs
  <2>7. CASE EnableWindow
    BY <2>2, <2>7, EnableWindowIs DEF Apart
  <2>8. CASE Disable
    BY <2>2, <2>8, DisableIs
  <2>9. CASE UNCHANGED <<quick, data>>
    BY <2>2, <2>9
  <2>10. ASSUME NEW s \in Screens, SetMode(s)
         PROVE  Squared'
    BY <2>9, <2>10 DEF SetMode
  <2>11. ASSUME NEW proc \in Procs, Enable(proc)
         PROVE  Squared'
    BY <2>9, <2>11 DEF Enable
  <2>12. CASE EnableSize \/ EnableHook
    BY <2>9, <2>12 DEF EnableSize, EnableHook
  <2> QED BY <2>12, <2>11, <2>10, <2>8, <2>7, <2>6, <2>5, <2>4, <2>3, <2>1
             DEF Steps
<1>3. Squared => DoublesWhenFast
  BY DEF Squared, DoublesWhenFast
<1> QED BY <1>1, <1>2, <1>3, AlwaysTyped, PTL DEF WinSpec

-----------------------------------------------------------------------------
(* Counts of mickeys *)

\* While Windows was shown of every mickey, prev_delta_x is the driver's count
Reckoned ==
  /\ win.at \in {"speed", "size", "window", "hook", "on"} /\ heard.since = {}
       => win.prev = data.delta
  /\ heard.cause = {} => heard.jump = 0

\* Differences of counts add up, though each is cut to 16 bits.
LEMMA JumpIsZero ==
  ASSUME NEW a \in Int, NEW step \in Int
  PROVE  Signed(Signed(Signed(a + step) - a) - step) = 0
<1>1. PICK k \in Int : Signed(a + step) = (a + step) - Word * k
  BY SignedIs
<1> DEFINE b == Signed(a + step) - a
<1>2. b \in Int
  <2>1. a + step \in Int
    OBVIOUS
  <2>2. Signed(a + step) \in Int
    BY <2>1, SignedWord, WordsAre
  <2> QED BY <2>2
<1>3. PICK m \in Int : Signed(b) = b - Word * m
  BY <1>2, SignedIs
<1>4. Word \in Int /\ Word * k \in Int /\ Word * m \in Int
  BY MouseMotionAssumption
<1>5. Signed(b) - step = -(Word * k) - Word * m
  BY <1>1, <1>3, <1>4
<1>6. -(Word * k) - Word * m = Word * (-k - m)
  BY <1>4
<1>7. -k - m \in Int
  OBVIOUS
<1> QED BY <1>5, <1>6, <1>7, SignedZero

LEMMA MoveReckoned ==
  ASSUME Typed, Reckoned,
         NEW x \in Moves, NEW across \in Across, NEW second \in BOOLEAN,
         Move(x, across, second)
  PROVE  Reckoned'
<1> DEFINE d == Relative(data, x, across, second)
           step == Mickeys(data, x, across, second)
<1>1. /\ data' = d /\ d \in Data /\ step \in Int /\ x \in Int /\ across \in Nat
      /\ data \in Kept /\ data.delta \in Int /\ d.delta \in Int
      /\ win'.at = win.at
      /\ win'.prev = IF hooked THEN d.delta ELSE win.prev
      /\ win.at \in {"off", "reset", "speed", "size", "window", "hook", "on"}
  BY MoveIs, KeptIs, DataIs DEF Typed, WinTypeOK, Wins
<1>2. HearMove(d, step)
  BY DEF Move
<1>3. d.delta = Signed(data.delta + step) \/ (d = data /\ step = 0)
  BY <1>1, MoveIs, MotionIs, KeptIs
<1> HIDE DEF d, step
<1>4. IF hooked
        THEN /\ heard'.jump = Signed(Difference(d) - step)
             /\ heard'.cause = heard.since /\ heard'.since = {}
        ELSE /\ heard'.jump = heard.jump /\ heard'.cause = heard.cause
             /\ heard'.since = IF win.at \in {"off", "reset"}
                                 THEN heard.since
                                 ELSE heard.since \cup {"gap"}
  BY <1>1, <1>2, HearMoveIs DEF Typed, WinTypeOK, Wins
<1>5. CASE hooked
  <2>1. ASSUME heard.since = {} PROVE Signed(Difference(d) - step) = 0
    <3>1. win.prev = data.delta
      BY <1>5, <2>1 DEF Typed, Placed, Reckoned
    <3>2. CASE d.delta = Signed(data.delta + step)
      BY <1>1, <3>1, <3>2, JumpIsZero DEF Difference
    <3>3. CASE d = data /\ step = 0
      <4>1. d.delta - win.prev = Word * 0 /\ Word * 0 = 0
        BY <1>1, <3>1, <3>3, MouseMotionAssumption
      <4>2. Difference(d) = 0
        BY <4>1, SignedZero DEF Difference
      <4> QED BY <3>3, <4>1, <4>2, SignedZero
    <3> QED BY <1>3, <3>2, <3>3
  <2>2. heard'.cause = {} => heard'.jump = 0
    BY <1>4, <1>5, <2>1
  <2>3. win'.prev = data'.delta
    BY <1>1, <1>5
  <2> QED BY <2>2, <2>3 DEF Reckoned
<1>6. CASE ~hooked
  <2>1. win.at \in {"speed", "size", "window", "hook", "on"} =>
          heard'.since # {}
    BY <1>4, <1>6
  <2> QED BY <1>1, <1>4, <1>6, <2>1 DEF Reckoned
<1> QED BY <1>5, <1>6

LEMMA PointReckoned ==
  ASSUME Typed, Reckoned, NEW v \in Points, NEW other \in BOOLEAN,
         Point(v, other)
  PROVE  Reckoned'
<1>1. /\ HearPoint(data', v) /\ data' \in Data /\ v \in Int /\ win' = win
      /\ data \in Data
  BY PointIs, KeptIs DEF Typed
<1>2. /\ heard'.jump = heard.jump /\ heard'.cause = heard.cause
      /\ heard.since \subseteq heard'.since
      /\ data'.delta # data.delta /\ win.at \notin {"off", "reset"}
              => heard'.since # {}
  BY <1>1, HearPointIs DEF Typed, WinTypeOK, Wins, Placed
<1> QED BY <1>1, <1>2 DEF Reckoned

\* Windows is told of the movement that there was (mousew16.c:191-198), whatever
\* counts wrap around.
THEOREM CountsAgree == WinSpec => []WindowsFollows
<1>1. WinInit => Reckoned
  BY DEF WinInit, Silent, Reckoned
<1>2. Typed /\ Reckoned /\ [WinNext]_winvars => Reckoned'
  <2> SUFFICES ASSUME Typed, Reckoned, Steps
               PROVE  Reckoned'
    BY DEF WinNext, winvars, Reckoned
  <2>1. ASSUME NEW x \in Moves, NEW across \in Across, NEW second \in BOOLEAN,
               Move(x, across, second) \/ Fault(x, across, second)
        PROVE  Reckoned'
    <3>1. CASE Move(x, across, second)
      BY <3>1, MoveReckoned
    <3>2. CASE Fault(x, across, second)
      BY <3>2, FaultIs DEF Reckoned
    <3> QED BY <2>1, <3>1, <3>2
  <2>2. ASSUME NEW v \in Points, NEW other \in BOOLEAN, Point(v, other)
        PROVE  Reckoned'
    BY <2>2, PointReckoned
  <2>3. CASE Other
    BY <2>3, OtherIs DEF Reckoned
  <2>4. ASSUME NEW s \in Screens, SetMode(s)
        PROVE  Reckoned'
    BY <2>4 DEF SetMode, Reckoned
  <2>5. ASSUME NEW proc \in Procs, Enable(proc)
        PROVE  Reckoned'
    BY <2>5, EnableIs DEF Reckoned
  <2>6. CASE EnableReset
    BY <2>6, EnableResetIs DEF Reckoned
  <2>7. CASE EnableSpeed
    BY <2>7, EnableSpeedIs DEF Reckoned
  <2>8. CASE EnableSize
    BY <2>8, EnableSizeIs DEF Reckoned
  <2>9. CASE EnableWindow
    BY <2>9, EnableWindowIs DEF Reckoned
  <2>10. CASE EnableHook
    BY <2>10, EnableHookIs DEF Reckoned
  <2>11. CASE Disable
    BY <2>11, DisableIs DEF Reckoned
  <2> QED BY <2>11, <2>10, <2>9, <2>8, <2>7, <2>6, <2>5, <2>4, <2>3, <2>2, <2>1
             DEF Steps
<1>3. Reckoned => WindowsFollows
  BY DEF Reckoned, WindowsFollows
<1> QED BY <1>1, <1>2, <1>3, AlwaysTyped, PTL DEF WinSpec

-----------------------------------------------------------------------------
(* Ranges of coordinates *)

\* In the video mode of Enable, coordinates of Windows are those of the window.
Windowed ==
  win.at \in {"speed", "size", "window", "hook", "on"} /\ windows.steady =>
    /\ data.screen = bios
    /\ win.at \in {"speed", "size"} => data.max = bios.max
    /\ win.at \in {"window", "hook", "on"} => win.max = bios.max * Enlarge
    /\ win.at \in {"hook", "on"} => data.min = 0 /\ data.max = win.max

\* Scaling to pixels and back, with the grid of a text mode in between
LEMMA ThereAndBack ==
  ASSUME NEW k \in Nat \ {0}, NEW m \in Nat \ {0}, NEW grid \in Nat \ {0},
         NEW v \in 0 .. k, NEW p \in Nat, p * k <= v * m, v * m < (p + 1) * k
  PROVE  LET s == p - (p % grid)
             shown == (s * k) \div m
         IN  /\ s \in 0 .. p /\ p <= m
             /\ v - shown \in 0 .. (grid * k) \div m + 1
<1> DEFINE r == p % grid
           s == p - r
           sk == s * k
           shown == sk \div m
           gk == grid * k
           q == gk \div m
<1>1. /\ p \in Int /\ p \div grid \in Nat /\ grid * (p \div grid) <= p
      /\ r = p - grid * (p \div grid) /\ r \in 0 .. grid - 1
  <2>1. p \div grid \in Nat /\ grid * (p \div grid) <= p
    BY DivBounds
  <2>2. p \in Int
    OBVIOUS
  <2>3. r = p - grid * (p \div grid) /\ r \in 0 .. grid - 1
    BY <2>2, DivInt
  <2> QED BY <2>1, <2>2, <2>3
<1>2. s \in 0 .. p
  <2>1. grid * (p \div grid) \in Nat
    BY <1>1
  <2> QED BY <1>1, <2>1
<1>3. s + grid >= p + 1
  BY <1>1
<1> HIDE DEF r
<1>4. v \in Nat /\ v <= k /\ v * m \in Nat /\ p * k \in Nat
  OBVIOUS
<1>5. v * m <= k * m
  BY <1>4, Times
<1>6. p <= m
  <2>1. k * m = m * k /\ m * k \in Nat /\ (m + 1) * k = m * k + k
    OBVIOUS
  <2>2. p * k < (m + 1) * k
    BY <1>4, <1>5, <2>1
  <2> QED BY <2>2, Cancel
<1>7. s \in Nat /\ sk \in Nat /\ gk \in Nat
  BY <1>2
<1>8. sk <= p * k
  BY <1>2, Times
<1>9. (p + 1) * k <= (s + grid) * k /\ (s + grid) * k = sk + gk
  <2>1. (p + 1) * k <= (s + grid) * k
    BY <1>3, <1>7, Times
  <2> QED BY <1>7, <2>1, Distrib
<1>a. s = p - (p % grid) /\ sk = s * k /\ gk = grid * k
  BY DEF r
<1> HIDE DEF s, sk, gk
<1>10. /\ shown \in Nat /\ m * shown <= sk /\ sk < m * shown + m
       /\ q \in Nat /\ m * q <= gk /\ gk < m * q + m
  BY <1>7, DivBounds
<1>b. shown = sk \div m /\ q = gk \div m
  OBVIOUS
<1> HIDE DEF shown, q
<1>11. shown <= v
  <2>1. shown * m = m * shown /\ (v + 1) * m = v * m + m
    BY <1>4, <1>10
  <2>2. shown * m \in Nat
    BY <1>10
  <2>3. shown * m < (v + 1) * m
    BY <1>4, <1>8, <1>7, <1>10, <2>1, <2>2
  <2>4. shown < v + 1
    BY <1>4, <1>10, <2>3, Cancel
  <2> QED BY <1>4, <1>10, <2>4
<1>12. v <= shown + q + 1
  <2>1. (shown + q + 2) * m = m * shown + m * q + 2 * m
    BY <1>10
  <2>2. m * shown \in Nat /\ m * q \in Nat
    BY <1>10
  <2>3. v * m < (shown + q + 2) * m
    <3>1. v * m < sk + gk
      <4>1. (p + 1) * k \in Nat
        OBVIOUS
      <4> QED BY <1>4, <1>7, <1>9, <4>1
    <3> QED BY <1>4, <1>7, <1>10, <2>1, <2>2, <3>1
  <2>4. v < shown + q + 2
    BY <1>4, <1>10, <2>3, Cancel
  <2> QED BY <1>4, <1>10, <2>4
<1>13. v - shown \in 0 .. q + 1
  BY <1>4, <1>10, <1>11, <1>12
<1> QED BY <1>2, <1>6, <1>13, <1>a, <1>b

LEMMA MoveWindowed ==
  ASSUME Typed, Windowed,
         NEW x \in Moves, NEW across \in Across, NEW second \in BOOLEAN,
         Move(x, across, second)
  PROVE  Windowed' /\ heard'.point = heard.point
<1> DEFINE d == Relative(data, x, across, second)
           step == Mickeys(data, x, across, second)
<1>1. /\ data' = d /\ d \in Data /\ step \in Int /\ x \in Int /\ across \in Nat
      /\ data \in Kept /\ win'.at = win.at /\ win'.max = win.max
      /\ UNCHANGED <<bios, windows>>
  BY MoveIs DEF Typed
<1>2. d.min = data.min /\ d.max = data.max /\ d.screen = data.screen
  BY MoveIs
<1>3. HearMove(d, step)
  BY DEF Move
<1> HIDE DEF d, step
<1>4. heard'.point = heard.point
  BY <1>1, <1>3, HearMoveIs DEF Typed, WinTypeOK, Wins
<1> QED BY <1>1, <1>2, <1>4 DEF Windowed

\* A packet while the host points somewhere: Windows gets the same point.
LEMMA PointWindowed ==
  ASSUME Typed, Windowed, PointsWhereHostPoints,
         NEW v \in Points, NEW other \in BOOLEAN, Point(v, other)
  PROVE  Windowed' /\ PointsWhereHostPoints'
<1> DEFINE d == Refresh(data, bios)
           p == Pixels(d, v)
           k == Word - 1
           m == win.max
<1>1. /\ data' = Absolute(d, p, other) /\ HearPoint(data', v)
      /\ d \in Data /\ p \in Words
      /\ v \in 0 .. k /\ v \in Int
      /\ data' \in Data /\ win' = win /\ UNCHANGED <<bios, hooked, windows>>
  BY PointIs
<1>2. /\ data \in Data
      /\ bios \in Screens /\ win \in Wins
      /\ win.max \in Nat
  BY KeptIs DEF Typed, WinTypeOK, Wins
<1>3. d.screen = bios /\ (data.screen = bios => d = data)
  BY <1>2, RefreshIs
<1>4. /\ data'.pos = Clip(p, d.min, d.max) /\ data'.min = d.min
      /\ data'.max = d.max /\ data'.screen = d.screen
  BY <1>1, AbsoluteIs
<1>5. Windowed'
  BY <1>1, <1>3, <1>4 DEF Windowed
<1>6. IF hooked
        THEN heard'.point = IF windows.steady
                              THEN [host |-> v, told |-> Told(data'),
                                    slack |-> Slack]
                              ELSE Nowhere
        ELSE heard'.point = heard.point
  BY <1>1, <1>2, HearPointIs DEF Typed, WinTypeOK, Wins, Placed
<1>7. PointsWhereHostPoints'
  <2>1. CASE ~hooked
    BY <1>6, <2>1 DEF PointsWhereHostPoints
  <2>2. CASE hooked /\ ~windows.steady
    BY <1>6, <2>2 DEF PointsWhereHostPoints, Nowhere
  <2>3. CASE hooked /\ windows.steady
    <3>1. /\ data.screen = bios /\ data.min = 0 /\ data.max = m
          /\ m = bios.max * Enlarge
      BY <2>3 DEF Windowed, Typed, Placed
    <3>2. d = data
      BY <1>3, <3>1
    <3>3. bios.max \in Nat \ {0} /\ bios.grid \in Nat \ {0}
          /\ Enlarge \in Nat \ {0}
          /\ k \in Nat \ {0}
      BY <1>2, ScreenIs, WinMouseAssumption, MouseMotionAssumption
    <3>4. m >= bios.max
      <4>1. bios.max * 1 <= bios.max * Enlarge
        BY <3>3
      <4> QED BY <3>1, <3>3, <4>1
    <3>5. m \in Nat \ {0}
      BY <1>2, <3>3, <3>4
    <3>6. /\ p \in Nat /\ p * k <= v * m /\ v * m < (p + 1) * k
      BY <1>1, <1>2, <3>1, <3>2, <3>4, PixelsIs
    <3> DEFINE grid == bios.grid
               s == p - (p % grid)
               shown == (s * k) \div m
               slack == (grid * k) \div m + 1
    <3>a. Slack = slack
      BY <3>1 DEF Slack
    <3>b. Told(data') = (Clip(data'.pos - (data'.pos % grid), 0, m) * k) \div m
      BY <1>3, <1>4 DEF Told, Snapped, Scaled
    <3> HIDE DEF grid, p, k, m, d
    <3>7. /\ s \in 0 .. p /\ p <= m /\ v - shown \in 0 .. slack
      BY <1>1, <3>3, <3>5, <3>6, ThereAndBack DEF grid
    <3> HIDE DEF s
    <3>8. data'.pos = p
      BY <1>4, <3>1, <3>2, <3>5, <3>6, <3>7 DEF Clip, m
    <3>9. Clip(s, 0, m) = s
      BY <3>5, <3>6, <3>7 DEF Clip
    <3>10. Told(data') = shown
      BY <3>8, <3>9, <3>b DEF s
    <3>11. heard'.point = [host |-> v, told |-> shown, slack |-> slack]
      BY <1>6, <2>3, <3>10, <3>a
    <3> HIDE DEF shown, slack
    <3> QED BY <3>7, <3>11 DEF PointsWhereHostPoints
  <2> QED BY <2>1, <2>2, <2>3
<1> QED BY <1>5, <1>7

\* While the video mode stays, Windows has the mouse where the host has it
\* (mousew16.c:280-297), but for a pixel and the grid.
THEOREM PointersMeet == WinSpec => []PointsWhereHostPoints
<1>1. WinInit => Windowed /\ PointsWhereHostPoints
  BY DEF WinInit, Silent, Nowhere, Windowed, PointsWhereHostPoints
<1>2. Typed /\ Windowed /\ PointsWhereHostPoints /\ [WinNext]_winvars
        => Windowed' /\ PointsWhereHostPoints'
  <2> SUFFICES ASSUME Typed, Windowed, PointsWhereHostPoints, Steps
               PROVE  Windowed' /\ PointsWhereHostPoints'
    BY DEF WinNext, winvars, Windowed, PointsWhereHostPoints
  <2>0. ASSUME heard'.point = heard.point \/ heard'.point = Nowhere
        PROVE  PointsWhereHostPoints'
    BY <2>0 DEF PointsWhereHostPoints, Nowhere
  <2>1. ASSUME NEW x \in Moves, NEW across \in Across, NEW second \in BOOLEAN,
               Move(x, across, second) \/ Fault(x, across, second)
        PROVE  Windowed' /\ PointsWhereHostPoints'
    <3>1. CASE Move(x, across, second)
      BY <2>0, <3>1, MoveWindowed
    <3>2. CASE Fault(x, across, second)
      BY <2>0, <3>2, FaultIs DEF Windowed
    <3> QED BY <2>1, <3>1, <3>2
  <2>2. ASSUME NEW v \in Points, NEW other \in BOOLEAN, Point(v, other)
        PROVE  Windowed' /\ PointsWhereHostPoints'
    BY <2>2, PointWindowed
  <2>3. CASE Other
    BY <2>0, <2>3, OtherIs DEF Windowed
  <2>4. ASSUME NEW s \in Screens, SetMode(s)
        PROVE  Windowed' /\ PointsWhereHostPoints'
    BY <2>0, <2>4, SetModeIs DEF Windowed
  <2>5. ASSUME NEW proc \in Procs, Enable(proc)
        PROVE  Windowed' /\ PointsWhereHostPoints'
    BY <2>0, <2>5, EnableIs DEF Windowed
  <2>6. CASE EnableReset
    BY <2>0, <2>6, EnableResetIs DEF Windowed
  <2>7. CASE EnableSpeed
    BY <2>0, <2>7, EnableSpeedIs DEF Windowed
  <2>8. CASE EnableSize
    <3>1. windows.steady => MaxCoordinate(data) = bios.max
      <4>1. bios.max \in Nat
        BY ScreenIs DEF Typed, WinTypeOK
      <4> QED BY <2>8, <4>1, EnableSizeIs DEF Windowed, MaxCoordinate, Larger
    <3> QED BY <2>0, <2>8, <3>1, EnableSizeIs DEF Windowed
  <2>9. CASE EnableWindow
    BY <2>0, <2>9, EnableWindowIs DEF Windowed
  <2>10. CASE EnableHook
    BY <2>0, <2>10, EnableHookIs DEF Windowed
  <2>11. CASE Disable
    BY <2>0, <2>11, DisableIs DEF Windowed
  <2> QED BY <2>11, <2>10, <2>9, <2>8, <2>7, <2>6, <2>5, <2>4, <2>3, <2>2, <2>1
             DEF Steps
<1> QED BY <1>1, <1>2, AlwaysTyped, PTL DEF WinSpec

=============================================================================
