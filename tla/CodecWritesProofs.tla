--------------------------- MODULE CodecWritesProofs ---------------------------
(***************************************************************************)
(* CodecBus implements CodecWrites: what is written to a codec's register  *)
(* gets there, unchanged, once, in order, and nowhere else.                *)
(***************************************************************************)
EXTENDS GpioWritesProofs

-----------------------------------------------------------------------------
(* Short queues *)

LEMMA Lists ==
    ASSUME NEW x, NEW y
    PROVE  \E S : /\ x \in S /\ y \in S
                  /\ <<>> \in Seq(S) /\ << x >> \in Seq(S) /\ << y >> \in Seq(S)
                  /\ << x, y >> \in Seq(S)
<1>1. PICK S : S = {x, y}
  OBVIOUS
<1>2. x \in S /\ y \in S
  BY <1>1
<1>3. <<>> \in Seq(S) /\ << x >> \in Seq(S) /\ << y >> \in Seq(S) /\ << x, y >> \in Seq(S)
  BY <1>2
<1>4. QED
  BY <1>2, <1>3

LEMMA Joins ==
    ASSUME NEW x, NEW y
    PROVE  /\ <<>> \o <<>> = <<>> /\ << x >> \o <<>> = << x >>
           /\ <<>> \o << y >> = << y >> /\ << x >> \o << y >> = << x, y >>
<1>1. PICK S : /\ x \in S /\ y \in S
               /\ <<>> \in Seq(S) /\ << x >> \in Seq(S) /\ << y >> \in Seq(S)
               /\ << x, y >> \in Seq(S)
  BY Lists
<1>2. <<>> \o <<>> = <<>> /\ << x >> \o <<>> = << x >> /\ <<>> \o << y >> = << y >>
  BY <1>1, ConcatEmptySeq, Zenon
<1>3. << x >> \o << y >> = << x, y >>
  <2>1. PICK s : s = << x >> \o << y >>
    OBVIOUS
  <2>2. s \in Seq(S) /\ Len(s) = 2 /\ s[1] = x /\ s[2] = y
    BY <1>1, <2>1
  <2>3. s = << x, y >>
    BY <1>1, <2>2, SeqEqual
  <2>4. QED
    BY <2>1, <2>3
<1>4. QED
  BY <1>2, <1>3

LEMMA Ends ==
    ASSUME NEW x, NEW y
    PROVE  /\ Append(<<>>, x) = << x >> /\ Append(<< x >>, y) = << x, y >>
           /\ Head(<< x >>) = x /\ Head(<< x, y >>) = x
           /\ Tail(<< x >>) = <<>> /\ Tail(<< x, y >>) = << y >>
           /\ Len(<<>>) = 0 /\ Len(<< x >>) = 1
           /\ << x >> # <<>> /\ << x, y >> # <<>>
<1>1. PICK S : /\ x \in S /\ y \in S
               /\ <<>> \in Seq(S) /\ << x >> \in Seq(S) /\ << y >> \in Seq(S)
               /\ << x, y >> \in Seq(S)
  BY Lists
<1>2. PICK s, t : s = << x >> /\ t = << x, y >>
  OBVIOUS
<1>3. /\ s \in Seq(S) /\ Len(s) = 1 /\ s[1] = x
      /\ t \in Seq(S) /\ Len(t) = 2 /\ t[1] = x /\ t[2] = y
  BY <1>1, <1>2
<1>4. Len(<<>>) = 0 /\ s # <<>> /\ t # <<>>
  BY <1>3, EmptySeq
<1>5. Append(<<>>, x) = << x >>
  BY <1>1, <1>2, <1>3, AppendIsConcat, Joins
<1>6. Append(<< x >>, y) = << x, y >>
  <2>1. PICK u : u = Append(<< x >>, y)
    OBVIOUS
  <2>2. u \in Seq(S) /\ Len(u) = 2 /\ u[1] = x /\ u[2] = y
    BY <1>1, <2>1
  <2>3. u = << x, y >>
    BY <1>1, <2>2, SeqEqual
  <2>4. QED
    BY <2>1, <2>3
<1>7. Head(s) = x /\ Head(t) = x
  BY <1>3
<1>8. Tail(s) = <<>>
  BY <1>1, <1>3, <1>4, HeadTailProperties, EmptySeq
<1>9. Tail(t) = << y >>
  <2>1. PICK u : u = Tail(t)
    OBVIOUS
  <2>2. u \in Seq(S) /\ Len(u) = 1 /\ u[1] = y
    BY <1>3, <1>4, <2>1, HeadTailProperties
  <2>3. u = << y >>
    BY <1>1, <2>2, SeqEqual
  <2>4. QED
    BY <2>1, <2>3
<1>10. QED
  BY <1>2, <1>3, <1>4, <1>5, <1>6, <1>7, <1>8, <1>9

\* What Lose may leave.
LEMMA Removals ==
    ASSUME NEW x, NEW y
    PROVE  /\ Expected!RemoveAt(<< x >>, 1) = <<>>
           /\ Expected!RemoveAt(<< x, y >>, 1) = << y >>
           /\ Expected!RemoveAt(<< x, y >>, 2) = << x >>
           /\ 1 \in DOMAIN << x >> /\ 1 \in DOMAIN << x, y >> /\ 2 \in DOMAIN << x, y >>
<1>1. PICK S : /\ x \in S /\ y \in S
               /\ <<>> \in Seq(S) /\ << x >> \in Seq(S) /\ << y >> \in Seq(S)
               /\ << x, y >> \in Seq(S)
  BY Lists
<1>2. PICK s, t : s = << x >> /\ t = << x, y >>
  OBVIOUS
<1>3. /\ s \in Seq(S) /\ Len(s) = 1 /\ s[1] = x
      /\ t \in Seq(S) /\ Len(t) = 2 /\ t[1] = x /\ t[2] = y
  BY <1>1, <1>2
<1>4. /\ SubSeq(s, 1, 0) = <<>> /\ SubSeq(s, 2, 1) = <<>>
      /\ SubSeq(t, 1, 0) = <<>> /\ SubSeq(t, 3, 2) = <<>>
  BY SubSeqEmpty
<1>5. SubSeq(t, 2, 2) = << y >>
  <2>1. PICK u : u = SubSeq(t, 2, 2)
    OBVIOUS
  <2>2. u \in Seq(S) /\ Len(u) = 1 /\ u[1] = y
    BY <1>1, <1>3, <2>1
  <2>3. u = << y >>
    BY <1>1, <2>2, SeqEqual
  <2>4. QED
    BY <2>1, <2>3
<1>6. SubSeq(t, 1, 1) = << x >>
  <2>1. PICK u : u = SubSeq(t, 1, 1)
    OBVIOUS
  <2>2. u \in Seq(S) /\ Len(u) = 1 /\ u[1] = x
    BY <1>1, <1>3, <2>1
  <2>3. u = << x >>
    BY <1>1, <2>2, SeqEqual
  <2>4. QED
    BY <2>1, <2>3
<1>7. Expected!RemoveAt(s, 1) = SubSeq(s, 1, 0) \o SubSeq(s, 2, 1)
  BY <1>3 DEF Expected!RemoveAt
<1>8. /\ Expected!RemoveAt(t, 1) = SubSeq(t, 1, 0) \o SubSeq(t, 2, 2)
      /\ Expected!RemoveAt(t, 2) = SubSeq(t, 1, 1) \o SubSeq(t, 3, 2)
  BY <1>3 DEF Expected!RemoveAt
<1>9. QED
  <2>1. Expected!RemoveAt(s, 1) = <<>>
    BY <1>4, <1>7, Joins
  <2>2. Expected!RemoveAt(t, 1) = << y >>
    BY <1>4, <1>5, <1>8, Joins
  <2>3. Expected!RemoveAt(t, 2) = << x >>
    BY <1>4, <1>6, <1>8, Joins
  <2>4. QED
    BY <1>2, <2>1, <2>2, <2>3

-----------------------------------------------------------------------------
(* The steps of CodecWrites *)

\* What is with the controller, and what is with the thread.
Passing == IF transfer = None \/ IsRead(transfer) THEN <<>> ELSE << transfer >>
Held == IF call = None \/ ~IsWrite(call) \/ latched THEN <<>> ELSE << call >>

LEMMA QueueIs == OnTheirWay = Passing \o Held
BY DEF OnTheirWay, Passing, Held

LEMMA QueueIsOf ==
    /\ Passing = <<>> \/ (transfer # None /\ ~IsRead(transfer) /\ Passing = << transfer >>)
    /\ Held = <<>> \/ (call # None /\ IsWrite(call) /\ ~latched /\ Held = << call >>)
BY DEF Passing, Held

LEMMA Stutters ==
    ASSUME OnTheirWay' = OnTheirWay, UNCHANGED <<regs, late>>
    PROVE  [Expected!Next]_(Expected!vars)
BY DEF Expected!vars

\* A write is asked for.
LEMMA Asks ==
    ASSUME Held = <<>>, Passing' = Passing, UNCHANGED <<regs, late>>,
           NEW w \in AllWrites, Held' = << w >>
    PROVE  Expected!Next
<1>1. OnTheirWay = <<>> \/ OnTheirWay = << transfer >>
  BY QueueIs, QueueIsOf, Joins
<1>2. OnTheirWay' = Passing' \o Held'
  BY DEF OnTheirWay, Passing, Held
<1>3. OnTheirWay' = Append(OnTheirWay, w)
  BY <1>1, <1>2, QueueIs, QueueIsOf, Joins, Ends
<1>4. Len(OnTheirWay) < 2
  BY <1>1, Ends
<1>5. QED
  BY <1>3, <1>4, Zenon DEF Expected!Next, Expected!Ask

\* The oldest write is over: it lands, or strays.
LEMMA LandsFirst ==
    ASSUME Held' = Held, Passing = << transfer >>, Passing' = <<>>
    PROVE  /\ OnTheirWay # <<>> /\ Head(OnTheirWay) = transfer
           /\ OnTheirWay' = Tail(OnTheirWay)
<1>1. OnTheirWay = << transfer >> \o Held /\ OnTheirWay' = <<>> \o Held
  BY DEF OnTheirWay, Passing, Held
<1>2. CASE Held = <<>>
  <2>1. OnTheirWay = << transfer >> /\ OnTheirWay' = <<>>
    BY <1>1, <1>2, Joins
  <2>2. QED
    BY <2>1, Ends
<1>3. CASE Held = << call >>
  <2>1. OnTheirWay = << transfer, call >> /\ OnTheirWay' = << call >>
    BY <1>1, <1>3, Joins
  <2>2. QED
    BY <2>1, Ends
<1>4. QED
  BY <1>2, <1>3, QueueIsOf

LEMMA Lands ==
    ASSUME Held' = Held, Passing = << transfer >>, Passing' = <<>>, late' = late,
           regs' = [regs EXCEPT ![<<transfer.chip, transfer.reg>>] = transfer.data]
    PROVE  Expected!Next
<1>1. /\ OnTheirWay # <<>> /\ Head(OnTheirWay) = transfer
      /\ OnTheirWay' = Tail(OnTheirWay)
  BY LandsFirst
<1>2. QED
  BY <1>1 DEF Expected!Next, Expected!Land

LEMMA Strays ==
    ASSUME Held' = Held, Passing = << transfer >>, Passing' = <<>>, late, late' = late,
           NEW r, NEW v, regs' = [regs EXCEPT ![<<transfer.chip, r>>] = v]
    PROVE  Expected!Next
<1>1. /\ OnTheirWay # <<>> /\ Head(OnTheirWay) = transfer
      /\ OnTheirWay' = Tail(OnTheirWay)
  BY LandsFirst
<1>2. \A x \in DOMAIN regs : x[1] # transfer.chip => regs'[x] = regs[x]
  OBVIOUS
<1>3. QED
  BY <1>1, <1>2 DEF Expected!Next, Expected!Stray

\* A write is given up.
LEMMA Loses ==
    ASSUME late, UNCHANGED <<regs, late>>,
           NEW x, NEW y,
           \/ OnTheirWay = << x >> /\ OnTheirWay' = <<>>
           \/ OnTheirWay = << x, y >> /\ OnTheirWay' \in {<< x >>, << y >>}
    PROVE  Expected!Next
<1>1. \E i \in DOMAIN OnTheirWay : OnTheirWay' = Expected!RemoveAt(OnTheirWay, i)
  <2>1. CASE OnTheirWay = << x >> /\ OnTheirWay' = <<>>
    BY <2>1, Removals, Zenon
  <2>2. CASE OnTheirWay = << x, y >> /\ OnTheirWay' = << x >>
    BY <2>2, Removals, Zenon
  <2>3. CASE OnTheirWay = << x, y >> /\ OnTheirWay' = << y >>
    BY <2>3, Removals, Zenon
  <2>4. QED
    BY <2>1, <2>2, <2>3
<1>2. QED
  BY <1>1 DEF Expected!Next, Expected!Lose

\* Held and Passing are what they were.
LEMMA QueueStays ==
    ASSUME UNCHANGED <<call, latched, transfer, regs, late>>
    PROVE  [Expected!Next]_(Expected!vars)
<1>1. OnTheirWay' = OnTheirWay
  BY DEF OnTheirWay, IsRead, IsWrite
<1>2. QED
  BY <1>1, Stutters

\* A call begins: a write is asked for, if it is one.
LEMMA EnterRefines ==
    ASSUME TypeInv, pc = "idle", NEW w \in CallsOf[card], Enter(w)
    PROVE  [Expected!Next]_(Expected!vars)
<1>1. /\ call = None /\ call' = w /\ latched' = FALSE
      /\ UNCHANGED <<transfer, regs, late>>
  BY DEF Enter, TypeInv, ThreadTyped
<1>2. w # None
  BY CallsFit DEF TypeInv, ThreadTyped
<1>3. Held = <<>> /\ Passing' = Passing
  BY <1>1 DEF Held, Passing, IsRead
<1>4. CASE IsWrite(w)
  <2>1. Held' = << w >>
    BY <1>1, <1>2, <1>4 DEF Held
  <2>2. w \in AllWrites
    BY <1>4 DEF AllWrites, TypeInv, ThreadTyped
  <2>3. QED
    BY <1>1, <1>3, <2>1, <2>2, Asks
<1>5. CASE ~IsWrite(w)
  <2>1. Held' = <<>>
    BY <1>1, <1>5 DEF Held
  <2>2. OnTheirWay' = OnTheirWay
    <3>1. OnTheirWay' = Passing' \o Held' /\ OnTheirWay = Passing \o Held
      BY DEF OnTheirWay, Passing, Held
    <3>2. QED
      BY <1>3, <2>1, <3>1
  <2>3. QED
    BY <1>1, <2>2, Stutters
<1>6. QED
  BY <1>4, <1>5

\* An access to the GPIO registers.
LEMMA AccessRefines ==
    ASSUME TypeInv, Registers, card \in OnGpio, pc = "gpio", NEW F, NEW a, Accessed(F, a),
           Delivers(a)
    PROVE  [Expected!Next]_(Expected!vars)
<1>1. PICK new, out : new = Levels(a) /\ out = Directed(a)
  OBVIOUS
<1>2. /\ F = Frame(card, call) /\ Change(new, out) /\ UNCHANGED <<late, transfer>>
      /\ \/ n < Len(F) /\ n' = n + 1 /\ pc' = pc /\ call' = call
         \/ n = Len(F) /\ n' = 0 /\ pc' = "idle" /\ call' = None
  BY <1>1, AccessMakes DEF Makes
<1>3. transfer = None /\ transfer' = None /\ call # None /\ late' = late
  BY <1>2 DEF TypeInv, ThreadTyped
<1>4. Passing = <<>> /\ Passing' = <<>>
  BY <1>3 DEF Passing
<1>5. CASE /\ Landing(new, out) = {}
           /\ n = Len(Frame(card, call)) => latched \/ ~IsWrite(call)
  <2>1. regs' = regs /\ latched' = latched
    <3>1. regs' = regs /\ (latched' <=> latched)
      BY <1>2, <1>5, NothingLands
    <3>2. latched \in BOOLEAN /\ latched' \in BOOLEAN
      BY <1>2 DEF TypeInv, Devices, Change
    <3>3. QED
      BY <3>1, <3>2
  <2>2. CASE call' = call
    BY <1>2, <1>3, <2>1, <2>2, QueueStays
  <2>3. CASE n = Len(F) /\ call' = None
    <3>1. Held = <<>> /\ Held' = <<>>
      BY <1>2, <1>5, <2>3 DEF Held
    <3>2. OnTheirWay' = OnTheirWay
      <4>1. OnTheirWay' = Passing' \o Held' /\ OnTheirWay = Passing \o Held
        BY DEF OnTheirWay, Passing, Held
      <4>2. QED
        BY <1>4, <3>1, <4>1
    <3>3. QED
      BY <1>3, <2>1, <3>2, Stutters
  <2>4. QED
    BY <1>2, <2>2, <2>3
<1>6. CASE Landing(new, out) = {call} /\ ~latched /\ IsWrite(call)
  <2>1. regs' = [regs EXCEPT ![<<call.chip, call.reg>>] = call.data] /\ latched'
    BY <1>2, <1>6, OneLands
  <2>2. Held = << call >> /\ Held' = <<>>
    BY <1>3, <1>6, <2>1 DEF Held
  <2>3. OnTheirWay = << call >> /\ OnTheirWay' = <<>>
    <3>1. OnTheirWay' = Passing' \o Held' /\ OnTheirWay = Passing \o Held
      BY DEF OnTheirWay, Passing, Held
    <3>2. QED
      BY <1>4, <2>2, <3>1, Joins
  <2>4. OnTheirWay # <<>> /\ Head(OnTheirWay) = call /\ OnTheirWay' = Tail(OnTheirWay)
    BY <2>3, Ends
  <2>5. QED
    BY <1>3, <2>1, <2>4 DEF Expected!Next, Expected!Land
<1>7. QED
  BY <1>1, <1>5, <1>6 DEF Delivers

-----------------------------------------------------------------------------
(* The cards on the I2C controller *)

\* WriteI2C writes, and ReadI2C reads: no other call gets to the controller.
LEMMA ControllerCalls ==
    ASSUME TypeInv, card \notin OnGpio, NEW w \in CallsOf[card]
    PROVE  IsRead(w) = ~IsWrite(w)
<1>1. Fitting(card, w) /\ card # "Revo51" /\ card # "AureonSpace"
  BY CallsFit, GpioCardsAre DEF TypeInv, ThreadTyped, GpioCards
<1>2. IsRead(w) \/ IsWrite(w)
  BY <1>1 DEF Fitting
<1>3. QED
  BY <1>2 DEF IsRead, IsWrite

\* The transfer starts: the write leaves the thread.  If the controller is busy
\* one of the two is lost.
LEMMA WriteDeviceRefines ==
    ASSUME TypeInv, ControllerInv, card \notin OnGpio, WriteDevice
    PROVE  [Expected!Next]_(Expected!vars)
<1>1. /\ pc = "dev" /\ call # None /\ call \in CallsOf[card] /\ ~latched
      /\ UNCHANGED <<regs, late, latched>>
  BY OnController DEF WriteDevice, gpio, TypeInv, ThreadTyped
<1>2. IsRead(call) = ~IsWrite(call)
  BY <1>1, ControllerCalls
<1>3. /\ IsRead(call) => Held = <<>>
      /\ ~IsRead(call) => Held = << call >>
  BY <1>1, <1>2 DEF Held
<1>4. Held' = <<>>
  <2>1. call' = None \/ (call' = call /\ IsRead(call))
    BY DEF WriteDevice
  <2>2. QED
    BY <1>2, <2>1 DEF Held, IsWrite, IsRead
<1>5. OnTheirWay = Passing \o Held /\ OnTheirWay' = Passing' \o Held'
  BY DEF OnTheirWay, Passing, Held
<1>6. CASE transfer = None
  <2>1. transfer' = call
    BY <1>6 DEF WriteDevice
  <2>2. CASE IsRead(call)
    <3>1. Passing = <<>> /\ Passing' = <<>>
      BY <1>6, <2>1, <2>2 DEF Passing, IsRead
    <3>2. OnTheirWay' = OnTheirWay
      BY <1>3, <1>4, <1>5, <2>2, <3>1
    <3>3. QED
      BY <1>1, <3>2, Stutters
  <2>3. CASE ~IsRead(call)
    <3>1. Passing = <<>> /\ Passing' = << call >>
      BY <1>1, <1>6, <2>1, <2>3 DEF Passing, IsRead
    <3>2. OnTheirWay' = << call >> /\ OnTheirWay = << call >>
      BY <1>3, <1>4, <1>5, <2>3, <3>1, Joins
    <3>3. QED
      BY <1>1, <3>2, Stutters
  <2>4. QED
    BY <2>2, <2>3
<1>7. CASE transfer # None
  <2>1. late
    BY <1>1, <1>7 DEF ControllerInv, Undisturbed
  <2>2. transfer' = transfer \/ transfer' = call
    BY <1>7 DEF WriteDevice
  <2>3. /\ transfer' = transfer => Passing' = Passing
        /\ transfer' = call => Passing' = Held
    <3>1. transfer' = transfer => Passing' = Passing
      BY DEF Passing, IsRead
    <3>2. ASSUME transfer' = call
          PROVE  Passing' = IF IsRead(call) THEN <<>> ELSE << call >>
      BY <1>1, <3>2 DEF Passing, IsRead
    <3>3. QED
      BY <1>3, <3>1, <3>2
  <2>4. OnTheirWay' = Passing \/ OnTheirWay' = Held
    <3>1. OnTheirWay' = Passing' \o <<>>
      BY <1>4, <1>5
    <3>2. Passing' \o <<>> = Passing'
      BY <2>2, <2>3, QueueIsOf, Joins
    <3>3. QED
      BY <2>2, <2>3, <3>1, <3>2
  <2>5. CASE Passing = <<>>
    <3>1. OnTheirWay = Held
      BY <1>5, <2>5, QueueIsOf, Joins
    <3>2. CASE Held = <<>>
      <4>1. OnTheirWay' = OnTheirWay
        BY <2>4, <2>5, <3>1, <3>2
      <4>2. QED
        BY <1>1, <4>1, Stutters
    <3>3. CASE Held = << call >>
      <4>1. OnTheirWay = << call >> /\ (OnTheirWay' = <<>> \/ OnTheirWay' = OnTheirWay)
        BY <2>4, <2>5, <3>1, <3>3
      <4>2. QED
        BY <1>1, <2>1, <4>1, Loses, Stutters
    <3>4. QED
      BY <3>2, <3>3, QueueIsOf
  <2>6. CASE Passing = << transfer >>
    <3>1. CASE Held = <<>>
      <4>1. OnTheirWay = << transfer >> /\ (OnTheirWay' = <<>> \/ OnTheirWay' = OnTheirWay)
        BY <1>5, <2>4, <2>6, <3>1, Joins
      <4>2. QED
        BY <1>1, <2>1, <4>1, Loses, Stutters
    <3>2. CASE Held = << call >>
      <4>1. OnTheirWay = << transfer, call >>
        BY <1>5, <2>6, <3>2, Joins
      <4>2. OnTheirWay' \in {<< transfer >>, << call >>}
        BY <2>4, <2>6, <3>2
      <4>3. QED
        BY <1>1, <2>1, <4>1, <4>2, Loses
    <3>3. QED
      BY <3>1, <3>2, QueueIsOf
  <2>7. QED
    BY <2>5, <2>6, QueueIsOf
<1>8. QED
  BY <1>6, <1>7

\* ReadI2C returns: no write is with the thread, unless WaitForI2C gave up.
LEMMA ReadValueRefines ==
    ASSUME TypeInv, ControllerInv, card \notin OnGpio, ReadValue
    PROVE  [Expected!Next]_(Expected!vars)
<1>1. /\ pc = "value" /\ call' = None
      /\ UNCHANGED <<transfer, regs, late, latched>>
  BY DEF ReadValue, gpio, i2c
<1>2. Passing' = Passing /\ Held' = <<>>
  BY <1>1 DEF Passing, Held, IsRead
<1>3. OnTheirWay = Passing \o Held /\ OnTheirWay' = Passing' \o Held'
  BY DEF OnTheirWay, Passing, Held
<1>4. CASE Held = <<>>
  <2>1. OnTheirWay' = OnTheirWay
    BY <1>2, <1>3, <1>4
  <2>2. QED
    BY <1>1, <2>1, Stutters
<1>5. CASE IsWrite(call) /\ Held = << call >>
  <2>1. late
    BY <1>1, <1>5 DEF ControllerInv, Undisturbed, IsRead, IsWrite
  <2>2. \/ OnTheirWay = << call >> /\ OnTheirWay' = <<>>
        \/ OnTheirWay = << transfer, call >> /\ OnTheirWay' = << transfer >>
    BY <1>2, <1>3, <1>5, QueueIsOf, Joins
  <2>3. QED
    BY <1>1, <2>1, <2>2, Loses
<1>6. QED
  BY <1>4, <1>5, QueueIsOf

\* The controller ends a transfer.
LEMMA TransferredRefines ==
    ASSUME TypeInv, ControllerInv, card \notin OnGpio, Transferred
    PROVE  [Expected!Next]_(Expected!vars)
<1>1. /\ transfer # None /\ transfer' = None
      /\ UNCHANGED <<call, late, latched>>
  BY DEF Transferred, gpio
<1>2. Passing' = <<>> /\ Held' = Held
  BY <1>1 DEF Passing, Held, IsWrite
<1>3. CASE IsRead(transfer)
  <2>1. Passing = <<>> /\ regs' = regs
    BY <1>3 DEF Passing, Transferred
  <2>2. OnTheirWay' = OnTheirWay
    <3>1. OnTheirWay = Passing \o Held /\ OnTheirWay' = Passing' \o Held'
      BY DEF OnTheirWay, Passing, Held
    <3>2. QED
      BY <1>2, <2>1, <3>1
  <2>3. QED
    BY <1>1, <2>1, <2>2, Stutters
<1>4. CASE ~IsRead(transfer)
  <2>1. /\ Passing = << transfer >>
        /\ regs' = [regs EXCEPT ![<<transfer.chip, addr>>] = data]
    BY <1>1, <1>4 DEF Passing, Transferred
  <2>2. CASE late
    BY <1>1, <1>2, <2>1, <2>2, Strays
  <2>3. CASE ~late
    <3>1. addr = transfer.reg /\ data = transfer.data
      BY <1>1, <1>4, <2>3 DEF ControllerInv, Undisturbed
    <3>2. QED
      BY <1>1, <1>2, <2>1, <3>1, Lands
  <2>4. QED
    BY <2>2, <2>3
<1>5. QED
  BY <1>3, <1>4

\* A poll: WaitForI2C may give up.
LEMMA PollRefines ==
    ASSUME Poll
    PROVE  [Expected!Next]_(Expected!vars)
<1>1. /\ UNCHANGED <<call, latched, transfer, regs>>
      /\ late' = late \/ late' = TRUE
  BY DEF Poll, gpio
<1>2. OnTheirWay' = OnTheirWay
  BY <1>1 DEF OnTheirWay, IsRead, IsWrite
<1>3. CASE late' = TRUE
  BY <1>1, <1>2, <1>3, Zenon DEF Expected!Next, Expected!TimeOut
<1>4. CASE late' = late
  BY <1>1, <1>2, <1>4, Stutters
<1>5. QED
  BY <1>1, <1>3, <1>4

\* card_init begins, or returns, and the first steps of a call.
LEMMA OthersRefine ==
    ASSUME SetUpReturns \/ Wake \/ WriteAddr \/ WriteData \/ UNCHANGED vars
    PROVE  [Expected!Next]_(Expected!vars)
<1>1. UNCHANGED <<call, latched, transfer, regs, late>>
  BY DEF SetUpReturns, Wake, WriteAddr, WriteData, vars, gpio, i2c
<1>2. QED
  BY <1>1, QueueStays

LEMMA ControllerRefines ==
    ASSUME TypeInv, ControllerInv, card \notin OnGpio, [Next]_vars
    PROVE  [Expected!Next]_(Expected!vars)
<1>1. ASSUME NEW w \in WritesOf(card), Request(w)
      PROVE  [Expected!Next]_(Expected!vars)
  <2>1. w \in CallsOf[card] /\ pc = "idle" /\ Enter(w)
    BY <1>1, SetUpCalls DEF Request, TypeInv, ThreadTyped
  <2>2. QED
    BY <2>1, EnterRefines
<1>2. CASE SetUpCall
  <2>1. PICK w : w = SetUp[card][at]
    OBVIOUS
  <2>2. w \in CallsOf[card] /\ pc = "idle" /\ Enter(w)
    BY <1>2, <2>1, SetUpCalls DEF SetUpCall, TypeInv, ThreadTyped
  <2>3. QED
    BY <2>2, EnterRefines
<1>3. ~WriteGpio
  BY DEF WriteGpio, TypeInv, ThreadTyped
<1>4. QED
  BY <1>1, <1>2, <1>3, PollRefines, OthersRefine, WriteDeviceRefines, ReadValueRefines,
     TransferredRefines DEF Next, ThreadStep

LEMMA InitRefines ==
    ASSUME Init
    PROVE  Expected!Init
<1>1. OnTheirWay = <<>> \o <<>> /\ late = FALSE
  BY DEF Init, OnTheirWay
<1>2. OnTheirWay = <<>>
  BY <1>1, Joins
<1>3. QED
  BY <1>1, <1>2 DEF Expected!Init

-----------------------------------------------------------------------------
(* What holds between and during the accesses to GPIO pins *)

\* The serial codecs are deselected, and no others are before that.
PastCodecs ==
    at = 0 \/ at > CodecsAt(card) + 1 \/ (at = CodecsAt(card) + 1 /\ pc = "idle")
Prepared == IF card = "AureonSpace" THEN PastCodecs ELSE PastBoot

\* Outside of a write the shift registers have no bits, and the codecs' selects
\* are high; within one a codec holds the bits so far.
SerialInv ==
    IF OnSerial
    THEN \A chip, w, word : Serving(chip, w, word) => SerialNow(chip, w, word)
    ELSE Still /\ (Prepared => Up(card) \subseteq pins)

\* The pins are not masked, and the PT2258's are outputs: now, or when they are
\* restored.
Usable(m, d) == Open(card) \cap m = {} /\ (card = "Revo51" => {6, 7} \subseteq d)
MaskInv ==
    PastBoot => IF OnTheBus THEN Usable(saved.masked, saved.dir) ELSE Usable(masked, dir)

\* On the Aureon the AC'97 codec is set up before the serial ones.
BeforeCodecs == at \in 3 .. CodecsAt(card) \/ (at = 2 /\ pc = "idle")
AureonInv ==
    card = "AureonSpace" =>
       /\ BeforeCodecs => masked \cap 0 .. 11 = {}
       /\ pc = "gpio" /\ call.chip = "codecs" => CodecsNow
       /\ pc = "gpio" /\ call.chip = "AC97" =>
             \A low, high : SplitUp(call.data, low, high) => AC97Now(call.reg, low, high)

-----------------------------------------------------------------------------
(* Which call is which *)

\* card_init's calls on the Aureon, by when it makes them.
AureonCalls ==
    /\ at = 2 => call.chip = "boot"
    /\ at \in 3 .. CodecsAt(card) => call.chip \in {"ac97", "AC97"}
    /\ at = CodecsAt(card) + 1 => call.chip = "codecs"
    /\ at > CodecsAt(card) + 1 => call.chip \in {"Aureon", "CS8415"}

LEMMA AureonCallsAre ==
    ASSUME card \in Cards, card = "AureonSpace", CallsInOrder, pc = "gpio", at # 0,
           at \in 0 .. Len(SetUp[card]) + 1
    PROVE  /\ AureonCalls /\ at \in Nat /\ CodecsAt(card) \in Nat /\ CodecsAt(card) >= 3
           /\ at >= 2
<1>1. PICK F, u, S : /\ F = SetUp[card] /\ u = CodecsAt(card) /\ u \in Nat /\ u >= 3
                     /\ Arranged(F, S, u, "codecs", {"ac97", "AC97"}, {"Aureon", "CS8415"})
  BY AureonArranged, SetUpsAre
<1>2. /\ F \in Seq(S) /\ Len(F) \in Nat /\ u \in 2 .. Len(F)
      /\ F[1].chip = "boot" /\ ChipsIn(F, 2, u - 1, {"ac97", "AC97"})
      /\ F[u].chip = "codecs" /\ ChipsIn(F, u + 1, Len(F), {"Aureon", "CS8415"})
  BY <1>1 DEF Arranged
<1>3. PICK i : /\ i = at - 1 /\ at \in Nat /\ at > 1 /\ call = F[i]
  BY <1>1 DEF CallsInOrder
<1>4. i \in Nat /\ i >= 1 /\ at = i + 1 /\ i \in 1 .. Len(F)
  BY <1>1, <1>2, <1>3
<1>5. at = 2 => call.chip = "boot"
  <2>1. at = 2 => i = 1
    BY <1>4
  <2>2. QED
    BY <1>2, <1>3, <2>1
<1>6. at \in 3 .. u => call.chip \in {"ac97", "AC97"}
  <2>1. at \in 3 .. u => i \in 2 .. u - 1
    BY <1>1, <1>4
  <2>2. QED
    BY <1>2, <1>3, <2>1 DEF ChipsIn
<1>7. at = u + 1 => call.chip = "codecs"
  <2>1. at = u + 1 => i = u
    BY <1>1, <1>4
  <2>2. QED
    BY <1>2, <1>3, <2>1
<1>8. at > u + 1 => call.chip \in {"Aureon", "CS8415"}
  <2>1. at > u + 1 => i \in u + 1 .. Len(F)
    BY <1>1, <1>4
  <2>2. QED
    BY <1>2, <1>3, <2>1 DEF ChipsIn
<1>9. QED
  BY <1>1, <1>3, <1>4, <1>5, <1>6, <1>7, <1>8 DEF AureonCalls

\* What a call is for.
Kinds ==
    \/ OnSerial /\ call.chip \notin Simple \cup {"boot", "ac97", "AC97", "codecs", "PT2258"}
    \/ call.chip = "boot"
    \/ call.chip \in Simple /\ card # "AureonSpace"
    \/ card = "AureonSpace" /\ call.chip \in {"ac97", "AC97", "codecs"}
    \/ card = "Revo51" /\ call.chip = "PT2258"

LEMMA KindsAre ==
    ASSUME TypeInv, card \in OnGpio, CallsInOrder, pc = "gpio"
    PROVE  /\ Kinds /\ (call.chip = "boot" \/ PastBoot)
           /\ at = 0 => OnSerial
<1>1. /\ card \in Cards /\ card \in GpioCards /\ call \in CallsOf[card]
      /\ at \in 0 .. Len(SetUp[card]) + 1 /\ at \in Nat
  <2>1. card \in Cards /\ call \in CallsOf[card] \cup {None} /\ (pc = "idle") = (call = None)
        /\ at \in 0 .. Len(SetUp[card]) + 1
    BY DEF TypeInv, ThreadTyped
  <2>2. Len(SetUp[card]) \in Nat
    BY <2>1, SetUpCalls
  <2>3. QED
    BY <2>1, <2>2, GpioCardsAre
<1>2. GpioCall(card, call)
  BY <1>1, GpioCalls
<1>3. Serial(card) = ChipsWired[card]
  BY SerialIs
<1>4. /\ at = 0 \/ at >= 2
      /\ at = 2 => call.chip = "boot"
      /\ at = 0 => call.chip \in ChipsWired[card] /\ call.chip \in ChipsOf[card]
  BY <1>1, CallTimes
<1>5. ASSUME call.chip \in ChipsWired[card]
      PROVE  call.chip \notin Simple \cup {"boot", "ac97", "AC97", "codecs", "PT2258"}
  BY <1>1, <1>5 DEF Simple, ChipsWired, GpioCards
<1>6. ASSUME call.chip \in StepsOf[card]
      PROVE  \/ call.chip = "boot"
             \/ call.chip \in Simple /\ card # "AureonSpace"
             \/ card = "AureonSpace" /\ call.chip \in {"ac97", "AC97", "codecs"}
  BY <1>1, <1>6 DEF Simple, StepsOf, GpioCards
<1>7. Kinds
  BY <1>2, <1>3, <1>5, <1>6, Zenon DEF GpioCall, Kinds, OnSerial
<1>8. call.chip = "boot" \/ PastBoot
  BY <1>1, <1>4 DEF PastBoot
<1>9. QED
  BY <1>3, <1>4, <1>7, <1>8 DEF OnSerial

-----------------------------------------------------------------------------
(* What the PT2258 hears *)

\* It listens, and has so much of a byte and of a message.
Listening(bits, byte, bytes, message, pulls) ==
    [on |-> TRUE, bits |-> bits, byte |-> byte, bytes |-> bytes, message |-> message,
     pulls |-> pulls]

\* The lines' levels before and after an access: clock and data, low or high.
Wires(c0, d0, c1, d1, new, out) ==
    /\ Level(Scl, pins, dir) <=> c0
    /\ Level(Sda, pins, dir) <=> d0
    /\ Level(Scl, new, out) <=> c1
    /\ Level(Sda, new, out) <=> d1

LEMMA StartHeard ==
    ASSUME NEW new, NEW out, Wires(TRUE, TRUE, TRUE, FALSE, new, out)
    PROVE  /\ Heard(new, out) = Listening(0, 0, 0, 0, FALSE)
           /\ Stopped(new, out) = {}
<1>1. /\ Starts(new, out) /\ ~Stops(new, out)
      /\ Level(Scl, pins, dir) /\ Level(Scl, new, out)
  BY DEF Starts, Stops, Wires
<1>2. PICK q : q = [Quiet EXCEPT !.on = TRUE]
  OBVIOUS
<1>3. q = Listening(0, 0, 0, 0, FALSE)
  BY <1>2 DEF Quiet, Listening
<1>4. Heard(new, out) = [Quiet EXCEPT !.on = TRUE]
  BY <1>1 DEF Heard
<1>5. Stopped(new, out) = {}
  BY <1>1, Zenon DEF Stopped
<1>6. QED
  BY <1>2, <1>3, <1>4, <1>5, Zenon

LEMMA StopHeard ==
    ASSUME NEW new, NEW out, Wires(TRUE, FALSE, TRUE, TRUE, new, out), bus.on
    PROVE  /\ Heard(new, out) = Quiet
           /\ bus.bytes > 1 => Stopped(new, out) = {Call("PT2258", 0, bus.message)}
<1>1. /\ ~Starts(new, out) /\ Stops(new, out)
      /\ Level(Scl, pins, dir) /\ Level(Scl, new, out)
  BY DEF Starts, Stops, Wires
<1>2. Heard(new, out) = Quiet
  BY <1>1 DEF Heard
<1>3. ASSUME bus.bytes > 1
      PROVE  Stopped(new, out) = {Call("PT2258", 0, bus.message)}
  BY <1>1, <1>3, Zenon DEF Stopped
<1>4. QED
  BY <1>2, <1>3

\* Neither a start nor a stop.
LEMMA NothingStops ==
    ASSUME NEW new, NEW out, NEW c0 \in BOOLEAN, NEW d0 \in BOOLEAN, NEW c1 \in BOOLEAN,
           NEW d1 \in BOOLEAN, Wires(c0, d0, c1, d1, new, out), ~(c0 /\ c1) \/ (d0 <=> d1)
    PROVE  ~Starts(new, out) /\ ~Stops(new, out) /\ Stopped(new, out) = {}
BY DEF Starts, Stops, Wires, Stopped

LEMMA StillHeard ==
    ASSUME NEW new, NEW out, NEW c \in BOOLEAN, NEW d0 \in BOOLEAN, NEW d1 \in BOOLEAN,
           Wires(c, d0, c, d1, new, out), ~c \/ (d0 <=> d1), bus.on
    PROVE  Heard(new, out) = bus /\ Stopped(new, out) = {}
<1>1. ~Starts(new, out) /\ ~Stops(new, out) /\ Stopped(new, out) = {}
  BY NothingStops
<1>2. Level(Scl, pins, dir) <=> Level(Scl, new, out)
  BY DEF Wires
<1>3. QED
  BY <1>1, <1>2 DEF Heard

Shifts(y, z, d) == z = 2 * y + (IF d THEN 1 ELSE 0)

\* The device takes a bit as the clock rises; the ninth is its own.
Hears(new, out, b) == Heard(new, out) = b /\ Stopped(new, out) = {}

LEMMA BitHeard ==
    ASSUME NEW new, NEW out, NEW d0 \in BOOLEAN, NEW d1 \in BOOLEAN,
           Wires(FALSE, d0, TRUE, d1, new, out), NEW x \in 0 .. 7, NEW y \in Nat,
           NEW b, NEW m, NEW p, bus = Listening(x, y, b, m, p), NEW z, Shifts(y, z, d1)
    PROVE  Hears(new, out, Listening(x + 1, z, b, m, p))
<1>1. ~Starts(new, out) /\ ~Stops(new, out) /\ Stopped(new, out) = {}
  BY NothingStops
<1>2. ~Level(Scl, pins, dir) /\ Level(Scl, new, out) /\ (Level(Sda, new, out) <=> d1)
  BY DEF Wires
<1>3. bus.on /\ bus.bits = x /\ bus.byte = y /\ bus.bits < 8 /\ bus.bits # 8
  BY DEF Listening
<1>4. PICK e : e = IF d1 THEN 1 ELSE 0
  OBVIOUS
<1>5. PICK x1, y1 : x1 = x + 1 /\ y1 = 2 * y + e
  OBVIOUS
<1>6. Heard(new, out) = [bus EXCEPT !.bits = @ + 1,
                                   !.byte = 2 * @ + (IF Level(Sda, new, out) THEN 1 ELSE 0)]
  BY <1>1, <1>2, <1>3 DEF Heard
<1>7. Heard(new, out) = [bus EXCEPT !.bits = x1, !.byte = y1]
  BY <1>2, <1>3, <1>4, <1>5, <1>6, Zenon
<1>8. Heard(new, out) = Listening(x1, y1, b, m, p)
  BY <1>7 DEF Listening
<1>9. y1 = z
  BY <1>4, <1>5 DEF Shifts
<1>10. QED
  BY <1>1, <1>5, <1>8, <1>9, Zenon DEF Hears

LEMMA NinthHeard ==
    ASSUME NEW new, NEW out, NEW d0 \in BOOLEAN, NEW d1 \in BOOLEAN,
           Wires(FALSE, d0, TRUE, d1, new, out),
           NEW y, NEW b, NEW m, NEW p, bus = Listening(8, y, b, m, p)
    PROVE  Hears(new, out, Listening(9, y, b, m, p))
<1>1. ~Starts(new, out) /\ ~Stops(new, out) /\ Stopped(new, out) = {}
  BY NothingStops
<1>2. ~Level(Scl, pins, dir) /\ Level(Scl, new, out)
  BY DEF Wires
<1>3. bus.on /\ bus.bits = 8
  BY DEF Listening
<1>4. Heard(new, out) = [bus EXCEPT !.bits = 9]
  BY <1>1, <1>2, <1>3 DEF Heard
<1>5. Heard(new, out) = Listening(9, y, b, m, p)
  BY <1>4 DEF Listening
<1>6. QED
  BY <1>1, <1>5, Zenon DEF Hears

\* As the clock falls, the device pulls the data line, or lets it go again.
LEMMA FallHeard ==
    ASSUME NEW new, NEW out, NEW d0 \in BOOLEAN, NEW d1 \in BOOLEAN,
           Wires(TRUE, d0, FALSE, d1, new, out),
           NEW x \in 0 .. 8, NEW y, NEW b, NEW m, NEW p, bus = Listening(x, y, b, m, p)
    PROVE  /\ x < 8 => Heard(new, out) = bus
           /\ x = 8 => Heard(new, out) = Acknowledged
           /\ Stopped(new, out) = {}
<1>1. ~Starts(new, out) /\ ~Stops(new, out) /\ Stopped(new, out) = {}
  BY NothingStops
<1>2. Level(Scl, pins, dir) /\ ~Level(Scl, new, out)
  BY DEF Wires
<1>3. bus.on /\ bus.bits = x
  BY DEF Listening
<1>4. x < 8 => Heard(new, out) = bus
  BY <1>1, <1>2, <1>3 DEF Heard
<1>5. x = 8 => Heard(new, out) = Acknowledged
  BY <1>1, <1>2, <1>3 DEF Heard
<1>6. QED
  BY <1>1, <1>4, <1>5

LEMMA ReleaseHeard ==
    ASSUME NEW new, NEW out, NEW d0 \in BOOLEAN, NEW d1 \in BOOLEAN,
           Wires(TRUE, d0, FALSE, d1, new, out),
           NEW y, NEW b, NEW m, NEW p, bus = Listening(9, y, b, m, p)
    PROVE  Hears(new, out, Listening(0, 0, b, m, FALSE))
<1>1. ~Starts(new, out) /\ ~Stops(new, out) /\ Stopped(new, out) = {}
  BY NothingStops
<1>2. Level(Scl, pins, dir) /\ ~Level(Scl, new, out)
  BY DEF Wires
<1>3. bus.on /\ bus.bits = 9
  BY DEF Listening
<1>4. Heard(new, out) = [bus EXCEPT !.pulls = FALSE, !.bits = 0, !.byte = 0]
  BY <1>1, <1>2, <1>3 DEF Heard
<1>5. Heard(new, out) = Listening(0, 0, b, m, FALSE)
  BY <1>4 DEF Listening
<1>6. QED
  BY <1>1, <1>5, Zenon DEF Hears

\* The address, or a byte of the message.
LEMMA Acknowledges ==
    ASSUME NEW y, NEW b \in 0 .. 2, NEW m \in Nat, bus = Listening(8, y, b, m, FALSE),
           b = 0 => y = PT2258Address
    PROVE  Acknowledged =
             Listening(8, y, b + 1, IF b = 0 THEN 0 ELSE 256 * (m % 256) + y, TRUE)
<1>1. /\ bus.bytes = b /\ bus.byte = y /\ bus.message = m
  BY DEF Listening
<1>2. PICK m1 : m1 = IF b = 0 THEN 0 ELSE 256 * (m % 256) + y
  OBVIOUS
<1>3. Acknowledged = [bus EXCEPT !.pulls = TRUE, !.bytes = b + 1, !.message = m1]
  <2>1. ~(bus.bytes = 0 /\ bus.byte # PT2258Address)
    BY <1>1
  <2>2. b < 3
    OBVIOUS
  <2>3. bus.bytes < 3 /\ (bus.bytes = 0 <=> b = 0)
    BY <1>1, <2>2
  <2>4. PICK m2 : m2 = IF bus.bytes = 0 THEN 0 ELSE 256 * (bus.message % 256) + bus.byte
    OBVIOUS
  <2>5. m2 = m1
    BY <1>1, <1>2, <2>4, Zenon
  <2>6. PICK b1 : b1 = b + 1
    OBVIOUS
  <2>7. Acknowledged = [bus EXCEPT !.pulls = TRUE, !.bytes = b1, !.message = m1]
    BY <1>1, <2>1, <2>3, <2>4, <2>5, <2>6, Zenon DEF Acknowledged
  <2>8. QED
    BY <2>6, <2>7
<1>4. QED
  BY <1>2, <1>3, ZenonT(40) DEF Listening

-----------------------------------------------------------------------------
(* A byte on the PT2258's bus *)

\* An access between SaveGPIO and RestoreGPIO: of the serial codecs' pins none
\* changes.
OnBus(a) ==
    /\ MaskOf(a) = AllBut({6, 7}) /\ Saved(a) = saved
    /\ \A p \in {1, 4, 5} : (p \in Levels(a)) = (p \in pins)

Lined(a, high) ==
    /\ OnBus(a) /\ Directed(a) = {6, 7}
    /\ 6 \in Levels(a) <=> 6 \in high
    /\ 7 \in Levels(a) <=> 7 \in high

LEMMA LinedIs ==
    ASSUME NEW high, high \subseteq {6, 7}, NEW a, a = I2CLines(high)
    PROVE  Lined(a, high)
<1>1. PICK out, m, down : out = {6, 7} /\ m = AllBut({6, 7}) /\ down = Pins \ high
  OBVIOUS
<1>2. a = Lines(out, m, high, down)
  BY <1>1, Zenon DEF I2CLines, Sda, Scl
<1>3. /\ Directed(a) = out /\ MaskOf(a) = m /\ Saved(a) = saved
      /\ Levels(a) = (pins \cup (high \ m)) \ (down \ m)
  BY <1>2, LinesIs
<1>4. 6 \notin m /\ 7 \notin m /\ 1 \in m /\ 4 \in m /\ 5 \in m
  BY <1>1 DEF AllBut
<1>5. 6 \in down <=> 6 \notin high
  BY <1>1 DEF Pins
<1>6. 7 \in down <=> 7 \notin high
  BY <1>1 DEF Pins
<1>7. 6 \in Levels(a) <=> 6 \in high
  BY <1>3, <1>4, <1>5, Zenon
<1>8. 7 \in Levels(a) <=> 7 \in high
  BY <1>3, <1>4, <1>6, Zenon
<1>9. \A p \in {1, 4, 5} : (p \in Levels(a)) = (p \in pins)
  BY <1>3, <1>4
<1>10. QED
  BY <1>1, <1>3, <1>7, <1>8, <1>9 DEF Lined, OnBus

Turned(a, out) == OnBus(a) /\ Directed(a) = out /\ Levels(a) = pins

LEMMA TurnedIs ==
    ASSUME NEW out, NEW a, a = I2CDirection(out)
    PROVE  Turned(a, out)
<1>1. PICK m, up, down : m = AllBut({6, 7}) /\ up = {} /\ down = {}
  OBVIOUS
<1>2. a = Lines(out, m, up, down)
  BY <1>1, Zenon DEF I2CDirection, Sda, Scl
<1>3. /\ Directed(a) = out /\ MaskOf(a) = m /\ Saved(a) = saved
      /\ Levels(a) = (pins \cup (up \ m)) \ (down \ m)
  BY <1>2, LinesIs
<1>4. Levels(a) = pins
  BY <1>1, <1>3
<1>5. QED
  BY <1>1, <1>3, <1>4 DEF Turned, OnBus

\* Where a byte B stands of whose bits t were taken, b bytes and the message m
\* having gone before it.
Clear(B, b, m, t) ==
    dir = {6, 7} /\ 7 \notin pins /\ bus = Listening(t, B \div 2^(8 - t), b, m, FALSE)
Ready(B, b, m, t) == Clear(B, b, m, t) /\ (6 \in pins <=> BitSet(B, 7 - t))
High(B, b, m, t) ==
    /\ dir = {6, 7} /\ 7 \in pins /\ (6 \in pins <=> BitSet(B, 7 - t))
    /\ bus = Listening(t + 1, B \div 2^(8 - (t + 1)), b, m, FALSE)
\* The byte was taken, and the device pulls the data line.
Pulling(bits, B, b, m, out) ==
    dir = out /\ bus = Listening(bits, B, b, m, TRUE) /\ (7 \in pins <=> bits = 9)

LEMMA MoreBits ==
    ASSUME NEW B \in 0 .. 255, NEW t \in 0 .. 7
    PROVE  /\ B \div 2^(8 - (t + 1)) = 2 * (B \div 2^(8 - t)) + (IF BitSet(B, 7 - t) THEN 1 ELSE 0)
           /\ B \div 2^(8 - t) \in Nat
<1>1. PICK i \in 0 .. 7 : i = 7 - t
  OBVIOUS
<1>2. i \in 0 .. 23
  OBVIOUS
<1>3. PICK d \in Nat \ {0} : d = 2^i /\ 2^(i + 1) = 2 * d
  BY <1>2, Powers
<1>4. 8 - t = i + 1 /\ 8 - (t + 1) = i
  BY <1>1
<1>5. PICK q, v : q = B \div d /\ v = q % 2
  OBVIOUS
<1>6. PICK x \in Nat : x = B
  OBVIOUS
<1>7. q \in Nat /\ q = 2 * (B \div (2 * d)) + v /\ v \in 0 .. 1
  <2>1. /\ x \div d \in Nat
        /\ x \div d = 2 * (x \div (2 * d)) + ((x \div d) % 2)
    BY Halves
  <2>2. q \in Nat /\ q = 2 * (B \div (2 * d)) + v
    BY <1>5, <1>6, <2>1, Zenon
  <2>3. QED
    BY <1>5, <2>2
<1>8. (IF BitSet(B, 7 - t) THEN 1 ELSE 0) = v
  BY <1>1, <1>3, <1>5, <1>7 DEF BitSet
<1>9. B \div (2 * d) \in Nat
  <2>1. PICK e \in Nat \ {0} : e = 2 * d
    OBVIOUS
  <2>2. QED
    BY <1>6, <2>1
<1>10. QED
  BY <1>3, <1>4, <1>5, <1>7, <1>8, <1>9, Zenon

\* The accesses of a bit v.
BitLined(a, v, k) ==
    /\ OnBus(a) /\ Directed(a) = {6, 7}
    /\ 6 \in Levels(a) <=> v
    /\ 7 \in Levels(a) <=> k = 2

LEMMA BitIsLined ==
    ASSUME NEW v \in BOOLEAN, NEW k \in 1 .. 3, NEW a, a = I2CBit(v)[k]
    PROVE  BitLined(a, v, k)
<1>1. PICK low : low = IF v THEN {6} ELSE {}
  OBVIOUS
<1>2. PICK high : high = low \cup {7}
  OBVIOUS
<1>3. I2CBit(v) = << I2CLines(low), I2CLines(high), I2CLines(low) >>
  BY <1>1, <1>2, Zenon DEF I2CBit, Sda, Scl
<1>4. a = I2CLines(IF k = 2 THEN high ELSE low)
  <2>1. PICK x, y : x = I2CLines(low) /\ y = I2CLines(high)
    OBVIOUS
  <2>2. I2CBit(v) = << x, y, x >>
    BY <1>3, <2>1, Zenon
  <2>3. k = 1 \/ k = 2 \/ k = 3
    OBVIOUS
  <2>4. a = IF k = 2 THEN y ELSE x
    BY <2>2, <2>3
  <2>5. QED
    BY <2>1, <2>4
<1>5. PICK h : h = IF k = 2 THEN high ELSE low
  OBVIOUS
<1>6. h \subseteq {6, 7} /\ (6 \in h <=> v) /\ (7 \in h <=> k = 2)
  BY <1>1, <1>2, <1>5
<1>7. Lined(a, h)
  BY <1>4, <1>5, <1>6, LinedIs
<1>8. QED
  BY <1>6, <1>7, Zenon DEF Lined, BitLined

\* What an access on the bus does: nothing lands.
BusMade(a) == OnBus(a) /\ Stopped(Levels(a), Directed(a)) = {}

\* The levels of the lines while the driver drives both.
LEMMA Driven ==
    ASSUME NEW levels, NEW out, out = {6, 7}
    PROVE  /\ Level(Scl, levels, out) <=> 7 \in levels
           /\ Level(Sda, levels, out) <=> 6 \in levels /\ ~bus.pulls
BY DEF Level, Scl, Sda

LEMMA BitShown ==
    ASSUME card = "Revo51", NEW B, NEW b, NEW m, NEW t \in 0 .. 7, Clear(B, b, m, t),
           NEW a, Makes(a), BitLined(a, BitSet(B, 7 - t), 1)
    PROVE  BusMade(a) /\ Ready(B, b, m, t)'
<1>1. PICK new, out : new = Levels(a) /\ out = Directed(a)
  OBVIOUS
<1>2. pins' = new /\ dir' = out /\ bus' = Heard(new, out)
  BY <1>1 DEF Makes, Change
<1>3. out = {6, 7} /\ (6 \in new <=> BitSet(B, 7 - t)) /\ 7 \notin new /\ OnBus(a)
  BY <1>1 DEF BitLined
<1>4. dir = {6, 7} /\ 7 \notin pins /\ bus.on /\ bus.pulls = FALSE
  BY DEF Clear, Listening
<1>5. PICK d0, d1 \in BOOLEAN : (d0 <=> 6 \in pins) /\ (d1 <=> 6 \in new)
  OBVIOUS
<1>6. Wires(FALSE, d0, FALSE, d1, new, out)
  BY <1>3, <1>4, <1>5, Driven DEF Wires
<1>7. Heard(new, out) = bus /\ Stopped(new, out) = {}
  BY <1>4, <1>6, StillHeard
<1>8. QED
  BY <1>1, <1>2, <1>3, <1>7 DEF BusMade, Ready, Clear

LEMMA BitRises ==
    ASSUME card = "Revo51", NEW B \in 0 .. 255, NEW b, NEW m, NEW t \in 0 .. 7, Ready(B, b, m, t),
           NEW a, Makes(a), BitLined(a, BitSet(B, 7 - t), 2)
    PROVE  BusMade(a) /\ High(B, b, m, t)'
<1>1. PICK new, out : new = Levels(a) /\ out = Directed(a)
  OBVIOUS
<1>2. pins' = new /\ dir' = out /\ bus' = Heard(new, out)
  BY <1>1 DEF Makes, Change
<1>3. out = {6, 7} /\ (6 \in new <=> BitSet(B, 7 - t)) /\ 7 \in new /\ OnBus(a)
  BY <1>1 DEF BitLined
<1>4. PICK y : y = B \div 2^(8 - t)
  OBVIOUS
<1>5. dir = {6, 7} /\ 7 \notin pins /\ bus = Listening(t, y, b, m, FALSE)
  BY <1>4 DEF Ready, Clear
<1>6. bus.pulls = FALSE
  BY <1>5 DEF Listening
<1>7. PICK d0, d1 \in BOOLEAN : (d0 <=> 6 \in pins) /\ (d1 <=> 6 \in new)
  OBVIOUS
<1>8. Wires(FALSE, d0, TRUE, d1, new, out)
  BY <1>3, <1>5, <1>6, <1>7, Driven DEF Wires
<1>9. PICK z : Shifts(y, z, d1)
  BY DEF Shifts
<1>10. y \in Nat /\ B \div 2^(8 - (t + 1)) = z
  <2>1. /\ B \div 2^(8 - (t + 1)) = 2 * (B \div 2^(8 - t)) + (IF BitSet(B, 7 - t) THEN 1 ELSE 0)
        /\ B \div 2^(8 - t) \in Nat
    BY MoreBits
  <2>2. d1 <=> BitSet(B, 7 - t)
    BY <1>3, <1>7
  <2>3. QED
    BY <1>4, <1>9, <2>1, <2>2, Zenon DEF Shifts
<1>11. Hears(new, out, Listening(t + 1, z, b, m, FALSE))
  BY <1>5, <1>7, <1>8, <1>9, <1>10, BitHeard
<1>12. QED
  BY <1>1, <1>2, <1>3, <1>10, <1>11, Zenon DEF BusMade, High, Hears

LEMMA BitFalls ==
    ASSUME card = "Revo51", NEW B \in 0 .. 255, NEW b \in 0 .. 2, NEW m \in Nat, NEW t \in 0 .. 7,
           High(B, b, m, t), b = 0 => B = PT2258Address,
           NEW a, Makes(a), BitLined(a, BitSet(B, 7 - t), 3)
    PROVE  /\ BusMade(a)
           /\ IF t < 7 THEN Clear(B, b, m, t + 1)'
              ELSE Pulling(8, B, b + 1, IF b = 0 THEN 0 ELSE 256 * (m % 256) + B, {6, 7})'
<1>1. PICK new, out : new = Levels(a) /\ out = Directed(a)
  OBVIOUS
<1>2. pins' = new /\ dir' = out /\ bus' = Heard(new, out)
  BY <1>1 DEF Makes, Change
<1>3. out = {6, 7} /\ 7 \notin new /\ OnBus(a)
  BY <1>1 DEF BitLined
<1>4. PICK x, y : x = t + 1 /\ y = B \div 2^(8 - (t + 1))
  OBVIOUS
<1>5. dir = {6, 7} /\ 7 \in pins /\ bus = Listening(x, y, b, m, FALSE)
  BY <1>4 DEF High
<1>6. bus.pulls = FALSE
  BY <1>5 DEF Listening
<1>7. PICK d0, d1 \in BOOLEAN : (d0 <=> 6 \in pins) /\ (d1 <=> 6 \in new)
  OBVIOUS
<1>8. Wires(TRUE, d0, FALSE, d1, new, out)
  BY <1>3, <1>5, <1>6, <1>7, Driven DEF Wires
<1>9. x \in 0 .. 8
  BY <1>4
<1>10. /\ x < 8 => Heard(new, out) = bus
       /\ x = 8 => Heard(new, out) = Acknowledged
       /\ Stopped(new, out) = {}
  BY <1>5, <1>8, <1>9, FallHeard
<1>11. BusMade(a)
  BY <1>1, <1>3, <1>10 DEF BusMade
<1>12. CASE t < 7
  <2>1. x < 8
    BY <1>4, <1>12
  <2>2. bus' = Listening(t + 1, B \div 2^(8 - (t + 1)), b, m, FALSE)
    BY <1>2, <1>4, <1>5, <1>10, <2>1, Zenon
  <2>3. Clear(B, b, m, t + 1)'
    BY <1>2, <1>3, <2>2, Zenon DEF Clear
  <2>4. QED
    BY <1>11, <1>12, <2>3
<1>13. CASE t = 7
  <2>1. x = 8 /\ y = B
    <3>1. 8 - (t + 1) = 0 /\ 2^0 = 1
      BY <1>13
    <3>2. B \div 1 = B
      OBVIOUS
    <3>3. QED
      BY <1>4, <1>13, <3>1, <3>2
  <2>2. PICK m1 : m1 = IF b = 0 THEN 0 ELSE 256 * (m % 256) + B
    OBVIOUS
  <2>3. bus = Listening(8, B, b, m, FALSE)
    BY <1>5, <2>1
  <2>4. Acknowledged = Listening(8, B, b + 1, m1, TRUE)
    <3>1. Acknowledged =
            Listening(8, B, b + 1, IF b = 0 THEN 0 ELSE 256 * (m % 256) + B, TRUE)
      BY <2>3, Acknowledges
    <3>2. QED
      BY <2>2, <3>1, Zenon
  <2>5. Pulling(8, B, b + 1, m1, {6, 7})'
    BY <1>2, <1>3, <1>10, <2>1, <2>4 DEF Pulling
  <2>6. QED
    BY <1>11, <1>13, <2>2, <2>5
<1>14. QED
  BY <1>12, <1>13

-----------------------------------------------------------------------------
(* The acknowledgement of a byte *)

LEMMA AcksAre ==
    ASSUME NEW a, NEW k \in 1 .. 5, a = I2CAck[k]
    PROVE  /\ k \in {1, 5} => Lined(a, {6})
           /\ k = 2 => Lined(a, {6, 7})
           /\ k = 3 => Turned(a, {7})
           /\ k = 4 => Turned(a, {6, 7})
<1>1. PICK h, h2, l : h = {6} /\ h2 = {6, 7} /\ l = {7}
  OBVIOUS
<1>2. PICK x, y, u, v : x = I2CLines(h) /\ y = I2CLines(h2) /\ u = I2CDirection(l) /\ v = I2CDirection(h2)
  OBVIOUS
<1>3. I2CAck = << x, y, u, v, x >>
  BY <1>1, <1>2, Zenon DEF I2CAck, Sda, Scl
<1>4. /\ k \in {1, 5} => a = x
      /\ k = 2 => a = y
      /\ k = 3 => a = u
      /\ k = 4 => a = v
  BY <1>3
<1>5. h \subseteq {6, 7} /\ h2 \subseteq {6, 7}
  BY <1>1
<1>6. /\ a = x => Lined(a, h)
      /\ a = y => Lined(a, h2)
  BY <1>2, <1>5, LinedIs
<1>7. /\ a = u => Turned(a, l)
      /\ a = v => Turned(a, h2)
  BY <1>2, TurnedIs
<1>8. QED
  BY <1>1, <1>4, <1>6, <1>7, Zenon

\* While the device pulls the data line it is low, whatever the driver does.
LEMMA Pulled ==
    ASSUME NEW x, NEW y, NEW b, NEW m, bus = Listening(x, y, b, m, TRUE), NEW levels, NEW out
    PROVE  ~Level(Sda, levels, out)
<1>1. bus.pulls = TRUE
  BY DEF Listening
<1>2. QED
  BY <1>1 DEF Level

\* An access that leaves the clock as it is.
LEMMA PullStays ==
    ASSUME card = "Revo51", NEW x \in 8 .. 9, NEW y, NEW b, NEW m, NEW o, Pulling(x, y, b, m, o),
           7 \in o, NEW a, Makes(a), OnBus(a), NEW out, out = Directed(a), 7 \in out,
           (7 \in Levels(a)) = (7 \in pins)
    PROVE  BusMade(a) /\ Pulling(x, y, b, m, out)'
<1>1. PICK new : new = Levels(a)
  OBVIOUS
<1>2. pins' = new /\ dir' = out /\ bus' = Heard(new, out)
  BY <1>1 DEF Makes, Change
<1>3. bus = Listening(x, y, b, m, TRUE) /\ dir = o /\ (7 \in pins <=> x = 9) /\ bus.on
  BY DEF Pulling, Listening
<1>4. PICK c \in BOOLEAN : c <=> 7 \in pins
  OBVIOUS
<1>5. /\ Level(Scl, pins, dir) <=> c
      /\ Level(Scl, new, out) <=> c
  BY <1>1, <1>3, <1>4 DEF Level, Scl, Sda
<1>6. ~Level(Sda, pins, dir) /\ ~Level(Sda, new, out)
  BY <1>3, Pulled
<1>7. Wires(c, FALSE, c, FALSE, new, out)
  BY <1>5, <1>6 DEF Wires
<1>8. PICK d0, d1 \in BOOLEAN : d0 = FALSE /\ d1 = FALSE
  OBVIOUS
<1>9. Heard(new, out) = bus /\ Stopped(new, out) = {}
  BY <1>3, <1>7, <1>8, StillHeard
<1>10. 7 \in new <=> x = 9
  BY <1>1, <1>3
<1>11. bus' = Listening(x, y, b, m, TRUE) /\ (7 \in pins' <=> x = 9)
  BY <1>2, <1>3, <1>9, <1>10
<1>12. QED
  BY <1>1, <1>2, <1>9, <1>11, Zenon DEF BusMade, Pulling

LEMMA AckRises ==
    ASSUME card = "Revo51", NEW y, NEW b, NEW m, Pulling(8, y, b, m, {6, 7}),
           NEW a, Makes(a), Lined(a, {6, 7})
    PROVE  BusMade(a) /\ Pulling(9, y, b, m, {6, 7})'
<1>1. PICK new, out : new = Levels(a) /\ out = Directed(a)
  OBVIOUS
<1>2. pins' = new /\ dir' = out /\ bus' = Heard(new, out)
  BY <1>1 DEF Makes, Change
<1>3. bus = Listening(8, y, b, m, TRUE) /\ dir = {6, 7} /\ 7 \notin pins
  BY DEF Pulling
<1>4. OnBus(a) /\ out = {6, 7} /\ 7 \in new
  BY <1>1 DEF Lined
<1>5. ~Level(Scl, pins, dir) /\ Level(Scl, new, out)
  BY <1>3, <1>4, Driven
<1>6. ~Level(Sda, pins, dir) /\ ~Level(Sda, new, out)
  BY <1>3, Pulled
<1>7. PICK d0, d1, p \in BOOLEAN : d0 = FALSE /\ d1 = FALSE /\ p = TRUE
  OBVIOUS
<1>8. Wires(FALSE, d0, TRUE, d1, new, out) /\ bus = Listening(8, y, b, m, p)
  BY <1>3, <1>5, <1>6, <1>7 DEF Wires
<1>9. Hears(new, out, Listening(9, y, b, m, p))
  BY <1>7, <1>8, NinthHeard
<1>10. QED
  BY <1>1, <1>2, <1>4, <1>7, <1>9, Zenon DEF BusMade, Pulling, Hears

\* b bytes and the message m were taken, and of the next byte nothing.
BusFree(b, m) == dir = {6, 7} /\ 7 \notin pins /\ bus = Listening(0, 0, b, m, FALSE)

LEMMA AckFalls ==
    ASSUME card = "Revo51", NEW y, NEW b, NEW m, Pulling(9, y, b, m, {6, 7}),
           NEW a, Makes(a), Lined(a, {6})
    PROVE  BusMade(a) /\ BusFree(b, m)'
<1>1. PICK new, out : new = Levels(a) /\ out = Directed(a)
  OBVIOUS
<1>2. pins' = new /\ dir' = out /\ bus' = Heard(new, out)
  BY <1>1 DEF Makes, Change
<1>3. bus = Listening(9, y, b, m, TRUE) /\ dir = {6, 7} /\ 7 \in pins
  BY DEF Pulling
<1>4. OnBus(a) /\ out = {6, 7} /\ 7 \notin new
  BY <1>1 DEF Lined
<1>5. Level(Scl, pins, dir) /\ ~Level(Scl, new, out)
  BY <1>3, <1>4, Driven
<1>6. ~Level(Sda, pins, dir) /\ ~Level(Sda, new, out)
  BY <1>3, Pulled
<1>7. PICK d0, d1, p \in BOOLEAN : d0 = FALSE /\ d1 = FALSE /\ p = TRUE
  OBVIOUS
<1>8. Wires(TRUE, d0, FALSE, d1, new, out) /\ bus = Listening(9, y, b, m, p)
  BY <1>3, <1>5, <1>6, <1>7 DEF Wires
<1>9. Hears(new, out, Listening(0, 0, b, m, FALSE))
  BY <1>7, <1>8, ReleaseHeard
<1>10. BusMade(a)
  BY <1>1, <1>4, <1>9 DEF BusMade, Hears
<1>11. bus' = Listening(0, 0, b, m, FALSE) /\ dir' = {6, 7} /\ 7 \notin pins'
  BY <1>2, <1>4, <1>9 DEF Hears
<1>12. QED
  BY <1>10, <1>11 DEF BusFree

\* The message that the device has after a byte B.
Following(B, b, m) == IF b = 0 THEN 0 ELSE 256 * (m % 256) + B

\* r of the accesses of byte B were made.
ByteNow(B, b, m, r) ==
    \/ \E t \in 0 .. 7 :
          \/ r = 3 * t /\ Clear(B, b, m, t)
          \/ r = 3 * t + 1 /\ Ready(B, b, m, t)
          \/ r = 3 * t + 2 /\ High(B, b, m, t)
    \/ r \in {24, 25} /\ Pulling(8, B, b + 1, Following(B, b, m), {6, 7})
    \/ r \in {26, 28} /\ Pulling(9, B, b + 1, Following(B, b, m), {6, 7})
    \/ r = 27 /\ Pulling(9, B, b + 1, Following(B, b, m), {7})

ByteMade(B, b, m, r, a) ==
    /\ BusMade(a)
    /\ IF r < 28 THEN ByteNow(B, b, m, r + 1)' ELSE BusFree(b + 1, Following(B, b, m))'

LEMMA AckAccess ==
    ASSUME card = "Revo51", NEW B, NEW b, NEW m, NEW r \in 24 .. 28, ByteNow(B, b, m, r),
           NEW a, Makes(a), a = I2CAck[r - 23]
    PROVE  ByteMade(B, b, m, r, a)
<1>1. PICK k \in 1 .. 5 : k = r - 23
  OBVIOUS
<1>2. /\ k \in {1, 5} => Lined(a, {6})
      /\ k = 2 => Lined(a, {6, 7})
      /\ k = 3 => Turned(a, {7})
      /\ k = 4 => Turned(a, {6, 7})
  BY <1>1, AcksAre
<1>3. PICK b1, m1 : b1 = b + 1 /\ m1 = Following(B, b, m)
  OBVIOUS
<1>4. \A t \in 0 .. 7 : r # 3 * t /\ r # 3 * t + 1 /\ r # 3 * t + 2
  OBVIOUS
<1>5. \/ r \in {24, 25} /\ Pulling(8, B, b1, m1, {6, 7})
      \/ r \in {26, 28} /\ Pulling(9, B, b1, m1, {6, 7})
      \/ r = 27 /\ Pulling(9, B, b1, m1, {7})
  BY <1>3, <1>4, Zenon DEF ByteNow
<1>6. PICK s : s = r + 1
  OBVIOUS
<1>7. /\ s = 25 /\ Pulling(8, B, b1, m1, {6, 7})' => ByteNow(B, b, m, s)'
      /\ s = 26 /\ Pulling(9, B, b1, m1, {6, 7})' => ByteNow(B, b, m, s)'
      /\ s = 27 /\ Pulling(9, B, b1, m1, {7})' => ByteNow(B, b, m, s)'
      /\ s = 28 /\ Pulling(9, B, b1, m1, {6, 7})' => ByteNow(B, b, m, s)'
  <2>1. /\ s = 25 => s \in {24, 25}
        /\ s = 26 => s \in {26, 28}
        /\ s = 28 => s \in {26, 28}
    OBVIOUS
  <2>2. QED
    BY <1>3, <2>1, Zenon DEF ByteNow
<1>8. CASE r = 24
  <2>1. Lined(a, {6}) /\ Pulling(8, B, b1, m1, {6, 7})
    BY <1>1, <1>2, <1>5, <1>8
  <2>2. OnBus(a) /\ Directed(a) = {6, 7} /\ 7 \notin Levels(a) /\ 7 \notin pins
    BY <2>1 DEF Lined, Pulling
  <2>3. PICK out : out = {6, 7}
    OBVIOUS
  <2>4. BusMade(a) /\ Pulling(8, B, b1, m1, out)'
    BY <2>1, <2>2, <2>3, PullStays
  <2>5. QED
    BY <1>6, <1>7, <1>8, <2>3, <2>4 DEF ByteMade
<1>9. CASE r = 25
  <2>1. Lined(a, {6, 7}) /\ Pulling(8, B, b1, m1, {6, 7})
    BY <1>1, <1>2, <1>5, <1>9
  <2>2. BusMade(a) /\ Pulling(9, B, b1, m1, {6, 7})'
    BY <2>1, AckRises
  <2>3. QED
    BY <1>6, <1>7, <1>9, <2>2 DEF ByteMade
<1>10. CASE r = 26
  <2>1. Turned(a, {7}) /\ Pulling(9, B, b1, m1, {6, 7})
    BY <1>1, <1>2, <1>5, <1>10
  <2>2. OnBus(a) /\ Directed(a) = {7} /\ Levels(a) = pins
    BY <2>1 DEF Turned
  <2>3. PICK out : out = {7}
    OBVIOUS
  <2>4. BusMade(a) /\ Pulling(9, B, b1, m1, out)'
    BY <2>1, <2>2, <2>3, PullStays
  <2>5. QED
    BY <1>6, <1>7, <1>10, <2>3, <2>4 DEF ByteMade
<1>11. CASE r = 27
  <2>1. Turned(a, {6, 7}) /\ Pulling(9, B, b1, m1, {7})
    BY <1>1, <1>2, <1>5, <1>11
  <2>2. OnBus(a) /\ Directed(a) = {6, 7} /\ Levels(a) = pins
    BY <2>1 DEF Turned
  <2>3. PICK out : out = {6, 7}
    OBVIOUS
  <2>4. BusMade(a) /\ Pulling(9, B, b1, m1, out)'
    BY <2>1, <2>2, <2>3, PullStays
  <2>5. QED
    BY <1>6, <1>7, <1>11, <2>3, <2>4 DEF ByteMade
<1>12. CASE r = 28
  <2>1. Lined(a, {6}) /\ Pulling(9, B, b1, m1, {6, 7})
    BY <1>1, <1>2, <1>5, <1>12
  <2>2. BusMade(a) /\ BusFree(b1, m1)'
    BY <2>1, AckFalls
  <2>3. QED
    BY <1>3, <1>12, <2>2 DEF ByteMade
<1>13. QED
  BY <1>8, <1>9, <1>10, <1>11, <1>12

LEMMA BitAccess ==
    ASSUME card = "Revo51", NEW B \in 0 .. 255, NEW b \in 0 .. 2, NEW m \in Nat,
           b = 0 => B = PT2258Address, NEW r \in 0 .. 23, ByteNow(B, b, m, r),
           NEW a, Makes(a), a = I2CBits(B)[r + 1]
    PROVE  ByteMade(B, b, m, r, a)
<1>1. PICK t \in 0 .. 7, k \in 1 .. 3 : r = 3 * t + k - 1
  <2>1. PICK t \in 0 .. 7, j \in 0 .. 2 : r = 3 * t + j
    <3>1. r \div 3 \in 0 .. 7 /\ r % 3 \in 0 .. 2 /\ r = 3 * (r \div 3) + (r % 3)
      OBVIOUS
    <3>2. QED
      BY <3>1
  <2>2. j + 1 \in 1 .. 3 /\ r = 3 * t + (j + 1) - 1
    BY <2>1
  <2>3. QED
    BY <2>2
<1>2. BitLined(a, BitSet(B, 7 - t), k)
  <2>1. r + 1 \in 1 .. 24 /\ (r + 1 - 1) \div 3 = t /\ ((r + 1 - 1) % 3) + 1 = k
    BY <1>1
  <2>2. a = I2CBit(BitSet(B, 7 - ((r + 1 - 1) \div 3)))[((r + 1 - 1) % 3) + 1]
    BY <2>1 DEF I2CBits
  <2>3. PICK v \in BOOLEAN : v = BitSet(B, 7 - t)
    BY DEF BitSet
  <2>4. a = I2CBit(v)[k]
    BY <2>1, <2>2, <2>3, Zenon
  <2>5. QED
    BY <2>3, <2>4, BitIsLined
<1>3. /\ k = 1 => Clear(B, b, m, t)
      /\ k = 2 => Ready(B, b, m, t)
      /\ k = 3 => High(B, b, m, t)
  <2>1. r \notin {24, 25, 26, 27, 28} /\ r # 27
    OBVIOUS
  <2>2. r \notin {24, 25} /\ r \notin {26, 28}
    BY <2>1
  <2>3. PICK u \in 0 .. 7 : \/ r = 3 * u /\ Clear(B, b, m, u)
                            \/ r = 3 * u + 1 /\ Ready(B, b, m, u)
                            \/ r = 3 * u + 2 /\ High(B, b, m, u)
    BY <2>1, <2>2, Zenon DEF ByteNow
  <2>4. u = t
    BY <1>1, <2>3
  <2>5. /\ k = 1 => r # 3 * u + 1 /\ r # 3 * u + 2
        /\ k = 2 => r # 3 * u /\ r # 3 * u + 2
        /\ k = 3 => r # 3 * u /\ r # 3 * u + 1
    BY <1>1, <2>4
  <2>6. QED
    BY <2>3, <2>4, <2>5, Zenon
<1>4. PICK s : s = r + 1
  OBVIOUS
<1>5. CASE k = 1
  <2>1. BusMade(a) /\ Ready(B, b, m, t)'
    BY <1>2, <1>3, <1>5, BitShown
  <2>2. s = 3 * t + 1 /\ r < 28
    BY <1>1, <1>4, <1>5
  <2>3. ByteNow(B, b, m, s)'
    BY <2>1, <2>2, Zenon DEF ByteNow
  <2>4. QED
    BY <1>4, <2>1, <2>2, <2>3 DEF ByteMade
<1>6. CASE k = 2
  <2>1. BusMade(a) /\ High(B, b, m, t)'
    BY <1>2, <1>3, <1>6, BitRises
  <2>2. s = 3 * t + 2 /\ r < 28
    BY <1>1, <1>4, <1>6
  <2>3. ByteNow(B, b, m, s)'
    BY <2>1, <2>2, Zenon DEF ByteNow
  <2>4. QED
    BY <1>4, <2>1, <2>2, <2>3 DEF ByteMade
<1>7. CASE k = 3
  <2>1. /\ BusMade(a)
        /\ IF t < 7 THEN Clear(B, b, m, t + 1)'
           ELSE Pulling(8, B, b + 1, IF b = 0 THEN 0 ELSE 256 * (m % 256) + B, {6, 7})'
    BY <1>2, <1>3, <1>7, BitFalls, ZenonT(40)
  <2>2. CASE t < 7
    <3>1. t + 1 \in 0 .. 7 /\ s = 3 * (t + 1) /\ r < 28
      BY <1>1, <1>4, <1>7, <2>2
    <3>2. ByteNow(B, b, m, s)'
      BY <2>1, <2>2, <3>1, Zenon DEF ByteNow
    <3>3. QED
      BY <1>4, <2>1, <3>1, <3>2 DEF ByteMade
  <2>3. CASE ~(t < 7)
    <3>1. s = 24 /\ s \in {24, 25} /\ r < 28
      BY <1>1, <1>4, <1>7, <2>3
    <3>2. Pulling(8, B, b + 1, Following(B, b, m), {6, 7})'
      BY <2>1, <2>3, Zenon DEF Following
    <3>3. ByteNow(B, b, m, s)'
      BY <3>1, <3>2, Zenon DEF ByteNow
    <3>4. QED
      BY <1>4, <2>1, <3>1, <3>3 DEF ByteMade
  <2>4. QED
    BY <2>2, <2>3, SMTT(30)
<1>8. QED
  BY <1>5, <1>6, <1>7

\* An access of a byte takes it on, and the last one ends it.
LEMMA ByteAccess ==
    ASSUME card = "Revo51", NEW B \in 0 .. 255, NEW b \in 0 .. 2, NEW m \in Nat,
           b = 0 => B = PT2258Address, NEW r \in 0 .. 28, ByteNow(B, b, m, r),
           NEW a, Makes(a), a = I2CByte(B)[r + 1]
    PROVE  ByteMade(B, b, m, r, a)
<1>1. /\ \A k \in 1 .. 24 : I2CByte(B)[k] = I2CBits(B)[k]
      /\ \A k \in 1 .. 5 : I2CByte(B)[24 + k] = I2CAck[k]
  BY I2CByteIs, ZenonT(40) DEF Bytes
<1>2. CASE r < 24
  <2>1. r \in 0 .. 23 /\ a = I2CBits(B)[r + 1]
    BY <1>1, <1>2
  <2>2. QED
    BY <2>1, BitAccess
<1>3. CASE ~(r < 24)
  <2>1. PICK k \in 1 .. 5 : k = r - 23 /\ 24 + k = r + 1
    BY <1>3
  <2>2. r \in 24 .. 28 /\ a = I2CAck[r - 23]
    BY <1>1, <1>3, <2>1
  <2>3. QED
    BY <2>2, AckAccess
<1>4. QED
  BY <1>2, <1>3

-----------------------------------------------------------------------------
(* The start and the stop of a message *)

\* The pins of the serial codecs that could make them take a bit.
Aloof(a) == \A p \in {1, 4, 5} : (p \in Levels(a)) = (p \in pins)

\* Of the start k - 1 accesses were made.
StartNow(k) ==
    \/ k \in {1, 2} /\ bus = Quiet /\ {6, 7} \subseteq dir
    \/ k = 3 /\ bus = Quiet /\ dir = {6, 7}
    \/ k = 4 /\ bus = Quiet /\ dir = {6, 7} /\ {6, 7} \subseteq pins
    \/ k = 5 /\ dir = {6, 7} /\ 7 \in pins /\ 6 \notin pins /\ bus = Listening(0, 0, 0, 0, FALSE)

StartMade(k, a) ==
    /\ Aloof(a) /\ Stopped(Levels(a), Directed(a)) = {}
    /\ k > 1 => OnBus(a)
    /\ IF k < 5 THEN StartNow(k + 1)' ELSE BusFree(0, 0)'

LEMMA StartsAre ==
    ASSUME NEW a, NEW k \in 1 .. 5, a = I2CStart[k]
    PROVE  /\ k = 1 => a = SaveGPIO
           /\ k = 2 => Turned(a, {6, 7})
           /\ k = 3 => Lined(a, {6, 7})
           /\ k = 4 => Lined(a, {7})
           /\ k = 5 => Lined(a, {})
<1>1. PICK h, l, e : h = {6, 7} /\ l = {7} /\ e = {}
  OBVIOUS
<1>2. PICK s, u, x, y, z : /\ s = SaveGPIO /\ u = I2CDirection(h) /\ x = I2CLines(h)
                           /\ y = I2CLines(l) /\ z = I2CLines(e)
  OBVIOUS
<1>3. I2CStart = << s, u, x, y, z >>
  BY <1>1, <1>2, Zenon DEF I2CStart, Sda, Scl
<1>4. /\ k = 1 => a = s
      /\ k = 2 => a = u
      /\ k = 3 => a = x
      /\ k = 4 => a = y
      /\ k = 5 => a = z
  BY <1>3
<1>5. h \subseteq {6, 7} /\ l \subseteq {6, 7} /\ e \subseteq {6, 7}
  BY <1>1
<1>6. /\ a = x => Lined(a, h)
      /\ a = y => Lined(a, l)
      /\ a = z => Lined(a, e)
  BY <1>2, <1>5, LinedIs
<1>7. a = u => Turned(a, h)
  BY <1>2, TurnedIs
<1>8. QED
  BY <1>1, <1>2, <1>4, <1>6, <1>7, Zenon

\* While nothing is heard the data line, which the driver drives, is as it
\* drives it.
LEMMA QuietLevels ==
    ASSUME bus = Quiet, {6, 7} \subseteq dir, NEW new, NEW out, {6, 7} \subseteq out
    PROVE  /\ Level(Scl, pins, dir) <=> 7 \in pins
           /\ Level(Sda, pins, dir) <=> 6 \in pins
           /\ Level(Scl, new, out) <=> 7 \in new
           /\ Level(Sda, new, out) <=> 6 \in new
<1>1. bus.pulls = FALSE
  BY DEF Quiet
<1>2. QED
  BY <1>1 DEF Level, Scl, Sda

LEMMA StartAccess ==
    ASSUME card = "Revo51", NEW k \in 1 .. 5, StartNow(k), NEW a, Makes(a), a = I2CStart[k]
    PROVE  StartMade(k, a)
<1>1. PICK new, out : new = Levels(a) /\ out = Directed(a)
  OBVIOUS
<1>2. pins' = new /\ dir' = out /\ bus' = Heard(new, out)
  BY <1>1 DEF Makes, Change
<1>3. /\ k = 1 => a = SaveGPIO
      /\ k = 2 => Turned(a, {6, 7})
      /\ k = 3 => Lined(a, {6, 7})
      /\ k = 4 => Lined(a, {7})
      /\ k = 5 => Lined(a, {})
  BY StartsAre
<1>4. PICK s : s = k + 1
  OBVIOUS
<1>5. CASE k = 1
  <2>1. bus = Quiet /\ {6, 7} \subseteq dir
    BY <1>5 DEF StartNow
  <2>2. new = pins /\ out = dir
    BY <1>1, <1>3, <1>5, SaveIs
  <2>3. ~Starts(new, out)
    BY <2>2 DEF Starts
  <2>4. Heard(new, out) = Quiet /\ Stopped(new, out) = {}
    BY <2>1, <2>3, StaysQuiet
  <2>5. s \in {1, 2} /\ bus' = Quiet /\ {6, 7} \subseteq dir'
    BY <1>2, <1>4, <1>5, <2>1, <2>2, <2>4
  <2>6. StartNow(s)'
    BY <2>5, Zenon DEF StartNow
  <2>7. QED
    BY <1>1, <1>4, <1>5, <2>2, <2>4, <2>6 DEF StartMade, Aloof
<1>6. CASE k = 2
  <2>1. bus = Quiet /\ {6, 7} \subseteq dir
    BY <1>6 DEF StartNow
  <2>2. new = pins /\ out = {6, 7} /\ OnBus(a)
    BY <1>1, <1>3, <1>6 DEF Turned
  <2>3. ~Starts(new, out)
    BY <2>1, <2>2, QuietLevels DEF Starts
  <2>4. Heard(new, out) = Quiet /\ Stopped(new, out) = {}
    BY <2>1, <2>3, StaysQuiet
  <2>5. s = 3 /\ bus' = Quiet /\ dir' = {6, 7}
    BY <1>2, <1>4, <1>6, <2>2, <2>4
  <2>6. StartNow(s)'
    BY <2>5, Zenon DEF StartNow
  <2>7. QED
    BY <1>1, <1>4, <1>6, <2>2, <2>4, <2>6 DEF StartMade, Aloof
<1>7. CASE k = 3
  <2>1. bus = Quiet /\ dir = {6, 7}
    BY <1>7 DEF StartNow
  <2>2. 6 \in new /\ 7 \in new /\ out = {6, 7} /\ OnBus(a)
    BY <1>1, <1>3, <1>7 DEF Lined
  <2>3. ~Starts(new, out)
    BY <2>1, <2>2, QuietLevels DEF Starts
  <2>4. Heard(new, out) = Quiet /\ Stopped(new, out) = {}
    BY <2>1, <2>3, StaysQuiet
  <2>5. s = 4 /\ bus' = Quiet /\ dir' = {6, 7} /\ {6, 7} \subseteq pins'
    BY <1>2, <1>4, <1>7, <2>2, <2>4
  <2>6. StartNow(s)'
    BY <2>5, Zenon DEF StartNow
  <2>7. QED
    BY <1>1, <1>4, <1>7, <2>2, <2>4, <2>6 DEF StartMade, Aloof, OnBus
<1>8. CASE k = 4
  <2>1. bus = Quiet /\ dir = {6, 7} /\ {6, 7} \subseteq pins
    BY <1>8 DEF StartNow
  <2>2. 6 \notin new /\ 7 \in new /\ out = {6, 7} /\ OnBus(a)
    BY <1>1, <1>3, <1>8 DEF Lined
  <2>3. Wires(TRUE, TRUE, TRUE, FALSE, new, out)
    BY <2>1, <2>2, QuietLevels DEF Wires
  <2>4. Heard(new, out) = Listening(0, 0, 0, 0, FALSE) /\ Stopped(new, out) = {}
    BY <2>3, StartHeard
  <2>5. /\ s = 5 /\ dir' = {6, 7} /\ 7 \in pins' /\ 6 \notin pins'
        /\ bus' = Listening(0, 0, 0, 0, FALSE)
    BY <1>2, <1>4, <1>8, <2>2, <2>4
  <2>6. StartNow(s)'
    BY <2>5, Zenon DEF StartNow
  <2>7. QED
    BY <1>1, <1>4, <1>8, <2>2, <2>4, <2>6 DEF StartMade, Aloof, OnBus
<1>9. CASE k = 5
  <2>1. dir = {6, 7} /\ 7 \in pins /\ 6 \notin pins /\ bus = Listening(0, 0, 0, 0, FALSE)
    BY <1>9 DEF StartNow
  <2>2. 6 \notin new /\ 7 \notin new /\ out = {6, 7} /\ OnBus(a)
    BY <1>1, <1>3, <1>9 DEF Lined
  <2>3. PICK d0, d1 \in BOOLEAN : d0 = FALSE /\ d1 = FALSE
    OBVIOUS
  <2>4. Wires(TRUE, d0, FALSE, d1, new, out)
    BY <2>1, <2>2, <2>3, Driven DEF Wires
  <2>5. PICK x \in 0 .. 8 : x = 0
    OBVIOUS
  <2>6. bus = Listening(x, 0, 0, 0, FALSE) /\ d0 \in BOOLEAN /\ d1 \in BOOLEAN /\ x < 8
    BY <2>1, <2>3, <2>5
  <2>7. Heard(new, out) = bus /\ Stopped(new, out) = {}
    BY <2>4, <2>6, FallHeard
  <2>8. BusFree(0, 0)'
    BY <1>2, <2>1, <2>2, <2>7 DEF BusFree
  <2>9. QED
    BY <1>1, <1>9, <2>2, <2>7, <2>8 DEF StartMade, Aloof, OnBus
<1>10. QED
  BY <1>5, <1>6, <1>7, <1>8, <1>9

\* Of the stop k - 1 accesses were made; b bytes and the message m were taken.
StopNow(b, m, k) ==
    \/ k = 1 /\ BusFree(b, m)
    \/ k = 2 /\ BusFree(b, m) /\ 6 \notin pins
    \/ k = 3 /\ dir = {6, 7} /\ 7 \in pins /\ 6 \notin pins /\ bus = Listening(1, 0, b, m, FALSE)
    \/ k = 4 /\ bus = Quiet /\ dir = {6, 7} /\ {6, 7} \subseteq pins

StopMade(b, m, k, a) ==
    /\ Aloof(a)
    /\ Stopped(Levels(a), Directed(a)) = IF k = 3 THEN {Call("PT2258", 0, m)} ELSE {}
    /\ k < 4 => OnBus(a)
    /\ IF k < 4 THEN StopNow(b, m, k + 1)' ELSE bus' = Quiet

LEMMA StopsAre ==
    ASSUME NEW a, NEW k \in 1 .. 4, a = I2CStop[k]
    PROVE  /\ k = 1 => Lined(a, {})
           /\ k = 2 => Lined(a, {7})
           /\ k = 3 => Lined(a, {6, 7})
           /\ k = 4 => a = RestoreGPIO
<1>1. PICK h, l, e : h = {6, 7} /\ l = {7} /\ e = {}
  OBVIOUS
<1>2. PICK s, x, y, z : s = RestoreGPIO /\ x = I2CLines(h) /\ y = I2CLines(l) /\ z = I2CLines(e)
  OBVIOUS
<1>3. I2CStop = << z, y, x, s >>
  BY <1>1, <1>2, Zenon DEF I2CStop, Sda, Scl
<1>4. /\ k = 1 => a = z
      /\ k = 2 => a = y
      /\ k = 3 => a = x
      /\ k = 4 => a = s
  BY <1>3
<1>5. h \subseteq {6, 7} /\ l \subseteq {6, 7} /\ e \subseteq {6, 7}
  BY <1>1
<1>6. /\ a = x => Lined(a, h)
      /\ a = y => Lined(a, l)
      /\ a = z => Lined(a, e)
  BY <1>2, <1>5, LinedIs
<1>7. QED
  BY <1>1, <1>2, <1>4, <1>6, Zenon

LEMMA LowHeard ==
    ASSUME NEW new, NEW out, NEW d0 \in BOOLEAN, NEW d1 \in BOOLEAN,
           Wires(FALSE, d0, TRUE, d1, new, out), ~d1,
           NEW b, NEW m, NEW p, bus = Listening(0, 0, b, m, p)
    PROVE  Hears(new, out, Listening(1, 0, b, m, p))
<1>1. PICK x \in 0 .. 7, y \in Nat, z \in Nat : x = 0 /\ y = 0 /\ z = 0
  OBVIOUS
<1>2. Shifts(y, z, d1) /\ bus = Listening(x, y, b, m, p)
  BY <1>1 DEF Shifts
<1>3. x \in 0 .. 7 /\ y \in Nat
  BY <1>1
<1>4. Hears(new, out, Listening(x + 1, z, b, m, p))
  BY <1>2, <1>3, BitHeard
<1>5. x + 1 = 1
  BY <1>1
<1>6. QED
  BY <1>1, <1>4, <1>5, Zenon

LEMMA StopAccess ==
    ASSUME card = "Revo51", NEW k \in 1 .. 4, NEW b \in 2 .. 3, NEW m, StopNow(b, m, k),
           NEW a, Makes(a), a = I2CStop[k], k = 4 => {6, 7} \subseteq saved.dir
    PROVE  StopMade(b, m, k, a)
<1>1. PICK new, out : new = Levels(a) /\ out = Directed(a)
  OBVIOUS
<1>2. pins' = new /\ dir' = out /\ bus' = Heard(new, out)
  BY <1>1 DEF Makes, Change
<1>3. /\ k = 1 => Lined(a, {})
      /\ k = 2 => Lined(a, {7})
      /\ k = 3 => Lined(a, {6, 7})
      /\ k = 4 => a = RestoreGPIO
  BY StopsAre
<1>4. PICK s : s = k + 1
  OBVIOUS
<1>5. CASE k = 1
  <2>1. dir = {6, 7} /\ 7 \notin pins /\ bus = Listening(0, 0, b, m, FALSE)
    BY <1>5 DEF StopNow, BusFree
  <2>2. 6 \notin new /\ 7 \notin new /\ out = {6, 7} /\ OnBus(a)
    BY <1>1, <1>3, <1>5 DEF Lined
  <2>3. PICK c, d0, d1 \in BOOLEAN : c = FALSE /\ (d0 <=> Level(Sda, pins, dir)) /\ d1 = FALSE
    OBVIOUS
  <2>4. Wires(c, d0, c, d1, new, out) /\ bus.on
    BY <2>1, <2>2, <2>3, Driven DEF Wires, Listening
  <2>5. Heard(new, out) = bus /\ Stopped(new, out) = {}
    BY <2>3, <2>4, StillHeard
  <2>6. s = 2 /\ dir' = {6, 7} /\ 7 \notin pins' /\ bus' = Listening(0, 0, b, m, FALSE) /\ 6 \notin pins'
    BY <1>2, <1>4, <1>5, <2>1, <2>2, <2>5
  <2>7. StopNow(b, m, s)'
    BY <2>6, Zenon DEF StopNow, BusFree
  <2>8. QED
    BY <1>1, <1>4, <1>5, <2>2, <2>5, <2>7 DEF StopMade, Aloof, OnBus
<1>6. CASE k = 2
  <2>1. dir = {6, 7} /\ 7 \notin pins /\ bus = Listening(0, 0, b, m, FALSE) /\ 6 \notin pins
    BY <1>6 DEF StopNow, BusFree
  <2>2. 6 \notin new /\ 7 \in new /\ out = {6, 7} /\ OnBus(a)
    BY <1>1, <1>3, <1>6 DEF Lined
  <2>3. PICK d0, d1, p \in BOOLEAN : d0 = FALSE /\ d1 = FALSE /\ p = FALSE
    OBVIOUS
  <2>4. Wires(FALSE, d0, TRUE, d1, new, out)
    BY <2>1, <2>2, <2>3, Driven DEF Wires
  <2>5. bus = Listening(0, 0, b, m, p)
    BY <2>1, <2>3
  <2>6. d0 \in BOOLEAN /\ d1 \in BOOLEAN /\ ~d1
    BY <2>3
  <2>7. Hears(new, out, Listening(1, 0, b, m, p))
    BY <2>4, <2>5, <2>6, LowHeard
  <2>8. Heard(new, out) = Listening(1, 0, b, m, FALSE) /\ Stopped(new, out) = {}
    BY <2>3, <2>7, Zenon DEF Hears
  <2>9. /\ s = 3 /\ dir' = {6, 7} /\ 7 \in pins' /\ 6 \notin pins'
        /\ bus' = Listening(1, 0, b, m, FALSE)
    BY <1>2, <1>4, <1>6, <2>2, <2>8
  <2>10. StopNow(b, m, s)'
    BY <2>9, Zenon DEF StopNow
  <2>11. QED
    BY <1>1, <1>4, <1>6, <2>2, <2>8, <2>10 DEF StopMade, Aloof, OnBus
<1>7. CASE k = 3
  <2>1. dir = {6, 7} /\ 7 \in pins /\ 6 \notin pins /\ bus = Listening(1, 0, b, m, FALSE)
    BY <1>7 DEF StopNow
  <2>2. 6 \in new /\ 7 \in new /\ out = {6, 7} /\ OnBus(a)
    BY <1>1, <1>3, <1>7 DEF Lined
  <2>3. bus.on /\ bus.bytes = b /\ bus.message = m /\ bus.pulls = FALSE /\ b > 1
    BY <2>1 DEF Listening
  <2>4. Wires(TRUE, FALSE, TRUE, TRUE, new, out)
    BY <2>1, <2>2, <2>3, Driven DEF Wires
  <2>5. /\ Heard(new, out) = Quiet
        /\ bus.bytes > 1 => Stopped(new, out) = {Call("PT2258", 0, bus.message)}
    BY <2>3, <2>4, StopHeard
  <2>6. s = 4 /\ bus' = Quiet /\ dir' = {6, 7} /\ {6, 7} \subseteq pins'
    BY <1>2, <1>4, <1>7, <2>2, <2>5
  <2>7. StopNow(b, m, s)'
    BY <2>6, Zenon DEF StopNow
  <2>8. Stopped(new, out) = {Call("PT2258", 0, m)}
    BY <2>3, <2>5
  <2>9. QED
    BY <1>1, <1>4, <1>7, <2>2, <2>7, <2>8 DEF StopMade, Aloof, OnBus
<1>8. CASE k = 4
  <2>1. bus = Quiet /\ dir = {6, 7} /\ {6, 7} \subseteq pins
    BY <1>8 DEF StopNow
  <2>2. new = pins /\ out = saved.dir /\ {6, 7} \subseteq out
    BY <1>1, <1>3, <1>8, RestoreIs
  <2>3. ~Starts(new, out)
    BY <2>1, <2>2, QuietLevels DEF Starts
  <2>4. Heard(new, out) = Quiet /\ Stopped(new, out) = {}
    BY <2>1, <2>3, StaysQuiet
  <2>5. QED
    BY <1>1, <1>2, <1>8, <2>2, <2>4 DEF StopMade, Aloof
<1>9. QED
  BY <1>5, <1>6, <1>7, <1>8

-----------------------------------------------------------------------------
(* A message, byte by byte *)

\* What the device has of the message before its j-th byte.
Taken(message, j) ==
    IF j <= 1 THEN 0 ELSE IF j <= LastByte(message) THEN message \div 256 ELSE message

LEMMA BytesFollow ==
    ASSUME NEW message \in Nat, message < 256 * 256, NEW j \in 0 .. LastByte(message),
           NEW B, B = MessageByte(message, j)
    PROVE  /\ B \in 0 .. 255 /\ j \in 0 .. 2 /\ (j = 0 => B = PT2258Address)
           /\ Taken(message, j) \in Nat /\ Taken(message, 0) = 0
           /\ Following(B, j, Taken(message, j)) = Taken(message, j + 1)
           /\ Taken(message, LastByte(message) + 1) = message
           /\ LastByte(message) \in 1 .. 2
<1>1. PICK x \in Nat : x = message /\ x < 65536
  OBVIOUS
<1>2. PICK q, v : q = x \div 256 /\ v = x % 256
  OBVIOUS
<1>3. q \in 0 .. 255 /\ v \in 0 .. 255 /\ x = 256 * q + v /\ (x < 256 => q = 0) /\ (x >= 256 => q > 0)
  BY <1>1, <1>2
<1>4. PICK l \in 1 .. 2 : l = LastByte(message) /\ (l = 1 <=> x < 256)
  BY <1>1 DEF LastByte
<1>5. j = 0 \/ j = 1 \/ (j = 2 /\ l = 2)
  BY <1>4
<1>6. PICK addr0 \in 0 .. 255 : addr0 = PT2258Address
  BY DEF PT2258Address
<1>7. /\ j = 0 => B = addr0
      /\ j = 1 => B = IF l = 1 THEN v ELSE q
      /\ j = 2 => B = v
  BY <1>1, <1>2, <1>4, <1>6 DEF MessageByte
<1>8. PICK t : t = Taken(message, j)
  OBVIOUS
<1>9. t = IF j <= 1 THEN 0 ELSE q
  BY <1>1, <1>2, <1>4, <1>5, <1>8 DEF Taken
<1>10. PICK u : u = Taken(message, j + 1)
  OBVIOUS
<1>11. u = IF j = 0 THEN 0 ELSE IF j = 1 /\ l = 2 THEN q ELSE x
  BY <1>1, <1>2, <1>4, <1>5, <1>10 DEF Taken
<1>12. Following(B, j, t) = u
  <2>1. CASE j = 0
    BY <1>11, <2>1 DEF Following
  <2>2. CASE j = 1
    <3>1. Following(B, j, t) = 256 * (0 % 256) + B
      BY <1>9, <2>2 DEF Following
    <3>2. Following(B, j, t) = B
      BY <1>3, <1>4, <1>7, <2>2, <3>1
    <3>3. QED
      BY <1>3, <1>4, <1>7, <1>11, <2>2, <3>2
  <2>3. CASE j = 2
    <3>1. Following(B, j, t) = 256 * (q % 256) + v
      BY <1>7, <1>9, <2>3 DEF Following
    <3>2. q % 256 = q
      BY <1>3
    <3>3. QED
      BY <1>3, <1>11, <2>3, <3>1, <3>2
  <2>4. QED
    BY <1>5, <2>1, <2>2, <2>3
<1>13. Taken(message, 0) = 0 /\ Taken(message, LastByte(message) + 1) = message
  BY <1>4 DEF Taken
<1>14. t \in Nat /\ B \in 0 .. 255 /\ j \in 0 .. 2
  BY <1>3, <1>4, <1>5, <1>6, <1>7, <1>9
<1>15. QED
  BY <1>4, <1>6, <1>7, <1>8, <1>10, <1>12, <1>13, <1>14

\* x - 1 accesses of the message were made.
MessageAt(message, x) ==
    \/ x \in 1 .. 5 /\ StartNow(x)
    \/ \E j \in 0 .. LastByte(message), r \in 0 .. 28 :
          /\ x = 5 + 29 * j + (r + 1)
          /\ ByteNow(MessageByte(message, j), j, Taken(message, j), r)
    \/ \E k \in 1 .. 4 :
          /\ x = 5 + 29 * (LastByte(message) + 1) + k
          /\ StopNow(LastByte(message) + 1, message, k)

\* Where a byte can begin.
LEMMA ByteBegins ==
    ASSUME NEW message \in Nat, message < 256 * 256, NEW j \in 0 .. LastByte(message), NEW m,
           m = Taken(message, j), BusFree(j, m)', NEW x, x = 5 + 29 * j + 1
    PROVE  MessageAt(message, x)'
<1>1. PICK B \in 0 .. 255 : B = MessageByte(message, j)
  BY BytesFollow
<1>2. PICK z : z = B \div 2^(8 - 0)
  OBVIOUS
<1>3. z = 0
  <2>1. 8 - 0 = 8 /\ 2^8 = 256
    OBVIOUS
  <2>2. B \div 256 = 0
    OBVIOUS
  <2>3. QED
    BY <1>2, <2>1, <2>2
<1>4. Clear(B, j, m, 0)'
  BY <1>2, <1>3, Zenon DEF Clear, BusFree
<1>5. PICK t \in 0 .. 7, r \in 0 .. 28 : t = 0 /\ r = 0 /\ r = 3 * t /\ x = 5 + 29 * j + (r + 1)
  OBVIOUS
<1>6. ByteNow(B, j, m, r)'
  BY <1>4, <1>5, Zenon DEF ByteNow
<1>7. QED
  BY <1>1, <1>5, <1>6, Zenon DEF MessageAt

MessageMade(message, l, x, a) ==
    /\ Aloof(a)
    /\ Stopped(Levels(a), Directed(a)) = IF n = l - 1 THEN {Call("PT2258", 0, message)} ELSE {}
    /\ n = 1 => a = SaveGPIO
    /\ 1 < n /\ n < l => OnBus(a)
    /\ n = l => a = RestoreGPIO
    /\ IF n < l THEN MessageAt(message, x)' ELSE bus' = Quiet

LEMMA MessageStarts ==
    ASSUME card = "Revo51", NEW message \in Nat, message < 256 * 256, n \in 1 .. 5, StartNow(n),
           NEW F, MessageFrame(F, message), NEW a, Makes(a), a = F[n],
           NEW l, l = Len(F), NEW x, x = n + 1
    PROVE  MessageMade(message, l, x, a)
<1>1. PICK k \in 1 .. 5 : k = n
  OBVIOUS
<1>2. a = I2CStart[k]
  <2>1. F[0 + k] = I2CStart[k] /\ 0 + k = k
    BY DEF MessageFrame, Piece
  <2>2. QED
    BY <1>1, <2>1
<1>3. StartMade(k, a)
  BY <1>1, <1>2, StartAccess
<1>4. LastByte(message) \in 1 .. 2 /\ Taken(message, 0) = 0
  <2>1. LastByte(message) \in 1 .. 2
    BY DEF LastByte
  <2>2. Taken(message, 0) = 0
    BY DEF Taken
  <2>3. QED
    BY <2>1, <2>2
<1>5. l \in Nat /\ l > 60
  <2>1. l = 9 + 29 * (LastByte(message) + 1)
    BY DEF MessageFrame
  <2>2. QED
    BY <1>4, <2>1
<1>6. x = n + 1
  OBVIOUS
<1>7. MessageAt(message, x)'
  <2>1. CASE k < 5
    <3>1. x \in 1 .. 5 /\ StartNow(x)'
      BY <1>1, <1>3, <1>6, <2>1 DEF StartMade
    <3>2. QED
      BY <3>1, Zenon DEF MessageAt
  <2>2. CASE ~(k < 5)
    <3>1. BusFree(0, 0)' /\ x = 6
      BY <1>1, <1>3, <1>6, <2>2 DEF StartMade
    <3>2. PICK j, m : j \in 0 .. LastByte(message) /\ j = 0 /\ m = 0 /\ x = 5 + 29 * j + 1
      BY <1>4, <3>1
    <3>3. BusFree(j, m)' /\ m = Taken(message, j)
      BY <1>4, <3>1, <3>2
    <3>4. QED
      BY <3>2, <3>3, ByteBegins
  <2>3. QED
    BY <2>1, <2>2
<1>8. n = 1 => a = SaveGPIO
  BY <1>1, <1>2, StartStopMask
<1>9. QED
  <2>1. ~(n = l - 1) /\ n < l /\ ~(n = l)
    BY <1>1, <1>5
  <2>2. Aloof(a) /\ Stopped(Levels(a), Directed(a)) = {} /\ (1 < n => OnBus(a))
    BY <1>1, <1>3 DEF StartMade
  <2>3. QED
    BY <1>6, <1>7, <1>8, <2>1, <2>2, Zenon DEF MessageMade

LEMMA MessageGoes ==
    ASSUME card = "Revo51", NEW message \in Nat, message < 256 * 256,
           NEW j \in 0 .. LastByte(message), NEW r \in 0 .. 28, n = 5 + 29 * j + (r + 1),
           ByteNow(MessageByte(message, j), j, Taken(message, j), r),
           NEW F, MessageFrame(F, message), NEW a, Makes(a), a = F[n],
           NEW l, l = Len(F), NEW x, x = n + 1
    PROVE  MessageMade(message, l, x, a)
<1>1. PICK B, m : B = MessageByte(message, j) /\ m = Taken(message, j)
  OBVIOUS
<1>2. /\ B \in 0 .. 255 /\ j \in 0 .. 2 /\ (j = 0 => B = PT2258Address) /\ m \in Nat
      /\ Following(B, j, m) = Taken(message, j + 1)
      /\ Taken(message, LastByte(message) + 1) = message
      /\ LastByte(message) \in 1 .. 2
  BY <1>1, BytesFollow
<1>3. PICK lb \in 1 .. 2 : lb = LastByte(message)
  BY <1>2
<1>4. a = I2CByte(B)[r + 1]
  <2>1. r + 1 \in 1 .. 29
    OBVIOUS
  <2>2. F[5 + 29 * j + (r + 1)] = I2CByte(B)[r + 1]
    BY <1>1, <2>1 DEF MessageFrame, Piece
  <2>3. QED
    BY <2>2
<1>5. ByteMade(B, j, m, r, a)
  <2>1. ByteNow(B, j, m, r)
    BY <1>1
  <2>2. QED
    BY <1>2, <1>4, <2>1, ByteAccess
<1>6. l = 9 + 29 * (lb + 1) /\ l \in Nat
  BY <1>3 DEF MessageFrame
<1>7. n > 1 /\ n < l - 1 /\ j <= lb
  BY <1>3, <1>6
<1>8. x = n + 1
  OBVIOUS
<1>9. MessageAt(message, x)'
  <2>1. CASE r < 28
    <3>1. PICK s \in 0 .. 28 : s = r + 1
      BY <2>1
    <3>2. x = 5 + 29 * j + (s + 1)
      BY <1>8, <3>1
    <3>3. ByteNow(B, j, m, s)'
      BY <1>5, <2>1, <3>1 DEF ByteMade
    <3>4. QED
      BY <1>1, <3>2, <3>3, Zenon DEF MessageAt
  <2>2. CASE ~(r < 28)
    <3>1. r = 28
      BY <2>2
    <3>2. PICK j1, m1 : j1 = j + 1 /\ m1 = Following(B, j, m)
      OBVIOUS
    <3>3. BusFree(j1, m1)' /\ m1 = Taken(message, j1)
      BY <1>2, <1>5, <2>2, <3>2 DEF ByteMade
    <3>4. x = 5 + 29 * j1 + 1
      BY <1>8, <3>1, <3>2
    <3>5. CASE j < lb
      <4>1. j1 \in 0 .. LastByte(message)
        BY <1>2, <1>3, <3>2, <3>5
      <4>2. QED
        BY <3>3, <3>4, <4>1, ByteBegins
    <3>6. CASE ~(j < lb)
      <4>1. j1 = LastByte(message) + 1 /\ m1 = message
        BY <1>2, <1>3, <1>7, <3>2, <3>3, <3>6
      <4>2. PICK k \in 1 .. 4 : k = 1
        OBVIOUS
      <4>3. x = 5 + 29 * (LastByte(message) + 1) + k
        BY <3>4, <4>1, <4>2
      <4>4. StopNow(LastByte(message) + 1, message, k)'
        BY <3>3, <4>1, <4>2, Zenon DEF StopNow
      <4>5. QED
        BY <4>3, <4>4, Zenon DEF MessageAt
    <3>7. QED
      BY <3>5, <3>6
  <2>3. QED
    BY <2>1, <2>2
<1>10. QED
  <2>1. ~(n = l - 1) /\ n < l /\ ~(n = l) /\ ~(n = 1)
    BY <1>6, <1>7
  <2>2. OnBus(a) /\ Aloof(a) /\ Stopped(Levels(a), Directed(a)) = {}
    BY <1>5 DEF ByteMade, BusMade, OnBus, Aloof
  <2>3. QED
    BY <1>8, <1>9, <2>1, <2>2, Zenon DEF MessageMade

LEMMA MessageStops ==
    ASSUME card = "Revo51", NEW message \in Nat, message < 256 * 256, NEW k \in 1 .. 4,
           n = 5 + 29 * (LastByte(message) + 1) + k, StopNow(LastByte(message) + 1, message, k),
           NEW F, MessageFrame(F, message), NEW a, Makes(a), a = F[n],
           NEW l, l = Len(F), NEW x, x = n + 1,
           n = l => {6, 7} \subseteq saved.dir
    PROVE  MessageMade(message, l, x, a)
<1>1. PICK b \in 2 .. 3 : b = LastByte(message) + 1
  BY DEF LastByte
<1>2. l = 9 + 29 * b /\ l \in Nat /\ n = l - 4 + k /\ l > 60
  BY <1>1 DEF MessageFrame
<1>3. a = I2CStop[k]
  <2>1. F[5 + 29 * (LastByte(message) + 1) + k] = I2CStop[k]
    BY DEF MessageFrame, Piece
  <2>2. QED
    BY <2>1
<1>4. StopMade(b, message, k, a)
  <2>1. k = 4 => {6, 7} \subseteq saved.dir
    BY <1>2
  <2>2. StopNow(b, message, k)
    BY <1>1
  <2>3. QED
    BY <1>3, <2>1, <2>2, StopAccess
<1>5. x = n + 1
  OBVIOUS
<1>6. IF n < l THEN MessageAt(message, x)' ELSE bus' = Quiet
  <2>1. CASE k < 4
    <3>1. PICK k1 \in 1 .. 4 : k1 = k + 1
      BY <2>1
    <3>2. StopNow(b, message, k1)'
      BY <1>4, <2>1, <3>1 DEF StopMade
    <3>3. x = 5 + 29 * (LastByte(message) + 1) + k1
      BY <1>1, <1>5, <3>1
    <3>4. MessageAt(message, x)'
      BY <1>1, <3>2, <3>3, Zenon DEF MessageAt
    <3>5. n < l
      BY <1>2, <2>1
    <3>6. QED
      BY <3>4, <3>5
  <2>2. CASE ~(k < 4)
    <3>1. ~(n < l)
      BY <1>2, <2>2
    <3>2. bus' = Quiet
      BY <1>4, <2>2 DEF StopMade
    <3>3. QED
      BY <3>1, <3>2
  <2>3. QED
    BY <2>1, <2>2
<1>7. n = l => a = RestoreGPIO
  <2>1. n = l => k = 4
    BY <1>2
  <2>2. QED
    BY <1>3, <2>1, StartStopMask
<1>8. /\ k = 3 <=> n = l - 1
      /\ n < l => k < 4
      /\ ~(n = 1)
  BY <1>2
<1>9. Aloof(a) /\ (n < l => OnBus(a))
  BY <1>4, <1>8 DEF StopMade
<1>10. Stopped(Levels(a), Directed(a)) = IF n = l - 1 THEN {Call("PT2258", 0, message)} ELSE {}
  BY <1>4, <1>8, Zenon DEF StopMade
<1>11. QED
  BY <1>5, <1>6, <1>7, <1>8, <1>9, <1>10, Zenon DEF MessageMade

LEMMA MessageMoves ==
    ASSUME card = "Revo51", NEW message \in Nat, message < 256 * 256, MessageAt(message, n),
           NEW F, MessageFrame(F, message), NEW a, Makes(a), a = F[n],
           NEW l, l = Len(F), NEW x, x = n + 1,
           n = l => {6, 7} \subseteq saved.dir
    PROVE  MessageMade(message, l, x, a)
<1>1. CASE n \in 1 .. 5 /\ StartNow(n)
  BY <1>1, MessageStarts
<1>2. CASE \E j \in 0 .. LastByte(message), r \in 0 .. 28 :
              /\ n = 5 + 29 * j + (r + 1)
              /\ ByteNow(MessageByte(message, j), j, Taken(message, j), r)
  BY <1>2, MessageGoes
<1>3. CASE \E k \in 1 .. 4 :
              /\ n = 5 + 29 * (LastByte(message) + 1) + k
              /\ StopNow(LastByte(message) + 1, message, k)
  BY <1>3, MessageStops
<1>4. QED
  BY <1>1, <1>2, <1>3, Zenon DEF MessageAt

-----------------------------------------------------------------------------
(* A write to the PT2258, access by access *)

MessageLength(message) == 9 + 29 * (LastByte(message) + 1)

\* The write lands with the last access but one.
MessageNow(message) ==
    MessageAt(message, n) /\ (latched <=> n = MessageLength(message))

\* Masks and directions during a message, when they are saved after the first
\* access.
MaskSaved == IF n > 1 THEN Usable(saved.masked, saved.dir) ELSE Usable(masked, dir)

LEMMA MaskMoves ==
    ASSUME card = "Revo51", MaskSaved, NEW l \in Nat, n \in 1 .. l, l > 60, NEW a, Makes(a),
           n = 1 => a = SaveGPIO, 1 < n /\ n < l => OnBus(a), n = l => a = RestoreGPIO
    PROVE  IF n < l THEN Usable(saved.masked, saved.dir)' ELSE Usable(masked, dir)'
<1>1. /\ card' = card /\ masked' = MaskOf(a) /\ saved' = Saved(a) /\ dir' = Directed(a)
      /\ Open(card) = {1, 3, 4, 5}
  BY DEF Makes, Open
<1>2. CASE n = 1
  <2>1. Usable(masked, dir) /\ n < l
    BY <1>2 DEF MaskSaved
  <2>2. saved' = [dir |-> dir, masked |-> masked \ (16 .. 22)]
    BY <1>1, <1>2, SaveIs
  <2>3. saved'.dir = dir /\ saved'.masked = masked \ (16 .. 22)
    BY <2>2
  <2>4. Usable(saved.masked, saved.dir)'
    BY <1>1, <2>1, <2>3 DEF Usable
  <2>5. QED
    BY <2>1, <2>4
<1>3. CASE n > 1 /\ n < l
  <2>1. Usable(saved.masked, saved.dir) /\ saved' = saved
    BY <1>1, <1>3 DEF MaskSaved, OnBus
  <2>2. Usable(saved.masked, saved.dir)'
    BY <1>1, <2>1 DEF Usable
  <2>3. QED
    BY <1>3, <2>2
<1>4. CASE n = l
  <2>1. Usable(saved.masked, saved.dir) /\ ~(n < l)
    BY <1>4 DEF MaskSaved
  <2>2. dir' = saved.dir /\ masked' = saved.masked \cup (masked \cap 16 .. 22)
    BY <1>1, <1>4, RestoreIs
  <2>3. Usable(masked, dir)'
    BY <1>1, <2>1, <2>2 DEF Usable
  <2>4. QED
    BY <2>1, <2>3
<1>5. QED
  BY <1>2, <1>3, <1>4

\* The serial codecs sleep.
LEMMA CodecsSleep ==
    ASSUME card = "Revo51", card \in OnGpio, Devices, Still, NEW a, Makes(a), Aloof(a)
    PROVE  /\ Still' /\ Landing(Levels(a), Directed(a)) = Stopped(Levels(a), Directed(a))
           /\ Up(card) \subseteq pins => Up(card) \subseteq pins'
<1>1. PICK new, out : new = Levels(a) /\ out = Directed(a)
  OBVIOUS
<1>2. Change(new, out) /\ card' = card /\ pins' = new
  BY <1>1 DEF Makes
<1>3. \A p \in {1, 4, 5} : (p \in new) = (p \in pins)
  BY <1>1 DEF Aloof
<1>4. \A k \in Serial(card) : Idle(k, new)
  <2>1. ASSUME NEW k \in Serial(card)
        PROVE  Wiring[card][k].clk = 1
    BY PinsAre, GpioCardsAre
  <2>2. 1 \notin new \ pins
    BY <1>3
  <2>3. QED
    BY <2>1, <2>2 DEF Idle, Still
<1>5. Still' /\ FromCodecs(new) = {}
  BY <1>2, <1>4, AllIdle
<1>6. Landing(new, out) = Stopped(new, out)
  BY <1>5 DEF Landing
<1>7. Up(card) \subseteq pins => Up(card) \subseteq pins'
  BY <1>2, <1>3 DEF Up
<1>8. QED
  BY <1>1, <1>5, <1>6, <1>7

\* What an access leaves behind.
MessageDone(message, a) ==
    /\ Delivers(a) /\ Still' /\ Up(card) \subseteq pins'
    /\ IF n < Len(Frame(card, call))
       THEN MessageNow(message)' /\ Usable(saved.masked, saved.dir)'
       ELSE bus' = Quiet /\ Usable(masked, dir)'

LEMMA MessageAccess ==
    ASSUME TypeInv, card = "Revo51", card \in OnGpio, Still, Up(card) \subseteq pins, pc = "gpio",
           call.chip = "PT2258", NEW message, message = call.data, MessageNow(message), MaskSaved,
           NEW F, NEW a, Accessed(F, a)
    PROVE  MessageDone(message, a)
<1>1. PICK new, out : new = Levels(a) /\ out = Directed(a)
  OBVIOUS
<1>2. /\ F = Frame(card, call) /\ n \in 1 .. Len(F) /\ a = F[n] /\ Makes(a) /\ Devices
      /\ \/ n < Len(F) /\ n' = n + 1 /\ pc' = pc /\ call' = call
         \/ n = Len(F) /\ n' = 0 /\ pc' = "idle" /\ call' = None
      /\ card \in Cards /\ call \in CallsOf[card]
  BY AccessMakes DEF TypeInv, ThreadTyped
<1>3. message \in Nat /\ message < 256 * 256 /\ call.reg = 0
  <2>1. call.chip \notin StepsOf[card] /\ call.chip \notin ChipsWired[card] /\ call.chip # "AC97"
    BY DEF StepsOf, ChipsWired
  <2>2. GpioCall(card, call)
    BY <1>2, GpioCalls
  <2>3. call.reg = 0 /\ call.data \in Words16
    BY <2>1, <2>2, Zenon DEF GpioCall
  <2>4. QED
    BY <2>3 DEF Words16
<1>4. call = Call("PT2258", 0, message)
  <2>1. call = Call(call.chip, call.reg, call.data)
    BY <1>2, CallIs
  <2>2. QED
    BY <1>3, <2>1, Zenon
<1>5. F = I2CFrame(message)
  <2>1. call.chip \notin SetUpSteps /\ call.chip # "AC97"
    BY DEF SetUpSteps
  <2>2. QED
    BY <1>2, <2>1 DEF Frame
<1>6. MessageFrame(F, message)
  BY <1>3, <1>5, I2CFrameIs
<1>7. PICK l \in Nat : l = MessageLength(message) /\ l = Len(F) /\ l > 60
  BY <1>6 DEF MessageFrame, MessageLength, LastByte
<1>8. n \in 1 .. l /\ a = F[n]
  BY <1>2, <1>7
<1>9. PICK x : x = n + 1
  OBVIOUS
<1>10. MessageMade(message, l, x, a)
  <2>1. n = l => {6, 7} \subseteq saved.dir
    BY <1>7 DEF MaskSaved, Usable
  <2>2. MessageAt(message, n)
    BY DEF MessageNow
  <2>3. QED
    BY <1>2, <1>3, <1>6, <1>7, <1>8, <1>9, <2>1, <2>2, MessageMoves
<1>11. /\ Still' /\ Landing(new, out) = Stopped(new, out)
       /\ Up(card) \subseteq pins'
  BY <1>1, <1>2, <1>10, CodecsSleep DEF MessageMade
<1>12. Landing(new, out) = IF n = l - 1 THEN {call} ELSE {}
  BY <1>1, <1>4, <1>10, <1>11, Zenon DEF MessageMade
<1>13. latched <=> n = l
  BY <1>7 DEF MessageNow
<1>14. Delivers(a)
  <2>1. IsWrite(call)
    BY DEF IsWrite, SetUpSteps
  <2>2. CASE n = l - 1
    <3>1. Landing(new, out) = {call} /\ ~latched
      BY <1>7, <1>12, <1>13, <2>2
    <3>2. QED
      BY <1>1, <2>1, <3>1 DEF Delivers
  <2>3. CASE n # l - 1
    <3>1. Landing(new, out) = {} /\ (n = Len(F) => latched)
      BY <1>7, <1>12, <1>13, <2>3
    <3>2. QED
      BY <1>1, <1>2, <3>1 DEF Delivers
  <2>4. QED
    BY <2>2, <2>3
<1>15. IF n < l THEN Usable(saved.masked, saved.dir)' ELSE Usable(masked, dir)'
  <2>1. /\ n = 1 => a = SaveGPIO
        /\ 1 < n /\ n < l => OnBus(a)
        /\ n = l => a = RestoreGPIO
    BY <1>10 DEF MessageMade
  <2>2. QED
    BY <1>2, <1>7, <1>8, <2>1, MaskMoves
<1>16. CASE n < l
  <2>1. n' = x
    BY <1>2, <1>7, <1>9, <1>16
  <2>2. MessageAt(message, x)'
    BY <1>10, <1>16 DEF MessageMade
  <2>3. MessageAt(message, n)'
    <3>1. \/ x \in 1 .. 5 /\ StartNow(x)'
          \/ (\E j \in 0 .. LastByte(message), r \in 0 .. 28 :
                /\ x = 5 + 29 * j + (r + 1)
                /\ ByteNow(MessageByte(message, j), j, Taken(message, j), r))'
          \/ (\E k \in 1 .. 4 :
                /\ x = 5 + 29 * (LastByte(message) + 1) + k
                /\ StopNow(LastByte(message) + 1, message, k))'
      BY <2>2, Zenon DEF MessageAt
    <3>2. StartNow(x)' => StartNow(n)'
      BY <2>1, Zenon DEF StartNow
    <3>3. QED
      BY <2>1, <3>1, <3>2, Zenon DEF MessageAt
  <2>4. latched' <=> n' = l
    <3>1. latched' = (latched \/ Landing(new, out) # {})
      BY <1>1, <1>2 DEF Makes, Change
    <3>2. latched' <=> n = l - 1
      <4>1. CASE n = l - 1
        BY <1>12, <3>1, <4>1
      <4>2. CASE n # l - 1
        <5>1. ~latched
          BY <1>7, <1>8, <1>13, <1>16
        <5>2. Landing(new, out) = {}
          BY <1>12, <4>2
        <5>3. ~latched'
          BY <3>1, <5>1, <5>2, Zenon
        <5>4. QED
          BY <4>2, <5>3
      <4>3. QED
        BY <4>1, <4>2
    <3>3. n = l - 1 <=> n' = l
      BY <1>7, <1>8, <1>9, <2>1
    <3>4. QED
      BY <3>2, <3>3
  <2>5. MessageNow(message)'
    BY <1>7, <2>3, <2>4, Zenon DEF MessageNow
  <2>6. QED
    BY <1>2, <1>7, <1>11, <1>14, <1>15, <1>16, <2>5 DEF MessageDone
<1>17. CASE ~(n < l)
  <2>1. bus' = Quiet
    BY <1>10, <1>17 DEF MessageMade
  <2>2. QED
    BY <1>2, <1>7, <1>11, <1>14, <1>15, <1>17, <2>1 DEF MessageDone
<1>18. QED
  BY <1>16, <1>17

-----------------------------------------------------------------------------
(* Every access keeps what holds, and delivers the write of its call *)

OnMessage == pc = "gpio" /\ call.chip = "PT2258"
BusInv ==
    card = "Revo51" => IF OnMessage THEN MessageNow(call.data) ELSE bus = Quiet
Settled == Registers /\ CallsInOrder /\ SerialInv /\ MaskInv /\ AureonInv /\ BusInv
GpioInv == card \in OnGpio => Settled

\* What every access has in common: the call goes on, or is over.
Proceeds ==
    /\ Registers' /\ CallsInOrder' /\ card' = card /\ at' = at
    /\ IF n < Len(Frame(card, call))
       THEN pc = "gpio" /\ pc' = "gpio" /\ call' = call /\ n' = n + 1
       ELSE n = Len(Frame(card, call)) /\ pc' = "idle"

LEMMA AccessProceeds ==
    ASSUME CallsInOrder, pc = "gpio", NEW F, NEW a, Accessed(F, a)
    PROVE  Proceeds /\ n \in Nat /\ Makes(a)
<1>1. /\ F = Frame(card, call) /\ n \in 1 .. Len(F) /\ Makes(a)
      /\ \/ n < Len(F) /\ n' = n + 1 /\ pc' = pc /\ call' = call
         \/ n = Len(F) /\ n' = 0 /\ pc' = "idle" /\ call' = None
  BY AccessMakes
<1>2. Len(F) \in Nat
  BY DEF Accessed
<1>3. CallsInOrder' /\ card' = card /\ at' = at
  BY AfterAccess
<1>4. Registers'
  BY <1>1, RegistersStay DEF Makes
<1>5. IF n < Len(F) THEN pc = "gpio" /\ pc' = "gpio" /\ call' = call /\ n' = n + 1
      ELSE n = Len(F) /\ pc' = "idle"
  BY <1>1, <1>2
<1>6. QED
  BY <1>1, <1>3, <1>4, <1>5 DEF Proceeds

\* A call that is none to a serial codec, and is still made, is that call.
LEMMA SameCall ==
    ASSUME Proceeds, pc = "gpio"
    PROVE  /\ OnSerial' => OnSerial
           /\ OnMessage' => OnMessage
           /\ pc' = "gpio" => call' = call /\ n < Len(Frame(card, call)) /\ n' = n + 1
BY DEF Proceeds, OnSerial, OnMessage, Serial

Kept(a) == Delivers(a) /\ Settled'

\* On the Aureon, by which call is made.
LEMMA AureonPlace ==
    ASSUME TypeInv, card = "AureonSpace", card \in OnGpio, CallsInOrder, pc = "gpio"
    PROVE  /\ call.chip = "boot" => at = 2 /\ CodecsAt(card) \in Nat /\ CodecsAt(card) >= 3
           /\ call.chip \in {"ac97", "AC97"} =>
                 at \in 3 .. CodecsAt(card) /\ CodecsAt(card) \in Nat
           /\ call.chip = "codecs" => at = CodecsAt(card) + 1 /\ CodecsAt(card) \in Nat
                                       /\ CodecsAt(card) >= 3
           /\ OnSerial => at = 0 \/ (at > CodecsAt(card) + 1 /\ at \in Nat /\ CodecsAt(card) \in Nat
                                       /\ CodecsAt(card) >= 3)
<1>1. /\ card \in Cards /\ at \in 0 .. Len(SetUp[card]) + 1
  BY DEF TypeInv, ThreadTyped
<1>2. at = 0 => OnSerial
  BY KindsAre
<1>3. OnSerial => call.chip \in {"Aureon", "CS8415"}
  BY SerialIs DEF OnSerial, ChipsWired
<1>4. CASE at = 0
  BY <1>2, <1>3, <1>4
<1>5. CASE at # 0
  <2>1. AureonCalls /\ at \in Nat /\ CodecsAt(card) \in Nat /\ CodecsAt(card) >= 3 /\ at >= 2
    BY <1>1, <1>5, AureonCallsAre
  <2>2. at = 2 \/ at \in 3 .. CodecsAt(card) \/ at = CodecsAt(card) + 1 \/ at > CodecsAt(card) + 1
    BY <2>1
  <2>3. CASE at = 2
    BY <1>3, <2>1, <2>3 DEF AureonCalls
  <2>4. CASE at \in 3 .. CodecsAt(card)
    BY <1>3, <2>1, <2>4 DEF AureonCalls
  <2>5. CASE at = CodecsAt(card) + 1
    BY <1>3, <2>1, <2>5 DEF AureonCalls
  <2>6. CASE at > CodecsAt(card) + 1
    BY <1>3, <2>1, <2>6 DEF AureonCalls
  <2>7. QED
    BY <2>2, <2>3, <2>4, <2>5, <2>6
<1>6. QED
  BY <1>4, <1>5

LEMMA SerialKept ==
    ASSUME TypeInv, card \in OnGpio, Settled, OnSerial, NEW F, NEW a, Accessed(F, a)
    PROVE  Kept(a)
<1>1. PICK chip, w, word : Serving(chip, w, word)
  BY ServingIs
<1>2. pc = "gpio" /\ call.chip = chip /\ CallsInOrder /\ Registers
  BY <1>1 DEF OnSerial, Serving, Settled
<1>3. call.chip \notin {"boot", "ac97", "AC97", "codecs", "PT2258"} \cup Simple
  <2>1. Serial(card) = ChipsWired[card] /\ card \in GpioCards
    BY SerialIs, GpioCardsAre
  <2>2. QED
    BY <2>1 DEF OnSerial, ChipsWired, GpioCards, Simple
<1>4. PastBoot
  BY <1>2, <1>3, KindsAre
<1>5. Usable(masked, dir)
  BY <1>3, <1>4 DEF Settled, MaskInv, OnTheBus
<1>6. SerialNow(chip, w, word)
  BY <1>1 DEF Settled, SerialInv
<1>7. card = "Revo51" => bus = Quiet
  BY <1>3 DEF Settled, BusInv, OnMessage
<1>8. SerialMade(chip, w, word, a)
  BY <1>1, <1>2, <1>5, <1>6, <1>7, SerialAccess DEF Usable
<1>9. Proceeds /\ n \in Nat
  BY <1>2, AccessProceeds
<1>10. /\ OnSerial' => OnSerial
       /\ OnMessage' => OnMessage
       /\ pc' = "gpio" => call' = call /\ n < Len(Frame(card, call)) /\ n' = n + 1
  BY <1>2, <1>9, SameCall
<1>11. card' = card /\ at' = at /\ Registers' /\ CallsInOrder'
  BY <1>9 DEF Proceeds
<1>12. SerialInv'
  <2>1. CASE OnSerial'
    <3>1. pc' = "gpio" /\ call' = call /\ n < Len(Frame(card, call))
      BY <1>10, <2>1 DEF OnSerial
    <3>2. SerialNow(chip, w, word)'
      BY <1>8, <3>1 DEF SerialMade
    <3>3. ASSUME NEW chip2, NEW w2, NEW word2, Serving(chip2, w2, word2)'
          PROVE  chip2 = chip /\ w2 = w /\ word2 = word
      BY <1>1, <1>11, <3>1, <3>3 DEF Serving
    <3>4. \A chip2, w2, word2 : Serving(chip2, w2, word2)' => SerialNow(chip2, w2, word2)'
      BY <3>2, <3>3
    <3>5. QED
      BY <2>1, <3>4, Zenon DEF SerialInv
  <2>2. CASE ~OnSerial'
    <3>1. pc' # "gpio"
      BY <1>10, <1>11, <2>2 DEF OnSerial, Serial
    <3>2. n = Len(Frame(card, call))
      BY <1>9, <3>1 DEF Proceeds
    <3>3. Still' /\ Up(card) \subseteq pins'
      BY <1>8, <3>2 DEF SerialMade
    <3>4. QED
      BY <1>11, <2>2, <3>3 DEF SerialInv
  <2>3. QED
    BY <2>1, <2>2
<1>13. MaskInv'
  <2>1. ~OnTheBus'
    BY <1>3, <1>10 DEF OnTheBus
  <2>2. Usable(masked, dir)'
    <3>1. card \in {"AureonSpace", "ProdigyHD2"} => Open(card) = {} /\ card # "Revo51"
      BY DEF Open
    <3>2. QED
      BY <1>5, <1>8, <1>11, <3>1 DEF SerialMade, Usable
  <2>3. QED
    BY <2>1, <2>2 DEF MaskInv
<1>14. AureonInv'
  <2>1. SUFFICES ASSUME card' = "AureonSpace"
                 PROVE  ~BeforeCodecs' /\ (pc' = "gpio" => call'.chip \notin {"codecs", "AC97"})
    BY DEF AureonInv
  <2>2. at = 0 \/ (at > CodecsAt(card) + 1 /\ at \in Nat /\ CodecsAt(card) \in Nat
                     /\ CodecsAt(card) >= 3)
    BY <1>2, <1>11, <2>1, AureonPlace
  <2>3. ~BeforeCodecs'
    BY <1>11, <2>2 DEF BeforeCodecs, CodecsAt
  <2>4. QED
    BY <1>3, <1>10, <2>3
<1>15. BusInv'
  <2>1. ~OnMessage'
    BY <1>3, <1>10 DEF OnMessage
  <2>2. card = "Revo51" => bus' = Quiet
    BY <1>8 DEF SerialMade
  <2>3. QED
    BY <1>11, <2>1, <2>2 DEF BusInv
<1>16. QED
  BY <1>8, <1>11, <1>12, <1>13, <1>14, <1>15 DEF Kept, Settled, SerialMade

\* What the calls that are none to a serial codec start from.
LEMMA OffSerial ==
    ASSUME TypeInv, card \in OnGpio, Settled, pc = "gpio", ~OnSerial
    PROVE  /\ Still /\ CallsInOrder /\ Registers
           /\ call.chip # "boot" => PastBoot
           /\ Prepared => Up(card) \subseteq pins
           /\ call.chip # "PT2258" => (card = "Revo51" => bus = Quiet)
<1>1. Still /\ CallsInOrder /\ Registers /\ (Prepared => Up(card) \subseteq pins)
  BY DEF Settled, SerialInv
<1>2. call.chip # "boot" => PastBoot
  BY <1>1, KindsAre
<1>3. call.chip # "PT2258" => (card = "Revo51" => bus = Quiet)
  BY DEF Settled, BusInv, OnMessage
<1>4. QED
  BY <1>1, <1>2, <1>3

\* The shift registers, after such a call's access.
LEMMA StillSerial ==
    ASSUME Proceeds, pc = "gpio", ~OnSerial, Still', (Prepared => Up(card) \subseteq pins)'
    PROVE  SerialInv'
<1>1. ~OnSerial'
  BY SameCall
<1>2. QED
  BY <1>1 DEF SerialInv

LEMMA BootKept ==
    ASSUME TypeInv, card \in OnGpio, Settled, pc = "gpio", call.chip = "boot",
           NEW F, NEW a, Accessed(F, a)
    PROVE  Kept(a)
<1>1. ~OnSerial
  <2>1. Serial(card) = ChipsWired[card] /\ card \in GpioCards
    BY SerialIs, GpioCardsAre
  <2>2. QED
    BY <2>1 DEF OnSerial, ChipsWired, GpioCards
<1>2. Still /\ CallsInOrder /\ (card = "Revo51" => bus = Quiet)
  BY <1>1, OffSerial
<1>3. BootMade(a)
  BY <1>2, BootAccess
<1>4. Proceeds
  BY <1>2, AccessProceeds
<1>5. card' = card /\ at' = at /\ Registers' /\ CallsInOrder' /\ pc' = "idle"
  BY <1>3, <1>4 DEF Proceeds, BootMade
<1>6. card = "AureonSpace" => at = 2 /\ CodecsAt(card) \in Nat /\ CodecsAt(card) >= 3
  BY <1>2, AureonPlace
<1>7. SerialInv'
  <2>1. card = "AureonSpace" => ~Prepared'
    BY <1>5, <1>6 DEF Prepared, PastCodecs, CodecsAt
  <2>2. (Prepared => Up(card) \subseteq pins)'
    BY <1>3, <1>5, <2>1 DEF BootMade
  <2>3. QED
    BY <1>1, <1>3, <1>4, <2>2, StillSerial DEF BootMade
<1>8. MaskInv'
  BY <1>3, <1>5 DEF MaskInv, OnTheBus, Usable, BootMade
<1>9. AureonInv'
  BY <1>3, <1>5 DEF AureonInv, BootMade
<1>10. BusInv'
  BY <1>3, <1>5 DEF BusInv, OnMessage, BootMade
<1>11. QED
  BY <1>3, <1>5, <1>7, <1>8, <1>9, <1>10 DEF Kept, Settled, BootMade

LEMMA SimpleKept ==
    ASSUME TypeInv, card \in OnGpio, Settled, pc = "gpio", call.chip \in Simple,
           card # "AureonSpace", NEW F, NEW a, Accessed(F, a)
    PROVE  Kept(a)
<1>1. ~OnSerial
  <2>1. Serial(card) = ChipsWired[card] /\ card \in GpioCards
    BY SerialIs, GpioCardsAre
  <2>2. QED
    BY <2>1 DEF OnSerial, ChipsWired, GpioCards, Simple
<1>2. call.chip # "boot" /\ call.chip # "PT2258"
  BY DEF Simple
<1>3. /\ Still /\ CallsInOrder /\ PastBoot /\ (card = "Revo51" => bus = Quiet)
      /\ Prepared => Up(card) \subseteq pins
  BY <1>1, <1>2, OffSerial
<1>4. SimpleMade(a)
  BY <1>3, SimpleAccess
<1>5. Proceeds
  BY <1>3, AccessProceeds
<1>6. card' = card /\ at' = at /\ Registers' /\ CallsInOrder'
  BY <1>5 DEF Proceeds
<1>7. OnMessage' => OnMessage
  BY <1>5, SameCall
<1>8. ~OnMessage /\ ~OnMessage'
  BY <1>2, <1>7 DEF OnMessage
<1>9. SerialInv'
  <2>1. Up(card) \subseteq pins
    BY <1>3 DEF Prepared
  <2>2. Up(card)' \subseteq pins'
    BY <1>4, <1>6, <2>1 DEF SimpleMade
  <2>3. QED
    BY <1>1, <1>4, <1>5, <2>2, StillSerial DEF SimpleMade
<1>10. MaskInv'
  <2>1. Usable(masked, dir)
    BY <1>3, <1>8 DEF Settled, MaskInv, OnTheBus, OnMessage
  <2>2. Usable(masked, dir)'
    BY <1>4, <1>6, <2>1 DEF Usable, SimpleMade
  <2>3. QED
    BY <1>8, <2>2 DEF MaskInv, OnTheBus, OnMessage
<1>11. AureonInv'
  BY <1>6 DEF AureonInv
<1>12. BusInv'
  BY <1>4, <1>6, <1>8 DEF BusInv, SimpleMade
<1>13. QED
  BY <1>4, <1>6, <1>9, <1>10, <1>11, <1>12 DEF Kept, Settled, SimpleMade

\* The Aureon: its pins are never masked in vain, and it has no PT2258.
LEMMA AureonNoBus ==
    ASSUME card' = "AureonSpace"
    PROVE  MaskInv' /\ BusInv'
BY DEF MaskInv, Usable, Open, BusInv

LEMMA AureonOffSerial ==
    ASSUME card = "AureonSpace", card \in OnGpio, call.chip \in {"ac97", "AC97", "codecs"}
    PROVE  ~OnSerial /\ call.chip # "boot"
BY SerialIs DEF OnSerial, ChipsWired

\* The reset of the AC'97 codec.
LEMMA ColdKept ==
    ASSUME TypeInv, card = "AureonSpace", card \in OnGpio, Settled, pc = "gpio",
           call.chip = "ac97", NEW F, NEW a, Accessed(F, a)
    PROVE  Kept(a)
<1>1. ~OnSerial
  BY AureonOffSerial
<1>2. Still /\ CallsInOrder
  BY <1>1, OffSerial
<1>3. ColdMade(a)
  BY <1>2, ColdAccess
<1>4. Proceeds
  BY <1>2, AccessProceeds
<1>5. card' = card /\ at' = at /\ Registers' /\ CallsInOrder'
      /\ (pc' = "gpio" => call' = call)
  BY <1>4, SameCall DEF Proceeds
<1>6. at \in 3 .. CodecsAt(card) /\ CodecsAt(card) \in Nat
  BY <1>2, AureonPlace
<1>7. SerialInv'
  <2>1. ~Prepared'
    BY <1>5, <1>6 DEF Prepared, PastCodecs, CodecsAt
  <2>2. QED
    BY <1>1, <1>3, <1>4, <2>1, StillSerial DEF ColdMade
<1>8. AureonInv'
  <2>1. masked \cap 0 .. 11 = {}
    BY <1>6 DEF Settled, AureonInv, BeforeCodecs
  <2>2. masked' \cap 0 .. 11 = {}
    BY <1>3, <2>1 DEF ColdMade
  <2>3. QED
    BY <1>5, <2>2 DEF AureonInv
<1>9. QED
  BY <1>3, <1>5, <1>7, <1>8, AureonNoBus DEF Kept, Settled, ColdMade

\* The reset of the serial codecs.
LEMMA ResetKept ==
    ASSUME TypeInv, card = "AureonSpace", card \in OnGpio, Settled, pc = "gpio",
           call.chip = "codecs", NEW F, NEW a, Accessed(F, a)
    PROVE  Kept(a)
<1>1. ~OnSerial
  BY AureonOffSerial
<1>2. Still /\ CallsInOrder
  BY <1>1, OffSerial
<1>3. CodecsNow
  BY DEF Settled, AureonInv
<1>4. ResetMade(a)
  BY <1>2, <1>3, ResetAccess
<1>5. Proceeds
  BY <1>2, AccessProceeds
<1>6. /\ card' = card /\ at' = at /\ Registers' /\ CallsInOrder'
      /\ pc' = "gpio" => call' = call /\ n < Len(Frame(card, call))
      /\ pc' # "gpio" => ~(n < Len(Frame(card, call)))
  BY <1>5, SameCall DEF Proceeds
<1>7. at = CodecsAt(card) + 1 /\ CodecsAt(card) \in Nat /\ CodecsAt(card) >= 3
  BY <1>2, AureonPlace
<1>8. SerialInv'
  <2>1. pc' = "gpio" => ~Prepared'
    BY <1>6, <1>7 DEF Prepared, PastCodecs, CodecsAt
  <2>2. pc' # "gpio" => Up(card)' \subseteq pins'
    BY <1>4, <1>6 DEF ResetMade, Up
  <2>3. QED
    BY <1>1, <1>4, <1>5, <2>1, <2>2, StillSerial DEF ResetMade
<1>9. AureonInv'
  <2>1. ~BeforeCodecs'
    BY <1>6, <1>7 DEF BeforeCodecs, CodecsAt
  <2>2. pc' = "gpio" => CodecsNow'
    BY <1>4, <1>6 DEF ResetMade
  <2>3. QED
    BY <1>6, <2>1, <2>2 DEF AureonInv
<1>10. QED
  BY <1>4, <1>6, <1>8, <1>9, AureonNoBus DEF Kept, Settled, ResetMade

\* A write to the AC'97 codec.
LEMMA AC97Kept ==
    ASSUME TypeInv, card = "AureonSpace", card \in OnGpio, Settled, pc = "gpio",
           call.chip = "AC97", NEW F, NEW a, Accessed(F, a)
    PROVE  Kept(a)
<1>1. ~OnSerial
  BY AureonOffSerial
<1>2. Still /\ CallsInOrder
  BY <1>1, OffSerial
<1>3. at \in 3 .. CodecsAt(card) /\ CodecsAt(card) \in Nat
  BY <1>2, AureonPlace
<1>4. masked \cap 0 .. 11 = {}
  BY <1>3 DEF Settled, AureonInv, BeforeCodecs
<1>5. PICK reg, value : reg = call.reg /\ value = call.data
  OBVIOUS
<1>6. reg \in 0 .. 127 /\ value \in Words16 /\ call = Call("AC97", reg, value)
  <2>1. card \in Cards /\ call \in CallsOf[card]
    BY DEF TypeInv, ThreadTyped
  <2>2. GpioCall(card, call) /\ call = Call(call.chip, call.reg, call.data)
    BY <2>1, GpioCalls, CallIs
  <2>3. call.chip \notin StepsOf[card] /\ call.chip \notin ChipsWired[card]
    BY DEF StepsOf, ChipsWired
  <2>4. call.reg \in 0 .. 127 /\ call.data \in Words16
    BY <2>2, <2>3, Zenon DEF GpioCall
  <2>5. QED
    BY <1>5, <2>2, <2>4
<1>7. PICK low, high : SplitUp(value, low, high)
  BY DEF SplitUp
<1>8. AC97Now(reg, low, high)
  BY <1>5, <1>7, Zenon DEF Settled, AureonInv
<1>9. AC97Made(a, reg, low, high)
  BY <1>2, <1>4, <1>6, <1>7, <1>8, AC97Access
<1>10. Proceeds
  BY <1>2, AccessProceeds
<1>11. /\ card' = card /\ at' = at /\ Registers' /\ CallsInOrder'
       /\ pc' = "gpio" => call' = call /\ n < Len(Frame(card, call))
  BY <1>10, SameCall DEF Proceeds
<1>12. SerialInv'
  <2>1. ~Prepared'
    BY <1>3, <1>11 DEF Prepared, PastCodecs, CodecsAt
  <2>2. QED
    BY <1>1, <1>9, <1>10, <2>1, StillSerial DEF AC97Made
<1>13. AureonInv'
  <2>1. masked' \cap 0 .. 11 = {}
    BY <1>4, <1>9 DEF AC97Made
  <2>2. ASSUME pc' = "gpio", NEW low2, NEW high2, SplitUp(call'.data, low2, high2)
        PROVE  AC97Now(call.reg, low2, high2)'
    <3>1. call' = call /\ n < Len(Frame(card, call))
      BY <1>11, <2>2
    <3>2. AC97Now(reg, low, high)'
      BY <1>9, <3>1 DEF AC97Made
    <3>3. low2 = low /\ high2 = high /\ call'.reg = reg
      BY <1>5, <1>7, <2>2, <3>1 DEF SplitUp
    <3>4. QED
      BY <3>2, <3>3
  <2>3. pc' = "gpio" => call'.chip # "codecs"
    BY <1>11
  <2>4. QED
    BY <2>1, <2>2, <2>3 DEF AureonInv, SplitUp
<1>14. QED
  BY <1>9, <1>11, <1>12, <1>13, AureonNoBus DEF Kept, Settled, AC97Made

\* A write to the PT2258.
LEMMA MessageKept ==
    ASSUME TypeInv, card = "Revo51", card \in OnGpio, Settled, OnMessage,
           NEW F, NEW a, Accessed(F, a)
    PROVE  Kept(a)
<1>1. ~OnSerial /\ pc = "gpio" /\ call.chip = "PT2258"
  BY SerialIs DEF OnSerial, OnMessage, ChipsWired
<1>2. Still /\ CallsInOrder /\ PastBoot /\ (Prepared => Up(card) \subseteq pins)
  BY <1>1, OffSerial
<1>3. Up(card) \subseteq pins
  BY <1>2 DEF Prepared
<1>4. PICK message : message = call.data
  OBVIOUS
<1>5. MessageNow(message)
  BY <1>4 DEF Settled, BusInv
<1>6. MaskSaved
  BY <1>1, <1>2, Zenon DEF Settled, MaskInv, OnTheBus, MaskSaved
<1>7. MessageDone(message, a)
  BY <1>1, <1>2, <1>3, <1>4, <1>5, <1>6, MessageAccess
<1>8. Proceeds /\ n \in Nat
  BY <1>1, <1>2, AccessProceeds
<1>9. /\ card' = card /\ at' = at /\ Registers' /\ CallsInOrder'
      /\ pc' = "gpio" => call' = call /\ n < Len(Frame(card, call)) /\ n' = n + 1
      /\ pc' # "gpio" => ~(n < Len(Frame(card, call)))
  BY <1>1, <1>8, SameCall DEF Proceeds
<1>10. n >= 1
  BY DEF Accessed
<1>11. SerialInv'
  <2>1. Up(card)' \subseteq pins'
    BY <1>7, <1>9 DEF MessageDone
  <2>2. QED
    BY <1>1, <1>7, <1>8, <2>1, StillSerial DEF MessageDone
<1>12. MaskInv'
  <2>1. CASE pc' = "gpio"
    <3>1. OnTheBus'
      BY <1>1, <1>8, <1>9, <1>10, <2>1 DEF OnTheBus
    <3>2. Usable(saved.masked, saved.dir)'
      BY <1>7, <1>9, <2>1 DEF MessageDone
    <3>3. QED
      BY <3>1, <3>2 DEF MaskInv
  <2>2. CASE pc' # "gpio"
    <3>1. ~OnTheBus'
      BY <2>2 DEF OnTheBus
    <3>2. Usable(masked, dir)'
      BY <1>7, <1>9, <2>2 DEF MessageDone
    <3>3. QED
      BY <3>1, <3>2 DEF MaskInv
  <2>3. QED
    BY <2>1, <2>2
<1>13. AureonInv'
  BY <1>9 DEF AureonInv
<1>14. BusInv'
  <2>1. CASE pc' = "gpio"
    <3>1. MessageNow(message)' /\ call' = call
      BY <1>7, <1>9, <2>1 DEF MessageDone
    <3>2. MessageNow(call.data)'
      BY <1>4, <3>1
    <3>3. OnMessage'
      BY <1>1, <2>1, <3>1 DEF OnMessage
    <3>4. QED
      BY <3>2, <3>3, Zenon DEF BusInv
  <2>2. CASE pc' # "gpio"
    <3>1. ~OnMessage' /\ bus' = Quiet
      BY <1>7, <1>9, <2>2 DEF MessageDone, OnMessage
    <3>2. QED
      BY <3>1 DEF BusInv
  <2>3. QED
    BY <2>1, <2>2
<1>15. QED
  BY <1>7, <1>9, <1>11, <1>12, <1>13, <1>14 DEF Kept, Settled, MessageDone

LEMMA AccessKept ==
    ASSUME TypeInv, card \in OnGpio, Settled, pc = "gpio", NEW F, NEW a, Accessed(F, a)
    PROVE  Kept(a)
<1>1. CallsInOrder
  BY DEF Settled
<1>2. Kinds
  BY <1>1, KindsAre
<1>3. CASE OnSerial
  BY <1>3, SerialKept
<1>4. CASE call.chip = "boot"
  BY <1>4, BootKept
<1>5. CASE call.chip \in Simple /\ card # "AureonSpace"
  BY <1>5, SimpleKept
<1>6. CASE card = "AureonSpace" /\ call.chip \in {"ac97", "AC97", "codecs"}
  BY <1>6, ColdKept, AC97Kept, ResetKept
<1>7. CASE card = "Revo51" /\ call.chip = "PT2258"
  BY <1>7, MessageKept DEF OnMessage
<1>8. QED
  BY <1>2, <1>3, <1>4, <1>5, <1>6, <1>7 DEF Kinds

-----------------------------------------------------------------------------
(* The steps that make no access *)

\* The first access of a frame is next.
LEMMA SerialBegins ==
    ASSUME card \in OnGpio, card' = card, UNCHANGED <<pins, masked, shift>>, Still,
           Up(card) \subseteq pins, Open(card) \cap masked = {}, n' = 1, ~latched',
           NEW chip, NEW w, NEW word, Serving(chip, w, word)'
    PROVE  SerialNow(chip, w, word)'
<1>1. Still'
  BY DEF Still, Serial
<1>2. /\ card \in GpioCards /\ chip \in Serial(card) /\ w = Wiring[card][chip] /\ SerialPort(w)
      /\ w.width \in {16, 24} /\ w.cif = (card = "Phase22") /\ word \in Nat /\ word < 2^w.width
  BY DEF Serving, Made, Serial
<1>3. Last(w) \in Nat
  BY <1>2 DEF Last
<1>4. CASE card # "Phase22"
  <2>1. Lead(card) \in {1, 3}
    BY <1>2, <1>4 DEF Lead
  <2>2. Sent' < 0 /\ ~(Sent' \in 0 .. Last(w)) /\ ~(Sent' > Last(w))
    BY <1>3, <2>1 DEF Sent
  <2>3. Leading'
    BY <1>1 DEF Leading, Still
  <2>4. QED
    BY <2>2, <2>3 DEF SerialNow
<1>5. CASE card = "Phase22"
  <2>1. w.cs = 10 /\ w.clk = 5 /\ w.data = 4
    BY <1>2, <1>5, PinsAre
  <2>2. ({w.cs, w.clk, w.data} \cap masked = {})'
    BY <1>5, <2>1 DEF Open
  <2>3. \A k \in Serial(card') \ {chip} : Wiring[card'][k].cs \in pins'
    BY <1>2, <1>5, SerialIs DEF ChipsWired
  <2>4. Taking(chip, w, word, 0)'
    BY <1>1, <1>2, <1>5, <2>2, <2>3, WordBegins
  <2>5. Sent' = 0
    BY <1>5 DEF Sent, Lead
  <2>6. Taking(chip, w, word, Sent)' /\ ~(Sent' < 0) /\ ~(Sent' > Last(w))
    BY <1>3, <2>4, <2>5
  <2>7. QED
    BY <2>6 DEF SerialNow
<1>6. QED
  BY <1>4, <1>5

\* A call begins, which is made when it can be.
Timely(w) ==
    /\ w.chip # "boot" => PastBoot
    /\ w.chip \in Serial(card) => Prepared
    /\ PastBoot' => PastBoot
    /\ Prepared' => Prepared
    /\ card = "AureonSpace" /\ BeforeCodecs' => BeforeCodecs

LEMMA EnterSettled ==
    ASSUME card \in OnGpio, Settled, pc = "idle", NEW w, Enter(w), Timely(w), CallsInOrder'
    PROVE  Settled'
<1>1. /\ call' = w /\ pc' = "gpio" /\ n' = 1 /\ ~latched' /\ card' = card
      /\ UNCHANGED <<pins, dir, masked, saved, shift, latches, bus, regs>>
  BY DEF Enter
<1>2. ~OnSerial /\ ~OnTheBus /\ ~OnMessage /\ ~OnTheBus'
  BY <1>1 DEF OnSerial, OnTheBus, OnMessage
<1>3. Still /\ (Prepared => Up(card) \subseteq pins)
  BY <1>2 DEF Settled, SerialInv
<1>4. PastBoot => Usable(masked, dir)
  BY <1>2 DEF Settled, MaskInv
<1>5. Registers'
  BY <1>1 DEF Settled, Registers
<1>6. SerialInv'
  <2>1. CASE OnSerial'
    <3>1. w.chip \in Serial(card)
      BY <1>1, <2>1 DEF OnSerial, Serial
    <3>2. w.chip # "boot"
      BY <3>1, SerialIs, GpioCardsAre DEF ChipsWired, GpioCards
    <3>3. Up(card) \subseteq pins /\ Open(card) \cap masked = {}
      BY <1>3, <1>4, <3>1, <3>2 DEF Timely, Usable
    <3>4. \A chip, W, word : Serving(chip, W, word)' => SerialNow(chip, W, word)'
      BY <1>1, <1>3, <3>3, SerialBegins
    <3>5. QED
      BY <2>1, <3>4, Zenon DEF SerialInv
  <2>2. CASE ~OnSerial'
    <3>1. Still'
      BY <1>1, <1>3 DEF Still, Serial
    <3>2. Prepared' => Up(card)' \subseteq pins'
      BY <1>1, <1>3 DEF Timely
    <3>3. QED
      BY <2>2, <3>1, <3>2 DEF SerialInv
  <2>3. QED
    BY <2>1, <2>2
<1>7. MaskInv'
  <2>1. PastBoot' => Usable(masked, dir)'
    BY <1>1, <1>4 DEF Timely, Usable
  <2>2. QED
    BY <1>2, <2>1 DEF MaskInv
<1>8. AureonInv'
  <2>1. SUFFICES ASSUME card' = "AureonSpace"
                 PROVE  /\ BeforeCodecs' => masked' \cap 0 .. 11 = {}
                        /\ CodecsNow'
                        /\ \A low, high : AC97Now(w.reg, low, high)'
    BY <1>1 DEF AureonInv
  <2>2. BeforeCodecs' => masked' \cap 0 .. 11 = {}
    BY <1>1, <2>1 DEF Timely, Settled, AureonInv
  <2>3. CodecsNow'
    BY <1>1 DEF CodecsNow
  <2>4. \A low, high : AC97Now(w.reg, low, high)'
    BY <1>1 DEF AC97Now
  <2>5. QED
    BY <2>2, <2>3, <2>4
<1>9. BusInv'
  <2>1. SUFFICES ASSUME card' = "Revo51"
                 PROVE  IF OnMessage' THEN MessageNow(call.data)' ELSE bus' = Quiet
    BY DEF BusInv
  <2>2. bus = Quiet
    BY <1>1, <1>2, <2>1 DEF Settled, BusInv
  <2>3. CASE OnMessage'
    <3>1. w.chip = "PT2258"
      BY <1>1, <2>3 DEF OnMessage
    <3>2. {6, 7} \subseteq dir
      BY <1>1, <1>4, <2>1, <3>1 DEF Timely, Usable
    <3>3. PICK message, one : message = w.data /\ one = 1
      OBVIOUS
    <3>4. StartNow(one)'
      BY <1>1, <2>2, <3>2, <3>3 DEF StartNow
    <3>5. MessageAt(message, one)'
      BY <3>3, <3>4 DEF MessageAt
    <3>6. MessageAt(message, n)'
      BY <1>1, <3>3, <3>5
    <3>7. one # MessageLength(message)
      BY <3>3 DEF MessageLength, LastByte
    <3>8. MessageNow(message)'
      BY <1>1, <3>3, <3>6, <3>7 DEF MessageNow
    <3>9. MessageNow(call.data)'
      BY <1>1, <3>3, <3>8
    <3>10. QED
      BY <2>3, <3>9
  <2>4. CASE ~OnMessage'
    BY <1>1, <2>2, <2>4
  <2>5. QED
    BY <2>3, <2>4
<1>10. QED
  BY <1>5, <1>6, <1>7, <1>8, <1>9 DEF Settled

\* Between calls, card_init begins or returns.
LEMMA NoCallSettled ==
    ASSUME Settled, pc = "idle", pc' = "idle",
           UNCHANGED <<card, pins, dir, masked, saved, shift, bus, regs>>,
           Prepared' => Prepared, PastBoot' => PastBoot,
           card = "AureonSpace" /\ BeforeCodecs' => BeforeCodecs
    PROVE  Settled'
<1>1. /\ ~OnSerial /\ ~OnTheBus /\ ~OnMessage
      /\ ~OnSerial' /\ ~OnTheBus' /\ ~OnMessage'
  BY DEF OnSerial, OnTheBus, OnMessage
<1>2. Registers' /\ CallsInOrder'
  BY DEF Settled, Registers, CallsInOrder
<1>3. SerialInv'
  BY <1>1 DEF Settled, SerialInv, Still, Serial
<1>4. MaskInv'
  BY <1>1 DEF Settled, MaskInv, Usable
<1>5. AureonInv'
  BY DEF Settled, AureonInv
<1>6. BusInv'
  BY <1>1 DEF Settled, BusInv
<1>7. QED
  BY <1>2, <1>3, <1>4, <1>5, <1>6 DEF Settled

LEMMA RequestSettled ==
    ASSUME TypeInv, card \in OnGpio, Settled, NEW w \in WritesOf(card), Request(w)
    PROVE  Settled'
<1>1. at = 0 /\ at' = 0 /\ pc = "idle" /\ Enter(w) /\ call' = w /\ card' = card
  BY DEF Request, Enter, init
<1>2. CallsInOrder'
  BY <1>1 DEF CallsInOrder
<1>3. PastBoot /\ Prepared /\ ~BeforeCodecs'
  BY <1>1 DEF PastBoot, Prepared, PastCodecs, BeforeCodecs, CodecsAt
<1>4. Timely(w)
  BY <1>3 DEF Timely
<1>5. QED
  BY <1>1, <1>2, <1>4, EnterSettled

\* card_init's calls come in the order in which they can be made.
LEMMA OtherCalls ==
    ASSUME card \in Cards, card \in OnGpio, card # "AureonSpace", pc = "idle",
           at \in 1 .. Len(SetUp[card]), at' = at + 1, pc' = "gpio", card' = card
    PROVE  Timely(SetUp[card][at])
<1>1. StartsWithBoot(SetUp[card])
  BY FirstIsBoot
<1>2. at \in Nat /\ at >= 1 /\ (at = 1 => SetUp[card][at].chip = "boot")
  BY <1>1 DEF StartsWithBoot
<1>3. "boot" \notin Serial(card)
  BY SerialIs, GpioCardsAre DEF ChipsWired, GpioCards
<1>4. at # 1 => PastBoot
  BY <1>2 DEF PastBoot
<1>5. PastBoot' => at # 1
  BY <1>2 DEF PastBoot
<1>6. QED
  BY <1>2, <1>3, <1>4, <1>5 DEF Timely, Prepared

LEMMA AureonInOrder ==
    ASSUME card \in Cards, card \in OnGpio, card = "AureonSpace", pc = "idle",
           at \in 1 .. Len(SetUp[card]), at' = at + 1, pc' = "gpio", card' = card
    PROVE  Timely(SetUp[card][at])
<1>1. PICK u : /\ u = CodecsAt(card) /\ u \in Nat /\ u >= 3
               /\ Arranged(SetUp[card], FitCalls(card), u, "codecs",
                           {"ac97", "AC97"}, {"Aureon", "CS8415"})
  <2>1. SetUp[card] = AureonSetUp(card)
    BY SetUpsAre
  <2>2. QED
    BY <2>1, AureonArranged
<1>2. CodecsAt(card)' = u
  BY <1>1 DEF CodecsAt
<1>3. at \in Nat /\ at >= 1
  OBVIOUS
<1>4. /\ at = 1 => SetUp[card][at].chip = "boot"
      /\ at \in 2 .. u - 1 => SetUp[card][at].chip \in {"ac97", "AC97"}
      /\ at = u => SetUp[card][at].chip = "codecs"
  BY <1>1 DEF Arranged, ChipsIn
<1>5. at < 2 \/ at \in 2 .. u - 1 \/ at = u \/ at >= u + 1
  BY <1>1, <1>3
<1>6. Serial(card) = {"Aureon", "CS8415"}
  BY SerialIs DEF ChipsWired
<1>7. at # 1 => PastBoot
  BY <1>3 DEF PastBoot
<1>8. at >= u + 1 => Prepared
  BY <1>1, <1>3 DEF Prepared, PastCodecs
<1>9. SetUp[card][at].chip \in Serial(card) => at >= u + 1
  BY <1>3, <1>4, <1>5, <1>6
<1>10. PastBoot' => at # 1
  BY <1>3 DEF PastBoot
<1>11. Prepared' => at >= u + 1
  <2>1. at' # 0 /\ pc' # "idle"
    BY <1>3
  <2>2. Prepared' => at' > u + 1
    BY <1>2, <2>1 DEF Prepared, PastCodecs
  <2>3. QED
    BY <1>1, <1>3, <2>2
<1>12. BeforeCodecs' => BeforeCodecs
  <2>1. SUFFICES ASSUME at' \in 3 .. u
                 PROVE  BeforeCodecs
    BY <1>2 DEF BeforeCodecs
  <2>2. at = 2 \/ at \in 3 .. u
    BY <1>1, <1>3, <2>1
  <2>3. QED
    BY <1>1, <2>2 DEF BeforeCodecs
<1>13. QED
  BY <1>3, <1>4, <1>7, <1>8, <1>9, <1>10, <1>11, <1>12 DEF Timely

LEMMA SetUpCallSettled ==
    ASSUME TypeInv, card \in OnGpio, Settled, SetUpCall
    PROVE  Settled'
<1>1. PICK w : w = SetUp[card][at]
  OBVIOUS
<1>2. /\ pc = "idle" /\ at \in DOMAIN SetUp[card] /\ at' = at + 1 /\ Enter(w)
      /\ call' = w /\ card' = card /\ pc' = "gpio" /\ card \in Cards
  BY <1>1 DEF SetUpCall, Enter, TypeInv, ThreadTyped
<1>3. at \in 1 .. Len(SetUp[card]) /\ Len(SetUp[card]) \in Nat
  BY <1>2, SetUpCalls
<1>4. CallsInOrder'
  <2>1. at \in Nat /\ at >= 1 /\ at' - 1 = at
    BY <1>2, <1>3
  <2>2. at' > 1 /\ at' # 0 /\ call' = SetUp[card'][at' - 1]
    BY <1>1, <1>2, <2>1
  <2>3. QED
    BY <2>2 DEF CallsInOrder
<1>5. Timely(w)
  BY <1>1, <1>2, <1>3, OtherCalls, AureonInOrder
<1>6. QED
  BY <1>2, <1>4, <1>5, EnterSettled

\* card_init, on a card that is not given up, returns after its last call.
LEMMA SetUpReturnsSettled ==
    ASSUME TypeInv, card \in OnGpio, Settled, SetUpReturns
    PROVE  Settled'
<1>1. /\ pc = "idle" /\ at # 0 /\ at' = 0 /\ pc' = "idle"
      /\ UNCHANGED <<card, pins, dir, masked, saved, shift, bus, regs>>
      /\ card \in Cards /\ ~misread
  BY DEF SetUpReturns, gpio, TypeInv, ThreadTyped
<1>2. at = Len(SetUp[card]) + 1
  BY <1>1 DEF SetUpReturns
<1>3. StartsWithBoot(SetUp[card])
  BY <1>1, FirstIsBoot
<1>4. Len(SetUp[card]) \in Nat /\ Len(SetUp[card]) >= 1
  BY <1>3 DEF StartsWithBoot
<1>5. PastBoot
  BY <1>1, <1>2, <1>4 DEF PastBoot
<1>6. card = "AureonSpace" => PastCodecs
  <2>1. SUFFICES ASSUME card = "AureonSpace"
                 PROVE  PastCodecs
    OBVIOUS
  <2>2. CodecsAt(card) \in Nat /\ CodecsAt(card) <= Len(SetUp[card])
    <3>1. SetUp[card] = AureonSetUp(card)
      BY <1>1, <2>1, SetUpsAre
    <3>2. PICK u : /\ u = CodecsAt(card) /\ u \in Nat
                   /\ Arranged(SetUp[card], FitCalls(card), u, "codecs",
                               {"ac97", "AC97"}, {"Aureon", "CS8415"})
      BY <1>1, <2>1, <3>1, AureonArranged
    <3>3. u \in 2 .. Len(SetUp[card])
      BY <3>2 DEF Arranged
    <3>4. QED
      BY <1>4, <3>2, <3>3
  <2>3. QED
    BY <1>1, <1>2, <1>4, <2>2 DEF PastCodecs
<1>7. Prepared
  BY <1>5, <1>6 DEF Prepared
<1>8. card = "AureonSpace" => ~BeforeCodecs'
  BY <1>1 DEF BeforeCodecs, CodecsAt
<1>9. QED
  BY <1>1, <1>5, <1>7, <1>8, NoCallSettled

LEMMA WakeSettled ==
    ASSUME TypeInv, card \in OnGpio, Settled, Wake
    PROVE  Settled'
<1>1. /\ pc = "idle" /\ at = 0 /\ at' = 1 /\ pc' = "idle"
      /\ UNCHANGED <<card, pins, dir, masked, saved, shift, bus, regs>>
      /\ card \in Cards
  BY DEF Wake, gpio, TypeInv, ThreadTyped
<1>2. PastBoot /\ ~PastBoot' /\ Prepared
  BY <1>1 DEF PastBoot, Prepared, PastCodecs
<1>3. card = "AureonSpace" => ~BeforeCodecs'
  BY <1>1 DEF BeforeCodecs, CodecsAt
<1>4. QED
  BY <1>1, <1>2, <1>3, NoCallSettled

\* Nothing changes.
LEMMA SerialRemains ==
    ASSUME SerialInv, UNCHANGED vars
    PROVE  SerialInv'
<1>1. UNCHANGED <<card, at, call, pc, n, pins, dir, masked, saved, shift, latches, bus, latched, regs>>
  BY DEF vars, init, gpio
<1>2. ASSUME NEW chip, NEW w, NEW word
      PROVE  /\ Serving(chip, w, word)' = Serving(chip, w, word)
             /\ SerialNow(chip, w, word)' = SerialNow(chip, w, word)
  <2>1. Serving(chip, w, word)' = Serving(chip, w, word)
    BY <1>1 DEF Serving, Serial
  <2>2. SerialNow(chip, w, word)' = SerialNow(chip, w, word)
    BY <1>1 DEF SerialNow, Sent, Lead, Leading, Taking, Landed, Still, Deselected, Serial
  <2>3. QED
    BY <2>1, <2>2
<1>3. QED
  BY <1>1, <1>2 DEF SerialInv, OnSerial, Still, Prepared, PastBoot, PastCodecs, CodecsAt, Serial, Up

LEMMA BusRemains ==
    ASSUME BusInv, UNCHANGED vars
    PROVE  BusInv'
<1>1. UNCHANGED <<card, call, pc, n, pins, dir, bus, latched>>
  BY DEF vars, init, gpio
<1>2. ASSUME NEW message
      PROVE  MessageNow(message)' = MessageNow(message)
  BY <1>1 DEF MessageNow, MessageAt, StartNow, StopNow, ByteNow, BusFree, Clear, Ready, High, Pulling
<1>3. QED
  BY <1>1, <1>2 DEF BusInv, OnMessage

LEMMA SettledRemains ==
    ASSUME Settled, UNCHANGED vars
    PROVE  Settled'
<1>1. UNCHANGED <<card, at, call, pc, n, pins, dir, masked, saved, shift, latches, bus, latched, regs>>
  BY DEF vars, init, gpio
<1>2. Registers' /\ CallsInOrder'
  BY <1>1 DEF Settled, Registers, CallsInOrder
<1>3. MaskInv'
  BY <1>1 DEF Settled, MaskInv, PastBoot, OnTheBus, Usable, Open
<1>4. AureonInv'
  BY <1>1 DEF Settled, AureonInv, BeforeCodecs, CodecsAt, CodecsNow, AC97Now, Shown
<1>5. SerialInv' /\ BusInv'
  BY SerialRemains, BusRemains DEF Settled
<1>6. QED
  BY <1>2, <1>3, <1>4, <1>5 DEF Settled

\* These cards do not use the I2C controller.
LEMMA NoController ==
    ASSUME TypeInv, card \in OnGpio
    PROVE  /\ ~Poll /\ ~WriteAddr /\ ~WriteData /\ ~WriteDevice /\ ~ReadValue /\ ~Transferred
<1>1. pc \in {"idle", "gpio"} /\ transfer = None
  BY DEF TypeInv, ThreadTyped
<1>2. QED
  BY <1>1 DEF Poll, WriteAddr, WriteData, WriteDevice, ReadValue, Transferred, AfterWait

\* Every step of a card on GPIO pins keeps what holds, and is one of the
\* specification's or none.
LEMMA GpioStep ==
    ASSUME TypeInv, card \in OnGpio, Settled, [Next]_vars
    PROVE  Settled' /\ [Expected!Next]_(Expected!vars)
<1>1. ASSUME NEW w \in WritesOf(card), Request(w)
      PROVE  Settled' /\ [Expected!Next]_(Expected!vars)
  <2>1. w \in CallsOf[card] /\ pc = "idle" /\ Enter(w)
    BY <1>1, SetUpCalls DEF Request, TypeInv, ThreadTyped
  <2>2. QED
    BY <1>1, <2>1, EnterRefines, RequestSettled
<1>2. CASE SetUpCall
  <2>1. PICK w : w = SetUp[card][at]
    OBVIOUS
  <2>2. w \in CallsOf[card] /\ pc = "idle" /\ Enter(w)
    BY <1>2, <2>1, SetUpCalls DEF SetUpCall, TypeInv, ThreadTyped
  <2>3. QED
    BY <1>2, <2>2, EnterRefines, SetUpCallSettled
<1>3. CASE WriteGpio
  <2>1. pc = "gpio" /\ \E F : \E a \in Accesses : Accessed(F, a)
    BY <1>3, WriteGpioIs
  <2>2. PICK F, a : Accessed(F, a)
    BY <2>1
  <2>3. Kept(a)
    BY <2>1, <2>2, AccessKept
  <2>4. Delivers(a) /\ Settled' /\ Registers
    BY <2>3 DEF Kept, Settled
  <2>5. QED
    BY <2>1, <2>2, <2>4, AccessRefines
<1>4. CASE SetUpReturns
  BY <1>4, SetUpReturnsSettled, OthersRefine
<1>5. CASE Wake
  BY <1>5, WakeSettled, OthersRefine
<1>6. CASE UNCHANGED vars
  BY <1>6, SettledRemains, OthersRefine
<1>7. QED
  BY <1>1, <1>2, <1>3, <1>4, <1>5, <1>6, NoController DEF Next, ThreadStep

LEMMA GpioInit ==
    ASSUME Init, card \in OnGpio
    PROVE  Settled
<1>1. /\ card \in Cards /\ at = 1 /\ pc = "idle" /\ bus = Quiet
      /\ shift = [c \in Serial(card) |-> NoBits]
  BY DEF Init
<1>2. ~PastBoot
  BY <1>1 DEF PastBoot
<1>3. card = "AureonSpace" => ~PastCodecs /\ ~BeforeCodecs
  <2>1. SUFFICES ASSUME card = "AureonSpace"
                 PROVE  ~PastCodecs /\ ~BeforeCodecs
    OBVIOUS
  <2>2. CodecsAt(card) \in Nat /\ CodecsAt(card) >= 3
    BY <1>1, <2>1, AureonArranged
  <2>3. QED
    BY <1>1, <2>2 DEF PastCodecs, BeforeCodecs
<1>4. Registers
  BY DEF Init, Registers
<1>5. CallsInOrder
  BY <1>1 DEF CallsInOrder
<1>6. SerialInv
  BY <1>1, <1>2, <1>3 DEF SerialInv, OnSerial, Still, Prepared
<1>7. MaskInv
  BY <1>2 DEF MaskInv
<1>8. AureonInv
  BY <1>1, <1>3 DEF AureonInv
<1>9. BusInv
  BY <1>1 DEF BusInv, OnMessage
<1>10. QED
  BY <1>4, <1>5, <1>6, <1>7, <1>8, <1>9 DEF Settled

-----------------------------------------------------------------------------
(* The theorem *)

LEMMA WritesStep ==
    ASSUME TypeInv, ControllerInv, GpioInv, [Next]_vars
    PROVE  /\ TypeInv' /\ ControllerInv' /\ GpioInv'
           /\ [Expected!Next]_(Expected!vars)
<1>1. card' = card
  BY DEF Next, ThreadStep, Request, Enter, Wake, SetUpCall, SetUpReturns, WriteGpio, Poll,
     WriteAddr, WriteData, WriteDevice, ReadValue, Transferred, vars
<1>2. TypeInv' /\ ControllerInv'
  BY TypeStep, ControllerStep
<1>3. CASE card \in OnGpio
  <2>1. Settled' /\ [Expected!Next]_(Expected!vars)
    BY <1>3, GpioStep DEF GpioInv
  <2>2. QED
    BY <1>2, <2>1 DEF GpioInv
<1>4. CASE card \notin OnGpio
  <2>1. [Expected!Next]_(Expected!vars)
    BY <1>4, ControllerRefines
  <2>2. GpioInv'
    BY <1>1, <1>4 DEF GpioInv
  <2>3. QED
    BY <1>2, <2>1, <2>2
<1>5. QED
  BY <1>3, <1>4

\* Whatever the card, its set-up tables and the mixer's writes; whatever the
\* codecs that share the pins, the pins' levels before, and however the I2C
\* controller's progress falls between the thread's steps, also at a wake while
\* a write of the mixer is still on its way: every write of card_init and of the
\* mixer lands once, unchanged and in order, in the register it is for and no
\* other; only after WaitForI2C gave up may one be lost, or another register of
\* a codec it is for be hit.
THEOREM EveryWriteReachesItsCodec == Spec => WritesReachTheCodecs
<1>1. Init => TypeInv /\ ControllerInv /\ GpioInv /\ Expected!Init
  BY InitTyped, InitRefines, GpioInit DEF Init, ControllerInv, Undisturbed, GpioInv
<1>2. TypeInv /\ ControllerInv /\ GpioInv /\ [Next]_vars
          => /\ (TypeInv /\ ControllerInv /\ GpioInv)'
             /\ [Expected!Next]_(Expected!vars)
  BY WritesStep
<1>3. QED
  BY <1>1, <1>2, PTL DEF Spec, WritesReachTheCodecs, Expected!Spec
=============================================================================
