---------------------------- MODULE DeviceProofs ----------------------------
(***************************************************************************)
(* Machine-checked proofs about the components next to the hardware and    *)
(* the firmware.  PL011: the driver waits before it stores, so that        *)
(* nothing is lost on the line.  Scanner: over any data, whatever calls    *)
(* were made and have failed, what was read is what is there.              *)
(* MemoryNodes: what set-up describes to the memory map is what the blob   *)
(* says, and it panics over a bad blob alone.  FdtNodes: a structure block *)
(* is accepted when it is whole, and the tree is what its text says.       *)
(***************************************************************************)
EXTENDS PL011, Scanner, MemoryNodes, FdtNodes, ListLemmas

-----------------------------------------------------------------------------
(* The inductive invariant.  Registers: what new and reset have brought    *)
(* about when the driver is at a step, the state the firmware left the     *)
(* device in being any.                                                    *)
Off == {"wait disabled", "flush", "divisors", "line control", "transmit", "enable"}
Drained == Off \ {"wait disabled"}
Unbuffered == Drained \ {"flush"}
Divided == Unbuffered \ {"divisors"}
Configured == Divided \ {"line control"}
Sending == {"idle", "wait", "byte", "wait return", "newline"}

Registers ==
  /\ pc \in {"new", "disable"} \cup Off \cup Sending
  /\ pc \in Off => ~ enabled
  /\ pc \in Drained \cup {"idle", "byte", "newline"} => fifo = <<>> /\ shift = <<>>
  /\ pc \in Unbuffered \cup Sending => ~ fifoEnabled
  /\ pc \in Divided \cup Sending => divisors = CalculateDivisors
  /\ pc \in Configured \cup Sending => format = Format /\ latched = divisors
  /\ pc \in Sending => enabled /\ transmit

(* What the driver has still to store: the rest of a message, from the     *)
(* newline on if its carriage return is out already, and the newline of    *)
(* log itself.                                                             *)
Newline == IF newline THEN Expand(<<"\n">>) ELSE <<>>
Pending ==
  IF pc \in {"wait return", "newline"} THEN <<"\n">> \o Expand(Tail(rest)) \o Newline
  ELSE Expand(rest) \o Newline

Progress ==
  /\ leftover \in Seq(Characters)
  /\ logged \in Seq(Seq(Characters))
  /\ pc \notin Sending => logged = <<>>
  /\ pc \notin Sending \ {"idle"} => rest = <<>> /\ ~ newline
  /\ pc \in {"wait return", "newline"} => rest # <<>> /\ Head(rest) = "\n"
  /\ Out \o Pending = Text

(* The inductive invariant.                                                *)
DriverInv == TypeOK /\ Registers /\ Progress
-----------------------------------------------------------------------------
(* The bytes for a message.                                                *)

(* How a character is sent: a newline is preceded by a carriage return.    *)
WireBytes(c) == IF c = "\n" THEN <<"\r", "\n">> ELSE <<c>>

(* A character is sent as one or two characters.                           *)
LEMMA WireBytesType ==
  ASSUME NEW c \in Characters
  PROVE  WireBytes(c) \in Seq(Characters)
<1>1. "\r" \in Characters /\ "\n" \in Characters
  BY DEF Characters
<1>2. <<c>> \in Seq(Characters) /\ <<"\r", "\n">> \in Seq(Characters)
  BY <1>1
<1>. QED
  BY <1>2, Zenon DEF WireBytes

(* Expanding two texts joined is joining their expansions.                 *)
LEMMA ExpandConcat ==
  ASSUME NEW a \in Seq(Characters), NEW b \in Seq(Characters)
  PROVE  /\ Expand(a) \in Seq(Characters)
         /\ Expand(a \o b) = Expand(a) \o Expand(b)
<1>. DEFINE each(m) == [i \in DOMAIN m |-> WireBytes(m[i])]
<1>1. \A m : Expand(m) = FlattenSeq(each(m))
  BY Zenon DEF Expand, WireBytes
<1>2. ASSUME NEW m \in Seq(Characters)
      PROVE  each(m) \in Seq(Seq(Characters)) /\ Len(each(m)) = Len(m)
  <2>1. \A i \in 1 .. Len(m) : WireBytes(m[i]) \in Seq(Characters)
    BY WireBytesType
  <2>2. DOMAIN m = 1 .. Len(m) /\ Len(m) \in Nat
    OBVIOUS
  <2>. QED
    BY <2>1, <2>2
<1>3. a \o b \in Seq(Characters)
  OBVIOUS
<1>4. each(a \o b) = each(a) \o each(b)
  <2>1. /\ each(a) \o each(b) \in Seq(Seq(Characters))
        /\ Len(each(a) \o each(b)) = Len(a) + Len(b)
        /\ Len(each(a \o b)) = Len(a) + Len(b)
        /\ each(a \o b) \in Seq(Seq(Characters))
    <3>1. Len(a \o b) = Len(a) + Len(b)
      OBVIOUS
    <3>2. each(a \o b) \in Seq(Seq(Characters)) /\ Len(each(a \o b)) = Len(a) + Len(b)
      BY <1>2, <1>3, <3>1
    <3>3. PICK x, y : x = each(a) /\ y = each(b)
      OBVIOUS
    <3>4. /\ x \in Seq(Seq(Characters)) /\ y \in Seq(Seq(Characters))
          /\ Len(x) = Len(a) /\ Len(y) = Len(b)
      BY <1>2, <3>3
    <3>5. x \o y \in Seq(Seq(Characters)) /\ Len(x \o y) = Len(a) + Len(b)
      <4>1. PICK S : S = Seq(Characters)
        OBVIOUS
      <4>2. x \in Seq(S) /\ y \in Seq(S)
        BY <3>4, <4>1, Zenon
      <4>3. x \o y \in Seq(S) /\ Len(x \o y) = Len(x) + Len(y)
        BY <4>2, ConcatProperties
      <4>. QED
        BY <3>4, <4>1, <4>3
    <3>. QED
      BY <3>2, <3>3, <3>5, Zenon
  <2>2. ASSUME NEW i \in 1 .. Len(a) + Len(b)
        PROVE  each(a \o b)[i] = (each(a) \o each(b))[i]
    <3>1. each(a \o b)[i] = WireBytes((a \o b)[i])
      OBVIOUS
    <3>2. CASE i <= Len(a)
      <4>1. (a \o b)[i] = a[i] /\ each(a)[i] = WireBytes(a[i])
        BY <3>2
      <4>2. (each(a) \o each(b))[i] = each(a)[i]
        <5>. HIDE DEF each
        <5>1. each(a) \in Seq(Seq(Characters)) /\ each(b) \in Seq(Seq(Characters))
          BY <1>2
        <5>. QED
          BY <1>2, <3>2, <5>1
      <4>. QED
        BY <3>1, <4>1, <4>2
    <3>3. CASE ~ (i <= Len(a))
      <4>0. i - Len(a) \in 1 .. Len(b)
        BY <3>3
      <4>1. (a \o b)[i] = b[i - Len(a)] /\ each(b)[i - Len(a)] = WireBytes(b[i - Len(a)])
        BY <3>3, <4>0
      <4>2. (each(a) \o each(b))[i] = each(b)[i - Len(a)]
        <5>. HIDE DEF each
        <5>1. each(a) \in Seq(Seq(Characters)) /\ each(b) \in Seq(Seq(Characters))
          BY <1>2
        <5>. QED
          BY <1>2, <3>3, <4>0, <5>1
      <4>. QED
        BY <3>1, <4>1, <4>2
    <3>. QED
      BY <3>2, <3>3
  <2>. HIDE DEF each
  <2>. QED
    BY <2>1, <2>2, SeqEqual
<1>5. each(a) \in Seq(Seq(Characters)) /\ each(b) \in Seq(Seq(Characters))
  BY <1>2
<1>. HIDE DEF each
<1>. QED
  BY <1>1, <1>4, <1>5, FlattenConcat

(* Expanding nothing, and one character.                                   *)
LEMMA ExpandOne ==
  /\ Expand(<<>>) = <<>>
  /\ \A c \in Characters : Expand(<<c>>) = WireBytes(c)
<1>1. Expand(<<>>) = <<>>
  <2>1. [i \in DOMAIN <<>> |-> IF <<>>[i] = "\n" THEN <<"\r", "\n">> ELSE <<<<>>[i]>>] = <<>>
    OBVIOUS
  <2>. QED
    BY <2>1 DEF Expand, FlattenSeq
<1>2. ASSUME NEW c \in Characters PROVE Expand(<<c>>) = WireBytes(c)
  <2>1. [i \in DOMAIN <<c>> |-> IF <<c>>[i] = "\n" THEN <<"\r", "\n">> ELSE <<<<c>>[i]>>]
          = <<WireBytes(c)>>
    BY DEF WireBytes
  <2>2. FlattenSeq(<<WireBytes(c)>>) = WireBytes(c)
    BY WireBytesType, FlattenOne
  <2>. QED
    BY <2>1, <2>2, Zenon DEF Expand
<1>. QED
  BY <1>1, <1>2

(* A message that is not empty is its first character and the others.      *)
LEMMA ExpandFirst ==
  ASSUME NEW m \in Seq(Characters), m # <<>>
  PROVE  /\ Head(m) \in Characters
         /\ Tail(m) \in Seq(Characters)
         /\ Expand(m) = WireBytes(Head(m)) \o Expand(Tail(m))
<1>1. /\ Head(m) \in Characters
      /\ Tail(m) \in Seq(Characters)
      /\ m = <<Head(m)>> \o Tail(m)
      /\ <<Head(m)>> \in Seq(Characters)
  BY HeadTailProperties
<1>2. Expand(<<Head(m)>> \o Tail(m)) = Expand(<<Head(m)>>) \o Expand(Tail(m))
  BY <1>1, ExpandConcat
<1>. QED
  BY <1>1, <1>2, ExpandOne

(* One more message is logged.                                             *)
Logged(ms) == FlattenSeq([i \in DOMAIN ms |-> Expand(Append(ms[i], "\n"))])

(* A message more is logged after the others, with its newline.            *)
LEMMA LoggedAppend ==
  ASSUME NEW ms \in Seq(Seq(Characters)), NEW m \in Seq(Characters)
  PROVE  /\ Logged(ms) \in Seq(Characters)
         /\ Logged(<<>>) = <<>>
         /\ Logged(Append(ms, m)) = Logged(ms) \o Expand(m) \o Expand(<<"\n">>)
<1>. DEFINE each(s) == [i \in DOMAIN s |-> Expand(Append(s[i], "\n"))]
<1>1. \A s : Logged(s) = FlattenSeq(each(s))
  BY Zenon DEF Logged
<1>2. "\n" \in Characters /\ <<"\n">> \in Seq(Characters)
  BY DEF Characters
<1>3. \A s \in Seq(Characters) :
        /\ Expand(Append(s, "\n")) \in Seq(Characters)
        /\ Expand(Append(s, "\n")) = Expand(s) \o Expand(<<"\n">>)
  <2>1. SUFFICES ASSUME NEW s \in Seq(Characters)
                 PROVE  /\ Expand(s \o <<"\n">>) \in Seq(Characters)
                        /\ Expand(s \o <<"\n">>) = Expand(s) \o Expand(<<"\n">>)
    <3>1. \A s \in Seq(Characters) : Append(s, "\n") = s \o <<"\n">>
      BY <1>2, AppendIsConcat
    <3>. QED
      BY <3>1, Zenon
  <2>2. s \o <<"\n">> \in Seq(Characters)
    BY <1>2
  <2>. QED
    BY <1>2, <2>2, ExpandConcat
<1>4. each(ms) \in Seq(Seq(Characters)) /\ Len(each(ms)) = Len(ms)
  <2>1. DOMAIN ms = 1 .. Len(ms) /\ Len(ms) \in Nat /\ \A i \in 1 .. Len(ms) : ms[i] \in Seq(Characters)
    OBVIOUS
  <2>. QED
    BY <1>3, <2>1
<1>5. PICK x : x = Expand(Append(m, "\n"))
  OBVIOUS
<1>6. each(Append(ms, m)) = Append(each(ms), x)
  <2>1. /\ Len(Append(ms, m)) = Len(ms) + 1 /\ Len(ms) \in Nat
        /\ DOMAIN Append(ms, m) = 1 .. Len(ms) + 1
        /\ DOMAIN ms = 1 .. Len(ms)
        /\ \A i \in 1 .. Len(ms) : Append(ms, m)[i] = ms[i]
        /\ Append(ms, m)[Len(ms) + 1] = m
    OBVIOUS
  <2>2. /\ DOMAIN Append(each(ms), x) = 1 .. Len(ms) + 1
        /\ \A i \in 1 .. Len(ms) : Append(each(ms), x)[i] = each(ms)[i]
        /\ Append(each(ms), x)[Len(ms) + 1] = x
        /\ Append(each(ms), x) = [i \in 1 .. Len(ms) + 1 |-> Append(each(ms), x)[i]]
    <3>1. x \in Seq(Characters)
      BY <1>3, <1>5
    <3>2. PICK e : e = each(ms)
      OBVIOUS
    <3>3. e \in Seq(Seq(Characters)) /\ Len(e) = Len(ms)
      BY <1>4, <3>2
    <3>4. /\ DOMAIN Append(e, x) = 1 .. Len(ms) + 1
          /\ \A i \in 1 .. Len(ms) : Append(e, x)[i] = e[i]
          /\ Append(e, x)[Len(ms) + 1] = x
          /\ Append(e, x) = [i \in 1 .. Len(ms) + 1 |-> Append(e, x)[i]]
      <4>1. PICK a : a = Append(e, x)
        OBVIOUS
      <4>2. /\ a \in Seq(Seq(Characters))
            /\ Len(a) = Len(ms) + 1
            /\ \A i \in 1 .. Len(ms) : a[i] = e[i]
            /\ a[Len(ms) + 1] = x
        BY <3>1, <3>3, <4>1, AppendProperties
      <4>3. DOMAIN a = 1 .. Len(ms) + 1 /\ a = [i \in 1 .. Len(ms) + 1 |-> a[i]]
        BY <4>2
      <4>. QED
        BY <4>1, <4>2, <4>3, Zenon
    <3>. QED
      BY <3>2, <3>4, Zenon
  <2>3. ASSUME NEW i \in 1 .. Len(ms) + 1
        PROVE  Expand(Append(Append(ms, m)[i], "\n")) = Append(each(ms), x)[i]
    <3>1. CASE i \in 1 .. Len(ms)
      BY <2>1, <2>2, <3>1
    <3>2. CASE i = Len(ms) + 1
      BY <1>5, <2>1, <2>2, <3>2, Zenon
    <3>. QED
      BY <2>1, <3>1, <3>2
  <2>. QED
    BY <2>1, <2>2, <2>3
<1>7. x \in Seq(Characters) /\ <<x>> \in Seq(Seq(Characters)) /\ FlattenSeq(<<x>>) = x
  BY <1>3, <1>5, FlattenOne
<1>8. Append(each(ms), x) = each(ms) \o <<x>>
  <2>. HIDE DEF each
  <2>. QED
    BY <1>4, <1>7, AppendIsConcat
<1>9. FlattenSeq(each(ms)) \in Seq(Characters)
  BY <1>4, FlattenConcat
<1>10. FlattenSeq(each(ms) \o <<x>>) = FlattenSeq(each(ms)) \o x
  <2>. HIDE DEF each
  <2>. QED
    BY <1>4, <1>7, FlattenConcat
<1>11. Logged(<<>>) = <<>>
  <2>1. each(<<>>) = <<>>
    OBVIOUS
  <2>. QED
    BY <1>1, <2>1 DEF FlattenSeq
<1>12. Logged(ms) \o x = Logged(ms) \o Expand(m) \o Expand(<<"\n">>)
  <2>1. x = Expand(m) \o Expand(<<"\n">>)
    BY <1>3, <1>5
  <2>2. Logged(ms) \in Seq(Characters) /\ Expand(m) \in Seq(Characters) /\ Expand(<<"\n">>) \in Seq(Characters)
    BY <1>1, <1>2, <1>9, ExpandConcat
  <2>3. \A u, v, w \in Seq(Characters) : (u \o v) \o w = u \o (v \o w)
    BY ConcatAssociative, SMTT(30)
  <2>. QED
    BY <2>1, <2>2, <2>3, Zenon
<1>. HIDE DEF each
<1>. QED
  BY <1>1, <1>6, <1>8, <1>9, <1>10, <1>11, <1>12

-----------------------------------------------------------------------------
(* The steps.                                                              *)

(* The FIFO, the shift register, the line and the rest of a message are    *)
(* sequences of characters, and so is all that leaves the device in this   *)
(* order.                                                                  *)
LEMMA TypeFacts ==
  ASSUME TypeOK
  PROVE  /\ fifo \in Seq(Characters) /\ shift \in Seq(Characters)
         /\ wire \in Seq(Characters) /\ rest \in Seq(Characters)
         /\ Out \in Seq(Characters)
<1>1. /\ fifo \in Seq(Characters) /\ shift \in Seq(Characters)
      /\ wire \in Seq(Characters) /\ rest \in Seq(Characters)
  BY Zenon DEF TypeOK
<1>2. wire \o shift \in Seq(Characters)
  BY <1>1
<1>. QED
  BY <1>1, <1>2, ConcatProperties DEF Out

(* What is still to be sent is text in every state of the driver.          *)
LEMMA PendingType ==
  ASSUME TypeOK
  PROVE  /\ Newline \in Seq(Characters)
         /\ Expand(rest) \in Seq(Characters)
         /\ pc \in {"wait return", "newline"} /\ rest # <<>>
              => Expand(Tail(rest)) \in Seq(Characters)
<1>1. <<"\n">> \in Seq(Characters) /\ <<>> \in Seq(Characters)
  BY DEF Characters
<1>2. rest \in Seq(Characters)
  BY TypeFacts
<1>3. rest # <<>> => Tail(rest) \in Seq(Characters)
  BY <1>2
<1>. QED
  BY <1>1, <1>2, <1>3, ExpandConcat DEF Newline

(* The text in terms of what was logged.                                   *)
LEMMA TextLogged ==
  Text = leftover \o Logged(logged)
BY Zenon DEF Text, Logged

(* The device sends, and the driver does not notice.                       *)
LEMMA TransmissionKeeps ==
  ASSUME DriverInv, Transmission
  PROVE  DriverInv'
<1>1. /\ fifo \in Seq(Characters) /\ shift \in Seq(Characters) /\ wire \in Seq(Characters)
      /\ Len(fifo) <= FifoDepth
  BY TypeFacts DEF DriverInv, TypeOK
<1>2. /\ UNCHANGED <<device, leftover, driver, logged>>
      /\ fifo # <<>> \/ shift # <<>>
  BY DEF Transmission, Load, ShiftOut
<1>3. /\ fifo' \in Seq(Characters) /\ shift' \in Seq(Characters) /\ wire' \in Seq(Characters)
      /\ Len(fifo') <= FifoDepth /\ Len(shift') <= 1
      /\ Out' = Out
  <2>1. CASE Load
    <3>1. PICK c, cs : c = Head(fifo) /\ cs = Tail(fifo)
      OBVIOUS
    <3>2. /\ c \in Characters /\ cs \in Seq(Characters) /\ Len(cs) <= FifoDepth
          /\ <<c>> \o cs = fifo
      <4>1. fifo # <<>>
        BY <2>1 DEF Load
      <4>. QED
        BY <1>1, <3>1, <4>1, PL011Assumption, HeadTailProperties, EmptySeq
    <3>3. /\ shift = <<>> /\ shift' = <<c>> /\ fifo' = cs /\ wire' = wire
      BY <2>1, <3>1 DEF Load
    <3>4. (wire \o <<c>>) \o cs = wire \o (<<c>> \o cs)
      <4>1. <<c>> \in Seq(Characters)
        BY <3>2
      <4>2. \A x, y, z \in Seq(Characters) : (x \o y) \o z = x \o (y \o z)
        BY ConcatAssociative
      <4>. QED
        BY <1>1, <3>2, <4>1, <4>2, SMTT(30)
    <3>5. Out' = (wire \o <<c>>) \o cs
      BY <3>3 DEF Out
    <3>6. Out = wire \o fifo
      BY <1>1, <3>3, ConcatEmptySeq DEF Out
    <3>7. Out' = Out
      BY <3>2, <3>4, <3>5, <3>6, Zenon
    <3>. QED
      BY <1>1, <3>2, <3>3, <3>7
  <2>2. CASE ShiftOut
    <3>1. /\ wire' = wire \o shift /\ shift' = <<>> /\ fifo' = fifo
          /\ wire \o shift \in Seq(Characters)
      BY <1>1, <2>2 DEF ShiftOut
    <3>2. Out' = Out
      BY <3>1, ConcatEmptySeq DEF Out
    <3>3. shift' \in Seq(Characters) /\ Len(shift') <= 1
      BY <3>1, EmptySeq
    <3>. QED
      BY <1>1, <3>1, <3>2, <3>3
  <2>. QED
    BY <2>1, <2>2 DEF Transmission
<1>4. TypeOK'
  <2>1. /\ {enabled', transmit', fifoEnabled', newline'} \subseteq BOOLEAN
        /\ rest' \in Seq(Characters)
        /\ pc' = "newline" => rest' # <<>> /\ Head(rest') = "\n"
    BY <1>2, TypeFacts DEF DriverInv, TypeOK, device, driver
  <2>. QED
    BY <1>3, <2>1 DEF TypeOK
<1>5. Registers'
  BY <1>2 DEF DriverInv, Registers, CalculateDivisors, device, driver
<1>6. Progress'
  <2>1. Pending' = Pending /\ Text' = Text
    BY <1>2 DEF driver, Pending, Newline, Text
  <2>. QED
    BY <1>2, <1>3, <2>1 DEF DriverInv, Progress, driver
<1>. QED
  BY <1>4, <1>5, <1>6 DEF DriverInv

(* A step that stores no character: what is pending stays pending.         *)
LEMMA NothingStored ==
  ASSUME DriverInv, NEW from, NEW to, Step(from, to), UNCHANGED line,
         TypeOK', Registers',
         \/ from = "new" /\ to = "disable"
         \/ from \in {"disable"} \cup Off /\ to \in Off \cup {"idle"}
         \/ from = "wait" /\ to = "byte"
         \/ from = "wait return" /\ to = "newline"
  PROVE  DriverInv'
<1>1. UNCHANGED <<leftover, rest, newline, logged, fifo, shift, wire>> /\ pc = from /\ pc' = to
  BY DEF Step, line
<1>2. pc' \in {"wait return", "newline"} <=> pc \in {"wait return", "newline"}
  BY <1>1 DEF Off
<1>3. Pending' = Pending
  BY <1>1, <1>2 DEF Pending, Newline
<1>4. Out' = Out /\ Text' = Text
  BY <1>1 DEF Out, Text
<1>5. /\ pc' \notin Sending => pc \notin Sending
      /\ pc' \notin Sending \ {"idle"} => pc \notin Sending \ {"idle"}
  BY <1>1 DEF Sending, Off
<1>. QED
  BY <1>1, <1>2, <1>3, <1>4, <1>5 DEF DriverInv, Progress

(* The stores of reset keep the invariant, one by one.                     *)
LEMMA ResetKeeps ==
  ASSUME DriverInv, Reset
  PROVE  DriverInv'
<1>1. TypeOK /\ Registers /\ Progress
  BY DEF DriverInv
<1>2. UNCHANGED <<leftover, rest, newline, logged, wire, shift>> /\ UNCHANGED fifo
  <2>1. CASE Flush
    <3>1. fifo = <<>>
      BY <1>1, <2>1 DEF Registers, Flush, Step, Drained, Off
    <3>. QED
      BY <2>1, <3>1 DEF Flush, Step
  <2>. QED
    BY <2>1 DEF Reset, New, Disable, WaitDisabled, SetDivisors, LineControl,
               EnableTransmit, Enable, Step, line
<1>3. TypeOK'
  <2>1. UNCHANGED <<rest, newline, wire, shift, fifo>>
    BY <1>2
  <2>2. {enabled', transmit', fifoEnabled'} \subseteq BOOLEAN /\ pc' # "newline"
    BY <1>1 DEF TypeOK, Reset, New, Disable, WaitDisabled, Flush, SetDivisors, LineControl,
                EnableTransmit, Enable, Step, device
  <2>. QED
    BY <1>1, <2>1, <2>2 DEF TypeOK
<1>4. CalculateDivisors' = CalculateDivisors
  BY DEF CalculateDivisors
<1>5. Registers'
  <2>. USE <1>1, <1>2, <1>4 DEF Registers, Off, Drained, Unbuffered, Divided, Configured, Sending, Step
  <2>. HIDE DEF CalculateDivisors
  <2>1. CASE New
    BY <2>1 DEF New, device
  <2>2. CASE Disable
    BY <2>2 DEF Disable
  <2>3. CASE WaitDisabled
    BY <2>3 DEF WaitDisabled, device, Busy
  <2>4. CASE Flush
    BY <2>4 DEF Flush
  <2>5. CASE SetDivisors
    BY <2>5 DEF SetDivisors
  <2>6. CASE LineControl
    BY <2>6 DEF LineControl
  <2>7. CASE EnableTransmit
    BY <2>7 DEF EnableTransmit
  <2>8. CASE Enable
    BY <2>8 DEF Enable
  <2>. QED
    BY <2>1, <2>2, <2>3, <2>4, <2>5, <2>6, <2>7, <2>8 DEF Reset
<1>6. \E from, to :
        /\ Step(from, to)
        /\ \/ from = "new" /\ to = "disable"
           \/ from \in {"disable"} \cup Off /\ to \in Off \cup {"idle"}
  <2>. USE DEF Off
  <2>1. CASE New
    BY <2>1 DEF New
  <2>2. CASE Disable
    BY <2>2 DEF Disable
  <2>3. CASE WaitDisabled
    BY <2>3 DEF WaitDisabled
  <2>4. CASE Flush
    BY <2>4 DEF Flush
  <2>5. CASE SetDivisors
    BY <2>5 DEF SetDivisors
  <2>6. CASE LineControl
    BY <2>6 DEF LineControl
  <2>7. CASE EnableTransmit
    BY <2>7 DEF EnableTransmit
  <2>8. CASE Enable
    BY <2>8 DEF Enable
  <2>. QED
    BY <2>1, <2>2, <2>3, <2>4, <2>5, <2>6, <2>7, <2>8 DEF Reset
<1>7. UNCHANGED line
  BY <1>2 DEF line
<1>. QED
  BY <1>3, <1>5, <1>6, <1>7, NothingStored

(* A message is logged: its bytes and the newline are what is pending.     *)
LEMMA LogKeeps ==
  ASSUME DriverInv, NEW msg \in Messages, Log(msg)
  PROVE  DriverInv'
<1>1. /\ TypeOK /\ Registers /\ Progress
      /\ pc = "idle" /\ pc' = "wait" /\ rest' = msg /\ newline' = TRUE
      /\ logged' = Append(logged, msg)
      /\ UNCHANGED <<device, line, leftover>>
      /\ msg \in Seq(Characters)
  BY PL011Assumption DEF DriverInv, Log
<1>2. TypeOK'
  BY <1>1 DEF TypeOK, device, line
<1>3. Registers'
  <2>1. CalculateDivisors' = CalculateDivisors
    BY DEF CalculateDivisors
  <2>. QED
    BY <1>1, <2>1 DEF Registers, Off, Drained, Unbuffered, Divided, Configured, Sending,
                      device, line
<1>4. Progress'
  <2>1. rest = <<>> /\ ~ newline /\ leftover \in Seq(Characters) /\ logged \in Seq(Seq(Characters))
    BY <1>1 DEF Progress, Sending
  <2>2. Pending = <<>>
    BY <1>1, <2>1, ExpandOne, EmptySeq, ConcatEmptySeq DEF Pending, Newline
  <2>3. Out = Text
    <3>1. Out \o <<>> = Text
      BY <1>1, <2>2 DEF Progress
    <3>. QED
      BY <1>1, <3>1, TypeFacts, ConcatEmptySeq
  <2>4. Out' = Out
    BY <1>1 DEF Out, line
  <2>5. Pending' = Expand(msg) \o Expand(<<"\n">>)
    BY <1>1 DEF Pending, Newline
  <2>6. Text = leftover \o Logged(logged)
        /\ Text' = leftover \o (Logged(logged) \o Expand(msg) \o Expand(<<"\n">>))
    <3>1. Logged(Append(logged, msg)) = Logged(logged) \o Expand(msg) \o Expand(<<"\n">>)
      BY <1>1, <2>1, LoggedAppend
    <3>2. Text' = leftover' \o Logged(logged')
      BY Zenon DEF Text, Logged
    <3>. QED
      BY <1>1, <3>1, <3>2, TextLogged
  <2>7. Out' \o Pending' = Text'
    <3>1. <<"\n">> \in Seq(Characters)
      BY DEF Characters
    <3>2. /\ leftover \in Seq(Characters) /\ Logged(logged) \in Seq(Characters)
          /\ Expand(msg) \in Seq(Characters) /\ Expand(<<"\n">>) \in Seq(Characters)
      BY <1>1, <2>1, <3>1, LoggedAppend, ExpandConcat
    <3>3. \A a, b, c, d \in Seq(Characters) : (a \o b) \o (c \o d) = a \o ((b \o c) \o d)
      <4>1. SUFFICES ASSUME NEW a \in Seq(Characters), NEW b \in Seq(Characters),
                            NEW c \in Seq(Characters), NEW d \in Seq(Characters)
                     PROVE  (a \o b) \o (c \o d) = a \o ((b \o c) \o d)
        OBVIOUS
      <4>2. \A x, y, z \in Seq(Characters) : (x \o y) \o z = x \o (y \o z)
        BY ConcatAssociative, SMTT(30)
      <4>3. c \o d \in Seq(Characters)
        OBVIOUS
      <4>4. (a \o b) \o (c \o d) = a \o (b \o (c \o d))
        BY <4>2, <4>3
      <4>5. (b \o c) \o d = b \o (c \o d)
        BY <4>2
      <4>. QED
        BY <4>4, <4>5, Zenon
    <3>. PICK a, b, c, d : /\ a = leftover /\ b = Logged(logged)
                           /\ c = Expand(msg) /\ d = Expand(<<"\n">>)
      OBVIOUS
    <3>4. Out' \o Pending' = (a \o b) \o (c \o d)
      BY <2>3, <2>4, <2>5, <2>6
    <3>5. Text' = a \o ((b \o c) \o d)
      BY <2>6
    <3>6. (a \o b) \o (c \o d) = a \o ((b \o c) \o d)
      BY <3>2, <3>3, SMTT(30)
    <3>. QED
      BY <3>4, <3>5, <3>6, Zenon
  <2>8. logged' \in Seq(Seq(Characters))
    BY <1>1, <2>1
  <2>. QED
    BY <1>1, <2>1, <2>7, <2>8 DEF Progress, Sending
<1>. QED
  BY <1>2, <1>3, <1>4 DEF DriverInv

(* A character is stored: there is room for it, and it is the next one.    *)
LEMMA StoreKeeps ==
  ASSUME TypeOK, NEW c \in Characters, fifo = <<>>, shift = <<>>, ~ fifoEnabled, StoreData(c)
  PROVE  /\ fifo' = <<c>> /\ shift' = <<>> /\ wire' = wire
         /\ {enabled', transmit', fifoEnabled', newline'} \subseteq BOOLEAN
         /\ fifo' \in Seq(Characters) /\ shift' \in Seq(Characters) /\ wire' \in Seq(Characters)
         /\ Len(fifo') <= FifoDepth /\ Len(shift') <= 1
         /\ \A d, e \in Seq(Characters) : d = <<c>> \o e => Out' \o e = Out \o d
<1>1. Room
  BY EmptySeq DEF Room
<1>2. fifo' = <<c>> /\ shift' = <<>> /\ wire' = wire /\ UNCHANGED <<device, newline>>
  <2>1. Append(<<>>, c) = <<c>>
    OBVIOUS
  <2>. QED
    BY <1>1, <2>1 DEF StoreData
<1>3. {enabled', transmit', fifoEnabled', newline'} \subseteq BOOLEAN
  BY <1>2 DEF TypeOK, device
<1>4. <<c>> \in Seq(Characters) /\ Len(<<c>>) = 1 /\ <<>> \in Seq(Characters) /\ Len(<<>>) = 0
  OBVIOUS
<1>5. wire \in Seq(Characters)
  BY TypeFacts
<1>6. Out = wire /\ Out' = wire \o <<c>>
  BY <1>2, <1>5, ConcatEmptySeq DEF Out
<1>7. \A d, e \in Seq(Characters) : d = <<c>> \o e => Out' \o e = Out \o d
  <2>1. \A x, y, z \in Seq(Characters) : (x \o y) \o z = x \o (y \o z)
    BY ConcatAssociative
  <2>. QED
    BY <1>4, <1>5, <1>6, <2>1
<1>8. 1 <= FifoDepth
  BY PL011Assumption
<1>9. Len(fifo') <= FifoDepth /\ Len(shift') <= 1
  BY <1>2, <1>4, <1>8, PL011Assumption
<1>10. fifo' \in Seq(Characters) /\ shift' \in Seq(Characters) /\ wire' \in Seq(Characters)
  BY <1>2, <1>4, <1>5, Zenon
<1>. QED
  BY <1>2, <1>3, <1>7, <1>9, <1>10, Zenon

(* The steps of send and log keep the invariant.                           *)
LEMMA SendKeeps ==
  ASSUME DriverInv, Send
  PROVE  DriverInv'
<1>1. TypeOK /\ Registers /\ Progress
  BY DEF DriverInv
<1>2. CalculateDivisors' = CalculateDivisors
  BY DEF CalculateDivisors
<1>3. /\ fifo \in Seq(Characters) /\ shift \in Seq(Characters)
      /\ wire \in Seq(Characters) /\ rest \in Seq(Characters) /\ Out \in Seq(Characters)
      /\ Newline \in Seq(Characters) /\ Expand(rest) \in Seq(Characters)
  BY <1>1, TypeFacts, PendingType
<1>4. CASE WaitUntilSent \/ WaitReturn
  <2>1. /\ UNCHANGED <<device, line, leftover, rest, newline, logged>>
        /\ fifo = <<>> /\ shift = <<>>
        /\ \/ pc = "wait" /\ pc' = "byte"
           \/ pc = "wait return" /\ pc' = "newline"
        /\ Step(pc, pc')
    BY <1>4 DEF WaitUntilSent, WaitReturn, Step, Busy
  <2>2. TypeOK'
    BY <1>1, <2>1 DEF TypeOK, Progress, device, line
  <2>3. Registers'
    BY <1>1, <1>2, <2>1 DEF Registers, Off, Drained, Unbuffered, Divided, Configured, Sending,
                            device, line
  <2>. QED
    BY <2>1, <2>2, <2>3, NothingStored
<1>5. CASE SendReturn \/ SendByte
  <2>1. PICK d : d = IF pc = "byte" /\ Head(rest) = "\n" THEN "\r" ELSE Head(rest)
    OBVIOUS
  <2>2. /\ pc \in {"byte", "newline"} /\ rest # <<>>
        /\ pc = "newline" => Head(rest) = "\n"
        /\ StoreData(d)
        /\ \/ /\ pc = "byte" /\ Head(rest) = "\n" /\ pc' = "wait return" /\ rest' = rest
              /\ d = "\r"
           \/ /\ pc = "newline" \/ Head(rest) # "\n"
              /\ pc' = "wait" /\ rest' = Tail(rest) /\ d = Head(rest)
    BY <1>1, <1>5, <2>1 DEF SendReturn, SendByte, TypeOK
  <2>3. Head(rest) \in Characters /\ Tail(rest) \in Seq(Characters)
        /\ Expand(rest) = WireBytes(Head(rest)) \o Expand(Tail(rest))
        /\ Expand(Tail(rest)) \in Seq(Characters)
    BY <1>3, <2>2, ExpandFirst, ExpandConcat
  <2>4. d \in Characters
    BY <2>1, <2>3 DEF Characters
  <2>5. fifo = <<>> /\ shift = <<>> /\ ~ fifoEnabled /\ enabled /\ transmit
    BY <1>1, <2>2 DEF Registers, Sending
  <2>6. /\ fifo' = <<d>> /\ shift' = <<>> /\ wire' = wire
        /\ {enabled', transmit', fifoEnabled', newline'} \subseteq BOOLEAN
        /\ fifo' \in Seq(Characters) /\ shift' \in Seq(Characters) /\ wire' \in Seq(Characters)
        /\ Len(fifo') <= FifoDepth /\ Len(shift') <= 1
        /\ \A x, y \in Seq(Characters) : x = <<d>> \o y => Out' \o y = Out \o x
    BY <1>1, <2>2, <2>4, <2>5, StoreKeeps
  <2>7. UNCHANGED <<device, leftover, newline, logged>>
    BY <2>2 DEF StoreData
  <2>8. TypeOK'
    <3>1. rest' \in Seq(Characters) /\ pc' # "newline"
      BY <1>3, <2>2, <2>3
    <3>. QED
      BY <2>6, <3>1 DEF TypeOK
  <2>9. Registers'
    BY <1>1, <1>2, <2>2, <2>7 DEF Registers, Off, Drained, Unbuffered, Divided, Configured,
                                  Sending, device
  <2>10. Pending \in Seq(Characters) /\ Pending' \in Seq(Characters) /\ Pending = <<d>> \o Pending'
    <3>. PICK E, N : E = Expand(Tail(rest)) /\ N = Newline
      OBVIOUS
    <3>1. E \in Seq(Characters) /\ N \in Seq(Characters) /\ E \o N \in Seq(Characters) /\ Newline' = N
      BY <1>3, <2>3, <2>7 DEF Newline
    <3>2. \A x, y, z \in Seq(Characters) : (x \o y) \o z = x \o (y \o z)
      BY ConcatAssociative
    <3>3. /\ <<"\r">> \in Seq(Characters) /\ <<"\n">> \in Seq(Characters)
          /\ <<d>> \in Seq(Characters)
          /\ <<"\r", "\n">> = <<"\r">> \o <<"\n">>
      BY <2>4 DEF Characters
    <3>4. CASE pc = "byte" /\ Head(rest) = "\n"
      <4>1. Pending = (<<"\r", "\n">> \o E) \o N
        BY <2>3, <3>4 DEF Pending, WireBytes
      <4>2. Pending' = (<<"\n">> \o E) \o N /\ d = "\r"
        BY <2>2, <3>1, <3>4 DEF Pending
      <4>3. <<"\n">> \o E \in Seq(Characters) /\ (<<"\n">> \o E) \o N \in Seq(Characters)
        BY <3>1, <3>3, ConcatProperties
      <4>4. <<"\r", "\n">> \o E = <<"\r">> \o (<<"\n">> \o E)
        BY <3>1, <3>2, <3>3
      <4>5. (<<"\r">> \o (<<"\n">> \o E)) \o N = <<"\r">> \o ((<<"\n">> \o E) \o N)
        BY <3>1, <3>2, <3>3, <4>3
      <4>6. Pending = <<"\r">> \o Pending'
        BY <4>1, <4>2, <4>4, <4>5, Zenon
      <4>7. Pending \in Seq(Characters)
        BY <3>3, <4>2, <4>3, <4>6, ConcatProperties
      <4>. QED
        BY <4>2, <4>3, <4>6, <4>7
    <3>5. CASE ~ (pc = "byte" /\ Head(rest) = "\n")
      <4>1. Pending = (<<d>> \o E) \o N
        <5>1. CASE pc = "newline"
          BY <2>2, <5>1 DEF Pending
        <5>2. CASE pc = "byte"
          <6>1. WireBytes(Head(rest)) = <<d>> /\ Pending = Expand(rest) \o Newline
            BY <2>1, <2>2, <3>5, <5>2 DEF WireBytes, Pending
          <6>. QED
            BY <2>3, <6>1, Zenon
        <5>. QED
          BY <2>2, <5>1, <5>2
      <4>2. Pending' = E \o N
        BY <2>2, <3>1, <3>5 DEF Pending
      <4>3. (<<d>> \o E) \o N = <<d>> \o (E \o N)
        BY <3>1, <3>2, <3>3
      <4>4. <<d>> \o (E \o N) \in Seq(Characters)
        BY <3>1, <3>3, ConcatProperties
      <4>. QED
        BY <3>1, <4>1, <4>2, <4>3, <4>4, Zenon
    <3>. QED
      BY <3>4, <3>5
  <2>11. Out' \o Pending' = Out \o Pending
    BY <2>6, <2>10, Zenon
  <2>12. Progress'
    <3>1. Text' = Text
      BY <2>7 DEF Text
    <3>. QED
      BY <1>1, <2>2, <2>7, <2>11, <3>1 DEF Progress, Sending
  <2>. QED
    BY <2>8, <2>9, <2>12 DEF DriverInv
<1>6. CASE Sent
  <2>1. /\ pc = "byte" /\ rest = <<>>
        /\ pc' = IF newline THEN "wait" ELSE "idle"
        /\ rest' = IF newline THEN <<"\n">> ELSE <<>>
        /\ newline' = FALSE
        /\ UNCHANGED <<device, line, leftover, logged>>
    BY <1>6 DEF Sent
  <2>2. <<"\n">> \in Seq(Characters) /\ <<>> \in Seq(Characters)
    BY DEF Characters
  <2>3. TypeOK'
    BY <1>1, <2>1, <2>2 DEF TypeOK, device, line
  <2>4. Registers'
    BY <1>1, <1>2, <2>1 DEF Registers, Off, Drained, Unbuffered, Divided, Configured, Sending,
                            device, line
  <2>5. Pending' = Pending
    <3>1. Expand(<<"\n">>) \in Seq(Characters)
      BY <2>2, ExpandConcat
    <3>2. Pending = <<>> \o Newline
      BY <2>1, ExpandOne DEF Pending
    <3>3. Pending' = Expand(rest') \o <<>>
      BY <2>1 DEF Pending, Newline
    <3>. QED
      BY <2>1, <3>1, <3>2, <3>3, ExpandOne, ConcatEmptySeq DEF Newline
  <2>6. Progress'
    <3>1. Text' = Text /\ Out' = Out
      BY <2>1 DEF Text, Out, line
    <3>. QED
      BY <1>1, <2>1, <2>5, <3>1 DEF Progress, Sending
  <2>. QED
    BY <2>3, <2>4, <2>6 DEF DriverInv
<1>. QED
  BY <1>4, <1>5, <1>6 DEF Send

(* The invariant holds at first and every step, the device's too, keeps    *)
(* it.                                                                     *)
LEMMA DriverInductive ==
  /\ Init => DriverInv
  /\ DriverInv /\ [Next]_vars => DriverInv'
<1>1. Init => DriverInv
  <2>1. SUFFICES ASSUME Init PROVE DriverInv
    OBVIOUS
  <2>2. /\ leftover \in Seq(Characters) /\ fifo = leftover /\ Len(leftover) <= FifoDepth
        /\ shift = <<>> /\ wire = <<>> /\ rest = <<>> /\ newline = FALSE /\ logged = <<>>
        /\ pc = "new"
    BY <2>1, PL011Assumption DEF Init
  <2>3. TypeOK
    <3>1. <<>> \in Seq(Characters) /\ Len(<<>>) = 0
      BY EmptySeq
    <3>2. \A s \in {fifo, shift, wire, rest} : s \in Seq(Characters)
      BY <2>2, <3>1
    <3>3. {enabled, transmit, fifoEnabled, newline} \subseteq BOOLEAN
      BY <2>1, <2>2 DEF Init
    <3>. QED
      BY <2>2, <3>1, <3>2, <3>3 DEF TypeOK
  <2>4. Registers
    BY <2>2 DEF Registers, Off, Drained, Unbuffered, Divided, Configured, Sending
  <2>5. Out = leftover
    BY <2>2, ConcatEmptySeq, EmptySeq DEF Out
  <2>6. Text = leftover
    <3>1. Logged(<<>>) = <<>>
      BY EmptySeq, LoggedAppend
    <3>. QED
      BY <2>2, <3>1, TextLogged, ConcatEmptySeq
  <2>7. Pending = <<>>
    BY <2>2, ExpandOne, EmptySeq, ConcatEmptySeq DEF Pending, Newline
  <2>8. Progress
    BY <2>2, <2>5, <2>6, <2>7, EmptySeq, ConcatEmptySeq DEF Progress, Sending
  <2>. QED
    BY <2>3, <2>4, <2>8 DEF DriverInv
<1>2. DriverInv /\ [Next]_vars => DriverInv'
  <2>1. SUFFICES ASSUME DriverInv, [Next]_vars PROVE DriverInv'
    OBVIOUS
  <2>2. CASE UNCHANGED vars
    <3>1. TypeOK' = TypeOK /\ Registers' = Registers /\ Progress' = Progress
      BY <2>2 DEF vars, device, line, driver, TypeOK, Registers, Progress, CalculateDivisors,
                  Out, Text, Pending, Newline
    <3>. QED
      BY <2>1, <3>1 DEF DriverInv
  <2>3. CASE Transmission
    BY <2>1, <2>3, TransmissionKeeps
  <2>4. CASE Reset
    BY <2>1, <2>4, ResetKeeps
  <2>5. CASE Send
    BY <2>1, <2>5, SendKeeps
  <2>6. ASSUME NEW msg \in Messages, Log(msg) PROVE DriverInv'
    BY <2>1, <2>6, LogKeeps
  <2>7. CASE Spin \/ Idle
    BY <2>2, <2>7 DEF Spin, Idle
  <2>. QED
    BY <2>1, <2>2, <2>3, <2>4, <2>5, <2>6, <2>7 DEF Next
<1>. QED
  BY <1>1, <1>2

(* What the invariant says.                                                *)

(* calculate_divisors rounds to the nearest: the divisor is off by half a  *)
(* 64th at most.                                                           *)
LEMMA DivisorNearest ==
  LET latch == CalculateDivisors
      error == 2 * Baudrate * (64 * latch[1] + latch[2]) - 8 * BaseClock
  IN  -Baudrate < error /\ error <= Baudrate
<1>. DEFINE n == 8 * BaseClock + Baudrate
            b == 2 * Baudrate
            d == n \div b
            q == d \div 64
            r == d % 64
<1>1. n \in Nat /\ b \in Nat \ {0} /\ Baudrate \in Nat /\ BaseClock \in Nat
  BY PL011Assumption
<1>2. d \in Nat /\ b * d <= n /\ n < b * d + b
  <2>. HIDE DEF n, b
  <2>. QED
    BY <1>1
<1>3. q \in Nat /\ r \in Nat /\ 64 * q + r = d
  <2>. HIDE DEF d
  <2>. QED
    BY <1>2
<1>4. q < 65536 /\ q % 65536 = q
  <2>1. q < 65536
    BY PL011Assumption
  <2>. HIDE DEF q
  <2>. QED
    BY <1>3, <2>1
<1>5. CalculateDivisors = <<q, r>>
  BY <1>4 DEF CalculateDivisors
<1>6. -Baudrate < b * d - 8 * BaseClock /\ b * d - 8 * BaseClock <= Baudrate
  <2>. PICK x : x = b * d
    OBVIOUS
  <2>1. x \in Int
    BY <1>1, <1>2
  <2>. HIDE DEF d
  <2>. QED
    BY <1>1, <1>2, <2>1
<1>. HIDE DEF d, q, r
<1>7. 64 * CalculateDivisors[1] + CalculateDivisors[2] = d
  BY <1>3, <1>5
<1>. QED
  BY <1>6, <1>7

(* The invariant says that the device is ready and that the wire is the    *)
(* text.                                                                   *)
LEMMA DriverMeaning ==
  ASSUME DriverInv
  PROVE  ReadyToSend /\ WireIsText
<1>1. TypeOK /\ Registers /\ Progress
  BY DEF DriverInv
<1>2. ReadyToSend
  <2>1. Ready => /\ enabled /\ transmit /\ ~ fifoEnabled /\ format = Format
                 /\ latched = CalculateDivisors
    BY <1>1 DEF Ready, Registers, Sending
  <2>. QED
    BY <1>1, <2>1, DivisorNearest DEF ReadyToSend
<1>3. Out \in Seq(Characters) /\ Pending \in Seq(Characters) /\ Out \o Pending = Text
  <2>1. <<"\n">> \in Seq(Characters)
    BY DEF Characters
  <2>2. /\ Newline \in Seq(Characters) /\ Expand(rest) \in Seq(Characters)
        /\ pc \in {"wait return", "newline"} => Expand(Tail(rest)) \in Seq(Characters)
    BY <1>1, PendingType DEF Progress
  <2>3. pc \in {"wait return", "newline"} => <<"\n">> \o Expand(Tail(rest)) \in Seq(Characters)
    BY <2>1, <2>2, ConcatProperties
  <2>. QED
    BY <1>1, <2>2, <2>3, TypeFacts, ConcatProperties DEF Progress, Pending
<1>4. IsPrefix(Out, Text)
  <2>1. PICK a, b, t : a = Out /\ b = Pending /\ t = Text
    OBVIOUS
  <2>2. a \in Seq(Characters) /\ b \in Seq(Characters) /\ t = a \o b
    BY <1>3, <2>1
  <2>3. /\ t \in Seq(Characters) /\ Len(a) \in Nat /\ Len(a) <= Len(t)
        /\ \A i \in 1 .. Len(a) : t[i] = a[i]
    BY <2>2
  <2>4. SubSeq(a, 1, Len(a)) = SubSeq(t, 1, Len(a))
    BY <2>2, <2>3
  <2>. QED
    BY <2>1, <2>3, <2>4 DEF IsPrefix
<1>5. ASSUME pc = "idle" PROVE wire = Text
  <2>1. fifo = <<>> /\ shift = <<>> /\ rest = <<>> /\ ~ newline
    BY <1>1, <1>5 DEF Registers, Progress, Sending
  <2>2. Pending = <<>>
    BY <1>5, <2>1, ExpandOne, EmptySeq, ConcatEmptySeq DEF Pending, Newline
  <2>3. Out = wire
    BY <1>1, <2>1, TypeFacts, ConcatEmptySeq DEF Out
  <2>. QED
    BY <1>3, <2>2, <2>3, ConcatEmptySeq
<1>. QED
  BY <1>2, <1>4, <1>5 DEF WireIsText

-----------------------------------------------------------------------------
(* The inductive invariant: types, what the registers hold at each line of *)
(* the driver, and that what was sent, what the device holds and what is   *)
(* still to be sent are the messages.                                      *)
THEOREM DriverInvariant == Spec => []DriverInv
BY DriverInductive, PTL DEF Spec

(* Once new returns, the device is enabled with the format asked for and   *)
(* the nearest divisor: for every state the firmware left it in, every     *)
(* clock and every rate whose divisor fits its registers.                  *)
THEOREM DeviceIsReady == Spec => []ReadyToSend
BY DriverInvariant, DriverMeaning, PTL

(* The characters on the line, in the shift register and in the FIFO are   *)
(* what the firmware left and the messages logged, up to some point of     *)
(* them; and when log returns, all of them are on the line.                *)
THEOREM LineCarriesText == Spec => []WireIsText
BY DriverInvariant, DriverMeaning, PTL

(* Format, divisor and FIFO enable are stored only while the device is     *)
(* disabled and has nothing to send.                                       *)
THEOREM StoredAtRest == Spec => ConfiguredAtRest
<1>1. DriverInv /\ [Next]_vars
        => [<<fifoEnabled, format, latched>>' # <<fifoEnabled, format, latched>> =>
              ~ enabled /\ ~ Busy]_vars
  <2>1. SUFFICES ASSUME Registers, Next,
                        <<fifoEnabled, format, latched>>' # <<fifoEnabled, format, latched>>
                 PROVE  ~ enabled /\ ~ Busy
    BY DEF DriverInv
  <2>2. CASE Flush \/ LineControl
    BY <2>1, <2>2 DEF Flush, LineControl, Step, Registers, Off, Drained, Busy
  <2>3. CASE Transmission \/ Send \/ Spin \/ Idle \/ \E msg \in Messages : Log(msg)
    BY <2>1, <2>3
    DEF Transmission, Load, ShiftOut, Send, WaitUntilSent, SendReturn, WaitReturn, SendByte, Sent,
        StoreData, Spin, Idle, Log, vars, device
  <2>4. CASE New \/ Disable \/ WaitDisabled \/ SetDivisors \/ EnableTransmit \/ Enable
    BY <2>1, <2>4 DEF New, Disable, WaitDisabled, SetDivisors, EnableTransmit, Enable, device
  <2>. QED
    BY <2>1, <2>2, <2>3, <2>4 DEF Next, Reset
<1>. QED
  BY <1>1, DriverInvariant, PTL DEF Spec, ConfiguredAtRest

-----------------------------------------------------------------------------
(* What a call may answer on data d at offset o: an error that leaves the  *)
(* cursor alone, or what lies between the cursor and a later place that is *)
(* not past the end; a string is whole, and padding has something behind.  *)
WholeString(d, from, to) ==
  /\ from < to
  /\ d[to] = "zero"
  /\ \A i \in from + 1 .. to - 1 : d[i] = "char"

Reads == [ok : {TRUE}, kind : {"number", "string", "data", "pad"}, from : Nat, to : Nat]

Sound(d, o, r) ==
  /\ r.ok \in BOOLEAN
  /\ ~ r.ok => r.to = o
  /\ r.ok => /\ r \in Reads
             /\ r.from = o
             /\ o <= r.to /\ r.to <= Len(d)
             /\ r.kind = "string" => WholeString(d, o, r.to)
             /\ r.kind = "pad" /\ r.to # o => r.to < Len(d)

(* A read of n bytes takes the next n, or says that there are fewer.       *)
LEMMA ConsumeBytesSound ==
  ASSUME NEW d \in Seq(Bytes), NEW o \in 0 .. Len(d), NEW n \in Nat,
         NEW kind \in {"number", "data"}
  PROVE  Sound(d, o, ConsumeBytes(kind, d, o, n))
BY DEF Sound, Reads, ConsumeBytes, Ok, Err

(* A read of a number of cells takes the bytes of those cells.             *)
LEMMA ConsumeCellsSound ==
  ASSUME NEW d \in Seq(Bytes), NEW o \in 0 .. Len(d), NEW cells \in 0 .. 3
  PROVE  /\ Sound(d, o, ConsumeBe32(d, o))
         /\ Sound(d, o, ConsumeBe64(d, o))
         /\ Sound(d, o, ConsumeCells(d, o, cells))
<1>1. Cell \in Nat /\ 2 * Cell \in Nat
  BY ScannerAssumption
<1>2. Sound(d, o, ConsumeBe32(d, o)) /\ Sound(d, o, ConsumeBe64(d, o))
  BY <1>1, ConsumeBytesSound DEF ConsumeBe32, ConsumeBe64
<1>3. Sound(d, o, Ok("number", o, o)) /\ Sound(d, o, Err(o))
  BY DEF Sound, Reads, Ok, Err
<1>. QED
  BY <1>2, <1>3 DEF ConsumeCells

(* A string ends at the first zero.                                        *)
LEMMA ConsumeCstrSound ==
  ASSUME NEW d \in Seq(Bytes), NEW o \in 0 .. Len(d)
  PROVE  Sound(d, o, ConsumeCstr(d, o))
<1>1. CASE Zeros(d, o) = {}
  BY <1>1 DEF Sound, ConsumeCstr, Err
<1>2. CASE Zeros(d, o) # {}
  <2>. DEFINE z == CHOOSE i \in Zeros(d, o) : \A j \in Zeros(d, o) : i <= j
  <2>1. Zeros(d, o) \in SUBSET Nat
    BY DEF Zeros
  <2>2. z \in Zeros(d, o) /\ \A j \in Zeros(d, o) : z <= j
    BY <1>2, <2>1, LeastElement
  <2>3. ConsumeCstr(d, o) = IF \E i \in o + 1 .. z : d[i] = "invalid" THEN Err(o)
                            ELSE Ok("string", o, z)
    BY <1>2 DEF ConsumeCstr
  <2>. HIDE DEF z
  <2>4. z \in Nat /\ o < z /\ z <= Len(d) /\ d[z] = "zero"
    BY <2>2 DEF Zeros
  <2>5. ASSUME NEW i \in o + 1 .. z - 1, d[i] # "invalid" PROVE d[i] = "char"
    <3>1. i \notin Zeros(d, o) /\ i \in o + 1 .. Len(d) /\ i \in 1 .. Len(d)
      BY <2>2, <2>4
    <3>2. d[i] \in Bytes
      BY <3>1
    <3>. QED
      BY <2>5, <3>1, <3>2 DEF Zeros, Bytes
  <2>6. CASE \E i \in o + 1 .. z : d[i] = "invalid"
    <3>1. ConsumeCstr(d, o) = Err(o)
      BY <2>3, <2>6, Zenon
    <3>. QED
      BY <3>1 DEF Sound, Err
  <2>7. CASE ~ \E i \in o + 1 .. z : d[i] = "invalid"
    <3>1. WholeString(d, o, z)
      BY <2>4, <2>5, <2>7 DEF WholeString
    <3>. QED
      BY <2>3, <2>4, <2>7, <3>1 DEF Sound, Reads, Ok
  <2>. QED
    BY <2>6, <2>7
<1>. QED
  BY <1>1, <1>2

(* Aligning forward skips to the next multiple inside the data.            *)
LEMMA AlignForwardSound ==
  ASSUME NEW d \in Seq(Bytes), NEW o \in 0 .. Len(d), NEW alignment \in Nat
  PROVE  Sound(d, o, AlignForward(d, o, alignment))
<1>. DEFINE s == Shift(o, alignment)
<1>1. s \in Nat
  BY DEF Shift
<1>. HIDE DEF s
<1>2. AlignForward(d, o, alignment)
        = IF s # 0 /\ o + s >= Len(d) THEN Err(o) ELSE Ok("pad", o, o + s)
  BY DEF AlignForward, s
<1>. QED
  BY <1>1, <1>2 DEF Sound, Reads, Ok, Err

-----------------------------------------------------------------------------
(* Where nothing moves, nothing changes.                                   *)
LEMMA StutterReadsWhole ==
  ASSUME ReadsWhole, data' = data, offset' = offset, reads' = reads
  PROVE  ReadsWhole'
<1>1. ScanTypeOK'
  BY DEF ReadsWhole, ScanTypeOK, Remains
<1>2. Tiling'
  BY DEF ReadsWhole, Tiling
<1>3. StringsWhole'
  BY DEF ReadsWhole, StringsWhole
<1>4. PaddingInside'
  BY DEF ReadsWhole, PaddingInside
<1>. QED
  BY <1>1, <1>2, <1>3, <1>4 DEF ReadsWhole

(* A sound call leaves the reads tiled and typed, each string whole, and   *)
(* something behind padding.                                               *)
LEMMA CallReadsWhole ==
  ASSUME ReadsWhole, NEW r, Sound(data, offset, r), Call(r)
  PROVE  ReadsWhole'
<1>1. /\ data \in Seq(Bytes)
      /\ offset \in Nat /\ offset <= Len(data)
      /\ reads \in Seq(Reads)
  BY DEF ReadsWhole, ScanTypeOK, Remains, Reads
<1>2. data' = data
  BY DEF Call
<1>3. CASE ~ r.ok
  <2>1. offset' = offset /\ reads' = reads
    BY <1>3 DEF Call, Sound
  <2>. QED
    BY <1>2, <2>1, StutterReadsWhole
<1>4. CASE r.ok
  <2>1. /\ r \in Reads
        /\ r.from = offset
        /\ r.to \in Nat /\ offset <= r.to /\ r.to <= Len(data)
        /\ r.kind = "string" => WholeString(data, offset, r.to)
        /\ r.kind = "pad" /\ r.to # offset => r.to < Len(data)
    BY <1>4 DEF Sound, Reads
  <2>2. offset' = r.to /\ reads' = Append(reads, r)
    BY <1>4 DEF Call
  <2>3. /\ reads' \in Seq(Reads)
        /\ Len(reads) \in Nat
        /\ Len(reads') = Len(reads) + 1
        /\ DOMAIN reads = 1 .. Len(reads)
        /\ DOMAIN reads' = 1 .. Len(reads) + 1
        /\ \A i \in 1 .. Len(reads) : reads'[i] = reads[i]
        /\ reads'[Len(reads) + 1] = r
        /\ reads' # <<>>
    BY <1>1, <2>1, <2>2
  <2>4. ScanTypeOK'
    <3>1. reads' \in Seq([ok : {TRUE}, kind : {"number", "string", "data", "pad"},
                          from : Nat, to : Nat])
      BY <2>3, Zenon DEF Reads
    <3>2. data' \in Seq(Bytes) /\ offset' \in Nat /\ Len(data') - offset' >= 0
      BY <1>1, <1>2, <2>1, <2>2
    <3>. QED
      BY <3>1, <3>2 DEF ScanTypeOK, Remains
  <2>5. Tiling'
    <3>1. ASSUME NEW i \in DOMAIN reads'
          PROVE  reads'[i].from = IF i = 1 THEN 0 ELSE reads'[i - 1].to
      <4>1. CASE i \in DOMAIN reads
        BY <2>3, <4>1 DEF ReadsWhole, Tiling
      <4>2. CASE i = Len(reads) + 1
        <5>1. reads = <<>> <=> i = 1
          BY <1>1, <2>3, <4>2
        <5>. QED
          BY <2>1, <2>3, <4>2, <5>1 DEF ReadsWhole, Tiling
      <4>. QED
        BY <2>3, <4>1, <4>2
    <3>. QED
      BY <2>2, <2>3, <3>1 DEF Tiling
  <2>6. StringsWhole'
    <3>1. SUFFICES ASSUME NEW i \in DOMAIN reads', reads'[i].kind = "string"
                   PROVE  WholeString(data, reads'[i].from, reads'[i].to)
      BY <1>2 DEF StringsWhole, WholeString
    <3>2. CASE i \in DOMAIN reads
      BY <2>3, <3>1, <3>2 DEF ReadsWhole, StringsWhole, WholeString
    <3>3. CASE i = Len(reads) + 1
      BY <2>1, <2>3, <3>1, <3>3
    <3>. QED
      BY <2>3, <3>2, <3>3
  <2>7. PaddingInside'
    <3>1. SUFFICES ASSUME NEW i \in DOMAIN reads', reads'[i].kind = "pad",
                          reads'[i].from # reads'[i].to
                   PROVE  reads'[i].to < Len(data)
      BY <1>2 DEF PaddingInside
    <3>2. CASE i \in DOMAIN reads
      BY <2>3, <3>1, <3>2 DEF ReadsWhole, PaddingInside
    <3>3. CASE i = Len(reads) + 1
      BY <2>1, <2>3, <3>1, <3>3
    <3>. QED
      BY <2>3, <3>2, <3>3
  <2>. QED
    BY <2>4, <2>5, <2>6, <2>7 DEF ReadsWhole
<1>. QED
  BY <1>3, <1>4 DEF Sound

(* The reads are the data before the cursor, none skipped or repeated,     *)
(* every string that was read has its one zero and no byte that is not a   *)
(* character, and padding was skipped only before something: for every     *)
(* data, every width of a number, and every sequence of calls, failed ones *)
(* among them.                                                             *)
THEOREM ReadsAreWhole == ScanSpec => []ReadsWhole
<1>1. ScanInit => ReadsWhole
  BY ScannerAssumption
  DEF ScanInit, ReadsWhole, ScanTypeOK, Tiling, StringsWhole, PaddingInside, Remains
<1>2. ReadsWhole /\ [ScanNext]_scanVars => ReadsWhole'
  <2>1. SUFFICES ASSUME ReadsWhole, [ScanNext]_scanVars PROVE ReadsWhole'
    OBVIOUS
  <2>2. data \in Seq(Bytes) /\ offset \in 0 .. Len(data)
    BY <2>1 DEF ReadsWhole, ScanTypeOK, Remains
  <2>3. ASSUME NEW r, Sound(data, offset, r), Call(r) PROVE ReadsWhole'
    BY <2>1, <2>3, CallReadsWhole
  <2>4. CASE Call(ConsumeBe32(data, offset)) \/ Call(ConsumeBe64(data, offset))
    BY <2>2, <2>3, <2>4, ConsumeCellsSound
  <2>5. ASSUME NEW cells \in 0 .. 3, Call(ConsumeCells(data, offset, cells))
        PROVE  ReadsWhole'
    BY <2>2, <2>3, <2>5, ConsumeCellsSound
  <2>6. CASE Call(ConsumeCstr(data, offset))
    BY <2>2, <2>3, <2>6, ConsumeCstrSound
  <2>7. ASSUME NEW size \in Sizes, Call(ConsumeData(data, offset, size))
        PROVE  ReadsWhole'
    BY <2>2, <2>3, <2>7, ScannerAssumption, ConsumeBytesSound DEF ConsumeData
  <2>8. ASSUME NEW alignment \in Alignments, Call(AlignForward(data, offset, alignment))
        PROVE  ReadsWhole'
    BY <2>2, <2>3, <2>8, ScannerAssumption, AlignForwardSound
  <2>9. CASE UNCHANGED scanVars
    BY <2>1, <2>9, StutterReadsWhole DEF scanVars
  <2>. QED
    BY <2>1, <2>4, <2>5, <2>6, <2>7, <2>8, <2>9 DEF ScanNext
<1>. QED
  BY <1>1, <1>2, PTL DEF ScanSpec

-----------------------------------------------------------------------------
(* From the blob to a description of the memory: Fdt and MemoryNodes.      *)
Headed == Len(fdt) >= Len(Fields)

(* The phases in which the header has been accepted, and those in which    *)
(* the reserved block has been read to its end.                            *)
BlockRead == {"slice_structs", "slice_strings", "nodes", "walk", "done"}
HeaderAccepted == BlockRead \cup {"slice_reserved", "reserved"}
Parsing == (HeaderAccepted \ {"walk", "done"}) \cup {"header", "check"}

(* The fields of a header are the first numbers of the blob.               *)
LEMMA HeaderFields ==
  ASSUME fdt \in Seq(Nat), Headed, NEW f \in {Fields[i] : i \in DOMAIN Fields}
  PROVE  header[f] \in Nat
<1>1. Len(Fields) = 10 /\ DOMAIN Fields = 1 .. 10
  BY DEF Fields
<1>2. PICK j \in DOMAIN Fields : j = CHOOSE i \in DOMAIN Fields : Fields[i] = f
  OBVIOUS
<1>3. header[f] = fdt[j]
  BY <1>2 DEF header
<1>4. fdt[j] \in Nat
  BY <1>1 DEF Headed
<1>. QED
  BY <1>3, <1>4

LEMMA HeaderNumbers ==
  ASSUME fdt \in Seq(Nat), Headed
  PROVE  /\ header.totalsize \in Nat /\ header.last_comp_version \in Nat
         /\ header.off_mem_rsvmap \in Nat
         /\ header.off_dt_struct \in Nat /\ header.size_dt_struct \in Nat
         /\ header.off_dt_strings \in Nat /\ header.size_dt_strings \in Nat
<1>1. /\ Fields[2] = "totalsize" /\ Fields[7] = "last_comp_version"
      /\ Fields[5] = "off_mem_rsvmap"
      /\ Fields[3] = "off_dt_struct" /\ Fields[10] = "size_dt_struct"
      /\ Fields[4] = "off_dt_strings" /\ Fields[9] = "size_dt_strings"
      /\ DOMAIN Fields = 1 .. 10
  BY DEF Fields
<1>2. \A i \in 1 .. 10 : header[Fields[i]] \in Nat
  BY <1>1, HeaderFields
<1>. QED
  BY <1>1, <1>2

(* The reserved block is a sequence of numbers, empty if it begins at the  *)
(* end of the blob.                                                        *)
LEMMA BlockIs ==
  ASSUME fdt \in Seq(Nat), Headed
  PROVE  ReservedBlock \in Seq(Nat) /\ Len(ReservedBlock) \in Nat
<1>1. PICK m : m = header.off_mem_rsvmap
  OBVIOUS
<1>2. m \in Nat /\ Len(fdt) \in Nat
  BY <1>1, HeaderNumbers
<1>3. \A i \in m + 1 .. Len(fdt) : fdt[i] \in Nat
  BY <1>2
<1>4. SubSeq(fdt, m + 1, Len(fdt)) \in Seq(Nat)
  BY <1>2, <1>3, SubSeqProperties
<1>. QED
  BY <1>1, <1>4 DEF ReservedBlock

(* Two numbers of two cells each that follow one another.                  *)
LEMMA EntryIs ==
  ASSUME NEW d \in Seq(Nat), NEW o \in Nat, o + 4 <= Len(d)
  PROVE  /\ SubSeq(d, o + 1, o + 2) \in Seq(Nat) /\ SubSeq(d, o + 3, o + 4) \in Seq(Nat)
         /\ SubSeq(d, o + 1, o + 2) \o SubSeq(d, o + 3, o + 4) = SubSeq(d, o + 1, o + 4)
         /\ SubSeq(d, o + 1, o + 2) = Zero /\ SubSeq(d, o + 3, o + 4) = Zero
              <=> SubSeq(d, o + 1, o + 4) = Zero \o Zero
<1>1. \A i \in o + 1 .. o + 4 : d[i] \in Nat
  OBVIOUS
<1>2. PICK a : a = SubSeq(d, o + 1, o + 2)
  OBVIOUS
<1>3. PICK b : b = SubSeq(d, o + 3, o + 4)
  OBVIOUS
<1>4. PICK w : w = SubSeq(d, o + 1, o + 4)
  OBVIOUS
<1>5. a \in Seq(Nat) /\ Len(a) = 2 /\ a[1] = d[o + 1] /\ a[2] = d[o + 2]
  BY <1>1, <1>2
<1>6. b \in Seq(Nat) /\ Len(b) = 2 /\ b[1] = d[o + 3] /\ b[2] = d[o + 4]
  BY <1>1, <1>3
<1>7. /\ w \in Seq(Nat) /\ Len(w) = 4
      /\ w[1] = d[o + 1] /\ w[2] = d[o + 2] /\ w[3] = d[o + 3] /\ w[4] = d[o + 4]
  BY <1>1, <1>4
<1>8. /\ a \o b \in Seq(Nat) /\ Len(a \o b) = 4
      /\ (a \o b)[1] = a[1] /\ (a \o b)[2] = a[2] /\ (a \o b)[3] = b[1] /\ (a \o b)[4] = b[2]
  <2>1. /\ a \o b \in Seq(Nat) /\ Len(a \o b) = Len(a) + Len(b)
        /\ \A i \in 1 .. Len(a) + Len(b) :
             (a \o b)[i] = IF i <= Len(a) THEN a[i] ELSE b[i - Len(a)]
    BY <1>5, <1>6, ConcatProperties
  <2>2. Len(a) + Len(b) = 4
    BY <1>5, <1>6
  <2>3. /\ \A i \in 1 .. 4 : (a \o b)[i] = IF i <= 2 THEN a[i] ELSE b[i - 2]
        /\ 1 \in 1 .. 4 /\ 2 \in 1 .. 4 /\ 3 \in 1 .. 4 /\ 4 \in 1 .. 4
        /\ 1 <= 2 /\ 2 <= 2 /\ ~ (3 <= 2) /\ ~ (4 <= 2)
    BY <1>5, <1>6, <2>1, SMTT(30)
  <2>4. (a \o b)[1] = a[1] /\ (a \o b)[2] = a[2]
    BY <2>3, Zenon
  <2>5. (a \o b)[3] = b[1] /\ (a \o b)[4] = b[2]
    <3>1. PICK v : v = a \o b
      OBVIOUS
    <3>2. v[3] = b[3 - 2] /\ v[4] = b[4 - 2]
      BY <2>3, <3>1, Zenon
    <3>3. v[3] = b[1] /\ v[4] = b[2]
      BY <3>2
    <3>. QED
      BY <3>1, <3>3
  <2>. QED
    BY <2>1, <2>2, <2>4, <2>5
<1>9. a \o b = w
  <2>1. PICK v : v = a \o b
    OBVIOUS
  <2>2. v \in Seq(Nat) /\ Len(v) = 4 /\ v[1] = w[1] /\ v[2] = w[2] /\ v[3] = w[3] /\ v[4] = w[4]
    BY <1>5, <1>6, <1>7, <1>8, <2>1
  <2>3. ASSUME NEW i \in 1 .. 4 PROVE v[i] = w[i]
    <3>1. i = 1 \/ i = 2 \/ i = 3 \/ i = 4
      OBVIOUS
    <3>. QED
      BY <2>2, <3>1, Zenon
  <2>4. v = w
    BY <1>7, <2>2, <2>3, SeqEqual
  <2>. QED
    BY <2>1, <2>4
<1>10. a = Zero <=> a[1] = 0 /\ a[2] = 0
  <2>1. Zero \in Seq(Nat) /\ Len(Zero) = 2 /\ Zero[1] = 0 /\ Zero[2] = 0
    BY DEF Zero
  <2>2. a[1] = 0 /\ a[2] = 0 => \A i \in 1 .. 2 : a[i] = Zero[i]
    BY <2>1
  <2>3. a[1] = 0 /\ a[2] = 0 => a = Zero
    BY <1>5, <2>1, <2>2, SeqEqual
  <2>. QED
    BY <2>1, <2>3
<1>11. b = Zero <=> b[1] = 0 /\ b[2] = 0
  <2>1. Zero \in Seq(Nat) /\ Len(Zero) = 2 /\ Zero[1] = 0 /\ Zero[2] = 0
    BY DEF Zero
  <2>2. b[1] = 0 /\ b[2] = 0 => \A i \in 1 .. 2 : b[i] = Zero[i]
    BY <2>1
  <2>3. b[1] = 0 /\ b[2] = 0 => b = Zero
    BY <1>6, <2>1, <2>2, SeqEqual
  <2>. QED
    BY <2>1, <2>3
<1>12. w = Zero \o Zero <=> w[1] = 0 /\ w[2] = 0 /\ w[3] = 0 /\ w[4] = 0
  <2>1. PICK z : z = Zero \o Zero
    OBVIOUS
  <2>2. z \in Seq(Nat) /\ Len(z) = 4 /\ z[1] = 0 /\ z[2] = 0 /\ z[3] = 0 /\ z[4] = 0
    BY <2>1 DEF Zero
  <2>3. w = z <=> w[1] = 0 /\ w[2] = 0 /\ w[3] = 0 /\ w[4] = 0
    <3>1. w[1] = 0 /\ w[2] = 0 /\ w[3] = 0 /\ w[4] = 0 => \A i \in 1 .. 4 : w[i] = z[i]
      <4>1. ASSUME NEW i \in 1 .. 4 PROVE i = 1 \/ i = 2 \/ i = 3 \/ i = 4
        OBVIOUS
      <4>. QED
        BY <2>2, <4>1, Zenon
    <3>2. w[1] = 0 /\ w[2] = 0 /\ w[3] = 0 /\ w[4] = 0 => w = z
      BY <1>7, <2>2, <3>1, SeqEqual
    <3>. QED
      BY <2>2, <3>2
  <2>. QED
    BY <2>1, <2>3
<1>13. w = Zero \o Zero <=> a = Zero /\ b = Zero
  BY <1>5, <1>6, <1>7, <1>10, <1>11, <1>12
<1>. QED
  BY <1>2, <1>3, <1>4, <1>5, <1>6, <1>9, <1>13

(* What the two reads of parse_reserved return.                            *)
LEMMA RangeReads ==
  ASSUME NEW n \in Nat, rsvOffset = 4 * n, ReservedBlock \in Seq(Nat)
  PROVE  /\ RangeAddress.ok /\ RangeSize.ok <=> 4 * n + 4 <= Len(ReservedBlock)
         /\ RangeAddress.ok /\ RangeSize.ok =>
              /\ RangeSize.to = 4 * n + 4
              /\ Number(RangeAddress) \in Seq(Nat) /\ Number(RangeSize) \in Seq(Nat)
              /\ Number(RangeAddress) \o Number(RangeSize) = Entry(n)
              /\ Terminator <=> Entry(n) = Zero \o Zero
<1>1. PICK d : d = ReservedBlock
  OBVIOUS
<1>2. PICK o : o = 4 * n
  OBVIOUS
<1>3. d \in Seq(Nat) /\ Len(d) \in Nat /\ o \in Nat /\ rsvOffset = o
  BY <1>1, <1>2
<1>4. PICK a : a = RangeAddress
  OBVIOUS
<1>5. PICK s : s = RangeSize
  OBVIOUS
<1>6. a = IF o + 2 > Len(d) THEN [ok |-> FALSE, kind |-> "none", from |-> o, to |-> o]
          ELSE [ok |-> TRUE, kind |-> "number", from |-> o, to |-> o + 2]
  BY <1>1, <1>3, <1>4 DEF RangeAddress, Scan!ConsumeBe64, Scan!ConsumeBytes, Scan!Ok, Scan!Err
<1>7. s = IF a.to + 2 > Len(d) THEN [ok |-> FALSE, kind |-> "none", from |-> a.to, to |-> a.to]
          ELSE [ok |-> TRUE, kind |-> "number", from |-> a.to, to |-> a.to + 2]
  BY <1>1, <1>3, <1>4, <1>5 DEF RangeSize, Scan!ConsumeBe64, Scan!ConsumeBytes, Scan!Ok, Scan!Err
<1>8. a.ok /\ s.ok <=> o + 4 <= Len(d)
  BY <1>3, <1>6, <1>7
<1>9. ASSUME a.ok, s.ok
      PROVE  /\ s.to = o + 4
             /\ Number(a) \in Seq(Nat) /\ Number(s) \in Seq(Nat)
             /\ Number(a) \o Number(s) = Entry(n)
             /\ Number(a) = Zero /\ Number(s) = Zero <=> Entry(n) = Zero \o Zero
  <2>1. /\ a.from = o /\ a.to = o + 2 /\ s.from = o + 2 /\ s.to = o + 4
        /\ (o + 2) + 1 = o + 3 /\ o + 4 <= Len(d)
    BY <1>3, <1>6, <1>7, <1>9
  <2>2. Number(a) = SubSeq(d, o + 1, o + 2) /\ Number(s) = SubSeq(d, o + 3, o + 4)
    BY <1>1, <2>1 DEF Number
  <2>3. Entry(n) = SubSeq(d, o + 1, o + 4)
    BY <1>1, <1>2 DEF Entry
  <2>. QED
    <3>1. /\ SubSeq(d, o + 1, o + 2) \in Seq(Nat) /\ SubSeq(d, o + 3, o + 4) \in Seq(Nat)
          /\ SubSeq(d, o + 1, o + 2) \o SubSeq(d, o + 3, o + 4) = SubSeq(d, o + 1, o + 4)
          /\ SubSeq(d, o + 1, o + 2) = Zero /\ SubSeq(d, o + 3, o + 4) = Zero
               <=> SubSeq(d, o + 1, o + 4) = Zero \o Zero
      BY <1>3, <2>1, EntryIs
    <3>. QED
      BY <2>1, <2>2, <2>3, <3>1, Zenon
<1>. QED
  BY <1>1, <1>2, <1>4, <1>5, <1>8, <1>9 DEF Terminator

-----------------------------------------------------------------------------
(* What the parser has read so far: entries of the reserved block, none of *)
(* them a pair of zeros.                                                   *)
EntriesRead ==
  /\ reserved \in Seq(Seq(Nat) \X Seq(Nat))
  /\ rsvOffset = 4 * Len(reserved)
  /\ \A k \in 0 .. Len(reserved) - 1 :
       /\ 4 * k + 4 <= Len(ReservedBlock)
       /\ Entry(k) = reserved[k + 1][1] \o reserved[k + 1][2]
       /\ Entry(k) # Zero \o Zero

ParserPart ==
  /\ fdt \in Seq(Nat)
  /\ phase \in Parsing \cup {"error", "panicked", "walk", "done"}
  /\ phase \in HeaderAccepted => Headed /\ Supported
  /\ phase = "check" => Headed
  /\ phase \in BlockRead => Terminated(Len(reserved))
  /\ EntriesRead
  /\ phase \in Parsing => tree = NotParsed
  /\ phase \in {"error", "panicked"} /\ tree = NotParsed => ~ GoodBlob
  /\ phase = "error" => tree \in {NotParsed, Refused}

(* All this is about the blob.                                             *)
LEMMA SameBlob ==
  ASSUME UNCHANGED blob
  PROVE  /\ fdt' = fdt /\ reserved' = reserved /\ rsvOffset' = rsvOffset
         /\ EntriesRead' <=> EntriesRead
         /\ Headed' <=> Headed
         /\ Supported' <=> Supported
         /\ GoodBlob' <=> GoodBlob
         /\ Terminated(Len(reserved))' <=> Terminated(Len(reserved))
<1>1. fdt' = fdt /\ reserved' = reserved /\ rsvOffset' = rsvOffset
  BY DEF blob
<1>2. header' = header /\ ReservedBlock' = ReservedBlock
  BY <1>1 DEF header, ReservedBlock
<1>3. \A k : Entry(k)' = Entry(k)
  BY <1>2 DEF Entry
<1>4. \A k : Terminated(k)' <=> Terminated(k)
  BY <1>2, <1>3 DEF Terminated
<1>5. (Supported' <=> Supported) /\ (Contained' <=> Contained)
  BY <1>1, <1>2 DEF Supported, Contained
<1>6. GoodBlob' <=> GoodBlob
  BY <1>1, <1>2, <1>4, <1>5 DEF GoodBlob
<1>7. EntriesRead' <=> EntriesRead
  BY <1>1, <1>2, <1>3 DEF EntriesRead
<1>8. Terminated(Len(reserved))' <=> Terminated(Len(reserved))
  BY <1>1, <1>2, <1>3 DEF Terminated
<1>. QED
  BY <1>1, <1>5, <1>6, <1>7, <1>8 DEF Headed

(* A step that only says what comes next.                                  *)
LEMMA GotoKeepsParser ==
  ASSUME ParserPart, NEW next, Goto(next), UNCHANGED tree, tree = NotParsed,
         next \in Parsing \cup {"error", "panicked"},
         next \in HeaderAccepted => Headed /\ Supported,
         next = "check" => Headed,
         next \in BlockRead => Terminated(Len(reserved)),
         next \in {"error", "panicked"} => ~ GoodBlob
  PROVE  ParserPart'
<1>1. phase' = next /\ UNCHANGED blob
  BY DEF Goto
<1>. QED
  BY <1>1, SameBlob DEF ParserPart

(* The numbers of a header that is accepted; the reserved block.           *)
LEMMA AcceptedHeader ==
  ASSUME ParserPart, phase \in HeaderAccepted
  PROVE  /\ ReservedBlock \in Seq(Nat) /\ Len(ReservedBlock) \in Nat
         /\ header.totalsize <= Len(fdt)
         /\ Len(fdt) \in Nat /\ header.totalsize \in Nat
         /\ header.off_mem_rsvmap \in Nat
         /\ header.off_dt_struct \in Nat /\ header.size_dt_struct \in Nat
         /\ header.off_dt_strings \in Nat /\ header.size_dt_strings \in Nat
<1>1. fdt \in Seq(Nat) /\ Headed /\ Supported
  BY DEF ParserPart
<1>2. header.totalsize <= Len(fdt) /\ Len(fdt) \in Nat
  BY <1>1 DEF Supported
<1>. QED
  BY <1>1, <1>2, HeaderNumbers, BlockIs

(* A block of which no entry read is a pair of zeros, and that has no room *)
(* for another, has no terminator.                                         *)
LEMMA NoTerminator ==
  ASSUME EntriesRead, ReservedBlock \in Seq(Nat),
         ~ (4 * Len(reserved) + 4 <= Len(ReservedBlock))
  PROVE  ~ \E k \in 0 .. Len(ReservedBlock) : Terminated(k)
<1>1. SUFFICES ASSUME NEW k \in 0 .. Len(ReservedBlock), Terminated(k) PROVE FALSE
  OBVIOUS
<1>2. Len(reserved) \in Nat /\ Len(ReservedBlock) \in Nat
  BY DEF EntriesRead
<1>3. 4 * k + 4 <= Len(ReservedBlock) /\ Entry(k) = Zero \o Zero
  BY <1>1 DEF Terminated
<1>4. k \in 0 .. Len(reserved) - 1
  BY <1>1, <1>2, <1>3
<1>. QED
  BY <1>3, <1>4 DEF EntriesRead

(* Another entry is read.                                                  *)
LEMMA ReservedRangeKeeps ==
  ASSUME ParserPart, ReservedRange, UNCHANGED tree
  PROVE  ParserPart'
<1>1. phase = "reserved" /\ RangeAddress.ok /\ RangeSize.ok /\ ~ Terminator
  BY DEF ReservedRange
<1>2. ReservedBlock \in Seq(Nat) /\ EntriesRead
  BY <1>1, AcceptedHeader DEF HeaderAccepted, ParserPart
<1>3. PICK n : n = Len(reserved)
  OBVIOUS
<1>4. n \in Nat /\ rsvOffset = 4 * n /\ reserved \in Seq(Seq(Nat) \X Seq(Nat))
  BY <1>2, <1>3 DEF EntriesRead
<1>5. PICK a : a = Number(RangeAddress)
  OBVIOUS
<1>6. PICK s : s = Number(RangeSize)
  OBVIOUS
<1>7. /\ 4 * n + 4 <= Len(ReservedBlock)
      /\ RangeSize.to = 4 * n + 4
      /\ a \in Seq(Nat) /\ s \in Seq(Nat) /\ a \o s = Entry(n)
      /\ Entry(n) # Zero \o Zero
  BY <1>1, <1>2, <1>4, <1>5, <1>6, RangeReads
<1>8. PICK r : r = <<a, s>>
  OBVIOUS
<1>9. r \in Seq(Nat) \X Seq(Nat) /\ r[1] = a /\ r[2] = s
  BY <1>7, <1>8
<1>10. /\ reserved' = Append(reserved, r)
       /\ rsvOffset' = RangeSize.to
       /\ fdt' = fdt /\ phase' = phase
  BY <1>5, <1>6, <1>8 DEF ReservedRange
<1>11. /\ reserved' \in Seq(Seq(Nat) \X Seq(Nat)) /\ Len(reserved') = n + 1
       /\ \A i \in 1 .. n : reserved'[i] = reserved[i]
       /\ reserved'[n + 1] = r
  BY <1>3, <1>4, <1>9, <1>10
<1>12. header' = header /\ ReservedBlock' = ReservedBlock
  BY <1>10 DEF header, ReservedBlock
<1>13. \A k : Entry(k)' = Entry(k)
  BY <1>12 DEF Entry
<1>14. EntriesRead'
  <2>1. rsvOffset' = 4 * Len(reserved')
    BY <1>4, <1>7, <1>10, <1>11
  <2>2. ASSUME NEW k \in 0 .. Len(reserved') - 1
        PROVE  /\ 4 * k + 4 <= Len(ReservedBlock)
               /\ Entry(k) = reserved'[k + 1][1] \o reserved'[k + 1][2]
               /\ Entry(k) # Zero \o Zero
    <3>1. k = n \/ (k \in 0 .. n - 1 /\ k + 1 \in 1 .. n)
      BY <1>4, <1>11
    <3>2. CASE k = n
      BY <1>7, <1>9, <1>11, <3>2, Zenon
    <3>3. CASE k \in 0 .. n - 1 /\ k + 1 \in 1 .. n
      <4>1. reserved'[k + 1] = reserved[k + 1]
        BY <1>11, <3>3
      <4>. QED
        BY <1>2, <1>3, <3>3, <4>1, Zenon DEF EntriesRead
    <3>. QED
      BY <3>1, <3>2, <3>3
  <2>3. \A k \in 0 .. Len(reserved') - 1 :
          /\ 4 * k + 4 <= Len(ReservedBlock')
          /\ Entry(k)' = reserved'[k + 1][1] \o reserved'[k + 1][2]
          /\ Entry(k)' # Zero \o Zero
    BY <1>12, <1>13, <2>2, Zenon
  <2>. QED
    BY <1>11, <2>1, <2>3, Zenon DEF EntriesRead, Zero
<1>15. Headed /\ Supported
  BY <1>1 DEF ParserPart, HeaderAccepted
<1>16. Headed' /\ Supported'
  BY <1>10, <1>12, <1>15 DEF Headed, Supported
<1>17. fdt \in Seq(Nat) /\ tree = NotParsed
  BY <1>1 DEF ParserPart, Parsing, HeaderAccepted
<1>18. phase' = "reserved" /\ fdt' \in Seq(Nat) /\ tree' = NotParsed
  BY <1>1, <1>10, <1>17
<1>. QED
  BY <1>14, <1>16, <1>18 DEF ParserPart, Parsing, HeaderAccepted, BlockRead

(* The parser goes on to the next part of the blob, or refuses one that is *)
(* not as it says it is.                                                   *)
LEMMA ParseStepKeeps ==
  ASSUME ParserPart, ParseStep, UNCHANGED tree
  PROVE  ParserPart'
<1>1. phase \in Parsing /\ tree = NotParsed /\ EntriesRead
  BY DEF ParserPart, ParseStep, HeaderShort, HeaderRead, CheckHeader, SliceReserved, ReservedShort,
         ReservedRange, ReservedEnd, SliceStructs, SliceStrings, Parsing, HeaderAccepted, BlockRead
<1>a. /\ phase = "slice_reserved" => phase \in HeaderAccepted
      /\ phase = "reserved" => phase \in HeaderAccepted
      /\ phase = "slice_structs" => phase \in HeaderAccepted
      /\ phase = "slice_strings" => phase \in HeaderAccepted
  BY DEF HeaderAccepted, BlockRead
<1>b. phase \in HeaderAccepted => Headed /\ Supported
  BY DEF ParserPart
<1>2. CASE HeaderShort
  <2>1. Goto("error") /\ ~ GoodBlob
    <3>1. Len(fdt) \in Nat /\ Len(Fields) = 10
      BY DEF ParserPart, Fields
    <3>. QED
      BY <1>2, <3>1 DEF HeaderShort, GoodBlob
  <2>. QED
    BY <1>1, <2>1, GotoKeepsParser DEF HeaderAccepted, BlockRead
<1>3. CASE HeaderRead
  <2>1. Goto("check") /\ Headed
    BY <1>3 DEF HeaderRead, Headed
  <2>. QED
    BY <1>1, <2>1, GotoKeepsParser DEF HeaderAccepted, BlockRead, Parsing
<1>4. CASE CheckHeader
  <2>1. Headed
    BY <1>4 DEF CheckHeader, ParserPart
  <2>2. CASE Supported
    <3>1. Goto("slice_reserved")
      BY <1>4, <2>2 DEF CheckHeader
    <3>. QED
      BY <1>1, <2>1, <2>2, <3>1, GotoKeepsParser DEF HeaderAccepted, BlockRead, Parsing
  <2>3. CASE ~ Supported
    <3>1. Goto("error") /\ ~ GoodBlob
      BY <1>4, <2>3 DEF CheckHeader, GoodBlob
    <3>. QED
      BY <1>1, <3>1, GotoKeepsParser DEF HeaderAccepted, BlockRead
  <2>. QED
    BY <2>2, <2>3
<1>5. CASE SliceReserved
  <2>1. phase = "slice_reserved"
    BY <1>5 DEF SliceReserved
  <2>2. /\ header.totalsize <= Len(fdt) /\ Len(fdt) \in Nat /\ header.totalsize \in Nat
        /\ header.off_mem_rsvmap \in Nat
    BY <1>a, <2>1, AcceptedHeader
  <2>3. CASE header.off_mem_rsvmap <= Len(fdt)
    <3>1. Goto("reserved")
      BY <1>5, <2>3 DEF SliceReserved
    <3>. QED
      BY <1>1, <1>a, <1>b, <2>1, <3>1, GotoKeepsParser DEF HeaderAccepted, BlockRead, Parsing
  <2>4. CASE ~ (header.off_mem_rsvmap <= Len(fdt))
    <3>1. Goto("panicked")
      BY <1>5, <2>4 DEF SliceReserved
    <3>2. ~ (header.off_mem_rsvmap <= header.totalsize)
      BY <2>2, <2>4
    <3>3. ~ GoodBlob
      BY <3>2 DEF GoodBlob, Contained
    <3>. QED
      BY <1>1, <3>1, <3>3, GotoKeepsParser DEF HeaderAccepted, BlockRead
  <2>. QED
    BY <2>3, <2>4
<1>6. CASE ReservedShort
  <2>1. phase = "reserved" /\ Goto("error") /\ ~ (RangeAddress.ok /\ RangeSize.ok)
    BY <1>6 DEF ReservedShort
  <2>2. ReservedBlock \in Seq(Nat) /\ Len(reserved) \in Nat /\ rsvOffset = 4 * Len(reserved)
    BY <1>1, <1>a, <2>1, AcceptedHeader DEF EntriesRead
  <2>3. ~ (4 * Len(reserved) + 4 <= Len(ReservedBlock))
    BY <2>1, <2>2, RangeReads
  <2>4. ~ GoodBlob
    BY <1>1, <2>2, <2>3, NoTerminator DEF GoodBlob
  <2>. QED
    BY <1>1, <2>1, <2>4, GotoKeepsParser DEF HeaderAccepted, BlockRead
<1>7. CASE ReservedRange
  BY <1>7, ReservedRangeKeeps
<1>8. CASE ReservedEnd
  <2>1. phase = "reserved" /\ Goto("slice_structs") /\ RangeAddress.ok /\ RangeSize.ok /\ Terminator
    BY <1>8 DEF ReservedEnd
  <2>2. ReservedBlock \in Seq(Nat) /\ Len(reserved) \in Nat /\ rsvOffset = 4 * Len(reserved)
    BY <1>1, <1>a, <2>1, AcceptedHeader DEF EntriesRead
  <2>3. 4 * Len(reserved) + 4 <= Len(ReservedBlock) /\ Entry(Len(reserved)) = Zero \o Zero
    BY <2>1, <2>2, RangeReads
  <2>4. \A j \in 0 .. Len(reserved) - 1 : Entry(j) # Zero \o Zero
    BY <1>1 DEF EntriesRead
  <2>5. Terminated(Len(reserved))
    BY <2>3, <2>4 DEF Terminated
  <2>. QED
    BY <1>1, <1>a, <1>b, <2>1, <2>5, GotoKeepsParser DEF Parsing, HeaderAccepted, BlockRead
<1>9. CASE SliceStructs
  <2>1. phase = "slice_structs"
    BY <1>9 DEF SliceStructs
  <2>2. /\ header.totalsize <= Len(fdt) /\ Len(fdt) \in Nat /\ header.totalsize \in Nat
        /\ header.off_dt_struct \in Nat /\ header.size_dt_struct \in Nat
        /\ Terminated(Len(reserved))
    BY <1>a, <2>1, AcceptedHeader DEF ParserPart, BlockRead
  <2>3. CASE header.off_dt_struct + header.size_dt_struct <= Len(fdt)
    <3>1. Goto("slice_strings")
      BY <1>9, <2>3 DEF SliceStructs
    <3>. QED
      BY <1>1, <1>a, <1>b, <2>1, <2>2, <3>1, GotoKeepsParser DEF HeaderAccepted, BlockRead, Parsing
  <2>4. CASE ~ (header.off_dt_struct + header.size_dt_struct <= Len(fdt))
    <3>1. Goto("panicked")
      BY <1>9, <2>4 DEF SliceStructs
    <3>2. ~ (header.off_dt_struct + header.size_dt_struct <= header.totalsize)
      BY <2>2, <2>4
    <3>3. ~ GoodBlob
      BY <3>2 DEF GoodBlob, Contained
    <3>. QED
      BY <1>1, <3>1, <3>3, GotoKeepsParser DEF HeaderAccepted, BlockRead
  <2>. QED
    BY <2>3, <2>4
<1>10. CASE SliceStrings
  <2>1. phase = "slice_strings"
    BY <1>10 DEF SliceStrings
  <2>2. /\ header.totalsize <= Len(fdt) /\ Len(fdt) \in Nat /\ header.totalsize \in Nat
        /\ header.off_dt_strings \in Nat /\ header.size_dt_strings \in Nat
        /\ Terminated(Len(reserved))
    BY <1>a, <2>1, AcceptedHeader DEF ParserPart, BlockRead
  <2>3. CASE header.off_dt_strings + header.size_dt_strings <= Len(fdt)
    <3>1. Goto("nodes")
      BY <1>10, <2>3 DEF SliceStrings
    <3>. QED
      BY <1>1, <1>a, <1>b, <2>1, <2>2, <3>1, GotoKeepsParser DEF HeaderAccepted, BlockRead, Parsing
  <2>4. CASE ~ (header.off_dt_strings + header.size_dt_strings <= Len(fdt))
    <3>1. Goto("panicked")
      BY <1>10, <2>4 DEF SliceStrings
    <3>2. ~ (header.off_dt_strings + header.size_dt_strings <= header.totalsize)
      BY <2>2, <2>4
    <3>3. ~ GoodBlob
      BY <3>2 DEF GoodBlob, Contained
    <3>. QED
      BY <1>1, <3>1, <3>3, GotoKeepsParser DEF HeaderAccepted, BlockRead
  <2>. QED
    BY <2>3, <2>4
<1>. QED
  BY <1>2, <1>3, <1>4, <1>5, <1>6, <1>7, <1>8, <1>9, <1>10 DEF ParseStep

-----------------------------------------------------------------------------
(* The loops over the memory nodes and the entries of their reg.           *)

(* A number of cells is read if there are so many bytes, and no more than  *)
(* two cells are asked for.                                                *)
LEMMA CellsRead ==
  ASSUME NEW d, Len(d) \in Nat, NEW o \in Nat, o <= Len(d), NEW c \in Nat, CellBytes \in Nat
  PROVE  LET r == RegScan!ConsumeCells(d, o, c)
         IN  /\ r.ok <=> c <= 2 /\ o + c * CellBytes <= Len(d)
             /\ r.ok => r.to = o + c * CellBytes
             /\ r.to \in Nat /\ r.to <= Len(d)
<1>. PICK r : r = RegScan!ConsumeCells(d, o, c)
  OBVIOUS
<1>1. CASE c = 0
  <2>1. r = [ok |-> TRUE, kind |-> "number", from |-> o, to |-> o]
    BY <1>1 DEF RegScan!ConsumeCells, RegScan!Ok
  <2>2. c * CellBytes = 0
    BY <1>1
  <2>. QED
    BY <1>1, <2>1, <2>2
<1>2. CASE c = 1
  <2>1. r = IF o + CellBytes > Len(d) THEN [ok |-> FALSE, kind |-> "none", from |-> o, to |-> o]
            ELSE [ok |-> TRUE, kind |-> "number", from |-> o, to |-> o + CellBytes]
    BY <1>2 DEF RegScan!ConsumeCells, RegScan!ConsumeBe32, RegScan!ConsumeBytes, RegScan!Ok, RegScan!Err
  <2>2. c * CellBytes = CellBytes
    BY <1>2
  <2>. QED
    BY <1>2, <2>1, <2>2
<1>3. CASE c = 2
  <2>1. r = IF o + 2 * CellBytes > Len(d) THEN [ok |-> FALSE, kind |-> "none", from |-> o, to |-> o]
            ELSE [ok |-> TRUE, kind |-> "number", from |-> o, to |-> o + 2 * CellBytes]
    BY <1>3 DEF RegScan!ConsumeCells, RegScan!ConsumeBe64, RegScan!ConsumeBytes, RegScan!Ok, RegScan!Err
  <2>. QED
    BY <1>3, <2>1
<1>4. CASE c > 2
  <2>1. r = [ok |-> FALSE, kind |-> "none", from |-> o, to |-> o]
    BY <1>4 DEF RegScan!ConsumeCells, RegScan!Err
  <2>. QED
    BY <1>4, <2>1
<1>. QED
  BY <1>1, <1>2, <1>3, <1>4

(* An address and a size.                                                  *)
LEMMA EntryReads ==
  ASSUME NEW d, Len(d) \in Nat, NEW o \in Nat, o <= Len(d), NEW a \in Nat, NEW s \in Nat,
         CellBytes \in Nat, NEW w \in Nat, w = (a + s) * CellBytes,
         NEW A, A = RegScan!ConsumeCells(d, o, a),
         NEW S, S = RegScan!ConsumeCells(d, A.to, s)
  PROVE  /\ A.ok /\ S.ok <=> a <= 2 /\ s <= 2 /\ o + w <= Len(d)
         /\ A.ok /\ S.ok => S.to = o + w
<1>. PICK x, y : x = a * CellBytes /\ y = s * CellBytes
  OBVIOUS
<1>1. x \in Nat /\ y \in Nat /\ w = x + y
  OBVIOUS
<1>2. /\ A.ok <=> a <= 2 /\ o + x <= Len(d)
      /\ A.ok => A.to = o + x
      /\ A.to \in Nat /\ A.to <= Len(d)
  BY CellsRead
<1>3. /\ S.ok <=> s <= 2 /\ A.to + y <= Len(d)
      /\ S.ok => S.to = A.to + y
  BY <1>2, CellsRead
<1>. QED
  BY <1>1, <1>2, <1>3

(* Where the loops are.  A node whose reg does not divide is the reason of *)
(* a panic; the entries added are those of the nodes passed and those of   *)
(* the reg in hand, unless its entries have no bytes.                      *)
BytesOf(n) == tree.children[n].reg
Cut(e) == e = 0 \/ (CellsSupported /\ Width > 0 /\ e % Width = 0)
EntriesTo(n, e) == {<<n, b, b + Width>> : b \in {c \in 0 .. e - 1 : c % Width = 0}}
EntriesBefore(m) == UNION {EntriesTo(n, BytesOf(n)) : n \in {k \in Regs : k < m}}

AddedIs == added = EntriesBefore(node) \cup (IF reading THEN EntriesTo(node, regOffset) ELSE {})

InReg ==
  /\ node \in Regs
  /\ BytesOf(node) \in Nat
  /\ regOffset \in 0 .. BytesOf(node)
  /\ Cut(regOffset)

LoopPart ==
  /\ node \in 1 .. Len(tree.children) + 1
  /\ \A n \in Regs : n < node => Divides(n)
  /\ reading => InReg
  /\ AddedIs \/ (reading /\ Width = 0 /\ BytesOf(node) > 0)

WalkPart ==
  /\ tree \in Trees \cup {NotParsed, Refused}
  /\ reading \in BOOLEAN
  /\ phase \in {"walk", "done"} => tree \in Trees
  /\ tree \notin Trees => ~ reading /\ added = {} /\ node = 1
  /\ tree \in Trees => LoopPart
  /\ phase = "panicked" /\ tree \in Trees => \E n \in Regs : ~ Divides(n)
  /\ phase = "done" => node \notin DOMAIN tree.children /\ ~ reading

SetupInv == ParserPart /\ WalkPart

(* What a tree is.                                                         *)
LEMMA TreeIs ==
  ASSUME tree \in Trees
  PROVE  /\ tree \notin {NotParsed, Refused}
         /\ Len(tree.children) \in Nat /\ DOMAIN tree.children = 1 .. Len(tree.children)
         /\ AddressCells \in Nat /\ SizeCells \in Nat /\ Width \in Nat
         /\ Width = (AddressCells + SizeCells) * CellBytes /\ CellBytes \in Nat
         /\ \A n \in 1 .. Len(tree.children) : BytesOf(n) \in Nat \/ BytesOf(n) = NoReg
         /\ \A n \in 1 .. Len(tree.children) : MemoryNode(n) \in BOOLEAN
<1>1. /\ tree.children \in Seq([memory : BOOLEAN, reg : {NoReg} \cup Nat])
      /\ tree.cells \in Nat \X Nat
      /\ CellBytes \in Nat
      /\ tree \notin {NotParsed, Refused}
  BY TreeAssumption
<1>2. AddressCells \in Nat /\ SizeCells \in Nat
  BY <1>1 DEF AddressCells, SizeCells
<1>3. Width \in Nat
  <2>1. PICK c : c = AddressCells + SizeCells
    OBVIOUS
  <2>2. c * CellBytes \in Nat
    BY <1>1, <1>2, <2>1, Products
  <2>. QED
    BY <2>1, <2>2 DEF Width
<1>4. \A n \in 1 .. Len(tree.children) : tree.children[n] \in [memory : BOOLEAN, reg : {NoReg} \cup Nat]
  <2>1. PICK R : R = [memory : BOOLEAN, reg : {NoReg} \cup Nat]
    OBVIOUS
  <2>2. PICK c : c = tree.children
    OBVIOUS
  <2>3. c \in Seq(R)
    BY <1>1, <2>1, <2>2
  <2>4. \A n \in 1 .. Len(c) : c[n] \in R
    BY <2>3
  <2>. QED
    BY <2>1, <2>2, <2>4
<1>. QED
  BY <1>1, <1>2, <1>3, <1>4 DEF Width, BytesOf, MemoryNode

(* All this is about the tree.                                             *)
LEMMA SameTree ==
  ASSUME UNCHANGED tree
  PROVE  /\ Regs' = Regs /\ Width' = Width
         /\ CellsSupported' <=> CellsSupported
         /\ \A n : Divides(n)' <=> Divides(n)
         /\ \A n : BytesOf(n)' = BytesOf(n)
         /\ \A e : Cut(e)' <=> Cut(e)
         /\ \A n, e : EntriesTo(n, e)' = EntriesTo(n, e)
         /\ \A m : EntriesBefore(m)' = EntriesBefore(m)
<1>1. Regs' = Regs
  BY DEF Regs, MemoryNode
<1>2. Width' = Width /\ (CellsSupported' <=> CellsSupported)
  BY DEF Width, AddressCells, SizeCells, CellsSupported
<1>3. \A n : BytesOf(n)' = BytesOf(n)
  BY DEF BytesOf
<1>4. \A n : Divides(n)' <=> Divides(n)
  BY <1>2 DEF Divides
<1>5. \A e : Cut(e)' <=> Cut(e)
  BY <1>2 DEF Cut
<1>6. \A n, e : EntriesTo(n, e)' = EntriesTo(n, e)
  BY <1>2 DEF EntriesTo
<1>7. \A m : EntriesBefore(m)' = EntriesBefore(m)
  BY <1>1, <1>3, <1>6 DEF EntriesBefore
<1>. QED
  BY <1>1, <1>2, <1>3, <1>4, <1>5, <1>6, <1>7, Zenon

(* Divides says of all bytes of a reg what Cut says of those read.         *)
LEMMA DividesIsCut ==
  ASSUME NEW n, BytesOf(n) \in Nat
  PROVE  Divides(n) <=> Cut(BytesOf(n))
BY DEF Divides, Cut, BytesOf

(* The entries up to the end of one more.                                  *)
LEMMA NextEntry ==
  ASSUME NEW n, NEW e \in Nat, Width \in Nat \ {0}, e % Width = 0
  PROVE  EntriesTo(n, e + Width) = EntriesTo(n, e) \cup {<<n, e, e + Width>>}
<1>. PICK w : w = Width
  OBVIOUS
<1>1. ASSUME NEW c \in 0 .. e + w - 1, c % w = 0, c \notin 0 .. e - 1 PROVE c = e
  <2>1. c \in Nat /\ e <= c /\ c < e + w
    BY <1>1
  <2>2. e < c => e + w <= c
    BY <1>1, <2>1, NextMultiple
  <2>. QED
    BY <2>1, <2>2
<1>2. {c \in 0 .. e + w - 1 : c % w = 0} = {c \in 0 .. e - 1 : c % w = 0} \cup {e}
  <2>1. e \in 0 .. e + w - 1 /\ 0 .. e - 1 \subseteq 0 .. e + w - 1
    OBVIOUS
  <2>. QED
    BY <1>1, <2>1, Zenon
<1>3. {<<n, b, b + w>> : b \in {c \in 0 .. e + w - 1 : c % w = 0}}
        = {<<n, b, b + w>> : b \in {c \in 0 .. e - 1 : c % w = 0}} \cup {<<n, e, e + w>>}
  BY <1>2, Zenon
<1>. QED
  BY <1>3 DEF EntriesTo

(* No entries lie before the first byte.                                   *)
LEMMA NoEntries ==
  ASSUME NEW n
  PROVE  EntriesTo(n, 0) = {}
BY DEF EntriesTo

(* A node passed adds its entries, or none.                                *)
LEMMA PassNode ==
  ASSUME NEW m \in Nat, Regs \subseteq Nat
  PROVE  /\ m \in Regs => EntriesBefore(m + 1) = EntriesBefore(m) \cup EntriesTo(m, BytesOf(m))
         /\ m \notin Regs => EntriesBefore(m + 1) = EntriesBefore(m)
<1>1. \A k \in Regs : k < m + 1 <=> k < m \/ k = m
  OBVIOUS
<1>2. ASSUME NEW x
      PROVE  x \in EntriesBefore(m + 1)
               <=> x \in EntriesBefore(m) \/ (m \in Regs /\ x \in EntriesTo(m, BytesOf(m)))
  <2>1. \A j : x \in EntriesBefore(j) <=> \E n \in Regs : n < j /\ x \in EntriesTo(n, BytesOf(n))
    BY Zenon DEF EntriesBefore
  <2>. QED
    BY <1>1, <2>1, Zenon
<1>3. ASSUME m \in Regs
      PROVE  EntriesBefore(m + 1) = EntriesBefore(m) \cup EntriesTo(m, BytesOf(m))
  BY <1>2, <1>3
<1>4. ASSUME m \notin Regs PROVE EntriesBefore(m + 1) = EntriesBefore(m)
  BY <1>2, <1>4
<1>. QED
  BY <1>3, <1>4

(* The loops leave alone what the parser has read.                         *)
LEMMA WalkLeavesParser ==
  ASSUME ParserPart, phase = "walk", UNCHANGED <<blob, tree>>, tree \in Trees,
         phase' \in {"walk", "done", "panicked"}
  PROVE  ParserPart'
<1>1. /\ fdt \in Seq(Nat) /\ Headed /\ Supported /\ Terminated(Len(reserved)) /\ EntriesRead
  BY DEF ParserPart, HeaderAccepted, BlockRead
<1>2. fdt' \in Seq(Nat) /\ Headed' /\ Supported' /\ Terminated(Len(reserved))' /\ EntriesRead'
  BY <1>1, SameBlob
<1>3. tree' \notin {NotParsed, Refused}
  BY TreeIs
<1>. QED
  BY <1>2, <1>3 DEF ParserPart, Parsing, HeaderAccepted, BlockRead

(* A panic in the loops, at a node that does not divide.                   *)
LEMMA PanicKeeps ==
  ASSUME SetupInv, phase = "walk", Panic, NEW n \in Regs, ~ Divides(n)
  PROVE  SetupInv'
<1>1. tree \in Trees /\ LoopPart /\ reading \in BOOLEAN
  BY DEF SetupInv, WalkPart
<1>2. /\ UNCHANGED <<blob, tree, node, reading, regOffset, added>> /\ phase' = "panicked"
  BY DEF Panic, walk
<1>3. ParserPart'
  BY <1>1, <1>2, WalkLeavesParser DEF SetupInv
<1>4. LoopPart'
  BY <1>1, <1>2, SameTree DEF LoopPart, InReg, AddedIs
<1>5. \E k \in Regs' : ~ Divides(k)'
  BY <1>2, SameTree
<1>. QED
  BY <1>1, <1>2, <1>3, <1>4, <1>5 DEF SetupInv, WalkPart

(* A step of the loops that finds nothing wrong.                           *)
LEMMA WalkOn ==
  ASSUME SetupInv, phase = "walk", UNCHANGED <<blob, phase, tree>>, reading' \in BOOLEAN,
         LoopPart'
  PROVE  SetupInv'
<1>1. tree \in Trees
  BY DEF SetupInv, WalkPart
<1>2. ParserPart'
  BY <1>1, WalkLeavesParser DEF SetupInv
<1>. QED
  BY <1>1, <1>2 DEF SetupInv, WalkPart

(* What the loops know between two steps.                                  *)
LEMMA LoopFacts ==
  ASSUME SetupInv, phase = "walk"
  PROVE  /\ tree \in Trees /\ LoopPart /\ reading \in BOOLEAN
         /\ Len(tree.children) \in Nat /\ DOMAIN tree.children = 1 .. Len(tree.children)
         /\ Regs \subseteq 1 .. Len(tree.children) /\ Regs \subseteq Nat
         /\ Regs = {n \in 1 .. Len(tree.children) : MemoryNode(n)}
         /\ node \in 1 .. Len(tree.children) + 1 /\ node \in Nat
         /\ Width \in Nat
<1>1. tree \in Trees /\ LoopPart /\ reading \in BOOLEAN
  BY DEF SetupInv, WalkPart
<1>2. /\ Len(tree.children) \in Nat /\ DOMAIN tree.children = 1 .. Len(tree.children)
      /\ Width \in Nat
  BY <1>1, TreeIs
<1>3. Regs = {n \in 1 .. Len(tree.children) : MemoryNode(n)}
  BY <1>2 DEF Regs
<1>4. Regs \subseteq 1 .. Len(tree.children) /\ Regs \subseteq Nat
  BY <1>2, <1>3
<1>. QED
  BY <1>1, <1>2, <1>3, <1>4 DEF LoopPart

(* Nodes that describe no memory are passed over.                          *)
LEMMA OtherNodeKeeps ==
  ASSUME SetupInv, OtherNode
  PROVE  SetupInv'
<1>1. /\ phase = "walk" /\ ~ reading /\ node \in DOMAIN tree.children /\ ~ MemoryNode(node)
      /\ node' = node + 1 /\ UNCHANGED <<blob, phase, tree, reading, regOffset, added>>
  BY DEF OtherNode, AtNode
<1>2. /\ LoopPart /\ Regs \subseteq Nat /\ node \in Nat /\ node \notin Regs
      /\ node \in 1 .. Len(tree.children) /\ Len(tree.children) \in Nat
  BY <1>1, LoopFacts DEF Regs
<1>3. \A n \in Regs : n < node + 1 => n < node
  BY <1>2
<1>4. node + 1 \in 1 .. Len(tree.children) + 1
  BY <1>2
<1>5. added = EntriesBefore(node + 1)
  BY <1>1, <1>2, PassNode DEF LoopPart, AddedIs
<1>6. LoopPart'
  <2>1. Regs' = Regs /\ (\A n : Divides(n)' <=> Divides(n)) /\ \A m : EntriesBefore(m)' = EntriesBefore(m)
    BY <1>1, SameTree
  <2>2. \A n \in Regs' : n < node' => Divides(n)'
    BY <1>1, <1>2, <1>3, <2>1 DEF LoopPart
  <2>3. AddedIs'
    BY <1>1, <1>5, <2>1 DEF AddedIs
  <2>. QED
    BY <1>1, <1>4, <2>2, <2>3 DEF LoopPart
<1>. QED
  BY <1>1, <1>6, WalkOn, LoopFacts

(* The reg of a memory node is opened.                                     *)
LEMMA OpenRegKeeps ==
  ASSUME SetupInv, OpenReg
  PROVE  SetupInv'
<1>1. /\ phase = "walk" /\ ~ reading /\ node \in DOMAIN tree.children /\ MemoryNode(node)
      /\ tree.children[node].reg # NoReg
      /\ reading' = TRUE /\ regOffset' = 0 /\ UNCHANGED <<blob, phase, tree, node, added>>
  BY DEF OpenReg, AtNode
<1>2. /\ LoopPart /\ tree \in Trees /\ node \in Regs
      /\ node \in 1 .. Len(tree.children) /\ Len(tree.children) \in Nat
  BY <1>1, LoopFacts DEF Regs
<1>3. BytesOf(node) \in Nat
  BY <1>1, <1>2, TreeIs DEF BytesOf
<1>4. added = EntriesBefore(node) \cup EntriesTo(node, 0)
  BY <1>1, <1>2, NoEntries DEF LoopPart, AddedIs
<1>5. LoopPart'
  <2>1. /\ Regs' = Regs /\ (\A n : Divides(n)' <=> Divides(n))
        /\ (\A m : EntriesBefore(m)' = EntriesBefore(m)) /\ BytesOf(node)' = BytesOf(node)
        /\ (\A n, e : EntriesTo(n, e)' = EntriesTo(n, e))
    BY <1>1, SameTree
  <2>2. InReg'
    BY <1>1, <1>2, <1>3, <2>1 DEF InReg, Cut
  <2>3. AddedIs'
    BY <1>1, <1>4, <2>1 DEF AddedIs
  <2>. QED
    BY <1>1, <1>2, <2>1, <2>2, <2>3 DEF LoopPart
<1>. QED
  BY <1>1, <1>5, WalkOn, LoopFacts

(* What the reads of an entry return.                                      *)
LEMMA EntryFacts ==
  ASSUME SetupInv, AtEntry
  PROVE  /\ phase = "walk" /\ reading /\ InReg
         /\ tree \in Trees /\ LoopPart /\ Width \in Nat
         /\ regOffset \in Nat /\ BytesOf(node) \in Nat /\ regOffset < BytesOf(node)
         /\ Address.ok /\ Size.ok <=> CellsSupported /\ regOffset + Width <= BytesOf(node)
         /\ Address.ok /\ Size.ok => Size.to = regOffset + Width
<1>1. phase = "walk" /\ reading /\ RegScan!Remains(Reg(node), regOffset) > 0
  BY DEF AtEntry
<1>2. tree \in Trees /\ LoopPart /\ Width \in Nat
  BY <1>1, LoopFacts
<1>3. InReg
  BY <1>1, <1>2 DEF LoopPart
<1>4. PICK d : d = Reg(node)
  OBVIOUS
<1>5. Len(d) = BytesOf(node) /\ Len(d) \in Nat
  BY <1>3, <1>4 DEF InReg, Reg, BytesOf
<1>6. regOffset \in Nat /\ regOffset <= Len(d)
  BY <1>3, <1>5 DEF InReg
<1>7. regOffset < Len(d)
  BY <1>1, <1>4, <1>5, <1>6 DEF RegScan!Remains
<1>8. /\ AddressCells \in Nat /\ SizeCells \in Nat /\ CellBytes \in Nat
      /\ Width = (AddressCells + SizeCells) * CellBytes
  BY <1>2, TreeIs
<1>9. /\ Address = RegScan!ConsumeCells(d, regOffset, AddressCells)
      /\ Size = RegScan!ConsumeCells(d, Address.to, SizeCells)
  BY <1>4 DEF Address, Size
<1>10. /\ Address.ok /\ Size.ok <=> AddressCells <= 2 /\ SizeCells <= 2 /\ regOffset + Width <= Len(d)
       /\ Address.ok /\ Size.ok => Size.to = regOffset + Width
  BY <1>2, <1>5, <1>6, <1>8, <1>9, EntryReads
<1>. QED
  BY <1>1, <1>2, <1>3, <1>5, <1>6, <1>7, <1>10 DEF CellsSupported

(* An entry is added, and the next begins where it ends.                   *)
LEMMA AddEntryKeeps ==
  ASSUME SetupInv, AddEntry
  PROVE  SetupInv'
<1>1. /\ AtEntry /\ Address.ok /\ Size.ok
      /\ added' = added \cup {<<node, regOffset, Size.to>>}
      /\ regOffset' = Size.to
      /\ UNCHANGED <<blob, phase, tree, node, reading>>
  BY DEF AddEntry
<1>2. PICK o : o = regOffset
  OBVIOUS
<1>3. PICK w : w = Width
  OBVIOUS
<1>4. /\ phase = "walk" /\ reading /\ InReg /\ tree \in Trees /\ LoopPart
      /\ w \in Nat /\ o \in Nat /\ BytesOf(node) \in Nat /\ o < BytesOf(node)
      /\ CellsSupported /\ o + w <= BytesOf(node) /\ Size.to = o + w
  BY <1>1, <1>2, <1>3, EntryFacts
<1>5. Cut(o)
  BY <1>2, <1>4 DEF InReg
<1>6. Cut(o + w)
  <2>1. CASE w = 0
    BY <1>3, <1>4, <1>5, <2>1 DEF Cut
  <2>2. CASE w # 0
    <3>1. o % w = 0
      <4>1. o = 0 \/ o % w = 0
        BY <1>3, <1>5 DEF Cut
      <4>2. 0 % w = 0
        BY <1>4, <2>2
      <4>. QED
        BY <4>1, <4>2
    <3>2. (o + w) % w = 0
      BY <1>4, <2>2, <3>1, NextMultiple
    <3>. QED
      BY <1>3, <1>4, <2>2, <3>2 DEF Cut
  <2>. QED
    BY <2>1, <2>2
<1>7. added' = EntriesBefore(node) \cup EntriesTo(node, o + w) \/ w = 0
  <2>1. SUFFICES ASSUME w # 0 PROVE added' = EntriesBefore(node) \cup EntriesTo(node, o + w)
    OBVIOUS
  <2>2. added = EntriesBefore(node) \cup EntriesTo(node, o)
    BY <1>2, <1>3, <1>4, <2>1 DEF LoopPart, AddedIs
  <2>3. o % w = 0
    <3>1. o = 0 \/ o % w = 0
      BY <1>3, <1>5 DEF Cut
    <3>2. 0 % w = 0
      BY <1>4, <2>1
    <3>. QED
      BY <3>1, <3>2
  <2>4. EntriesTo(node, o + w) = EntriesTo(node, o) \cup {<<node, o, o + w>>}
    BY <1>3, <1>4, <2>1, <2>3, NextEntry
  <2>. QED
    BY <1>1, <1>2, <1>4, <2>2, <2>4
<1>8. LoopPart'
  <2>1. /\ Regs' = Regs /\ (\A n : Divides(n)' <=> Divides(n)) /\ Width' = Width
        /\ (\A m : EntriesBefore(m)' = EntriesBefore(m)) /\ BytesOf(node)' = BytesOf(node)
        /\ (\A n, e : EntriesTo(n, e)' = EntriesTo(n, e)) /\ (\A e : Cut(e)' <=> Cut(e))
    BY <1>1, SameTree
  <2>2. regOffset' = o + w /\ o + w \in 0 .. BytesOf(node)
    BY <1>1, <1>4
  <2>3. InReg'
    <3>1. node' \in Regs' /\ BytesOf(node)' \in Nat
      BY <1>1, <1>4, <2>1 DEF InReg
    <3>2. Cut(o + w)' <=> Cut(o + w)
      BY <2>1
    <3>3. Cut(regOffset)'
      BY <1>6, <2>2, <3>2 DEF Cut
    <3>. QED
      BY <2>1, <2>2, <3>1, <3>3 DEF InReg
  <2>4. AddedIs' \/ w = 0
    BY <1>1, <1>4, <1>7, <2>1, <2>2 DEF AddedIs
  <2>5. w = 0 => Width' = 0 /\ BytesOf(node)' > 0
    BY <1>3, <1>4, <2>1
  <2>. QED
    BY <1>1, <1>4, <2>1, <2>3, <2>4, <2>5 DEF LoopPart
<1>. QED
  BY <1>1, <1>4, <1>8, WalkOn, LoopFacts

(* The bytes left are too few for an entry, or no cells of that number can *)
(* be read.                                                                *)
LEMMA BadEntryKeeps ==
  ASSUME SetupInv, BadEntry
  PROVE  SetupInv'
<1>1. AtEntry /\ ~ (Address.ok /\ Size.ok) /\ Panic
  BY DEF BadEntry
<1>2. PICK o : o = regOffset
  OBVIOUS
<1>3. PICK w : w = Width
  OBVIOUS
<1>4. PICK b : b = BytesOf(node)
  OBVIOUS
<1>5. /\ phase = "walk" /\ InReg
      /\ w \in Nat /\ o \in Nat /\ b \in Nat /\ o < b
      /\ ~ (CellsSupported /\ o + w <= b)
  BY <1>1, <1>2, <1>3, <1>4, EntryFacts
<1>6. ~ Divides(node)
  <2>1. SUFFICES ASSUME Divides(node) PROVE FALSE
    OBVIOUS
  <2>2. Cut(b) /\ Cut(o)
    BY <1>2, <1>4, <1>5, <2>1, DividesIsCut DEF InReg
  <2>3. CellsSupported /\ w > 0 /\ b % w = 0
    BY <1>3, <1>5, <2>2 DEF Cut
  <2>4. o % w = 0
    <3>1. o = 0 \/ o % w = 0
      BY <1>3, <2>2 DEF Cut
    <3>2. 0 % w = 0
      BY <1>5, <2>3
    <3>. QED
      BY <3>1, <3>2
  <2>5. o + w <= b
    <3>1. w \in Nat \ {0} /\ o \in Nat /\ b \in Nat /\ o < b /\ o % w = 0 /\ b % w = 0
      BY <1>5, <2>3, <2>4
    <3>. HIDE <1>2, <1>3, <1>4, <1>5
    <3>. QED
      BY <3>1, NextMultiple
  <2>. QED
    BY <1>5, <2>3, <2>5
<1>7. node \in Regs
  BY <1>5 DEF InReg
<1>. QED
  BY <1>1, <1>5, <1>6, <1>7, PanicKeeps

(* A memory node without reg.                                              *)
LEMMA MissingRegKeeps ==
  ASSUME SetupInv, MissingReg
  PROVE  SetupInv'
<1>1. /\ phase = "walk" /\ node \in DOMAIN tree.children /\ MemoryNode(node)
      /\ tree.children[node].reg = NoReg /\ Panic
  BY DEF MissingReg, AtNode
<1>2. node \in Regs
  BY <1>1 DEF Regs
<1>3. ~ Divides(node)
  BY <1>1 DEF Divides, NoReg
<1>. QED
  BY <1>1, <1>2, <1>3, PanicKeeps

(* The bytes of a reg end with its last entry.                             *)
LEMMA EndOfRegKeeps ==
  ASSUME SetupInv, EndOfReg
  PROVE  SetupInv'
<1>1. /\ phase = "walk" /\ reading /\ RegScan!Remains(Reg(node), regOffset) = 0
      /\ reading' = FALSE /\ node' = node + 1
      /\ UNCHANGED <<blob, phase, tree, regOffset, added>>
  BY DEF EndOfReg
<1>2. /\ tree \in Trees /\ LoopPart /\ Regs \subseteq 1 .. Len(tree.children) /\ Regs \subseteq Nat
      /\ Len(tree.children) \in Nat /\ node \in Nat
  BY <1>1, LoopFacts
<1>3. InReg
  BY <1>1, <1>2 DEF LoopPart
<1>4. regOffset = BytesOf(node)
  <2>1. Len(Reg(node)) = BytesOf(node)
    BY <1>3 DEF InReg, Reg, BytesOf
  <2>. QED
    BY <1>1, <1>3, <2>1 DEF InReg, RegScan!Remains
<1>5. Divides(node) /\ node \in Regs
  BY <1>3, <1>4, DividesIsCut DEF InReg
<1>6. added = EntriesBefore(node + 1)
  <2>1. ~ (Width = 0 /\ BytesOf(node) > 0)
    BY <1>3, <1>4 DEF InReg, Cut
  <2>2. added = EntriesBefore(node) \cup EntriesTo(node, BytesOf(node))
    BY <1>1, <1>2, <1>4, <2>1 DEF LoopPart, AddedIs
  <2>. QED
    BY <1>2, <1>5, <2>2, PassNode
<1>7. LoopPart'
  <2>1. Regs' = Regs /\ (\A n : Divides(n)' <=> Divides(n)) /\ \A m : EntriesBefore(m)' = EntriesBefore(m)
    BY <1>1, SameTree
  <2>2. \A n \in Regs : n < node + 1 => n < node \/ n = node
    BY <1>2
  <2>3. \A n \in Regs' : n < node' => Divides(n)'
    <3>1. \A n \in Regs : n < node + 1 => Divides(n)
      BY <1>2, <1>5, <2>2 DEF LoopPart
    <3>. QED
      BY <1>1, <2>1, <3>1
  <2>4. node + 1 \in 1 .. Len(tree.children) + 1
    BY <1>2, <1>5
  <2>5. AddedIs'
    BY <1>1, <1>6, <2>1 DEF AddedIs
  <2>. QED
    BY <1>1, <2>3, <2>4, <2>5 DEF LoopPart
<1>. QED
  BY <1>1, <1>7, WalkOn

(* The last node is passed.                                                *)
LEMMA DoneKeeps ==
  ASSUME SetupInv, Done
  PROVE  SetupInv'
<1>1. /\ phase = "walk" /\ ~ reading /\ node \notin DOMAIN tree.children /\ phase' = "done"
      /\ UNCHANGED <<blob, tree, node, reading, regOffset, added>>
  BY DEF Done, walk
<1>2. tree \in Trees /\ LoopPart /\ reading \in BOOLEAN
  BY <1>1, LoopFacts
<1>3. ParserPart'
  BY <1>1, <1>2, WalkLeavesParser DEF SetupInv
<1>4. LoopPart'
  BY <1>1, <1>2, SameTree DEF LoopPart, InReg, AddedIs
<1>5. tree' \in Trees /\ phase' = "done" /\ node' \notin DOMAIN tree'.children /\ ~ reading'
  BY <1>1, <1>2
<1>. QED
  BY <1>1, <1>2, <1>3, <1>4, <1>5 DEF SetupInv, WalkPart

(* Until there is a tree the loops have not begun.                         *)
LEMMA BeforeTree ==
  ASSUME SetupInv, tree \notin Trees, tree' \in {NotParsed, Refused},
         UNCHANGED <<node, reading, regOffset, added>>, phase' \notin {"walk", "done"}
  PROVE  WalkPart'
<1>1. tree' \notin Trees
  BY TreeAssumption
<1>2. reading = FALSE /\ added = {} /\ node = 1
  BY DEF SetupInv, WalkPart
<1>3. reading' = FALSE /\ added' = {} /\ node' = 1
  BY <1>2
<1>. QED
  BY <1>1, <1>3 DEF WalkPart

(* The parser's steps.                                                     *)
LEMMA ParseKeeps ==
  ASSUME SetupInv, Parse
  PROVE  SetupInv'
<1>1. ParseStep /\ UNCHANGED <<tree, node, reading, regOffset, added>>
  BY DEF Parse, walk
<1>2. ParserPart'
  BY <1>1, ParseStepKeeps DEF SetupInv
<1>3. phase \in Parsing /\ phase' \notin {"walk", "done"}
  BY <1>1 DEF ParseStep, HeaderShort, HeaderRead, CheckHeader, SliceReserved, ReservedShort,
              ReservedRange, ReservedEnd, SliceStructs, SliceStrings, Goto, Parsing, HeaderAccepted,
              BlockRead
<1>4. tree = NotParsed
  BY <1>3 DEF SetupInv, ParserPart
<1>5. tree \notin Trees
  BY <1>4, TreeAssumption
<1>6. WalkPart'
  BY <1>1, <1>3, <1>4, <1>5, BeforeTree
<1>. QED
  BY <1>2, <1>6 DEF SetupInv

(* The tree is there: the loops begin.                                     *)
LEMMA NodesParsedKeeps ==
  ASSUME SetupInv, NodesParsed
  PROVE  SetupInv'
<1>1. /\ phase = "nodes" /\ tree' \in Trees /\ phase' = "walk"
      /\ UNCHANGED <<blob, node, reading, regOffset, added>>
  BY DEF NodesParsed
<1>2. /\ fdt \in Seq(Nat) /\ Headed /\ Supported /\ Terminated(Len(reserved)) /\ EntriesRead
      /\ tree = NotParsed
  BY <1>1 DEF SetupInv, ParserPart, HeaderAccepted, BlockRead, Parsing
<1>3. fdt' \in Seq(Nat) /\ Headed' /\ Supported' /\ Terminated(Len(reserved))' /\ EntriesRead'
  BY <1>1, <1>2, SameBlob
<1>4. ParserPart'
  BY <1>1, <1>3 DEF ParserPart, Parsing, HeaderAccepted, BlockRead
<1>5. ~ reading' /\ added' = {} /\ node' = 1
  <2>1. tree \notin Trees
    BY <1>2, TreeAssumption
  <2>. QED
    BY <1>1, <2>1 DEF SetupInv, WalkPart
<1>6. Len(tree'.children) \in Nat /\ DOMAIN tree'.children = 1 .. Len(tree'.children)
  BY <1>1, TreeAssumption
<1>7. \A n \in Regs' : ~ (n < 1)
  <2>1. Regs' \subseteq 1 .. Len(tree'.children)
    BY <1>6 DEF Regs
  <2>. QED
    BY <1>6, <2>1
<1>8. LoopPart'
  <2>1. node' \in 1 .. Len(tree'.children) + 1
    BY <1>5, <1>6
  <2>2. AddedIs'
    <3>1. EntriesBefore(node)' = {}
      BY <1>5, <1>7 DEF EntriesBefore
    <3>. QED
      BY <1>5, <3>1 DEF AddedIs
  <2>. QED
    BY <1>5, <1>7, <2>1, <2>2 DEF LoopPart
<1>. QED
  BY <1>1, <1>4, <1>5, <1>8 DEF SetupInv, WalkPart

(* There is no tree.                                                       *)
LEMMA NodesRefusedKeeps ==
  ASSUME SetupInv, NodesRefused
  PROVE  SetupInv'
<1>1. /\ phase = "nodes" /\ tree' = Refused /\ phase' \in {"error", "panicked"}
      /\ UNCHANGED <<blob, node, reading, regOffset, added>>
  BY DEF NodesRefused
<1>2. fdt \in Seq(Nat) /\ EntriesRead /\ tree = NotParsed
  BY <1>1 DEF SetupInv, ParserPart, HeaderAccepted, BlockRead, Parsing
<1>3. fdt' \in Seq(Nat) /\ EntriesRead'
  BY <1>1, <1>2, SameBlob
<1>4. tree \notin Trees /\ Refused # NotParsed
  BY <1>2, TreeAssumption
<1>5. ParserPart'
  BY <1>1, <1>3, <1>4 DEF ParserPart, Parsing, HeaderAccepted, BlockRead
<1>6. WalkPart'
  BY <1>1, <1>4, BeforeTree
<1>. QED
  BY <1>5, <1>6 DEF SetupInv

(* from_devicetree unwraps an error.                                       *)
LEMMA UnwrapErrorKeeps ==
  ASSUME SetupInv, UnwrapError
  PROVE  SetupInv'
<1>1. phase = "error" /\ phase' = "panicked" /\ UNCHANGED <<blob, tree, node, reading, regOffset, added>>
  BY DEF UnwrapError, Panic, walk
<1>2. fdt \in Seq(Nat) /\ EntriesRead /\ tree \in {NotParsed, Refused} /\ (tree = NotParsed => ~ GoodBlob)
  BY <1>1 DEF SetupInv, ParserPart
<1>3. fdt' \in Seq(Nat) /\ EntriesRead' /\ (GoodBlob' <=> GoodBlob)
  BY <1>1, <1>2, SameBlob
<1>4. ParserPart'
  BY <1>1, <1>2, <1>3 DEF ParserPart, Parsing, HeaderAccepted, BlockRead
<1>5. tree \notin Trees
  BY <1>2, TreeAssumption
<1>6. WalkPart'
  BY <1>1, <1>2, <1>5, BeforeTree
<1>. QED
  BY <1>4, <1>6 DEF SetupInv

(* The parser and the loops, step by step: what is read of the blob and of *)
(* the tree, and why one of them is refused.                               *)
THEOREM SetupInvariant == SetupSpec => []SetupInv
<1>1. SetupInit => SetupInv
  <2>. SUFFICES ASSUME SetupInit PROVE SetupInv
    OBVIOUS
  <2>1. /\ fdt \in Seq(Nat) /\ phase = "header" /\ rsvOffset = 0 /\ reserved = <<>>
        /\ tree = NotParsed /\ node = 1 /\ reading = FALSE /\ added = {}
    BY BlobAssumption DEF SetupInit, ParseInit
  <2>2. tree \notin Trees
    BY <2>1, TreeAssumption
  <2>3. EntriesRead
    BY <2>1 DEF EntriesRead
  <2>4. ParserPart
    BY <2>1, <2>3 DEF ParserPart, Parsing, HeaderAccepted, BlockRead
  <2>5. WalkPart
    BY <2>1, <2>2 DEF WalkPart
  <2>. QED
    BY <2>4, <2>5 DEF SetupInv
<1>2. SetupInv /\ [SetupNext]_setupVars => SetupInv'
  <2>. SUFFICES ASSUME SetupInv, [SetupNext]_setupVars PROVE SetupInv'
    OBVIOUS
  <2>1. CASE SetupStep
    <3>1. CASE Parse \/ NodesParsed \/ NodesRefused \/ UnwrapError
      BY <3>1, ParseKeeps, NodesParsedKeeps, NodesRefusedKeeps, UnwrapErrorKeeps
    <3>2. CASE OtherNode \/ MissingReg \/ OpenReg \/ EndOfReg
      BY <3>2, OtherNodeKeeps, MissingRegKeeps, OpenRegKeeps, EndOfRegKeeps
    <3>3. CASE AddEntry \/ BadEntry \/ Done
      BY <3>3, AddEntryKeeps, BadEntryKeeps, DoneKeeps
    <3>. QED
      BY <2>1, <3>1, <3>2, <3>3 DEF SetupStep
  <2>2. CASE UNCHANGED setupVars
    <3>1. UNCHANGED <<blob, phase, tree, node, reading, regOffset, added>>
      BY <2>2 DEF setupVars, walk
    <3>2. ParserPart'
      BY <3>1, SameBlob DEF SetupInv, ParserPart
    <3>3. WalkPart'
      BY <3>1, SameTree DEF SetupInv, WalkPart, LoopPart, InReg, AddedIs
    <3>. QED
      BY <3>2, <3>3 DEF SetupInv
  <2>. QED
    BY <2>1, <2>2 DEF SetupNext, SetupEnded
<1>. QED
  BY <1>1, <1>2, PTL DEF SetupSpec

(* What the invariant says of the types.                                   *)
LEMMA SetupTyped == SetupInv => SetupTypeOK
<1>. SUFFICES ASSUME SetupInv PROVE SetupTypeOK
  OBVIOUS
<1>1. EntriesRead
  BY DEF SetupInv, ParserPart
<1>2. ASSUME phase = "reserved" PROVE Scan!Remains(ReservedBlock, rsvOffset) >= 0
  <2>1. ReservedBlock \in Seq(Nat) /\ Len(ReservedBlock) \in Nat
    BY <1>2, AcceptedHeader DEF SetupInv, HeaderAccepted
  <2>2. PICK n : n = Len(reserved)
    OBVIOUS
  <2>3. n \in Nat /\ rsvOffset = 4 * n
    BY <1>1, <2>2 DEF EntriesRead
  <2>4. 4 * n <= Len(ReservedBlock)
    <3>1. CASE n = 0
      BY <2>1, <3>1
    <3>2. CASE n # 0
      <4>1. n - 1 \in 0 .. n - 1
        BY <2>3, <3>2
      <4>2. 4 * (n - 1) + 4 <= Len(ReservedBlock)
        BY <1>1, <2>2, <4>1, Zenon DEF EntriesRead
      <4>. QED
        BY <2>1, <2>3, <4>2
    <3>. QED
      BY <3>1, <3>2
  <2>. QED
    BY <2>1, <2>3, <2>4 DEF Scan!Remains
<1>3. \A i \in DOMAIN reserved : reserved[i] \in Seq(Nat) \X Seq(Nat)
  <2>1. PICK P : P = Seq(Nat) \X Seq(Nat)
    OBVIOUS
  <2>2. reserved \in Seq(P)
    BY <1>1, <2>1, Zenon DEF EntriesRead
  <2>3. \A i \in DOMAIN reserved : reserved[i] \in P
    BY <2>2
  <2>. QED
    BY <2>1, <2>3, Zenon
<1>4. phase \in {"walk", "done"} => Parsed
  BY TreeIs DEF SetupInv, WalkPart, Parsed
<1>5. ASSUME reading PROVE Parsed /\ regOffset <= tree.children[node].reg
  <2>1. tree \in Trees /\ LoopPart
    BY <1>5 DEF SetupInv, WalkPart
  <2>2. InReg
    BY <1>5, <2>1 DEF LoopPart
  <2>. QED
    BY <2>1, <2>2, TreeIs DEF Parsed, InReg, BytesOf
<1>6. rsvOffset = 4 * Len(reserved)
  BY <1>1 DEF EntriesRead
<1>. QED
  BY <1>2, <1>3, <1>4, <1>5, <1>6 DEF SetupTypeOK, FdtTypeOK

(* The kernel panics for no other reason than a blob or a tree that is not *)
(* as it should be, and never goes on with a reg that does not divide: for *)
(* every blob, every tree and every width of a cell.                       *)
THEOREM PanicsAreDeserved == SetupSpec => []PanicsOnBadInput
<1>1. SetupInv => PanicsOnBadInput
  <2>. SUFFICES ASSUME SetupInv PROVE PanicsOnBadInput
    OBVIOUS
  <2>1. tree \in Trees \cup {NotParsed, Refused} /\ (tree \in Trees => Parsed)
    BY TreeIs DEF SetupInv, WalkPart, Parsed
  <2>2. ASSUME phase = "panicked"
        PROVE  \/ tree = NotParsed /\ ~ GoodBlob
               \/ tree = Refused
               \/ Parsed /\ \E n \in Regs : ~ Divides(n)
    <3>1. tree = NotParsed => ~ GoodBlob
      BY <2>2 DEF SetupInv, ParserPart
    <3>2. tree \in Trees => \E n \in Regs : ~ Divides(n)
      BY <2>2 DEF SetupInv, WalkPart
    <3>. QED
      BY <2>1, <3>1, <3>2
  <2>3. ASSUME phase = "done" PROVE \A n \in Regs : Divides(n)
    <3>1. tree \in Trees /\ LoopPart /\ node \notin DOMAIN tree.children
      BY <2>3 DEF SetupInv, WalkPart
    <3>2. Len(tree.children) \in Nat /\ DOMAIN tree.children = 1 .. Len(tree.children)
      BY <3>1, TreeIs
    <3>3. \A n \in DOMAIN tree.children : n < node
      BY <3>1, <3>2 DEF LoopPart
    <3>. QED
      BY <3>1, <3>3 DEF LoopPart, Regs
  <2>. QED
    BY <2>2, <2>3 DEF PanicsOnBadInput
<1>. QED
  BY <1>1, SetupInvariant, PTL

(* Nothing is left out of the description or made up: the reserved ranges  *)
(* are the entries of the blob up to its first pair of zeros, and what was *)
(* added is each reg, entry by entry.                                      *)
THEOREM DescriptionIsWhole == SetupSpec => []DescribedWhole
<1>1. SetupInv => DescribedWhole
  <2>. SUFFICES ASSUME SetupInv PROVE DescribedWhole
    OBVIOUS
  <2>1. SetupTypeOK
    BY SetupTyped
  <2>2. ASSUME phase = "done"
        PROVE  /\ Terminated(Len(reserved))
               /\ \A k \in 0 .. Len(reserved) - 1 : Entry(k) = reserved[k + 1][1] \o reserved[k + 1][2]
               /\ added = UNION {{<<n, b, b + Width>> :
                            b \in {c \in 0 .. tree.children[n].reg - 1 : c % Width = 0}} : n \in Regs}
    <3>1. Terminated(Len(reserved)) /\ EntriesRead
      BY <2>2 DEF SetupInv, ParserPart, BlockRead
    <3>2. tree \in Trees /\ LoopPart /\ node \notin DOMAIN tree.children /\ ~ reading
      BY <2>2 DEF SetupInv, WalkPart
    <3>3. Len(tree.children) \in Nat /\ DOMAIN tree.children = 1 .. Len(tree.children)
      BY <3>2, TreeIs
    <3>4. \A n \in DOMAIN tree.children : n < node
      BY <3>2, <3>3 DEF LoopPart
    <3>5. {k \in Regs : k < node} = Regs
      BY <3>4 DEF Regs
    <3>6. added = EntriesBefore(node)
      BY <3>2 DEF LoopPart, AddedIs
    <3>7. added = UNION {EntriesTo(n, BytesOf(n)) : n \in Regs}
      BY <3>5, <3>6, Zenon DEF EntriesBefore
    <3>8. added = UNION {{<<n, b, b + Width>> :
                            b \in {c \in 0 .. tree.children[n].reg - 1 : c % Width = 0}} : n \in Regs}
      BY <3>7, Zenon DEF EntriesTo, BytesOf
    <3>9. \A k \in 0 .. Len(reserved) - 1 : Entry(k) = reserved[k + 1][1] \o reserved[k + 1][2]
      BY <3>1, Zenon DEF EntriesRead
    <3>. QED
      BY <3>1, <3>8, <3>9, Zenon
  <2>. QED
    BY <2>1, <2>2, Zenon DEF DescribedWhole
<1>. QED
  BY <1>1, SetupInvariant, PTL

-----------------------------------------------------------------------------
(* The parser of the structure block: FdtNodes.  What it does depends on   *)
(* the text alone, and so do the places of the nodes that are open after k *)
(* tokens, opened[k]; the pairs of State::parents, around[k]; and the node *)
(* in progress, nodes[k].                                                  *)
Tokens ==
  [kind : {"begin"}, name : Names]
    \cup {[kind |-> "prop", name |-> p[1], value |-> p[2]] : p \in Properties}
    \cup [kind : {"end", "nop", "panic", "bad", "finish"}]

TokenStep(tok, k, o, a, d, p, b, e) ==
  \/ tok.kind = "begin" /\ p = Append(o, k) /\ b = Append(a, <<tok.name, d>>) /\ e = NewChild(d)
  \/ /\ tok.kind = "end" /\ a # <<>> /\ p = Front(o) /\ b = Front(a)
     /\ e = AddChild(Last(a)[2], Last(a)[1], d)
  \/ tok.kind = "prop" /\ p = o /\ b = a /\ e = AddProperty(d, tok.name, tok.value)
  \/ tok.kind = "nop" /\ p = o /\ b = a /\ e = d

IsRun(t, opened, around, nodes, n) ==
  /\ t \in Seq(Tokens)
  /\ n \in 0 .. Len(t)
  /\ opened[0] = <<>> /\ around[0] = <<>> /\ nodes[0] = NewNode
  /\ \A k \in 1 .. n : TokenStep(t[k], k, opened[k - 1], around[k - 1], nodes[k - 1],
                                         opened[k], around[k], nodes[k])

(* What the first n tokens of a text leave behind.                         *)
Leaves(t, n, pairs, made) ==
  \E opened, around, nodes :
    IsRun(t, opened, around, nodes, n) /\ pairs = around[n] /\ made = nodes[n]

(* How the parser ends: with the token after the n that built the tree.    *)
EndsWith(t, pairs, made, n, result, given) ==
  /\ n + 1 = Len(t)
  /\ CASE result = "ok" ->
            /\ t[n + 1].kind = "finish"
            /\ pairs = <<>> /\ HasChild(made, "") /\ given = Child(made, "")
       [] result = "panicked" -> t[n + 1].kind = "panic" /\ given = NewNode
       [] result = "error" ->
            /\ given = NewNode
            /\ \/ t[n + 1].kind \in {"bad", "end"}
               \/ t[n + 1].kind = "finish" /\ ~ (pairs = <<>> /\ HasChild(made, ""))
       [] OTHER -> FALSE

RunInv ==
  /\ text \in Seq(Tokens)
  /\ \E n :
       /\ Leaves(text, n, parents, current)
       /\ \/ outcome = "parse" /\ n = Len(text) /\ root = NewNode
          \/ EndsWith(text, parents, current, n, outcome, root)

(* A run goes on with one more token.                                      *)
LEMMA RunGoesOn ==
  ASSUME NEW t, NEW opened, NEW around, NEW nodes, NEW tok \in Tokens,
         IsRun(t, opened, around, nodes, Len(t)),
         NEW o, NEW a, NEW d,
         TokenStep(tok, Len(t) + 1, opened[Len(t)], around[Len(t)], nodes[Len(t)], o, a, d)
  PROVE  Leaves(Append(t, tok), Len(t) + 1, a, d)
<1>1. PICK n : n = Len(t)
  OBVIOUS
<1>2. n \in Nat /\ t \in Seq(Tokens)
  BY <1>1 DEF IsRun
<1>3. PICK u : u = Append(t, tok)
  OBVIOUS
<1>4. /\ u \in Seq(Tokens) /\ Len(u) = n + 1 /\ u[n + 1] = tok
      /\ \A k \in 1 .. n : u[k] = t[k]
  BY <1>1, <1>2, <1>3
<1>. DEFINE op == [k \in 0 .. n + 1 |-> IF k = n + 1 THEN o ELSE opened[k]]
            ar == [k \in 0 .. n + 1 |-> IF k = n + 1 THEN a ELSE around[k]]
            no == [k \in 0 .. n + 1 |-> IF k = n + 1 THEN d ELSE nodes[k]]
            Goes(k) == TokenStep(u[k], k, op[k - 1], ar[k - 1], no[k - 1], op[k], ar[k], no[k])
<1>5. op[n + 1] = o /\ ar[n + 1] = a /\ no[n + 1] = d
  BY <1>2
<1>6. \A k \in 0 .. n : op[k] = opened[k] /\ ar[k] = around[k] /\ no[k] = nodes[k]
  BY <1>2
<1>. HIDE DEF op, ar, no
<1>7. ASSUME NEW k \in 1 .. n PROVE Goes(k)
  <2>1. k \in 0 .. n /\ k - 1 \in 0 .. n
    BY <1>2
  <2>2. TokenStep(t[k], k, opened[k - 1], around[k - 1], nodes[k - 1], opened[k], around[k], nodes[k])
    BY <1>1 DEF IsRun
  <2>. QED
    BY <1>4, <1>6, <2>1, <2>2, Zenon
<1>8. 0 \in 0 .. n /\ n \in 0 .. n /\ (n + 1) - 1 = n
  BY <1>2
<1>9. Goes(n + 1)
  BY <1>1, <1>4, <1>5, <1>6, <1>8, Zenon
<1>10. \A k \in 1 .. n + 1 : Goes(k)
  <2>. SUFFICES ASSUME NEW k \in 1 .. n + 1 PROVE Goes(k)
    OBVIOUS
  <2>1. k \in 1 .. n \/ k = n + 1
    BY <1>2
  <2>. QED
    BY <1>7, <1>9, <2>1, Zenon
<1>11. op[0] = <<>> /\ ar[0] = <<>> /\ no[0] = NewNode
  BY <1>6, <1>8, Zenon DEF IsRun
<1>12. n + 1 \in 0 .. Len(u)
  BY <1>2, <1>4
<1>13. IsRun(u, op, ar, no, n + 1)
  BY <1>4, <1>10, <1>11, <1>12, Zenon DEF IsRun
<1>. QED
  BY <1>1, <1>3, <1>5, <1>13, Zenon DEF Leaves

(* The same of the parser: it has read a token, or it has ended with one.  *)
LEMMA ParserGoesOn ==
  ASSUME RunInv, outcome = "parse", NEW tok \in Tokens, text' = Append(text, tok),
         outcome' = "parse", root' = root,
         \A o : \E p : TokenStep(tok, Len(text) + 1, o, parents, current, p, parents', current')
  PROVE  RunInv'
<1>1. Leaves(text, Len(text), parents, current) /\ root = NewNode
  BY DEF RunInv, EndsWith
<1>2. PICK op, ar, no : /\ IsRun(text, op, ar, no, Len(text))
                        /\ parents = ar[Len(text)] /\ current = no[Len(text)]
  BY <1>1 DEF Leaves
<1>3. PICK p : TokenStep(tok, Len(text) + 1, op[Len(text)], parents, current, p, parents', current')
  OBVIOUS
<1>5. TokenStep(tok, Len(text) + 1, op[Len(text)], ar[Len(text)], no[Len(text)],
                p, parents', current')
  BY <1>2, <1>3, Zenon
<1>6. Leaves(text', Len(text) + 1, parents', current')
  BY <1>2, <1>5, RunGoesOn, Zenon
<1>4. text' \in Seq(Tokens) /\ Len(text') = Len(text) + 1
  BY DEF RunInv
<1>. QED
  BY <1>1, <1>4, <1>6, Zenon DEF RunInv

(* The token with which the parser ends leaves the parents and the node in *)
(* progress as they were.                                                  *)
LEMMA ParserEnds ==
  ASSUME RunInv, outcome = "parse", NEW tok \in Tokens, text' = Append(text, tok),
         UNCHANGED <<parents, current>>,
         root = NewNode /\ Len(text) \in Nat
           => EndsWith(text', parents, current, Len(text), outcome', root')
  PROVE  RunInv'
<1>1. Leaves(text, Len(text), parents, current) /\ root = NewNode
  BY DEF RunInv, EndsWith
<1>2. /\ text \in Seq(Tokens) /\ text' \in Seq(Tokens) /\ Len(text') = Len(text) + 1
      /\ Len(text) \in Nat /\ \A k \in 1 .. Len(text) : text'[k] = text[k]
  BY DEF RunInv
<1>3. ASSUME NEW op, NEW ar, NEW no, IsRun(text, op, ar, no, Len(text))
      PROVE  IsRun(text', op, ar, no, Len(text))
  <2>1. Len(text) \in 0 .. Len(text')
    BY <1>2
  <2>. QED
    BY <1>2, <1>3, <2>1, Zenon DEF IsRun
<1>5. Leaves(text', Len(text), parents', current')
  <2>1. UNCHANGED <<parents, current>>
    OBVIOUS
  <2>. QED
    BY <1>1, <1>3, <2>1, Zenon DEF Leaves
<1>4. EndsWith(text', parents', current', Len(text), outcome', root')
  BY <1>1, <1>2
<1>. QED
  BY <1>2, <1>4, <1>5, Zenon DEF RunInv

(* The parser builds what a run over the text builds.                      *)
THEOREM TreeInvariant == TreeSpec => []RunInv
<1>1. TreeInit => RunInv
  <2>. SUFFICES ASSUME TreeInit PROVE RunInv
    OBVIOUS
  <2>1. PICK op : op = [k \in {0} |-> <<>>]
    OBVIOUS
  <2>2. PICK no : no = [k \in {0} |-> NewNode]
    OBVIOUS
  <2>3. op[0] = <<>> /\ no[0] = NewNode
    BY <2>1, <2>2
  <2>4. /\ text = <<>> /\ parents = <<>> /\ current = NewNode /\ outcome = "parse"
        /\ root = NewNode
    BY DEF TreeInit, NewNode
  <2>5. text \in Seq(Tokens) /\ Len(text) = 0
    BY <2>4
  <2>6. IsRun(text, op, op, no, 0)
    BY <2>3, <2>5 DEF IsRun
  <2>. QED
    BY <2>3, <2>4, <2>5, <2>6 DEF RunInv, Leaves
<1>2. RunInv /\ [TreeNext]_treeVars => RunInv'
  <2>. SUFFICES ASSUME RunInv, [TreeNext]_treeVars PROVE RunInv'
    OBVIOUS
  <2>1. CASE UNCHANGED treeVars
    BY <2>1, Zenon DEF RunInv, treeVars
  <2>2. ASSUME NEW name \in Names, BeginNode(name) PROVE RunInv'
    <3>1. PICK tok : tok = [kind |-> "begin", name |-> name]
      OBVIOUS
    <3>2. tok \in Tokens /\ tok.kind = "begin" /\ tok.name = name
      BY <3>1 DEF Tokens
    <3>. QED
      BY <2>2, <3>1, <3>2, ParserGoesOn DEF BeginNode, Token, TokenStep
  <2>3. CASE EndNode
    <3>1. PICK tok : tok = [kind |-> "end"]
      OBVIOUS
    <3>2. tok \in Tokens /\ tok.kind = "end"
      BY <3>1 DEF Tokens
    <3>. QED
      BY <2>3, <3>1, <3>2, ParserGoesOn DEF EndNode, Token, TokenStep
  <2>4. ASSUME NEW p \in Properties, NewProperty(p[1], p[2]) PROVE RunInv'
    <3>1. PICK tok : tok = [kind |-> "prop", name |-> p[1], value |-> p[2]]
      OBVIOUS
    <3>2. tok \in Tokens /\ tok.kind = "prop" /\ tok.name = p[1] /\ tok.value = p[2]
      BY <3>1 DEF Tokens
    <3>. QED
      BY <2>4, <3>1, <3>2, ParserGoesOn DEF NewProperty, Token, TokenStep
  <2>5. CASE Nop
    <3>1. PICK tok : tok = [kind |-> "nop"]
      OBVIOUS
    <3>2. tok \in Tokens /\ tok.kind = "nop"
      BY <3>1 DEF Tokens
    <3>. QED
      BY <2>5, <3>1, <3>2, ParserGoesOn DEF Nop, Token, TokenStep
  <2>6. CASE UnmatchedEnd \/ BadToken
    <3>1. PICK kind \in {"end", "bad"} : text' = Append(text, [kind |-> kind])
      BY <2>6 DEF UnmatchedEnd, BadToken, Token
    <3>2. PICK tok : tok = [kind |-> kind]
      OBVIOUS
    <3>3. tok \in Tokens /\ tok.kind \in {"bad", "end"} /\ text' = Append(text, tok)
      BY <3>1, <3>2 DEF Tokens
    <3>4. text'[Len(text) + 1] = tok /\ Len(text') = Len(text) + 1
      BY <3>3 DEF RunInv
    <3>. QED
      BY <2>6, <3>3, <3>4, ParserEnds DEF UnmatchedEnd, BadToken, Token, EndsWith
  <2>7. CASE PropertyPanics
    <3>1. PICK tok : tok = [kind |-> "panic"]
      OBVIOUS
    <3>2. tok \in Tokens /\ tok.kind = "panic" /\ text' = Append(text, tok)
      BY <2>7, <3>1 DEF Tokens, PropertyPanics, Token
    <3>3. text'[Len(text) + 1] = tok /\ Len(text') = Len(text) + 1
      BY <3>2 DEF RunInv
    <3>. QED
      BY <2>7, <3>2, <3>3, ParserEnds DEF PropertyPanics, Token, EndsWith
  <2>8. CASE Finish
    <3>1. PICK tok : tok = [kind |-> "finish"]
      OBVIOUS
    <3>2. tok \in Tokens /\ tok.kind = "finish" /\ text' = Append(text, tok)
      BY <2>8, <3>1 DEF Tokens, Finish, Token
    <3>3. text'[Len(text) + 1] = tok /\ Len(text') = Len(text) + 1
      BY <3>2 DEF RunInv
    <3>4. PICK whole \in BOOLEAN : whole <=> parents = <<>> /\ HasChild(current, "")
      OBVIOUS
    <3>5. /\ outcome' = IF whole THEN "ok" ELSE "error"
          /\ root' = IF whole THEN Child(current, "") ELSE root
      BY <2>8, <3>4 DEF Finish
    <3>6. ASSUME root = NewNode, Len(text) \in Nat
          PROVE  EndsWith(text', parents, current, Len(text), outcome', root')
      <4>1. CASE whole
        BY <3>2, <3>3, <3>4, <3>5, <4>1 DEF EndsWith
      <4>2. CASE ~ whole
        BY <3>2, <3>3, <3>4, <3>5, <3>6, <4>2 DEF EndsWith
      <4>. QED
        BY <4>1, <4>2
    <3>. QED
      BY <2>8, <3>2, <3>6, ParserEnds DEF Finish, Token
  <2>. QED
    BY <2>1, <2>2, <2>3, <2>4, <2>5, <2>6, <2>7, <2>8 DEF TreeNext, TreeEnded
<1>. QED
  BY <1>1, <1>2, PTL DEF TreeSpec

-----------------------------------------------------------------------------
(* Beginnings of a sequence.                                               *)
Start(q, j) == SubSeq(q, 1, j)

(* A beginning has the first elements of the sequence.                     *)
LEMMA StartIs ==
  ASSUME NEW q \in Seq(Nat), NEW j \in Nat, j <= Len(q)
  PROVE  /\ Start(q, j) \in Seq(Nat) /\ Len(Start(q, j)) = j
         /\ \A i \in 1 .. j : Start(q, j)[i] = q[i]
  BY SubSeqProperties DEF Start

(* Sequences that agree in their first elements have the same beginning.   *)
LEMMA StartsEqual ==
  ASSUME NEW q \in Seq(Nat), NEW p \in Seq(Nat), NEW j \in Nat, j <= Len(q), j <= Len(p),
         \A i \in 1 .. j : p[i] = q[i]
  PROVE  Start(p, j) = Start(q, j)
<1>1. /\ Start(q, j) \in Seq(Nat) /\ Len(Start(q, j)) = j
      /\ \A i \in 1 .. j : Start(q, j)[i] = q[i]
  BY StartIs
<1>2. /\ Start(p, j) \in Seq(Nat) /\ Len(Start(p, j)) = j
      /\ \A i \in 1 .. j : Start(p, j)[i] = p[i]
  BY StartIs
<1>. QED
  BY <1>1, <1>2, SeqEqual

(* A sequence is the longest of its beginnings.                            *)
LEMMA StartOfAll ==
  ASSUME NEW q \in Seq(Nat)
  PROVE  Start(q, Len(q)) = q
<1>1. Len(q) \in Nat
  OBVIOUS
<1>2. /\ Start(q, Len(q)) \in Seq(Nat) /\ Len(Start(q, Len(q))) = Len(q)
      /\ \A i \in 1 .. Len(q) : Start(q, Len(q))[i] = q[i]
  BY <1>1, StartIs, SMTT(30)
<1>. QED
  BY <1>2, SeqEqual

(* A function on the first m numbers is a sequence.                        *)
LEMMA FunctionIsSequence ==
  ASSUME NEW m \in Nat, NEW S, NEW f \in [1 .. m -> S]
  PROVE  f \in Seq(S) /\ Len(f) = m
OBVIOUS

(* The nodes that are open: in the order in which they began, each with    *)
(* the same nodes around it as when it began, and beside it in             *)
(* State::parents its name and the node it began in.                       *)
Nested(opened, k) ==
  /\ opened[k] \in Seq(Nat)
  /\ \A s \in 1 .. Len(opened[k]) :
       /\ opened[k][s] \in 1 .. k /\ Kind(opened[k][s]) = "begin"
       /\ opened[opened[k][s]] = Start(opened[k], s)
       /\ opened[opened[k][s] - 1] = Start(opened[k], s - 1)
  /\ \A r, s \in 1 .. Len(opened[k]) : r < s => opened[k][r] < opened[k][s]

Paired(opened, around, nodes, k) ==
  around[k] = [s \in 1 .. Len(opened[k]) |-> <<text[opened[k][s]].name, nodes[opened[k][s] - 1]>>]

(* What is taken from Paired: as many pairs as nodes, and the last.        *)
LEMMA PairsAre ==
  ASSUME NEW o, NEW a, NEW d, NEW k, o[k] \in Seq(Nat), Paired(o, a, d, k)
  PROVE  /\ a[k] = <<>> <=> o[k] = <<>>
         /\ Len(a[k]) = Len(o[k])
         /\ o[k] # <<>> => Last(a[k]) = <<text[Last(o[k])].name, d[Last(o[k]) - 1]>>
<1>1. PICK m : m = Len(o[k])
  OBVIOUS
<1>2. m \in Nat /\ (o[k] = <<>> <=> m = 0)
  BY <1>1
<1>. DEFINE pair(s) == <<text[o[k][s]].name, d[o[k][s] - 1]>>
            S == {pair(s) : s \in 1 .. m}
<1>3. a[k] = [s \in 1 .. m |-> pair(s)]
  BY <1>1, Zenon DEF Paired
<1>4. a[k] \in [1 .. m -> S]
  BY <1>3, Zenon
<1>. HIDE DEF S
<1>5. a[k] \in Seq(S) /\ Len(a[k]) = m
  BY <1>2, <1>4, FunctionIsSequence
<1>6. a[k] = <<>> <=> m = 0
  BY <1>2, <1>5
<1>7. ASSUME m # 0 PROVE Last(a[k]) = pair(Len(o[k]))
  <2>1. m \in 1 .. m
    BY <1>2, <1>7
  <2>2. a[k][m] = pair(m)
    BY <1>3, <2>1, Zenon
  <2>. QED
    BY <1>1, <1>5, <2>2, Zenon DEF Last
<1>. QED
  BY <1>1, <1>2, <1>5, <1>6, <1>7, Zenon DEF Last

(* A beginning keeps the open nodes nested: the new one is the last.       *)
LEMMA NestedBegins ==
  ASSUME NEW o, NEW k \in Nat \ {0}, Nested(o, k - 1), Kind(k) = "begin",
         o[k] = Append(o[k - 1], k)
  PROVE  Nested(o, k)
<1>1. PICK q, m : q = o[k - 1] /\ m = Len(o[k - 1])
  OBVIOUS
<1>2. PICK p : p = Append(q, k)
  OBVIOUS
<1>3. q \in Seq(Nat) /\ m \in Nat /\ m = Len(q)
  BY <1>1 DEF Nested
<1>4. /\ p \in Seq(Nat) /\ Len(p) = m + 1 /\ p[m + 1] = k
      /\ \A s \in 1 .. m : p[s] = q[s]
  BY <1>2, <1>3
<1>5. ASSUME NEW s \in 1 .. m
      PROVE  p[s] \in 1 .. k /\ p[s] < k /\ Kind(p[s]) = "begin"
  <2>1. q[s] \in 1 .. k - 1 /\ Kind(q[s]) = "begin"
    BY <1>1 DEF Nested
  <2>. QED
    BY <1>4, <2>1
<1>6. ASSUME NEW s \in 1 .. m
      PROVE  o[p[s]] = Start(p, s) /\ o[p[s] - 1] = Start(p, s - 1)
  <2>1. o[q[s]] = Start(q, s) /\ o[q[s] - 1] = Start(q, s - 1)
    BY <1>1 DEF Nested
  <2>2. s \in 0 .. m /\ s - 1 \in 0 .. m
    BY <1>3
  <2>3. Start(p, s) = Start(q, s) /\ Start(p, s - 1) = Start(q, s - 1)
    <3>1. s <= Len(q) /\ s <= Len(p) /\ s \in Nat /\ \A i \in 1 .. s : p[i] = q[i]
      BY <1>3, <1>4
    <3>2. /\ s - 1 <= Len(q) /\ s - 1 <= Len(p) /\ s - 1 \in Nat
          /\ \A i \in 1 .. s - 1 : p[i] = q[i]
      BY <1>3, <1>4
    <3>. QED
      BY <1>3, <1>4, <3>1, <3>2, StartsEqual
  <2>. QED
    BY <1>4, <2>1, <2>3
<1>7. o[k] = Start(p, m + 1) /\ o[k - 1] = Start(p, (m + 1) - 1)
  <2>1. m \in 0 .. m /\ m + 1 \in 0 .. m + 1 /\ (m + 1) - 1 = m
    BY <1>3
  <2>2. Start(p, m + 1) = p
    BY <1>4, StartOfAll
  <2>3. Start(p, m) = Start(q, m)
    <3>1. m <= Len(q) /\ m <= Len(p) /\ \A i \in 1 .. m : p[i] = q[i]
      BY <1>3, <1>4
    <3>. QED
      BY <1>3, <1>4, <3>1, StartsEqual
  <2>4. Start(q, m) = q
    BY <1>3, StartOfAll
  <2>. QED
    BY <1>1, <1>2, <2>1, <2>2, <2>3, <2>4
<1>8. \A s \in 1 .. m + 1 : s \in 1 .. m \/ s = m + 1
  BY <1>3
<1>9. \A s \in 1 .. m + 1 : p[s] \in 1 .. k /\ Kind(p[s]) = "begin"
  BY <1>4, <1>5, <1>8
<1>10. \A s \in 1 .. m + 1 : o[p[s]] = Start(p, s) /\ o[p[s] - 1] = Start(p, s - 1)
  BY <1>4, <1>6, <1>7, <1>8
<1>11. \A r, s \in 1 .. m + 1 : r < s => p[r] < p[s]
  <2>. SUFFICES ASSUME NEW r \in 1 .. m + 1, NEW s \in 1 .. m + 1, r < s PROVE p[r] < p[s]
    OBVIOUS
  <2>1. r \in 1 .. m
    BY <1>3
  <2>2. CASE s \in 1 .. m
    <3>1. q[r] < q[s]
      BY <1>1, <2>1, <2>2 DEF Nested
    <3>. QED
      BY <1>4, <2>1, <2>2, <3>1
  <2>3. CASE s = m + 1
    BY <1>4, <1>5, <2>1, <2>3
  <2>. QED
    BY <1>8, <2>2, <2>3
<1>12. o[k] = p
  BY <1>1, <1>2
<1>. QED
  BY <1>4, <1>9, <1>10, <1>11, <1>12, SMTT(30) DEF Nested

(* An end keeps the open nodes nested: the last is dropped.                *)
LEMMA NestedEnds ==
  ASSUME NEW o, NEW k \in Nat \ {0}, Nested(o, k - 1), o[k - 1] # <<>>,
         o[k] = Front(o[k - 1])
  PROVE  Nested(o, k)
<1>1. PICK q, m : q = o[k - 1] /\ m = Len(o[k - 1]) - 1
  OBVIOUS
<1>2. PICK p : p = Start(q, m)
  OBVIOUS
<1>3. q \in Seq(Nat) /\ m \in Nat /\ Len(q) = m + 1 /\ q # <<>>
  BY <1>1 DEF Nested
<1>4. m \in 0 .. Len(q)
  BY <1>3
<1>5. p \in Seq(Nat) /\ Len(p) = m /\ \A s \in 1 .. m : p[s] = q[s]
  BY <1>2, <1>3, <1>4, StartIs
<1>6. o[k] = p
  BY <1>1, <1>2 DEF Front, Start
<1>7. \A s \in 1 .. m : s \in 1 .. Len(q) /\ s \in 0 .. m /\ s - 1 \in 0 .. m
  BY <1>3
<1>8. \A s \in 1 .. m : p[s] \in 1 .. k /\ Kind(p[s]) = "begin"
  <2>. SUFFICES ASSUME NEW s \in 1 .. m PROVE p[s] \in 1 .. k /\ Kind(p[s]) = "begin"
    OBVIOUS
  <2>1. q[s] \in 1 .. k - 1 /\ Kind(q[s]) = "begin"
    BY <1>1, <1>7 DEF Nested
  <2>. QED
    BY <1>5, <2>1
<1>9. \A s \in 1 .. m : o[p[s]] = Start(p, s) /\ o[p[s] - 1] = Start(p, s - 1)
  <2>. SUFFICES ASSUME NEW s \in 1 .. m
                PROVE  o[p[s]] = Start(p, s) /\ o[p[s] - 1] = Start(p, s - 1)
    OBVIOUS
  <2>1. o[q[s]] = Start(q, s) /\ o[q[s] - 1] = Start(q, s - 1)
    BY <1>1, <1>7 DEF Nested
  <2>2. Start(p, s) = Start(q, s) /\ Start(p, s - 1) = Start(q, s - 1)
    <3>1. s <= Len(q) /\ s <= Len(p) /\ s \in Nat /\ \A i \in 1 .. s : p[i] = q[i]
      BY <1>3, <1>5
    <3>2. s - 1 <= Len(q) /\ s - 1 <= Len(p) /\ s - 1 \in Nat
      BY <1>3, <1>5
    <3>3. \A i \in 1 .. s - 1 : i \in 1 .. m
      BY <1>3
    <3>4. \A i \in 1 .. s - 1 : p[i] = q[i]
      BY <1>5, <3>3, Zenon
    <3>. QED
      BY <1>3, <1>5, <3>1, <3>2, <3>4, StartsEqual
  <2>. QED
    BY <1>5, <2>1, <2>2
<1>10. \A r, s \in 1 .. m : r < s => p[r] < p[s]
  <2>1. \A r, s \in 1 .. m : r < s => q[r] < q[s]
    BY <1>1, <1>7 DEF Nested
  <2>. QED
    BY <1>5, <2>1
<1>. QED
  BY <1>5, <1>6, <1>8, <1>9, <1>10, Zenon DEF Nested

(* A beginning pushes the pair of the node that it opens.                  *)
LEMMA PairedBegins ==
  ASSUME NEW o, NEW a, NEW d, NEW k \in Nat \ {0}, o[k - 1] \in Seq(Nat),
         Paired(o, a, d, k - 1), o[k] = Append(o[k - 1], k),
         a[k] = Append(a[k - 1], <<text[k].name, d[k - 1]>>)
  PROVE  Paired(o, a, d, k)
<1>1. PICK m : m = Len(o[k - 1])
  OBVIOUS
<1>2. /\ m \in Nat /\ Len(o[k]) = m + 1 /\ o[k][m + 1] = k
      /\ \A s \in 1 .. m : o[k][s] = o[k - 1][s]
  BY <1>1
<1>. DEFINE pair(s) == <<text[o[k][s]].name, d[o[k][s] - 1]>>
            S == {pair(s) : s \in 1 .. m + 1}
            f == [s \in 1 .. m + 1 |-> pair(s)]
            g == [s \in 1 .. m |-> pair(s)]
<1>3. f \in [1 .. m + 1 -> S] /\ \A s \in 1 .. m + 1 : f[s] = pair(s) /\ pair(s) \in S
  OBVIOUS
<1>4. a[k - 1] = g
  <2>1. a[k - 1] = [s \in 1 .. m |-> <<text[o[k - 1][s]].name, d[o[k - 1][s] - 1]>>]
    BY <1>1, Zenon DEF Paired
  <2>2. \A s \in 1 .. m : <<text[o[k - 1][s]].name, d[o[k - 1][s] - 1]>> = pair(s)
    BY <1>2, Zenon
  <2>. QED
    BY <2>1, <2>2, Zenon
<1>5. \A s \in 1 .. m : s \in 1 .. m + 1
  BY <1>2
<1>6. g \in [1 .. m -> S] /\ \A s \in 1 .. m : g[s] = pair(s)
  BY <1>3, <1>5, Zenon
<1>7. pair(m + 1) = <<text[k].name, d[k - 1]>> /\ pair(m + 1) \in S
  <2>1. m + 1 \in 1 .. m + 1
    BY <1>2
  <2>2. pair(m + 1) \in S
    BY <1>3, <2>1, Zenon
  <2>. QED
    BY <1>2, <2>2, Zenon
<1>. HIDE DEF pair, S, f, g
<1>8. f \in Seq(S) /\ Len(f) = m + 1 /\ g \in Seq(S) /\ Len(g) = m
  <2>1. m + 1 \in Nat
    BY <1>2
  <2>. QED
    BY <1>2, <1>3, <1>6, <2>1, FunctionIsSequence
<1>9. /\ a[k] = Append(g, pair(m + 1))
      /\ a[k] \in Seq(S) /\ Len(a[k]) = m + 1 /\ a[k][m + 1] = pair(m + 1)
      /\ \A s \in 1 .. m : a[k][s] = g[s]
  <2>1. PICK x : x = pair(m + 1)
    OBVIOUS
  <2>2. a[k] = Append(g, x) /\ x \in S
    BY <1>4, <1>7, <2>1, Zenon
  <2>3. a[k] \in Seq(S) /\ Len(a[k]) = m + 1 /\ a[k][m + 1] = x /\ \A s \in 1 .. m : a[k][s] = g[s]
    <3>1. PICK h, T : h = g /\ T = S
      OBVIOUS
    <3>2. h \in Seq(T) /\ Len(h) = m /\ x \in T /\ a[k] = Append(h, x)
      BY <1>8, <2>2, <3>1, Zenon
    <3>3. a[k] \in Seq(T) /\ Len(a[k]) = m + 1 /\ a[k][m + 1] = x /\ \A s \in 1 .. m : a[k][s] = h[s]
      <4>1. PICK w : w = Append(h, x)
        OBVIOUS
      <4>2. w \in Seq(T) /\ Len(w) = m + 1
        BY <3>2, <4>1
      <4>3. w[m + 1] = x /\ \A s \in 1 .. m : w[s] = h[s]
        BY <1>2, <3>2, <4>1
      <4>. QED
        BY <3>2, <4>1, <4>2, <4>3, Zenon
    <3>. QED
      BY <3>1, <3>3, Zenon
  <2>. QED
    BY <2>1, <2>2, <2>3, Zenon
<1>10. \A s \in 1 .. m + 1 : a[k][s] = f[s]
  <2>1. \A s \in 1 .. m + 1 : s \in 1 .. m \/ s = m + 1
    BY <1>2
  <2>. QED
    BY <1>3, <1>6, <1>9, <2>1
<1>11. a[k] = f
  BY <1>8, <1>9, <1>10, SeqEqual
<1>. QED
  BY <1>2, <1>11, Zenon DEF Paired, f, pair

(* An end pops the pair of the node that it closes.                        *)
LEMMA PairedEnds ==
  ASSUME NEW o, NEW a, NEW d, NEW k \in Nat \ {0}, o[k - 1] \in Seq(Nat), o[k - 1] # <<>>,
         Paired(o, a, d, k - 1), o[k] = Front(o[k - 1]), a[k] = Front(a[k - 1])
  PROVE  Paired(o, a, d, k)
<1>1. PICK m : m = Len(o[k - 1]) - 1
  OBVIOUS
<1>2. m \in Nat /\ Len(o[k - 1]) = m + 1
  BY <1>1
<1>3. Len(o[k]) = m /\ \A s \in 1 .. m : o[k][s] = o[k - 1][s]
  <2>1. o[k] = Start(o[k - 1], m)
    BY <1>1 DEF Front, Start
  <2>. QED
    BY <1>2, <2>1, StartIs
<1>. DEFINE pair(s) == <<text[o[k - 1][s]].name, d[o[k - 1][s] - 1]>>
            S == {pair(s) : s \in 1 .. m + 1}
            f == [s \in 1 .. m |-> pair(s)]
<1>4. a[k - 1] = [s \in 1 .. m + 1 |-> pair(s)]
  BY <1>2, Zenon DEF Paired
<1>5. \A s \in 1 .. m : s \in 1 .. m + 1
  BY <1>2
<1>6. a[k - 1] \in [1 .. m + 1 -> S] /\ \A s \in 1 .. m : a[k - 1][s] = pair(s)
  BY <1>4, <1>5, Zenon
<1>7. f \in [1 .. m -> S] /\ \A s \in 1 .. m : f[s] = pair(s)
  BY <1>5, Zenon
<1>8. Paired(o, a, d, k) <=> a[k] = f
  <2>1. \A s \in 1 .. m : <<text[o[k][s]].name, d[o[k][s] - 1]>> = pair(s)
    BY <1>3, Zenon
  <2>2. Paired(o, a, d, k)
          <=> a[k] = [s \in 1 .. m |-> <<text[o[k][s]].name, d[o[k][s] - 1]>>]
    BY <1>3, Zenon DEF Paired
  <2>. QED
    BY <2>1, <2>2, Zenon
<1>. HIDE DEF pair, S, f
<1>9. a[k - 1] \in Seq(S) /\ Len(a[k - 1]) = m + 1 /\ f \in Seq(S) /\ Len(f) = m
  <2>1. m + 1 \in Nat
    BY <1>2
  <2>. QED
    BY <1>2, <1>6, <1>7, <2>1, FunctionIsSequence
<1>10. /\ a[k] \in Seq(S) /\ Len(a[k]) = m
       /\ \A s \in 1 .. m : a[k][s] = a[k - 1][s]
  <2>1. a[k] = SubSeq(a[k - 1], 1, m)
    BY <1>2, <1>9 DEF Front
  <2>. QED
    BY <1>2, <1>9, <2>1, SubSeqProperties
<1>11. a[k] = f
  <2>1. \A s \in 1 .. m : a[k][s] = f[s]
    BY <1>6, <1>7, <1>10, Zenon
  <2>. QED
    BY <1>9, <1>10, <2>1, SeqEqual
<1>. QED
  BY <1>8, <1>11

(* At every point of a run the open nodes are nested, and the parser keeps *)
(* a pair for each.                                                        *)
LEMMA Stacks ==
  ASSUME NEW o, NEW a, NEW d, NEW n, IsRun(text, o, a, d, n)
  PROVE  \A k \in 0 .. n : Nested(o, k) /\ Paired(o, a, d, k)
<1>. DEFINE Bad == {k \in 0 .. n : ~ (Nested(o, k) /\ Paired(o, a, d, k))}
<1>. SUFFICES ASSUME Bad # {} PROVE FALSE
  OBVIOUS
<1>0. n \in Nat
  BY DEF IsRun
<1>1. PICK k \in Bad : \A m \in Bad : k <= m
  <2>1. Bad \in SUBSET Nat
    BY <1>0
  <2>. HIDE DEF Bad
  <2>. QED
    BY <2>1, LeastElement, Zenon
<1>2. k # 0
  <2>. SUFFICES ASSUME k = 0 PROVE FALSE
    OBVIOUS
  <2>1. o[0] = <<>> /\ a[0] = <<>>
    BY DEF IsRun
  <2>2. o[0] \in Seq(Nat) /\ Len(o[0]) = 0 /\ \A s : s \notin 1 .. Len(o[0])
    BY <2>1
  <2>3. Nested(o, 0)
    BY <2>2 DEF Nested
  <2>4. a[0] = [s \in 1 .. Len(o[0]) |-> <<text[o[0][s]].name, d[o[0][s] - 1]>>]
    BY <2>1, <2>2
  <2>5. Paired(o, a, d, 0)
    BY <2>4, Zenon DEF Paired
  <2>. QED
    BY <1>1, <2>3, <2>5
<1>3. k \in 1 .. n /\ k - 1 \in 0 .. n /\ k \in Nat \ {0}
  BY <1>0, <1>1, <1>2
<1>4. Nested(o, k - 1) /\ Paired(o, a, d, k - 1)
  BY <1>0, <1>1, <1>3
<1>5. TokenStep(text[k], k, o[k - 1], a[k - 1], d[k - 1], o[k], a[k], d[k])
  BY <1>3 DEF IsRun
<1>6. o[k - 1] \in Seq(Nat)
  BY <1>4 DEF Nested
<1>7. CASE Kind(k) = "begin" /\ o[k] = Append(o[k - 1], k)
           /\ a[k] = Append(a[k - 1], <<text[k].name, d[k - 1]>>)
  BY <1>1, <1>3, <1>4, <1>6, <1>7, NestedBegins, PairedBegins, Zenon
<1>8. CASE a[k - 1] # <<>> /\ o[k] = Front(o[k - 1]) /\ a[k] = Front(a[k - 1])
  <2>1. o[k - 1] # <<>>
    BY <1>4, <1>6, <1>8, PairsAre
  <2>. QED
    BY <1>1, <1>3, <1>4, <1>6, <1>8, <2>1, NestedEnds, PairedEnds, Zenon
<1>9. CASE o[k] = o[k - 1] /\ a[k] = a[k - 1]
  <2>1. \A s \in 1 .. Len(o[k - 1]) : o[k - 1][s] \in 1 .. k - 1 => o[k - 1][s] \in 1 .. k
    BY <1>3
  <2>2. Nested(o, k)
    BY <1>4, <1>9, <2>1 DEF Nested
  <2>3. Paired(o, a, d, k)
    BY <1>4, <1>9, Zenon DEF Paired
  <2>. QED
    BY <1>1, <2>2, <2>3
<1>. QED
  BY <1>5, <1>7, <1>8, <1>9, Zenon DEF TokenStep, Kind

-----------------------------------------------------------------------------
(* How many tokens of a kind there are, token by token.                    *)
LEMMA NumberNext ==
  ASSUME NEW kind, NEW i \in Nat, NEW k \in Nat
  PROVE  /\ NumberOf(kind, i, k) \in Nat
         /\ k < i => NumberOf(kind, i, k) = 0
         /\ i <= k + 1 => NumberOf(kind, i, k + 1)
                            = NumberOf(kind, i, k) + (IF Kind(k + 1) = kind THEN 1 ELSE 0)
<1>. DEFINE S(m) == {j \in i .. m : Kind(j) = kind}
<1>1. IsFiniteSet(S(k))
  <2>1. IsFiniteSet(i .. k)
    BY FS_Interval
  <2>. QED
    BY <2>1, FS_Subset
<1>2. Cardinality(S(k)) \in Nat
  BY <1>1, FS_CardinalityType
<1>3. ASSUME k < i PROVE Cardinality(S(k)) = 0
  <2>1. S(k) = {}
    BY <1>3
  <2>. QED
    BY <2>1, FS_EmptySet
<1>4. ASSUME i <= k + 1, Kind(k + 1) = kind PROVE Cardinality(S(k + 1)) = Cardinality(S(k)) + 1
  <2>1. S(k + 1) = S(k) \cup {k + 1} /\ k + 1 \notin S(k)
    BY <1>4
  <2>. QED
    BY <1>1, <2>1, FS_AddElement
<1>5. ASSUME i <= k + 1, Kind(k + 1) # kind PROVE Cardinality(S(k + 1)) = Cardinality(S(k))
  <2>1. S(k + 1) = S(k)
    BY <1>5
  <2>. QED
    BY <2>1
<1>6. \A m : NumberOf(kind, i, m) = Cardinality(S(m))
  BY DEF NumberOf
<1>. HIDE DEF S
<1>. QED
  BY <1>2, <1>3, <1>4, <1>5, <1>6

(* By how much the beginnings are ahead of the ends.                       *)
Ahead(i, k) == NumberOf("begin", i, k) - NumberOf("end", i, k)

(* A beginning adds one, an end takes one away, other tokens nothing.      *)
LEMMA AheadNext ==
  ASSUME NEW i \in Nat, NEW k \in Nat
  PROVE  /\ Ahead(i, k) \in Int
         /\ k < i => Ahead(i, k) = 0
         /\ i <= k + 1 => /\ Kind(k + 1) = "begin" => Ahead(i, k + 1) = Ahead(i, k) + 1
                          /\ Kind(k + 1) = "end" => Ahead(i, k + 1) = Ahead(i, k) - 1
                          /\ Kind(k + 1) \notin {"begin", "end"} => Ahead(i, k + 1) = Ahead(i, k)
<1>1. /\ NumberOf("begin", i, k) \in Nat /\ NumberOf("end", i, k) \in Nat
      /\ k < i => NumberOf("begin", i, k) = 0 /\ NumberOf("end", i, k) = 0
  BY NumberNext
<1>2. ASSUME i <= k + 1
      PROVE  /\ NumberOf("begin", i, k + 1)
                  = NumberOf("begin", i, k) + (IF Kind(k + 1) = "begin" THEN 1 ELSE 0)
             /\ NumberOf("end", i, k + 1)
                  = NumberOf("end", i, k) + (IF Kind(k + 1) = "end" THEN 1 ELSE 0)
  BY <1>2, NumberNext
<1>. QED
  BY <1>1, <1>2 DEF Ahead

(* A node is open as long as its beginning is ahead.                       *)
LEMMA OpenNext ==
  ASSUME NEW i \in Nat, NEW k \in Nat
  PROVE  /\ OpenAt(i, i) <=> Kind(i) = "begin"
         /\ i <= k => (OpenAt(i, k + 1) <=> OpenAt(i, k) /\ Ahead(i, k + 1) > 0)
<1>1. ASSUME NEW j \in Nat
      PROVE  NumberOf("begin", i, j) > NumberOf("end", i, j) <=> Ahead(i, j) > 0
  BY <1>1, NumberNext DEF Ahead
<1>2. ASSUME NEW m \in Nat
      PROVE  OpenAt(i, m) <=> Kind(i) = "begin" /\ \A j \in i .. m : Ahead(i, j) > 0
  <2>1. \A j \in i .. m : j \in Nat
    BY <1>2
  <2>. QED
    BY <1>1, <2>1, Zenon DEF OpenAt
<1>3. OpenAt(i, i) <=> Kind(i) = "begin"
  <2>1. ASSUME Kind(i) = "begin" PROVE Ahead(i, i) > 0
    <3>1. CASE i = 0
      <4>1. i .. i = {0}
        BY <3>1
      <4>2. {j \in i .. i : Kind(j) = "begin"} = {0} /\ {j \in i .. i : Kind(j) = "end"} = {}
        BY <2>1, <3>1, <4>1
      <4>3. NumberOf("begin", i, i) = 1 /\ NumberOf("end", i, i) = 0
        BY <4>2, FS_Singleton, FS_EmptySet DEF NumberOf
      <4>. QED
        BY <4>3 DEF Ahead
    <3>2. CASE i # 0
      <4>1. i - 1 \in Nat /\ (i - 1) + 1 = i
        BY <3>2
      <4>2. Ahead(i, i - 1) = 0
        BY <4>1, AheadNext
      <4>3. Ahead(i, i) = Ahead(i, i - 1) + 1
        BY <2>1, <4>1, AheadNext
      <4>. QED
        BY <4>2, <4>3
    <3>. QED
      BY <3>1, <3>2
  <2>2. \A j \in i .. i : j = i
    OBVIOUS
  <2>. QED
    BY <1>2, <2>1, <2>2
<1>4. ASSUME i <= k PROVE OpenAt(i, k + 1) <=> OpenAt(i, k) /\ Ahead(i, k + 1) > 0
  <2>1. \A j \in i .. k + 1 : j \in i .. k \/ j = k + 1
    OBVIOUS
  <2>2. k + 1 \in i .. k + 1 /\ \A j \in i .. k : j \in i .. k + 1
    BY <1>4
  <2>3. k + 1 \in Nat
    OBVIOUS
  <2>. QED
    BY <1>2, <2>1, <2>2, <2>3
<1>. QED
  BY <1>3, <1>4

(* The nodes that are open by the count of beginnings and ends are those   *)
(* the parser keeps.                                                       *)
Counted(o, k) ==
  /\ Ahead(1, k) = Len(o[k])
  /\ \A s \in 1 .. Len(o[k]) : Ahead(o[k][s], k) = Len(o[k]) - s + 1
  /\ \A i \in 1 .. k : OpenAt(i, k) <=> \E s \in 1 .. Len(o[k]) : o[k][s] = i

(* One token more, and the counts still tell the open nodes.               *)
LEMMA CountedNext ==
  ASSUME NEW o, NEW k \in Nat, Nested(o, k), Nested(o, k + 1), Counted(o, k),
         \/ Kind(k + 1) = "begin" /\ o[k + 1] = Append(o[k], k + 1)
         \/ Kind(k + 1) = "end" /\ o[k] # <<>> /\ o[k + 1] = Front(o[k])
         \/ Kind(k + 1) \notin {"begin", "end"} /\ o[k + 1] = o[k]
  PROVE  Counted(o, k + 1)
<1>1. PICK q, p, m : q = o[k] /\ p = o[k + 1] /\ m = Len(o[k])
  OBVIOUS
<1>2. q \in Seq(Nat) /\ m \in Nat /\ m = Len(q) /\ (q = <<>> <=> m = 0)
  BY <1>1 DEF Nested
<1>3. \A s \in 1 .. m : q[s] \in 1 .. k /\ q[s] \in Nat
  BY <1>1 DEF Nested
<1>4. \A r, s \in 1 .. m : r < s => q[r] < q[s]
  BY <1>1 DEF Nested
<1>5. /\ Ahead(1, k) = m
      /\ \A s \in 1 .. m : Ahead(q[s], k) = m - s + 1
      /\ \A i \in 1 .. k : OpenAt(i, k) <=> \E s \in 1 .. m : q[s] = i
  BY <1>1, Zenon DEF Counted
<1>6. \A i \in 1 .. k : OpenAt(i, k + 1) <=> OpenAt(i, k) /\ Ahead(i, k + 1) > 0
  BY OpenNext
<1>7. \A i \in 1 .. k : OpenAt(i, k + 1) <=> \E s \in 1 .. m : q[s] = i /\ Ahead(q[s], k + 1) > 0
  BY <1>5, <1>6, Zenon
<1>8. OpenAt(k + 1, k + 1) <=> Kind(k + 1) = "begin"
  BY OpenNext
<1>9. \A i \in 1 .. k + 1 : i \in 1 .. k \/ i = k + 1
  OBVIOUS
<1>14. ASSUME NEW i \in 1 .. k + 1
       PROVE  /\ Kind(k + 1) = "begin" => Ahead(i, k + 1) = Ahead(i, k) + 1
              /\ Kind(k + 1) = "end" => Ahead(i, k + 1) = Ahead(i, k) - 1
              /\ Kind(k + 1) \notin {"begin", "end"} => Ahead(i, k + 1) = Ahead(i, k)
  <2>1. i \in Nat /\ i <= k + 1
    OBVIOUS
  <2>. QED
    BY <2>1, AheadNext
<1>15. /\ 1 \in 1 .. k + 1 /\ k + 1 \in 1 .. k + 1 /\ Ahead(k + 1, k) = 0
       /\ \A s \in 1 .. m : q[s] \in 1 .. k + 1
  <2>1. k + 1 \in Nat /\ k < k + 1
    OBVIOUS
  <2>2. Ahead(k + 1, k) = 0
    BY <2>1, AheadNext
  <2>. QED
    BY <1>3, <2>2
<1>10. SUFFICES /\ Ahead(1, k + 1) = Len(p)
                /\ \A s \in 1 .. Len(p) : Ahead(p[s], k + 1) = Len(p) - s + 1
                /\ \A i \in 1 .. k + 1 : OpenAt(i, k + 1) <=> \E s \in 1 .. Len(p) : p[s] = i
  BY <1>1, Zenon DEF Counted
<1>11. CASE Kind(k + 1) = "begin" /\ p = Append(q, k + 1)
  <2>1. /\ Len(p) = m + 1 /\ p[m + 1] = k + 1 /\ \A s \in 1 .. m : p[s] = q[s]
    BY <1>2, <1>11
  <2>2. Ahead(1, k + 1) = m + 1
    BY <1>5, <1>11, <1>14, <1>15
  <2>3. \A s \in 1 .. m : Ahead(q[s], k + 1) = m - s + 2
    BY <1>2, <1>5, <1>11, <1>14, <1>15, SMTT(30)
  <2>4. Ahead(k + 1, k + 1) = 1
    BY <1>11, <1>14, <1>15
  <2>5. \A s \in 1 .. m + 1 : s \in 1 .. m \/ s = m + 1
    BY <1>2
  <2>6. \A s \in 1 .. m + 1 : Ahead(p[s], k + 1) = (m + 1) - s + 1
    BY <1>2, <2>1, <2>3, <2>4, <2>5
  <2>7. \A s \in 1 .. m : Ahead(q[s], k + 1) > 0
    BY <1>2, <2>3
  <2>8. \A i \in 1 .. k : OpenAt(i, k + 1) <=> \E s \in 1 .. m + 1 : p[s] = i
    <3>. SUFFICES ASSUME NEW i \in 1 .. k
                  PROVE  OpenAt(i, k + 1) <=> \E s \in 1 .. m + 1 : p[s] = i
      OBVIOUS
    <3>1. i # k + 1
      OBVIOUS
    <3>2. \A s \in 1 .. m : s \in 1 .. m + 1
      BY <1>2
    <3>. QED
      BY <1>7, <2>1, <2>5, <2>7, <3>1, <3>2, Zenon
  <2>9. m + 1 \in 1 .. m + 1
    BY <1>2
  <2>. QED
    BY <1>8, <1>9, <1>11, <2>1, <2>2, <2>6, <2>8, <2>9, Zenon
<1>12. CASE Kind(k + 1) = "end" /\ q # <<>> /\ p = Front(q)
  <2>1. m - 1 \in Nat /\ Len(p) = m - 1 /\ \A s \in 1 .. m - 1 : p[s] = q[s]
    <3>1. m - 1 \in Nat /\ m - 1 <= Len(q)
      BY <1>2, <1>12
    <3>2. p = Start(q, m - 1)
      BY <1>2, <1>12 DEF Front, Start
    <3>. QED
      BY <1>2, <3>1, <3>2, StartIs
  <2>2. Ahead(1, k + 1) = m - 1
    BY <1>5, <1>12, <1>14, <1>15
  <2>3. ASSUME NEW s \in 1 .. m PROVE Ahead(q[s], k + 1) = m - s
    <3>1. PICK x : x = Ahead(q[s], k)
      OBVIOUS
    <3>2. x = m - s + 1 /\ Ahead(q[s], k + 1) = x - 1
      BY <1>5, <1>12, <1>14, <1>15, <3>1, Zenon
    <3>. QED
      BY <1>2, <3>2
  <2>4. ASSUME NEW s \in 1 .. m - 1 PROVE Ahead(p[s], k + 1) = (m - 1) - s + 1
    <3>1. s \in 1 .. m /\ (m - 1) - s + 1 = m - s
      BY <1>2
    <3>2. Ahead(p[s], k + 1) = m - s
      BY <2>1, <2>3, <3>1, Zenon
    <3>. QED
      BY <3>1, <3>2
  <2>5. \A s \in 1 .. m : Ahead(q[s], k + 1) > 0 <=> s \in 1 .. m - 1
    BY <1>2, <2>3
  <2>6. \A i \in 1 .. k : OpenAt(i, k + 1) <=> \E s \in 1 .. m - 1 : p[s] = i
    <3>1. \A s \in 1 .. m - 1 : s \in 1 .. m
      BY <1>2
    <3>. QED
      BY <1>7, <2>1, <2>5, <3>1, Zenon
  <2>7. \A s \in 1 .. m - 1 : p[s] # k + 1
    BY <1>2, <1>3, <2>1, SMTT(30)
  <2>8. ~ OpenAt(k + 1, k + 1)
    BY <1>8, <1>12
  <2>. QED
    BY <1>9, <2>1, <2>2, <2>4, <2>6, <2>7, <2>8, Zenon
<1>13. CASE Kind(k + 1) \notin {"begin", "end"} /\ p = q
  <2>1. Ahead(1, k + 1) = m
    BY <1>5, <1>13, <1>14, <1>15
  <2>2. \A s \in 1 .. m : Ahead(q[s], k + 1) = m - s + 1
    BY <1>2, <1>5, <1>13, <1>14, <1>15
  <2>3. \A s \in 1 .. m : Ahead(q[s], k + 1) > 0 /\ q[s] # k + 1
    BY <1>2, <1>3, <2>2
  <2>4. ~ OpenAt(k + 1, k + 1)
    BY <1>8, <1>13
  <2>. QED
    BY <1>2, <1>7, <1>9, <1>13, <2>1, <2>2, <2>3, <2>4, Zenon
<1>. QED
  BY <1>1, <1>11, <1>12, <1>13, Zenon

(* At every point of a run the counts tell the open nodes.                 *)
LEMMA StacksCounted ==
  ASSUME NEW o, NEW a, NEW d, NEW n, IsRun(text, o, a, d, n)
  PROVE  \A k \in 0 .. n : Nested(o, k) /\ Counted(o, k)
<1>. DEFINE Bad == {k \in 0 .. n : ~ Counted(o, k)}
<1>0. n \in Nat
  BY DEF IsRun
<1>1. \A k \in 0 .. n : Nested(o, k) /\ Paired(o, a, d, k)
  BY Stacks
<1>. SUFFICES ASSUME Bad # {} PROVE FALSE
  BY <1>1
<1>2. PICK k \in Bad : \A m \in Bad : k <= m
  <2>1. Bad \in SUBSET Nat
    BY <1>0
  <2>. HIDE DEF Bad
  <2>. QED
    BY <2>1, LeastElement, Zenon
<1>3. k # 0
  <2>. SUFFICES ASSUME k = 0 PROVE FALSE
    OBVIOUS
  <2>1. Len(o[0]) = 0
    BY DEF IsRun
  <2>2. Ahead(1, 0) = 0
    BY AheadNext
  <2>3. \A s : s \notin 1 .. Len(o[0]) /\ s \notin 1 .. 0
    BY <2>1
  <2>4. Counted(o, 0)
    BY <2>1, <2>2, <2>3, Zenon DEF Counted
  <2>. QED
    BY <1>2, <2>4
<1>4. PICK j \in Nat : j + 1 = k /\ j \in 0 .. n /\ k \in 1 .. n /\ k - 1 = j
  BY <1>0, <1>2, <1>3
<1>5. Counted(o, j)
  BY <1>0, <1>2, <1>4
<1>6. TokenStep(text[k], k, o[j], a[j], d[j], o[k], a[k], d[k])
  BY <1>4 DEF IsRun
<1>7. Nested(o, j) /\ Nested(o, j + 1) /\ Paired(o, a, d, j) /\ o[j] \in Seq(Nat)
  BY <1>1, <1>2, <1>4 DEF Nested
<1>8. \/ Kind(j + 1) = "begin" /\ o[j + 1] = Append(o[j], j + 1)
      \/ Kind(j + 1) = "end" /\ o[j] # <<>> /\ o[j + 1] = Front(o[j])
      \/ Kind(j + 1) \notin {"begin", "end"} /\ o[j + 1] = o[j]
  <2>1. a[j] = <<>> <=> o[j] = <<>>
    BY <1>7, PairsAre
  <2>. QED
    BY <1>4, <1>6, <2>1 DEF TokenStep, Kind
<1>9. Counted(o, j + 1)
  BY <1>5, <1>7, <1>8, CountedNext
<1>. QED
  BY <1>2, <1>4, <1>9

(* What the stacks of a run say: all that is needed of them below.         *)
Spells(o, n) ==
  /\ n \in Nat /\ o[0] = <<>>
  /\ \A k \in 0 .. n : Nested(o, k) /\ Counted(o, k)
  /\ \A k \in 1 .. n :
       \/ Kind(k) = "begin" /\ o[k] = Append(o[k - 1], k)
       \/ Kind(k) = "end" /\ o[k - 1] # <<>> /\ o[k] = Front(o[k - 1])
       \/ Kind(k) \in {"prop", "nop"} /\ o[k] = o[k - 1]

(* The stacks of a run of the parser say all of this.                      *)
LEMMA RunSpells ==
  ASSUME NEW o, NEW a, NEW d, NEW n, IsRun(text, o, a, d, n)
  PROVE  Spells(o, n)
<1>1. \A k \in 0 .. n : Nested(o, k) /\ Counted(o, k)
  BY StacksCounted
<1>2. n \in Nat /\ o[0] = <<>>
  BY DEF IsRun
<1>3. ASSUME NEW k \in 1 .. n
      PROVE  \/ Kind(k) = "begin" /\ o[k] = Append(o[k - 1], k)
             \/ Kind(k) = "end" /\ o[k - 1] # <<>> /\ o[k] = Front(o[k - 1])
             \/ Kind(k) \in {"prop", "nop"} /\ o[k] = o[k - 1]
  <2>1. k - 1 \in 0 .. n
    BY <1>2
  <2>2. Nested(o, k - 1) /\ Paired(o, a, d, k - 1)
    BY <2>1, Stacks
  <2>3. a[k - 1] = <<>> <=> o[k - 1] = <<>>
    BY <2>2, PairsAre DEF Nested
  <2>4. TokenStep(text[k], k, o[k - 1], a[k - 1], d[k - 1], o[k], a[k], d[k])
    BY DEF IsRun
  <2>. QED
    BY <2>3, <2>4 DEF TokenStep, Kind
<1>. QED
  BY <1>1, <1>2, <1>3, Zenon DEF Spells

(* The nodes around a point of the text are those on the stack there, and  *)
(* the innermost of them is on top.                                        *)
LEMMA ChainIs ==
  ASSUME NEW o, NEW n, Spells(o, n), NEW k \in 0 .. n
  PROVE  /\ Len(o[k]) \in Nat
         /\ Chain(k) = {0} \cup {o[k][s] : s \in 1 .. Len(o[k])}
         /\ Inside(k) = IF Len(o[k]) = 0 THEN 0 ELSE o[k][Len(o[k])]
         /\ Inside(k) \in 0 .. k /\ Inside(k) \in Chain(k)
<1>1. PICK q, m : q = o[k] /\ m = Len(o[k])
  OBVIOUS
<1>2. q \in Seq(Nat) /\ m \in Nat /\ m = Len(q)
  BY <1>1 DEF Spells, Nested
<1>3. \A s \in 1 .. m : q[s] \in 1 .. k
  BY <1>1 DEF Spells, Nested
<1>4. \A r, s \in 1 .. m : r < s => q[r] < q[s]
  BY <1>1 DEF Spells, Nested
<1>5. \A i \in 1 .. k : OpenAt(i, k) <=> \E s \in 1 .. m : q[s] = i
  BY <1>1, Zenon DEF Spells, Counted
<1>6. Chain(k) = {0} \cup {q[s] : s \in 1 .. m}
  <2>1. {i \in 1 .. k : OpenAt(i, k)} = {q[s] : s \in 1 .. m}
    BY <1>3, <1>5
  <2>. QED
    BY <2>1 DEF Chain
<1>. DEFINE t == IF m = 0 THEN 0 ELSE q[m]
<1>7. t \in Chain(k) /\ t \in 0 .. k /\ \A i \in Chain(k) : i <= t
  <2>1. CASE m = 0
    BY <1>6, <2>1
  <2>2. CASE m # 0
    <3>1. m \in 1 .. m
      BY <1>2, <2>2
    <3>2. ASSUME NEW s \in 1 .. m PROVE q[s] <= q[m]
      <4>1. CASE s = m
        BY <1>3, <3>1, <4>1
      <4>2. CASE s # m
        <5>1. s < m
          BY <1>2, <4>2
        <5>2. q[s] < q[m]
          BY <1>4, <3>1, <5>1
        <5>. QED
          BY <1>3, <3>1, <5>2
      <4>. QED
        BY <4>1, <4>2
    <3>3. t = q[m] /\ q[m] \in 1 .. k
      BY <1>3, <2>2, <3>1
    <3>. QED
      BY <1>6, <3>1, <3>2, <3>3
  <2>. QED
    BY <2>1, <2>2
<1>. HIDE DEF t
<1>8. \A i \in Chain(k) : i \in 0 .. k
  BY <1>3, <1>6
<1>9. \A i \in Chain(k) : (\A j \in Chain(k) : j <= i) => i = t
  BY <1>7, <1>8
<1>10. Inside(k) = t
  BY <1>7, <1>9, Zenon DEF Inside, Greatest
<1>. QED
  BY <1>1, <1>2, <1>6, <1>7, <1>10 DEF t

TopOf(q) == IF Len(q) = 0 THEN 0 ELSE q[Len(q)]

(* The node that token k is in is on top of the stack.                     *)
LEMMA InsideIs ==
  ASSUME NEW o, NEW n, Spells(o, n), NEW k \in 0 .. n
  PROVE  Inside(k) = TopOf(o[k])
<1>1. Inside(k) = IF Len(o[k]) = 0 THEN 0 ELSE o[k][Len(o[k])]
  BY ChainIs
<1>. QED
  BY <1>1 DEF TopOf

(* A node is open with the same nodes around it for as long as it is open. *)
LEMMA StaysOpen ==
  ASSUME NEW o, NEW n, Spells(o, n), NEW k \in 0 .. n, NEW s \in 1 .. Len(o[k]),
         NEW j \in o[k][s] .. k
  PROVE  /\ j \in 0 .. n /\ s \in 1 .. Len(o[j]) /\ o[j][s] = o[k][s]
         /\ Start(o[j], s) = o[o[k][s]] /\ Start(o[k], s) = o[o[k][s]]
<1>1. PICK i : i = o[k][s]
  OBVIOUS
<1>2. i \in 1 .. k /\ o[i] = Start(o[k], s) /\ o[k] \in Seq(Nat)
  BY <1>1 DEF Spells, Nested
<1>3. j \in 0 .. n /\ i \in 1 .. j /\ n \in Nat
  BY <1>1, <1>2 DEF Spells
<1>4. OpenAt(i, k)
  <2>1. \A x \in 1 .. k : OpenAt(x, k) <=> \E r \in 1 .. Len(o[k]) : o[k][r] = x
    BY Zenon DEF Spells, Counted
  <2>. QED
    BY <1>1, <1>2, <2>1, Zenon
<1>5. OpenAt(i, j)
  <2>1. \A x \in i .. j : x \in i .. k
    BY <1>1, <1>3
  <2>. QED
    BY <1>4, <2>1, Zenon DEF OpenAt
<1>6. PICK r \in 1 .. Len(o[j]) : o[j][r] = i
  <2>1. \A x \in 1 .. j : OpenAt(x, j) <=> \E r \in 1 .. Len(o[j]) : o[j][r] = x
    BY <1>3, Zenon DEF Spells, Counted
  <2>. QED
    BY <1>3, <1>5, <2>1, Zenon
<1>7. o[i] = Start(o[j], r) /\ o[j] \in Seq(Nat)
  <2>1. Nested(o, j)
    BY <1>3, Zenon DEF Spells
  <2>. QED
    BY <1>6, <2>1, Zenon DEF Nested
<1>8. r = s
  <2>1. Len(Start(o[k], s)) = s
    <3>1. s \in Nat /\ s <= Len(o[k])
      BY <1>2
    <3>. QED
      BY <1>2, <3>1, StartIs
  <2>2. Len(Start(o[j], r)) = r
    <3>1. r \in Nat /\ r <= Len(o[j])
      BY <1>7
    <3>. QED
      BY <1>7, <3>1, StartIs
  <2>. QED
    BY <1>2, <1>7, <2>1, <2>2
<1>. QED
  BY <1>1, <1>2, <1>3, <1>6, <1>7, <1>8

(* A node that is open, seen from a later point: how deep it lies, and in  *)
(* which node.                                                             *)
LEMMA OpenNode ==
  ASSUME NEW o, NEW n, Spells(o, n), NEW k \in 0 .. n, NEW s \in 1 .. Len(o[k]),
         NEW j, j = o[k][s]
  PROVE  /\ j \in 1 .. k /\ j \in 1 .. n /\ Kind(j) = "begin"
         /\ o[j] = Start(o[k], s) /\ Len(o[j]) = s
         /\ \A r \in 1 .. s : o[j][r] = o[k][r]
         /\ o[j - 1] = Start(o[k], s - 1) /\ Len(o[j - 1]) = s - 1
         /\ ParentOf(j) = IF s = 1 THEN 0 ELSE o[k][s - 1]
<1>1. /\ o[k] \in Seq(Nat) /\ j \in 1 .. k /\ Kind(j) = "begin"
      /\ o[j] = Start(o[k], s) /\ o[j - 1] = Start(o[k], s - 1)
  BY DEF Spells, Nested
<1>2. /\ s \in Nat /\ s <= Len(o[k]) /\ s - 1 \in Nat /\ s - 1 <= Len(o[k])
  BY <1>1
<1>3. Len(o[j]) = s /\ \A r \in 1 .. s : o[j][r] = o[k][r]
  BY <1>1, <1>2, StartIs, SMTT(30)
<1>4. Len(o[j - 1]) = s - 1 /\ \A r \in 1 .. s - 1 : o[j - 1][r] = o[k][r]
  BY <1>1, <1>2, StartIs, ZenonT(30)
<1>5. n \in Nat
  BY DEF Spells
<1>6. j \in 1 .. n /\ j - 1 \in 0 .. n
  BY <1>1, <1>5
<1>7. Inside(j - 1) = IF s - 1 = 0 THEN 0 ELSE o[j - 1][s - 1]
  BY <1>4, <1>6, ChainIs, SMTT(30)
<1>8. s # 1 => s - 1 \in 1 .. s - 1
  BY <1>2
<1>9. ParentOf(j) = IF s = 1 THEN 0 ELSE o[k][s - 1]
  BY <1>2, <1>4, <1>7, <1>8 DEF ParentOf
<1>. QED
  BY <1>1, <1>3, <1>4, <1>6, <1>9

(* The beginning of a node is the last on its own stack.                   *)
LEMMA BeginIs ==
  ASSUME NEW o, NEW n, Spells(o, n), NEW i \in 1 .. n, Kind(i) = "begin"
  PROVE  /\ Len(o[i]) \in Nat \ {0} /\ o[i][Len(o[i])] = i
         /\ Len(o[i]) \in 1 .. Len(o[i])
         /\ ParentOf(i) \in 0 .. i - 1
         /\ \A s \in 1 .. Len(o[i]) : o[i][s] \in 1 .. i
         /\ \A s \in 1 .. Len(o[i]) : s < Len(o[i]) => o[i][s] < i
<1>1. n \in Nat /\ i \in 0 .. n /\ i - 1 \in 0 .. n
  BY DEF Spells
<1>2. o[i] = Append(o[i - 1], i)
  BY DEF Spells
<1>3. o[i - 1] \in Seq(Nat) /\ Nested(o, i)
  BY <1>1 DEF Spells, Nested
<1>4. Len(o[i]) \in Nat \ {0} /\ o[i][Len(o[i])] = i
  BY <1>2, <1>3
<1>5. Len(o[i]) \in 1 .. Len(o[i])
  BY <1>4
<1>6. Inside(i - 1) \in 0 .. i - 1
  BY <1>1, ChainIs
<1>7. \A s \in 1 .. Len(o[i]) : o[i][s] \in 1 .. i
  BY <1>3 DEF Nested
<1>8. \A s \in 1 .. Len(o[i]) : s < Len(o[i]) => o[i][s] < i
  BY <1>3, <1>4, <1>5 DEF Nested
<1>. QED
  BY <1>4, <1>5, <1>6, <1>7, <1>8 DEF ParentOf

(* While a node is open nothing lies directly in a node that began before. *)
LEMMA InsideOpen ==
  ASSUME NEW o, NEW n, Spells(o, n), NEW k \in 0 .. n, NEW s \in 1 .. Len(o[k]),
         NEW j \in o[k][s] .. k
  PROVE  Inside(j) >= o[k][s] /\ Inside(j) \in Nat
<1>1. j \in 0 .. n /\ s \in 1 .. Len(o[j]) /\ o[j][s] = o[k][s]
  BY StaysOpen
<1>2. /\ Len(o[j]) \in Nat
      /\ Inside(j) = IF Len(o[j]) = 0 THEN 0 ELSE o[j][Len(o[j])]
      /\ Inside(j) \in 0 .. j
  BY <1>1, ChainIs
<1>3. Len(o[j]) \in 1 .. Len(o[j])
  BY <1>1, <1>2
<1>4. /\ \A r, t \in 1 .. Len(o[j]) : r < t => o[j][r] < o[j][t]
      /\ \A r \in 1 .. Len(o[j]) : o[j][r] \in 1 .. j
  BY <1>1 DEF Spells, Nested
<1>5. CASE s = Len(o[j])
  BY <1>1, <1>2, <1>3, <1>4, <1>5
<1>6. CASE s < Len(o[j])
  <2>1. o[j][s] < o[j][Len(o[j])]
    BY <1>1, <1>3, <1>4, <1>6
  <2>. QED
    BY <1>1, <1>2, <1>3, <1>4, <2>1
<1>. QED
  BY <1>1, <1>2, <1>5, <1>6

-----------------------------------------------------------------------------
(* The nodes that lie in the node in progress after k tokens, and of these *)
(* the ones that neither have a later twin nor lie in a node that has one. *)
Within(o, k) ==
  {i \in 1 .. k : Kind(i) = "begin" /\ Len(o[k]) < Len(o[i]) /\ Start(o[i], Len(o[k])) = o[k]}

Over(j, k) ==
  \E m \in 1 .. k : /\ Kind(m) = "begin" /\ j < m
                    /\ ParentOf(m) = ParentOf(j) /\ text[m].name = text[j].name

Kept(o, k) ==
  {i \in Within(o, k) : \A s \in Len(o[k]) + 1 .. Len(o[i]) : ~ Over(o[i][s], k)}

NameAt(o, i, s) == text[o[i][s]].name

(* The path from the node in progress to one in it.                        *)
Rel(o, i, k) == [s \in 1 .. Len(o[i]) - Len(o[k]) |-> NameAt(o, i, Len(o[k]) + s)]

(* A node begins empty.                                                    *)
LEMMA KeptBegins ==
  ASSUME NEW o, NEW n, Spells(o, n), NEW k \in 1 .. n, Kind(k) = "begin"
  PROVE  Kept(o, k) = {} /\ Inside(k) = k
<1>1. n \in Nat /\ k \in 0 .. n
  BY DEF Spells
<1>2. /\ Len(o[k]) \in Nat \ {0} /\ o[k][Len(o[k])] = k /\ Len(o[k]) \in 1 .. Len(o[k])
  BY BeginIs
<1>3. ASSUME NEW i \in Within(o, k) PROVE FALSE
  <2>1. /\ i \in 1 .. k /\ Kind(i) = "begin" /\ Len(o[k]) < Len(o[i])
        /\ Start(o[i], Len(o[k])) = o[k]
    BY DEF Within
  <2>2. i \in 1 .. n /\ i \in 0 .. n
    BY <1>1, <2>1
  <2>3. /\ Len(o[i]) \in Nat
        /\ \A s \in 1 .. Len(o[i]) : s < Len(o[i]) => o[i][s] < i
    BY <2>1, <2>2, BeginIs
  <2>4. o[i] \in Seq(Nat)
    BY <2>2 DEF Spells, Nested
  <2>5. o[k][Len(o[k])] = o[i][Len(o[k])]
    <3>1. Len(o[k]) \in Nat /\ Len(o[k]) <= Len(o[i])
      BY <1>2, <2>1, <2>3
    <3>2. \A r \in 1 .. Len(o[k]) : Start(o[i], Len(o[k]))[r] = o[i][r]
      BY <2>4, <3>1, StartIs
    <3>. QED
      BY <1>2, <2>1, <3>2
  <2>6. Len(o[k]) \in 1 .. Len(o[i])
    BY <1>2, <2>1, <2>3
  <2>. QED
    BY <1>2, <2>1, <2>3, <2>5, <2>6
<1>4. Inside(k) = k
  BY <1>1, <1>2, ChainIs
<1>. QED
  BY <1>3, <1>4 DEF Kept

(* Properties and no-operations leave the nodes as they are.               *)
LEMMA KeptSame ==
  ASSUME NEW o, NEW n, Spells(o, n), NEW k \in 1 .. n, Kind(k) \in {"prop", "nop"}
  PROVE  /\ Kept(o, k) = Kept(o, k - 1) /\ Inside(k) = Inside(k - 1)
         /\ \A i : Rel(o, i, k) = Rel(o, i, k - 1)
<1>1. n \in Nat /\ k - 1 \in 0 .. n /\ k \in 0 .. n
  BY DEF Spells
<1>2. o[k] = o[k - 1]
  BY DEF Spells
<1>3. \A i \in 1 .. k : Kind(i) = "begin" => i \in 1 .. k - 1
  BY <1>1
<1>4. \A i \in 1 .. k - 1 : i \in 1 .. k
  BY <1>1
<1>5. Within(o, k) = Within(o, k - 1)
  BY <1>2, <1>3, <1>4, Zenon DEF Within
<1>6. \A j : Over(j, k) <=> Over(j, k - 1)
  BY <1>3, <1>4, Zenon DEF Over
<1>7. Kept(o, k) = Kept(o, k - 1)
  BY <1>2, <1>5, <1>6, Zenon DEF Kept
<1>8. Inside(k) = Inside(k - 1)
  <2>1. Inside(k) = TopOf(o[k]) /\ Inside(k - 1) = TopOf(o[k - 1])
    BY <1>1, InsideIs
  <2>. QED
    BY <1>2, <2>1, Zenon
<1>9. \A i : Rel(o, i, k) = Rel(o, i, k - 1)
  BY <1>2, Zenon DEF Rel
<1>. QED
  BY <1>7, <1>8, <1>9

(* An end closes the node that began at j0.                                *)
Closes(o, k, j0) ==
  /\ j0 \in 1 .. k - 1 /\ Kind(j0) = "begin" /\ Len(o[k]) \in Nat
  /\ Len(o[k - 1]) = Len(o[k]) + 1 /\ o[k - 1][Len(o[k]) + 1] = j0 /\ Last(o[k - 1]) = j0
  /\ Len(o[k]) + 1 \in 1 .. Len(o[k - 1])
  /\ o[j0] = o[k - 1] /\ o[j0 - 1] = o[k] /\ Start(o[k - 1], Len(o[k])) = o[k]
  /\ ParentOf(j0) = Inside(k) /\ Inside(k) \in 0 .. j0 - 1
  /\ k - 1 \in 0 .. k

(* The node that an end closes is the last on the stack before it.         *)
LEMMA EndCloses ==
  ASSUME NEW o, NEW n, Spells(o, n), NEW k \in 1 .. n, Kind(k) = "end"
  PROVE  Closes(o, k, o[k - 1][Len(o[k - 1])])
<1>1. n \in Nat /\ k - 1 \in 0 .. n /\ k \in 0 .. n /\ k - 1 \in 0 .. k
  BY DEF Spells
<1>2. o[k - 1] # <<>> /\ o[k] = Front(o[k - 1])
  BY DEF Spells
<1>3. PICK m : m = Len(o[k - 1])
  OBVIOUS
<1>4. o[k - 1] \in Seq(Nat) /\ m \in Nat \ {0} /\ m \in 1 .. m /\ m - 1 \in Nat
  BY <1>1, <1>2, <1>3 DEF Spells, Nested
<1>5. o[k] = Start(o[k - 1], m - 1) /\ Len(o[k]) = m - 1 /\ Len(o[k]) + 1 = m
  <2>1. o[k] = Start(o[k - 1], m - 1)
    BY <1>2, <1>3 DEF Front, Start
  <2>2. m - 1 <= Len(o[k - 1])
    BY <1>3, <1>4
  <2>3. Len(o[k]) = m - 1
    BY <1>4, <2>1, <2>2, StartIs
  <2>. QED
    BY <1>4, <2>1, <2>3
<1>6. PICK j0 : j0 = o[k - 1][m]
  OBVIOUS
<1>7. /\ j0 \in 1 .. k - 1 /\ Kind(j0) = "begin" /\ o[j0] = Start(o[k - 1], m)
      /\ o[j0 - 1] = Start(o[k - 1], m - 1)
  <2>1. PICK l : l = k - 1
    OBVIOUS
  <2>2. l \in 0 .. n /\ m \in 1 .. Len(o[l]) /\ j0 = o[l][m]
    BY <1>1, <1>3, <1>4, <1>6, <2>1
  <2>3. /\ j0 \in 1 .. l /\ Kind(j0) = "begin" /\ o[j0] = Start(o[l], m)
        /\ o[j0 - 1] = Start(o[l], m - 1)
    BY <2>2, OpenNode
  <2>. QED
    BY <2>1, <2>3
<1>8. o[j0] = o[k - 1] /\ o[j0 - 1] = o[k]
  BY <1>3, <1>4, <1>5, <1>7, StartOfAll
<1>9. Inside(j0 - 1) = Inside(k) /\ Inside(j0 - 1) \in 0 .. j0 - 1
  <2>1. j0 - 1 \in 0 .. n
    BY <1>1, <1>7
  <2>2. Inside(j0 - 1) = TopOf(o[j0 - 1]) /\ Inside(j0 - 1) \in 0 .. j0 - 1
    BY <2>1, ChainIs, InsideIs
  <2>3. Inside(k) = TopOf(o[k])
    BY <1>1, InsideIs
  <2>. QED
    BY <1>8, <2>2, <2>3, Zenon
<1>10. Last(o[k - 1]) = j0
  BY <1>3, <1>6 DEF Last
<1>11. Closes(o, k, j0)
  BY <1>1, <1>3, <1>4, <1>5, <1>6, <1>7, <1>8, <1>9, <1>10 DEF Closes, ParentOf
<1>. QED
  BY <1>3, <1>6, <1>11

(* The nodes that begin while j0 is open have no twin outside it.          *)
LEMMA OverEnds ==
  ASSUME NEW o, NEW n, Spells(o, n), NEW k \in 1 .. n, Kind(k) = "end",
         NEW j0, Closes(o, k, j0)
  PROVE  /\ ~ Over(j0, k)
         /\ \A j \in Nat : Over(j, k) <=> Over(j, k - 1)
         /\ \A j \in 1 .. j0 - 1 :
              Kind(j) = "begin" =>
                (Over(j, k) <=> \/ Over(j, j0 - 1)
                                \/ ParentOf(j) = Inside(k) /\ text[j].name = text[j0].name)
<1>1. n \in Nat /\ k - 1 \in 0 .. n
  BY DEF Spells
<1>2. /\ j0 \in 1 .. k - 1 /\ Kind(j0) = "begin" /\ Len(o[k]) + 1 \in 1 .. Len(o[k - 1])
      /\ o[k - 1][Len(o[k]) + 1] = j0 /\ ParentOf(j0) = Inside(k) /\ Inside(k) \in 0 .. j0 - 1
  BY DEF Closes
<1>3. ASSUME NEW m \in 1 .. k, Kind(m) = "begin", j0 < m
      PROVE  ParentOf(m) >= j0 /\ ParentOf(m) \in Nat
  <2>1. m - 1 \in j0 .. k - 1
    BY <1>2, <1>3
  <2>2. Inside(m - 1) >= j0 /\ Inside(m - 1) \in Nat
    BY <1>1, <1>2, <2>1, InsideOpen
  <2>. QED
    BY <2>2 DEF ParentOf
<1>4. ~ Over(j0, k)
  <2>. SUFFICES ASSUME NEW m \in 1 .. k, Kind(m) = "begin", j0 < m, ParentOf(m) = ParentOf(j0)
                PROVE  FALSE
    BY DEF Over
  <2>1. ParentOf(m) >= j0 /\ ParentOf(m) \in Nat
    BY <1>3
  <2>. QED
    BY <1>2, <2>1
<1>5. ASSUME NEW j \in Nat PROVE Over(j, k) <=> Over(j, k - 1)
  <2>1. \A m \in 1 .. k : Kind(m) = "begin" => m \in 1 .. k - 1
    BY <1>1
  <2>2. \A m \in 1 .. k - 1 : m \in 1 .. k
    BY <1>1
  <2>. QED
    BY <2>1, <2>2, Zenon DEF Over
<1>6. ASSUME NEW j \in 1 .. j0 - 1, Kind(j) = "begin"
      PROVE  Over(j, k) <=> \/ Over(j, j0 - 1)
                            \/ ParentOf(j) = Inside(k) /\ text[j].name = text[j0].name
  <2>1. ParentOf(j) \in 0 .. j - 1
    <3>1. j \in 1 .. n
      BY <1>1, <1>2
    <3>. QED
      BY <1>6, <3>1, BeginIs
  <2>2. \A m \in 1 .. k : Kind(m) = "begin" /\ j0 < m => ParentOf(m) # ParentOf(j)
    <3>. SUFFICES ASSUME NEW m \in 1 .. k, Kind(m) = "begin", j0 < m PROVE ParentOf(m) # ParentOf(j)
      OBVIOUS
    <3>1. ParentOf(m) >= j0 /\ ParentOf(m) \in Nat
      BY <1>3
    <3>. QED
      BY <1>2, <2>1, <3>1
  <2>3. \A m \in 1 .. k : m \in 1 .. j0 - 1 \/ m = j0 \/ j0 < m
    BY <1>2
  <2>4. (\A m \in 1 .. j0 - 1 : m \in 1 .. k) /\ j0 \in 1 .. k /\ j < j0
    BY <1>2, <1>1
  <2>. QED
    BY <1>2, <2>2, <2>3, <2>4, Zenon DEF Over
<1>. QED
  BY <1>4, <1>5, <1>6

(* Of the nodes in the node in progress, those directly in it.             *)
LEMMA DirectlyIn ==
  ASSUME NEW o, NEW n, Spells(o, n), NEW k \in 0 .. n, NEW i \in 1 .. n, Kind(i) = "begin",
         Len(o[k]) < Len(o[i]), Start(o[i], Len(o[k])) = o[k],
         NEW s \in Len(o[k]) + 1 .. Len(o[i])
  PROVE  /\ o[i][s] \in 1 .. i /\ Kind(o[i][s]) = "begin"
         /\ ParentOf(o[i][s]) = Inside(k) <=> s = Len(o[k]) + 1
<1>0. n \in Nat /\ i \in 0 .. n
  BY DEF Spells
<1>1. /\ o[i] \in Seq(Nat) /\ o[k] \in Seq(Nat) /\ Len(o[i]) \in Nat /\ Len(o[k]) \in Nat
      /\ \A r \in 1 .. Len(o[i]) : o[i][r] \in 1 .. i
      /\ \A r, t \in 1 .. Len(o[i]) : r < t => o[i][r] < o[i][t]
  <2>1. /\ o[i] \in Seq(Nat) /\ o[k] \in Seq(Nat)
        /\ \A r \in 1 .. Len(o[i]) : o[i][r] \in 1 .. i
        /\ \A r, t \in 1 .. Len(o[i]) : r < t => o[i][r] < o[i][t]
    BY <1>0 DEF Spells, Nested
  <2>2. \A q \in Seq(Nat) : Len(q) \in Nat
    OBVIOUS
  <2>. QED
    BY <2>1, <2>2
<1>2. s \in 1 .. Len(o[i])
  BY <1>1
<1>3. /\ o[i][s] \in 1 .. i /\ Kind(o[i][s]) = "begin"
      /\ ParentOf(o[i][s]) = IF s = 1 THEN 0 ELSE o[i][s - 1]
  BY <1>0, <1>2, OpenNode
<1>4. Inside(k) = IF Len(o[k]) = 0 THEN 0 ELSE o[k][Len(o[k])]
  BY ChainIs
<1>5. \A r \in 1 .. Len(o[k]) : o[k][r] = o[i][r]
  <2>1. Len(o[k]) <= Len(o[i])
    BY <1>1
  <2>2. \A r \in 1 .. Len(o[k]) : Start(o[i], Len(o[k]))[r] = o[i][r]
    BY <1>1, <2>1, StartIs
  <2>. QED
    BY <2>2
<1>6. CASE Len(o[k]) = 0
  <2>1. s # 1 => s - 1 \in 1 .. Len(o[i])
    BY <1>2
  <2>. QED
    <3>1. CASE s = 1
      BY <1>3, <1>4, <1>6, <3>1
    <3>2. CASE s # 1
      <4>1. o[i][s - 1] \in 1 .. i
        BY <1>1, <2>1, <3>2
      <4>. QED
        BY <1>2, <1>3, <1>4, <1>6, <3>2, <4>1
    <3>. QED
      BY <3>1, <3>2
<1>7. CASE Len(o[k]) # 0
  <2>1. Len(o[k]) \in 1 .. Len(o[k]) /\ Len(o[k]) \in 1 .. Len(o[i])
    BY <1>1, <1>7
  <2>2. Inside(k) = o[i][Len(o[k])]
    BY <1>4, <1>5, <1>7, <2>1
  <2>3. s # 1 /\ s - 1 \in 1 .. Len(o[i]) /\ ParentOf(o[i][s]) = o[i][s - 1]
    BY <1>1, <1>2, <1>3, <1>7
  <2>4. CASE s = Len(o[k]) + 1
    BY <1>1, <1>3, <2>2, <2>3, <2>4
  <2>5. CASE s # Len(o[k]) + 1
    <3>1. Len(o[k]) < s - 1
      BY <1>1, <2>5
    <3>2. o[i][Len(o[k])] < o[i][s - 1]
      BY <1>1, <2>1, <2>3, <3>1
    <3>3. o[i][Len(o[k])] \in Nat /\ o[i][s - 1] \in Nat
      <4>1. o[i][Len(o[k])] \in 1 .. i /\ o[i][s - 1] \in 1 .. i
        BY <1>1, <2>1, <2>3, Zenon
      <4>. QED
        BY <4>1, SMTT(30)
    <3>. QED
      BY <1>3, <2>2, <2>3, <2>5, <3>2, <3>3
  <2>. QED
    BY <2>4, <2>5
<1>. QED
  BY <1>6, <1>7

(* An end puts the node it closes, with what lies in it, beside what was   *)
(* there when that began.                                                  *)
LEMMA WithinEnds ==
  ASSUME NEW o, NEW n, Spells(o, n), NEW k \in 1 .. n, Kind(k) = "end",
         NEW j0, Closes(o, k, j0)
  PROVE  /\ Within(o, k) = Within(o, j0 - 1) \cup {j0} \cup Within(o, k - 1)
         /\ \A i \in Within(o, j0 - 1) : i \in 1 .. j0 - 1
         /\ \A i \in Within(o, k - 1) : o[i][Len(o[k]) + 1] = j0
<1>1. n \in Nat /\ k - 1 \in 0 .. n /\ k \in 0 .. n
  BY DEF Spells
<1>2. /\ j0 \in 1 .. k - 1 /\ Kind(j0) = "begin" /\ Len(o[k]) \in Nat
      /\ Len(o[k - 1]) = Len(o[k]) + 1 /\ o[k - 1][Len(o[k]) + 1] = j0
      /\ Len(o[k]) + 1 \in 1 .. Len(o[k - 1])
      /\ o[j0] = o[k - 1] /\ o[j0 - 1] = o[k] /\ Start(o[k - 1], Len(o[k])) = o[k]
  BY DEF Closes
<1>3. PICK h : h = Len(o[k])
  OBVIOUS
<1>4. \A i \in 1 .. j0 - 1 : i \in Within(o, k) <=> i \in Within(o, j0 - 1)
  <2>1. \A i \in 1 .. j0 - 1 : i \in 1 .. k
    BY <1>1, <1>2
  <2>. QED
    BY <1>2, <2>1, Zenon DEF Within
<1>5. \A i \in Within(o, j0 - 1) : i \in 1 .. j0 - 1
  BY Zenon DEF Within
<1>6. j0 \in Within(o, k)
  <2>1. j0 \in 1 .. k /\ h < h + 1
    BY <1>1, <1>2, <1>3
  <2>. QED
    BY <1>2, <1>3, <2>1 DEF Within
<1>7. ASSUME NEW i \in Within(o, k - 1)
      PROVE  i \in Within(o, k) /\ o[i][h + 1] = j0
  <2>1. /\ i \in 1 .. k - 1 /\ Kind(i) = "begin" /\ h + 1 < Len(o[i]) /\ Start(o[i], h + 1) = o[k - 1]
    BY <1>2, <1>3 DEF Within
  <2>2. i \in 0 .. n /\ i \in 1 .. k
    BY <1>1, <2>1
  <2>3. o[i] \in Seq(Nat) /\ Len(o[i]) \in Nat /\ o[k - 1] \in Seq(Nat)
    BY <1>1, <2>2, ChainIs DEF Spells, Nested
  <2>4. h \in Nat /\ h <= Len(o[i]) /\ h + 1 \in Nat /\ h + 1 <= Len(o[i]) /\ h < Len(o[i])
    BY <1>2, <1>3, <2>1, <2>3, SMTT(30)
  <2>5. \A r \in 1 .. h + 1 : o[k - 1][r] = o[i][r]
    <3>1. PICK g : g = h + 1
      OBVIOUS
    <3>2. g \in Nat /\ g <= Len(o[i])
      BY <2>4, <3>1
    <3>3. \A r \in 1 .. g : Start(o[i], g)[r] = o[i][r]
      BY <2>3, <3>2, StartIs
    <3>. QED
      BY <2>1, <3>1, <3>3
  <2>6. h <= Len(o[k - 1]) /\ \A r \in 1 .. h : o[k - 1][r] = o[i][r]
    BY <1>2, <1>3, <2>4, <2>5
  <2>7. Start(o[i], h) = Start(o[k - 1], h)
    BY <2>3, <2>4, <2>6, StartsEqual
  <2>8. Start(o[i], h) = o[k]
    BY <1>2, <1>3, <2>7
  <2>9. h + 1 \in 1 .. h + 1
    BY <2>4
  <2>. QED
    BY <1>2, <1>3, <2>1, <2>2, <2>4, <2>5, <2>8, <2>9 DEF Within
<1>8. ASSUME NEW i \in Within(o, k), ~ (i \in 1 .. j0 - 1), i # j0
      PROVE  i \in Within(o, k - 1)
  <2>1. /\ i \in 1 .. k /\ Kind(i) = "begin" /\ h < Len(o[i]) /\ Start(o[i], h) = o[k]
    BY <1>3 DEF Within
  <2>2. i # k
    BY <2>1
  <2>3. i \in j0 .. k - 1 /\ i \in 1 .. k - 1 /\ i \in 1 .. n
    BY <1>1, <1>2, <1>8, <2>1, <2>2
  <2>4. Start(o[i], h + 1) = o[k - 1] /\ h + 1 \in 1 .. Len(o[i]) /\ o[i][h + 1] = j0
    <3>1. PICK l, s : l = k - 1 /\ s = h + 1
      OBVIOUS
    <3>2. l \in 0 .. n /\ s \in 1 .. Len(o[l]) /\ i \in o[l][s] .. l /\ o[l][s] = j0
      BY <1>1, <1>2, <1>3, <2>3, <3>1
    <3>3. s \in 1 .. Len(o[i]) /\ o[i][s] = o[l][s] /\ Start(o[i], s) = o[o[l][s]]
      BY <3>2, StaysOpen
    <3>. QED
      BY <1>2, <3>1, <3>2, <3>3
  <2>5. h + 1 # Len(o[i])
    <3>1. o[i][Len(o[i])] = i
      BY <2>1, <2>3, BeginIs
    <3>. QED
      BY <1>8, <2>4, <3>1
  <2>6. h + 1 < Len(o[i])
    <3>1. Len(o[i]) \in Nat
      BY <2>1, <2>3, BeginIs
    <3>. QED
      BY <2>4, <2>5, <3>1
  <2>. QED
    BY <1>2, <1>3, <2>1, <2>3, <2>4, <2>6 DEF Within
<1>9. \A i \in Within(o, k) : i \in Within(o, j0 - 1) \cup {j0} \cup Within(o, k - 1)
  BY <1>4, <1>8, Zenon
<1>10. \A i \in Within(o, j0 - 1) \cup {j0} \cup Within(o, k - 1) : i \in Within(o, k)
  BY <1>4, <1>5, <1>6, <1>7, Zenon
<1>11. Within(o, k) = Within(o, j0 - 1) \cup {j0} \cup Within(o, k - 1)
  BY <1>9, <1>10
<1>. QED
  BY <1>3, <1>5, <1>7, <1>11

(* After an end are kept: the closed node, what was kept in it, and what   *)
(* was kept when it began, but for nodes of its name and all in them.      *)
LEMMA KeptEnds ==
  ASSUME NEW o, NEW n, Spells(o, n), NEW k \in 1 .. n, Kind(k) = "end",
         NEW j0, Closes(o, k, j0)
  PROVE  Kept(o, k) = {i \in Kept(o, j0 - 1) : NameAt(o, i, Len(o[k]) + 1) # text[j0].name}
                        \cup {j0} \cup Kept(o, k - 1)
<1>1. n \in Nat /\ k - 1 \in 0 .. n /\ k \in 0 .. n
  BY DEF Spells
<1>2. /\ j0 \in 1 .. k - 1 /\ Kind(j0) = "begin" /\ Len(o[k]) \in Nat
      /\ Len(o[k - 1]) = Len(o[k]) + 1 /\ o[k - 1][Len(o[k]) + 1] = j0
      /\ o[j0] = o[k - 1] /\ o[j0 - 1] = o[k]
  BY DEF Closes
<1>3. PICK h : h = Len(o[k])
  OBVIOUS
<1>4. /\ Within(o, k) = Within(o, j0 - 1) \cup {j0} \cup Within(o, k - 1)
      /\ \A i \in Within(o, j0 - 1) : i \in 1 .. j0 - 1
      /\ \A i \in Within(o, k - 1) : o[i][h + 1] = j0
  BY <1>3, WithinEnds
<1>5. /\ ~ Over(j0, k)
      /\ \A j \in Nat : Over(j, k) <=> Over(j, k - 1)
      /\ \A j \in 1 .. j0 - 1 :
           Kind(j) = "begin" =>
             (Over(j, k) <=> \/ Over(j, j0 - 1)
                             \/ ParentOf(j) = Inside(k) /\ text[j].name = text[j0].name)
  BY OverEnds
<1>6. \A i : i \in Kept(o, k)
               <=> i \in Within(o, k) /\ \A s \in h + 1 .. Len(o[i]) : ~ Over(o[i][s], k)
  BY <1>3, Zenon DEF Kept
<1>7. ASSUME NEW i \in Within(o, j0 - 1)
      PROVE  i \in Kept(o, k) <=> i \in Kept(o, j0 - 1) /\ NameAt(o, i, h + 1) # text[j0].name
  <2>1. /\ i \in 1 .. n /\ Kind(i) = "begin" /\ h < Len(o[i]) /\ Start(o[i], h) = o[k]
        /\ i \in 1 .. j0 - 1
    BY <1>1, <1>2, <1>3, <1>4 DEF Within
  <2>2. ASSUME NEW s \in h + 1 .. Len(o[i])
        PROVE  Over(o[i][s], k) <=> \/ Over(o[i][s], j0 - 1)
                                    \/ s = h + 1 /\ NameAt(o, i, s) = text[j0].name
    <3>1. /\ o[i][s] \in 1 .. i /\ Kind(o[i][s]) = "begin"
          /\ ParentOf(o[i][s]) = Inside(k) <=> s = h + 1
      BY <1>1, <1>3, <2>1, DirectlyIn
    <3>2. o[i][s] \in 1 .. j0 - 1
      BY <1>2, <2>1, <3>1
    <3>. QED
      BY <1>5, <3>1, <3>2, Zenon DEF NameAt
  <2>3. i \in Within(o, k)
    BY <1>4
  <2>4. i \in Kept(o, j0 - 1) <=> \A s \in h + 1 .. Len(o[i]) : ~ Over(o[i][s], j0 - 1)
    BY <1>2, <1>3, Zenon DEF Kept
  <2>5. h + 1 \in h + 1 .. Len(o[i])
    <3>1. Len(o[i]) \in Nat
      BY <2>1, BeginIs
    <3>. QED
      BY <1>2, <1>3, <2>1, <3>1
  <2>. QED
    BY <1>6, <2>2, <2>3, <2>4, <2>5, Zenon
<1>8. j0 \in Kept(o, k)
  <2>1. j0 \in Within(o, k)
    BY <1>4
  <2>2. \A s \in h + 1 .. Len(o[j0]) : o[j0][s] = j0
    BY <1>2, <1>3
  <2>. QED
    BY <1>5, <1>6, <2>1, <2>2, Zenon
<1>9. ASSUME NEW i \in Within(o, k - 1)
      PROVE  i \in Kept(o, k) <=> i \in Kept(o, k - 1)
  <2>1. i \in Within(o, k) /\ o[i][h + 1] = j0
    BY <1>4
  <2>2. i \in Kept(o, k - 1) <=> \A s \in (h + 1) + 1 .. Len(o[i]) : ~ Over(o[i][s], k - 1)
    BY <1>2, <1>3, Zenon DEF Kept
  <2>3. \A s \in h + 1 .. Len(o[i]) : s = h + 1 \/ s \in (h + 1) + 1 .. Len(o[i])
    BY <1>2, <1>3
  <2>4. \A s \in (h + 1) + 1 .. Len(o[i]) : s \in h + 1 .. Len(o[i])
    BY <1>2, <1>3
  <2>5. \A s \in (h + 1) + 1 .. Len(o[i]) : o[i][s] \in Nat
    <3>1. i \in 1 .. n /\ Kind(i) = "begin"
      BY <1>1 DEF Within
    <3>2. \A s \in 1 .. Len(o[i]) : o[i][s] \in 1 .. i
      BY <3>1, BeginIs
    <3>3. \A s \in (h + 1) + 1 .. Len(o[i]) : s \in 1 .. Len(o[i])
      BY <1>2, <1>3
    <3>. QED
      BY <3>2, <3>3
  <2>. QED
    BY <1>5, <1>6, <2>1, <2>2, <2>3, <2>4, <2>5, Zenon
<1>10. \A i : i \in Kept(o, j0 - 1) => i \in Within(o, j0 - 1)
  BY Zenon DEF Kept
<1>11. \A i : i \in Kept(o, k - 1) => i \in Within(o, k - 1)
  BY Zenon DEF Kept
<1>12. \A i : i \in Kept(o, k)
                <=> \/ i \in Kept(o, j0 - 1) /\ NameAt(o, i, h + 1) # text[j0].name
                    \/ i = j0 \/ i \in Kept(o, k - 1)
  <2>1. \A i : i \in Kept(o, k)
                 => i \in Within(o, j0 - 1) \/ i = j0 \/ i \in Within(o, k - 1)
    BY <1>4, <1>6
  <2>. QED
    BY <1>7, <1>8, <1>9, <1>10, <1>11, <2>1, Zenon
<1>. QED
  BY <1>3, <1>12

-----------------------------------------------------------------------------
(* Paths.                                                                  *)
LEMMA PathStep ==
  ASSUME NEW S, NEW x \in S, NEW p \in Seq(S)
  PROVE  /\ <<x>> \o p \in Seq(S) /\ <<x>> \o p # <<>>
         /\ Head(<<x>> \o p) = x /\ Tail(<<x>> \o p) = p
         /\ Len(<<x>> \o p) = Len(p) + 1 /\ (<<x>> \o p)[1] = x
         /\ \A i \in 1 .. Len(p) : (<<x>> \o p)[i + 1] = p[i]
<1>1. PICK q : q = <<x>> \o p
  OBVIOUS
<1>2. <<x>> \in Seq(S) /\ Len(<<x>>) = 1 /\ <<x>>[1] = x /\ Len(p) \in Nat
  OBVIOUS
<1>3. q \in Seq(S) /\ Len(q) = Len(p) + 1
  BY <1>1, <1>2, ConcatProperties
<1>4. q[1] = x
  BY <1>1, <1>2
<1>5. \A i \in 1 .. Len(p) : q[i + 1] = p[i]
  BY <1>1, <1>2
<1>6. q # <<>> /\ Head(q) = x
  BY <1>2, <1>3, <1>4
<1>7. Tail(q) = p
  <2>1. Tail(q) \in Seq(S) /\ Len(Tail(q)) = Len(p) /\ \A i \in 1 .. Len(p) : Tail(q)[i] = q[i + 1]
    BY <1>2, <1>3, <1>6
  <2>. QED
    BY <1>2, <1>5, <2>1, SeqEqual
<1>. QED
  BY <1>1, <1>3, <1>4, <1>5, <1>6, <1>7

(* A path that is not empty is its first name and the rest.                *)
LEMMA PathSplit ==
  ASSUME NEW S, NEW q \in Seq(S), q # <<>>
  PROVE  /\ Head(q) \in S /\ Tail(q) \in Seq(S) /\ <<Head(q)>> \o Tail(q) = q
         /\ Head(q) = q[1] /\ Len(Tail(q)) = Len(q) - 1 /\ Len(q) \in Nat \ {0}
<1>1. /\ Head(q) \in S /\ Tail(q) \in Seq(S) /\ Len(q) \in Nat \ {0} /\ Head(q) = q[1]
      /\ Len(Tail(q)) = Len(q) - 1 /\ \A i \in 1 .. Len(q) - 1 : Tail(q)[i] = q[i + 1]
  OBVIOUS
<1>2. PICK r : r = <<Head(q)>> \o Tail(q)
  OBVIOUS
<1>3. /\ r \in Seq(S) /\ Len(r) = Len(q) /\ r[1] = q[1]
      /\ \A i \in 1 .. Len(q) - 1 : r[i + 1] = Tail(q)[i]
  BY <1>1, <1>2, PathStep
<1>4. \A i \in 1 .. Len(q) : r[i] = q[i]
  <2>. SUFFICES ASSUME NEW i \in 1 .. Len(q) PROVE r[i] = q[i]
    OBVIOUS
  <2>1. CASE i = 1
    BY <1>3, <2>1
  <2>2. CASE i # 1
    <3>1. i - 1 \in 1 .. Len(q) - 1 /\ (i - 1) + 1 = i
      BY <1>1, <2>2
    <3>. QED
      BY <1>1, <1>3, <3>1
  <2>. QED
    BY <2>1, <2>2
<1>5. r = q
  BY <1>1, <1>3, <1>4, SeqEqual
<1>. QED
  BY <1>1, <1>2, <1>5

IsPath(p, o, i, h, m) ==
  p \in Seq(Names) /\ Len(p) = m /\ \A s \in 1 .. m : p[s] = NameAt(o, i, h + s)

(* The path to a node is made of names, one for each node around it.       *)
LEMMA RelIs ==
  ASSUME NEW o, NEW n, Spells(o, n), text \in Seq(Tokens), n <= Len(text),
         NEW k \in 0 .. n, NEW i \in Within(o, k)
  PROVE  /\ i \in 1 .. n /\ Kind(i) = "begin" /\ Len(o[k]) \in Nat /\ Len(o[i]) \in Nat
         /\ Len(o[k]) < Len(o[i])
         /\ IsPath(Rel(o, i, k), o, i, Len(o[k]), Len(o[i]) - Len(o[k]))
         /\ Rel(o, i, k) \in Seq(Names) /\ Rel(o, i, k) # <<>>
         /\ Head(Rel(o, i, k)) = NameAt(o, i, Len(o[k]) + 1)
<1>1. n \in Nat
  BY DEF Spells
<1>2. /\ i \in 1 .. n /\ Kind(i) = "begin" /\ Len(o[k]) < Len(o[i])
  BY <1>1 DEF Within
<1>3. Len(o[k]) \in Nat /\ Len(o[i]) \in Nat
  BY <1>2, ChainIs, BeginIs
<1>4. PICK h, m : h = Len(o[k]) /\ m = Len(o[i]) - Len(o[k])
  OBVIOUS
<1>5. m \in Nat \ {0} /\ h \in Nat /\ Len(o[i]) = h + m /\ 1 \in 1 .. m
  BY <1>2, <1>3, <1>4
<1>6. ASSUME NEW s \in 1 .. m PROVE NameAt(o, i, h + s) \in Names
  <2>1. h + s \in 1 .. Len(o[i])
    BY <1>5
  <2>2. i \in 0 .. n
    BY <1>1, <1>2
  <2>3. o[i][h + s] \in 1 .. n /\ Kind(o[i][h + s]) = "begin"
    BY <2>1, <2>2, OpenNode
  <2>4. o[i][h + s] \in 1 .. Len(text)
    BY <1>1, <2>3
  <2>5. text[o[i][h + s]] \in Tokens /\ text[o[i][h + s]].kind = "begin"
    BY <2>3, <2>4 DEF Kind
  <2>6. \A t \in Tokens : t.kind = "begin" => t.name \in Names
    BY DEF Tokens
  <2>. QED
    BY <2>5, <2>6 DEF NameAt
<1>7. PICK f : f = Rel(o, i, k)
  OBVIOUS
<1>8. f = [s \in 1 .. m |-> NameAt(o, i, h + s)]
  BY <1>4, <1>7, Zenon DEF Rel
<1>9. f \in [1 .. m -> Names] /\ \A s \in 1 .. m : f[s] = NameAt(o, i, h + s)
  BY <1>6, <1>8, Zenon
<1>10. f \in Seq(Names) /\ Len(f) = m
  BY <1>5, <1>9, FunctionIsSequence
<1>11. f # <<>> /\ Head(f) = f[1] /\ f[1] = NameAt(o, i, h + 1)
  BY <1>5, <1>9, <1>10
<1>. QED
  BY <1>2, <1>3, <1>4, <1>7, <1>9, <1>10, <1>11, Zenon DEF IsPath

(* The paths after an end: those within the closed node are longer by its  *)
(* name.                                                                   *)
Longer(o, j0, k) ==
  /\ text[j0].name \in Names
  /\ \A i : Rel(o, i, k) = Rel(o, i, j0 - 1)
  /\ Rel(o, j0, k) = <<text[j0].name>> \o <<>>
  /\ \A i \in Within(o, k - 1) : Rel(o, i, k) = <<text[j0].name>> \o Rel(o, i, k - 1)

(* The paths of the nodes beside the closed node stay.                     *)
LEMMA RelEnds ==
  ASSUME NEW o, NEW n, Spells(o, n), text \in Seq(Tokens), n <= Len(text),
         NEW k \in 1 .. n, Kind(k) = "end", NEW j0, Closes(o, k, j0)
  PROVE  Longer(o, j0, k)
<1>1. n \in Nat /\ k - 1 \in 0 .. n /\ k \in 0 .. n
  BY DEF Spells
<1>2. /\ j0 \in 1 .. k - 1 /\ Kind(j0) = "begin" /\ Len(o[k]) \in Nat
      /\ Len(o[k - 1]) = Len(o[k]) + 1 /\ o[k - 1][Len(o[k]) + 1] = j0
      /\ o[j0] = o[k - 1] /\ o[j0 - 1] = o[k]
  BY DEF Closes
<1>3. PICK h, x : h = Len(o[k]) /\ x = text[j0].name
  OBVIOUS
<1>4. /\ Within(o, k) = Within(o, j0 - 1) \cup {j0} \cup Within(o, k - 1)
      /\ \A i \in Within(o, k - 1) : o[i][h + 1] = j0
  BY <1>3, WithinEnds
<1>5. \A i : Rel(o, i, k) = Rel(o, i, j0 - 1)
  BY <1>2, Zenon DEF Rel
<1>6. Rel(o, j0, k) \in Seq(Names) /\ Len(Rel(o, j0, k)) = 1 /\ Rel(o, j0, k)[1] = x
  <2>1. j0 \in Within(o, k)
    BY <1>4
  <2>2. Len(o[j0]) - Len(o[k]) = 1
    BY <1>2
  <2>5. IsPath(Rel(o, j0, k), o, j0, Len(o[k]), Len(o[j0]) - Len(o[k]))
    BY <1>1, <2>1, RelIs
  <2>3. /\ Rel(o, j0, k) \in Seq(Names) /\ Len(Rel(o, j0, k)) = 1
        /\ \A s \in 1 .. 1 : Rel(o, j0, k)[s] = NameAt(o, j0, h + s)
    BY <1>3, <2>2, <2>5, Zenon DEF IsPath
  <2>4. NameAt(o, j0, h + 1) = x
    BY <1>2, <1>3 DEF NameAt
  <2>. QED
    BY <2>3, <2>4
<1>7. x \in Names
  <2>1. PICK f : f = Rel(o, j0, k)
    OBVIOUS
  <2>2. f \in Seq(Names) /\ Len(f) = 1 /\ f[1] = x
    BY <1>6, <2>1
  <2>. QED
    BY <2>2
<1>8. Rel(o, j0, k) = <<x>> \o <<>>
  <2>1. /\ <<x>> \o <<>> \in Seq(Names) /\ Len(<<x>> \o <<>>) = 1 /\ (<<x>> \o <<>>)[1] = x
    BY <1>7
  <2>. QED
    BY <1>6, <2>1, SeqEqual
<1>9. ASSUME NEW i \in Within(o, k - 1) PROVE Rel(o, i, k) = <<x>> \o Rel(o, i, k - 1)
  <2>1. i \in Within(o, k) /\ o[i][h + 1] = j0
    BY <1>4
  <2>2. PICK p, q : p = Rel(o, i, k) /\ q = Rel(o, i, k - 1)
    OBVIOUS
  <2>3. PICK m : m = Len(o[i]) - (h + 1)
    OBVIOUS
  <2>4. /\ Len(o[i]) \in Nat /\ h \in Nat /\ h + 1 < Len(o[i])
        /\ q \in Seq(Names) /\ Len(q) = m
        /\ \A s \in 1 .. m : q[s] = NameAt(o, i, (h + 1) + s)
    <3>1. /\ Len(o[i]) \in Nat /\ Len(o[k - 1]) < Len(o[i])
          /\ IsPath(Rel(o, i, k - 1), o, i, Len(o[k - 1]), Len(o[i]) - Len(o[k - 1]))
      BY <1>1, RelIs
    <3>2. IsPath(q, o, i, h + 1, m) /\ Len(o[i]) \in Nat /\ h \in Nat /\ h + 1 < Len(o[i])
      BY <1>2, <1>3, <2>2, <2>3, <3>1, Zenon
    <3>. QED
      BY <3>2, Zenon DEF IsPath
  <2>5. /\ m \in Nat /\ Len(o[i]) - h = m + 1
    BY <2>3, <2>4
  <2>6. /\ p \in Seq(Names) /\ Len(p) = m + 1
        /\ \A s \in 1 .. m + 1 : p[s] = NameAt(o, i, h + s)
    <3>1. IsPath(Rel(o, i, k), o, i, Len(o[k]), Len(o[i]) - Len(o[k]))
      BY <1>1, <2>1, RelIs
    <3>2. IsPath(p, o, i, h, m + 1)
      BY <1>3, <2>2, <2>5, <3>1, Zenon
    <3>. QED
      BY <3>2, Zenon DEF IsPath
  <2>7. PICK r : r = <<x>> \o q
    OBVIOUS
  <2>8. r \in Seq(Names) /\ Len(r) = m + 1 /\ r[1] = x /\ \A s \in 1 .. m : r[s + 1] = q[s]
    BY <1>7, <2>4, <2>7, PathStep
  <2>9. \A s \in 1 .. m + 1 : p[s] = r[s]
    <3>. SUFFICES ASSUME NEW s \in 1 .. m + 1 PROVE p[s] = r[s]
      OBVIOUS
    <3>1. p[s] = NameAt(o, i, h + s)
      BY <2>6
    <3>2. CASE s = 1
      <4>1. NameAt(o, i, h + 1) = x
        BY <1>3, <2>1 DEF NameAt
      <4>. QED
        BY <2>8, <3>1, <3>2, <4>1
    <3>3. CASE s # 1
      <4>1. PICK t : t = s - 1
        OBVIOUS
      <4>2. t \in 1 .. m /\ s = t + 1 /\ (h + 1) + t = h + s
        BY <2>4, <2>5, <3>3, <4>1
      <4>3. r[s] = NameAt(o, i, (h + 1) + t)
        BY <2>4, <2>8, <4>2, Zenon
      <4>. QED
        BY <3>1, <4>2, <4>3
    <3>. QED
      BY <3>2, <3>3
  <2>10. p = r
    BY <2>6, <2>8, <2>9, SeqEqual
  <2>. QED
    BY <2>2, <2>7, <2>10
<1>. QED
  BY <1>3, <1>5, <1>7, <1>8, <1>9, Zenon DEF Longer

-----------------------------------------------------------------------------
(* What has been said of a node up to token k, and what is said of it in   *)
(* the whole text.                                                         *)
PropsAt(i, k) == {q \in 1 .. k : Kind(q) = "prop" /\ Inside(q) = i}

LastIn(P) ==
  {<<text[q].name, text[q].value>> :
     q \in {r \in P : \A m \in P : text[m].name = text[r].name => m <= r}}

SaysTo(i, c, k) ==
  {q \in 1 .. k : /\ Kind(q) = "prop" /\ text[q].name = c
                  /\ (Inside(q) = i \/ (q < i /\ Inside(q) \in Chain(i)))}

CellsFrom(S) == IF S = {} THEN 1 ELSE text[Greatest(S)].value

Said(i, k) ==
  [cells |-> [c \in CellNames |-> CellsFrom(SaysTo(i, c, k))], props |-> LastIn(PropsAt(i, k))]

Final(i) == [cells |-> [c \in CellNames |-> SaidCells(i, c)], props |-> LastProps(i)]

PropsBefore(n) == \A q \in DOMAIN text : Kind(q) = "prop" => q <= n

(* The nodes around the node in progress are those of any token in it.     *)
LEMMA ChainOfInside ==
  ASSUME NEW o, NEW n, Spells(o, n), NEW k \in 0 .. n
  PROVE  /\ Inside(k) \in 0 .. k /\ Chain(Inside(k)) = Chain(k)
         /\ \A i \in Chain(k) : i \in 0 .. Inside(k)
         /\ \A q \in Inside(k) .. k : Inside(q) >= Inside(k) /\ Inside(q) \in Nat
<1>1. n \in Nat /\ o[0] = <<>>
  BY DEF Spells
<1>2. PICK m : m = Len(o[k])
  OBVIOUS
<1>3. /\ m \in Nat
      /\ Chain(k) = {0} \cup {o[k][s] : s \in 1 .. m}
      /\ Inside(k) = IF m = 0 THEN 0 ELSE o[k][m]
      /\ Inside(k) \in 0 .. k /\ Inside(k) \in Chain(k)
  BY <1>2, ChainIs
<1>4. CASE m = 0
  <2>1. Chain(0) = {0}
    BY DEF Chain
  <2>2. Chain(k) = {0} /\ Inside(k) = 0
    BY <1>3, <1>4
  <2>3. ASSUME NEW q \in 0 .. k PROVE Inside(q) >= 0 /\ Inside(q) \in Nat
    <3>1. q \in 0 .. n
      BY <1>1
    <3>2. Inside(q) \in 0 .. q
      BY <3>1, ChainIs
    <3>. QED
      BY <3>2
  <2>. QED
    BY <2>1, <2>2, <2>3
<1>5. CASE m # 0
  <2>1. PICK j : j = o[k][m]
    OBVIOUS
  <2>2. m \in 1 .. m /\ Inside(k) = j
    BY <1>3, <1>5, <2>1
  <2>3. j \in 1 .. k /\ j \in 1 .. n /\ o[j] = Start(o[k], m)
    BY <1>2, <2>1, <2>2, OpenNode
  <2>4. o[k] \in Seq(Nat)
    BY DEF Spells, Nested
  <2>5. o[j] = o[k]
    BY <1>2, <2>3, <2>4, StartOfAll
  <2>6. Chain(j) = {0} \cup {o[j][s] : s \in 1 .. Len(o[j])} /\ j \in 0 .. n
    BY <1>1, <2>3, ChainIs
  <2>7. Chain(j) = Chain(k)
    BY <1>2, <1>3, <2>5, <2>6, Zenon
  <2>8. \A i \in Chain(j) : i \in 0 .. j
    BY <2>3 DEF Chain
  <2>9. \A q \in j .. k : Inside(q) >= j /\ Inside(q) \in Nat
    BY <1>2, <2>1, <2>2, InsideOpen
  <2>. QED
    BY <1>3, <2>2, <2>7, <2>8, <2>9
<1>. QED
  BY <1>4, <1>5

(* Of a node that begins is said what was said of the cells of the node    *)
(* around it.                                                              *)
LEMMA SaidBegins ==
  ASSUME NEW o, NEW n, Spells(o, n), NEW k \in 1 .. n, Kind(k) = "begin"
  PROVE  Said(k, k) = [cells |-> Said(Inside(k - 1), k - 1).cells, props |-> {}]
<1>1. n \in Nat /\ k - 1 \in 0 .. n /\ k \in 0 .. n
  BY DEF Spells
<1>2. Inside(k) = k
  BY KeptBegins
<1>3. ASSUME NEW q \in 1 .. k, Kind(q) = "prop" PROVE q \in 1 .. k - 1 /\ Inside(q) \in 0 .. k - 1
  <2>1. q \in 1 .. k - 1 /\ q \in 0 .. n
    BY <1>1, <1>3
  <2>2. Inside(q) \in 0 .. q
    BY <2>1, ChainIs
  <2>. QED
    BY <2>1, <2>2
<1>4. PropsAt(k, k) = {}
  <2>1. \A q \in 1 .. k : Kind(q) = "prop" => Inside(q) # k
    BY <1>1, <1>3
  <2>. QED
    BY <2>1, Zenon DEF PropsAt
<1>5. PICK c0 : c0 = Inside(k - 1)
  OBVIOUS
<1>6. /\ c0 \in 0 .. k - 1 /\ Chain(c0) = Chain(k - 1)
      /\ \A i \in Chain(k - 1) : i \in 0 .. c0
      /\ \A q \in c0 .. k - 1 : Inside(q) >= c0 /\ Inside(q) \in Nat
      /\ c0 \in Chain(k - 1)
  BY <1>1, <1>5, ChainOfInside, ChainIs
<1>7. Chain(k) = Chain(k - 1) \cup {k}
  <2>1. o[k] = Append(o[k - 1], k) /\ o[k - 1] \in Seq(Nat)
    BY <1>1 DEF Spells, Nested
  <2>2. PICK m : m = Len(o[k - 1])
    OBVIOUS
  <2>3. /\ m \in Nat /\ Len(o[k]) = m + 1 /\ o[k][m + 1] = k
        /\ \A s \in 1 .. m : o[k][s] = o[k - 1][s]
    BY <2>1, <2>2
  <2>4. /\ Chain(k) = {0} \cup {o[k][s] : s \in 1 .. m + 1}
        /\ Chain(k - 1) = {0} \cup {o[k - 1][s] : s \in 1 .. m}
    BY <1>1, <2>2, <2>3, ChainIs
  <2>5. \A s \in 1 .. m + 1 : s \in 1 .. m \/ s = m + 1
    BY <2>3
  <2>6. (\A s \in 1 .. m : s \in 1 .. m + 1) /\ m + 1 \in 1 .. m + 1
    BY <2>3
  <2>7. \A i : i \in Chain(k) <=> i \in Chain(k - 1) \/ i = k
    BY <2>3, <2>4, <2>5, <2>6, Zenon
  <2>. QED
    BY <2>7
<1>8. ASSUME NEW c PROVE SaysTo(k, c, k) = SaysTo(c0, c, k - 1)
  <2>1. ASSUME NEW q \in 1 .. k - 1
        PROVE  (Inside(q) = k \/ (q < k /\ Inside(q) \in Chain(k)))
                 <=> (Inside(q) = c0 \/ (q < c0 /\ Inside(q) \in Chain(c0)))
    <3>1. q < k
      BY <1>1
    <3>2. Inside(q) # k
      <4>1. q \in 0 .. n
        BY <1>1
      <4>2. Inside(q) \in 0 .. q
        BY <4>1, ChainIs
      <4>. QED
        BY <3>1, <4>2
    <3>3. CASE q < c0
      BY <1>6, <1>7, <3>1, <3>2, <3>3, Zenon
    <3>4. CASE ~ (q < c0)
      <4>1. q \in c0 .. k - 1
        BY <1>1, <1>6, <3>4
      <4>2. Inside(q) \in Chain(k - 1) => Inside(q) = c0
        BY <1>6, <4>1
      <4>. QED
        BY <1>6, <1>7, <3>1, <3>2, <3>4, <4>2, Zenon
    <3>. QED
      BY <3>3, <3>4
  <2>2. \A q \in 1 .. k - 1 : q \in 1 .. k
    BY <1>1
  <2>3. \A q : q \in SaysTo(k, c, k) <=> q \in SaysTo(c0, c, k - 1)
    <3>. SUFFICES ASSUME NEW q PROVE q \in SaysTo(k, c, k) <=> q \in SaysTo(c0, c, k - 1)
      OBVIOUS
    <3>1. q \in SaysTo(k, c, k)
            <=> /\ q \in 1 .. k /\ Kind(q) = "prop" /\ text[q].name = c
                /\ (Inside(q) = k \/ (q < k /\ Inside(q) \in Chain(k)))
      BY DEF SaysTo
    <3>2. q \in SaysTo(c0, c, k - 1)
            <=> /\ q \in 1 .. k - 1 /\ Kind(q) = "prop" /\ text[q].name = c
                /\ (Inside(q) = c0 \/ (q < c0 /\ Inside(q) \in Chain(c0)))
      BY DEF SaysTo
    <3>3. q \in 1 .. k /\ Kind(q) = "prop" <=> q \in 1 .. k - 1 /\ Kind(q) = "prop"
      BY <1>3, <2>2, Zenon
    <3>4. CASE q \in 1 .. k - 1 /\ Kind(q) = "prop"
      BY <2>1, <2>2, <3>1, <3>2, <3>4, Zenon
    <3>5. CASE ~ (q \in 1 .. k - 1 /\ Kind(q) = "prop")
      BY <3>1, <3>2, <3>3, <3>5, Zenon
    <3>. QED
      BY <3>4, <3>5, Zenon
  <2>. QED
    BY <2>3
<1>9. LastIn({}) = {}
  BY DEF LastIn
<1>10. Said(c0, k - 1).cells = [c \in CellNames |-> CellsFrom(SaysTo(c0, c, k - 1))]
  BY DEF Said
<1>11. [c \in CellNames |-> CellsFrom(SaysTo(k, c, k))] = Said(c0, k - 1).cells
  BY <1>8, <1>10, Zenon
<1>. QED
  BY <1>4, <1>5, <1>9, <1>11, Zenon DEF Said

(* A token that is no property says nothing.                               *)
LEMMA SaidSame ==
  ASSUME NEW k \in Nat \ {0}, Kind(k) # "prop", NEW i
  PROVE  Said(i, k) = Said(i, k - 1)
<1>1. \A q \in 1 .. k : Kind(q) = "prop" => q \in 1 .. k - 1
  OBVIOUS
<1>2. \A q \in 1 .. k - 1 : q \in 1 .. k
  OBVIOUS
<1>3. PropsAt(i, k) = PropsAt(i, k - 1)
  BY <1>1, <1>2, Zenon DEF PropsAt
<1>4. \A c : SaysTo(i, c, k) = SaysTo(i, c, k - 1)
  <2>1. ASSUME NEW c, NEW q PROVE q \in SaysTo(i, c, k) <=> q \in SaysTo(i, c, k - 1)
    BY <1>1, <1>2, Zenon DEF SaysTo
  <2>. QED
    BY <2>1
<1>. QED
  BY <1>3, <1>4, Zenon DEF Said

(* A property adds to what is said of the node it is in.                   *)
LEMMA SaidProperty ==
  ASSUME NEW k \in Nat \ {0}, Kind(k) = "prop", NEW i, Inside(k) = i
  PROVE  Said(i, k) =
           [cells |-> IF text[k].name \in CellNames
                      THEN [Said(i, k - 1).cells EXCEPT ![text[k].name] = text[k].value]
                      ELSE Said(i, k - 1).cells,
            props |-> {x \in Said(i, k - 1).props : x[1] # text[k].name}
                        \cup {<<text[k].name, text[k].value>>}]
<1>1. PICK name, value : name = text[k].name /\ value = text[k].value
  OBVIOUS
<1>2. \A q \in 1 .. k : q \in 1 .. k - 1 \/ q = k
  OBVIOUS
<1>3. (\A q \in 1 .. k - 1 : q \in 1 .. k /\ q < k) /\ k \in 1 .. k
  OBVIOUS
<1>. DEFINE P == PropsAt(i, k - 1)
            Q == PropsAt(i, k)
<1>4. \A q : q \in Q <=> q \in P \/ q = k
  BY <1>2, <1>3, Zenon DEF PropsAt
<1>5. \A q \in P : q \in 1 .. k - 1
  BY DEF PropsAt
<1>. HIDE DEF P, Q
<1>6. LastIn(Q) = {x \in LastIn(P) : x[1] # name} \cup {<<name, value>>}
  <2>. DEFINE LastOf(R) == {r \in R : \A m \in R : text[m].name = text[r].name => m <= r}
              pair(q) == <<text[q].name, text[q].value>>
  <2>1. \A R : LastIn(R) = {pair(q) : q \in LastOf(R)}
    BY DEF LastIn
  <2>2. \A q : q \in LastOf(Q) <=> q = k \/ (q \in LastOf(P) /\ text[q].name # name)
    <3>. SUFFICES ASSUME NEW q
                  PROVE  q \in LastOf(Q) <=> q = k \/ (q \in LastOf(P) /\ text[q].name # name)
      OBVIOUS
    <3>1. CASE q = k
      <4>1. \A m \in Q : m <= k
        BY <1>4, <1>5
      <4>. QED
        BY <1>4, <3>1, <4>1
    <3>2. CASE q # k
      <4>1. q \in P => ~ (k <= q)
        BY <1>5
      <4>. QED
        BY <1>1, <1>4, <3>2, <4>1, Zenon
    <3>. QED
      BY <3>1, <3>2
  <2>3. pair(k) = <<name, value>> /\ \A q : pair(q)[1] = text[q].name
    BY <1>1
  <2>. HIDE DEF LastOf, pair
  <2>4. \A x : x \in LastIn(Q) <=> (x \in LastIn(P) /\ x[1] # name) \/ x = <<name, value>>
    <3>. SUFFICES ASSUME NEW x
                  PROVE  x \in LastIn(Q) <=> (x \in LastIn(P) /\ x[1] # name) \/ x = <<name, value>>
      OBVIOUS
    <3>1. x \in LastIn(Q) <=> \E q \in LastOf(Q) : x = pair(q)
      BY <2>1, Zenon
    <3>2. x \in LastIn(P) <=> \E q \in LastOf(P) : x = pair(q)
      BY <2>1, Zenon
    <3>. QED
      BY <2>2, <2>3, <3>1, <3>2, Zenon
  <2>. QED
    BY <2>4
<1>7. ASSUME NEW c
      PROVE  CellsFrom(SaysTo(i, c, k)) = IF c = name THEN value ELSE CellsFrom(SaysTo(i, c, k - 1))
  <2>1. \A q : q \in SaysTo(i, c, k) <=> q \in SaysTo(i, c, k - 1) \/ (q = k /\ c = name)
    BY <1>1, <1>2, <1>3, Zenon DEF SaysTo
  <2>2. CASE c = name
    <3>1. PICK S : S = SaysTo(i, c, k)
      OBVIOUS
    <3>2. \A q \in SaysTo(i, c, k - 1) : q \in 1 .. k - 1
      BY DEF SaysTo
    <3>3. k \in S /\ \A q \in S : q \in 1 .. k
      BY <2>1, <2>2, <3>1, <3>2
    <3>4. \A q \in S : (\A j \in S : j <= q) => q = k
      BY <3>3
    <3>5. \A j \in S : j <= k
      BY <3>3
    <3>6. Greatest(S) = k
      BY <3>3, <3>4, <3>5, Zenon DEF Greatest
    <3>. QED
      BY <1>1, <2>2, <3>1, <3>3, <3>6 DEF CellsFrom
  <2>3. CASE c # name
    <3>1. SaysTo(i, c, k) = SaysTo(i, c, k - 1)
      BY <2>1, <2>3
    <3>. QED
      BY <2>3, <3>1
  <2>. QED
    BY <2>2, <2>3
<1>8. /\ Said(i, k - 1).cells = [c \in CellNames |-> CellsFrom(SaysTo(i, c, k - 1))]
      /\ Said(i, k - 1).props = LastIn(P)
  BY DEF Said, P
<1>9. [c \in CellNames |-> CellsFrom(SaysTo(i, c, k))]
        = IF name \in CellNames THEN [Said(i, k - 1).cells EXCEPT ![name] = value]
          ELSE Said(i, k - 1).cells
  <2>1. [c \in CellNames |-> CellsFrom(SaysTo(i, c, k))]
          = [c \in CellNames |-> IF c = name THEN value ELSE CellsFrom(SaysTo(i, c, k - 1))]
    BY <1>7, Zenon
  <2>. QED
    BY <1>8, <2>1
<1>. QED
  BY <1>1, <1>6, <1>8, <1>9, Zenon DEF Said, Q

(* What is said within a node says nothing of the node around it.          *)
LEMMA SaidEnds ==
  ASSUME NEW o, NEW n, Spells(o, n), NEW k \in 1 .. n, Kind(k) = "end",
         NEW j0, Closes(o, k, j0)
  PROVE  Said(Inside(k), k) = Said(Inside(k), j0 - 1)
<1>1. PICK i0 : i0 = Inside(k)
  OBVIOUS
<1>2. /\ n \in Nat /\ k - 1 \in 0 .. n /\ j0 \in 1 .. k - 1 /\ i0 \in 0 .. j0 - 1
  BY <1>1 DEF Spells, Closes
<1>3. ASSUME NEW q \in 1 .. k, Kind(q) = "prop", q \notin 1 .. j0 - 1
      PROVE  Inside(q) # i0 /\ ~ (q < i0)
  <2>1. PICK s : s = Len(o[k]) + 1
    OBVIOUS
  <2>2. s \in 1 .. Len(o[k - 1]) /\ o[k - 1][s] = j0
    BY <2>1 DEF Closes
  <2>3. q # k
    BY <1>3
  <2>4. q \in j0 .. k - 1
    BY <1>2, <1>3, <2>3
  <2>5. Inside(q) >= j0 /\ Inside(q) \in Nat
    BY <1>2, <2>2, <2>4, InsideOpen
  <2>. QED
    BY <1>2, <2>4, <2>5
<1>4. \A q \in 1 .. j0 - 1 : q \in 1 .. k
  BY <1>2
<1>5. PropsAt(i0, k) = PropsAt(i0, j0 - 1)
  <2>1. \A q : q \in PropsAt(i0, k) <=> q \in PropsAt(i0, j0 - 1)
    BY <1>3, <1>4, Zenon DEF PropsAt
  <2>. QED
    BY <2>1
<1>6. ASSUME NEW c PROVE SaysTo(i0, c, k) = SaysTo(i0, c, j0 - 1)
  <2>1. \A q : q \in SaysTo(i0, c, k) <=> q \in SaysTo(i0, c, j0 - 1)
    BY <1>3, <1>4, Zenon DEF SaysTo
  <2>. QED
    BY <2>1
<1>. QED
  BY <1>1, <1>5, <1>6, Zenon DEF Said

(* Once a node has ended, all that is said of it has been said.            *)
LEMMA SaidFinal ==
  ASSUME NEW o, NEW n, Spells(o, n), text \in Seq(Tokens), n <= Len(text), PropsBefore(n),
         NEW k \in 0 .. n, NEW i \in 1 .. k, Kind(i) = "begin", i \notin Chain(k)
  PROVE  Said(i, k) = Final(i)
<1>1. n \in Nat /\ i \in 0 .. n /\ k \in Nat /\ Len(text) \in Nat /\ DOMAIN text = 1 .. Len(text)
  BY DEF Spells
<1>2. ASSUME NEW q \in DOMAIN text, Kind(q) = "prop", q \notin 1 .. k
      PROVE  Inside(q) # i /\ ~ (q < i)
  <2>1. q \in k .. n /\ q \in 0 .. n
    BY <1>1, <1>2 DEF PropsBefore
  <2>2. SUFFICES ASSUME Inside(q) = i PROVE FALSE
    BY <1>1, <2>1
  <2>3. i \in Chain(q)
    BY <2>1, <2>2, ChainIs
  <2>4. PICK s \in 1 .. Len(o[q]) : o[q][s] = i
    BY <1>1, <2>1, <2>3, ChainIs
  <2>5. k \in o[q][s] .. q
    BY <1>1, <2>1, <2>4
  <2>6. s \in 1 .. Len(o[k]) /\ o[k][s] = i
    BY <2>1, <2>4, <2>5, StaysOpen
  <2>. QED
    BY <2>6, ChainIs
<1>3. \A q \in 1 .. k : q \in DOMAIN text
  BY <1>1
<1>4. PropsAt(i, k) = PropTokens(i)
  <2>1. \A q : q \in PropsAt(i, k) <=> q \in PropTokens(i)
    BY <1>2, <1>3, Zenon DEF PropsAt, PropTokens
  <2>. QED
    BY <2>1
<1>5. ASSUME NEW c PROVE CellsFrom(SaysTo(i, c, k)) = SaidCells(i, c)
  <2>. DEFINE said == {q \in DOMAIN text : Kind(q) = "prop" /\ text[q].name = c
                 /\ (Inside(q) = i \/ (q < i /\ Inside(q) \in Chain(i)))}
  <2>1. \A q : q \in SaysTo(i, c, k) <=> q \in said
    BY <1>2, <1>3, Zenon DEF SaysTo
  <2>2. SaysTo(i, c, k) = said
    BY <2>1
  <2>3. SaidCells(i, c) = IF said = {} THEN 1 ELSE text[Greatest(said)].value
    BY DEF SaidCells
  <2>. HIDE DEF said
  <2>. QED
    BY <2>2, <2>3, Zenon DEF CellsFrom
<1>6. LastIn(PropTokens(i)) = LastProps(i)
  BY DEF LastIn, LastProps
<1>7. [c \in CellNames |-> CellsFrom(SaysTo(i, c, k))] = [c \in CellNames |-> SaidCells(i, c)]
  BY <1>5, Zenon
<1>. QED
  BY <1>4, <1>6, <1>7, Zenon DEF Said, Final

-----------------------------------------------------------------------------
(* The operators on nodes, as functions on paths.                          *)
IsMap(f) == f = [p \in DOMAIN f |-> f[p]] /\ <<>> \in DOMAIN f /\ DOMAIN f \subseteq Seq(Names)

Has(cells, props) == [cells |-> cells, props |-> props]
HasAlso(cells, props, name, value) ==
  [cells |-> IF name \in CellNames THEN [cells EXCEPT ![name] = value] ELSE cells,
   props |-> {q \in props : q[1] # name} \cup {<<name, value>>}]
StartsWith(f, cells, props) == IsMap(f) /\ f[<<>>] = Has(cells, props)
Adds(f, g, cells, props, name, value) ==
  /\ DOMAIN g = DOMAIN f /\ IsMap(g)
  /\ g[<<>>] = HasAlso(cells, props, name, value)
  /\ \A p \in DOMAIN f : p # <<>> => g[p] = f[p]

(* A property changes what a node has at the empty path and nothing else.  *)
LEMMA AddPropertyIs ==
  ASSUME NEW f, NEW cells, NEW props, StartsWith(f, cells, props), NEW name, NEW value
  PROVE  Adds(f, AddProperty(f, name, value), cells, props, name, value)
<1>. DEFINE g == AddProperty(f, name, value)
<1>1. PICK D : D = DOMAIN f
  OBVIOUS
<1>2. f = [p \in D |-> f[p]] /\ <<>> \in D /\ D \subseteq Seq(Names)
  BY <1>1 DEF IsMap, StartsWith
<1>3. DOMAIN g = D /\ g = [p \in D |-> g[p]]
  BY <1>2 DEF AddProperty
<1>4. \A p \in D : p # <<>> => g[p] = f[p]
  BY <1>2 DEF AddProperty
<1>5. g[<<>>] = HasAlso(cells, props, name, value)
  <2>1. PICK c2 : c2 = IF name \in CellNames THEN [cells EXCEPT ![name] = value] ELSE cells
    OBVIOUS
  <2>2. PICK p2 : p2 = {q \in props : q[1] # name} \cup {<<name, value>>}
    OBVIOUS
  <2>. HIDE DEF g
  <2>3. f[<<>>].cells = cells /\ f[<<>>].props = props /\ f[<<>>] = [cells |-> cells, props |-> props]
    BY DEF Has, StartsWith
  <2>4. g = [f EXCEPT ![<<>>].cells = c2, ![<<>>].props = {q \in @ : q[1] # name} \cup {<<name, value>>}]
    BY <2>1, <2>3 DEF g, AddProperty
  <2>5. PICK h : h = [f EXCEPT ![<<>>].cells = c2]
    OBVIOUS
  <2>6. h[<<>>] = [cells |-> c2, props |-> props] /\ DOMAIN h = D
    <3>1. h[<<>>] = [f[<<>>] EXCEPT !.cells = c2]
      BY <1>1, <1>2, <2>5
    <3>. QED
      BY <1>1, <2>3, <2>5, <3>1
  <2>7. h[<<>>].props = props
    BY <2>6
  <2>8. g = [h EXCEPT ![<<>>].props = p2]
    BY <2>2, <2>3, <2>4, <2>5, <2>7
  <2>9. g[<<>>] = [h[<<>>] EXCEPT !.props = p2]
    BY <1>2, <2>6, <2>8
  <2>10. g[<<>>] = [cells |-> c2, props |-> p2]
    BY <2>6, <2>9
  <2>. QED
    BY <2>1, <2>2, <2>10, Zenon DEF HasAlso
<1>6. IsMap(g)
  BY <1>2, <1>3, Zenon DEF IsMap
<1>. QED
  BY <1>1, <1>3, <1>4, <1>5, <1>6, Zenon DEF Adds

Joins(f, x, child, g) ==
  /\ IsMap(g)
  /\ DOMAIN g = {p \in DOMAIN f : p = <<>> \/ Head(p) # x} \cup {<<x>> \o p : p \in DOMAIN child}
  /\ \A p \in DOMAIN child : g[<<x>> \o p] = child[p]
  /\ \A p \in DOMAIN f : p = <<>> \/ Head(p) # x => g[p] = f[p]

(* A child takes the place of all that lay below its name.                 *)
LEMMA AddChildIs ==
  ASSUME NEW f, IsMap(f), NEW child, IsMap(child), NEW x \in Names
  PROVE  Joins(f, x, child, AddChild(f, x, child))
<1>. DEFINE g == AddChild(f, x, child)
<1>. DEFINE new == {<<x>> \o p : p \in DOMAIN child}
            D == (DOMAIN f \ Below(f, x)) \cup new
<1>1. g = [p \in D |-> IF p \in new THEN child[Tail(p)] ELSE f[p]]
  BY DEF AddChild
<1>2. \A p \in DOMAIN child : p \in Seq(Names)
  BY DEF IsMap
<1>3. \A p \in new : p \in Seq(Names) /\ p # <<>> /\ Head(p) = x
  <2>1. ASSUME NEW p \in DOMAIN child
        PROVE  <<x>> \o p \in Seq(Names) /\ <<x>> \o p # <<>> /\ Head(<<x>> \o p) = x
    BY <1>2, PathStep
  <2>. QED
    BY <2>1, Zenon
<1>4. \A p \in DOMAIN child : Tail(<<x>> \o p) = p
  BY <1>2, PathStep, Zenon
<1>5. D = {p \in DOMAIN f : p = <<>> \/ Head(p) # x} \cup new
  BY Zenon DEF Below
<1>6. <<>> \in D /\ D \subseteq Seq(Names)
  BY <1>3, <1>5, Zenon DEF IsMap
<1>. HIDE DEF new, D
<1>7. DOMAIN g = D
  BY <1>1
<1>8. g = [p \in DOMAIN g |-> g[p]]
  BY <1>1
<1>9. \A p \in new : g[p] = child[Tail(p)]
  <2>1. \A p \in new : p \in D
    BY <1>5
  <2>. QED
    BY <1>1, <2>1
<1>10. \A p \in DOMAIN f : p = <<>> \/ Head(p) # x => g[p] = f[p]
  <2>1. \A p \in DOMAIN f : p = <<>> \/ Head(p) # x => p \in D /\ p \notin new
    BY <1>3, <1>5, Zenon
  <2>. QED
    BY <1>1, <2>1
<1>11. \A p \in DOMAIN child : g[<<x>> \o p] = child[p]
  BY <1>4, <1>9, Zenon DEF new
<1>12. IsMap(g)
  BY <1>6, <1>7, <1>8, Zenon DEF IsMap
<1>. QED
  BY <1>5, <1>7, <1>10, <1>11, <1>12, Zenon DEF new, Joins

(* The node in progress: what has been said of it, and the nodes kept in   *)
(* it, each at its path with what is said of it in the whole text.         *)
Describes(o, d, k) ==
  /\ IsMap(d[k])
  /\ DOMAIN d[k] = {<<>>} \cup {Rel(o, i, k) : i \in Kept(o, k)}
  /\ d[k][<<>>] = Said(Inside(k), k)
  /\ \A i \in Kept(o, k) : d[k][Rel(o, i, k)] = Final(i)

(* The node around the whole block is described before the first token.    *)
LEMMA DescribesStart ==
  ASSUME NEW o, NEW n, Spells(o, n), NEW d, d[0] = NewNode
  PROVE  Describes(o, d, 0)
<1>1. Kept(o, 0) = {}
  BY DEF Kept, Within
<1>2. \A i : PropsAt(i, 0) = {} /\ \A c : SaysTo(i, c, 0) = {}
  BY DEF PropsAt, SaysTo
<1>3. Said(Inside(0), 0) = [cells |-> [c \in CellNames |-> 1], props |-> {}]
  <2>1. LastIn({}) = {}
    BY DEF LastIn
  <2>2. CellsFrom({}) = 1
    BY DEF CellsFrom
  <2>. QED
    BY <1>2, <2>1, <2>2, Zenon DEF Said
<1>4. d[0] = [p \in {<<>>} |-> [cells |-> [c \in CellNames |-> 1], props |-> {}]]
  BY DEF NewNode, Leaf, Cells
<1>5. DOMAIN d[0] = {<<>>} /\ d[0][<<>>] = [cells |-> [c \in CellNames |-> 1], props |-> {}]
      /\ d[0] = [p \in DOMAIN d[0] |-> d[0][p]]
  BY <1>4
<1>6. <<>> \in Seq(Names)
  OBVIOUS
<1>7. IsMap(d[0])
  BY <1>5, <1>6 DEF IsMap
<1>. QED
  BY <1>1, <1>3, <1>5, <1>7, Zenon DEF Describes

(* A new node is described: nothing is in it, and its cells are those of   *)
(* the node around it.                                                     *)
LEMMA DescribesBegins ==
  ASSUME NEW o, NEW n, Spells(o, n), NEW d, NEW k \in 1 .. n, Kind(k) = "begin",
         d[k] = NewChild(d[k - 1]), Describes(o, d, k - 1)
  PROVE  Describes(o, d, k)
<1>1. Kept(o, k) = {} /\ Inside(k) = k
  BY KeptBegins
<1>2. Said(k, k) = [cells |-> d[k - 1][<<>>].cells, props |-> {}]
  BY SaidBegins, Zenon DEF Describes
<1>3. d[k] = [p \in {<<>>} |-> Said(k, k)]
  BY <1>2, Zenon DEF NewChild, Leaf
<1>4. DOMAIN d[k] = {<<>>} /\ d[k][<<>>] = Said(k, k) /\ d[k] = [p \in DOMAIN d[k] |-> d[k][p]]
  BY <1>3
<1>5. <<>> \in Seq(Names)
  OBVIOUS
<1>6. IsMap(d[k])
  BY <1>4, <1>5 DEF IsMap
<1>. QED
  BY <1>1, <1>4, <1>6, Zenon DEF Describes

(* A no-operation changes nothing.                                         *)
LEMMA DescribesSame ==
  ASSUME NEW o, NEW n, Spells(o, n), NEW d, NEW k \in 1 .. n, Kind(k) = "nop",
         d[k] = d[k - 1], Describes(o, d, k - 1)
  PROVE  Describes(o, d, k)
<1>1. /\ Kept(o, k) = Kept(o, k - 1) /\ Inside(k) = Inside(k - 1)
      /\ \A i : Rel(o, i, k) = Rel(o, i, k - 1)
  BY KeptSame
<1>2. \A i : Said(i, k) = Said(i, k - 1)
  <2>1. k \in Nat \ {0} /\ Kind(k) # "prop"
    BY DEF Spells
  <2>. QED
    BY <2>1, SaidSame
<1>. QED
  BY <1>1, <1>2, Zenon DEF Describes

(* A property is added to what is said of the node in progress.            *)
LEMMA DescribesProperty ==
  ASSUME NEW o, NEW n, Spells(o, n), text \in Seq(Tokens), n <= Len(text), NEW d,
         NEW k \in 1 .. n, Kind(k) = "prop",
         d[k] = AddProperty(d[k - 1], text[k].name, text[k].value), Describes(o, d, k - 1)
  PROVE  Describes(o, d, k)
<1>1. /\ Kept(o, k) = Kept(o, k - 1) /\ Inside(k) = Inside(k - 1)
      /\ \A i : Rel(o, i, k) = Rel(o, i, k - 1)
  BY KeptSame
<1>2. PICK m : m = Inside(k)
  OBVIOUS
<1>3. PICK f : f = d[k - 1]
  OBVIOUS
<1>4. PICK g : g = d[k]
  OBVIOUS
<1>5. k \in Nat \ {0} /\ k - 1 \in 0 .. n
  BY DEF Spells
<1>6. f[<<>>] = [cells |-> Said(m, k - 1).cells, props |-> Said(m, k - 1).props]
  <2>1. f[<<>>] = Said(m, k - 1)
    BY <1>1, <1>2, <1>3, Zenon DEF Describes
  <2>. QED
    BY <2>1 DEF Said
<1>7. /\ DOMAIN g = DOMAIN f /\ IsMap(g)
      /\ g[<<>>] = [cells |-> IF text[k].name \in CellNames
                               THEN [Said(m, k - 1).cells EXCEPT ![text[k].name] = text[k].value]
                               ELSE Said(m, k - 1).cells,
                    props |-> {q \in Said(m, k - 1).props : q[1] # text[k].name}
                                \cup {<<text[k].name, text[k].value>>}]
      /\ \A p \in DOMAIN f : p # <<>> => g[p] = f[p]
  <2>1. IsMap(f) /\ g = AddProperty(f, text[k].name, text[k].value)
    BY <1>3, <1>4, Zenon DEF Describes
  <2>2. PICK cells, props : cells = Said(m, k - 1).cells /\ props = Said(m, k - 1).props
    OBVIOUS
  <2>3. PICK name, value : name = text[k].name /\ value = text[k].value
    OBVIOUS
  <2>4. StartsWith(f, cells, props)
    BY <1>6, <2>1, <2>2, Zenon DEF Has, StartsWith
  <2>5. g = AddProperty(f, name, value)
    BY <2>1, <2>3
  <2>6. Adds(f, g, cells, props, name, value)
    BY <2>4, <2>5, AddPropertyIs, Zenon
  <2>. QED
    BY <2>2, <2>3, <2>6, Zenon DEF Adds, HasAlso
<1>8. g[<<>>] = Said(m, k)
  BY <1>2, <1>5, <1>7, SaidProperty, Zenon
<1>9. \A i \in Kept(o, k - 1) : Rel(o, i, k - 1) \in DOMAIN f /\ Rel(o, i, k - 1) # <<>>
  <2>1. \A i \in Kept(o, k - 1) : Rel(o, i, k - 1) # <<>>
    BY <1>5, RelIs DEF Kept
  <2>. QED
    BY <1>3, <2>1, Zenon DEF Describes
<1>10. \A i \in Kept(o, k) : g[Rel(o, i, k)] = Final(i)
  BY <1>1, <1>3, <1>7, <1>9, Zenon DEF Describes
<1>. QED
  BY <1>1, <1>2, <1>3, <1>4, <1>7, <1>8, <1>10, Zenon DEF Describes

(* An end joins two described nodes: the closed one becomes a child of the *)
(* one around it, as that was when the child began.                        *)
LEMMA DescribesEnds ==
  ASSUME NEW o, NEW n, Spells(o, n), text \in Seq(Tokens), n <= Len(text), PropsBefore(n),
         NEW d, NEW k \in 1 .. n, Kind(k) = "end", NEW j0, Closes(o, k, j0),
         d[k] = AddChild(d[j0 - 1], text[j0].name, d[k - 1]),
         Describes(o, d, j0 - 1), Describes(o, d, k - 1)
  PROVE  Describes(o, d, k)
<1>1. PICK f, child, x : f = d[j0 - 1] /\ child = d[k - 1] /\ x = text[j0].name
  OBVIOUS
<1>2. /\ n \in Nat /\ k - 1 \in 0 .. n /\ k - 1 \in 0 .. k /\ j0 \in 1 .. k - 1 /\ j0 - 1 \in 0 .. n
      /\ j0 \in 1 .. k /\ k \in 0 .. n /\ k \in Nat \ {0}
  BY DEF Spells, Closes
<1>3. /\ x \in Names
      /\ \A i : Rel(o, i, k) = Rel(o, i, j0 - 1)
      /\ Rel(o, j0, k) = <<x>> \o <<>>
      /\ \A i \in Kept(o, k - 1) : Rel(o, i, k) = <<x>> \o Rel(o, i, k - 1)
  <2>1. Longer(o, j0, k)
    BY RelEnds
  <2>. QED
    BY <1>1, <2>1, Zenon DEF Kept, Longer
<1>4. PICK g : g = d[k]
  OBVIOUS
<1>5. IsMap(f) /\ IsMap(child) /\ g = AddChild(f, x, child)
  BY <1>1, <1>4, Zenon DEF Describes
<1>6. /\ IsMap(g)
      /\ DOMAIN g = {p \in DOMAIN f : p = <<>> \/ Head(p) # x} \cup {<<x>> \o p : p \in DOMAIN child}
      /\ \A p \in DOMAIN child : g[<<x>> \o p] = child[p]
      /\ \A p \in DOMAIN f : p = <<>> \/ Head(p) # x => g[p] = f[p]
  <2>1. Joins(f, x, child, g)
    BY <1>3, <1>5, AddChildIs
  <2>. QED
    BY <2>1, Zenon DEF Joins
<1>7. Kept(o, k) = {i \in Kept(o, j0 - 1) : NameAt(o, i, Len(o[k]) + 1) # x} \cup {j0} \cup Kept(o, k - 1)
  BY <1>1, KeptEnds
<1>8. \A i \in Kept(o, j0 - 1) :
        /\ Rel(o, i, j0 - 1) # <<>>
        /\ Head(Rel(o, i, j0 - 1)) # x <=> NameAt(o, i, Len(o[k]) + 1) # x
  <2>1. o[j0 - 1] = o[k]
    BY DEF Closes
  <2>2. ASSUME NEW i \in Kept(o, j0 - 1)
        PROVE  /\ Rel(o, i, j0 - 1) # <<>>
               /\ Head(Rel(o, i, j0 - 1)) = NameAt(o, i, Len(o[j0 - 1]) + 1)
    <3>1. i \in Within(o, j0 - 1)
      BY DEF Kept
    <3>. QED
      BY <1>2, <3>1, RelIs
  <2>. QED
    BY <2>1, <2>2, Zenon
<1>9. DOMAIN f = {<<>>} \cup {Rel(o, i, j0 - 1) : i \in Kept(o, j0 - 1)}
  BY <1>1, Zenon DEF Describes
<1>10. DOMAIN child = {<<>>} \cup {Rel(o, i, k - 1) : i \in Kept(o, k - 1)}
  BY <1>1, Zenon DEF Describes
<1>11. DOMAIN g = {<<>>} \cup {Rel(o, i, k) : i \in Kept(o, k)}
  <2>1. ASSUME NEW p \in DOMAIN g PROVE p = <<>> \/ \E i \in Kept(o, k) : p = Rel(o, i, k)
    <3>1. CASE p \in DOMAIN f /\ (p = <<>> \/ Head(p) # x)
      BY <1>3, <1>7, <1>8, <1>9, <3>1, Zenon
    <3>2. ASSUME NEW q \in DOMAIN child, p = <<x>> \o q PROVE \E i \in Kept(o, k) : p = Rel(o, i, k)
      BY <1>3, <1>7, <1>10, <3>2, Zenon
    <3>. QED
      BY <1>6, <3>1, <3>2, Zenon
  <2>2. <<>> \in DOMAIN g
    BY <1>6, Zenon DEF IsMap
  <2>3. ASSUME NEW i \in Kept(o, k) PROVE Rel(o, i, k) \in DOMAIN g
    <3>1. CASE i \in Kept(o, j0 - 1) /\ NameAt(o, i, Len(o[k]) + 1) # x
      BY <1>3, <1>6, <1>8, <1>9, <3>1, Zenon
    <3>2. CASE i = j0
      <4>1. <<>> \in DOMAIN child
        BY <1>10
      <4>. QED
        BY <1>3, <1>6, <3>2, <4>1, Zenon
    <3>3. CASE i \in Kept(o, k - 1)
      BY <1>3, <1>6, <1>10, <3>3, Zenon
    <3>. QED
      BY <1>7, <3>1, <3>2, <3>3, Zenon
  <2>. QED
    BY <2>1, <2>2, <2>3, Zenon
<1>12. g[<<>>] = Said(Inside(k), k)
  <2>1. <<>> \in DOMAIN f
    BY <1>9
  <2>2. g[<<>>] = f[<<>>]
    BY <1>6, <2>1, Zenon
  <2>3. Inside(j0 - 1) = Inside(k)
    BY Zenon DEF Closes, ParentOf
  <2>4. Said(Inside(k), k) = Said(Inside(k), j0 - 1)
    BY SaidEnds
  <2>. QED
    BY <1>1, <2>2, <2>3, <2>4, Zenon DEF Describes
<1>13. g[Rel(o, j0, k)] = Final(j0)
  <2>1. <<>> \in DOMAIN child
    BY <1>10
  <2>2. g[Rel(o, j0, k)] = child[<<>>]
    BY <1>3, <1>6, <2>1, Zenon
  <2>3. Inside(k - 1) = j0
    <3>1. Len(o[k - 1]) # 0 /\ o[k - 1][Len(o[k - 1])] = j0
      BY DEF Closes
    <3>. QED
      BY <1>2, <3>1, ChainIs
  <2>4. child[<<>>] = Said(j0, k - 1)
    BY <1>1, <2>3, Zenon DEF Describes
  <2>5. Said(j0, k) = Said(j0, k - 1)
    BY <1>2, SaidSame
  <2>6. j0 \notin Chain(k)
    <3>1. Inside(k) \in 0 .. j0 - 1
      BY DEF Closes
    <3>2. j0 \in Chain(k) => j0 \in 0 .. Inside(k)
      BY <1>2, ChainOfInside
    <3>. QED
      BY <1>2, <3>1, <3>2
  <2>7. Said(j0, k) = Final(j0)
    <3>1. Kind(j0) = "begin"
      BY DEF Closes
    <3>. QED
      BY <1>2, <2>6, <3>1, SaidFinal
  <2>. QED
    BY <2>2, <2>4, <2>5, <2>7, Zenon
<1>14. ASSUME NEW i \in Kept(o, k) PROVE g[Rel(o, i, k)] = Final(i)
  <2>1. CASE i \in Kept(o, j0 - 1) /\ NameAt(o, i, Len(o[k]) + 1) # x
    <3>1. Rel(o, i, j0 - 1) \in DOMAIN f /\ Head(Rel(o, i, j0 - 1)) # x
      BY <1>8, <1>9, <2>1, Zenon
    <3>2. f[Rel(o, i, j0 - 1)] = Final(i)
      BY <1>1, <2>1, Zenon DEF Describes
    <3>. QED
      BY <1>3, <1>6, <3>1, <3>2, Zenon
  <2>2. CASE i = j0
    BY <1>13, <2>2, Zenon
  <2>3. CASE i \in Kept(o, k - 1)
    <3>1. Rel(o, i, k - 1) \in DOMAIN child
      BY <1>10, <2>3, Zenon
    <3>2. child[Rel(o, i, k - 1)] = Final(i)
      BY <1>1, <2>3, Zenon DEF Describes
    <3>. QED
      BY <1>3, <1>6, <2>3, <3>1, <3>2, Zenon
  <2>. QED
    BY <1>7, <2>1, <2>2, <2>3, Zenon
<1>. QED
  BY <1>4, <1>6, <1>11, <1>12, <1>14, Zenon DEF Describes

(* At every point of a run that all properties belong to the node in       *)
(* progress is described by what the text has told so far.                 *)
LEMMA RunDescribes ==
  ASSUME NEW o, NEW a, NEW d, NEW n, IsRun(text, o, a, d, n), PropsBefore(n)
  PROVE  \A k \in 0 .. n : Describes(o, d, k)
<1>. DEFINE Bad == {k \in 0 .. n : ~ Describes(o, d, k)}
<1>0. n \in Nat /\ text \in Seq(Tokens) /\ n <= Len(text) /\ d[0] = NewNode
  BY DEF IsRun
<1>1. Spells(o, n)
  BY RunSpells
<1>. SUFFICES ASSUME Bad # {} PROVE FALSE
  OBVIOUS
<1>2. PICK k \in Bad : \A m \in Bad : k <= m
  <2>1. Bad \in SUBSET Nat
    BY <1>0
  <2>. HIDE DEF Bad
  <2>. QED
    BY <2>1, LeastElement, Zenon
<1>3. k # 0
  BY <1>0, <1>1, <1>2, DescribesStart
<1>4. k \in 1 .. n /\ k - 1 \in 0 .. n
  BY <1>0, <1>2, <1>3
<1>5. ASSUME NEW m \in 0 .. k - 1 PROVE Describes(o, d, m)
  BY <1>0, <1>2, <1>4
<1>6. Describes(o, d, k - 1)
  BY <1>4, <1>5
<1>7. TokenStep(text[k], k, o[k - 1], a[k - 1], d[k - 1], o[k], a[k], d[k])
  BY <1>4 DEF IsRun
<1>8. Kind(k) = text[k].kind
  BY DEF Kind
<1>9. CASE Kind(k) = "begin"
  <2>1. d[k] = NewChild(d[k - 1])
    BY <1>7, <1>8, <1>9 DEF TokenStep
  <2>2. Describes(o, d, k)
    BY <1>1, <1>4, <1>6, <1>9, <2>1, DescribesBegins
  <2>. QED
    BY <1>2, <2>2
<1>10. CASE Kind(k) = "prop"
  <2>1. d[k] = AddProperty(d[k - 1], text[k].name, text[k].value)
    BY <1>7, <1>8, <1>10 DEF TokenStep
  <2>2. Describes(o, d, k)
    BY <1>0, <1>1, <1>4, <1>6, <1>10, <2>1, DescribesProperty
  <2>. QED
    BY <1>2, <2>2
<1>11. CASE Kind(k) = "nop"
  <2>1. d[k] = d[k - 1]
    BY <1>7, <1>8, <1>11 DEF TokenStep
  <2>2. Describes(o, d, k)
    BY <1>1, <1>4, <1>6, <1>11, <2>1, DescribesSame
  <2>. QED
    BY <1>2, <2>2
<1>12. CASE Kind(k) = "end"
  <2>1. d[k] = AddChild(Last(a[k - 1])[2], Last(a[k - 1])[1], d[k - 1])
    BY <1>7, <1>8, <1>12 DEF TokenStep
  <2>2. PICK j0 : j0 = o[k - 1][Len(o[k - 1])]
    OBVIOUS
  <2>3. Closes(o, k, j0)
    BY <1>1, <1>4, <1>12, <2>2, EndCloses
  <2>4. Last(o[k - 1]) = j0 /\ o[k - 1] \in Seq(Nat) /\ o[k - 1] # <<>>
    <3>1. o[k - 1] \in Seq(Nat)
      BY <1>1, <1>4 DEF Spells, Nested
    <3>2. Len(o[k - 1]) # 0
      BY <2>3 DEF Closes
    <3>. QED
      BY <2>3, <3>1, <3>2 DEF Closes
  <2>5. Paired(o, a, d, k - 1)
    BY <1>4, Stacks
  <2>6. Last(a[k - 1]) = <<text[j0].name, d[j0 - 1]>>
    BY <2>4, <2>5, PairsAre
  <2>7. d[k] = AddChild(d[j0 - 1], text[j0].name, d[k - 1])
    BY <2>1, <2>6
  <2>8. j0 - 1 \in 0 .. k - 1
    BY <1>4, <2>3 DEF Closes
  <2>9. Describes(o, d, j0 - 1)
    BY <1>5, <2>8
  <2>10. Describes(o, d, k)
    BY <1>0, <1>1, <1>4, <1>6, <1>12, <2>3, <2>7, <2>9, DescribesEnds
  <2>. QED
    BY <1>2, <2>10
<1>. QED
  BY <1>7, <1>8, <1>9, <1>10, <1>11, <1>12 DEF TokenStep

-----------------------------------------------------------------------------
(* What is said is of the right type: the last value of a cells property   *)
(* is a number.                                                            *)
LEMMA GreatestIsIn ==
  ASSUME NEW k \in Nat, NEW T \in SUBSET (1 .. k), T # {}
  PROVE  Greatest(T) \in T
<1>. DEFINE D == {k - q : q \in T}
<1>1. D \in SUBSET Nat /\ D # {}
  <2>1. \A q \in T : k - q \in Nat
    OBVIOUS
  <2>. QED
    BY <2>1
<1>2. PICK m \in D : \A e \in D : m <= e
  <2>. HIDE DEF D
  <2>. QED
    BY <1>1, LeastElement
<1>3. PICK i \in T : m = k - i
  BY <1>2
<1>4. \A j \in T : j <= i
  <2>1. ASSUME NEW j \in T PROVE j <= i
    <3>1. m <= k - j
      BY <1>2
    <3>. QED
      BY <1>3, <3>1
  <2>. QED
    BY <2>1
<1>. QED
  BY <1>4, Zenon DEF Greatest

OfNode(r) == r.cells \in [CellNames -> Nat] /\ r.props \subseteq Properties

(* Numbers of cells are numbers, and properties are those of the block.    *)
LEMMA SaidTyped ==
  ASSUME text \in Seq(Tokens), NEW k \in Nat, k <= Len(text), NEW i
  PROVE  OfNode(Said(i, k)) /\ OfNode(Final(i))
<1>1. DOMAIN text = 1 .. Len(text) /\ Len(text) \in Nat
  OBVIOUS
<1>2. ASSUME NEW q \in DOMAIN text, Kind(q) = "prop"
      PROVE  <<text[q].name, text[q].value>> \in Properties
             /\ (text[q].name \in CellNames => text[q].value \in Nat)
  <2>1. text[q] \in Tokens /\ text[q].kind = "prop"
    BY <1>2 DEF Kind
  <2>2. PICK p \in Properties : text[q] = [kind |-> "prop", name |-> p[1], value |-> p[2]]
    BY <2>1 DEF Tokens
  <2>3. text[q].name = p[1] /\ text[q].value = p[2]
    BY <2>2
  <2>4. p = <<p[1], p[2]>> /\ (p[1] \in CellNames => p[2] \in Nat)
    BY FdtAssumption
  <2>. QED
    BY <2>3, <2>4, Zenon
<1>3. ASSUME NEW m \in Nat, m <= Len(text) PROVE OfNode(Said(i, m))
  <2>1. ASSUME NEW c \in CellNames PROVE CellsFrom(SaysTo(i, c, m)) \in Nat
    <3>1. PICK T : T = SaysTo(i, c, m)
      OBVIOUS
    <3>2. CASE T = {}
      BY <3>1, <3>2 DEF CellsFrom
    <3>3. CASE T # {}
      <4>1. T \in SUBSET (1 .. m)
        BY <3>1 DEF SaysTo
      <4>2. Greatest(T) \in T
        BY <3>3, <4>1, GreatestIsIn
      <4>3. PICK q : q = Greatest(T)
        OBVIOUS
      <4>4. q \in 1 .. m /\ Kind(q) = "prop" /\ text[q].name = c
        BY <3>1, <4>2, <4>3 DEF SaysTo
      <4>5. q \in DOMAIN text
        BY <1>1, <1>3, <4>4
      <4>6. text[q].value \in Nat
        BY <1>2, <2>1, <4>4, <4>5
      <4>. QED
        BY <3>1, <3>3, <4>3, <4>6, Zenon DEF CellsFrom
    <3>. QED
      BY <3>2, <3>3
  <2>2. LastIn(PropsAt(i, m)) \subseteq Properties
    <3>1. \A q \in PropsAt(i, m) : q \in DOMAIN text /\ Kind(q) = "prop"
      BY <1>1, <1>3 DEF PropsAt
    <3>2. PICK P : P = PropsAt(i, m)
      OBVIOUS
    <3>3. \A q \in P : <<text[q].name, text[q].value>> \in Properties
      BY <1>2, <3>1, <3>2, Zenon
    <3>. QED
      BY <3>2, <3>3, Zenon DEF LastIn
  <2>3. PICK r : r = Said(i, m)
    OBVIOUS
  <2>4. r.cells = [c \in CellNames |-> CellsFrom(SaysTo(i, c, m))] /\ r.props = LastIn(PropsAt(i, m))
    BY <2>3 DEF Said
  <2>5. r.cells \in [CellNames -> Nat]
    BY <2>1, <2>4
  <2>. QED
    BY <2>2, <2>3, <2>4, <2>5, Zenon DEF OfNode
<1>4. Final(i) = Said(i, Len(text))
  <2>1. PropsAt(i, Len(text)) = PropTokens(i)
    BY <1>1, Zenon DEF PropsAt, PropTokens
  <2>2. ASSUME NEW c PROVE CellsFrom(SaysTo(i, c, Len(text))) = SaidCells(i, c)
    BY <1>1, Zenon DEF CellsFrom, SaysTo, SaidCells
  <2>3. LastIn(PropTokens(i)) = LastProps(i)
    BY DEF LastIn, LastProps
  <2>4. [c \in CellNames |-> CellsFrom(SaysTo(i, c, Len(text)))] = [c \in CellNames |-> SaidCells(i, c)]
    BY <2>2, Zenon
  <2>. QED
    BY <2>1, <2>3, <2>4, Zenon DEF Said, Final
<1>5. OfNode(Said(i, Len(text)))
  BY <1>1, <1>3
<1>. QED
  BY <1>3, <1>4, <1>5

(* With a node the ones it lies in are kept, and their paths are the       *)
(* beginnings of its own.                                                  *)
LEMMA KeptAround ==
  ASSUME NEW o, NEW n, Spells(o, n), text \in Seq(Tokens), n <= Len(text),
         NEW k \in 0 .. n, NEW i \in Kept(o, k), NEW s \in Len(o[k]) + 1 .. Len(o[i]),
         NEW j, j = o[i][s]
  PROVE  /\ j \in Kept(o, k)
         /\ IsPath(Rel(o, j, k), o, i, Len(o[k]), s - Len(o[k]))
<1>1. i \in Within(o, k) /\ \A r \in Len(o[k]) + 1 .. Len(o[i]) : ~ Over(o[i][r], k)
  BY DEF Kept
<1>2. /\ i \in 1 .. n /\ Kind(i) = "begin" /\ Len(o[k]) \in Nat /\ Len(o[i]) \in Nat
      /\ Len(o[k]) < Len(o[i])
  BY <1>1, RelIs
<1>3. n \in Nat /\ k \in Nat /\ i \in 1 .. k /\ Start(o[i], Len(o[k])) = o[k]
  BY <1>1 DEF Within, Spells
<1>4. PICK h, L : h = Len(o[k]) /\ L = Len(o[i])
  OBVIOUS
<1>5. s \in 1 .. L /\ h < s /\ i \in 0 .. n /\ s \in Nat
  BY <1>2, <1>4
<1>6. /\ j \in 1 .. i /\ Kind(j) = "begin" /\ o[j] = Start(o[i], s) /\ Len(o[j]) = s
      /\ \A r \in 1 .. s : o[j][r] = o[i][r]
  <2>1. s \in 1 .. Len(o[i])
    BY <1>4, <1>5
  <2>. QED
    BY <1>5, <2>1, OpenNode, SMTT(30)
<1>7. j \in Within(o, k)
  <2>0. j \in 0 .. n
    BY <1>2, <1>3, <1>6
  <2>1. o[i] \in Seq(Nat) /\ o[j] \in Seq(Nat)
    BY <1>5, <2>0 DEF Spells, Nested
  <2>2. \A r \in 1 .. h : o[j][r] = o[i][r]
    BY <1>2, <1>4, <1>5, <1>6
  <2>3. Start(o[j], h) = Start(o[i], h)
    <3>1. PICK q, p : q = o[i] /\ p = o[j]
      OBVIOUS
    <3>2. /\ q \in Seq(Nat) /\ p \in Seq(Nat) /\ h \in Nat /\ h <= Len(q) /\ h <= Len(p)
          /\ \A r \in 1 .. h : p[r] = q[r]
      <4>1. h \in Nat /\ h <= Len(o[i]) /\ h <= Len(o[j])
        BY <1>2, <1>4, <1>5, <1>6
      <4>. QED
        BY <2>1, <2>2, <3>1, <4>1, Zenon
    <3>3. Start(p, h) = Start(q, h)
      BY <3>2, StartsEqual
    <3>. QED
      BY <3>1, <3>3
  <2>4. j \in 1 .. k
    BY <1>3, <1>6
  <2>. QED
    BY <1>3, <1>4, <1>5, <1>6, <2>3, <2>4 DEF Within
<1>8. j \in Kept(o, k)
  <2>1. ASSUME NEW r \in h + 1 .. s PROVE ~ Over(o[j][r], k)
    <3>1. r \in 1 .. s /\ r \in h + 1 .. L
      BY <1>2, <1>4, <1>5
    <3>. QED
      BY <1>1, <1>4, <1>6, <3>1
  <2>. QED
    BY <1>4, <1>6, <1>7, <2>1, Zenon DEF Kept
<1>9. IsPath(Rel(o, j, k), o, j, h, s - h)
  BY <1>4, <1>6, <1>7, RelIs
<1>10. ASSUME NEW r \in 1 .. s - h PROVE NameAt(o, j, h + r) = NameAt(o, i, h + r)
  <2>1. h + r \in 1 .. s
    BY <1>2, <1>4, <1>5, SMTT(30)
  <2>. QED
    BY <1>6, <2>1 DEF NameAt
<1>11. IsPath(Rel(o, j, k), o, i, h, s - h)
  BY <1>9, <1>10, Zenon DEF IsPath
<1>. QED
  BY <1>4, <1>8, <1>11

(* A described node is a node of TreeTypeOK.                               *)
LEMMA DescribedIsNode ==
  ASSUME NEW o, NEW n, Spells(o, n), text \in Seq(Tokens), n <= Len(text),
         NEW d, NEW k \in 0 .. n, Describes(o, d, k)
  PROVE  IsNode(d[k])
<1>1. DOMAIN d[k] = {<<>>} \cup {Rel(o, i, k) : i \in Kept(o, k)}
  BY DEF Describes
<1>2. ASSUME NEW i \in Kept(o, k) PROVE Front(Rel(o, i, k)) \in DOMAIN d[k]
  <2>1. i \in Within(o, k)
    BY DEF Kept
  <2>2. PICK p, h, m : p = Rel(o, i, k) /\ h = Len(o[k]) /\ m = Len(o[i]) - Len(o[k])
    OBVIOUS
  <2>3. /\ Len(o[k]) \in Nat /\ Len(o[i]) \in Nat /\ Len(o[k]) < Len(o[i])
        /\ IsPath(p, o, i, h, m) /\ p \in Seq(Names) /\ p # <<>>
    BY <2>1, <2>2, RelIs
  <2>4. h \in Nat /\ m \in Nat \ {0} /\ Len(o[i]) = h + m
    BY <2>2, <2>3
  <2>5. Len(p) = m /\ \A s \in 1 .. m : p[s] = NameAt(o, i, h + s)
    BY <2>3 DEF IsPath
  <2>6. Front(p) \in Seq(Names) /\ Len(Front(p)) = m - 1 /\ \A s \in 1 .. m - 1 : Front(p)[s] = p[s]
    BY <2>3, <2>4, <2>5 DEF Front
  <2>7. CASE m = 1
    <3>1. Front(p) = <<>>
      BY <2>6, <2>7
    <3>. QED
      BY <1>1, <2>2, <3>1
  <2>8. CASE m # 1
    <3>1. PICK s, j : s = h + (m - 1) /\ j = o[i][s]
      OBVIOUS
    <3>2. s \in Len(o[k]) + 1 .. Len(o[i]) /\ s - Len(o[k]) = m - 1
      BY <2>2, <2>4, <2>8, <3>1
    <3>3. j \in Kept(o, k) /\ IsPath(Rel(o, j, k), o, i, h, m - 1)
      BY <2>2, <3>1, <3>2, KeptAround
    <3>4. PICK r : r = Rel(o, j, k)
      OBVIOUS
    <3>5. r \in Seq(Names) /\ Len(r) = m - 1 /\ \A t \in 1 .. m - 1 : r[t] = NameAt(o, i, h + t)
      BY <3>3, <3>4 DEF IsPath
    <3>6. \A t \in 1 .. m - 1 : t \in 1 .. m
      BY <2>4
    <3>7. \A t \in 1 .. m - 1 : Front(p)[t] = r[t]
      BY <2>5, <2>6, <3>5, <3>6, Zenon
    <3>8. Front(p) = r
      <4>1. PICK f : f = Front(p)
        OBVIOUS
      <4>. QED
        BY <2>6, <3>5, <3>7, <4>1, SeqEqual
    <3>. QED
      BY <1>1, <2>2, <3>3, <3>4, <3>8, Zenon
  <2>. QED
    BY <2>7, <2>8
<1>3. k \in Nat /\ k <= Len(text) /\ Len(text) \in Nat
  BY DEF Spells
<1>4. \A i : OfNode(Said(i, k)) /\ OfNode(Final(i))
  BY <1>3, SaidTyped
<1>5. \A p \in DOMAIN d[k] : OfNode(d[k][p])
  BY <1>1, <1>4, Zenon DEF Describes
<1>6. \A p \in DOMAIN d[k] : p # <<>> => Front(p) \in DOMAIN d[k]
  BY <1>1, <1>2, Zenon
<1>7. <<>> \in DOMAIN d[k]
  BY <1>1
<1>. QED
  BY <1>5, <1>6, <1>7, Zenon DEF IsNode, OfNode

(* The child of a node, with the path to it for a node that has it.        *)
ChildIs(f, x, c) ==
  /\ IsMap(c)
  /\ \A p \in Seq(Names) : p \in DOMAIN c <=> <<x>> \o p \in DOMAIN f
  /\ \A p \in DOMAIN c : c[p] = f[<<x>> \o p]

(* The paths of a child are those of the node below its name.              *)
LEMMA ChildOfNode ==
  ASSUME NEW f, IsMap(f), NEW x \in Names, <<x>> \o <<>> \in DOMAIN f
  PROVE  ChildIs(f, x, Child(f, x))
<1>. DEFINE c == Child(f, x)
<1>1. PICK D : D = {Tail(q) : q \in Below(f, x)}
  OBVIOUS
<1>2. c = [p \in D |-> f[<<x>> \o p]]
  BY <1>1, Zenon DEF Child
<1>3. DOMAIN c = D /\ c = [p \in DOMAIN c |-> c[p]] /\ \A p \in D : c[p] = f[<<x>> \o p]
  BY <1>2
<1>4. D \subseteq Seq(Names)
  <2>1. ASSUME NEW q \in Below(f, x) PROVE Tail(q) \in Seq(Names)
    <3>1. q \in Seq(Names) /\ q # <<>>
      BY DEF Below, IsMap
    <3>. QED
      BY <3>1
  <2>. QED
    BY <1>1, <2>1, Zenon
<1>5. ASSUME NEW p \in Seq(Names) PROVE p \in D <=> <<x>> \o p \in DOMAIN f
  <2>1. ASSUME p \in D PROVE <<x>> \o p \in DOMAIN f
    <3>1. PICK q \in Below(f, x) : p = Tail(q)
      BY <1>1, <2>1, Zenon
    <3>2. q \in DOMAIN f /\ q \in Seq(Names) /\ q # <<>> /\ Head(q) = x
      BY DEF Below, IsMap
    <3>3. <<Head(q)>> \o Tail(q) = q
      BY <3>2, PathSplit
    <3>. QED
      BY <3>1, <3>2, <3>3
  <2>2. ASSUME <<x>> \o p \in DOMAIN f PROVE p \in D
    <3>1. PICK q : q = <<x>> \o p
      OBVIOUS
    <3>2. q # <<>> /\ Head(q) = x /\ Tail(q) = p
      BY <3>1, PathStep
    <3>3. q \in Below(f, x)
      BY <2>2, <3>1, <3>2, Zenon DEF Below
    <3>. QED
      BY <1>1, <3>2, <3>3, Zenon
  <2>. QED
    BY <2>1, <2>2
<1>6. <<>> \in D
  <2>1. <<>> \in Seq(Names)
    OBVIOUS
  <2>. QED
    BY <1>5, <2>1
<1>. HIDE DEF c
<1>7. IsMap(c)
  BY <1>3, <1>4, <1>6, Zenon DEF IsMap
<1>8. ChildIs(f, x, c)
  BY <1>3, <1>5, <1>7, Zenon DEF ChildIs
<1>. QED
  BY <1>8 DEF c

(* The child of a node is a node.                                          *)
LEMMA ChildIsNode ==
  ASSUME NEW f, IsMap(f), IsNode(f), NEW x \in Names, <<x>> \o <<>> \in DOMAIN f
  PROVE  IsNode(Child(f, x))
<1>1. PICK c : c = Child(f, x)
  OBVIOUS
<1>2. /\ IsMap(c)
      /\ \A p \in Seq(Names) : p \in DOMAIN c <=> <<x>> \o p \in DOMAIN f
      /\ \A p \in DOMAIN c : c[p] = f[<<x>> \o p]
  BY <1>1, ChildOfNode, Zenon DEF ChildIs
<1>3. \A p \in DOMAIN c : p \in Seq(Names) /\ <<x>> \o p \in DOMAIN f
  BY <1>2, Zenon DEF IsMap
<1>4. ASSUME NEW p \in DOMAIN c, p # <<>> PROVE Front(p) \in DOMAIN c
  <2>1. p \in Seq(Names) /\ <<x>> \o p \in DOMAIN f
    BY <1>3
  <2>2. PICK q, m, e : q = <<x>> \o p /\ m = Len(p) /\ e = Front(p)
    OBVIOUS
  <2>3. q \in Seq(Names) /\ q # <<>> /\ Len(q) = m + 1 /\ q[1] = x /\ \A i \in 1 .. m : q[i + 1] = p[i]
    BY <2>1, <2>2, PathStep
  <2>4. m \in Nat \ {0}
    BY <1>4, <2>1, <2>2
  <2>5. e \in Seq(Names) /\ Len(e) = m - 1 /\ \A i \in 1 .. m - 1 : e[i] = p[i]
    BY <2>1, <2>2, <2>4 DEF Front
  <2>6. PICK r : r = <<x>> \o e
    OBVIOUS
  <2>7. r \in Seq(Names) /\ Len(r) = m /\ r[1] = x /\ \A i \in 1 .. m - 1 : r[i + 1] = e[i]
    <3>1. /\ r \in Seq(Names) /\ Len(r) = Len(e) + 1 /\ r[1] = x
          /\ \A i \in 1 .. Len(e) : r[i + 1] = e[i]
      BY <2>5, <2>6, PathStep
    <3>. QED
      BY <2>4, <2>5, <3>1
  <2>8. PICK g : g = Front(q)
    OBVIOUS
  <2>9. g \in Seq(Names) /\ Len(g) = m /\ \A i \in 1 .. m : g[i] = q[i]
    BY <2>3, <2>4, <2>8 DEF Front
  <2>10. \A i \in 1 .. m : g[i] = r[i]
    <3>. SUFFICES ASSUME NEW i \in 1 .. m PROVE g[i] = r[i]
      OBVIOUS
    <3>1. CASE i = 1
      BY <2>3, <2>7, <2>9, <3>1
    <3>2. CASE i # 1
      <4>1. PICK j : j = i - 1
        OBVIOUS
      <4>2. j \in 1 .. m - 1 /\ j \in 1 .. m /\ i = j + 1
        BY <2>4, <3>2, <4>1
      <4>3. q[j + 1] = p[j] /\ e[j] = p[j] /\ r[j + 1] = e[j]
        BY <2>3, <2>5, <2>7, <4>2
      <4>. QED
        BY <2>9, <4>2, <4>3
    <3>. QED
      BY <3>1, <3>2
  <2>11. g = r
    BY <2>7, <2>9, <2>10, SeqEqual
  <2>12. g \in DOMAIN f
    BY <2>1, <2>2, <2>3, <2>8, Zenon DEF IsNode
  <2>. QED
    BY <1>2, <2>2, <2>5, <2>6, <2>11, <2>12, Zenon
<1>5. \A p \in DOMAIN c : OfNode(c[p])
  <2>1. \A p \in DOMAIN f : OfNode(f[p])
    BY Zenon DEF IsNode, OfNode
  <2>. QED
    BY <1>2, <1>3, <2>1, Zenon
<1>6. <<>> \in DOMAIN c
  BY <1>2, Zenon DEF IsMap
<1>. QED
  BY <1>1, <1>4, <1>5, <1>6, Zenon DEF IsNode, OfNode

-----------------------------------------------------------------------------
(* When all nodes have ended: the nodes kept are those without a later     *)
(* twin, and the ones below the root those present in the tree.            *)
AllEnded(o, n) ==
  /\ Spells(o, n) /\ text \in Seq(Tokens) /\ n <= Len(text) /\ o[n] = <<>>
  /\ \A q \in DOMAIN text : Kind(q) = "begin" => q <= n

(* When all nodes have ended, each lies in the node around the block.      *)
LEMMA EndedWithin ==
  ASSUME NEW o, NEW n, AllEnded(o, n), NEW i \in Begins
  PROVE  /\ i \in 1 .. n /\ Kind(i) = "begin" /\ Len(o[n]) = 0 /\ Inside(n) = 0 /\ n \in 0 .. n
         /\ i \in Within(o, n) /\ Start(o[i], Len(o[n])) = o[n]
         /\ Len(o[i]) \in Nat \ {0} /\ 1 \in 1 .. Len(o[i])
<1>1. /\ n \in Nat /\ Spells(o, n) /\ n \in 0 .. n /\ Len(text) \in Nat
      /\ DOMAIN text = 1 .. Len(text)
  BY DEF AllEnded, Spells
<1>2. i \in 1 .. n /\ Kind(i) = "begin"
  BY <1>1 DEF AllEnded, Begins
<1>3. Len(o[n]) = 0
  BY DEF AllEnded
<1>4. Inside(n) = 0
  BY <1>1, <1>3, ChainIs
<1>5. Len(o[i]) \in Nat \ {0} /\ 1 \in 1 .. Len(o[i])
  <2>1. Len(o[i]) \in Nat \ {0}
    BY <1>1, <1>2, BeginIs
  <2>. QED
    BY <2>1
<1>6. Start(o[i], 0) = <<>>
  <2>1. i \in 0 .. n
    BY <1>1, <1>2
  <2>2. o[i] \in Seq(Nat)
    BY <1>1, <2>1 DEF Spells, Nested
  <2>3. Start(o[i], 0) \in Seq(Nat) /\ Len(Start(o[i], 0)) = 0
    BY <1>5, <2>2, StartIs
  <2>. QED
    BY <2>3
<1>7. Start(o[i], Len(o[n])) = o[n]
  BY <1>3, <1>6 DEF AllEnded
<1>8. i \in Within(o, n)
  BY <1>2, <1>3, <1>5, <1>7 DEF Within
<1>. QED
  BY <1>1, <1>2, <1>3, <1>4, <1>5, <1>7, <1>8

(* A node is present if it is kept and its path begins with the root.      *)
LEMMA PresentIs ==
  ASSUME NEW o, NEW n, AllEnded(o, n), NEW i \in Begins
  PROVE  Present(i) <=> i \in Kept(o, n) /\ NameAt(o, i, 1) = ""
<1>1. /\ i \in 1 .. n /\ Kind(i) = "begin" /\ Len(o[n]) = 0 /\ Inside(n) = 0 /\ n \in 0 .. n
      /\ i \in Within(o, n) /\ Start(o[i], Len(o[n])) = o[n]
      /\ Len(o[i]) \in Nat \ {0} /\ 1 \in 1 .. Len(o[i])
  BY EndedWithin
<1>2. /\ Spells(o, n) /\ n \in Nat /\ Len(text) \in Nat /\ DOMAIN text = 1 .. Len(text)
      /\ n <= Len(text) /\ i \in 0 .. n
  BY <1>1 DEF AllEnded, Spells
<1>3. PICK L : L = Len(o[i])
  OBVIOUS
<1>4. Chain(i) \ {0} = {o[i][s] : s \in 1 .. L}
  <2>1. Chain(i) = {0} \cup {o[i][s] : s \in 1 .. L}
    <3>1. Chain(i) = {0} \cup {o[i][s] : s \in 1 .. Len(o[i])}
      BY <1>2, ChainIs, SMTT(30)
    <3>. QED
      BY <1>3, <3>1
  <2>2. \A s \in 1 .. L : o[i][s] \in 1 .. i
    BY <1>1, <1>2, <1>3, BeginIs
  <2>3. \A s \in 1 .. L : o[i][s] # 0
    BY <1>1, <2>2
  <2>. QED
    BY <2>1, <2>3
<1>5. Begins = {m \in 1 .. n : Kind(m) = "begin"}
  <2>1. \A m : m \in Begins <=> m \in 1 .. n /\ Kind(m) = "begin"
    BY <1>2 DEF AllEnded, Begins
  <2>. QED
    BY <2>1
<1>6. \A j \in Nat : Overwritten(j) <=> Over(j, n)
  <2>. SUFFICES ASSUME NEW j \in Nat PROVE Overwritten(j) <=> Over(j, n)
    OBVIOUS
  <2>1. \A m \in 1 .. n : m > j <=> j < m
    BY <1>2
  <2>. QED
    BY <1>5, <2>1, Zenon DEF Overwritten, Over
<1>7. \A s \in 1 .. L : o[i][s] \in Nat /\ o[i][s] # 0 /\ (ParentOf(o[i][s]) = 0 <=> s = 1)
  <2>. SUFFICES ASSUME NEW s \in 1 .. L
                PROVE  o[i][s] \in Nat /\ o[i][s] # 0 /\ (ParentOf(o[i][s]) = 0 <=> s = 1)
    OBVIOUS
  <2>1. s \in Len(o[n]) + 1 .. Len(o[i]) /\ Len(o[n]) < Len(o[i])
    BY <1>1, <1>3
  <2>2. o[i][s] \in 1 .. i /\ (ParentOf(o[i][s]) = Inside(n) <=> s = Len(o[n]) + 1)
    BY <1>1, <1>2, <2>1, DirectlyIn
  <2>. QED
    BY <1>1, <2>2
<1>8. (\A j \in Chain(i) \ {0} : ~ Overwritten(j)) <=> i \in Kept(o, n)
  <2>1. Len(o[n]) + 1 .. Len(o[i]) = 1 .. L
    BY <1>1, <1>3
  <2>2. (\A j \in Chain(i) \ {0} : ~ Overwritten(j)) <=> \A s \in 1 .. L : ~ Over(o[i][s], n)
    BY <1>4, <1>6, <1>7, Zenon
  <2>. QED
    BY <1>1, <2>1, <2>2, Zenon DEF Kept
<1>9. (\E j \in Chain(i) : j # 0 /\ ParentOf(j) = 0 /\ text[j].name = "") <=> NameAt(o, i, 1) = ""
  <2>1. \A j : j \in Chain(i) /\ j # 0 <=> \E s \in 1 .. L : j = o[i][s]
    BY <1>4
  <2>2. ASSUME NEW j \in Chain(i), j # 0, ParentOf(j) = 0, text[j].name = ""
        PROVE  NameAt(o, i, 1) = ""
    <3>1. PICK s \in 1 .. L : j = o[i][s]
      BY <2>1, <2>2
    <3>2. s = 1
      BY <1>7, <2>2, <3>1
    <3>. QED
      BY <2>2, <3>1, <3>2 DEF NameAt
  <2>3. ASSUME NameAt(o, i, 1) = ""
        PROVE  \E j \in Chain(i) : j # 0 /\ ParentOf(j) = 0 /\ text[j].name = ""
    <3>1. PICK j : j = o[i][1]
      OBVIOUS
    <3>2. 1 \in 1 .. L
      BY <1>1, <1>3
    <3>3. j \in Chain(i) /\ j # 0
      BY <2>1, <3>1, <3>2
    <3>4. ParentOf(j) = 0
      BY <1>7, <3>1, <3>2
    <3>. QED
      BY <2>3, <3>1, <3>3, <3>4 DEF NameAt
  <2>. QED
    BY <2>2, <2>3, Zenon
<1>. QED
  BY <1>8, <1>9, Zenon DEF Present

(* The tree has a root if the text has a node that is present.             *)
LEMMA RootIs ==
  ASSUME NEW o, NEW n, AllEnded(o, n), NEW d, Describes(o, d, n)
  PROVE  /\ \A i \in Kept(o, n) : i \in Begins
         /\ HasChild(d[n], "") <=> \E i \in Begins : Present(i)
         /\ HasChild(d[n], "") => <<"">> \o <<>> \in DOMAIN d[n]
<1>1. /\ Spells(o, n) /\ n \in 0 .. n /\ n \in Nat /\ Len(text) \in Nat /\ DOMAIN text = 1 .. Len(text)
      /\ n <= Len(text) /\ text \in Seq(Tokens) /\ Len(o[n]) = 0
  BY DEF AllEnded, Spells
<1>2. \A i \in Kept(o, n) : i \in Within(o, n) /\ i \in Begins
  BY <1>1 DEF Kept, Within, Begins
<1>3. \A i \in Kept(o, n) : Rel(o, i, n) # <<>> /\ Head(Rel(o, i, n)) = NameAt(o, i, 1)
  <2>1. \A i \in Kept(o, n) : Rel(o, i, n) # <<>> /\ Head(Rel(o, i, n)) = NameAt(o, i, Len(o[n]) + 1)
    BY <1>1, <1>2, RelIs
  <2>. QED
    BY <1>1, <2>1
<1>4. DOMAIN d[n] = {<<>>} \cup {Rel(o, i, n) : i \in Kept(o, n)}
  BY DEF Describes
<1>5. HasChild(d[n], "") <=> \E i \in Kept(o, n) : NameAt(o, i, 1) = ""
  <2>1. HasChild(d[n], "") <=> \E p \in DOMAIN d[n] : p # <<>> /\ Head(p) = ""
    BY Zenon DEF HasChild, Below
  <2>. QED
    BY <1>3, <1>4, <2>1, Zenon
<1>6. (\E i \in Begins : Present(i)) <=> \E i \in Kept(o, n) : NameAt(o, i, 1) = ""
  BY <1>2, PresentIs, Zenon
<1>7. ASSUME HasChild(d[n], "") PROVE <<"">> \o <<>> \in DOMAIN d[n]
  <2>1. PICK i \in Kept(o, n) : NameAt(o, i, 1) = ""
    BY <1>5, <1>7
  <2>2. Len(o[i]) \in Nat /\ 0 < Len(o[i])
    <3>1. i \in Within(o, n)
      BY <1>2
    <3>2. Len(o[i]) \in Nat /\ Len(o[n]) < Len(o[i])
      BY <1>1, <3>1, RelIs
    <3>. QED
      BY <1>1, <3>2
  <2>3. PICK s, j : s = 1 /\ j = o[i][s]
    OBVIOUS
  <2>4. s \in Len(o[n]) + 1 .. Len(o[i]) /\ s - Len(o[n]) = 1
    BY <1>1, <2>2, <2>3
  <2>5. j \in Kept(o, n) /\ IsPath(Rel(o, j, n), o, i, Len(o[n]), s - Len(o[n]))
    BY <1>1, <2>3, <2>4, KeptAround
  <2>6. PICK r : r = Rel(o, j, n)
    OBVIOUS
  <2>0. PICK x \in Names : x = ""
    BY FdtAssumption
  <2>7. r \in Seq(Names) /\ Len(r) = 1 /\ r[1] = x
    <3>1. IsPath(r, o, i, 0, 1)
      BY <1>1, <2>4, <2>5, <2>6
    <3>2. 1 \in 1 .. 1 /\ 0 + 1 = 1
      OBVIOUS
    <3>. QED
      BY <2>0, <2>1, <3>1, <3>2 DEF IsPath
  <2>8. PICK e : e = <<x>> \o <<>>
    OBVIOUS
  <2>9. e \in Seq(Names) /\ Len(e) = 1 /\ e[1] = x
    <3>2. <<>> \in Seq(Names) /\ Len(<<>>) = 0
      OBVIOUS
    <3>3. <<x>> \o <<>> \in Seq(Names) /\ Len(<<x>> \o <<>>) = Len(<<>>) + 1 /\ (<<x>> \o <<>>)[1] = x
      BY <3>2, PathStep
    <3>. QED
      BY <2>8, <3>2, <3>3
  <2>10. r = e
    <3>1. Len(r) = Len(e) /\ \A t \in 1 .. Len(r) : r[t] = e[t]
      BY <2>7, <2>9
    <3>. QED
      BY <2>7, <2>9, <3>1, SeqEqual
  <2>. QED
    BY <1>4, <2>0, <2>5, <2>6, <2>8, <2>10, Zenon
<1>. QED
  BY <1>2, <1>5, <1>6, <1>7, Zenon

-----------------------------------------------------------------------------
(* The parser's state, as a run over the text.                             *)
Built(o, a, d, n) ==
  /\ IsRun(text, o, a, d, n) /\ PropsBefore(n)
  /\ parents = a[n] /\ current = d[n]
  /\ \/ outcome = "parse" /\ n = Len(text) /\ root = NewNode
     \/ EndsWith(text, parents, current, n, outcome, root)

(* RunInv names such a run, and after it comes no property.                *)
LEMMA InvIsBuilt ==
  ASSUME RunInv
  PROVE  \E o, a, d, n : Built(o, a, d, n)
<1>1. PICK n : /\ Leaves(text, n, parents, current)
               /\ \/ outcome = "parse" /\ n = Len(text) /\ root = NewNode
                  \/ EndsWith(text, parents, current, n, outcome, root)
  BY DEF RunInv
<1>2. PICK o, a, d : IsRun(text, o, a, d, n) /\ parents = a[n] /\ current = d[n]
  BY <1>1 DEF Leaves
<1>3. DOMAIN text = 1 .. Len(text) /\ Len(text) \in Nat /\ n \in Nat
  BY <1>2 DEF IsRun
<1>4. PropsBefore(n)
  <2>1. CASE n = Len(text)
    BY <1>3, <2>1 DEF PropsBefore
  <2>2. CASE EndsWith(text, parents, current, n, outcome, root)
    <3>1. n + 1 = Len(text) /\ text[n + 1].kind # "prop"
      BY <2>2 DEF EndsWith
    <3>. QED
      BY <1>3, <3>1 DEF PropsBefore, Kind
  <2>. QED
    BY <1>1, <2>1, <2>2
<1>. QED
  BY <1>1, <1>2, <1>4, Zenon DEF Built

(* What is known of such a run: it spells its stacks, describes its nodes, *)
(* and has as many parents as open nodes.                                  *)
LEMMA BuiltIs ==
  ASSUME NEW o, NEW a, NEW d, NEW n, Built(o, a, d, n)
  PROVE  /\ n \in Nat /\ Len(text) \in Nat /\ n <= Len(text) /\ DOMAIN text = 1 .. Len(text)
         /\ text \in Seq(Tokens) /\ Spells(o, n)
         /\ \A k \in 0 .. n : Describes(o, d, k)
         /\ o[n] \in Seq(Nat) /\ Ahead(1, n) = Len(o[n]) /\ Len(parents) = Len(o[n])
         /\ parents = <<>> <=> o[n] = <<>>
<1>1. /\ n \in Nat /\ Len(text) \in Nat /\ n <= Len(text) /\ DOMAIN text = 1 .. Len(text)
      /\ text \in Seq(Tokens)
  BY DEF Built, IsRun
<1>2. Spells(o, n)
  BY RunSpells DEF Built
<1>3. \A k \in 0 .. n : Describes(o, d, k)
  BY RunDescribes DEF Built
<1>4. n \in 0 .. n
  BY <1>1
<1>5. Nested(o, n) /\ Counted(o, n) /\ Paired(o, a, d, n)
  BY <1>2, <1>4, Stacks DEF Spells, Built
<1>6. o[n] \in Seq(Nat) /\ Ahead(1, n) = Len(o[n])
  BY <1>5 DEF Nested, Counted
<1>7. (a[n] = <<>> <=> o[n] = <<>>) /\ Len(a[n]) = Len(o[n])
  BY <1>5, <1>6, PairsAre
<1>. QED
  BY <1>1, <1>2, <1>3, <1>6, <1>7 DEF Built

(* As many nodes begin before token k as Count says.                       *)
LEMMA CountIs ==
  ASSUME NEW kind, DOMAIN text = 1 .. Len(text)
  PROVE  Count(kind) = NumberOf(kind, 1, Len(text))
BY DEF Count, NumberOf, Kind

(* The nodes of a run are nodes, and so is the root that is returned.      *)
LEMMA RootIsNode ==
  ASSUME NEW o, NEW a, NEW d, NEW n, Built(o, a, d, n)
  PROVE  /\ \A k \in 0 .. n : IsMap(d[k]) /\ IsNode(d[k])
         /\ IsNode(root)
<1>1. /\ n \in Nat /\ Len(text) \in Nat /\ n <= Len(text) /\ DOMAIN text = 1 .. Len(text)
      /\ text \in Seq(Tokens) /\ Spells(o, n)
      /\ \A k \in 0 .. n : Describes(o, d, k)
      /\ parents = <<>> <=> o[n] = <<>>
  BY BuiltIs
<1>2. \A k \in 0 .. n : IsMap(d[k])
  BY <1>1, Zenon DEF Describes
<1>3. \A k \in 0 .. n : IsNode(d[k])
  BY <1>1, DescribedIsNode
<1>4. 0 \in 0 .. n /\ n \in 0 .. n
  BY <1>1
<1>5. CASE root = NewNode
  <2>1. d[0] = NewNode
    BY DEF Built, IsRun
  <2>. QED
    BY <1>2, <1>3, <1>4, <1>5, <2>1
<1>6. CASE outcome = "ok" /\ EndsWith(text, parents, current, n, outcome, root)
  <2>1. /\ n + 1 = Len(text) /\ text[n + 1].kind = "finish" /\ parents = <<>>
        /\ HasChild(d[n], "") /\ root = Child(d[n], "")
    BY <1>6 DEF EndsWith, Built
  <2>2. AllEnded(o, n)
    <3>1. o[n] = <<>>
      BY <1>1, <2>1
    <3>2. ASSUME NEW q \in DOMAIN text, Kind(q) = "begin" PROVE q <= n
      <4>1. q # n + 1
        BY <2>1, <3>2 DEF Kind
      <4>2. q \in 1 .. n + 1
        BY <1>1, <2>1, Zenon
      <4>. QED
        BY <1>1, <4>1, <4>2
    <3>. QED
      BY <1>1, <3>1, <3>2 DEF AllEnded
  <2>3. <<"">> \o <<>> \in DOMAIN d[n]
    BY <1>1, <1>4, <2>1, <2>2, RootIs
  <2>4. "" \in Names
    BY FdtAssumption
  <2>5. IsMap(d[n]) /\ IsNode(d[n])
    BY <1>2, <1>3, <1>4
  <2>6. IsNode(Child(d[n], ""))
    BY <2>3, <2>4, <2>5, ChildIsNode
  <2>7. root = Child(d[n], "")
    BY <2>1, Zenon
  <2>8. IsNode(root)
    BY <2>6, <2>7, Zenon
  <2>. QED
    BY <1>2, <1>3, <2>8, Zenon
<1>7. root = NewNode \/ (outcome = "ok" /\ EndsWith(text, parents, current, n, outcome, root))
  BY DEF Built, EndsWith
<1>. QED
  BY <1>2, <1>3, <1>5, <1>6, <1>7

(* The state of the parser is of its type.                                 *)
LEMMA BuiltTyped ==
  ASSUME NEW o, NEW a, NEW d, NEW n, Built(o, a, d, n)
  PROVE  TreeTypeOK
<1>1. /\ n \in Nat /\ Len(text) \in Nat /\ n <= Len(text) /\ DOMAIN text = 1 .. Len(text)
      /\ text \in Seq(Tokens) /\ Spells(o, n)
      /\ o[n] \in Seq(Nat) /\ Ahead(1, n) = Len(o[n]) /\ Len(parents) = Len(o[n])
  BY BuiltIs
<1>2. /\ \A k \in 0 .. n : IsNode(d[k])
      /\ IsNode(root)
  BY RootIsNode
<1>3. outcome \in {"parse", "ok", "error", "panicked"}
  BY DEF Built, EndsWith
<1>4. ASSUME outcome = "parse" PROVE Len(parents) = Count("begin") - Count("end")
  <2>1. n = Len(text)
    BY <1>4 DEF Built, EndsWith
  <2>. QED
    BY <1>1, <2>1, CountIs DEF Ahead
<1>5. n \in 0 .. n /\ IsNode(current)
  <2>1. n \in 0 .. n
    BY <1>1
  <2>. QED
    BY <1>2, <2>1, Zenon DEF Built
<1>6. ASSUME NEW i \in DOMAIN parents PROVE parents[i][1] \in Names /\ IsNode(parents[i][2])
  <2>1. Paired(o, a, d, n) /\ Nested(o, n)
    BY <1>5, Stacks DEF Built
  <2>2. parents = [s \in 1 .. Len(o[n]) |-> <<text[o[n][s]].name, d[o[n][s] - 1]>>]
    BY <2>1, Zenon DEF Paired, Built
  <2>3. i \in 1 .. Len(o[n])
    BY <1>6, <2>2
  <2>4. PICK j : j = o[n][i]
    OBVIOUS
  <2>5. parents[i] = <<text[j].name, d[j - 1]>>
    BY <2>2, <2>3, <2>4
  <2>6. j \in 1 .. n /\ Kind(j) = "begin"
    BY <2>1, <2>3, <2>4 DEF Nested
  <2>7. text[j].name \in Names
    <3>1. j \in 1 .. Len(text)
      BY <1>1, <2>6
    <3>2. text[j] \in Tokens /\ text[j].kind = "begin"
      BY <1>1, <2>6, <3>1 DEF Kind
    <3>3. \A t \in Tokens : t.kind = "begin" => t.name \in Names
      BY DEF Tokens
    <3>. QED
      BY <3>2, <3>3
  <2>8. IsNode(d[j - 1])
    <3>1. j - 1 \in 0 .. n
      BY <1>1, <2>6
    <3>. QED
      BY <1>2, <3>1
  <2>. QED
    BY <2>5, <2>7, <2>8
<1>. QED
  BY <1>2, <1>3, <1>4, <1>5, <1>6, Zenon DEF TreeTypeOK

(* A tree is returned exactly for the texts that are whole.                *)
LEMMA BuiltAccepts ==
  ASSUME NEW o, NEW a, NEW d, NEW n, Built(o, a, d, n)
  PROVE  AcceptsExactly
<1>1. /\ n \in Nat /\ Len(text) \in Nat /\ n <= Len(text) /\ DOMAIN text = 1 .. Len(text)
      /\ text \in Seq(Tokens) /\ Spells(o, n)
      /\ \A k \in 0 .. n : Describes(o, d, k)
      /\ o[n] \in Seq(Nat) /\ Ahead(1, n) = Len(o[n]) /\ Len(parents) = Len(o[n])
      /\ parents = <<>> <=> o[n] = <<>>
  BY BuiltIs
<1>. DEFINE whole == Kind(Len(text)) = "finish" /\ Balanced /\ \E i \in Begins : Present(i)
<1>2. SUFFICES ASSUME EndsWith(text, parents, current, n, outcome, root)
               PROVE  AcceptsExactly
  <2>1. outcome = "parse" => AcceptsExactly
    BY DEF AcceptsExactly
  <2>. QED
    BY <2>1 DEF Built
<1>3. /\ n + 1 = Len(text) /\ Len(text) - 1 = n /\ n \in 0 .. n
      /\ Kind(Len(text)) = text[n + 1].kind
  <2>1. n + 1 = Len(text)
    BY <1>2, Zenon DEF EndsWith
  <2>2. Len(text) - 1 = n /\ n \in 0 .. n
    <3>1. n \in Nat
      BY <1>1, Zenon
    <3>. QED
      BY <2>1, <3>1
  <2>. QED
    BY <2>1, <2>2, Zenon DEF Kind
<1>4. ASSUME Kind(Len(text)) = "finish", parents = <<>> PROVE AllEnded(o, n)
  <2>1. \A q \in DOMAIN text : Kind(q) = "begin" => q <= n
    BY <1>1, <1>3, <1>4
  <2>. QED
    BY <1>1, <1>4, <2>1 DEF AllEnded
<1>5. ASSUME Kind(Len(text)) = "finish", parents = <<>>
      PROVE  HasChild(current, "") <=> \E i \in Begins : Present(i)
  <2>1. AllEnded(o, n) /\ Describes(o, d, n)
    BY <1>1, <1>3, <1>4, <1>5
  <2>. QED
    BY <2>1, RootIs DEF Built
<1>6. Balanced <=> parents = <<>>
  <2>1. Balanced <=> /\ \A k \in 1 .. n : NumberOf("begin", 1, k) >= NumberOf("end", 1, k)
                     /\ NumberOf("begin", 1, n) = NumberOf("end", 1, n)
    BY <1>3 DEF Balanced
  <2>2. \A k \in 0 .. n : NumberOf("begin", 1, k) \in Nat /\ NumberOf("end", 1, k) \in Nat
    BY <1>1, NumberNext
  <2>3. ASSUME NEW k \in 1 .. n PROVE NumberOf("begin", 1, k) >= NumberOf("end", 1, k)
    <3>1. k \in 0 .. n
      BY <1>1
    <3>2. Ahead(1, k) = Len(o[k]) /\ Len(o[k]) \in Nat
      BY <1>1, <3>1, ChainIs DEF Spells, Counted
    <3>. QED
      BY <2>2, <3>1, <3>2 DEF Ahead
  <2>4. NumberOf("begin", 1, n) = NumberOf("end", 1, n) <=> Len(o[n]) = 0
    BY <1>1, <1>3, <2>2 DEF Ahead
  <2>5. Len(o[n]) = 0 <=> o[n] = <<>>
    BY <1>1
  <2>. QED
    BY <1>1, <2>1, <2>3, <2>4, <2>5
<1>7. ASSUME outcome = "ok" PROVE whole
  <2>1. Kind(Len(text)) = "finish" /\ parents = <<>> /\ HasChild(current, "")
    BY <1>2, <1>3, <1>7 DEF EndsWith
  <2>. QED
    BY <1>5, <1>6, <2>1
<1>8. ASSUME outcome = "error" PROVE ~ whole
  <2>1. \/ Kind(Len(text)) \in {"bad", "end"}
        \/ Kind(Len(text)) = "finish" /\ ~ (parents = <<>> /\ HasChild(current, ""))
    BY <1>2, <1>3, <1>8 DEF EndsWith
  <2>. QED
    BY <1>5, <1>6, <2>1
<1>. QED
  BY <1>7, <1>8 DEF AcceptsExactly

(* The parser returns a tree for a text whose nodes all end and that has a *)
(* root, and an error for every other text that causes no panic.           *)
THEOREM AcceptsExactlyTheWhole == TreeSpec => []AcceptsExactly
<1>1. RunInv => AcceptsExactly
  BY InvIsBuilt, BuiltAccepts
<1>. QED
  BY <1>1, TreeInvariant, PTL

-----------------------------------------------------------------------------
(* Paths of the tree as the text has them.                                 *)
LEMMA ChainCounts ==
  ASSUME NEW o, NEW n, Spells(o, n), NEW k \in 0 .. n
  PROVE  Cardinality(Chain(k)) = Len(o[k]) + 1
<1>1. PICK q : q = o[k]
  OBVIOUS
<1>2. /\ q \in Seq(Nat)
      /\ \A s \in 1 .. Len(q) : q[s] \in 1 .. k
      /\ \A r, s \in 1 .. Len(q) : r < s => q[r] < q[s]
  BY <1>1 DEF Spells, Nested
<1>3. k \in Nat
  BY DEF Spells
<1>4. Chain(k) = {0} \cup {q[s] : s \in 1 .. Len(q)}
  BY <1>1, ChainIs
<1>5. IsInjective(q)
  <2>1. ASSUME NEW r \in 1 .. Len(q), NEW s \in 1 .. Len(q), q[r] = q[s] PROVE r = s
    <3>1. q[r] \in Nat /\ q[s] \in Nat
      BY <1>2, <1>3
    <3>2. ~ (q[r] < q[s]) /\ ~ (q[s] < q[r])
      BY <2>1, <3>1
    <3>3. ~ (r < s) /\ ~ (s < r)
      BY <1>2, <3>2
    <3>. QED
      BY <3>3
  <2>. QED
    BY <1>2, <2>1 DEF IsInjective
<1>6. IsFiniteSet(ToSet(q)) /\ Cardinality(ToSet(q)) = Len(q)
  BY <1>2, <1>5, LengthIsCardinality
<1>7. Chain(k) = ToSet(q) \cup {0}
  BY <1>2, <1>4 DEF ToSet
<1>8. 0 \notin ToSet(q)
  BY <1>2, <1>3 DEF ToSet
<1>9. Cardinality(ToSet(q) \cup {0}) = Cardinality(ToSet(q)) + 1
  BY <1>6, <1>8, FS_AddElement
<1>. QED
  BY <1>1, <1>6, <1>7, <1>9

(* The path of a node in the text is the path to it from the root.         *)
LEMMA PathIs ==
  ASSUME NEW o, NEW n, AllEnded(o, n), NEW i \in Begins
  PROVE  PathOf(i) = Tail(Rel(o, i, n))
<1>1. /\ i \in 1 .. n /\ Kind(i) = "begin" /\ Len(o[n]) = 0 /\ Len(o[i]) \in Nat \ {0}
  BY EndedWithin
<1>2. Spells(o, n) /\ i \in 0 .. n /\ n \in Nat
  BY <1>1 DEF AllEnded, Spells
<1>3. PICK L : L = Len(o[i])
  OBVIOUS
<1>4. L \in Nat /\ Cardinality(Chain(i)) - 1 = L
  BY <1>1, <1>2, <1>3, ChainCounts
<1>5. Chain(i) = {0} \cup {o[i][s] : s \in 1 .. L}
  BY <1>2, <1>3, ChainIs, SMTT(30)
<1>6. ASSUME NEW s \in 1 .. L
      PROVE  /\ o[i][s] \in Chain(i) \ {0}
             /\ Cardinality(Chain(o[i][s])) = s + 1
  <2>1. s \in 1 .. Len(o[i])
    BY <1>3
  <2>2. PICK j : j = o[i][s]
    OBVIOUS
  <2>3. j \in 1 .. i /\ j \in 1 .. n /\ Len(o[j]) = s
    BY <1>2, <2>1, <2>2, OpenNode
  <2>4. Cardinality(Chain(j)) = Len(o[j]) + 1
    BY <1>2, <2>3, ChainCounts
  <2>. QED
    BY <1>1, <1>5, <2>2, <2>3, <2>4
<1>7. ASSUME NEW m \in 1 .. L
      PROVE  (CHOOSE j \in Chain(i) \ {0} : Cardinality(Chain(j)) = m + 1) = o[i][m]
  <2>1. \A j \in Chain(i) \ {0} : Cardinality(Chain(j)) = m + 1 => j = o[i][m]
    <3>1. ASSUME NEW j \in Chain(i) \ {0}, Cardinality(Chain(j)) = m + 1 PROVE j = o[i][m]
      <4>1. PICK s \in 1 .. L : j = o[i][s]
        BY <1>5
      <4>2. s + 1 = m + 1
        BY <1>6, <3>1, <4>1
      <4>3. s = m
        BY <1>4, <4>2
      <4>. QED
        BY <4>1, <4>3
    <3>. QED
      BY <3>1
  <2>2. o[i][m] \in Chain(i) \ {0} /\ Cardinality(Chain(o[i][m])) = m + 1
    BY <1>6
  <2>. QED
    BY <2>1, <2>2, Zenon
<1>. DEFINE At(m) == text[CHOOSE j \in Chain(i) \ {0} : Cardinality(Chain(j)) = m + 1].name
<1>8. [m \in 1 .. L |-> At(m)] = [m \in 1 .. L |-> text[o[i][m]].name]
  <2>1. ASSUME NEW m \in 1 .. L PROVE At(m) = text[o[i][m]].name
    BY <1>7
  <2>. HIDE DEF At
  <2>. QED
    BY <2>1, Zenon
<1>9. Rel(o, i, n) = [m \in 1 .. L |-> text[o[i][m]].name]
  <2>1. L - Len(o[n]) = L /\ \A m \in 1 .. L : Len(o[n]) + m = m
    BY <1>1, <1>4
  <2>. QED
    BY <1>3, <2>1, Zenon DEF Rel, NameAt
<1>. QED
  BY <1>4, <1>8, <1>9, Zenon DEF PathOf

(* Following a path of a map leads to one node, the one that is there.     *)
Up(p, i) == SubSeq(p, 1, i)
RestOf(f, p, i) == {r \in Seq(Names) : Up(p, i) \o r \in DOMAIN f}
Rest(f, p, i) == [r \in RestOf(f, p, i) |-> f[Up(p, i) \o r]]

(* The first i names of a path.                                            *)
LEMMA UpIs ==
  ASSUME NEW p \in Seq(Names), NEW i \in 0 .. Len(p)
  PROVE  /\ Up(p, i) \in Seq(Names) /\ Len(Up(p, i)) = i
         /\ \A j \in 1 .. i : Up(p, i)[j] = p[j]
BY DEF Up

(* One name further along the path.                                        *)
LEMMA UpNext ==
  ASSUME NEW p \in Seq(Names), NEW i \in 1 .. Len(p), NEW r \in Seq(Names)
  PROVE  Up(p, i - 1) \o (<<p[i]>> \o r) = Up(p, i) \o r
<1>1. PICK h : h = i - 1
  OBVIOUS
<1>2. PICK u, v, c : u = Up(p, h) /\ v = Up(p, i) /\ c = p[i]
  OBVIOUS
<1>3. h \in 0 .. Len(p) /\ i = h + 1 /\ i \in 0 .. Len(p) /\ h \in Nat /\ c \in Names
  BY <1>1, <1>2
<1>4. /\ u \in Seq(Names) /\ Len(u) = h /\ v \in Seq(Names) /\ Len(v) = h + 1
      /\ \A j \in 1 .. h : u[j] = p[j]
      /\ \A j \in 1 .. h + 1 : v[j] = p[j]
  BY <1>2, <1>3, UpIs
<1>5. PICK x : x = u \o <<c>>
  OBVIOUS
<1>6. /\ x \in Seq(Names) /\ Len(x) = h + 1 /\ x[h + 1] = c
      /\ \A j \in 1 .. h : x[j] = u[j]
  BY <1>3, <1>4, <1>5
<1>7. \A j \in 1 .. h + 1 : x[j] = v[j]
  <2>. SUFFICES ASSUME NEW j \in 1 .. h + 1 PROVE x[j] = v[j]
    OBVIOUS
  <2>1. CASE j = h + 1
    BY <1>2, <1>3, <1>4, <1>6, <2>1
  <2>2. CASE j \in 1 .. h
    BY <1>4, <1>6, <2>2
  <2>. QED
    BY <1>3, <2>1, <2>2
<1>8. x = v
  BY <1>4, <1>6, <1>7, SeqEqual
<1>9. <<c>> \in Seq(Names)
  BY <1>3
<1>10. (u \o <<c>>) \o r = u \o (<<c>> \o r)
  <2>1. PICK w : w = <<c>>
    OBVIOUS
  <2>2. (u \o w) \o r = u \o (w \o r)
    <3>1. u \in Seq(Names) /\ w \in Seq(Names) /\ r \in Seq(Names)
      BY <1>4, <1>9, <2>1
    <3>. QED
      BY <3>1, ConcatAssociative, SMTT(30)
  <2>. QED
    BY <2>1, <2>2
<1>. QED
  BY <1>1, <1>2, <1>5, <1>8, <1>10

(* The part of a path that is still ahead.                                 *)
LEMMA UpAll ==
  ASSUME NEW p \in Seq(Names), NEW i \in 1 .. Len(p)
  PROVE  \E r \in Seq(Names) : Up(p, i) \o r = p
<1>1. PICK L : L = Len(p)
  OBVIOUS
<1>2. PICK r : r = SubSeq(p, i + 1, L)
  OBVIOUS
<1>3. L \in Nat /\ i \in 1 .. L /\ i \in 0 .. Len(p)
  BY <1>1
<1>4. r \in Seq(Names) /\ Len(r) = L - i /\ \A j \in 1 .. L - i : r[j] = p[i + j]
  BY <1>1, <1>2, <1>3, SMTT(30)
<1>5. PICK u : u = Up(p, i)
  OBVIOUS
<1>6. u \in Seq(Names) /\ Len(u) = i /\ \A j \in 1 .. i : u[j] = p[j]
  BY <1>3, <1>5, UpIs
<1>7. PICK x : x = u \o r
  OBVIOUS
<1>8. /\ x \in Seq(Names) /\ Len(x) = L
      /\ \A j \in 1 .. i : x[j] = u[j]
      /\ \A j \in 1 .. L - i : x[i + j] = r[j]
  <2>1. /\ x \in Seq(Names) /\ Len(x) = Len(u) + Len(r)
        /\ \A j \in 1 .. Len(u) + Len(r) : x[j] = IF j <= Len(u) THEN u[j] ELSE r[j - Len(u)]
    BY <1>4, <1>6, <1>7, ConcatProperties
  <2>2. Len(u) + Len(r) = L
    BY <1>3, <1>4, <1>6
  <2>3. \A j \in 1 .. L : x[j] = IF j <= i THEN u[j] ELSE r[j - i]
    BY <1>6, <2>1, <2>2
  <2>4. \A j \in 1 .. i : x[j] = u[j]
    BY <1>3, <2>3
  <2>5. ASSUME NEW j \in 1 .. L - i PROVE x[i + j] = r[j]
    <3>1. PICK e : e = i + j
      OBVIOUS
    <3>2. e \in 1 .. L /\ ~ (e <= i) /\ e - i = j
      BY <1>3, <3>1
    <3>3. x[e] = r[e - i]
      BY <2>3, <3>2
    <3>. QED
      BY <3>1, <3>2, <3>3
  <2>. QED
    BY <2>1, <2>2, <2>4, <2>5
<1>9. \A j \in 1 .. L : x[j] = p[j]
  <2>. SUFFICES ASSUME NEW j \in 1 .. L PROVE x[j] = p[j]
    OBVIOUS
  <2>1. CASE j \in 1 .. i
    BY <1>6, <1>8, <2>1
  <2>2. CASE j \notin 1 .. i
    <3>1. PICK e : e = j - i
      OBVIOUS
    <3>2. e \in 1 .. L - i /\ j = i + e
      BY <1>3, <2>2, <3>1
    <3>. QED
      BY <1>4, <1>8, <3>2
  <2>. QED
    BY <2>1, <2>2
<1>10. x = p
  BY <1>1, <1>3, <1>8, <1>9, SeqEqual
<1>. QED
  BY <1>4, <1>5, <1>7, <1>10

(* A step along a path, and the end of it.                                 *)
LEMMA RestChild ==
  ASSUME NEW f, IsMap(f), NEW p \in DOMAIN f, NEW i \in 1 .. Len(p)
  PROVE  HasChild(Rest(f, p, i - 1), p[i]) /\ Child(Rest(f, p, i - 1), p[i]) = Rest(f, p, i)
<1>1. p \in Seq(Names) /\ p[i] \in Names
  BY DEF IsMap
<1>2. PICK g, x, h : g = Rest(f, p, i - 1) /\ x = p[i] /\ h = Rest(f, p, i)
  OBVIOUS
<1>3. x \in Names
  BY <1>1, <1>2
<1>4. /\ DOMAIN g = RestOf(f, p, i - 1)
      /\ \A r \in RestOf(f, p, i - 1) : g[r] = f[Up(p, i - 1) \o r]
  BY <1>2 DEF Rest
<1>5. \A r \in Seq(Names) : Up(p, i - 1) \o (<<x>> \o r) = Up(p, i) \o r
  BY <1>1, <1>2, UpNext
<1>6. ASSUME NEW r \in Seq(Names)
      PROVE  /\ <<x>> \o r \in Seq(Names) /\ <<x>> \o r # <<>>
             /\ Head(<<x>> \o r) = x /\ Tail(<<x>> \o r) = r
  BY <1>3, PathStep
<1>7. \A r \in Seq(Names) : <<x>> \o r \in DOMAIN g <=> r \in RestOf(f, p, i)
  BY <1>4, <1>5, <1>6, Zenon DEF RestOf
<1>8. Below(g, x) = {<<x>> \o r : r \in RestOf(f, p, i)}
  <2>1. ASSUME NEW q \in Below(g, x) PROVE \E r \in RestOf(f, p, i) : q = <<x>> \o r
    <3>1. q \in Seq(Names) /\ q \in DOMAIN g /\ q # <<>> /\ Head(q) = x
      BY <1>4, Zenon DEF Below, RestOf
    <3>2. Tail(q) \in Seq(Names) /\ <<Head(q)>> \o Tail(q) = q
      BY <3>1, PathSplit
    <3>. QED
      BY <1>7, <3>1, <3>2, Zenon
  <2>2. ASSUME NEW r \in RestOf(f, p, i) PROVE <<x>> \o r \in Below(g, x)
    <3>1. r \in Seq(Names)
      BY Zenon DEF RestOf
    <3>. QED
      BY <1>6, <1>7, <3>1, Zenon DEF Below
  <2>. QED
    BY <2>1, <2>2, Zenon
<1>9. HasChild(g, x)
  <2>1. PICK r \in Seq(Names) : Up(p, i) \o r = p
    BY <1>1, UpAll
  <2>2. r \in RestOf(f, p, i)
    BY <2>1, Zenon DEF RestOf
  <2>3. <<x>> \o r \in Below(g, x)
    BY <1>8, <2>2, Zenon
  <2>. QED
    BY <2>3, Zenon DEF HasChild
<1>10. {Tail(q) : q \in Below(g, x)} = RestOf(f, p, i)
  <2>1. \A r \in RestOf(f, p, i) : Tail(<<x>> \o r) = r
    BY <1>6, Zenon DEF RestOf
  <2>2. ASSUME NEW q \in Below(g, x) PROVE Tail(q) \in RestOf(f, p, i)
    BY <1>8, <2>1, Zenon
  <2>3. ASSUME NEW r \in RestOf(f, p, i) PROVE \E q \in Below(g, x) : r = Tail(q)
    <3>1. <<x>> \o r \in Below(g, x)
      BY <1>8, Zenon
    <3>. QED
      BY <2>1, <3>1, Zenon
  <2>. QED
    BY <2>2, <2>3, Zenon
<1>11. \A r \in RestOf(f, p, i) : g[<<x>> \o r] = f[Up(p, i) \o r]
  <2>1. ASSUME NEW r \in RestOf(f, p, i) PROVE g[<<x>> \o r] = f[Up(p, i) \o r]
    <3>1. r \in Seq(Names)
      BY Zenon DEF RestOf
    <3>2. <<x>> \o r \in RestOf(f, p, i - 1)
      BY <1>4, <1>7, <3>1, Zenon
    <3>3. g[<<x>> \o r] = f[Up(p, i - 1) \o (<<x>> \o r)]
      BY <1>4, <3>2, Zenon
    <3>. QED
      BY <1>5, <3>1, <3>3, Zenon
  <2>. QED
    BY <2>1
<1>12. Child(g, x) = h
  <2>1. Child(g, x) = [r \in RestOf(f, p, i) |-> g[<<x>> \o r]]
    BY <1>10, Zenon DEF Child
  <2>2. h = [r \in RestOf(f, p, i) |-> f[Up(p, i) \o r]]
    BY <1>2, Zenon DEF Rest
  <2>. QED
    BY <1>11, <2>1, <2>2, Zenon
<1>. QED
  BY <1>2, <1>9, <1>12

(* Before the first step the whole map is ahead.                           *)
LEMMA RestStart ==
  ASSUME NEW f, IsMap(f), NEW p \in DOMAIN f
  PROVE  Rest(f, p, 0) = f
<1>1. p \in Seq(Names) /\ 0 \in 0 .. Len(p)
  BY DEF IsMap
<1>2. Up(p, 0) = <<>>
  <2>1. PICK u : u = Up(p, 0)
    OBVIOUS
  <2>2. u \in Seq(Names) /\ Len(u) = 0
    BY <1>1, <2>1, UpIs
  <2>. QED
    BY <2>1, <2>2
<1>3. \A r \in Seq(Names) : Up(p, 0) \o r = r
  BY <1>2, ConcatEmptySeq
<1>4. PICK D : D = RestOf(f, p, 0)
  OBVIOUS
<1>5. D = DOMAIN f
  <2>1. \A r : r \in D <=> r \in DOMAIN f
    BY <1>3, <1>4, Zenon DEF RestOf, IsMap
  <2>. QED
    BY <2>1
<1>6. \A r \in D : f[Up(p, 0) \o r] = f[r]
  <2>1. \A r \in D : r \in Seq(Names)
    BY <1>4, Zenon DEF RestOf
  <2>. QED
    BY <1>3, <2>1, Zenon
<1>7. Rest(f, p, 0) = [r \in D |-> f[r]]
  BY <1>4, <1>6, Zenon DEF Rest
<1>. QED
  BY <1>5, <1>7, Zenon DEF IsMap

(* After the last step the node is reached.                                *)
LEMMA RestEnd ==
  ASSUME NEW f, IsMap(f), NEW p \in DOMAIN f
  PROVE  Rest(f, p, Len(p))[<<>>] = f[p]
<1>1. p \in Seq(Names) /\ Len(p) \in 0 .. Len(p)
  BY DEF IsMap
<1>2. Up(p, Len(p)) = p
  <2>1. PICK u : u = Up(p, Len(p))
    OBVIOUS
  <2>2. u \in Seq(Names) /\ Len(u) = Len(p) /\ \A j \in 1 .. Len(u) : u[j] = p[j]
    BY <1>1, <2>1, UpIs
  <2>3. u = p
    BY <1>1, <2>2, SeqEqual
  <2>. QED
    BY <2>1, <2>3
<1>3. Up(p, Len(p)) \o <<>> = p /\ <<>> \in Seq(Names)
  BY <1>1, <1>2, ConcatEmptySeq
<1>4. <<>> \in RestOf(f, p, Len(p))
  BY <1>3 DEF RestOf
<1>. QED
  BY <1>3, <1>4 DEF Rest

LeadsTo(f, p, r) == \E g : Follow(f, p) = {g} /\ g[<<>>] = r

(* Following a path of a tree step by step, each step a child, leads to    *)
(* one node, with what the tree has at that path.                          *)
LEMMA FollowLeads ==
  ASSUME NEW f, IsMap(f), NEW p \in DOMAIN f
  PROVE  LeadsTo(f, p, f[p])
<1>1. p \in Seq(Names) /\ Len(p) \in Nat
  BY DEF IsMap
<1>2. PICK n : n = Len(p)
  OBVIOUS
<1>. DEFINE Goes(e) == e = [i \in 0 .. n |-> IF i = 0 THEN {f}
                              ELSE {Child(m, p[i]) : m \in {m \in e[i - 1] : HasChild(m, p[i])}}]
            found == CHOOSE e : Goes(e)
            way == [i \in 0 .. n |-> {Rest(f, p, i)}]
<1>3. ASSUME NEW i \in 1 .. n, NEW S, S = {Rest(f, p, i - 1)}
      PROVE  {Child(m, p[i]) : m \in {m \in S : HasChild(m, p[i])}} = {Rest(f, p, i)}
  <2>1. i \in 1 .. Len(p)
    BY <1>2
  <2>2. HasChild(Rest(f, p, i - 1), p[i]) /\ Child(Rest(f, p, i - 1), p[i]) = Rest(f, p, i)
    BY <2>1, RestChild
  <2>3. {m \in S : HasChild(m, p[i])} = {Rest(f, p, i - 1)}
    BY <1>3, <2>2, Zenon
  <2>4. PICK g, x, h : g = Rest(f, p, i - 1) /\ x = p[i] /\ h = Rest(f, p, i)
    OBVIOUS
  <2>5. {m \in S : HasChild(m, x)} = {g} /\ Child(g, x) = h
    BY <2>2, <2>3, <2>4
  <2>6. {Child(m, x) : m \in {m \in S : HasChild(m, x)}} = {h}
    BY <2>5
  <2>. QED
    BY <2>4, <2>6
<1>4. {Rest(f, p, 0)} = {f}
  BY RestStart
<1>5. Goes(way)
  <2>1. ASSUME NEW i \in 0 .. n
        PROVE  way[i] = IF i = 0 THEN {f}
                        ELSE {Child(m, p[i]) : m \in {m \in way[i - 1] : HasChild(m, p[i])}}
    <3>1. way[i] = {Rest(f, p, i)}
      OBVIOUS
    <3>2. CASE i = 0
      BY <1>4, <3>1, <3>2
    <3>3. CASE i # 0
      <4>1. i \in 1 .. n /\ i - 1 \in 0 .. n
        BY <1>1, <1>2, <3>3
      <4>2. way[i - 1] = {Rest(f, p, i - 1)}
        BY <4>1
      <4>. HIDE DEF way
      <4>3. {Child(m, p[i]) : m \in {m \in way[i - 1] : HasChild(m, p[i])}} = {Rest(f, p, i)}
        BY <1>3, <4>1, <4>2
      <4>. QED
        BY <3>1, <3>3, <4>3, Zenon
    <3>. QED
      BY <3>2, <3>3
  <2>2. way = [i \in 0 .. n |-> way[i]]
    OBVIOUS
  <2>. HIDE DEF way
  <2>. QED
    BY <2>1, <2>2, Zenon
<1>6. Goes(found)
  <2>. HIDE DEF way, Goes
  <2>. QED
    BY <1>5
<1>7. Follow(f, p) = found[n]
  BY <1>2 DEF Follow
<1>. HIDE DEF found
<1>8. \A i \in 0 .. n : found[i] = IF i = 0 THEN {f}
                        ELSE {Child(m, p[i]) : m \in {m \in found[i - 1] : HasChild(m, p[i])}}
  BY <1>6
<1>. DEFINE Bad == {i \in 0 .. n : found[i] # {Rest(f, p, i)}}
<1>9. Bad = {}
  <2>. SUFFICES ASSUME Bad # {} PROVE FALSE
    OBVIOUS
  <2>1. PICK i \in Bad : \A j \in Bad : i <= j
    <3>1. Bad \in SUBSET Nat
      BY <1>1, <1>2
    <3>. HIDE DEF Bad
    <3>. QED
      BY <3>1, LeastElement
  <2>2. i \in 0 .. n /\ found[i] # {Rest(f, p, i)}
    BY <2>1
  <2>3. 0 \in 0 .. n
    BY <1>1, <1>2
  <2>4. found[0] = {f}
    BY <1>8, <2>3
  <2>5. i # 0
    BY <1>4, <2>2, <2>4
  <2>6. i \in 1 .. n /\ i - 1 \in 0 .. n /\ i - 1 \notin Bad
    BY <1>1, <1>2, <2>1, <2>2, <2>5
  <2>7. found[i - 1] = {Rest(f, p, i - 1)}
    BY <2>6
  <2>8. found[i] = {Child(m, p[i]) : m \in {m \in found[i - 1] : HasChild(m, p[i])}}
    BY <1>8, <2>2, <2>5, Zenon
  <2>9. {Child(m, p[i]) : m \in {m \in found[i - 1] : HasChild(m, p[i])}} = {Rest(f, p, i)}
    BY <1>3, <2>6, <2>7
  <2>. QED
    BY <2>2, <2>8, <2>9, Zenon
<1>10. n \in 0 .. n
  BY <1>1, <1>2
<1>11. Follow(f, p) = {Rest(f, p, n)}
  BY <1>7, <1>9, <1>10
<1>. QED
  BY <1>2, <1>11, RestEnd, Zenon DEF LeadsTo

(* In the tree that is returned: the nodes present, at their paths.        *)
NoName(x) == x = ""

HoldsPresent(c) ==
  /\ IsMap(c)
  /\ \A p \in DOMAIN c : \E i \in Begins : Present(i) /\ PathOf(i) = p
  /\ \A i \in Begins : Present(i) => PathOf(i) \in DOMAIN c /\ c[PathOf(i)] = Final(i)

(* The root has the paths of the nodes present, and what is said of each.  *)
LEMMA RootHolds ==
  ASSUME NEW o, NEW n, AllEnded(o, n), NEW d, Describes(o, d, n), NEW x, NoName(x),
         HasChild(d[n], x), NEW c, c = Child(d[n], x)
  PROVE  HoldsPresent(c)
<1>1. PICK f : f = d[n]
  OBVIOUS
<1>2. /\ Spells(o, n) /\ text \in Seq(Tokens) /\ n <= Len(text) /\ n \in 0 .. n /\ Len(o[n]) = 0
  <2>1. /\ Spells(o, n) /\ text \in Seq(Tokens) /\ n <= Len(text) /\ n \in Nat /\ o[n] = <<>>
    BY Zenon DEF AllEnded, Spells
  <2>2. n \in 0 .. n /\ Len(o[n]) = 0
    BY <2>1
  <2>. QED
    BY <2>1, <2>2, Zenon
<1>3. /\ IsMap(f)
      /\ DOMAIN f = {<<>>} \cup {Rel(o, i, n) : i \in Kept(o, n)}
      /\ \A i \in Kept(o, n) : f[Rel(o, i, n)] = Final(i)
  BY <1>1, Zenon DEF Describes
<1>4. /\ \A i \in Kept(o, n) : i \in Begins
      /\ <<x>> \o <<>> \in DOMAIN f
  BY <1>1, RootIs, Zenon DEF NoName
<1>5. x \in Names
  BY FdtAssumption, Zenon DEF NoName
<1>6. /\ IsMap(c)
      /\ \A p \in Seq(Names) : p \in DOMAIN c <=> <<x>> \o p \in DOMAIN f
      /\ \A p \in DOMAIN c : c[p] = f[<<x>> \o p]
  BY <1>1, <1>3, <1>4, <1>5, ChildOfNode, Zenon DEF ChildIs
<1>7. ASSUME NEW i \in Kept(o, n)
      PROVE  /\ Rel(o, i, n) \in Seq(Names) /\ Rel(o, i, n) # <<>>
             /\ Head(Rel(o, i, n)) = NameAt(o, i, 1)
  <2>1. i \in Within(o, n)
    BY DEF Kept
  <2>2. /\ Rel(o, i, n) \in Seq(Names) /\ Rel(o, i, n) # <<>>
        /\ Head(Rel(o, i, n)) = NameAt(o, i, Len(o[n]) + 1)
    BY <1>2, <2>1, RelIs
  <2>3. Len(o[n]) + 1 = 1
    BY <1>2
  <2>. QED
    BY <2>2, <2>3, Zenon
<1>8. \A i \in Begins : Present(i) <=> i \in Kept(o, n) /\ NameAt(o, i, 1) = x
  BY PresentIs, Zenon DEF NoName
<1>9. \A i \in Begins : PathOf(i) = Tail(Rel(o, i, n))
  BY PathIs
<1>10. ASSUME NEW i \in Begins, Present(i)
       PROVE  PathOf(i) \in DOMAIN c /\ c[PathOf(i)] = Final(i)
  <2>1. i \in Kept(o, n) /\ NameAt(o, i, 1) = x
    BY <1>8, <1>10
  <2>2. PICK q : q = Rel(o, i, n)
    OBVIOUS
  <2>3. q \in Seq(Names) /\ q # <<>> /\ Head(q) = x
    BY <1>7, <2>1, <2>2
  <2>4. Tail(q) \in Seq(Names) /\ <<x>> \o Tail(q) = q
    BY <2>3, PathSplit
  <2>5. q \in DOMAIN f /\ f[q] = Final(i)
    BY <1>3, <2>1, <2>2, Zenon
  <2>6. PathOf(i) = Tail(q)
    BY <1>9, <2>2
  <2>. QED
    BY <1>6, <2>4, <2>5, <2>6, Zenon
<1>11. ASSUME NEW p \in DOMAIN c PROVE \E i \in Begins : Present(i) /\ PathOf(i) = p
  <2>1. p \in Seq(Names)
    BY <1>6, Zenon DEF IsMap
  <2>2. PICK q : q = <<x>> \o p
    OBVIOUS
  <2>3. q # <<>> /\ Head(q) = x /\ Tail(q) = p
    BY <1>5, <2>1, <2>2, PathStep
  <2>4. q \in DOMAIN f
    BY <1>6, <2>1, <2>2
  <2>5. PICK i \in Kept(o, n) : q = Rel(o, i, n)
    BY <1>3, <2>3, <2>4
  <2>6. NameAt(o, i, 1) = x
    BY <1>7, <2>3, <2>5
  <2>. QED
    BY <1>4, <1>8, <1>9, <2>3, <2>5, <2>6, Zenon
<1>. QED
  BY <1>6, <1>10, <1>11, Zenon DEF HoldsPresent

(* The tree is the text's.                                                 *)
LEMMA BuiltIsText ==
  ASSUME NEW o, NEW a, NEW d, NEW n, Built(o, a, d, n)
  PROVE  TreeIsText
<1>1. TreeTypeOK
  BY BuiltTyped
<1>. DEFINE present == {i \in Begins : Present(i)}
<1>2. SUFFICES ASSUME outcome = "ok"
               PROVE  /\ {PathOf(i) : i \in present} = DOMAIN root
                      /\ \A i \in present :
                           {m[<<>>].props : m \in Follow(root, PathOf(i))} = {LastProps(i)}
                      /\ CellsNearest(present)
  BY <1>1 DEF TreeIsText
<1>3. /\ n \in Nat /\ Len(text) \in Nat /\ DOMAIN text = 1 .. Len(text)
  BY BuiltIs
<1>4. /\ text \in Seq(Tokens) /\ n <= Len(text) /\ Spells(o, n)
      /\ \A k \in 0 .. n : Describes(o, d, k)
      /\ parents = <<>> <=> o[n] = <<>>
  BY BuiltIs
<1>5. EndsWith(text, parents, current, n, "ok", root)
  BY <1>2 DEF Built
<1>6. /\ n + 1 = Len(text) /\ text[n + 1].kind = "finish" /\ parents = <<>>
      /\ HasChild(d[n], "") /\ root = Child(d[n], "")
  BY <1>5 DEF EndsWith, Built
<1>7. AllEnded(o, n)
  <2>1. ASSUME NEW q \in DOMAIN text, Kind(q) = "begin" PROVE q <= n
    <3>1. q # n + 1
      BY <1>6, <2>1 DEF Kind
    <3>2. q \in 1 .. n + 1
      BY <1>3, <1>6, Zenon
    <3>. QED
      BY <1>3, <3>1, <3>2
  <2>. QED
    BY <1>4, <1>6, <2>1, Zenon DEF AllEnded
<1>8. Describes(o, d, n)
  <2>1. n \in 0 .. n
    BY <1>3
  <2>. QED
    BY <1>4, <2>1
<1>9. PICK x : x = ""
  OBVIOUS
<1>10. HasChild(d[n], x) /\ root = Child(d[n], x)
  BY <1>6, <1>9, Zenon
<1>11. /\ IsMap(root)
       /\ \A p \in DOMAIN root : \E i \in Begins : Present(i) /\ PathOf(i) = p
       /\ \A i \in Begins : Present(i) => PathOf(i) \in DOMAIN root /\ root[PathOf(i)] = Final(i)
  <2>0. NoName(x)
    BY <1>9, Zenon DEF NoName
  <2>1. HoldsPresent(root)
    BY <1>7, <1>8, <1>10, <2>0, RootHolds, Zenon
  <2>. QED
    BY <2>1, Zenon DEF HoldsPresent
<1>12. {PathOf(i) : i \in present} = DOMAIN root
  BY <1>11, Zenon
<1>13. ASSUME NEW i \in present
       PROVE  \E g : Follow(root, PathOf(i)) = {g} /\ g[<<>>] = Final(i)
  <2>1. PathOf(i) \in DOMAIN root /\ root[PathOf(i)] = Final(i)
    BY <1>11
  <2>2. LeadsTo(root, PathOf(i), root[PathOf(i)])
    BY <1>11, <2>1, FollowLeads, Zenon
  <2>. QED
    BY <2>1, <2>2, Zenon DEF LeadsTo
<1>. HIDE DEF present
<1>14. ASSUME NEW i \in present
       PROVE  /\ {m[<<>>].props : m \in Follow(root, PathOf(i))} = {LastProps(i)}
              /\ \A m \in Follow(root, PathOf(i)) :
                   m[<<>>].cells = [c \in CellNames |-> SaidCells(i, c)]
  <2>1. PICK g : Follow(root, PathOf(i)) = {g} /\ g[<<>>] = Final(i)
    BY <1>13
  <2>2. PICK r : r = Final(i)
    OBVIOUS
  <2>3. r.props = LastProps(i) /\ r.cells = [c \in CellNames |-> SaidCells(i, c)]
    BY <2>2 DEF Final
  <2>4. g[<<>>] = r
    BY <2>1, <2>2
  <2>5. {m[<<>>].props : m \in {g}} = {LastProps(i)}
    BY <2>3, <2>4
  <2>. QED
    BY <2>1, <2>3, <2>4, <2>5, Zenon
<1>15. CellsNearest(present)
  BY <1>14, Zenon DEF CellsNearest
<1>. QED
  BY <1>12, <1>14, <1>15, Zenon

(* The tree that is returned has a node at the path of every node of the   *)
(* text that was not replaced, and no other, each with its last properties *)
(* and the cells that it or the nearest node around it said; and the       *)
(* parser's state is of its type all along.                                *)
THEOREM TreeIsTheText == TreeSpec => []TreeIsText
<1>1. RunInv => TreeIsText
  BY InvIsBuilt, BuiltIsText
<1>. QED
  BY <1>1, TreeInvariant, PTL

==============================================================================
