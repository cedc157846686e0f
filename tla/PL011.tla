-------------------------------- MODULE PL011 --------------------------------
(***************************************************************************)
(* The driver of the PL011 serial port (kernel/pl011/src/lib.rs) and the   *)
(* logger on top of it (SerialSink of kernel/kernel/src/setup.rs), beside  *)
(* the device they drive.                                                  *)
(*                                                                         *)
(* The driver steps from one store to the next; a wait is a step that is   *)
(* taken when the device is not busy.  The device, which is not part of    *)
(* the repository, is modelled as the driver uses it: it sends what is in  *)
(* its shift register, loads that from the FIFO while it is enabled, is    *)
(* busy until both are empty, drops what does not fit, and takes over the  *)
(* divisors when the line control register is written.                     *)
(***************************************************************************)
EXTENDS Integers, Sequences, SequencesExt

CONSTANTS
  BaseClock,    \* PL011::base_clock
  Baudrate,     \* PL011::baudrate
  FifoDepth,    \* characters the FIFO holds, and one when it is disabled
  Leftovers,    \* what the firmware may have left in the FIFO
  Messages,     \* what the kernel logs
  MaxLogs       \* bound: messages it logs

Characters == {"x", "\n", "\r"}

(* 8 * base_clock + baudrate is a u32 that does not overflow, and the      *)
(* divisor fits its registers: for 115200 baud, any clock the first allows.*)
ASSUME PL011Assumption ==
  /\ BaseClock \in Nat /\ Baudrate \in Nat \ {0}
  /\ BaseClock + Baudrate < 2^29
  /\ ((8 * BaseClock + Baudrate) \div (2 * Baudrate)) \div 64 < 65536
  /\ FifoDepth \in Nat \ {0}
  /\ Leftovers \subseteq Seq(Characters)
  /\ Messages \subseteq Seq(Characters)
  /\ MaxLogs \in Nat

VARIABLES
  enabled, transmit,     \* UARTCR_EN and UARTCR_TXEN of UARTCR
  fifoEnabled, format,   \* UARTLCR_FEN and the word length and stop bits of UARTLCR
  divisors, latched,     \* UARTIBRD and UARTFBRD as written, and as in use
  fifo, shift, wire,     \* characters waiting, being sent, and sent
  leftover,              \* history: the characters there before the driver
  pc,                    \* what the driver does next
  rest,                  \* bytes that send has not sent yet
  newline,               \* TRUE when log has still to send its newline
  logged                 \* history: the messages logged

device == <<enabled, transmit, fifoEnabled, format, divisors, latched>>
line == <<fifo, shift, wire>>
driver == <<pc, rest, newline>>
vars == <<device, line, leftover, driver, logged>>

-----------------------------------------------------------------------------
Busy == fifo # <<>> \/ shift # <<>>

Room == Len(fifo) < IF fifoEnabled THEN FifoDepth ELSE 1

(* Mistake: the fraction is left at zero.                                  *)
CalculateDivisorsWhole ==
  LET div == (8 * BaseClock + Baudrate) \div (2 * Baudrate)
  IN  <<(div \div 64) % 65536, 0>>

CalculateDivisors ==
  LET div == (8 * BaseClock + Baudrate) \div (2 * Baudrate)
  IN  <<(div \div 64) % 65536, div % 64>>

Format == [bits |-> 8, stop |-> 1]

Init ==
  /\ enabled \in BOOLEAN
  /\ transmit \in BOOLEAN
  /\ fifoEnabled \in BOOLEAN
  /\ leftover \in Leftovers
  /\ Len(leftover) <= IF fifoEnabled THEN FifoDepth ELSE 1
  /\ fifo = leftover
  /\ shift = <<>>
  /\ wire = <<>>
  /\ format = [bits |-> 5, stop |-> 2]
  /\ divisors = <<0, 0>>
  /\ latched = <<0, 0>>
  /\ pc = "new"
  /\ rest = <<>>
  /\ newline = FALSE
  /\ logged = <<>>

-----------------------------------------------------------------------------
(* The device.                                                             *)
Load ==
  /\ enabled /\ transmit
  /\ shift = <<>> /\ fifo # <<>>
  /\ shift' = <<Head(fifo)>>
  /\ fifo' = Tail(fifo)
  /\ UNCHANGED <<device, wire, leftover, driver, logged>>

(* A character that was begun is sent even if the device is disabled.      *)
ShiftOut ==
  /\ shift # <<>>
  /\ wire' = wire \o shift
  /\ shift' = <<>>
  /\ UNCHANGED <<device, fifo, leftover, driver, logged>>

-----------------------------------------------------------------------------
(* new and reset, a store at a time.                                       *)
Step(from, to) ==
  /\ pc = from
  /\ pc' = to
  /\ UNCHANGED <<leftover, rest, newline, logged>>

(* Mistake: the device is disabled while it may still have characters.     *)
NewUnwaited ==
  /\ Step("new", "disable")
  /\ UNCHANGED <<device, line>>

New ==
  /\ Step("new", "disable")
  /\ ~ Busy
  /\ UNCHANGED <<device, line>>

(* Mistake: the enable bit is the one that stays.                          *)
DisableOthers ==
  /\ Step("disable", "wait disabled")
  /\ transmit' = FALSE
  /\ UNCHANGED <<enabled, fifoEnabled, format, divisors, latched, line>>

Disable ==
  /\ Step("disable", "wait disabled")
  /\ enabled' = FALSE
  /\ UNCHANGED <<transmit, fifoEnabled, format, divisors, latched, line>>

WaitDisabled ==
  /\ Step("wait disabled", "flush")
  /\ ~ Busy
  /\ UNCHANGED <<device, line>>

(* UARTLCR without FEN; the stores to UARTIMSC, UARTICR and UARTDMACR that *)
(* follow change nothing that is modelled.                                 *)
Flush ==
  /\ Step("flush", "divisors")
  /\ fifoEnabled' = FALSE
  /\ fifo' = IF fifoEnabled THEN <<>> ELSE fifo
  /\ latched' = divisors
  /\ UNCHANGED <<enabled, transmit, format, divisors, shift, wire>>

SetDivisors ==
  /\ Step("divisors", "line control")
  /\ divisors' = CalculateDivisors
  /\ UNCHANGED <<enabled, transmit, fifoEnabled, format, latched, line>>

LineControl ==
  /\ Step("line control", "transmit")
  /\ format' = Format
  /\ fifoEnabled' = FALSE
  /\ latched' = divisors
  /\ UNCHANGED <<enabled, transmit, divisors, line>>

EnableTransmit ==
  /\ Step("transmit", "enable")
  /\ transmit' = TRUE
  /\ enabled' = FALSE
  /\ UNCHANGED <<fifoEnabled, format, divisors, latched, line>>

Enable ==
  /\ Step("enable", "idle")
  /\ transmit' = TRUE
  /\ enabled' = TRUE
  /\ UNCHANGED <<fifoEnabled, format, divisors, latched, line>>

-----------------------------------------------------------------------------
(* log: two calls of send.                                                 *)
Log(msg) ==
  /\ pc = "idle"
  /\ Len(logged) < MaxLogs
  /\ pc' = "wait"
  /\ rest' = msg
  /\ newline' = TRUE
  /\ logged' = Append(logged, msg)
  /\ UNCHANGED <<device, line, leftover>>

(* Mistake: the driver sends on without a wait.                            *)
WaitUntilSentNot ==
  /\ Step("wait", "byte")
  /\ UNCHANGED <<device, line>>

(* wait_tx_complete, before the first byte and after every byte.           *)
WaitUntilSent ==
  /\ Step("wait", "byte")
  /\ ~ Busy
  /\ UNCHANGED <<device, line>>

StoreData(c) ==
  /\ fifo' = IF Room THEN Append(fifo, c) ELSE fifo
  /\ UNCHANGED <<device, shift, wire, leftover, newline, logged>>

(* A carriage return goes before a newline.                                *)
SendReturn ==
  /\ pc = "byte"
  /\ rest # <<>> /\ Head(rest) = "\n"
  /\ StoreData("\r")
  /\ pc' = "wait return"
  /\ UNCHANGED rest

WaitReturn ==
  /\ Step("wait return", "newline")
  /\ ~ Busy
  /\ UNCHANGED <<device, line>>

SendByte ==
  /\ \/ pc = "byte" /\ rest # <<>> /\ Head(rest) # "\n"
     \/ pc = "newline"
  /\ StoreData(Head(rest))
  /\ rest' = Tail(rest)
  /\ pc' = "wait"

(* send returns, and log sends the newline of its own.                     *)
Sent ==
  /\ pc = "byte"
  /\ rest = <<>>
  /\ pc' = IF newline THEN "wait" ELSE "idle"
  /\ rest' = IF newline THEN <<"\n">> ELSE <<>>
  /\ newline' = FALSE
  /\ UNCHANGED <<device, line, leftover, logged>>

(* After the last message the kernel loops for good.                       *)
Idle == pc = "idle" /\ UNCHANGED vars

-----------------------------------------------------------------------------
Transmission == Load \/ ShiftOut
Reset ==
  \/ New \/ Disable \/ WaitDisabled \/ Flush \/ SetDivisors
  \/ LineControl \/ EnableTransmit \/ Enable
Send == WaitUntilSent \/ SendReturn \/ WaitReturn \/ SendByte \/ Sent

(* A read of the flags that finds the device busy.                         *)
Spin ==
  /\ pc \in {"new", "wait disabled", "wait", "wait return"}
  /\ Busy
  /\ UNCHANGED vars

Next ==
  \/ Transmission \/ Reset \/ Send \/ Spin \/ Idle
  \/ \E msg \in Messages : Log(msg)

(* The line goes on sending, and the one CPU goes on in the driver; that   *)
(* the kernel logs at all is up to the kernel.                             *)
Spec == Init /\ [][Next]_vars /\ WF_vars(Transmission) /\ WF_vars(Reset \/ Send)
-----------------------------------------------------------------------------
Ready == pc \in {"idle", "wait", "byte", "wait return", "newline"}

(* The bytes for a message: a return before each newline, its own last.    *)
Expand(msg) ==
  FlattenSeq([i \in DOMAIN msg |-> IF msg[i] = "\n" THEN <<"\r", "\n">> ELSE <<msg[i]>>])
Text == leftover \o FlattenSeq([i \in DOMAIN logged |-> Expand(Append(logged[i], "\n"))])
Out == wire \o shift \o fifo

(* With nothing to send there is no next byte: the newline step has one.   *)
TypeOK ==
  /\ {enabled, transmit, fifoEnabled, newline} \subseteq BOOLEAN
  /\ \A s \in {fifo, shift, wire, rest} : s \in Seq(Characters)
  /\ Len(fifo) <= FifoDepth /\ Len(shift) <= 1
  /\ pc = "newline" => rest # <<>> /\ Head(rest) = "\n"

(* Registers that must not change under a transmission are stored only     *)
(* while the device is disabled and has sent everything.                   *)
ConfiguredAtRest ==
  [][<<fifoEnabled, format, latched>>' # <<fifoEnabled, format, latched>> =>
       ~ enabled /\ ~ Busy]_vars

(* Once new returns, the device sends with the format asked for, and the   *)
(* divisor in use is the nearest to 4 BaseClock / Baudrate.                *)
ReadyToSend ==
  TypeOK /\ (Ready =>
    /\ enabled /\ transmit /\ ~ fifoEnabled /\ format = Format
    /\ LET error == 2 * Baudrate * (64 * latched[1] + latched[2]) - 8 * BaseClock
       IN  -Baudrate < error /\ error <= Baudrate)

(* No character is lost, repeated or out of order: not those the firmware  *)
(* left, and none of a message; log returns with all of them on the wire.  *)
WireIsText ==
  /\ IsPrefix(Out, Text)
  /\ pc = "idle" => wire = Text

(* new returns unless the device was disabled with characters to send, and *)
(* every log returns.                                                      *)
NewReturns == ((enabled /\ transmit) \/ leftover = <<>>) => <>Ready
LogReturns == pc = "wait" ~> pc = "idle"
CallsReturn == NewReturns /\ LogReturns
=============================================================================
