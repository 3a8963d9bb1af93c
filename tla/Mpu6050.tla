------------------------------ MODULE Mpu6050 ------------------------------
(***************************************************************************)
(* The sensor object (mpu6050.cpp) and the chip it reads: seven quantities *)
(* of two bytes (acceleration, temperature, rotation), each byte read by a *)
(* transfer of its own while the chip goes on measuring, and each transfer *)
(* may fail.  The two bytes of a quantity are read in either order: the    *)
(* operands of | in read16u() are unsequenced.                             *)
(***************************************************************************)
EXTENDS Integers

CONSTANTS
  Quantities,  \* how many quantities update() reads (7 in the code)
  Samples      \* what the chip may measure

MinShort == -32768
MaxShort == 32767
Short == MinShort .. MaxShort
Byte  == 0 .. 255

ASSUME SensorAssumption ==
  /\ Quantities \in Nat \ {0}
  /\ Samples \subseteq Short /\ Samples # {}

VARIABLES
  sample,   \* chip: the latest measurement of each quantity
  life,     \* "none", "ready" or "failed"
  done,     \* quantities read by the update() under way; Quantities + 1 outside one
  high,     \* the high byte of the next quantity, or NotRead
  low,      \* its low byte, or NotRead
  reading,  \* mAcceleration, mTemp and mGyro
  meant,    \* history: the measurement whose first byte was read, per quantity
  torn      \* history: it was replaced before the second byte was read

vars == <<sample, life, done, high, low, reading, meant, torn>>

Axis == 1 .. Quantities
NotRead == -1
Outside == Quantities + 1

-----------------------------------------------------------------------------
(***************************************************************************)
(* The chip holds a measurement in two's complement, the high byte in one  *)
(* register and the low byte in another; read16() puts them together in an *)
(* unsigned number of sixteen bits and converts that to a signed one.      *)
(***************************************************************************)
HighByte(s) == (s % 65536) \div 256
LowByte(s)  == s % 256

Read16u(h, l) == (h * 256) + l

\* Mutant: the low byte is taken as a signed one and widened with its sign.
Read16SignedLow(h, l) ==
  IF l < 128 THEN ((Read16u(h, l) + 32768) % 65536) - 32768 ELSE l - 256
\* Mutant: the unsigned number is converted to int and keeps its value.
Read16Unsigned(h, l) == Read16u(h, l)
Read16(h, l) == ((Read16u(h, l) + 32768) % 65536) - 32768

Init ==
  /\ sample \in [Axis -> Samples]
  /\ life = "none" /\ done = Outside
  /\ high = NotRead /\ low = NotRead
  /\ reading = [q \in Axis |-> 0]
  /\ meant = [q \in Axis |-> 0] /\ torn = [q \in Axis |-> FALSE]

-----------------------------------------------------------------------------
\* The chip measures; this happens between any two transfers.
Measure(q, v) ==
  /\ sample' = [sample EXCEPT ![q] = v]
  /\ torn' = [torn EXCEPT ![q] =
                @ \/ (q = done + 1 /\ (high # NotRead \/ low # NotRead) /\ v # sample[q])]
  /\ UNCHANGED <<life, done, high, low, reading, meant>>

\* Opens the bus, selects the chip and wakes it up; each transfer may fail.
Construct ==
  /\ life = "none" /\ life' \in {"ready", "failed"}
  /\ UNCHANGED <<sample, done, high, low, reading, meant, torn>>

Update ==
  /\ life = "ready" /\ done = Outside
  /\ done' = 0
  /\ UNCHANGED <<sample, life, high, low, reading, meant, torn>>

\* Where update() is when the quantity it reads has been stored.
NextDone == IF done + 1 = Quantities THEN Outside ELSE done + 1

\* One byte of quantity done + 1 has been read; the second one completes it.
Store(h, l) ==
  IF h = NotRead \/ l = NotRead
    THEN /\ high' = h /\ low' = l
         /\ UNCHANGED <<done, reading>>
    ELSE /\ reading' = [reading EXCEPT ![done + 1] = Read16(h, l)]
         /\ high' = NotRead /\ low' = NotRead
         /\ done' = NextDone

\* The first byte fixes which measurement is meant.
Mean ==
  IF high = NotRead /\ low = NotRead
    THEN /\ meant' = [meant EXCEPT ![done + 1] = sample[done + 1]]
         /\ torn' = [torn EXCEPT ![done + 1] = FALSE]
    ELSE UNCHANGED <<meant, torn>>

ReadHigh ==
  /\ life = "ready" /\ done < Quantities /\ high = NotRead
  /\ Store(HighByte(sample[done + 1]), low) /\ Mean
  /\ UNCHANGED <<sample, life>>

ReadLow ==
  /\ life = "ready" /\ done < Quantities /\ low = NotRead
  /\ Store(high, LowByte(sample[done + 1])) /\ Mean
  /\ UNCHANGED <<sample, life>>

\* A transfer fails: update() throws and the object is destroyed.
ReadFails ==
  /\ life = "ready" /\ done < Quantities
  /\ life' = "failed"
  /\ UNCHANGED <<sample, done, high, low, reading, meant, torn>>

Next ==
  \/ Construct \/ Update \/ ReadHigh \/ ReadLow \/ ReadFails
  \/ \E q \in Axis, v \in Samples : Measure(q, v)

Spec == Init /\ [][Next]_vars

-----------------------------------------------------------------------------
TypeOK ==
  /\ sample \in [Axis -> Short] /\ meant \in [Axis -> Short]
  /\ life \in {"none", "ready", "failed"}
  /\ done \in 0 .. Outside
  /\ high \in Byte \cup {NotRead} /\ low \in Byte \cup {NotRead}
  /\ reading \in [Axis -> Short]
  /\ torn \in [Axis -> BOOLEAN]

(***************************************************************************)
(* What update() has stored for a quantity is the signed measurement that  *)
(* the chip held when its first byte was read, unless the chip replaced it *)
(* between the two bytes, in whichever order they are read, also when a    *)
(* later update() was abandoned.                                           *)
(***************************************************************************)
InProgress(q) == q = done + 1 /\ (high # NotRead \/ low # NotRead)

ReadingIsMeasurement ==
  \A q \in Axis : ~InProgress(q) /\ ~torn[q] => reading[q] = meant[q]
=============================================================================
