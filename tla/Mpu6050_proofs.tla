--------------------------- MODULE Mpu6050_proofs ---------------------------
(***************************************************************************)
(* Proofs about the sensor object, for every number of quantities and      *)
(* every set of measurements.                                              *)
(***************************************************************************)
EXTENDS Mpu6050, TLAPS

(***************************************************************************)
(* What is known of the byte that has been read when one of two is: it     *)
(* belongs to the measurement that is meant, and the chip still holds that *)
(* measurement, unless the reading is torn.                                *)
(***************************************************************************)
FirstByte ==
  /\ high = NotRead \/ low = NotRead
  /\ done = Outside => high = NotRead /\ low = NotRead
  /\ \A q \in Axis : InProgress(q) /\ ~torn[q] =>
       /\ meant[q] = sample[q]
       /\ high # NotRead => high = HighByte(sample[q])
       /\ low # NotRead => low = LowByte(sample[q])

SensorInv == TypeOK /\ FirstByte /\ ReadingIsMeasurement

-----------------------------------------------------------------------------
(***************************************************************************)
(* The shorts by their bounds.                                             *)
(***************************************************************************)
LEMMA ShortBounds ==
  ASSUME NEW s
  PROVE  s \in Short <=> s \in Int /\ -32768 <= s /\ s <= 32767
<1>1. MinShort \in Int /\ MaxShort \in Int
  BY DEF MinShort, MaxShort
<1>2. s \in Short <=> s \in Int /\ MinShort <= s /\ s <= MaxShort
  BY <1>1 DEF Short
<1> QED
  BY <1>2 DEF MinShort, MaxShort

(***************************************************************************)
(* A number of sixteen bits has a remainder that is one, and is its own.   *)
(***************************************************************************)
LEMMA SixteenBits ==
  ASSUME NEW n \in Int
  PROVE  /\ n % 65536 \in Int /\ 0 <= n % 65536 /\ n % 65536 <= 65535
         /\ 0 <= n /\ n <= 65535 => n % 65536 = n
         /\ 65536 <= n /\ n < 131072 => n % 65536 = n - 65536
         /\ -65536 <= n /\ n < 0 => n % 65536 = n + 65536
OBVIOUS

(***************************************************************************)
(* What the chip holds for a measurement are two bytes, and what read16()  *)
(* makes of two bytes is a short.                                          *)
(***************************************************************************)
LEMMA BytesTypes ==
  ASSUME NEW s \in Short
  PROVE  HighByte(s) \in Byte /\ LowByte(s) \in Byte
<1>1. s \in Int
  BY ShortBounds
<1>2. s % 256 \in 0 .. 255
  BY <1>1
<1>3. ASSUME NEW n \in Int, 0 <= n, n <= 65535
      PROVE  n \div 256 \in 0 .. 255
  BY <1>3
<1> QED
  BY <1>1, <1>2, <1>3, SixteenBits DEF HighByte, LowByte, Byte

LEMMA Read16Types ==
  ASSUME NEW h \in Byte, NEW l \in Byte
  PROVE  Read16(h, l) \in Short
<1>1. Read16u(h, l) + 32768 \in Int
  BY DEF Byte, Read16u
<1>2. ASSUME NEW n \in Int, 0 <= n, n <= 65535
      PROVE  n - 32768 \in Int /\ -32768 <= n - 32768 /\ n - 32768 <= 32767
  BY <1>2
<1> QED
  BY <1>1, <1>2, SixteenBits, ShortBounds DEF Read16

(***************************************************************************)
(* read16() undoes the chip's two's complement: the two bytes of a         *)
(* measurement give the measurement.                                       *)
(***************************************************************************)
LEMMA BytesRoundTrip ==
  ASSUME NEW s \in Short
  PROVE  Read16(HighByte(s), LowByte(s)) = s
<1>1. s \in Int /\ -32768 <= s /\ s <= 32767
  BY ShortBounds
<1>2. PICK u \in Int : u = s % 65536 /\ 0 <= u /\ u <= 65535
  BY <1>1, SixteenBits
<1>3. IF 0 <= s THEN u = s ELSE u = s + 65536
  BY <1>1, <1>2, SixteenBits
<1>4. LowByte(s) = u % 256
  <2>1. s % 256 = (s + 65536) % 256
    BY <1>1
  <2> QED
    BY <1>3, <2>1 DEF LowByte
<1>5. Read16u(HighByte(s), LowByte(s)) = u
  <2>1. ((u \div 256) * 256) + (u % 256) = u
    OBVIOUS
  <2> QED
    BY <1>2, <1>4, <2>1 DEF Read16u, HighByte
<1>6. ((u + 32768) % 65536) - 32768 = s
  <2>1. CASE 0 <= s
    BY <1>1, <1>3, <2>1, SixteenBits
  <2>2. CASE ~(0 <= s)
    BY <1>1, <1>3, <2>2, SixteenBits
  <2> QED
    BY <2>1, <2>2
<1> QED
  BY <1>5, <1>6 DEF Read16

-----------------------------------------------------------------------------
(***************************************************************************)
(* Numbers that the steps compare.                                         *)
(***************************************************************************)
LEMMA Positions ==
  /\ Quantities \in Nat /\ Quantities >= 1
  /\ NotRead \notin Byte
  /\ 0 \in 0 .. Outside /\ Outside \in 0 .. Outside
  /\ \A d \in 0 .. Outside : d < Quantities => d # Outside /\ d + 1 \in Axis
  /\ \A d \in 0 .. Outside :
       d < Quantities =>
         (IF d + 1 = Quantities THEN Outside ELSE d + 1) \in 0 .. Outside
  /\ 0 \in Short
BY SensorAssumption, ShortBounds DEF NotRead, Byte, Outside, Axis

LEMMA InitSensor == Init => SensorInv
<1> SUFFICES ASSUME Init
             PROVE  SensorInv
  OBVIOUS
<1>1. Samples \subseteq Short
  BY SensorAssumption
<1>2. TypeOK
  BY <1>1, Positions DEF Init, TypeOK
<1>3. FirstByte
  BY DEF Init, FirstByte, InProgress
<1>4. ReadingIsMeasurement
  BY DEF Init, ReadingIsMeasurement
<1> QED
  BY <1>2, <1>3, <1>4 DEF SensorInv

(***************************************************************************)
(* A measurement of the chip tears at most the reading under way.          *)
(***************************************************************************)
LEMMA MeasureStep ==
  ASSUME SensorInv, NEW q \in Axis, NEW v \in Samples, Measure(q, v)
  PROVE  SensorInv'
<1> USE DEF SensorInv, Measure
<1>1. TypeOK'
  <2>1. v \in Short
    BY SensorAssumption
  <2>2. torn' \in [Axis -> BOOLEAN]
    BY DEF TypeOK
  <2> QED
    BY <2>1, <2>2 DEF TypeOK
<1>2. ASSUME NEW r \in Axis, ~torn'[r]
      PROVE  ~torn[r] /\ (InProgress(r) => sample'[r] = sample[r])
  BY <1>2 DEF TypeOK, InProgress
<1>3. \A r : InProgress(r)' <=> InProgress(r)
  BY DEF InProgress
<1>4. FirstByte'
  BY <1>2, <1>3 DEF FirstByte
<1>5. ReadingIsMeasurement'
  BY <1>2, <1>3 DEF ReadingIsMeasurement
<1> QED
  BY <1>1, <1>4, <1>5

(***************************************************************************)
(* The first byte of a quantity fixes what is meant, and the chip still    *)
(* holds it.                                                               *)
(***************************************************************************)
LEMMA FirstByteStep ==
  ASSUME SensorInv, done < Quantities, high = NotRead, low = NotRead,
         NEW h, NEW l, Store(h, l), Mean, UNCHANGED <<sample, life>>,
         \/ h = HighByte(sample[done + 1]) /\ l = NotRead
         \/ l = LowByte(sample[done + 1]) /\ h = NotRead
  PROVE  SensorInv'
<1> DEFINE d == done + 1
<1>1. d \in Axis /\ done \in 0 .. Outside /\ done # Outside
  BY Positions DEF SensorInv, TypeOK
<1>2. sample[d] \in Short
  BY <1>1 DEF SensorInv, TypeOK
<1>3. h \in Byte \cup {NotRead} /\ l \in Byte \cup {NotRead}
  BY <1>2, BytesTypes
<1>4. high' = h /\ low' = l /\ UNCHANGED <<done, reading>>
  BY DEF Store
<1>5. /\ meant' = [meant EXCEPT ![d] = sample[d]]
      /\ torn' = [torn EXCEPT ![d] = FALSE]
  BY DEF Mean
<1>6. TypeOK'
  <2>1. meant' \in [Axis -> Short]
    BY <1>2, <1>5 DEF SensorInv, TypeOK
  <2>2. torn' \in [Axis -> BOOLEAN]
    BY <1>5 DEF SensorInv, TypeOK
  <2> QED
    BY <1>3, <1>4, <2>1, <2>2 DEF SensorInv, TypeOK
<1>7. \A q \in Axis : InProgress(q)' => q = d
  BY <1>4 DEF InProgress
<1>8. FirstByte'
  <2>1. meant'[d] = sample'[d]
    BY <1>1, <1>5 DEF SensorInv, TypeOK
  <2> QED
    BY <1>1, <1>4, <1>7, <2>1 DEF FirstByte
<1>9. ReadingIsMeasurement'
  <2> SUFFICES ASSUME NEW q \in Axis, ~InProgress(q)', ~torn'[q]
               PROVE  reading'[q] = meant'[q]
    BY DEF ReadingIsMeasurement
  <2>1. q # d
    <3>1. HighByte(sample[d]) # NotRead /\ LowByte(sample[d]) # NotRead
      BY <1>2, BytesTypes, Positions
    <3> QED
      BY <1>4, <3>1 DEF InProgress
  <2>2. ~InProgress(q)
    BY <2>1 DEF InProgress
  <2>3. ~torn[q] /\ meant'[q] = meant[q]
    BY <1>5, <2>1 DEF SensorInv, TypeOK
  <2> QED
    BY <1>4, <2>2, <2>3 DEF SensorInv, ReadingIsMeasurement
<1> QED
  BY <1>6, <1>8, <1>9 DEF SensorInv

(***************************************************************************)
(* The second byte completes the reading, of the measurement that is meant *)
(* unless it is torn.                                                      *)
(***************************************************************************)
LEMMA SecondByteStep ==
  ASSUME SensorInv, done < Quantities,
         NEW h \in Byte, NEW l \in Byte, Store(h, l), Mean, UNCHANGED <<sample, life>>,
         \/ low = NotRead /\ high = h /\ l = LowByte(sample[done + 1])
         \/ high = NotRead /\ low = l /\ h = HighByte(sample[done + 1])
  PROVE  SensorInv'
<1> DEFINE d == done + 1
<1>1. d \in Axis /\ done \in 0 .. Outside
  BY Positions DEF SensorInv, TypeOK
<1>2. h # NotRead /\ l # NotRead
  BY Positions
<1>3. /\ reading' = [reading EXCEPT ![d] = Read16(h, l)]
      /\ high' = NotRead /\ low' = NotRead /\ done' = NextDone
  BY <1>2 DEF Store
<1>4. UNCHANGED <<meant, torn>>
  BY <1>2 DEF Mean
<1>5. TypeOK'
  <2>1. Read16(h, l) \in Short
    BY Read16Types
  <2>2. reading' \in [Axis -> Short]
    BY <1>3, <2>1 DEF SensorInv, TypeOK
  <2>3. done' \in 0 .. Outside
    BY <1>1, <1>3, Positions DEF NextDone
  <2> QED
    BY <1>3, <1>4, <2>2, <2>3 DEF SensorInv, TypeOK
<1>6. \A q : ~InProgress(q)'
  BY <1>3 DEF InProgress
<1>7. FirstByte'
  BY <1>3, <1>6 DEF FirstByte
<1>8. ReadingIsMeasurement'
  <2> SUFFICES ASSUME NEW q \in Axis, ~torn[q]
               PROVE  reading'[q] = meant[q]
    BY <1>4 DEF ReadingIsMeasurement
  <2>1. CASE q = d
    <3>1. InProgress(d)
      BY <1>2 DEF InProgress
    <3>2. meant[d] = sample[d] /\ h = HighByte(sample[d]) /\ l = LowByte(sample[d])
      BY <1>1, <1>2, <2>1, <3>1 DEF SensorInv, FirstByte
    <3>3. sample[d] \in Short
      BY <1>1 DEF SensorInv, TypeOK
    <3> QED
      BY <1>1, <1>3, <2>1, <3>2, <3>3, BytesRoundTrip DEF SensorInv, TypeOK
  <2>2. CASE q # d
    <3>1. ~InProgress(q)
      BY <2>2 DEF InProgress
    <3> QED
      BY <1>3, <2>2, <3>1 DEF SensorInv, TypeOK, ReadingIsMeasurement
  <2> QED
    BY <2>1, <2>2
<1> QED
  BY <1>5, <1>7, <1>8 DEF SensorInv

LEMMA StepSensor == SensorInv /\ [Next]_vars => SensorInv'
<1> SUFFICES ASSUME SensorInv, [Next]_vars
             PROVE  SensorInv'
  OBVIOUS
<1>1. CASE Construct
  BY <1>1 DEF SensorInv, Construct, TypeOK, FirstByte, InProgress, ReadingIsMeasurement
<1>2. CASE Update
  <2>1. high = NotRead /\ low = NotRead
    BY <1>2 DEF Update, SensorInv, FirstByte
  <2>2. \A q : ~InProgress(q) /\ ~InProgress(q)'
    BY <1>2, <2>1 DEF Update, InProgress
  <2>3. TypeOK'
    BY <1>2, Positions DEF Update, SensorInv, TypeOK
  <2> QED
    BY <1>2, <2>1, <2>2, <2>3 DEF Update, SensorInv, FirstByte, ReadingIsMeasurement
<1>3. CASE ReadHigh
  <2> DEFINE h == HighByte(sample[done + 1])
  <2>1. h \in Byte
    BY <1>3, Positions, BytesTypes DEF ReadHigh, SensorInv, TypeOK
  <2>2. CASE low = NotRead
    BY <1>3, <2>2, FirstByteStep DEF ReadHigh
  <2>3. CASE low # NotRead
    <3>1. low \in Byte
      BY <2>3 DEF SensorInv, TypeOK
    <3> QED
      BY <1>3, <2>1, <3>1, SecondByteStep DEF ReadHigh
  <2> QED
    BY <2>2, <2>3
<1>4. CASE ReadLow
  <2> DEFINE l == LowByte(sample[done + 1])
  <2>1. l \in Byte
    BY <1>4, Positions, BytesTypes DEF ReadLow, SensorInv, TypeOK
  <2>2. CASE high = NotRead
    BY <1>4, <2>2, FirstByteStep DEF ReadLow
  <2>3. CASE high # NotRead
    <3>1. high \in Byte
      BY <2>3 DEF SensorInv, TypeOK
    <3> QED
      BY <1>4, <2>1, <3>1, SecondByteStep DEF ReadLow
  <2> QED
    BY <2>2, <2>3
<1>5. CASE ReadFails
  BY <1>5 DEF SensorInv, ReadFails, TypeOK, FirstByte, InProgress, ReadingIsMeasurement
<1>6. CASE \E q \in Axis, v \in Samples : Measure(q, v)
  BY <1>6, MeasureStep
<1>7. CASE UNCHANGED vars
  BY <1>7 DEF vars, SensorInv, TypeOK, FirstByte, InProgress, ReadingIsMeasurement
<1> QED
  BY <1>1, <1>2, <1>3, <1>4, <1>5, <1>6, <1>7 DEF Next

-----------------------------------------------------------------------------
LEMMA AlwaysSensorInv == Spec => []SensorInv
BY InitSensor, StepSensor, PTL DEF Spec

(***************************************************************************)
(* The variables of the sensor object keep their types; in particular all  *)
(* readings are numbers of sixteen bits with a sign.                       *)
(***************************************************************************)
THEOREM SensorTypeCorrect == Spec => []TypeOK
<1>1. SensorInv => TypeOK
  BY DEF SensorInv
<1> QED
  BY <1>1, AlwaysSensorInv, PTL

(***************************************************************************)
(* Whatever the order of the transfers and wherever an update is given up, *)
(* what is stored is the measurement that was meant, unless the chip       *)
(* replaced it between the two bytes.                                      *)
(***************************************************************************)
THEOREM ReadingsAreMeasurements == Spec => []ReadingIsMeasurement
<1>1. SensorInv => ReadingIsMeasurement
  BY DEF SensorInv
<1> QED
  BY <1>1, AlwaysSensorInv, PTL
=============================================================================
