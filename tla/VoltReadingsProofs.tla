------------------------- MODULE VoltReadingsProofs -------------------------
(***************************************************************************)
(* The frames and the display of the detector, proved for every pair of    *)
(* readings of the converter and for every set of readings to start from:  *)
(* the three properties of VoltReadings.                                   *)
(*                                                                         *)
(* The argument.  A number of 16 bits is 256 times its high byte plus its  *)
(* low byte (TwoBytes), also when it is negative; a flipped bit changes    *)
(* one of four bytes by less than 256, so it changes their sum modulo 256; *)
(* and the digits that C's division and remainder, which round towards     *)
(* zero, take from a number give it back (DigitsOfCurrent).                *)
(***************************************************************************)
EXTENDS VoltReadings, SequenceTheorems, TLAPS

-----------------------------------------------------------------------------
ReadingsInv == cur \in Readings /\ bat \in Readings

\* Wherever the averages of volt_app.c start, they stay readings of the 12-bit
\* converter.
THEOREM ReadingsInvariant == Spec => []ReadingsInv
<1>1. Init => ReadingsInv
  BY StartAssumption DEF Init, ReadingsInv
<1>2. ReadingsInv /\ [Next]_vars => ReadingsInv'
  BY DEF ReadingsInv, Next, DriftCur, DriftBat, vars
<1> QED BY <1>1, <1>2, PTL DEF Spec

-----------------------------------------------------------------------------
(* Bytes.                                                                  *)

\* A number of 8 bits, and one of 16 in two bytes, signed.
LEMMA OneByte ==
  ASSUME NEW q \in Int, -128 <= q, q < 128
  PROVE  q % 256 = IF q >= 0 THEN q ELSE q + 256
<1>1. CASE q >= 0
  BY <1>1
<1>2. CASE q < 0
  BY <1>2
<1> QED BY <1>1, <1>2

LEMMA TwoBytes ==
  ASSUME NEW x \in Int, -32768 <= x, x < 32768
  PROVE  /\ HiByte(x) \in Byte /\ LoByte(x) \in Byte
         /\ Signed(HiByte(x), LoByte(x)) = x
         /\ x >= 0 => Unsigned(HiByte(x), LoByte(x)) = x
<1> DEFINE q == x \div 256
           r == x % 256
<1>1. q \in Int /\ r \in 0..255 /\ x = 256 * q + r
  OBVIOUS
<1>2. HiByte(x) = q % 256 /\ LoByte(x) = r
  BY DEF HiByte, LoByte
<1> HIDE DEF q, r
<1>3. -128 <= q /\ q < 128
  BY <1>1
<1>4. HiByte(x) = IF q >= 0 THEN q ELSE q + 256
  BY <1>1, <1>2, <1>3, OneByte
<1> QED BY <1>1, <1>2, <1>3, <1>4 DEF Signed, Unsigned, Byte

LEMMA PayloadNumbers ==
  ASSUME NEW c \in Readings, NEW b \in Readings
  PROVE  /\ Current(c) \in Int /\ -32768 <= Current(c) /\ Current(c) < 32768
         /\ Tenths(b) \in Nat /\ Tenths(b) < 32768
         /\ Tenths(b) * 10240 <= b * 693 /\ b * 693 < Tenths(b) * 10240 + 10240
BY DEF Readings, Current, Tenths

LEMMA ChecksumByte ==
  ASSUME NEW p, p[1] \in Byte, p[2] \in Byte, p[3] \in Byte, p[4] \in Byte
  PROVE  Checksum(p) \in Byte
<1>1. \A a, b, c, d \in Byte : a + b + c + d \in Int
  BY DEF Byte
<1> DEFINE x == p[1] + p[2] + p[3] + p[4]
<1>2. x \in Int
  BY <1>1
<1>3. x % 256 \in Byte
  <2> HIDE DEF x
  <2> QED BY <1>2 DEF Byte
<1> QED BY <1>3 DEF Checksum

\* The payload and the seven bytes of a frame.
LEMMA PayloadBytes ==
  ASSUME NEW c \in Readings, NEW b \in Readings
  PROVE  /\ Payload(c, b) \in Seq(Byte) /\ Len(Payload(c, b)) = 4
         /\ Payload(c, b) \in [1..4 -> Byte]
         /\ Checksum(Payload(c, b)) \in Byte
         /\ Signed(Payload(c, b)[1], Payload(c, b)[2]) = Current(c)
         /\ Unsigned(Payload(c, b)[3], Payload(c, b)[4]) = Tenths(b)
<1> DEFINE p == Payload(c, b)
<1>1. Current(c) \in Int /\ -32768 <= Current(c) /\ Current(c) < 32768
  BY PayloadNumbers
<1>2. Tenths(b) \in Int /\ -32768 <= Tenths(b) /\ Tenths(b) < 32768 /\ Tenths(b) >= 0
  BY PayloadNumbers
<1>3. /\ HiByte(Current(c)) \in Byte /\ LoByte(Current(c)) \in Byte
      /\ HiByte(Tenths(b)) \in Byte /\ LoByte(Tenths(b)) \in Byte
  BY <1>1, <1>2, TwoBytes
<1>4. /\ p[1] = HiByte(Current(c)) /\ p[2] = LoByte(Current(c))
      /\ p[3] = HiByte(Tenths(b)) /\ p[4] = LoByte(Tenths(b))
      /\ p \in Seq(Byte) /\ Len(p) = 4
  BY <1>3 DEF Payload
<1>5. Signed(p[1], p[2]) = Current(c) /\ Unsigned(p[3], p[4]) = Tenths(b)
  <2> HIDE DEF p
  <2> QED BY <1>1, <1>2, <1>4, TwoBytes
<1> HIDE DEF p
<1>6. Checksum(p) \in Byte
  <2>1. p[1] \in Byte /\ p[2] \in Byte /\ p[3] \in Byte /\ p[4] \in Byte
    BY <1>3, <1>4
  <2> QED BY <2>1, ChecksumByte
<1>7. p \in [1..4 -> Byte]
  BY <1>4, LenProperties
<1> QED BY <1>4, <1>5, <1>6, <1>7 DEF p

LEMMA FrameBytes ==
  ASSUME NEW c \in Readings, NEW b \in Readings
  PROVE  /\ Frame(c, b) \in [1..7 -> Byte]
         /\ Signed(Frame(c, b)[2], Frame(c, b)[3]) = Current(c)
         /\ Unsigned(Frame(c, b)[4], Frame(c, b)[5]) = Tenths(b)
         /\ Frame(c, b)[6] = Checksum(Payload(c, b))
<1> DEFINE p == Payload(c, b)
           s == <<90>>
           t == <<Checksum(p), 165>>
<1>1. /\ p \in Seq(Byte) /\ Len(p) = 4 /\ Checksum(p) \in Byte
      /\ Signed(p[1], p[2]) = Current(c) /\ Unsigned(p[3], p[4]) = Tenths(b)
  BY PayloadBytes
<1>2. s \in Seq(Byte) /\ Len(s) = 1
  BY DEF Byte
<1>3. t \in Seq(Byte) /\ Len(t) = 2 /\ t[1] = Checksum(p)
  <2>1. 165 \in Byte
    BY DEF Byte
  <2> HIDE DEF p
  <2> QED BY <1>1, <2>1
<1>4. Frame(c, b) = s \o p \o t
  BY DEF Frame
<1> HIDE DEF p, s, t
<1> DEFINE u == s \o p
           f == u \o t
<1>5. /\ u \in Seq(Byte) /\ Len(u) = Len(s) + Len(p)
      /\ \A i \in 1..Len(s) + Len(p) : u[i] = IF i <= Len(s) THEN s[i] ELSE p[i - Len(s)]
  BY <1>1, <1>2, ConcatProperties
<1>6. Len(u) = 5 /\ u[2] = p[1] /\ u[3] = p[2] /\ u[4] = p[3] /\ u[5] = p[4]
  <2> HIDE DEF u
  <2> QED BY <1>1, <1>2, <1>5
<1>7. /\ f \in Seq(Byte) /\ Len(f) = Len(u) + Len(t)
      /\ \A i \in 1..Len(u) + Len(t) : f[i] = IF i <= Len(u) THEN u[i] ELSE t[i - Len(u)]
  <2>1. u \in Seq(Byte)
    BY <1>5
  <2> HIDE DEF u
  <2> QED BY <1>3, <2>1, ConcatProperties
<1>8. Frame(c, b) = f
  BY <1>4
<1> HIDE DEF u, f
<1>9. /\ Len(f) = 7 /\ f[2] = p[1] /\ f[3] = p[2] /\ f[4] = p[3] /\ f[5] = p[4]
      /\ f[6] = Checksum(p)
  BY <1>3, <1>6, <1>7
<1>10. f \in [1..7 -> Byte]
  BY <1>7, <1>9, LenProperties
<1> QED BY <1>1, <1>8, <1>9, <1>10 DEF p

\* A number whose distance to another is less than 256 has another remainder.
LEMMA OtherRemainder ==
  ASSUME NEW x \in Int, NEW d \in Int, d # 0, -256 < d, d < 256
  PROVE  (x + d) % 256 # x % 256
OBVIOUS

-----------------------------------------------------------------------------
(* The frame.                                                              *)

\* A receiver reads back what was measured, for every pair of readings: the
\* packing into bytes of volt_app.c:93-94 and 107-108 loses nothing.
THEOREM FrameCorrect == Spec => []FrameDecodes
<1>1. ReadingsInv => FrameDecodes
  <2> SUFFICES ASSUME ReadingsInv PROVE FrameDecodes
    OBVIOUS
  <2>1. cur \in Readings /\ bat \in Readings
    BY DEF ReadingsInv
  <2>2. Current(cur) = cur - 1300
    BY DEF Current
  <2> QED BY <2>1, <2>2, FrameBytes, PayloadNumbers DEF FrameDecodes
<1> QED BY <1>1, ReadingsInvariant, PTL

\* Byte k of a payload off by some number.
Damaged(p, k, by) == [p EXCEPT ![k] = @ + by]

\* Less than 256 in one byte changes the sum of all modulo 256.
LEMMA FlipNoticed ==
  ASSUME NEW p \in [1..4 -> Byte], NEW k \in 1..4,
         NEW flip \in Int, flip # 0, -256 < flip, flip < 256
  PROVE  Checksum(Damaged(p, k, flip)) # Checksum(p)
<1> DEFINE q == Damaged(p, k, flip)
           x == p[1] + p[2] + p[3] + p[4]
<1>1. p[1] \in Int /\ p[2] \in Int /\ p[3] \in Int /\ p[4] \in Int
  BY DEF Byte
<1>2. \A i \in 1..4 : q[i] = IF i = k THEN p[i] + flip ELSE p[i]
  BY DEF Damaged
<1> HIDE DEF q
<1>3. q[1] + q[2] + q[3] + q[4] = x + flip
  <2>1. CASE k = 1
    BY <1>1, <1>2, <2>1
  <2>2. CASE k = 2
    BY <1>1, <1>2, <2>2
  <2>3. CASE k = 3
    BY <1>1, <1>2, <2>3
  <2>4. CASE k = 4
    BY <1>1, <1>2, <2>4
  <2> QED BY <2>1, <2>2, <2>3, <2>4
<1>4. x \in Int
  BY <1>1
<1>5. (x + flip) % 256 # x % 256
  <2> HIDE DEF x
  <2> QED BY <1>4, OtherRemainder
<1>6. Checksum(q) = (x + flip) % 256 /\ Checksum(p) = x % 256
  BY <1>3 DEF Checksum
<1> QED BY <1>5, <1>6 DEF q

\* No single flipped bit of the payload goes unnoticed by the sum of
\* volt_app.c:110-115.
THEOREM BitErrorCorrect == Spec => []BitErrorDetected
<1>1. ReadingsInv => BitErrorDetected
  <2> SUFFICES ASSUME ReadingsInv, NEW k \in 1..4,
                      NEW b \in {1, 2, 4, 8, 16, 32, 64, 128}
               PROVE  LET p    == Payload(cur, bat)
                          flip == IF (p[k] \div b) % 2 = 1 THEN -b ELSE b
                      IN  Checksum([p EXCEPT ![k] = @ + flip]) # Frame(cur, bat)[6]
    BY DEF BitErrorDetected
  <2> DEFINE p == Payload(cur, bat)
             flip == IF (p[k] \div b) % 2 = 1 THEN -b ELSE b
  <2>1. p \in [1..4 -> Byte] /\ Frame(cur, bat)[6] = Checksum(p)
    BY PayloadBytes, FrameBytes DEF ReadingsInv
  <2> HIDE DEF p
  <2>2. flip \in Int /\ flip # 0 /\ -256 < flip /\ flip < 256
    OBVIOUS
  <2>3. Checksum(Damaged(p, k, flip)) # Checksum(p)
    <3> HIDE DEF flip
    <3> QED BY <2>1, <2>2, FlipNoticed
  <2> QED BY <2>1, <2>3 DEF p, Damaged
<1> QED BY <1>1, ReadingsInvariant, PTL

-----------------------------------------------------------------------------
(* The display.                                                            *)

\* Division and remainder of C turn with the sign of the number.
LEMMA TowardsZero ==
  ASSUME NEW n \in Nat, NEW k \in {10, 100}
  PROVE  /\ Quot(n, k) = n \div k /\ Quot(-n, k) = -(n \div k)
         /\ Rem(n, k) = n % k /\ Rem(-n, k) = -(n % k)
<1>1. n \div k \in Nat /\ n % k = n - k * (n \div k)
  OBVIOUS
<1>2. Quot(n, k) = n \div k /\ Quot(-n, k) = -(n \div k)
  <2>1. CASE n = 0
    BY <2>1 DEF Quot
  <2>2. CASE n > 0
    BY <2>2 DEF Quot
  <2> QED BY <2>1, <2>2
<1> DEFINE q == n \div k
<1>3. -n - k * (-q) = -(n - k * q)
  <2>1. q \in Nat
    BY <1>1
  <2> HIDE DEF q
  <2> QED BY <2>1
<1> QED BY <1>1, <1>2, <1>3 DEF Rem

LEMMA AbsOfNat ==
  ASSUME NEW n \in Nat
  PROVE  Abs(n) = n /\ Abs(-n) = n
<1>1. n >= 0 /\ (-n >= 0 => -n = n) /\ -(-n) = n
  OBVIOUS
<1> QED BY <1>1 DEF Abs

\* The digits printed for n and for -n.
LEMMA ShownOf ==
  ASSUME NEW n \in Nat, NEW x, x = n \/ x = -n
  PROVE  /\ Abs(Quot(x, 100)) = n \div 100
         /\ Abs(Quot(Rem(x, 100), 10)) = (n % 100) \div 10
         /\ Abs(Rem(x, 10)) = n % 10
<1> DEFINE q == n \div 100
           m == n % 100
           t == m \div 10
           h == n % 10
<1>1. q \in Nat /\ m \in Nat /\ h \in Nat
  OBVIOUS
<1>2. t \in Nat
  <2> HIDE DEF m
  <2> QED BY <1>1
<1>3. Quot(n, 100) = q /\ Quot(-n, 100) = -q
  BY TowardsZero
<1>4. Rem(n, 100) = m /\ Rem(-n, 100) = -m
  BY TowardsZero
<1>5. Rem(n, 10) = h /\ Rem(-n, 10) = -h
  BY TowardsZero
<1> HIDE DEF q, m, h
<1>6. Quot(m, 10) = t /\ Quot(-m, 10) = -t
  BY <1>1, TowardsZero
<1> HIDE DEF t
<1>7. CASE x = n
  <2>1. Abs(q) = q /\ Abs(t) = t /\ Abs(h) = h
    BY <1>1, <1>2, AbsOfNat
  <2> QED BY <1>3, <1>4, <1>5, <1>6, <1>7, <2>1 DEF q, m, t, h
<1>8. CASE x = -n
  <2>1. Abs(-q) = q /\ Abs(-t) = t /\ Abs(-h) = h
    BY <1>1, <1>2, AbsOfNat
  <2> QED BY <1>3, <1>4, <1>5, <1>6, <1>8, <2>1 DEF q, m, t, h
<1> QED BY <1>7, <1>8

\* They are decimal digits, and they are those of n.
LEMMA Digits ==
  ASSUME NEW n \in Nat
  PROVE  /\ n \div 100 \in Nat /\ (n % 100) \div 10 \in 0..9 /\ n % 10 \in 0..9
         /\ (n \div 100) * 100 + ((n % 100) \div 10) * 10 + (n % 10) = n
<1> DEFINE q == n \div 100
           m == n % 100
           t == m \div 10
           h == m % 10
<1>1. q \in Nat /\ m \in 0..99 /\ n = 100 * q + m
  OBVIOUS
<1> HIDE DEF q, m
<1>2. t \in Int /\ h \in 0..9 /\ m = 10 * t + h
  BY <1>1
<1> HIDE DEF t, h
<1>3. n % 10 = h
  <2>1. n = 10 * (10 * q + t) + h
    BY <1>1, <1>2
  <2> DEFINE z == 10 * q + t
  <2>2. z \in Int
    BY <1>1, <1>2
  <2> HIDE DEF z
  <2>3. (10 * z + h) % 10 = h
    BY <2>2, <1>2
  <2> QED BY <2>1, <2>3 DEF z
<1>4. t \in 0..9
  BY <1>1, <1>2
<1> QED BY <1>1, <1>2, <1>3, <1>4 DEF q, m, t

\* The digits shown for a current, of either sign.
LEMMA DigitsOfCurrent ==
  ASSUME NEW c \in Readings
  PROVE  LET s    == ShownCurrent(c)
             size == s.units * 100 + s.tenths * 10 + s.hundredths
         IN  /\ s.tenths \in 0..9 /\ s.hundredths \in 0..9
             /\ (IF s.negative THEN -size ELSE size) = Current(c)
<1> DEFINE x == Current(c)
           s == ShownCurrent(c)
           size == s.units * 100 + s.tenths * 10 + s.hundredths
<1>1. x \in Int
  BY DEF Readings, Current
<1>2. /\ s.negative = (x < 0) /\ s.units = Abs(Quot(x, 100))
      /\ s.tenths = Abs(Quot(Rem(x, 100), 10)) /\ s.hundredths = Abs(Rem(x, 10))
  BY DEF ShownCurrent
<1> HIDE DEF s, x
<1>3. ASSUME NEW n \in Nat, x = n \/ x = -n
      PROVE  s.tenths \in 0..9 /\ s.hundredths \in 0..9 /\ size = n
  <2>1. s.units = n \div 100 /\ s.tenths = (n % 100) \div 10 /\ s.hundredths = n % 10
    BY <1>2, <1>3, ShownOf
  <2> QED BY <2>1, Digits
<1> HIDE DEF size
<1>4. CASE x >= 0
  <2>1. x \in Nat /\ ~(x < 0)
    BY <1>1, <1>4
  <2>2. s.tenths \in 0..9 /\ s.hundredths \in 0..9 /\ size = x
    BY <1>3, <2>1
  <2>3. ~s.negative
    BY <1>2, <2>1
  <2> QED BY <2>2, <2>3 DEF s, x, size
<1>5. CASE x < 0
  <2> DEFINE n == -x
  <2>1. n \in Nat /\ x = -n
    BY <1>1, <1>5
  <2>2. s.tenths \in 0..9 /\ s.hundredths \in 0..9 /\ size = n
    <3> HIDE DEF n
    <3> QED BY <1>3, <2>1
  <2>3. s.negative
    BY <1>2, <1>5
  <2>4. -size = x
    BY <2>1, <2>2
  <2> QED BY <2>2, <2>3, <2>4 DEF s, x, size
<1> QED BY <1>1, <1>4, <1>5

\* The two numbers shown for a voltage are those of the whole one.
LEMMA DigitsOfTenths ==
  ASSUME NEW x \in Nat
  PROVE  /\ (x - (x \div 102400) * 102400) \div 10240 \in 0..9
         /\ (x \div 102400) * 10 + ((x - (x \div 102400) * 102400) \div 10240)
              = x \div 10240
<1> DEFINE u == x \div 102400
           r == x % 102400
           t == r \div 10240
           h == r % 10240
<1>1. u \in Nat /\ r \in Nat /\ r < 102400 /\ x = 102400 * u + r
  OBVIOUS
<1> HIDE DEF u, r
<1>2. t \in Int /\ h \in Int /\ 0 <= h /\ h < 10240 /\ r = 10240 * t + h
  BY <1>1
<1> HIDE DEF t, h
<1>3. 0 <= t /\ t <= 9
  BY <1>1, <1>2
<1>4. x \div 10240 = u * 10 + t
  <2> DEFINE z == 10 * u + t
  <2>1. x = 10240 * z + h
    BY <1>1, <1>2
  <2>2. z \in Int
    BY <1>1, <1>2
  <2> HIDE DEF z
  <2>3. (10240 * z + h) \div 10240 = z
    BY <1>2, <2>2
  <2>4. z = u * 10 + t
    BY <1>1, <1>2 DEF z
  <2> QED BY <2>1, <2>3, <2>4
<1>5. x - u * 102400 = r
  BY <1>1
<1> QED BY <1>2, <1>3, <1>4, <1>5 DEF u, t

LEMMA DigitsOfVolts ==
  ASSUME NEW b \in Readings
  PROVE  LET v == ShownVolts(b)
         IN  v.tenths \in 0..9 /\ v.units * 10 + v.tenths = Tenths(b)
<1> DEFINE x == b * 693
<1>1. x \in Nat
  BY DEF Readings
<1>2. /\ ShownVolts(b).units = x \div 102400
      /\ ShownVolts(b).tenths = (x - (x \div 102400) * 102400) \div 10240
      /\ Tenths(b) = x \div 10240
  BY DEF ShownVolts, Tenths
<1> HIDE DEF x
<1> QED BY <1>1, <1>2, DigitsOfTenths

\* The digits printed by volt_app.c:38-58 and 73-78 are those of the quantities
\* in the frame, for every pair of readings.
THEOREM DisplayCorrect == Spec => []DisplayMatchesFrame
<1>1. ReadingsInv => DisplayMatchesFrame
  BY FrameBytes, DigitsOfCurrent, DigitsOfVolts DEF ReadingsInv, DisplayMatchesFrame
<1> QED BY <1>1, ReadingsInvariant, PTL
=============================================================================
