----------------------------- MODULE VoltFrame ------------------------------
(***************************************************************************)
(* What the current/voltage detector makes of its two averaged ADC values  *)
(* (volt_app.c): the seven bytes of a radio frame, and the digits of the   *)
(* debug display.  The floating-point conversion                           *)
(*     (float)adcx * (3.3/4096) * 8.4                                      *)
(* is adcx * 693 / 102400 volts; in all 4096 cases its single-precision    *)
(* result truncates to the same integers as this rational number.          *)
(***************************************************************************)
EXTENDS Integers, Sequences

\* A 12-bit converter, right aligned.
Readings == 0..4095

Byte == 0..255

-----------------------------------------------------------------------------
\* Division and remainder of C: towards zero.
Quot(a, b) == IF a >= 0 THEN a \div b ELSE -((-a) \div b)
Rem(a, b)  == a - b * Quot(a, b)
Abs(a)     == IF a >= 0 THEN a ELSE -a

\* The current in units of 10 mA: 1300 is what the sensor gives at 0 A.
Current(adc) == adc - 1300

\* The battery voltage in tenths of a volt.
Tenths(adc) == (adc * 693) \div 10240

\* (rt_uint8_t)(x >> 8) and (rt_uint8_t)x of a 16-bit x: the shift of a
\* negative x is arithmetic.
\* Mutant: a division where the shift was.
HiByteByDivision(x) == Quot(x, 256) % 256
HiByte(x) == (x \div 256) % 256
LoByte(x) == x % 256

\* Bytes 1 to 4 summed, the loop of lines 111-114.
\* Mutant: one byte short.
ChecksumShort(bytes) == (bytes[1] + bytes[2] + bytes[3]) % 256
Checksum(bytes) == (bytes[1] + bytes[2] + bytes[3] + bytes[4]) % 256

Payload(cur, bat) == << HiByte(Current(cur)), LoByte(Current(cur)),
                        HiByte(Tenths(bat)), LoByte(Tenths(bat)) >>

\* The frame for a current reading cur and a battery reading bat: 0x5A, the
\* payload, the checksum, 0xA5.
Frame(cur, bat) ==
  <<90>> \o Payload(cur, bat) \o <<Checksum(Payload(cur, bat)), 165>>

-----------------------------------------------------------------------------
\* What the debug branch prints.
\* Mutant: the remainder is taken with the sign of the divisor.
ShownCurrentFloored(cur) ==
  LET c == Current(cur)
  IN  [negative |-> c < 0, units |-> Abs(Quot(c, 100)),
       tenths |-> Abs(Quot(c % 100, 10)), hundredths |-> Abs(Rem(c, 10))]

ShownCurrent(cur) ==
  LET c == Current(cur)
  IN  [negative |-> c < 0, units |-> Abs(Quot(c, 100)),
       tenths |-> Abs(Quot(Rem(c, 100), 10)), hundredths |-> Abs(Rem(c, 10))]

ShownVolts(bat) ==
  LET units == (bat * 693) \div 102400
  IN  [units |-> units, tenths |-> (bat * 693 - units * 102400) \div 10240]
=============================================================================
