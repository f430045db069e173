---------------------------- MODULE VoltReadings ----------------------------
(***************************************************************************)
(* The two averaged readings of the detector over time, with the frames of *)
(* VoltFrame.  A reading drifts by one step of the converter while the     *)
(* other one is at a value of a small set: the two meet in the checksum    *)
(* only.  VoltReadingsProofs proves the properties for every pair.         *)
(***************************************************************************)
EXTENDS VoltFrame

CONSTANTS CurReadings, BatReadings   \* bounds: where a reading may stand still

ASSUME StartAssumption ==
  CurReadings \subseteq Readings /\ BatReadings \subseteq Readings

VARIABLES cur, bat   \* averages of channel 7 and of channel 6

vars == <<cur, bat>>

Init == cur \in CurReadings /\ bat \in BatReadings

DriftCur(by) == /\ bat \in BatReadings /\ cur + by \in Readings
                /\ cur' = cur + by /\ UNCHANGED bat
DriftBat(by) == /\ cur \in CurReadings /\ bat + by \in Readings
                /\ bat' = bat + by /\ UNCHANGED cur

Next == \E by \in {-1, 1} : DriftCur(by) \/ DriftBat(by)

Spec == Init /\ [][Next]_vars

-----------------------------------------------------------------------------
\* What a receiver reads from two bytes of a frame: a signed and an unsigned
\* 16-bit number.
Unsigned(hi, lo) == hi * 256 + lo
Signed(hi, lo)   == IF hi >= 128 THEN Unsigned(hi, lo) - 65536 ELSE Unsigned(hi, lo)

\* Both quantities survive the packing into bytes, negative currents and
\* voltages above 25.5 V included (volt_app.c:93-94, 107-108).
FrameDecodes ==
  LET f == Frame(cur, bat)
  IN  /\ f \in [1..7 -> Byte]
      /\ Signed(f[2], f[3]) = cur - 1300
      /\ LET volts == Unsigned(f[4], f[5]) * 10240
         IN  volts <= bat * 693 /\ bat * 693 < volts + 10240

\* A frame in which one payload bit was flipped fails the checksum of
\* volt_app.c:110-115.
BitErrorDetected ==
  \A k \in 1..4, b \in {1, 2, 4, 8, 16, 32, 64, 128} :
    LET p    == Payload(cur, bat)
        flip == IF (p[k] \div b) % 2 = 1 THEN -b ELSE b
    IN  Checksum([p EXCEPT ![k] = @ + flip]) # Frame(cur, bat)[6]

\* The digits the debug branch prints are those of the quantities the frame
\* carries (volt_app.c:38-58 against 92, 73-78 against 105-106).
DisplayMatchesFrame ==
  LET c == ShownCurrent(cur)
      v == ShownVolts(bat)
      f == Frame(cur, bat)
      size == c.units * 100 + c.tenths * 10 + c.hundredths
  IN  /\ {c.tenths, c.hundredths, v.tenths} \subseteq 0..9
      /\ (IF c.negative THEN -size ELSE size) = Signed(f[2], f[3])
      /\ v.units * 10 + v.tenths = Unsigned(f[4], f[5])
=============================================================================
