--------------------------- MODULE VoltAdcProofs ----------------------------
(***************************************************************************)
(* Type correctness of VoltAdc and what the two users of the converter can *)
(* and cannot do to each other, for every number of samples, every set of  *)
(* channels and every set of command lines.                                *)
(*                                                                         *)
(* The argument.  As long as App_1 never came between the shell's sight of *)
(* EOC and its read, the converter is idle outside the two Get_Adc         *)
(* (AdcIdle); what a torn read leaves standing is of the channel App_1     *)
(* converted last.  So a sample that App_1 begins with EOC clear restarts  *)
(* whatever runs and gets its own channel, one begun in a round without    *)
(* the shell gets at worst the sample before it, and a sample of the shell *)
(* that App_1 does not cut is the only conversion between its start and    *)
(* its end.  RoundInv, AloneInv and GetAdcInv carry this through the sums  *)
(* to the frame and to got.                                                *)
(***************************************************************************)
EXTENDS VoltAdc, TLAPS

-----------------------------------------------------------------------------
(* The converter and the sums.                                             *)

LEMMA ConstantFacts ==
  /\ CurrentCh \in Channels /\ BatteryCh \in Channels /\ CurrentCh # BatteryCh
  /\ None \notin Channels
  /\ Samples \in Nat /\ Samples > 0
BY ChannelsAssumption, SamplesAssumption DEF CurrentCh, BatteryCh, None

LEMMA LineFacts ==
  ASSUME NEW l \in AllLines
  PROVE  l.ch \in Channels /\ l.times \in 0..255
BY ConstantFacts DEF AllLines, DebugLine

LEMMA SelectFacts ==
  ASSUME NEW a \in Converters, NEW ch \in Channels
  PROVE  /\ Select(a, ch) \in Converters
         /\ Select(a, ch).select = ch
         /\ Select(a, ch).busy = (IF a.busy = None THEN None ELSE ch)
         /\ Select(a, ch).eoc = a.eoc /\ Select(a, ch).data = a.data
BY DEF Select, Converters

LEMMA StartFacts ==
  ASSUME NEW a \in Converters
  PROVE  /\ Start(a) \in Converters
         /\ Start(a).select = a.select /\ Start(a).busy = a.select
         /\ Start(a).eoc = a.eoc /\ Start(a).data = a.data
BY DEF Start, Converters

LEMMA FetchFacts ==
  ASSUME NEW a \in Converters
  PROVE  /\ Fetch(a) \in Converters
         /\ Fetch(a).select = a.select /\ Fetch(a).busy = a.busy
         /\ Fetch(a).eoc = "clear" /\ Fetch(a).data = a.data
BY DEF Fetch, Converters

LEMMA ConvertFacts ==
  ASSUME TypeOK, Convert
  PROVE  /\ adc' \in Converters
         /\ adc.busy \in Channels
         /\ adc'.busy = None /\ adc'.eoc = "set" /\ adc'.data = adc.busy
         /\ adc'.select = adc.select
BY DEF Convert, TypeOK, Converters

LEMMA BeginFacts ==
  ASSUME TypeOK, NEW ch \in Channels, Begin(ch)
  PROVE  /\ app' = "wait"
         /\ adc' \in Converters
         /\ adc'.select = ch /\ adc'.busy = ch
         /\ adc'.eoc = adc.eoc /\ adc'.data = adc.data
         /\ cutIn' = (IF sh \in {"start", "read", "fetch"} THEN "cut" ELSE cutIn)
         /\ torn' = (IF sh = "fetch" THEN "yes" ELSE torn)
         /\ cutIn' \in {"no", "found", "cut"} /\ torn' \in {"no", "yes"}
<1>1. adc \in Converters /\ cutIn \in {"no", "found", "cut"} /\ torn \in {"no", "yes"}
  BY DEF TypeOK
<1> QED BY <1>1, SelectFacts, StartFacts DEF Begin

LEMMA EmptyFacts ==
  /\ Empty \in Sums
  /\ \A c \in Channels : Empty[c] = 0
BY ConstantFacts DEF Empty, Sums

LEMMA AddFacts ==
  ASSUME NEW s \in Sums, NEW c \in Channels, NEW n \in 0..Samples, n < Samples,
         \A d \in Channels : s[d] <= n
  PROVE  /\ [s EXCEPT ![c] = @ + 1] \in Sums
         /\ \A d \in Channels : [s EXCEPT ![c] = @ + 1][d] <= n + 1
         /\ s = [d \in Channels |-> IF d = c THEN n ELSE 0] =>
              [s EXCEPT ![c] = @ + 1] = [d \in Channels |-> IF d = c THEN n + 1 ELSE 0]
<1> DEFINE r == [s EXCEPT ![c] = @ + 1]
<1>1. s \in [Channels -> 0..Samples] /\ n + 1 \in 0..Samples
  BY ConstantFacts DEF Sums
<1>2. r = [d \in Channels |-> IF d = c THEN s[d] + 1 ELSE s[d]]
  BY <1>1
<1>3. \A d \in Channels : r[d] \in 0..Samples /\ r[d] <= n + 1
  <2> SUFFICES ASSUME NEW d \in Channels PROVE r[d] \in 0..Samples /\ r[d] <= n + 1
    OBVIOUS
  <2>1. s[d] \in 0..Samples /\ s[d] <= n
    BY <1>1
  <2>2. r[d] = IF d = c THEN s[d] + 1 ELSE s[d]
    BY <1>2
  <2> HIDE DEF r
  <2> QED BY <2>1, <2>2, ConstantFacts
<1>4. r \in Sums
  BY <1>2, <1>3 DEF Sums
<1>5. s = [d \in Channels |-> IF d = c THEN n ELSE 0] =>
        r = [d \in Channels |-> IF d = c THEN n + 1 ELSE 0]
  BY <1>2
<1> QED BY <1>3, <1>4, <1>5

\* First(c, ch, n) is what n samples give of which the first is of c and the
\* others are of ch.
LEMMA FirstOne ==
  ASSUME NEW c \in Channels, NEW ch \in Channels
  PROVE  [Empty EXCEPT ![c] = @ + 1] = First(c, ch, 1)
<1>1. [Empty EXCEPT ![c] = @ + 1] = [d \in Channels |-> IF d = c THEN 1 ELSE 0]
  BY DEF Empty
<1>2. First(c, ch, 1) = [d \in Channels |-> IF d = c THEN 1 ELSE 0]
  BY DEF First
<1> QED BY <1>1, <1>2

LEMMA FirstMore ==
  ASSUME NEW c \in Channels, NEW ch \in Channels, NEW n \in Nat
  PROVE  [First(c, ch, n) EXCEPT ![ch] = @ + 1] = First(c, ch, n + 1)
<1> DEFINE f == First(c, ch, n)
<1>1. [f EXCEPT ![ch] = @ + 1] = [d \in Channels |-> IF d = ch THEN f[d] + 1 ELSE f[d]]
  BY DEF First
<1>2. ASSUME NEW d \in Channels
      PROVE  (IF d = ch THEN f[d] + 1 ELSE f[d])
               = (IF d = ch THEN n ELSE 0) + (IF d = c THEN 1 ELSE 0)
  <2>1. f[d] = (IF d = ch THEN n - 1 ELSE 0) + (IF d = c THEN 1 ELSE 0)
    BY DEF First
  <2> HIDE DEF f
  <2>2. CASE d = ch
    BY <2>1, <2>2
  <2>3. CASE d # ch
    BY <2>1, <2>3
  <2> QED BY <2>2, <2>3
<1>3. First(c, ch, n + 1)
        = [d \in Channels |-> (IF d = ch THEN n ELSE 0) + (IF d = c THEN 1 ELSE 0)]
  BY DEF First
<1> HIDE DEF f
<1>4. [f EXCEPT ![ch] = @ + 1] = First(c, ch, n + 1)
  BY <1>1, <1>2, <1>3
<1> QED BY <1>4 DEF f

-----------------------------------------------------------------------------
(* Type correctness.                                                       *)

TypeInv == TypeOK /\ SumInv /\ CountInv

LEMMA TypeInit == Init => TypeInv
<1> SUFFICES ASSUME Init PROVE TypeInv
  OBVIOUS
<1> USE ConstantFacts, EmptyFacts DEF Init
<1>1. Only(CurrentCh) \in Sums /\ Only(BatteryCh) \in Sums
  BY DEF Only, Sums
<1>2. frame \in Frames
  BY <1>1 DEF Frames, NoFrame
<1>3. adc \in Converters
  BY DEF Converters
<1>4. line \in AllLines
  BY DEF AllLines
<1>5. TypeOK
  BY <1>2, <1>3, <1>4 DEF TypeOK
<1>6. SumInv /\ CountInv
  BY DEF SumInv, CountInv
<1> QED BY <1>5, <1>6 DEF TypeInv

\* A step of App_1 that begins a sample with sum' and i' as it should be.
LEMMA BeginType ==
  ASSUME TypeInv, NEW ch \in Channels, Begin(ch), ch = PhaseCh',
         UNCHANGED <<flag, shVars>>,
         branch' \in {"frame", "debug"}, phase' \in {"current", "battery"},
         i' \in 0..Samples, i' < Samples,
         sum' \in Sums, \A c \in Channels : sum'[c] <= i',
         curSum' \in Sums, frame' \in Frames,
         met' \in {"no", "yes"}, alone' \in {"no", "yes"}
  PROVE  TypeInv'
<1>1. TypeOK
  BY DEF TypeInv
<1>2. /\ app' = "wait" /\ adc' \in Converters /\ adc'.busy = ch
      /\ cutIn' \in {"no", "found", "cut"} /\ torn' \in {"no", "yes"}
  BY <1>1, BeginFacts
<1>3. TypeOK'
  BY <1>1, <1>2 DEF TypeOK, shVars
<1>4. SumInv'
  BY <1>2 DEF SumInv, Underway
<1>5. CountInv'
  BY DEF TypeInv, CountInv, shVars
<1> QED BY <1>3, <1>4, <1>5 DEF TypeInv

LEMMA MeetsType == TypeOK => Meets \in {"no", "yes"}
BY DEF TypeOK, Meets

LEMMA TypeStep == TypeInv /\ [Next]_vars => TypeInv'
<1> SUFFICES ASSUME TypeInv, [Next]_vars PROVE TypeInv'
  OBVIOUS
<1>0. TypeOK /\ SumInv /\ CountInv
  BY DEF TypeInv
<1>1. ASSUME UNCHANGED vars PROVE TypeInv'
  BY <1>0, <1>1 DEF vars, appVars, shVars, history, TypeInv, TypeOK, SumInv, CountInv,
     Underway, PhaseCh
<1>2. ASSUME Convert PROVE TypeInv'
  <2>1. TypeOK'
    BY <1>0, <1>2, ConvertFacts DEF Convert, TypeOK, appVars, shVars, history
  <2>2. SumInv' /\ CountInv'
    BY <1>0, <1>2, ConvertFacts DEF Convert, appVars, shVars, SumInv, CountInv,
       Underway, PhaseCh
  <2> QED BY <2>1, <2>2 DEF TypeInv
<1>3. ASSUME NextSample PROVE TypeInv'
  <2> DEFINE ch == IF phase = "current" THEN CurrentCh ELSE BatteryCh
  <2>1. ch \in Channels /\ Begin(ch) /\ ch = PhaseCh'
    BY <1>3, ConstantFacts DEF NextSample, PhaseCh
  <2>2. met' \in {"no", "yes"}
    BY <1>0, <1>3, MeetsType DEF NextSample
  <2>3. /\ i' \in 0..Samples /\ i' < Samples
        /\ \A c \in Channels : sum'[c] <= i'
    BY <1>0, <1>3 DEF NextSample, TypeOK, SumInv
  <2> HIDE DEF ch
  <2> QED BY <1>0, <1>3, <2>1, <2>2, <2>3, BeginType DEF NextSample, TypeOK
<1>4. ASSUME ToBattery PROVE TypeInv'
  <2>1. met' \in {"no", "yes"}
    BY <1>0, <1>4, MeetsType DEF ToBattery
  <2>2. i' \in 0..Samples /\ i' < Samples /\ \A c \in Channels : sum'[c] <= i'
    BY <1>4, EmptyFacts, ConstantFacts DEF ToBattery
  <2>3. sum' \in Sums /\ curSum' \in Sums
    BY <1>0, <1>4, EmptyFacts DEF ToBattery, TypeOK
  <2>4. BatteryCh = PhaseCh'
    BY <1>4 DEF ToBattery, PhaseCh
  <2> QED BY <1>0, <1>4, <2>1, <2>2, <2>3, <2>4, BeginType, ConstantFacts
          DEF ToBattery, TypeOK
<1>5. ASSUME LoopHead PROVE /\ Begin(CurrentCh) /\ i' \in 0..Samples /\ i' < Samples
                            /\ i' = 0 /\ CurrentCh = PhaseCh'
                            /\ branch' \in {"frame", "debug"} /\ phase' = "current"
                            /\ met' \in {"no", "yes"} /\ alone' \in {"no", "yes"}
  BY <1>5, ConstantFacts DEF LoopHead, PhaseCh
<1>6. ASSUME SendFrame PROVE TypeInv'
  <2>1. LoopHead
    BY <1>6 DEF SendFrame
  <2>2. sum' \in Sums /\ \A c \in Channels : sum'[c] <= 0
    BY <1>6, EmptyFacts DEF SendFrame
  <2>3. frame' \in Frames /\ curSum' \in Sums
    BY <1>0, <1>6 DEF SendFrame, TypeOK, Frames
  <2> QED BY <1>5, <1>6, <2>1, <2>2, <2>3, BeginType, ConstantFacts DEF SendFrame
<1>7. ASSUME EndDebug PROVE TypeInv'
  <2>1. TypeOK'
    BY <1>0, <1>7, EmptyFacts DEF EndDebug, TypeOK, shVars, history
  <2>2. SumInv' /\ CountInv'
    BY <1>0, <1>7, EmptyFacts, ConstantFacts DEF EndDebug, SumInv, CountInv, shVars, TypeOK
  <2> QED BY <2>1, <2>2 DEF TypeInv
<1>8. ASSUME Restart PROVE TypeInv'
  <2>1. LoopHead
    BY <1>8 DEF Restart
  <2>2. sum' \in Sums /\ \A c \in Channels : sum'[c] <= 0
    BY <1>0, <1>8, EmptyFacts DEF Restart, SumInv
  <2>3. frame' \in Frames /\ curSum' \in Sums
    BY <1>0, <1>8 DEF Restart, TypeOK
  <2> QED BY <1>5, <1>8, <2>1, <2>2, <2>3, BeginType, ConstantFacts DEF Restart
<1>9. ASSUME ReadSample PROVE TypeInv'
  <2>1. adc \in Converters /\ adc.data \in Channels
    BY <1>0 DEF TypeOK, Converters
  <2>2. adc' \in Converters
    BY <1>9, <2>1, FetchFacts DEF ReadSample
  <2>3. i \in 0..Samples /\ i < Samples /\ sum \in Sums
        /\ \A d \in Channels : sum[d] <= i
    BY <1>0, <1>9 DEF TypeOK, SumInv, ReadSample
  <2>4. sum' \in Sums /\ \A d \in Channels : sum'[d] <= i'
    <3>1. sum' = [sum EXCEPT ![adc.data] = @ + 1] /\ i' = i + 1
      BY <1>9 DEF ReadSample
    <3>2. /\ [sum EXCEPT ![adc.data] = @ + 1] \in Sums
          /\ \A d \in Channels : [sum EXCEPT ![adc.data] = @ + 1][d] <= i + 1
      BY <2>1, <2>3, AddFacts
    <3> QED BY <3>1, <3>2
  <2>5. i' \in 0..Samples
    BY <1>9, <2>3, ConstantFacts DEF ReadSample
  <2>6. TypeOK'
    BY <1>0, <1>9, <2>2, <2>4, <2>5 DEF ReadSample, TypeOK, shVars, history
  <2>7. SumInv' /\ CountInv'
    BY <1>0, <1>9, <2>4 DEF ReadSample, SumInv, CountInv, shVars
  <2> QED BY <2>6, <2>7 DEF TypeInv
<1>10. ASSUME NEW l \in Lines, Enter(l) PROVE TypeInv'
  <2>1. l \in AllLines /\ l.times \in 0..255
    BY LinesAssumption, LineFacts
  <2>2. TypeOK'
    BY <1>0, <1>10, <2>1 DEF Enter, TypeOK, appVars
  <2>3. SumInv' /\ CountInv'
    BY <1>0, <1>10, <2>1 DEF Enter, SumInv, CountInv, appVars, AppDelayed
  <2> QED BY <2>2, <2>3 DEF TypeInv
<1>11. line.ch \in Channels /\ line.times \in 0..255 /\ adc \in Converters
  BY <1>0, LineFacts DEF TypeOK
<1>12. ASSUME ShSelect PROVE TypeInv'
  <2>1. TypeOK'
    BY <1>0, <1>11, <1>12, SelectFacts DEF ShSelect, TypeOK, appVars
  <2>2. SumInv' /\ CountInv'
    BY <1>0, <1>12 DEF ShSelect, SumInv, CountInv, appVars, AppDelayed
  <2> QED BY <2>1, <2>2 DEF TypeInv
<1>13. ASSUME ShStart PROVE TypeInv'
  <2>1. TypeOK'
    BY <1>0, <1>11, <1>13, StartFacts DEF ShStart, TypeOK, appVars, history
  <2>2. SumInv' /\ CountInv'
    BY <1>0, <1>13 DEF ShStart, SumInv, CountInv, appVars, AppDelayed
  <2> QED BY <2>1, <2>2 DEF TypeInv
<1>14. ASSUME ShCheck PROVE TypeInv'
  <2>1. TypeOK'
    BY <1>0, <1>14 DEF ShCheck, TypeOK, appVars, history
  <2>2. SumInv' /\ CountInv'
    BY <1>0, <1>14 DEF ShCheck, SumInv, CountInv, appVars, AppDelayed
  <2> QED BY <2>1, <2>2 DEF TypeInv
<1>15. ASSUME ShFetch PROVE TypeInv'
  <2>1. t < line.times
    BY <1>0, <1>15 DEF ShFetch, CountInv
  <2>2. adc.data \in Channels /\ t' \in 0..255
    BY <1>0, <1>11, <1>15, <2>1 DEF ShFetch, TypeOK, Converters
  <2>3. TypeOK'
    BY <1>0, <1>11, <1>15, <2>2, FetchFacts DEF ShFetch, TypeOK, appVars, history
  <2>4. SumInv' /\ CountInv'
    BY <1>0, <1>15 DEF ShFetch, SumInv, CountInv, appVars, AppDelayed
  <2> QED BY <2>3, <2>4 DEF TypeInv
<1>16. ASSUME ShDelayOver PROVE TypeInv'
  <2>1. TypeOK'
    BY <1>0, <1>16 DEF ShDelayOver, TypeOK, appVars, history
  <2>2. SumInv' /\ CountInv'
    BY <1>0, <1>16 DEF ShDelayOver, SumInv, CountInv, appVars, AppDelayed
  <2> QED BY <2>1, <2>2 DEF TypeInv
<1> QED
  BY <1>1, <1>2, <1>3, <1>4, <1>6, <1>7, <1>8, <1>9, <1>10, <1>12, <1>13,
     <1>14, <1>15, <1>16 DEF Next, App, ShellRun

\* Every variable of the detector stays in its type, the counts of temp_val and
\* of adc_average within their loops (volt_app.c:86-90, adc.c:65).
THEOREM TypeCorrect == Spec => []TypeOK
<1>1. TypeInv => TypeOK
  BY DEF TypeInv
<1> QED BY TypeInit, TypeStep, <1>1, PTL DEF Spec

-----------------------------------------------------------------------------
(* Whose conversion is it?                                                 *)

Sharing == AdcIdle /\ RoundInv /\ AloneInv /\ GetAdcInv /\ FrameClean

IInv == TypeInv /\ Sharing

LEMMA FirstIsOnly ==
  ASSUME NEW ch \in Channels
  PROVE  Only(ch) = First(ch, ch, Samples)
BY ConstantFacts DEF Only, First

LEMMA SharingInit == Init => IInv
<1> SUFFICES ASSUME Init PROVE IInv
  OBVIOUS
<1>1. AdcIdle /\ GetAdcInv
  BY DEF Init, AdcIdle, GetAdcInv
<1>2. RoundInv /\ AloneInv
  BY DEF Init, RoundInv, AloneInv
<1>3. FrameClean
  <2>1. /\ frame.current = Only(CurrentCh) /\ frame.battery = Only(BatteryCh)
    BY DEF Init, NoFrame
  <2>2. /\ frame.current = First(CurrentCh, CurrentCh, Samples)
        /\ frame.battery = First(BatteryCh, BatteryCh, Samples)
    BY <2>1, FirstIsOnly, ConstantFacts
  <2> QED BY <2>1, <2>2, ConstantFacts DEF FrameClean
<1> QED BY <1>1, <1>2, <1>3, TypeInit DEF IInv, Sharing

\* What App_1 begins gets its own channel, unless EOC was set; what it cuts is
\* marked as cut, and a torn read as torn.
LEMMA BeginSharing ==
  ASSUME IInv, NEW ch \in Channels, Begin(ch), app # "wait", UNCHANGED shVars
  PROVE  /\ AdcIdle' /\ GetAdcInv'
         /\ adc'.busy = ch /\ adc'.eoc = adc.eoc /\ adc'.data = adc.data
         /\ torn' = "no" => torn = "no"
         /\ torn' = "no" /\ sh = "prompt" => adc.eoc = "clear"
<1>1. TypeOK /\ AdcIdle /\ GetAdcInv
  BY DEF IInv, TypeInv, Sharing
<1>2. /\ app' = "wait"
      /\ adc'.busy = ch /\ adc'.eoc = adc.eoc /\ adc'.data = adc.data
      /\ cutIn' = (IF sh \in {"start", "read", "fetch"} THEN "cut" ELSE cutIn)
      /\ torn' = (IF sh = "fetch" THEN "yes" ELSE torn)
  BY <1>1, BeginFacts
<1>3. torn' = "no" => torn = "no" /\ sh # "fetch"
  BY <1>2
<1>4. AdcIdle'
  BY <1>1, <1>2, <1>3, ConstantFacts DEF AdcIdle, shVars
<1>5. GetAdcInv'
  BY <1>1, <1>2 DEF GetAdcInv, shVars
<1>6. torn' = "no" /\ sh = "prompt" => adc.eoc = "clear"
  BY <1>1, <1>3 DEF AdcIdle
<1> QED BY <1>2, <1>3, <1>4, <1>5, <1>6

LEMMA LoopHeadSharing ==
  ASSUME IInv, LoopHead, app # "wait", UNCHANGED shVars, sum' = Empty
  PROVE  AdcIdle' /\ GetAdcInv' /\ RoundInv' /\ AloneInv'
<1>1. Begin(CurrentCh) /\ phase' = "current" /\ i' = 0 /\ PhaseCh' = CurrentCh
  BY DEF LoopHead, PhaseCh
<1>2. /\ AdcIdle' /\ GetAdcInv'
      /\ adc'.busy = CurrentCh /\ adc'.eoc = adc.eoc
      /\ torn' = "no" /\ sh = "prompt" => adc.eoc = "clear"
  BY <1>1, BeginSharing, ConstantFacts
<1>3. /\ met' = (IF adc.eoc = "set" THEN "yes" ELSE "no")
      /\ alone' = (IF sh = "prompt" THEN "yes" ELSE "no") /\ sh' = sh
  BY DEF LoopHead, shVars
<1>4. ASSUME met' = "no" PROVE Own(PhaseCh)'
  <2>1. adc.eoc = "clear"
    BY <1>3, <1>4 DEF IInv, TypeInv, TypeOK, Converters
  <2> QED BY <1>1, <1>2, <2>1 DEF Own
<1>5. sum' = [c \in Channels |-> IF c = PhaseCh' THEN i' ELSE 0]
  BY <1>1 DEF Empty
<1>6. RoundInv'
  BY <1>1, <1>4, <1>5 DEF RoundInv
<1>7. AloneInv'
  BY <1>1, <1>2, <1>3 DEF AloneInv
<1> QED BY <1>2, <1>6, <1>7

LEMMA ConvertSharing ==
  ASSUME IInv, Convert
  PROVE  Sharing'
<1>0. TypeOK /\ AdcIdle /\ RoundInv /\ AloneInv /\ GetAdcInv /\ FrameClean
  BY DEF IInv, TypeInv, Sharing
<1>1. /\ adc.busy \in Channels /\ adc.busy # None
      /\ adc'.busy = None /\ adc'.eoc = "set"
      /\ adc'.data = adc.busy /\ adc'.select = adc.select
  BY <1>0, ConvertFacts DEF Convert
<1>2. UNCHANGED <<appVars, shVars, history>>
  BY DEF Convert
<1>3. \A ch : Own(ch) => Own(ch)'
  BY <1>1 DEF Own
<1>4. AdcIdle'
  BY <1>0, <1>1, <1>2 DEF AdcIdle, appVars, shVars, history, AppDelayed
<1>5. PhaseCh' = PhaseCh /\ (Own(PhaseCh) => Own(PhaseCh)')
  BY <1>1, <1>2, <1>3 DEF PhaseCh, appVars, Own
<1>6. RoundInv'
  BY <1>0, <1>2, <1>5 DEF RoundInv, appVars, history
<1>7. AloneInv'
  <2>1. i = 0 /\ adc.busy \in {None, PhaseCh} /\ phase = "battery" => adc'.data = BatteryCh
    BY <1>1 DEF PhaseCh
  <2> QED BY <1>0, <1>1, <1>2, <1>5, <2>1 DEF AloneInv, appVars, shVars, history
<1>8. GetAdcInv'
  <2>1. Own(line.ch) => Own(line.ch)'
    BY <1>1, <1>2 DEF Own, shVars
  <2> QED BY <1>0, <1>1, <1>2, <2>1 DEF GetAdcInv, appVars, shVars, history, AppDelayed
<1>9. FrameClean'
  BY <1>0, <1>2 DEF FrameClean, appVars, history
<1> QED BY <1>4, <1>6, <1>7, <1>8, <1>9 DEF Sharing

LEMMA NextSampleSharing ==
  ASSUME IInv, NextSample
  PROVE  Sharing'
<1>0. TypeOK /\ AdcIdle /\ RoundInv /\ AloneInv /\ GetAdcInv /\ FrameClean
  BY DEF IInv, TypeInv, Sharing
<1> DEFINE ch == PhaseCh
<1>1. ch \in Channels /\ Begin(ch) /\ app = "delay" /\ UNCHANGED shVars
  BY ConstantFacts DEF NextSample, PhaseCh
<1>2. /\ AdcIdle' /\ GetAdcInv'
      /\ torn' = "no" => torn = "no"
      /\ torn' = "no" /\ sh = "prompt" => adc.eoc = "clear"
  BY <1>1, BeginSharing
<1>3. /\ app' = "wait" /\ adc'.busy = ch /\ adc'.eoc = adc.eoc /\ adc'.data = adc.data
  BY <1>0, <1>1, BeginFacts
<1>4. UNCHANGED <<phase, sum, i, curSum, frame, alone>> /\ PhaseCh' = ch /\ met' = Meets
  BY DEF NextSample, PhaseCh
<1>5. adc.eoc = "clear" => Own(PhaseCh)'
  BY <1>3, <1>4 DEF Own
<1>6. /\ met' = "no" => met = "no" /\ adc.eoc = "clear"
      /\ adc.eoc = "clear" => met' = met
  BY <1>0, <1>4 DEF Meets, TypeOK, Converters
<1>7. RoundInv'
  BY <1>0, <1>1, <1>3, <1>4, <1>5, <1>6 DEF RoundInv
<1>8. Own(ch) => Own(PhaseCh)'
  BY <1>3, <1>4 DEF Own
<1>9. AloneInv'
  BY <1>0, <1>1, <1>2, <1>3, <1>4, <1>6, <1>8 DEF AloneInv, shVars
<1>10. FrameClean'
  BY <1>0, <1>2, <1>4 DEF FrameClean, TypeOK
<1> QED BY <1>2, <1>7, <1>9, <1>10 DEF Sharing

LEMMA ToBatterySharing ==
  ASSUME IInv, ToBattery
  PROVE  Sharing'
<1>0. TypeOK /\ AdcIdle /\ RoundInv /\ AloneInv /\ GetAdcInv /\ FrameClean
  BY DEF IInv, TypeInv, Sharing
<1>1. /\ Begin(BatteryCh) /\ app = "delay" /\ UNCHANGED <<shVars, frame, alone>>
      /\ i = Samples /\ phase = "current" /\ phase' = "battery" /\ i' = 0
      /\ curSum' = sum /\ sum' = Empty /\ met' = Meets
  BY DEF ToBattery
<1>2. /\ AdcIdle' /\ GetAdcInv'
      /\ torn' = "no" => torn = "no"
      /\ torn' = "no" /\ sh = "prompt" => adc.eoc = "clear"
  BY <1>1, BeginSharing, ConstantFacts
<1>3. /\ app' = "wait" /\ adc'.busy = BatteryCh
      /\ adc'.eoc = adc.eoc /\ adc'.data = adc.data
  BY <1>0, <1>1, BeginFacts, ConstantFacts
<1>4. PhaseCh = CurrentCh /\ PhaseCh' = BatteryCh
  BY <1>1 DEF PhaseCh
<1>5. /\ met' = "no" => met = "no" /\ adc.eoc = "clear"
      /\ adc.eoc = "clear" => met' = met
  BY <1>0, <1>1 DEF Meets, TypeOK, Converters
<1>6. met = "no" => curSum' = Only(CurrentCh)
  BY <1>0, <1>1, <1>4 DEF RoundInv, Only
<1>7. sum' = [c \in Channels |-> IF c = PhaseCh' THEN i' ELSE 0]
  BY <1>1 DEF Empty
<1>8. adc.eoc = "clear" => Own(PhaseCh)'
  BY <1>3, <1>4 DEF Own
<1>9. RoundInv'
  BY <1>1, <1>3, <1>5, <1>6, <1>7, <1>8 DEF RoundInv
<1>10. ASSUME alone = "yes"
       PROVE  /\ adc'.eoc = "set" => adc'.data = CurrentCh
              /\ \E c \in Channels : curSum' = First(c, CurrentCh, Samples)
              /\ sh = "prompt" /\ (torn = "no" => met = "no")
  BY <1>0, <1>1, <1>3, <1>4, <1>10, ConstantFacts DEF AloneInv, Own
<1>11. AloneInv'
  BY <1>1, <1>2, <1>3, <1>4, <1>5, <1>10 DEF AloneInv, shVars
<1>12. FrameClean'
  BY <1>0, <1>1, <1>2 DEF FrameClean
<1> QED BY <1>2, <1>9, <1>11, <1>12 DEF Sharing

LEMMA SendFrameSharing ==
  ASSUME IInv, SendFrame
  PROVE  Sharing'
<1>0. TypeOK /\ AdcIdle /\ RoundInv /\ AloneInv /\ GetAdcInv /\ FrameClean
  BY DEF IInv, TypeInv, Sharing
<1>1. /\ LoopHead /\ app = "delay" /\ UNCHANGED shVars /\ sum' = Empty
      /\ i = Samples /\ phase = "battery" /\ PhaseCh = BatteryCh
      /\ frame' = [current |-> curSum, battery |-> sum, met |-> met, alone |-> alone]
  BY DEF SendFrame, PhaseCh
<1>2. AdcIdle' /\ GetAdcInv' /\ RoundInv' /\ AloneInv'
  BY <1>1, LoopHeadSharing
<1>3. torn' = "no" => torn = "no"
  BY <1>1, BeginSharing, ConstantFacts DEF LoopHead
<1>4. met = "no" => curSum = Only(CurrentCh) /\ sum = Only(BatteryCh)
  BY <1>0, <1>1 DEF RoundInv, Only
<1>5. alone = "yes" =>
        /\ torn = "no" => met = "no"
        /\ \E c \in Channels : curSum = First(c, CurrentCh, Samples)
        /\ \E c \in {CurrentCh, BatteryCh} : sum = First(c, BatteryCh, Samples)
  BY <1>0, <1>1, ConstantFacts DEF AloneInv
<1>6. FrameClean'
  BY <1>1, <1>3, <1>4, <1>5 DEF FrameClean
<1> QED BY <1>2, <1>6 DEF Sharing

LEMMA RestartSharing ==
  ASSUME IInv, Restart
  PROVE  Sharing'
<1>1. LoopHead /\ app = "tail" /\ UNCHANGED <<shVars, frame>> /\ sum' = Empty
  BY DEF Restart, IInv, TypeInv, SumInv
<1>2. AdcIdle' /\ GetAdcInv' /\ RoundInv' /\ AloneInv'
  BY <1>1, LoopHeadSharing
<1>3. torn' = "no" => torn = "no"
  BY <1>1, BeginSharing, ConstantFacts DEF LoopHead
<1>4. FrameClean'
  BY <1>1, <1>3 DEF FrameClean, IInv, Sharing
<1> QED BY <1>2, <1>4 DEF Sharing

LEMMA ReadSampleSharing ==
  ASSUME IInv, ReadSample
  PROVE  Sharing'
<1>0. /\ TypeOK /\ SumInv
      /\ AdcIdle /\ RoundInv /\ AloneInv /\ GetAdcInv /\ FrameClean
  BY DEF IInv, TypeInv, Sharing
<1>1. /\ app = "wait" /\ app' = "delay" /\ adc.eoc = "set" /\ i' = i + 1
      /\ sum' = [sum EXCEPT ![adc.data] = @ + 1]
      /\ UNCHANGED <<phase, curSum, frame, shVars, history>> /\ PhaseCh' = PhaseCh
  BY DEF ReadSample, PhaseCh
<1>2. /\ adc'.busy = adc.busy /\ adc'.eoc = "clear" /\ adc.data \in Channels
      /\ PhaseCh \in Channels
  BY <1>0, FetchFacts, ConstantFacts DEF ReadSample, TypeOK, Converters, PhaseCh
<1>3. /\ sum \in Sums /\ i \in 0..Samples /\ i < Samples /\ i \in Nat
      /\ \A d \in Channels : sum[d] <= i
  BY <1>0, <1>1, ConstantFacts DEF TypeOK, SumInv
<1>4. AdcIdle'
  BY <1>0, <1>1, <1>2 DEF AdcIdle, shVars, history, AppDelayed
<1>5. GetAdcInv'
  BY <1>0, <1>1 DEF GetAdcInv, shVars, history, AppDelayed
<1>6. ASSUME met = "no"
      PROVE  sum' = [c \in Channels |-> IF c = PhaseCh THEN i + 1 ELSE 0]
  <2>1. /\ adc.data = PhaseCh
        /\ sum = [c \in Channels |-> IF c = PhaseCh THEN i ELSE 0]
    BY <1>0, <1>1, <1>6 DEF RoundInv, Own
  <2> QED BY <1>1, <1>2, <1>3, <2>1, AddFacts
<1>7. RoundInv'
  BY <1>0, <1>1, <1>6 DEF RoundInv, history
<1>8. ASSUME alone = "yes"
      PROVE  /\ Own(PhaseCh)'
             /\ \E c \in Channels : sum' = First(c, PhaseCh, i + 1)
             /\ phase = "battery" =>
                  \E c \in {CurrentCh, BatteryCh} : sum' = First(c, BatteryCh, i + 1)
  <2>1. adc.busy \in {None, PhaseCh}
    BY <1>0, <1>1, <1>3, <1>8 DEF AloneInv, Own
  <2>2. Own(PhaseCh)'
    BY <1>1, <1>2, <2>1 DEF Own
  <2>3. CASE i = 0
    <3>1. sum' = First(adc.data, PhaseCh, 1)
      <4>1. sum = Empty
        BY <1>0, <1>1, <1>8, <2>3 DEF AloneInv
      <4>2. [Empty EXCEPT ![adc.data] = @ + 1] = First(adc.data, PhaseCh, 1)
        BY <1>2, FirstOne
      <4> QED BY <1>1, <4>1, <4>2
    <3>2. phase = "battery" => adc.data \in {CurrentCh, BatteryCh} /\ PhaseCh = BatteryCh
      BY <1>0, <1>1, <1>8, <2>3 DEF AloneInv, PhaseCh
    <3> QED BY <1>2, <2>2, <2>3, <3>1, <3>2
  <2>4. CASE i > 0
    <3>1. adc.data = PhaseCh
      BY <1>0, <1>1, <1>8, <2>4 DEF AloneInv, Own
    <3>2. ASSUME NEW c \in Channels, sum = First(c, PhaseCh, i)
          PROVE  sum' = First(c, PhaseCh, i + 1)
      <4>1. [First(c, PhaseCh, i) EXCEPT ![PhaseCh] = @ + 1] = First(c, PhaseCh, i + 1)
        BY <1>2, <1>3, FirstMore
      <4> QED BY <1>1, <3>1, <3>2, <4>1
    <3>3. \E c \in Channels : sum = First(c, PhaseCh, i)
      BY <1>0, <1>1, <1>8, <2>4 DEF AloneInv
    <3>4. phase = "battery" =>
            PhaseCh = BatteryCh /\ \E c \in {CurrentCh, BatteryCh} : sum = First(c, PhaseCh, i)
      BY <1>0, <1>1, <1>8, <2>4 DEF AloneInv, PhaseCh
    <3> QED BY <2>2, <3>2, <3>3, <3>4, ConstantFacts
  <2> QED BY <1>3, <2>3, <2>4
<1>9. AloneInv'
  <2>1. i' # 0 /\ i' = i + 1
    BY <1>1, <1>3
  <2>2. alone = "yes" =>
          /\ sh' = "prompt" /\ (torn' = "no" => met' = "no")
          /\ phase = "battery" => \E c \in Channels : curSum' = First(c, CurrentCh, Samples)
    BY <1>0, <1>1 DEF AloneInv, shVars, history
  <2>3. alone' = alone /\ phase' = phase
    BY <1>1 DEF history
  <2> QED BY <1>1, <1>8, <2>1, <2>2, <2>3 DEF AloneInv
<1>10. FrameClean'
  BY <1>0, <1>1 DEF FrameClean, history
<1> QED BY <1>4, <1>5, <1>7, <1>9, <1>10 DEF Sharing

\* The shell's steps and its command lines.
LEMMA ShellSharing ==
  ASSUME IInv, ShellRun \/ \E l \in Lines : Enter(l)
  PROVE  Sharing'
<1>0. /\ TypeOK /\ AdcIdle /\ RoundInv /\ AloneInv /\ GetAdcInv /\ FrameClean
      /\ adc \in Converters /\ line.ch \in Channels
  BY LineFacts DEF IInv, TypeInv, Sharing, TypeOK
<1>1. /\ app # "wait" /\ UNCHANGED <<appVars, met, torn>> /\ PhaseCh' = PhaseCh
  BY DEF ShellRun, ShSelect, ShStart, ShCheck, ShFetch, ShDelayOver, Enter,
     AppDelayed, history, appVars, PhaseCh
<1>2. RoundInv' /\ FrameClean'
  BY <1>0, <1>1 DEF RoundInv, FrameClean, appVars
<1>3. ASSUME ShellRun PROVE AloneInv'
  <2>1. sh # "prompt" /\ alone' = alone
    BY <1>3 DEF ShellRun, ShSelect, ShStart, ShCheck, ShFetch, ShDelayOver, history
  <2> QED BY <1>0, <1>1, <2>1 DEF AloneInv, appVars
<1>4. ASSUME NEW l \in Lines, Enter(l) PROVE Sharing'
  <2>1. /\ sh = "prompt" /\ adc' = adc /\ cutIn' = cutIn
        /\ alone' = "no" \/ (alone' = alone /\ sh' = sh)
        /\ sh' \in {"prompt", "select"}
    BY <1>4 DEF Enter
  <2>2. Own(PhaseCh)' = Own(PhaseCh)
    BY <1>1, <2>1 DEF Own
  <2>3. AloneInv'
    BY <1>0, <1>1, <2>1, <2>2 DEF AloneInv, appVars
  <2>4. AdcIdle'
    BY <1>0, <1>1, <2>1 DEF AdcIdle, appVars
  <2>5. GetAdcInv'
    BY <1>0, <1>1, <2>1 DEF GetAdcInv
  <2> QED BY <1>2, <2>3, <2>4, <2>5 DEF Sharing
<1>5. ASSUME ShSelect PROVE AdcIdle' /\ GetAdcInv'
  <2>1. /\ adc'.select = line.ch /\ adc'.eoc = adc.eoc
        /\ adc'.busy = (IF adc.busy = None THEN None ELSE line.ch)
    BY <1>0, <1>5, SelectFacts DEF ShSelect
  <2>2. /\ sh = "select" /\ sh' = "start" /\ line' = line
        /\ cutIn' = (IF adc.eoc = "set" THEN "found" ELSE "no")
    BY <1>5 DEF ShSelect
  <2>3. AdcIdle'
    BY <1>0, <1>1, <2>1, <2>2 DEF AdcIdle, appVars
  <2>4. cutIn' = "no" => Own(line.ch)'
    BY <2>1, <2>2 DEF Own
  <2>5. cutIn' = "found" => torn' = "yes"
    BY <1>0, <1>1, <2>2 DEF AdcIdle, TypeOK
  <2>6. AppDelayed'
    BY <1>1 DEF AppDelayed, appVars
  <2>7. GetAdcInv'
    BY <2>1, <2>2, <2>4, <2>5, <2>6 DEF GetAdcInv
  <2> QED BY <2>3, <2>7
<1>6. ASSUME ShStart PROVE AdcIdle' /\ GetAdcInv'
  <2>1. adc'.busy = adc.select /\ adc'.eoc = adc.eoc /\ adc'.data = adc.data
    BY <1>0, <1>6, StartFacts DEF ShStart
  <2>2. sh = "start" /\ sh' = "read" /\ UNCHANGED <<line, history>>
    BY <1>6 DEF ShStart
  <2>3. AdcIdle'
    BY <1>0, <1>1, <2>1, <2>2 DEF AdcIdle, history
  <2>4. cutIn = "no" => Own(line.ch)'
    BY <1>0, <2>1, <2>2 DEF GetAdcInv, Own
  <2>5. GetAdcInv'
    BY <1>0, <1>1, <2>2, <2>4 DEF GetAdcInv, AppDelayed, appVars, history
  <2> QED BY <2>3, <2>5
<1>7. ASSUME ShCheck PROVE AdcIdle' /\ GetAdcInv'
  <2>1. /\ sh = "read" /\ sh' = "fetch" /\ adc.eoc = "set"
        /\ UNCHANGED <<line, adc, history>>
    BY <1>7 DEF ShCheck
  <2>2. AdcIdle'
    BY <1>0, <1>1, <2>1 DEF AdcIdle, AppDelayed, appVars, history
  <2>3. Own(line.ch)' = Own(line.ch)
    BY <2>1 DEF Own
  <2>4. GetAdcInv'
    BY <1>0, <1>1, <2>1, <2>3 DEF GetAdcInv, AppDelayed, appVars, history
  <2> QED BY <2>2, <2>4
<1>8. ASSUME ShFetch PROVE AdcIdle' /\ GetAdcInv'
  <2>1. adc'.busy = adc.busy /\ adc'.eoc = "clear" /\ got' = adc.data
    BY <1>0, <1>8, FetchFacts DEF ShFetch
  <2>2. sh = "fetch" /\ sh' = "delay" /\ UNCHANGED <<line, history>>
    BY <1>8 DEF ShFetch
  <2>3. AdcIdle'
    BY <1>0, <1>1, <2>1, <2>2 DEF AdcIdle, appVars, history
  <2>4. cutIn = "no" => got' = line.ch
    BY <1>0, <2>1, <2>2 DEF GetAdcInv, Own
  <2>5. GetAdcInv'
    BY <1>0, <2>2, <2>4 DEF GetAdcInv, history
  <2> QED BY <2>3, <2>5
<1>9. ASSUME ShDelayOver PROVE AdcIdle' /\ GetAdcInv'
  <2>1. /\ sh = "delay" /\ sh' \in {"select", "prompt"}
        /\ UNCHANGED <<line, adc, history>>
    BY <1>9 DEF ShDelayOver
  <2>2. AdcIdle'
    BY <1>0, <1>1, <2>1 DEF AdcIdle, appVars, history
  <2>3. GetAdcInv'
    BY <1>0, <2>1 DEF GetAdcInv, history
  <2> QED BY <2>2, <2>3
<1> QED BY <1>2, <1>3, <1>4, <1>5, <1>6, <1>7, <1>8, <1>9 DEF Sharing, ShellRun

LEMMA SharingStep == IInv /\ [Next]_vars => IInv'
<1> SUFFICES ASSUME IInv, [Next]_vars PROVE IInv'
  OBVIOUS
<1>1. TypeInv'
  BY TypeStep DEF IInv
<1>2. ASSUME UNCHANGED vars PROVE Sharing'
  BY <1>2 DEF IInv, Sharing, vars, appVars, shVars, history, AdcIdle, RoundInv,
     AloneInv, GetAdcInv, FrameClean, Own, PhaseCh, AppDelayed
<1>3. ASSUME EndDebug PROVE Sharing'
  <2>1. /\ app = "delay" /\ app' = "tail" /\ UNCHANGED <<frame, shVars, adc, history>>
    BY <1>3 DEF EndDebug
  <2>2. RoundInv' /\ AloneInv'
    BY <2>1 DEF RoundInv, AloneInv
  <2>3. AdcIdle' /\ GetAdcInv' /\ FrameClean'
    BY <2>1 DEF IInv, Sharing, AdcIdle, GetAdcInv, FrameClean, shVars, history,
       Own, AppDelayed
  <2> QED BY <2>2, <2>3 DEF Sharing
<1> QED
  BY <1>1, <1>2, <1>3, ConvertSharing, NextSampleSharing, ToBatterySharing,
     SendFrameSharing, RestartSharing, ReadSampleSharing, ShellSharing
     DEF IInv, Next, App

\* The inductive invariant: which thread's conversion is under way or waits,
\* what the sums hold, what the shell was given (adc.c:47-57, volt_app.c:86-121).
THEOREM SharingInvariant == Spec => []SharingInv
<1>1. IInv => SharingInv
  BY DEF IInv, Sharing, TypeInv, SharingInv
<1> QED BY SharingInit, SharingStep, <1>1, PTL DEF Spec

\* A frame is foreign-free if none of its samples was begun with EOC standing,
\* which needs the shell in that round or a torn read before it; in a round
\* without the shell only the first sample of a half can be foreign (adc.c:54-56,
\* volt_app.c:92-121).
THEOREM FramesCorrect == Spec => []FrameClean
<1>1. IInv => FrameClean
  BY DEF IInv, Sharing
<1> QED BY SharingInit, SharingStep, <1>1, PTL DEF Spec

\* The shell's Get_Adc returns its own channel unless App_1 cut it or it found
\* EOC standing since a torn read (adc.c:54-56, 67).
THEOREM ShellSamplesCorrect == Spec => []ShellClean
<1>1. IInv => ShellClean
  BY DEF IInv, Sharing, GetAdcInv, ShellClean
<1> QED BY SharingInit, SharingStep, <1>1, PTL DEF Spec

-----------------------------------------------------------------------------
(* The lost end of conversion.                                             *)

LEMMA LostStep == TypeOK /\ Lost /\ [Next]_vars => Lost'
<1> SUFFICES ASSUME TypeOK, Lost, [Next]_vars PROVE Lost'
  OBVIOUS
<1>0. /\ sh = "read" /\ adc \in Converters
      /\ IF app = "wait" THEN (adc.busy = None) # (adc.eoc = "clear")
                         ELSE adc.busy = None /\ adc.eoc = "clear"
  BY DEF Lost, TypeOK
<1>1. CASE UNCHANGED vars
  BY <1>1 DEF vars, appVars, shVars, Lost
<1>2. CASE Convert
  <2>1. adc.busy # None /\ UNCHANGED <<app, sh>>
    BY <1>2 DEF Convert, appVars, shVars
  <2>2. adc'.busy = None /\ adc'.eoc = "set"
    BY <1>2, ConvertFacts
  <2> QED BY <1>0, <2>1, <2>2 DEF Lost
<1>3. ASSUME NEW ch \in Channels, Begin(ch), app # "wait", UNCHANGED shVars PROVE Lost'
  <2>1. app' = "wait" /\ adc'.busy = ch /\ adc'.eoc = adc.eoc
    BY <1>3, BeginFacts
  <2> QED BY <1>0, <1>3, <2>1, ConstantFacts DEF Lost, shVars
<1>4. CASE NextSample \/ ToBattery \/ SendFrame \/ Restart
  <2>1. /\ Begin(CurrentCh) \/ Begin(BatteryCh)
        /\ app # "wait" /\ UNCHANGED shVars
    BY <1>4 DEF NextSample, ToBattery, SendFrame, Restart, LoopHead
  <2> QED BY <1>3, <2>1, ConstantFacts
<1>5. CASE EndDebug
  BY <1>0, <1>5 DEF EndDebug, Lost, shVars
<1>6. CASE ReadSample
  <2>1. adc'.busy = adc.busy /\ adc'.eoc = "clear"
    BY <1>0, <1>6, FetchFacts DEF ReadSample
  <2> QED BY <1>0, <1>6, <2>1 DEF ReadSample, Lost, shVars
<1>7. CASE ShellRun \/ \E l \in Lines : Enter(l)
  BY <1>0, <1>7 DEF ShellRun, ShSelect, ShStart, ShCheck, ShFetch, ShDelayOver, Enter,
     AppDelayed
<1> QED BY <1>1, <1>2, <1>4, <1>5, <1>6, <1>7 DEF Next, App

\* A shell whose end of conversion was taken by App_1 never gets another one
\* (adc.c:54).
THEOREM LostCorrect == Spec => LostForGood
<1>1. TypeInv => TypeOK
  BY DEF TypeInv
<1>2. TypeOK /\ [Next]_vars => [Lost => Lost']_vars
  BY LostStep
<1> QED BY TypeInit, TypeStep, <1>1, <1>2, PTL DEF Spec, LostForGood

-----------------------------------------------------------------------------
(* Without adc_average.                                                    *)

NoAverage == \A l \in Lines : l.verb # "average"

PromptInv == /\ sh = "prompt" /\ met = "no" /\ frame.met = "no"
             /\ cutIn = "no" /\ torn = "no"

LEMMA PromptStep == NoAverage /\ IInv /\ PromptInv /\ [Next]_vars => PromptInv'
<1> SUFFICES ASSUME NoAverage, IInv, PromptInv, [Next]_vars PROVE PromptInv'
  OBVIOUS
<1>0. /\ TypeOK /\ AdcIdle
      /\ sh = "prompt" /\ met = "no" /\ frame.met = "no"
      /\ cutIn = "no" /\ torn = "no"
  BY DEF IInv, Sharing, TypeInv, PromptInv
<1>1. app # "wait" => adc.eoc # "set"
  BY <1>0 DEF AdcIdle
<1>2. CASE UNCHANGED vars \/ Convert \/ EndDebug \/ ReadSample
  BY <1>0, <1>2 DEF vars, appVars, shVars, history, Convert, EndDebug, ReadSample, PromptInv
<1>3. CASE NextSample \/ ToBattery
  BY <1>0, <1>1, <1>3 DEF NextSample, ToBattery, Begin, Meets, shVars, PromptInv
<1>4. CASE SendFrame \/ Restart
  BY <1>0, <1>1, <1>4 DEF SendFrame, Restart, LoopHead, Begin, shVars, PromptInv
<1>5. ASSUME NEW l \in Lines, Enter(l) PROVE PromptInv'
  BY <1>0, <1>5 DEF NoAverage, Enter, appVars, PromptInv
<1>6. CASE ShellRun
  BY <1>0, <1>6 DEF ShellRun, ShSelect, ShStart, ShCheck, ShFetch, ShDelayOver
<1> QED BY <1>2, <1>3, <1>4, <1>5, <1>6 DEF Next, App

\* As long as adc_average is not used, every sample of every frame is of its own
\* channel (adc.c:47, 59).
THEOREM AloneCorrect == Spec => []CleanWithoutAverage
<1>1. CASE NoAverage
  <2>1. Init => PromptInv
    BY DEF Init, PromptInv, NoFrame
  <2>2. PromptInv => CleanWithoutAverage
    BY DEF PromptInv, CleanWithoutAverage
  <2>3. IInv /\ PromptInv /\ [Next]_vars => PromptInv'
    BY <1>1, PromptStep
  <2> QED BY SharingInit, SharingStep, <2>1, <2>2, <2>3, PTL DEF Spec
<1>2. CASE ~NoAverage
  <2>1. CleanWithoutAverage
    BY <1>2 DEF NoAverage, CleanWithoutAverage
  <2> QED BY <2>1, PTL
<1> QED BY <1>1, <1>2
=============================================================================
