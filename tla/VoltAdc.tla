------------------------------ MODULE VoltAdc -------------------------------
(***************************************************************************)
(* The current/voltage detector: the thread App_1 that samples the current *)
(* and the battery and sends a frame or prints (volt_app.c), the shell     *)
(* commands debug() and adc_average(ch, times) (volt_app.c:178, adc.c:59), *)
(* and the one converter both threads use through Get_Adc (adc.c:47).      *)
(*                                                                         *)
(* A sample is represented by the channel that was converted to get it,    *)
(* and a sum of samples (temp_val) by how many it holds of each channel.   *)
(* The arithmetic on the values themselves is in VoltFrame.                *)
(*                                                                         *)
(* Scheduling.  App_1 has priority 9, the shell 20.  App_1 leaves the      *)
(* processor only in rt_thread_mdelay, so its Get_Adc and all it does from *)
(* one delay to the next is not interrupted by the shell; the shell can be *)
(* interrupted between any two accesses to the converter.                  *)
(*                                                                         *)
(* The converter (external): starting sets off one conversion of the       *)
(* selected channel; selecting a channel during a conversion restarts it   *)
(* with the new channel; the end of a conversion sets EOC and the data     *)
(* register; reading the data register clears EOC.                         *)
(*                                                                         *)
(* Get_Adc is four accesses: select the channel (line 50), start (52), see *)
(* EOC (54), read the data (56).  Between any two of them a conversion may *)
(* end, and between any two of the shell's App_1 may take a sample of its  *)
(* own.  App_1 is interrupted by no thread, and its four accesses make two *)
(* steps: a conversion lasts 252 cycles of 12 MHz (21 us), so the one that *)
(* its select sets off anew is not over a few instructions later, when it  *)
(* starts; and one that ends between its last two accesses may as well end *)
(* before both.                                                            *)
(*                                                                         *)
(* met, alone, cutIn and torn are history variables: they record how the   *)
(* two threads' samples met, and restrict no action.                       *)
(***************************************************************************)
EXTENDS Integers

CONSTANTS
  Channels,   \* converter channels in use
  Samples,    \* readings per average: 5
  Lines       \* the command lines the operator may type

CurrentCh == 7
BatteryCh == 6

ASSUME ChannelsAssumption ==
  /\ Channels \subseteq 0..7
  /\ {CurrentCh, BatteryCh} \subseteq Channels
ASSUME SamplesAssumption == Samples \in Nat \ {0}

\* debug() and adc_average(ch, times).
DebugLine            == [verb |-> "debug", ch |-> CurrentCh, times |-> 0]
AverageLine(ch, n)   == [verb |-> "average", ch |-> ch, times |-> n]
AllLines == {DebugLine} \cup [verb : {"average"}, ch : Channels, times : 0..255]

ASSUME LinesAssumption == Lines \subseteq AllLines

VARIABLES
  flag,    \* DebugFlag
  app,     \* App_1 in the delay after a sample, waiting for EOC, or in the
           \* delay that ends the debug branch (also: not started yet)
  branch,  \* the branch of the loop App_1 is in
  phase,   \* which of the branch's two sampling loops it is in
  i,       \* samples taken in that loop
  sum,     \* temp_val
  curSum,  \* the sum of which adcx and current were computed
  frame,   \* the last frame handed to wireless_putchar
  sh,      \* the shell's next statement
  line,    \* the command line being executed, or the last one
  t,       \* loop variable of adc_average
  got,     \* what the shell's Get_Adc returned last
  adc,     \* the converter
  met,     \* history: some sample of this round was begun with EOC set
  alone,   \* history: the shell has been at its prompt during this round
  cutIn,   \* history: App_1 began a sample during the shell's Get_Adc ("cut"),
           \* or that Get_Adc was begun with EOC set ("found")
  torn     \* history: App_1 once began a sample after the shell had seen EOC
           \* and before it read the data

appVars == <<app, branch, phase, i, sum, curSum, frame>>
shVars  == <<sh, line, t, got>>
history == <<met, alone, cutIn, torn>>
vars    == <<flag, appVars, shVars, adc, history>>

-----------------------------------------------------------------------------
None  == 99      \* no channel
Sums  == [Channels -> 0..Samples]
Empty == [c \in Channels |-> 0]
Only(ch) == [c \in Channels |-> IF c = ch THEN Samples ELSE 0]

Converters == [select : Channels, busy : Channels \cup {None},
               eoc : {"clear", "set"}, data : Channels]
Frames == [current : Sums, battery : Sums, met : {"no", "yes"}, alone : {"no", "yes"}]
NoFrame == [current |-> Only(CurrentCh), battery |-> Only(BatteryCh),
            met |-> "no", alone |-> "yes"]

TypeOK ==
  /\ flag \in {"off", "on"}
  /\ app \in {"delay", "wait", "tail"}
  /\ branch \in {"frame", "debug"}
  /\ phase \in {"current", "battery"}
  /\ i \in 0..Samples
  /\ sum \in Sums /\ curSum \in Sums
  /\ frame \in Frames
  /\ sh \in {"prompt", "select", "start", "read", "fetch", "delay"}
  /\ line \in AllLines
  /\ t \in 0..255
  /\ got \in Channels
  /\ adc \in Converters
  /\ met \in {"no", "yes"} /\ alone \in {"no", "yes"}
  /\ cutIn \in {"no", "found", "cut"} /\ torn \in {"no", "yes"}

Init ==
  /\ flag = "off"
  /\ app = "tail" /\ branch = "frame" /\ phase = "battery"
  /\ i = Samples /\ sum = Empty /\ curSum = Empty /\ frame = NoFrame
  /\ sh = "prompt" /\ line = DebugLine /\ t = 0 /\ got = CurrentCh
  /\ adc = [select |-> CurrentCh, busy |-> None, eoc |-> "clear",
            data |-> CurrentCh]
  /\ met = "no" /\ alone = "yes" /\ cutIn = "no" /\ torn = "no"

-----------------------------------------------------------------------------
(* The converter.                                                          *)

Select(a, ch) == [a EXCEPT !.select = ch,
                           !.busy = IF @ = None THEN None ELSE ch]
Start(a)      == [a EXCEPT !.busy = a.select]
Fetch(a)      == [a EXCEPT !.eoc = "clear"]

Convert ==
  /\ adc.busy # None
  /\ adc' = [adc EXCEPT !.eoc = "set", !.data = adc.busy, !.busy = None]
  /\ UNCHANGED <<flag, appVars, shVars, history>>

-----------------------------------------------------------------------------
(* App_1.                                                                  *)

\* Get_Adc(ch) up to its wait for EOC, App_1's accesses to the converter and
\* what they mean for a Get_Adc of the shell that they interrupt.
\* Mutant: the conversion is not started.
BeginUnstarted(ch) ==
  /\ app' = "wait"
  /\ adc' = Select(adc, ch)
  /\ cutIn' = IF sh \in {"start", "read", "fetch"} THEN "cut" ELSE cutIn
  /\ torn' = IF sh = "fetch" THEN "yes" ELSE torn

Begin(ch) ==
  /\ app' = "wait"
  /\ adc' = Start(Select(adc, ch))
  /\ cutIn' = IF sh \in {"start", "read", "fetch"} THEN "cut" ELSE cutIn
  /\ torn' = IF sh = "fetch" THEN "yes" ELSE torn

\* A sample begun while EOC is set.
Meets == IF adc.eoc = "set" THEN "yes" ELSE met

\* The delay after a sample is over and the loop is not.
NextSample ==
  /\ app = "delay" /\ i < Samples
  /\ Begin(IF phase = "current" THEN CurrentCh ELSE BatteryCh)
  /\ met' = Meets
  /\ UNCHANGED <<flag, branch, phase, i, sum, curSum, frame, alone, shVars>>

\* The current loop is over: adcx = temp_val / 5, temp_val = 0, on to the
\* battery loop (lines 36-67, 91-100).
ToBattery ==
  /\ app = "delay" /\ i = Samples /\ phase = "current"
  /\ curSum' = sum /\ sum' = Empty
  /\ phase' = "battery" /\ i' = 0
  /\ Begin(BatteryCh)
  /\ met' = Meets
  /\ UNCHANGED <<flag, branch, frame, alone, shVars>>

\* Line 29 and the first Get_Adc of either branch.
LoopHead ==
  /\ branch' = IF flag = "on" THEN "debug" ELSE "frame"
  /\ phase' = "current" /\ i' = 0
  /\ Begin(CurrentCh)
  /\ met' = IF adc.eoc = "set" THEN "yes" ELSE "no"
  /\ alone' = IF sh = "prompt" THEN "yes" ELSE "no"

\* The frame branch is complete: the frame goes out, temp_val = 0 (line 121),
\* and the loop starts again without a delay.
\* Mutant: temp_val is not reset.
SendFrameKeepSum ==
  /\ app = "delay" /\ i = Samples /\ phase = "battery" /\ branch = "frame"
  /\ frame' = [current |-> curSum, battery |-> sum, met |-> met, alone |-> alone]
  /\ LoopHead
  /\ UNCHANGED <<flag, curSum, sum, shVars>>

SendFrame ==
  /\ app = "delay" /\ i = Samples /\ phase = "battery" /\ branch = "frame"
  /\ frame' = [current |-> curSum, battery |-> sum, met |-> met, alone |-> alone]
  /\ sum' = Empty
  /\ LoopHead
  /\ UNCHANGED <<flag, curSum, shVars>>

\* The debug branch is complete: print, temp_val = 0, mdelay(10) (line 82).
EndDebug ==
  /\ app = "delay" /\ i = Samples /\ phase = "battery" /\ branch = "debug"
  /\ app' = "tail" /\ sum' = Empty
  /\ UNCHANGED <<flag, branch, phase, i, curSum, frame, shVars, adc, history>>

Restart ==
  /\ app = "tail"
  /\ LoopHead
  /\ UNCHANGED <<flag, sum, curSum, frame, shVars>>

\* EOC ends the wait; the value read is added to temp_val; rt_thread_mdelay.
\* Mutant: the value is read without the wait.
ReadSampleAtOnce ==
  /\ app = "wait"
  /\ sum' = [sum EXCEPT ![adc.data] = @ + 1]
  /\ i' = i + 1 /\ app' = "delay" /\ adc' = Fetch(adc)
  /\ UNCHANGED <<flag, branch, phase, curSum, frame, shVars, history>>

ReadSample ==
  /\ app = "wait" /\ adc.eoc = "set"
  /\ sum' = [sum EXCEPT ![adc.data] = @ + 1]
  /\ i' = i + 1 /\ app' = "delay" /\ adc' = Fetch(adc)
  /\ UNCHANGED <<flag, branch, phase, curSum, frame, shVars, history>>

App == NextSample \/ ToBattery \/ SendFrame \/ EndDebug \/ Restart \/ ReadSample

-----------------------------------------------------------------------------
(* The shell, which runs only while App_1 is in a delay.                   *)

AppDelayed == app # "wait"

\* debug() is complete at once; adc_average with times = 0 skips its loop (the
\* division by zero of line 70 yields 0 on this processor).
Enter(l) ==
  /\ AppDelayed /\ sh = "prompt"
  /\ line' = l
  /\ \/ l.verb = "debug" /\ flag' = (IF flag = "on" THEN "off" ELSE "on")
                         /\ UNCHANGED <<sh, t, alone>>
     \/ l.verb = "average" /\ l.times = 0 /\ t' = 0 /\ UNCHANGED <<sh, flag, alone>>
     \/ l.verb = "average" /\ l.times > 0 /\ t' = 0 /\ UNCHANGED flag
                           /\ sh' = "select" /\ alone' = "no"
  /\ UNCHANGED <<appVars, got, adc, met, cutIn, torn>>

\* Get_Adc(ch) of the shell, access by access.
ShSelect ==
  /\ AppDelayed /\ sh = "select"
  /\ adc' = Select(adc, line.ch)
  /\ sh' = "start" /\ cutIn' = IF adc.eoc = "set" THEN "found" ELSE "no"
  /\ UNCHANGED <<flag, appVars, line, t, got, met, alone, torn>>

ShStart ==
  /\ AppDelayed /\ sh = "start"
  /\ adc' = Start(adc)
  /\ sh' = "read"
  /\ UNCHANGED <<flag, appVars, line, t, got, history>>

\* Mutant: the wait ends at once.
ShCheckAtOnce ==
  /\ AppDelayed /\ sh = "read"
  /\ sh' = "fetch"
  /\ UNCHANGED <<flag, appVars, line, t, got, adc, history>>

\* The wait ends: EOC was seen.
ShCheck ==
  /\ AppDelayed /\ sh = "read" /\ adc.eoc = "set"
  /\ sh' = "fetch"
  /\ UNCHANGED <<flag, appVars, line, t, got, adc, history>>

\* Mutant: the sample is not counted.
ShFetchUncounted ==
  /\ AppDelayed /\ sh = "fetch"
  /\ got' = adc.data /\ adc' = Fetch(adc)
  /\ sh' = "delay" /\ UNCHANGED t
  /\ UNCHANGED <<flag, appVars, line, history>>

ShFetch ==
  /\ AppDelayed /\ sh = "fetch"
  /\ got' = adc.data /\ adc' = Fetch(adc)
  /\ t' = t + 1 /\ sh' = "delay"
  /\ UNCHANGED <<flag, appVars, line, history>>

\* The 50 ms after a sample are over.
ShDelayOver ==
  /\ AppDelayed /\ sh = "delay"
  /\ sh' = IF t < line.times THEN "select" ELSE "prompt"
  /\ UNCHANGED <<flag, appVars, line, t, got, adc, history>>

ShellRun == ShSelect \/ ShStart \/ ShCheck \/ ShFetch \/ ShDelayOver

Next == Convert \/ App \/ ShellRun \/ \E l \in Lines : Enter(l)

\* Conversions end and so do delays; App_1 spends nearly all its time in
\* delays, so the shell gets the processor again and again (strong fairness:
\* App_1 interrupts it infinitely often).
Spec == /\ Init /\ [][Next]_vars
        /\ WF_vars(Convert) /\ WF_vars(App) /\ SF_vars(ShellRun)

-----------------------------------------------------------------------------
(* Properties.                                                             *)

\* A sum in which only the first of n samples may be of another channel than ch.
First(c, ch, n) ==
  [d \in Channels |-> (IF d = ch THEN n - 1 ELSE 0) + (IF d = c THEN 1 ELSE 0)]

\* Which samples of a frame can be foreign (adc.c:54-56, volt_app.c:86-121).  A
\* frame holds only readings of the right channel if none of its samples was
\* begun while EOC stood; and none was if the shell stayed at its prompt for
\* the whole round, unless App_1 has once come between the shell's sight of EOC
\* and its read: the flag of App_1's own conversion may stand ever after, and
\* each sample is then the one before it.  Even so only the first sample of
\* either half is of another channel, and in the battery half it is a current.
FrameClean ==
  /\ (frame.met = "no" \/ (frame.alone = "yes" /\ torn = "no")) =>
        frame.current = Only(CurrentCh) /\ frame.battery = Only(BatteryCh)
  /\ frame.alone = "yes" =>
        /\ \E c \in Channels : frame.current = First(c, CurrentCh, Samples)
        /\ \E c \in {CurrentCh, BatteryCh} :
             frame.battery = First(c, BatteryCh, Samples)

\* The shell's Get_Adc returns its own channel unless App_1 sampled within it or
\* EOC stood when it began, and EOC stands at that point only since App_1 once
\* came between the shell's sight of EOC and its read.
ShellClean ==
  sh = "delay" => /\ cutIn = "no" => got = line.ch
                  /\ cutIn = "found" => torn = "yes"

\* Without adc_average no sample ever meets another one.
CleanWithoutAverage ==
  (\A l \in Lines : l.verb # "average") =>
     frame.met = "no" /\ cutIn = "no" /\ torn = "no"

\* Why the frames and the shell's samples are clean, step by step: the inductive
\* invariant of VoltAdcProofs.
PhaseCh == IF phase = "current" THEN CurrentCh ELSE BatteryCh

\* What runs or waits is of channel ch.
Own(ch) == adc.busy \in {None, ch} /\ (adc.eoc = "set" => adc.data = ch)

\* A conversion of channel ch runs, or is over and its result waits.
Underway(ch) == \/ adc.busy = ch
                \/ adc.busy = None /\ adc.eoc = "set" /\ adc.data = ch

\* Up to the first torn read: outside the two Get_Adc no conversion runs and no
\* result waits, in that of App_1 alone just one of the two is the case, and the
\* shell is about to read what it has seen only with no conversion running.
AdcIdle ==
  torn = "no" =>
    CASE sh = "read"  -> app = "wait" \/ adc.busy = None \/ adc.eoc = "clear"
      [] sh = "fetch" -> AppDelayed /\ adc.busy = None /\ adc.eoc = "set"
      [] OTHER -> IF app = "wait" THEN adc.busy = None <=> adc.eoc = "set"
                                  ELSE adc.busy = None /\ adc.eoc = "clear"

\* temp_val never holds more than the samples taken in the loop; while App_1
\* waits, its own conversion runs or is over.
SumInv == /\ \A c \in Channels : sum[c] <= i
          /\ app = "wait" => i < Samples /\ Underway(PhaseCh)
          /\ app = "tail" => sum = Empty

\* A round without a meeting: App_1 gets what it asked for.
RoundInv ==
  met = "no" =>
    /\ app = "wait" => Own(PhaseCh)
    /\ app # "tail" => sum = [c \in Channels |-> IF c = PhaseCh THEN i ELSE 0]
    /\ app # "tail" /\ phase = "battery" => curSum = Only(CurrentCh)

\* A round without the shell: only what was there before the first sample of a
\* half is of another channel.
AloneInv ==
  alone = "yes" /\ app # "tail" =>
    /\ sh = "prompt"
    /\ torn = "no" => met = "no"
    /\ i = 0 => sum = Empty /\ adc.busy \in {None, PhaseCh}
    /\ i > 0 => /\ Own(PhaseCh)
                /\ \E c \in Channels : sum = First(c, PhaseCh, i)
    /\ phase = "battery" =>
         /\ \E c \in Channels : curSum = First(c, CurrentCh, Samples)
         /\ i = 0 /\ adc.eoc = "set" => adc.data \in {CurrentCh, BatteryCh}
         /\ i > 0 => \E c \in {CurrentCh, BatteryCh} : sum = First(c, BatteryCh, i)

\* A Get_Adc of the shell that App_1 has not cut.
GetAdcInv ==
  /\ cutIn # "cut" /\ sh \in {"start", "read", "fetch"} => AppDelayed
  /\ cutIn = "no" =>
       /\ sh = "start" => adc.select = line.ch
       /\ sh \in {"start", "read", "fetch"} => Own(line.ch)
       /\ sh = "fetch" => adc.eoc = "set"
       /\ sh = "delay" => got = line.ch
  /\ cutIn = "found" => torn = "yes"

\* adc_average is within its samples.
CountInv == sh \in {"select", "start", "read", "fetch"} => t < line.times

SharingInv == AdcIdle /\ SumInv /\ RoundInv /\ AloneInv /\ GetAdcInv /\ CountInv

\* The shell waits for an EOC that only App_1's own sample will produce.
Lost ==
  /\ sh = "read"
  /\ IF app = "wait" THEN (adc.busy = None) # (adc.eoc = "clear")
                     ELSE adc.busy = None /\ adc.eoc = "clear"

\* Once App_1 has taken the shell's EOC the shell waits forever: App_1 always
\* takes the one it produces as well.
LostForGood == [][Lost => Lost']_vars

\* App_1 itself never waits forever, whatever the shell does to the converter.
RoundsContinue == []<>(phase = "battery" /\ i = Samples)

\* adc_average comes back, or waits for a lost EOC.
AverageReturnsOrLost == sh # "prompt" ~> sh = "prompt" \/ Lost

\* What adc_average promises with "example: adc_average(0,5)" (adc.c:90): it
\* takes its samples and returns.
AverageReturns == sh # "prompt" ~> sh = "prompt"
=============================================================================
