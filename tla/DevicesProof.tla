---------------------------- MODULE DevicesProof ----------------------------
(***************************************************************************)
(* Proofs about interrupts and devices, for any number of shells to launch *)
(* and any frequencies that programs ask for.                              *)
(***************************************************************************)
EXTENDS Devices, SequenceTheorems, TLAPS

Frames == [irq : Irqs, at : Places]

\* Between cli and sti.
CriticalPlaces == {"select", "in", "reselect", "out", "sti"}
\* In a call on the clock.
Calls == {"reset", "spin", "cli"} \cup CriticalPlaces
Booting == {"keyboard_init", "rtc_init", "rtc_enable", "pit_init", "execute"}

\* The frequency of the clock at rate r is the one last asked for.
Gives(r) == freq = 32768 \div 2^(r - 1)

\* No handler runs while a program is between cli and sti.
Alone ==
    pc \in CriticalPlaces => interrupts = FALSE /\ (ctx # <<>> => Top.at = "launched")
BootAlone ==
    pc \in {"keyboard_init", "rtc_init"} => interrupts = FALSE /\ ctx = <<>>

\* Programs call the clock only after the launches.
AfterLaunches == pc \in Calls => ~Launching

Counted == /\ shells <= shell_count + 1
           /\ pc \in Booting => shells = 0

Kept == regA.kept = TRUE /\ (pc \in {"reselect", "out"} => prev.kept = TRUE)
Selected == pc \in {"in", "out"} => index = "A"
RateHeld ==
    /\ pc \in {"rtc_enable", "pit_init", "execute", "user", "reset", "spin"} =>
           Gives(regA.rate)
    /\ pc \in {"cli"} \cup CriticalPlaces => Gives(rate)
    /\ pc = "sti" => regA.rate = rate

Inv == /\ TypeOK /\ Alone /\ BootAlone /\ AfterLaunches /\ Counted
       /\ Kept /\ Selected /\ RateHeld

-----------------------------------------------------------------------------
\* The stack of handlers.

\* The running handler goes on to another place.
LEMMA Gone ==
    ASSUME ctx \in Seq(Frames), ctx # <<>>, NEW at \in Places, GoTo(at)
    PROVE  /\ ctx' \in Seq(Frames) /\ ctx' # <<>>
           /\ Len(ctx') = Len(ctx) /\ Len(ctx) \in Nat /\ Len(ctx) > 0
           /\ ctx'[Len(ctx)].at = at /\ ctx'[Len(ctx)].irq = ctx[Len(ctx)].irq
           /\ \A i \in 1 .. Len(ctx) : i # Len(ctx) => ctx'[i] = ctx[i]
<1> DEFINE n == Len(ctx)
           f == [ctx[n] EXCEPT !.at = at]
<1>1. n \in Nat /\ n > 0 /\ n \in 1 .. n /\ ctx[n] \in Frames
  OBVIOUS
<1>2. f \in Frames /\ f.at = at /\ f.irq = ctx[n].irq
  BY <1>1 DEF Frames
<1>3. ctx' = [ctx EXCEPT ![n] = f]
  BY DEF GoTo
<1> HIDE DEF f
<1>4. ctx' \in Seq(Frames) /\ Len(ctx') = n
  BY <1>1, <1>2, <1>3
<1>5. ctx'[n] = f /\ \A i \in 1 .. n : i # n => ctx'[i] = ctx[i]
  BY <1>1, <1>3
<1>6. ctx' # <<>>
  BY <1>1, <1>4
<1>7. QED BY <1>1, <1>2, <1>4, <1>5, <1>6

\* An interrupt is taken.
LEMMA Taken ==
    ASSUME ctx \in Seq(Frames), NEW q \in Irqs, ctx' = Append(ctx, Frame(q, "entry"))
    PROVE  /\ ctx' \in Seq(Frames) /\ ctx' # <<>>
           /\ Len(ctx') = Len(ctx) + 1 /\ Len(ctx) \in Nat
           /\ ctx'[Len(ctx) + 1] = Frame(q, "entry")
           /\ \A i \in 1 .. Len(ctx) : ctx'[i] = ctx[i]
<1>1. Frame(q, "entry") \in Frames
  BY DEF Frame, Frames, Places
<1>2. QED BY <1>1

\* A sequence without its last element.
LEMMA AllButLast ==
    ASSUME NEW S, NEW c \in Seq(S), NEW m \in Nat, m > 0, Len(c) = m
    PROVE  /\ SubSeq(c, 1, m - 1) \in Seq(S) /\ Len(SubSeq(c, 1, m - 1)) = m - 1
           /\ \A i \in 1 .. m - 1 : SubSeq(c, 1, m - 1)[i] = c[i]
<1>1. \A i \in 1 .. m - 1 : c[i] \in S
  OBVIOUS
<1>2. /\ SubSeq(c, 1, m - 1) \in Seq(S)
      /\ Len(SubSeq(c, 1, m - 1)) = IF 1 <= m - 1 THEN m - 1 - 1 + 1 ELSE 0
      /\ \A i \in 1 .. m - 1 - 1 + 1 : SubSeq(c, 1, m - 1)[i] = c[1 + i - 1]
  BY ONLY <1>1, m \in Nat, SubSeqProperties
<1>3. QED BY ONLY <1>2, m \in Nat, m > 0

\* A handler returns.
LEMMA Returned ==
    ASSUME ctx \in Seq(Frames), ctx # <<>>, ctx' = SubSeq(ctx, 1, Len(ctx) - 1)
    PROVE  /\ ctx' \in Seq(Frames)
           /\ Len(ctx') = Len(ctx) - 1 /\ Len(ctx) \in Nat /\ Len(ctx) > 0
           /\ \A i \in 1 .. Len(ctx) - 1 : ctx'[i] = ctx[i]
<1>1. Len(ctx) \in Nat /\ Len(ctx) > 0
  OBVIOUS
<1>2. QED BY <1>1, AllButLast

-----------------------------------------------------------------------------
\* The rate that rtc_write computes is that of the frequency.
LEMMA RateGives ==
    ASSUME NEW f, RateOf(f) # 0
    PROVE  RateOf(f) \in 6 .. 15 /\ f = 32768 \div 2^(RateOf(f) - 1)
<1> DEFINE k == CHOOSE k \in 1 .. 10 : f = 2^k
<1>1. \E j \in 1 .. 10 : f = 2^j
  BY DEF RateOf
<1>2. k \in 1 .. 10 /\ f = 2^k
  BY <1>1
<1>3. RateOf(f) = BASE_FREQ - (k - 1)
  BY <1>1 DEF RateOf
<1> HIDE DEF k
<1>4. RateOf(f) \in 6 .. 15 /\ RateOf(f) - 1 = 15 - k
  BY <1>2, <1>3 DEF BASE_FREQ
<1>5. 2^k = 32768 \div 2^(15 - k)
  <2>1. /\ 2^1 = 2 /\ 2^2 = 4 /\ 2^3 = 8 /\ 2^4 = 16 /\ 2^5 = 32 /\ 2^6 = 64
        /\ 2^7 = 128 /\ 2^8 = 256 /\ 2^9 = 512 /\ 2^10 = 1024 /\ 2^11 = 2048
        /\ 2^12 = 4096 /\ 2^13 = 8192 /\ 2^14 = 16384
    OBVIOUS
  <2>2. /\ 32768 \div 2 = 16384 /\ 32768 \div 4 = 8192 /\ 32768 \div 8 = 4096
        /\ 32768 \div 16 = 2048 /\ 32768 \div 32 = 1024 /\ 32768 \div 64 = 512
        /\ 32768 \div 128 = 256 /\ 32768 \div 256 = 128 /\ 32768 \div 512 = 64
        /\ 32768 \div 1024 = 32 /\ 32768 \div 2048 = 16 /\ 32768 \div 4096 = 8
        /\ 32768 \div 8192 = 4 /\ 32768 \div 16384 = 2
    OBVIOUS
  <2>3. CASE k = 1 BY ONLY <2>1, <2>2, <2>3
  <2>4. CASE k = 2 BY ONLY <2>1, <2>2, <2>4
  <2>5. CASE k = 3 BY ONLY <2>1, <2>2, <2>5
  <2>6. CASE k = 4 BY ONLY <2>1, <2>2, <2>6
  <2>7. CASE k = 5 BY ONLY <2>1, <2>2, <2>7
  <2>8. CASE k = 6 BY ONLY <2>1, <2>2, <2>8
  <2>9. CASE k = 7 BY ONLY <2>1, <2>2, <2>9
  <2>10. CASE k = 8 BY ONLY <2>1, <2>2, <2>10
  <2>11. CASE k = 9 BY ONLY <2>1, <2>2, <2>11
  <2>12. CASE k = 10 BY ONLY <2>1, <2>2, <2>12
  <2>13. QED BY <1>2, <2>3, <2>4, <2>5, <2>6, <2>7, <2>8, <2>9, <2>10, <2>11, <2>12
<1>6. QED BY ONLY <1>2, <1>4, <1>5

-----------------------------------------------------------------------------
\* Places of a handler that has sent its end of interrupt and done its work.
Settled == {"sti", "iret", "launched"}

\* What most places of the handlers do: the running one goes on, and neither
\* the program nor register A is touched.
HandlerStep ==
    /\ ctx # <<>> /\ Top.at # "launched"
    /\ \E next \in Places \ {"launched"} :
          /\ GoTo(next) /\ (Top.at \in Settled => next \in Settled)
          /\ Top.at \in BeforeEoi => next \in BeforeEoi \/ Top.irq \notin isr'
    /\ UNCHANGED <<unmasked, irr, regA, regB, program, count>>
    /\ interrupts' \in BOOLEAN /\ isr' \subseteq isr /\ kbd' \in BOOLEAN
    /\ index' \in {"A", "B", "C"} /\ regC' \in BOOLEAN /\ interrupt_occurred' \in 0 .. 1

\* What a handler does, other than launching and returning, is such a step.
LEMMA HandlerSteps ==
    ASSUME Inv, NEW q \in Irqs, Handler(q), ~PitLaunch, ~Iret(q)
    PROVE  HandlerStep
<1> USE DEF HandlerStep, InHandler, Frame, Places, Settled, BeforeEoi, vars, cpu, pic, clock, program, count
<1>1. CASE Sti(q)
  BY <1>1 DEF Sti, Inv, TypeOK
<1>2. CASE PitEoi
  BY <1>2 DEF PitEoi, Eoi, send_eoi, Inv, TypeOK
<1>3. CASE PitCli
  BY <1>3 DEF PitCli, Cli, Inv, TypeOK
<1>4. CASE PitPass
  BY <1>4 DEF PitPass, Inv, TypeOK
<1>5. CASE KeyboardCli
  BY <1>5 DEF KeyboardCli, Cli, Inv, TypeOK
<1>6. CASE KeyboardRead
  BY <1>6 DEF KeyboardRead, Inv, TypeOK
<1>7. CASE KeyboardEoi
  BY <1>7 DEF KeyboardEoi, Eoi, send_eoi, Inv, TypeOK
<1>8. CASE RtcEoi
  BY <1>8 DEF RtcEoi, Eoi, send_eoi, Inv, TypeOK
<1>9. CASE RtcCli
  BY <1>9 DEF RtcCli, Cli, Inv, TypeOK
<1>10. CASE RtcSelect
  BY <1>10 DEF RtcSelect, Select, Inv, TypeOK
<1>11. CASE RtcClear
  BY <1>11 DEF RtcClear, In, Inv, TypeOK
<1>12. CASE RtcFlag
  BY <1>12 DEF RtcFlag, Inv, TypeOK
<1>13. QED
  BY <1>1, <1>2, <1>3, <1>4, <1>5, <1>6, <1>7, <1>8, <1>9, <1>10, <1>11, <1>12
     DEF Handler, Pit, Keyboard, Rtc

\* Such a step keeps the invariant.
LEMMA HandlerStepInv == ASSUME Inv, HandlerStep PROVE Inv'
<1>1. PICK next \in Places : GoTo(next)
  BY DEF HandlerStep
<1>2. /\ ctx \in Seq(Frames) /\ ctx # <<>>
  BY DEF Inv, TypeOK, HandlerStep, Frames
<1>3. ctx' \in Seq(Frames)
  BY <1>1, <1>2, Gone
<1>4. pc \notin CriticalPlaces \cup {"keyboard_init", "rtc_init"} /\ pc' = pc
  BY DEF Inv, Alone, BootAlone, HandlerStep, program
<1>5. TypeOK'
  BY <1>3 DEF Inv, TypeOK, HandlerStep, Frames, program, count
<1>6. Alone' /\ BootAlone'
  BY <1>4 DEF Alone, BootAlone, CriticalPlaces
<1>7. AfterLaunches' /\ Counted' /\ Kept'
  BY DEF Inv, AfterLaunches, Counted, Kept, Launching, HandlerStep, program, count
<1>8. Selected' /\ RateHeld'
  BY <1>4 DEF Inv, Selected, RateHeld, Gives, HandlerStep, program, count, CriticalPlaces
<1>9. QED BY <1>5, <1>6, <1>7, <1>8 DEF Inv

\* So does an interrupt that is taken,
LEMMA AcceptInv == ASSUME Inv, NEW q \in Irqs, Accept(q) PROVE Inv'
<1>1. /\ interrupts = TRUE /\ ctx' = Append(ctx, Frame(q, "entry")) /\ ctx \in Seq(Frames)
      /\ irr' \subseteq irr /\ isr' = isr \cup {q}
      /\ UNCHANGED <<interrupts, unmasked, kbd, clock, interrupt_occurred, program, count>>
  BY DEF Accept, Deliverable, Inv, TypeOK, Frames
<1>2. ctx' \in Seq(Frames)
  BY <1>1, Taken
<1>3. pc \notin CriticalPlaces \cup {"keyboard_init", "rtc_init"} /\ pc' = pc
  BY <1>1 DEF Inv, Alone, BootAlone, program
<1>4. TypeOK'
  BY <1>1, <1>2 DEF Inv, TypeOK, Frames, clock, program, count
<1>5. Alone' /\ BootAlone'
  BY <1>3 DEF Alone, BootAlone, CriticalPlaces
<1>6. AfterLaunches' /\ Counted' /\ Kept' /\ Selected' /\ RateHeld'
  BY <1>1 DEF Inv, AfterLaunches, Counted, Kept, Launching, Selected, RateHeld, Gives,
              clock, program, count
<1>7. QED BY <1>4, <1>5, <1>6 DEF Inv

\* and one that returns.
LEMMA IretInv == ASSUME Inv, NEW q \in Irqs, Iret(q) PROVE Inv'
<1>1. /\ ctx # <<>> /\ Top.at = "iret" /\ ctx' = SubSeq(ctx, 1, Len(ctx) - 1)
      /\ ctx \in Seq(Frames)
      /\ UNCHANGED <<interrupts, pic, kbd, clock, interrupt_occurred, program, count>>
  BY DEF Iret, InHandler, Frame, Inv, TypeOK, Frames
<1>2. ctx' \in Seq(Frames)
  BY <1>1, Returned
<1>3. pc \notin CriticalPlaces \cup {"keyboard_init", "rtc_init"} /\ pc' = pc
  BY <1>1 DEF Inv, Alone, BootAlone, program
<1>4. TypeOK'
  BY <1>1, <1>2 DEF Inv, TypeOK, Frames, pic, clock, program, count
<1>5. Alone' /\ BootAlone'
  BY <1>3 DEF Alone, BootAlone, CriticalPlaces
<1>6. AfterLaunches' /\ Counted' /\ Kept' /\ Selected' /\ RateHeld'
  BY <1>1 DEF Inv, AfterLaunches, Counted, Kept, Launching, Selected, RateHeld, Gives,
              clock, program, count
<1>7. QED BY <1>4, <1>5, <1>6 DEF Inv

\* A tick launches a shell.  No program is in a call on the clock then.
LEMMA PitLaunchInv == ASSUME Inv, PitLaunch PROVE Inv'
<1>1. /\ ctx # <<>> /\ Top.at = "test" /\ GoTo("launched") /\ ctx \in Seq(Frames)
      /\ shell_count' = shell_count + 1 /\ shells' = shells + 1 /\ Launching
      /\ interrupts' = TRUE /\ pc' = "user"
      /\ UNCHANGED <<pic, kbd, clock, interrupt_occurred, prev, rate, freq>>
  BY DEF PitLaunch, InHandler, Frame, Inv, TypeOK, Frames
<1>2. ctx' \in Seq(Frames)
  BY <1>1, Gone DEF Places
<1>3. pc \in {"rtc_enable", "pit_init", "execute", "user"}
  BY <1>1 DEF Inv, BootAlone, AfterLaunches, TypeOK, ProgramPlaces, Calls, CriticalPlaces
<1>4. shell_count' \in 0 .. MAX_SHELL_COUNT + 1 /\ shells' \in 0 .. MAX_SHELL_COUNT + 2
      /\ shells' <= shell_count' + 1
  BY <1>1, ConstantsAssumption DEF Inv, TypeOK, Counted, Launching
<1>5. TypeOK'
  BY <1>1, <1>2, <1>4 DEF Inv, TypeOK, Frames, pic, clock, ProgramPlaces
<1>6. Alone' /\ BootAlone' /\ AfterLaunches' /\ Counted'
  BY <1>1, <1>4 DEF Alone, BootAlone, AfterLaunches, Calls, CriticalPlaces, Counted, Booting
<1>7. Kept' /\ Selected' /\ RateHeld'
  BY <1>1, <1>3 DEF Inv, Kept, Selected, RateHeld, Gives, clock, CriticalPlaces
<1>8. QED BY <1>5, <1>6, <1>7 DEF Inv

\* A fourth shell ends, and the tick that launched it goes on.
LEMMA ShellExitInv == ASSUME Inv, ShellExit PROVE Inv'
<1>1. /\ ctx # <<>> /\ pc = "user" /\ GoTo("sti") /\ ctx \in Seq(Frames)
      /\ shells > 3 /\ shells' = shells - 1
      /\ UNCHANGED <<interrupts, pic, kbd, clock, interrupt_occurred, program, shell_count>>
  BY DEF ShellExit, InProgram, Inv, TypeOK, Frames
<1>2. ctx' \in Seq(Frames)
  BY <1>1, Gone DEF Places
<1>3. shells' \in 0 .. MAX_SHELL_COUNT + 2 /\ shells' <= shell_count' + 1
  BY <1>1, ConstantsAssumption DEF Inv, TypeOK, Counted
<1>4. TypeOK'
  BY <1>1, <1>2, <1>3 DEF Inv, TypeOK, Frames, pic, clock, program
<1>5. Alone' /\ BootAlone' /\ AfterLaunches' /\ Counted'
  BY <1>1, <1>3 DEF Alone, BootAlone, AfterLaunches, Calls, CriticalPlaces, Counted, Booting, program
<1>6. Kept' /\ Selected' /\ RateHeld'
  BY <1>1 DEF Inv, Kept, Selected, RateHeld, Gives, clock, program
<1>7. QED BY <1>4, <1>5, <1>6 DEF Inv

\* The devices.
LEMMA DeviceInv == ASSUME Inv, PitPeriod \/ KeyPress \/ RtcPeriod PROVE Inv'
<1> USE DEF Raise, cpu, clock, program, count
<1>1. TypeOK'
  BY DEF Inv, TypeOK, PitPeriod, KeyPress, RtcPeriod, Irqs
<1>2. Alone' /\ BootAlone' /\ AfterLaunches' /\ Counted'
  BY DEF Inv, Alone, BootAlone, Top, AfterLaunches, Launching, Counted,
         PitPeriod, KeyPress, RtcPeriod
<1>3. Kept' /\ Selected' /\ RateHeld'
  BY DEF Inv, Kept, Selected, RateHeld, Gives, PitPeriod, KeyPress, RtcPeriod
<1>4. QED BY <1>1, <1>2, <1>3 DEF Inv

-----------------------------------------------------------------------------
\* The boot code.
LEMMA BootInv == ASSUME Inv, Boot PROVE Inv'
<1> USE DEF InProgram, enable_irq, cpu, pic, clock, count
<1>1. CASE keyboard_init
  <2>1. TypeOK'
    BY <1>1 DEF keyboard_init, Inv, TypeOK, Irqs, ProgramPlaces
  <2>2. Alone' /\ BootAlone' /\ AfterLaunches' /\ Counted'
    BY <1>1 DEF keyboard_init, Inv, Alone, BootAlone, AfterLaunches, Counted, Calls, CriticalPlaces, Booting
  <2>3. Kept' /\ Selected' /\ RateHeld'
    BY <1>1 DEF keyboard_init, Inv, Kept, Selected, RateHeld, CriticalPlaces
  <2>4. QED BY <2>1, <2>2, <2>3 DEF Inv
<1>2. CASE rtc_init
  <2>1. TypeOK'
    BY <1>2 DEF rtc_init, Inv, TypeOK, Irqs, ProgramPlaces, BASE_FREQ
  <2>2. Alone' /\ BootAlone' /\ AfterLaunches' /\ Counted'
    BY <1>2 DEF rtc_init, Inv, Alone, BootAlone, AfterLaunches, Counted, Calls, CriticalPlaces, Booting
  <2>3. Kept' /\ Selected' /\ pc' = "rtc_enable" /\ freq' = 2 /\ regA.rate' = 15
    BY <1>2 DEF rtc_init, Inv, TypeOK, Kept, Selected, BASE_FREQ
  <2>4. 32768 \div 2^(15 - 1) = 2
    <3>1. 2^14 = 16384 /\ 32768 \div 16384 = 2 /\ 15 - 1 = 14
      OBVIOUS
    <3>2. QED BY ONLY <3>1
  <2>5. RateHeld'
    BY <2>3, <2>4 DEF RateHeld, Gives, CriticalPlaces
  <2>6. QED BY <2>1, <2>2, <2>3, <2>5 DEF Inv
<1>3. CASE rtc_enable
  <2>1. TypeOK'
    BY <1>3 DEF rtc_enable, Inv, TypeOK, Irqs, ProgramPlaces
  <2>2. Alone' /\ BootAlone' /\ AfterLaunches' /\ Counted'
    BY <1>3 DEF rtc_enable, Inv, Alone, BootAlone, AfterLaunches, Counted, Calls, CriticalPlaces, Booting
  <2>3. Kept' /\ Selected' /\ RateHeld'
    BY <1>3 DEF rtc_enable, Inv, Kept, Selected, RateHeld, Gives, CriticalPlaces
  <2>4. QED BY <2>1, <2>2, <2>3 DEF Inv
<1>4. CASE pit_init
  <2>1. TypeOK'
    BY <1>4 DEF pit_init, Inv, TypeOK, Irqs, ProgramPlaces
  <2>2. Alone' /\ BootAlone' /\ AfterLaunches' /\ Counted'
    BY <1>4 DEF pit_init, Inv, Alone, BootAlone, AfterLaunches, Counted, Calls, CriticalPlaces, Booting
  <2>3. Kept' /\ Selected' /\ RateHeld'
    BY <1>4 DEF pit_init, Inv, Kept, Selected, RateHeld, Gives, CriticalPlaces
  <2>4. QED BY <2>1, <2>2, <2>3 DEF Inv
<1>5. CASE BootShell
  <2>1. shells' = 1 /\ shell_count' = shell_count /\ shell_count \in Nat
    BY <1>5 DEF BootShell, Inv, TypeOK, Counted, Booting
  <2>2. TypeOK'
    BY <1>5, <2>1, ConstantsAssumption DEF BootShell, Inv, TypeOK, ProgramPlaces
  <2>3. Alone' /\ BootAlone' /\ AfterLaunches' /\ Counted'
    BY <1>5, <2>1 DEF BootShell, Inv, Alone, BootAlone, AfterLaunches, Counted, Calls, CriticalPlaces, Booting
  <2>4. Kept' /\ Selected' /\ RateHeld'
    BY <1>5 DEF BootShell, Inv, Kept, Selected, RateHeld, Gives, CriticalPlaces
  <2>5. QED BY <2>2, <2>3, <2>4 DEF Inv
<1>6. QED BY <1>1, <1>2, <1>3, <1>4, <1>5 DEF Boot

\* Programs that call the clock.
LEMMA CallInv ==
    ASSUME Inv, CallRead \/ (\E f \in Freqs : CallWrite(f)) \/ Reset \/ Spin
    PROVE  Inv'
<1> USE DEF InProgram, cpu, pic, clock, count
<1>1. CASE CallRead
  <2>1. TypeOK'
    BY <1>1 DEF CallRead, Inv, TypeOK, ProgramPlaces
  <2>2. Alone' /\ BootAlone' /\ AfterLaunches' /\ Counted'
    BY <1>1 DEF CallRead, Inv, Alone, BootAlone, AfterLaunches, Launching, Counted, CriticalPlaces, Booting
  <2>3. Kept' /\ Selected' /\ RateHeld'
    BY <1>1 DEF CallRead, Inv, Kept, Selected, RateHeld, Gives, CriticalPlaces
  <2>4. QED BY <2>1, <2>2, <2>3 DEF Inv
<1>2. ASSUME NEW f \in Freqs, CallWrite(f) PROVE Inv'
  <2>1. RateOf(f) \in 6 .. 15 /\ f = 32768 \div 2^(RateOf(f) - 1)
    BY <1>2, RateGives DEF CallWrite
  <2>2. TypeOK'
    BY <1>2, <2>1 DEF CallWrite, Inv, TypeOK, ProgramPlaces
  <2>3. Alone' /\ BootAlone' /\ AfterLaunches' /\ Counted'
    BY <1>2 DEF CallWrite, Inv, Alone, BootAlone, AfterLaunches, Launching, Counted, CriticalPlaces, Booting
  <2>4. Kept' /\ Selected' /\ pc' = "cli" /\ rate' = RateOf(f) /\ freq' = f
    BY <1>2 DEF CallWrite, Inv, Kept, Selected
  <2>5. RateHeld'
    BY <2>1, <2>4 DEF RateHeld, Gives, CriticalPlaces
  <2>6. QED BY <2>2, <2>3, <2>4, <2>5 DEF Inv
<1>3. CASE Reset
  <2>1. TypeOK'
    BY <1>3 DEF Reset, Inv, TypeOK, ProgramPlaces
  <2>2. Alone' /\ BootAlone' /\ AfterLaunches' /\ Counted'
    BY <1>3 DEF Reset, Inv, Alone, BootAlone, AfterLaunches, Launching, Counted, Calls, CriticalPlaces, Booting
  <2>3. Kept' /\ Selected' /\ RateHeld'
    BY <1>3 DEF Reset, Inv, Kept, Selected, RateHeld, Gives, CriticalPlaces
  <2>4. QED BY <2>1, <2>2, <2>3 DEF Inv
<1>4. CASE Spin
  <2>1. TypeOK'
    BY <1>4 DEF Spin, Inv, TypeOK, ProgramPlaces
  <2>2. Alone' /\ BootAlone' /\ AfterLaunches' /\ Counted'
    BY <1>4 DEF Spin, Inv, Alone, BootAlone, AfterLaunches, Counted, Calls, CriticalPlaces, Booting
  <2>3. Kept' /\ Selected' /\ RateHeld'
    BY <1>4 DEF Spin, Inv, Kept, Selected, RateHeld, Gives, CriticalPlaces
  <2>4. QED BY <2>1, <2>2, <2>3 DEF Inv
<1>5. QED BY <1>1, <1>2, <1>3, <1>4

\* The section with interrupts disabled: nothing comes between the choice of
\* register A, the read of it and the write to it.
LEMMA SectionInv == ASSUME Inv, Section PROVE Inv'
<1> USE DEF InProgram, cpu, pic, clock, count
<1>1. CASE Disable
  <2>1. TypeOK'
    BY <1>1 DEF Disable, Inv, TypeOK, ProgramPlaces
  <2>2. Alone' /\ BootAlone' /\ AfterLaunches' /\ Counted'
    BY <1>1 DEF Disable, Inv, Alone, Top, BootAlone, AfterLaunches, Launching, Counted, Calls, CriticalPlaces, Booting
  <2>3. Kept' /\ Selected' /\ RateHeld'
    BY <1>1 DEF Disable, Inv, Kept, Selected, RateHeld, Gives, CriticalPlaces
  <2>4. QED BY <2>1, <2>2, <2>3 DEF Inv
<1>2. CASE SelectA("select", "in")
  <2>1. TypeOK'
    BY <1>2 DEF SelectA, Select, Inv, TypeOK, ProgramPlaces
  <2>2. Alone' /\ BootAlone' /\ AfterLaunches' /\ Counted'
    BY <1>2 DEF SelectA, Inv, Alone, Top, BootAlone, AfterLaunches, Launching, Counted, Calls, CriticalPlaces, Booting
  <2>3. Kept' /\ Selected' /\ RateHeld'
    BY <1>2 DEF SelectA, Select, Inv, Kept, Selected, RateHeld, Gives, CriticalPlaces
  <2>4. QED BY <2>1, <2>2, <2>3 DEF Inv
<1>3. CASE ReadA
  <2>1. prev' = RegA(TRUE, regA.rate) /\ regA.rate \in 0 .. 15
    BY <1>3 DEF ReadA, Value, Inv, TypeOK, Selected
  <2>2. TypeOK'
    BY <1>3, <2>1 DEF ReadA, In, RegA, Inv, TypeOK, ProgramPlaces
  <2>3. Alone' /\ BootAlone' /\ AfterLaunches' /\ Counted'
    BY <1>3 DEF ReadA, Inv, Alone, Top, BootAlone, AfterLaunches, Launching, Counted, Calls, CriticalPlaces, Booting
  <2>4. Kept' /\ Selected' /\ RateHeld'
    BY <1>3, <2>1 DEF ReadA, RegA, Inv, Kept, Selected, RateHeld, Gives, CriticalPlaces
  <2>5. QED BY <2>2, <2>3, <2>4 DEF Inv
<1>4. CASE SelectA("reselect", "out")
  <2>1. TypeOK'
    BY <1>4 DEF SelectA, Select, Inv, TypeOK, ProgramPlaces
  <2>2. Alone' /\ BootAlone' /\ AfterLaunches' /\ Counted'
    BY <1>4 DEF SelectA, Inv, Alone, Top, BootAlone, AfterLaunches, Launching, Counted, Calls, CriticalPlaces, Booting
  <2>3. Kept' /\ Selected' /\ RateHeld'
    BY <1>4 DEF SelectA, Select, Inv, Kept, Selected, RateHeld, Gives, CriticalPlaces
  <2>4. QED BY <2>1, <2>2, <2>3 DEF Inv
<1>5. CASE WriteA
  <2>1. regA' = [prev EXCEPT !.rate = rate] /\ prev.kept = TRUE /\ rate \in 0 .. 15
        /\ prev \in [kept : BOOLEAN, rate : 0 .. 15]
    BY <1>5 DEF WriteA, Out, Inv, TypeOK, Selected, Kept
  <2>2. regA' \in [kept : BOOLEAN, rate : 0 .. 15] /\ regA'.kept = TRUE /\ regA'.rate = rate
    BY <2>1
  <2>3. TypeOK'
    BY <1>5, <2>2 DEF WriteA, Inv, TypeOK, ProgramPlaces
  <2>4. Alone' /\ BootAlone' /\ AfterLaunches' /\ Counted'
    BY <1>5 DEF WriteA, Inv, Alone, Top, BootAlone, AfterLaunches, Launching, Counted, Calls, CriticalPlaces, Booting
  <2>5. Kept' /\ Selected' /\ RateHeld'
    BY <1>5, <2>2 DEF WriteA, Inv, Kept, Selected, RateHeld, Gives, CriticalPlaces
  <2>6. QED BY <2>3, <2>4, <2>5 DEF Inv
<1>6. CASE Enable
  <2>1. TypeOK'
    BY <1>6 DEF Enable, RegA, Inv, TypeOK, ProgramPlaces
  <2>2. Alone' /\ BootAlone' /\ AfterLaunches' /\ Counted'
    BY <1>6 DEF Enable, Inv, Alone, BootAlone, AfterLaunches, Counted, Calls, CriticalPlaces, Booting
  <2>3. Kept' /\ Selected' /\ RateHeld'
    BY <1>6 DEF Enable, Inv, Kept, Selected, RateHeld, Gives, CriticalPlaces
  <2>4. QED BY <2>1, <2>2, <2>3 DEF Inv
<1>7. QED BY <1>1, <1>2, <1>3, <1>4, <1>5, <1>6 DEF Section

-----------------------------------------------------------------------------
\* The invariant, and what follows from it.

\* Initial states.
LEMMA InitInv == ASSUME Init PROVE Inv
<1>1. /\ ctx = <<>> /\ ctx \in Seq([irq : Irqs, at : Places])
      /\ interrupts = FALSE /\ interrupts \in BOOLEAN
      /\ regA \in [kept : BOOLEAN, rate : 0 .. 15] /\ regA.kept = TRUE
      /\ prev \in [kept : BOOLEAN, rate : 0 .. 15]
      /\ shell_count \in 0 .. MAX_SHELL_COUNT + 1
      /\ shells \in 0 .. MAX_SHELL_COUNT + 2
      /\ pc = "keyboard_init" /\ pc \in ProgramPlaces
  <2>1. ctx = <<>> /\ ctx \in Seq([irq : Irqs, at : Places])
    BY DEF Init
  <2>2. interrupts = FALSE /\ interrupts \in BOOLEAN
    BY DEF Init
  <2>3. regA \in [kept : BOOLEAN, rate : 0 .. 15] /\ regA.kept = TRUE
    <3>1. regA \in [kept : {TRUE}, rate : 0 .. 15]
      BY DEF Init
    <3>2. QED BY ONLY <3>1
  <2>4. prev \in [kept : BOOLEAN, rate : 0 .. 15]
    <3>1. prev = [kept |-> TRUE, rate |-> 0]
      BY DEF Init, RegA
    <3>2. QED BY ONLY <3>1
  <2>5. /\ shell_count \in 0 .. MAX_SHELL_COUNT + 1
        /\ shells \in 0 .. MAX_SHELL_COUNT + 2
    BY ConstantsAssumption DEF Init
  <2>6. pc = "keyboard_init" /\ pc \in ProgramPlaces
    BY DEF Init, ProgramPlaces
  <2>7. QED BY <2>1, <2>2, <2>3, <2>4, <2>5, <2>6
<1>2. TypeOK
  <2>1. /\ unmasked \subseteq Irqs \cup {SLAVE_IRQ} /\ irr \subseteq Irqs /\ isr \subseteq Irqs
        /\ index \in {"A", "B", "C"}
        /\ interrupt_occurred \in 0 .. 1 /\ rate \in 0 .. 15 /\ freq \in Freqs \cup {0, 2}
    BY DEF Init
  <2>2. kbd \in BOOLEAN /\ regB \in BOOLEAN /\ regC \in BOOLEAN
    BY DEF Init
  <2>3. QED BY ONLY <1>1, <2>1, <2>2 DEF TypeOK
<1>3. Alone /\ BootAlone /\ AfterLaunches /\ Kept /\ Selected /\ RateHeld
  BY <1>1 DEF Alone, BootAlone, AfterLaunches, Kept, Selected, RateHeld, Calls, CriticalPlaces
<1>4. Counted
  BY DEF Init, Counted
<1>5. QED BY <1>2, <1>3, <1>4 DEF Inv

\* Every step keeps the invariant.
LEMMA NextInv == ASSUME Inv, [Next]_vars PROVE Inv'
<1>1. ASSUME NEW q \in Irqs, Handler(q) PROVE Inv'
  BY <1>1, HandlerSteps, HandlerStepInv, IretInv, PitLaunchInv
<1>2. CASE UNCHANGED vars
  <2>1. TypeOK' /\ Alone' /\ BootAlone' /\ AfterLaunches' /\ Counted'
    BY <1>2 DEF Inv, TypeOK, Alone, Top, BootAlone, AfterLaunches, Launching, Counted,
                vars, cpu, pic, clock, program, count
  <2>2. Kept' /\ Selected' /\ RateHeld'
    BY <1>2 DEF Inv, Kept, Selected, RateHeld, Gives, vars, cpu, pic, clock, program, count
  <2>3. QED BY <2>1, <2>2 DEF Inv
<1>3. QED
  BY <1>1, <1>2, AcceptInv, DeviceInv, BootInv, CallInv, SectionInv, ShellExitInv
     DEF Next, Program, Choice

\* The invariant holds of every state.
THEOREM InvCorrect == Spec => []Inv
BY InitInv, NextInv, PTL DEF Spec

\* No line without a handler is unmasked, rates fit register A, and the timer
\* launches one shell more than MAX_SHELL_COUNT, whatever interrupts come when.
THEOREM TypeCorrect == Spec => []TypeOK
<1>1. Inv => TypeOK
  BY DEF Inv
<1>2. QED BY <1>1, InvCorrect, PTL

\* Between two calls that program it, the clock runs at the frequency asked for,
\* though rtc_handler selects registers on the same port at any time.
THEOREM RateCorrect == Spec => []RateIsSet
<1>1. Inv => RateIsSet
  BY DEF Inv, Kept, RateHeld, Gives, RateIsSet
<1>2. QED BY <1>1, InvCorrect, PTL

-----------------------------------------------------------------------------
\* Launches, when only the timer interrupts before they are over.

\* While the timer launches shells, the only handlers are its own, and all but
\* the running one are settled.
OnlyTicks ==
    Launching => /\ irr \subseteq {PIT_IRQ}
                 /\ \A i \in 1 .. Len(ctx) :
                       /\ ctx[i].irq = PIT_IRQ
                       /\ i < Len(ctx) => ctx[i].at \in Settled

\* A tick is not latched as long as the handler of another is at work.
TickLatched ==
    PIT_IRQ \in irr =>
        \A i \in 1 .. Len(ctx) : ctx[i].irq = PIT_IRQ => ctx[i].at \in Settled

BelowLaunched ==
    \A i, j \in 1 .. Len(ctx) :
        i < j /\ ctx[j].at = "launched" => ctx[i].at \in Settled

\* What is in service is so for a handler that has still to end it.
InService ==
    \A q \in isr : \E i \in 1 .. Len(ctx) :
        ctx[i].irq = q /\ ctx[i].at \in BeforeEoi

LaunchInv == OnlyTicks /\ TickLatched /\ BelowLaunched /\ InService

\* Steps that leave the handlers alone, and latch nothing.
LEMMA SameFrames ==
    ASSUME LaunchInv, UNCHANGED <<ctx, irr, isr, shell_count>> PROVE LaunchInv'
BY DEF LaunchInv, OnlyTicks, TickLatched, BelowLaunched, InService, Launching

\* Steps in which the running handler goes on.
LEMMA TopGoesOn ==
    ASSUME LaunchInv, ctx \in Seq(Frames), ctx # <<>>, NEW next \in Places, GoTo(next),
           irr' = irr, isr' \subseteq isr, Launching' => Launching,
           Top.at \in BeforeEoi => next \in BeforeEoi \/ Top.irq \notin isr',
           Top.at \in Settled => next \in Settled,
           next = "launched" => Launching
    PROVE  LaunchInv'
<1> DEFINE n == Len(ctx)
<1>1. /\ Len(ctx') = n /\ n \in Nat /\ n > 0 /\ ctx'[n].at = next
      /\ ctx'[n].irq = ctx[n].irq /\ Top = ctx[n]
      /\ \A i \in 1 .. n : i # n => ctx'[i] = ctx[i]
  BY Gone DEF Top
<1>2. OnlyTicks'
  BY <1>1 DEF LaunchInv, OnlyTicks
<1>3. TickLatched'
  <2>1. ASSUME PIT_IRQ \in irr, NEW i \in 1 .. n, ctx'[i].irq = PIT_IRQ
        PROVE  ctx'[i].at \in Settled
    <3>1. CASE i = n
      <4>1. Top.at \in Settled
        BY <1>1, <2>1, <3>1 DEF LaunchInv, TickLatched
      <4>2. next \in Settled
        BY <4>1
      <4>3. QED BY <1>1, <3>1, <4>2
    <3>2. CASE i # n
      BY <1>1, <2>1, <3>2 DEF LaunchInv, TickLatched
    <3>3. QED BY <3>1, <3>2
  <2>2. QED BY <1>1, <2>1 DEF TickLatched
<1>4. BelowLaunched'
  <2>1. ASSUME NEW i \in 1 .. n, NEW j \in 1 .. n, i < j, ctx'[j].at = "launched"
        PROVE  ctx'[i].at \in Settled
    <3>1. i # n /\ i < n /\ ctx'[i] = ctx[i]
      BY <1>1, <2>1
    <3>2. CASE j = n
      BY <1>1, <2>1, <3>1, <3>2 DEF LaunchInv, OnlyTicks
    <3>3. CASE j # n
      BY <1>1, <2>1, <3>1, <3>3 DEF LaunchInv, BelowLaunched
    <3>4. QED BY <3>2, <3>3
  <2>2. QED BY <1>1, <2>1 DEF BelowLaunched
<1>5. InService'
  <2>1. ASSUME NEW q \in isr' PROVE \E i \in 1 .. n : ctx'[i].irq = q /\ ctx'[i].at \in BeforeEoi
    <3>1. PICK i \in 1 .. n : ctx[i].irq = q /\ ctx[i].at \in BeforeEoi
      BY DEF LaunchInv, InService
    <3>2. CASE i = n
      <4>1. next \in BeforeEoi
        BY <1>1, <3>1, <3>2
      <4>2. QED BY <1>1, <3>1, <3>2, <4>1
    <3>3. CASE i # n
      BY <1>1, <3>1, <3>3
    <3>4. QED BY <3>2, <3>3
  <2>2. QED BY <1>1, <2>1 DEF InService
<1>6. QED BY <1>2, <1>3, <1>4, <1>5 DEF LaunchInv

\* An interrupt that is taken.
LEMMA AcceptLaunch ==
    ASSUME LaunchInv, ctx \in Seq(Frames), NEW q \in Irqs, Accept(q) PROVE LaunchInv'
<1> DEFINE n == Len(ctx)
<1>1. /\ Len(ctx') = n + 1 /\ n \in Nat /\ ctx'[n + 1] = Frame(q, "entry")
      /\ \A i \in 1 .. n : ctx'[i] = ctx[i]
  BY Taken DEF Accept
<1>2. irr' = irr \ {q} /\ q \in irr /\ (Launching' <=> Launching)
  BY DEF Accept, Deliverable, Launching, count
<1>3. ctx'[n + 1].irq = q /\ ctx'[n + 1].at = "entry"
  BY <1>1 DEF Frame
<1>4. \A i \in 1 .. n + 1 : i \in 1 .. n \/ i = n + 1
  BY <1>1
<1>5. OnlyTicks'
  <2>1. ASSUME Launching
        PROVE  /\ irr' \subseteq {PIT_IRQ}
               /\ \A i \in 1 .. n + 1 :
                     /\ ctx'[i].irq = PIT_IRQ
                     /\ i < n + 1 => ctx'[i].at \in Settled
    <3>1. q = PIT_IRQ /\ irr' \subseteq {PIT_IRQ}
      BY <1>2, <2>1 DEF LaunchInv, OnlyTicks
    <3>2. ASSUME NEW i \in 1 .. n PROVE ctx'[i].irq = PIT_IRQ /\ ctx'[i].at \in Settled
      BY <1>1, <1>2, <2>1, <3>1 DEF LaunchInv, OnlyTicks, TickLatched
    <3>3. ASSUME NEW i \in 1 .. n + 1
          PROVE  ctx'[i].irq = PIT_IRQ /\ (i < n + 1 => ctx'[i].at \in Settled)
      <4>1. CASE i \in 1 .. n
        BY <3>2, <4>1
      <4>2. CASE i = n + 1
        BY <1>1, <1>3, <3>1, <4>2
      <4>3. QED BY <1>4, <4>1, <4>2
    <3>4. QED BY <3>1, <3>3
  <2>2. ASSUME Launching'
        PROVE  /\ irr' \subseteq {PIT_IRQ}
               /\ \A i \in 1 .. Len(ctx') :
                     /\ ctx'[i].irq = PIT_IRQ
                     /\ i < Len(ctx') => ctx'[i].at \in Settled
    <3>1. Launching
      BY <1>2, <2>2
    <3>2. Len(ctx') = n + 1
      BY <1>1
    <3> HIDE DEF n
    <3>3. QED BY ONLY <2>1, <3>1, <3>2
  <2>3. QED BY ONLY <2>2 DEF OnlyTicks, Launching
<1>6. TickLatched'
  <2>1. ASSUME PIT_IRQ \in irr', NEW i \in 1 .. n + 1, ctx'[i].irq = PIT_IRQ
        PROVE  ctx'[i].at \in Settled
    <3>1. q # PIT_IRQ /\ PIT_IRQ \in irr
      BY <1>2, <2>1
    <3>2. i \in 1 .. n
      BY <1>3, <1>4, <2>1, <3>1
    <3>3. QED BY <1>1, <2>1, <3>1, <3>2 DEF LaunchInv, TickLatched
  <2>2. QED BY <1>1, <2>1 DEF TickLatched
<1>7. BelowLaunched'
  <2>1. ASSUME NEW i \in 1 .. n + 1, NEW j \in 1 .. n + 1, i < j, ctx'[j].at = "launched"
        PROVE  ctx'[i].at \in Settled
    <3>1. j \in 1 .. n /\ i \in 1 .. n
      BY <1>1, <1>3, <1>4, <2>1
    <3>2. QED BY <1>1, <2>1, <3>1 DEF LaunchInv, BelowLaunched
  <2>2. QED BY <1>1, <2>1 DEF BelowLaunched
<1>8. InService'
  <2>1. isr' = isr \cup {q} /\ "entry" \in BeforeEoi
    BY DEF Accept, BeforeEoi
  <2>2. ASSUME NEW r \in isr'
        PROVE  \E i \in 1 .. n + 1 : ctx'[i].irq = r /\ ctx'[i].at \in BeforeEoi
    <3>1. CASE r = q
      <4>1. n + 1 \in 1 .. n + 1
        BY <1>1
      <4>2. QED BY <1>3, <2>1, <3>1, <4>1
    <3>2. CASE r # q
      <4>1. PICK i \in 1 .. n : ctx[i].irq = r /\ ctx[i].at \in BeforeEoi
        BY <2>1, <3>2 DEF LaunchInv, InService
      <4>2. i \in 1 .. n + 1
        BY <1>1
      <4>3. QED BY <1>1, <4>1, <4>2
    <3>3. QED BY <3>1, <3>2
  <2>3. QED BY <1>1, <2>2 DEF InService
<1>9. QED BY <1>5, <1>6, <1>7, <1>8 DEF LaunchInv

\* A handler returns.
LEMMA IretLaunch ==
    ASSUME LaunchInv, ctx \in Seq(Frames), NEW q \in Irqs, Iret(q) PROVE LaunchInv'
<1> DEFINE n == Len(ctx) - 1
<1>1. /\ Len(ctx') = n /\ n \in Nat /\ n < Len(ctx) /\ Len(ctx) \in Nat
      /\ \A i \in 1 .. n : ctx'[i] = ctx[i]
  BY Returned DEF Iret, InHandler
<1>2. irr' = irr /\ (Launching' <=> Launching)
  BY DEF Iret, Launching, pic, count
<1>3. \A i \in 1 .. n : i \in 1 .. Len(ctx) /\ i < Len(ctx)
  BY <1>1
<1> HIDE DEF n
<1>4. OnlyTicks'
  BY <1>1, <1>2, <1>3 DEF LaunchInv, OnlyTicks
<1>5. TickLatched' /\ BelowLaunched'
  BY <1>1, <1>2, <1>3 DEF LaunchInv, TickLatched, BelowLaunched
<1>6. InService'
  <2>1. isr' = isr /\ ctx[Len(ctx)].at = "iret"
    BY DEF Iret, InHandler, Top, Frame, pic
  <2>2. ASSUME NEW r \in isr' PROVE \E i \in 1 .. n : ctx'[i].irq = r /\ ctx'[i].at \in BeforeEoi
    <3>1. PICK i \in 1 .. Len(ctx) : ctx[i].irq = r /\ ctx[i].at \in BeforeEoi
      BY <2>1 DEF LaunchInv, InService
    <3>2. i # Len(ctx)
      BY <2>1, <3>1 DEF BeforeEoi
    <3>3. i \in 1 .. n
      BY <3>2 DEF n
    <3>4. QED BY <1>1, <3>1, <3>3
  <2>3. QED BY <1>1, <2>2 DEF InService
<1>7. QED BY <1>4, <1>5, <1>6 DEF LaunchInv

\* The devices raise their requests.
LEMMA DeviceLaunch ==
    ASSUME EarlyIrqs = {}, LaunchInv, PitPeriod \/ KeyPress \/ RtcPeriod PROVE LaunchInv'
<1>1. ctx' = ctx /\ isr' = isr /\ (Launching' <=> Launching)
  BY DEF PitPeriod, KeyPress, RtcPeriod, Raise, Launching, cpu, count
<1>2. CASE PitPeriod
  <2>1. irr' = irr \cup {PIT_IRQ} /\ Quiet(PIT_IRQ)
    BY <1>2 DEF PitPeriod, Raise
  <2>2. TickLatched'
    BY <1>1, <2>1 DEF TickLatched, Quiet, Settled
  <2>3. QED BY <1>1, <2>1, <2>2 DEF LaunchInv, OnlyTicks, BelowLaunched, InService
<1>3. CASE KeyPress \/ RtcPeriod
  <2>1. ~Launching /\ (PIT_IRQ \in irr' => PIT_IRQ \in irr)
    BY <1>3 DEF KeyPress, RtcPeriod, Early, Raise, KEYBOARD_IRQ, RTC_IRQ, PIT_IRQ
  <2>2. QED BY <1>1, <2>1 DEF LaunchInv, OnlyTicks, TickLatched, BelowLaunched, InService
<1>4. QED BY <1>2, <1>3

\* Every step keeps the invariant.
LEMMA NextLaunchInv ==
    ASSUME EarlyIrqs = {}, Inv, LaunchInv, [Next]_vars PROVE LaunchInv'
<1> USE DEF cpu, pic, program, count
<1>1. ctx \in Seq(Frames)
  BY DEF Inv, TypeOK, Frames
<1>2. ASSUME NEW q \in Irqs, Handler(q) PROVE LaunchInv'
  <2>1. CASE Iret(q)
    BY <1>1, <2>1, IretLaunch
  <2>2. CASE PitLaunch
    <3>1. /\ ctx # <<>> /\ GoTo("launched") /\ irr' = irr /\ isr' = isr /\ Launching
          /\ "launched" \in Places /\ "launched" \in Settled /\ Top.at \notin BeforeEoi
      BY <2>2 DEF PitLaunch, InHandler, Frame, Places, Settled, BeforeEoi
    <3>2. QED BY <1>1, <3>1, TopGoesOn
  <2>3. CASE ~Iret(q) /\ ~PitLaunch
    <3>1. HandlerStep
      BY <1>2, <2>3, HandlerSteps
    <3>2. PICK next \in Places \ {"launched"} :
             /\ GoTo(next) /\ (Top.at \in Settled => next \in Settled)
             /\ Top.at \in BeforeEoi => next \in BeforeEoi \/ Top.irq \notin isr'
      BY <3>1 DEF HandlerStep
    <3>3. ctx # <<>> /\ irr' = irr /\ isr' \subseteq isr /\ (Launching' => Launching)
      BY <3>1 DEF HandlerStep, Launching
    <3>4. QED BY <1>1, <3>2, <3>3, TopGoesOn
  <2>4. QED BY <2>1, <2>2, <2>3
<1>3. CASE ShellExit
  <2>1. /\ ctx # <<>> /\ GoTo("sti") /\ irr' = irr /\ isr' = isr /\ (Launching' => Launching)
        /\ "sti" \in Places /\ "sti" \in Settled /\ Top.at \notin BeforeEoi
    BY <1>3 DEF ShellExit, InProgram, Launching, Places, Settled, BeforeEoi
  <2>2. QED BY <1>1, <2>1, TopGoesOn
<1>4. CASE Boot
  BY <1>4, SameFrames DEF Boot, keyboard_init, rtc_init, rtc_enable, pit_init, BootShell, enable_irq
<1>5. CASE Reset \/ Spin
  BY <1>5, SameFrames DEF Reset, Spin
<1>6. CASE Section
  BY <1>6, SameFrames DEF Section, Disable, SelectA, ReadA, WriteA, Enable
<1>7. CASE CallRead \/ \E f \in Freqs : CallWrite(f)
  BY <1>7, SameFrames DEF CallRead, CallWrite
<1>8. CASE UNCHANGED vars
  BY <1>8, SameFrames DEF vars
<1>9. QED
  BY <1>1, <1>2, <1>3, <1>4, <1>5, <1>6, <1>7, <1>8, AcceptLaunch, DeviceLaunch
     DEF Next, Program, Choice

\* If only the timer interrupts before it has launched its shells, nothing is
\* in service from below a shell that it has launched: every handler there has
\* sent its end of interrupt, the tick's own before it calls execute
\* (scheduling.c 48).  (If the clock may come earlier, one need not have: run
\* rtc_lost.)
THEOREM LaunchesCorrect ==
    ASSUME EarlyIrqs = {} PROVE Spec => []NoneLeftInService
<1>1. Init => LaunchInv
  BY DEF Init, LaunchInv, OnlyTicks, TickLatched, BelowLaunched, InService
<1>2. Inv /\ LaunchInv /\ [Next]_vars => LaunchInv'
  BY NextLaunchInv
<1>3. Inv /\ LaunchInv => NoneLeftInService
  <2> SUFFICES ASSUME Inv, LaunchInv, NEW j \in 1 .. Len(ctx), ctx[j].at = "launched",
                      NEW q \in isr
               PROVE  \E i \in j + 1 .. Len(ctx) : ctx[i].irq = q /\ ctx[i].at \in BeforeEoi
    BY DEF NoneLeftInService
  <2>1. PICK i \in 1 .. Len(ctx) : ctx[i].irq = q /\ ctx[i].at \in BeforeEoi
    BY DEF LaunchInv, InService
  <2>2. ctx[i].at \notin Settled
    BY <2>1 DEF BeforeEoi, Settled
  <2>3. ~(i < j) /\ i # j
    BY <2>2 DEF LaunchInv, BelowLaunched, Settled
  <2>4. Len(ctx) \in Nat
    BY DEF Inv, TypeOK
  <2>5. i \in j + 1 .. Len(ctx)
    BY <2>3, <2>4
  <2>6. QED BY <2>1, <2>5
<1>4. QED BY <1>1, <1>2, <1>3, InvCorrect, PTL DEF Spec

-----------------------------------------------------------------------------
\* rtc_read.

\* Every step is one of waiting for an interrupt, or changes nothing of it.
LEMMA WaitStep ==
    ASSUME Inv, [Next]_vars
    PROVE  [Wait!Call \/ Wait!Interrupt \/ Wait!Return]_<<pc = "spin", pc = "spin" /\ interrupt_occurred = 1>>
<1> USE DEF program
<1>1. CASE Reset
  <2>1. pc = "reset" /\ pc' = "spin" /\ interrupt_occurred' = 0
    BY <1>1 DEF Reset, InProgram
  <2>2. QED BY <2>1 DEF Wait!Call
<1>2. CASE Spin
  <2>1. pc = "spin" /\ interrupt_occurred = 1 /\ pc' = "user"
    BY <1>2 DEF Spin, InProgram, Inv, TypeOK
  <2>2. QED BY <2>1 DEF Wait!Return
<1>3. CASE RtcFlag
  <2>1. interrupt_occurred' = 1 /\ pc' = pc
    BY <1>3 DEF RtcFlag
  <2>2. CASE pc = "spin"
    BY <2>1, <2>2 DEF Wait!Interrupt
  <2>3. CASE pc # "spin"
    BY <2>1, <2>3
  <2>4. QED BY <2>2, <2>3
<1>4. CASE PitLaunch
  <2>1. pc # "spin" /\ pc' = "user"
    BY <1>4 DEF PitLaunch, Inv, AfterLaunches, Calls
  <2>2. QED BY <2>1
<1>5. CASE pc # "spin" /\ pc' # "spin"
  BY <1>5
<1>6. CASE pc' = pc /\ interrupt_occurred' = interrupt_occurred
  BY <1>6
<1>7. ASSUME NEW q \in Irqs, Handler(q), ~PitLaunch, ~RtcFlag
      PROVE  pc' = pc /\ interrupt_occurred' = interrupt_occurred
  BY <1>7 DEF Handler, Pit, Keyboard, Rtc, Sti, Iret, PitEoi, PitCli, PitPass, KeyboardCli,
              KeyboardRead, KeyboardEoi, RtcEoi, RtcCli, RtcSelect, RtcClear, Eoi, Cli
<1>8. CASE Boot
  <2>1. pc # "spin" /\ pc' # "spin"
    BY <1>8 DEF Boot, keyboard_init, rtc_init, rtc_enable, pit_init, BootShell, InProgram
  <2>2. QED BY <1>5, <2>1
<1>9. CASE Section
  <2>1. pc # "spin" /\ pc' # "spin"
    BY <1>9 DEF Section, Disable, SelectA, ReadA, WriteA, Enable, InProgram
  <2>2. QED BY <1>5, <2>1
<1>10. CASE CallRead \/ \E f \in Freqs : CallWrite(f)
  <2>1. pc # "spin" /\ pc' # "spin"
    BY <1>10 DEF CallRead, CallWrite, InProgram
  <2>2. QED BY <1>5, <2>1
<1>11. ASSUME PitPeriod \/ KeyPress \/ RtcPeriod \/ ShellExit \/ UNCHANGED vars
              \/ \E q \in Irqs : Accept(q)
       PROVE  pc' = pc /\ interrupt_occurred' = interrupt_occurred
  BY <1>11 DEF PitPeriod, KeyPress, RtcPeriod, ShellExit, Accept, vars
<1>12. QED
  BY <1>1, <1>2, <1>3, <1>4, <1>6, <1>7, <1>8, <1>9, <1>10, <1>11 DEF Next, Program, Choice

\* rtc_read returns only after the handler has set the flag for it.
THEOREM WaitCorrect == Spec => IsInterruptWait
<1>1. Init => Wait!Init
  BY DEF Init, Wait!Init
<1>2. Inv /\ [Next]_vars =>
         [Wait!Call \/ Wait!Interrupt \/ Wait!Return]_<<pc = "spin", pc = "spin" /\ interrupt_occurred = 1>>
  BY WaitStep
<1>3. QED BY <1>1, <1>2, InvCorrect, PTL DEF Spec, IsInterruptWait, Wait!WaitSpec

=============================================================================
