------------------------------ MODULE Devices ------------------------------
(***************************************************************************)
(* Interrupts and the devices that raise them: the interrupt controllers   *)
(* (i8259.c), the keyboard's handler and its end of interrupt              *)
(* (keyboard.c), the timer's handler (scheduling.c), the real-time clock   *)
(* and the calls programs make on it (rtc.c), from the moment i8259_init   *)
(* has returned in kernel.c.                                               *)
(*                                                                         *)
(* The gates of the three interrupts are trap gates: a handler starts with *)
(* interrupts enabled, and another interrupt may come before its cli.  If  *)
(* that one is a tick that launches a shell, the handler is suspended for  *)
(* as long as the shell lives, wherever it was.                            *)
(*                                                                         *)
(* The controllers, the CPU's way of taking interrupts and the clock chip  *)
(* are modelled from how the code uses them.  A device raises no second    *)
(* interrupt while a handler of its first is still on the stack: the       *)
(* handlers take microseconds, the devices milliseconds.                   *)
(*                                                                         *)
(* Not here: what a key does (LineDiscipline), how a shell is launched     *)
(* (Processes).                                                            *)
(***************************************************************************)
EXTENDS Integers, Sequences

CONSTANTS
    MAX_SHELL_COUNT, \* the timer stops launching above it: 2 in scheduling.c
    Freqs,           \* what programs write to the clock
    EarlyIrqs        \* the devices, besides the timer, that may interrupt
                     \* before the timer has launched its shells

PIT_IRQ == 0
KEYBOARD_IRQ == 1
SLAVE_IRQ == 2
RTC_IRQ == 8
Irqs == {PIT_IRQ, KEYBOARD_IRQ, RTC_IRQ}    \* a lower number goes first

BASE_FREQ == 15                             \* rate for 2 Hz, in rtc.c

ASSUME ConstantsAssumption ==
    /\ MAX_SHELL_COUNT \in Nat
    /\ Freqs \subseteq Int
    /\ EarlyIrqs \subseteq {KEYBOARD_IRQ, RTC_IRQ}

VARIABLES
    interrupts,         \* the interrupt flag, EFLAGS.IF
    unmasked,           \* lines whose bit in master_mask, slave_mask is 0
    irr,                \* interrupt requests the controllers have latched
    isr,                \* interrupts in service: no end of interrupt yet
    ctx,                \* handlers on the stack, the running one last
    kbd,                \* does the keyboard hold a byte to be read?
    index,              \* register of the clock selected on port 0x70
    regA, regB, regC,   \* rate and high bits; interrupt on; one pending
    interrupt_occurred, \* the flag rtc_read waits for
    pc, prev, rate,     \* of the boot code, then of the program that runs
    freq,               \* the frequency last asked of the clock, by init or
                        \* a write that was accepted
    shell_count,        \* shells the timer has launched
    shells              \* shells there are

cpu == <<interrupts, ctx>>
pic == <<unmasked, irr, isr>>
clock == <<index, regA, regB, regC>>
program == <<pc, prev, rate, freq>>
count == <<shell_count, shells>>

vars == <<cpu, pic, kbd, clock, interrupt_occurred, program, count>>

\* A handler: the interrupt it is for and the place it has reached.  At
\* "launched" pit_handler is inside execute and a program runs above it.
Frame(q, at) == [irq |-> q, at |-> at]

Places == {"entry", "cli", "test", "read", "eoi", "select", "clear", "flag",
           "sti", "iret", "launched"}

\* Contents of register A: the high four bits, kept or not, and the rate.
RegA(kept, r) == [kept |-> kept, rate |-> r]

ProgramPlaces == {"keyboard_init", "rtc_init", "rtc_enable", "pit_init",
                  "execute", "user", "reset", "spin", "cli", "select", "in",
                  "reselect", "out", "sti"}

Launching == shell_count <= MAX_SHELL_COUNT

-----------------------------------------------------------------------------
\* i8259_init has masked every line but the slave's, and restored the flags
\* the boot loader left: interrupts disabled.
Init ==
    /\ interrupts = FALSE
    /\ unmasked = {SLAVE_IRQ}
    /\ irr = {} /\ isr = {}
    /\ ctx = <<>>
    /\ kbd = FALSE
    /\ index \in {"A", "B", "C"}
    /\ regA \in [kept : {TRUE}, rate : 0 .. 15]
    /\ regB = FALSE /\ regC = FALSE
    /\ interrupt_occurred = 0
    /\ pc = "keyboard_init"
    /\ prev = RegA(TRUE, 0)
    /\ rate = 0 /\ freq = 0
    /\ shell_count = 0 /\ shells = 0

-----------------------------------------------------------------------------
\* The devices.

Quiet(q) == \A i \in 1 .. Len(ctx) : ctx[i].irq # q \/ ctx[i].at = "launched"
Early(q) == Launching => q \in EarlyIrqs

Raise(q) == irr' = irr \cup {q} /\ UNCHANGED <<unmasked, isr>>

\* The timer's period: 20 ms.
PitPeriod ==
    /\ pc \in {"execute", "user", "reset", "spin", "cli", "select", "in",
               "reselect", "out", "sti"}
    /\ Quiet(PIT_IRQ)
    /\ Raise(PIT_IRQ)
    /\ UNCHANGED <<cpu, kbd, clock, interrupt_occurred, program, count>>

\* A key is pressed or released; the next byte comes when this one was read.
KeyPress ==
    /\ ~kbd
    /\ Quiet(KEYBOARD_IRQ) /\ Early(KEYBOARD_IRQ)
    /\ kbd' = TRUE
    /\ Raise(KEYBOARD_IRQ)
    /\ UNCHANGED <<cpu, clock, interrupt_occurred, program, count>>

\* The clock's period: no new request until register C has been read.
RtcPeriod ==
    /\ regB /\ ~regC
    /\ Quiet(RTC_IRQ) /\ Early(RTC_IRQ)
    /\ regC' = TRUE
    /\ Raise(RTC_IRQ)
    /\ UNCHANGED <<cpu, kbd, index, regA, regB, interrupt_occurred, program,
                   count>>

-----------------------------------------------------------------------------
\* The CPU and the controllers.

Deliverable(q) ==
    /\ interrupts
    /\ q \in irr \cap unmasked
    /\ q = RTC_IRQ => SLAVE_IRQ \in unmasked
    /\ \A r \in isr : q < r

\* A request is taken before the next instruction, the most urgent first; the
\* linkage calls the handler, with interrupts still enabled.
Accept(q) ==
    /\ Deliverable(q)
    /\ \A r \in Irqs : Deliverable(r) => q <= r
    /\ irr' = irr \ {q}
    /\ isr' = isr \cup {q}
    /\ ctx' = Append(ctx, Frame(q, "entry"))
    /\ UNCHANGED <<interrupts, unmasked, kbd, clock, interrupt_occurred,
                   program, count>>

Step == \A q \in Irqs : ~Deliverable(q)

Top == ctx[Len(ctx)]
InHandler(q, at) == ctx # <<>> /\ Top = Frame(q, at) /\ Step
InProgram(at) == Step /\ pc = at /\ (ctx # <<>> => Top.at = "launched")

GoTo(at) == ctx' = [ctx EXCEPT ![Len(ctx)].at = at]

send_eoi(q) == isr' = isr \ {q} /\ UNCHANGED <<unmasked, irr>>

enable_irq(q) == unmasked' = unmasked \cup {q} /\ UNCHANGED <<irr, isr>>

-----------------------------------------------------------------------------
\* Booting, kernel.c 159-177.

keyboard_init ==
    /\ InProgram("keyboard_init")
    /\ enable_irq(KEYBOARD_IRQ)
    /\ pc' = "rtc_init"
    /\ UNCHANGED <<cpu, kbd, clock, interrupt_occurred, prev, rate, freq, count>>

\* rtc.c 32-44, with interrupts disabled: register B, then A.
rtc_init ==
    /\ InProgram("rtc_init")
    /\ index' = "A"
    /\ regB' = TRUE
    /\ regA' = [regA EXCEPT !.rate = BASE_FREQ]
    /\ freq' = 2
    /\ interrupts' = TRUE
    /\ pc' = "rtc_enable"
    /\ UNCHANGED <<ctx, pic, kbd, regC, interrupt_occurred, prev, rate, count>>

rtc_enable ==
    /\ InProgram("rtc_enable")
    /\ enable_irq(RTC_IRQ)
    /\ pc' = "pit_init"
    /\ UNCHANGED <<cpu, kbd, clock, interrupt_occurred, prev, rate, freq, count>>

pit_init ==
    /\ InProgram("pit_init")
    /\ enable_irq(PIT_IRQ)
    /\ pc' = "execute"
    /\ UNCHANGED <<cpu, kbd, clock, interrupt_occurred, prev, rate, freq, count>>

\* entry's call of execute comes to the iret into the first shell, unless a
\* tick launches a shell above it.
BootShell ==
    /\ InProgram("execute")
    /\ pc' = "user"
    /\ shells' = shells + 1
    /\ UNCHANGED <<cpu, pic, kbd, clock, interrupt_occurred, prev, rate, freq,
                   shell_count>>

Boot == keyboard_init \/ rtc_init \/ rtc_enable \/ pit_init \/ BootShell

-----------------------------------------------------------------------------
\* What the handlers have in common.

Cli(q, at, next) ==
    /\ InHandler(q, at)
    /\ interrupts' = FALSE
    /\ GoTo(next)
    /\ UNCHANGED <<pic, kbd, clock, interrupt_occurred, program, count>>

Sti(q) ==
    /\ InHandler(q, "sti")
    /\ interrupts' = TRUE
    /\ GoTo("iret")
    /\ UNCHANGED <<pic, kbd, clock, interrupt_occurred, program, count>>

Iret(q) ==
    /\ InHandler(q, "iret")
    /\ ctx' = SubSeq(ctx, 1, Len(ctx) - 1)
    /\ UNCHANGED <<interrupts, pic, kbd, clock, interrupt_occurred, program,
                   count>>

Eoi(q, at, next) ==
    /\ InHandler(q, at)
    /\ send_eoi(q)
    /\ GoTo(next)
    /\ UNCHANGED <<interrupts, kbd, clock, interrupt_occurred, program, count>>

-----------------------------------------------------------------------------
\* pit_handler, scheduling.c 46-69.

\* Mutant of PitEoi: the end of interrupt is sent when execute is back.
PitEoiLate ==
    \/ /\ InHandler(PIT_IRQ, "entry")
       /\ GoTo("cli")
       /\ UNCHANGED <<interrupts, pic, kbd, clock, interrupt_occurred, program,
                      count>>
    \/ Eoi(PIT_IRQ, "sti", "iret")

PitEoi == Eoi(PIT_IRQ, "entry", "cli")
PitCli == Cli(PIT_IRQ, "cli", "test")

\* Mutant of PitLaunch: one more shell is launched.
PitLaunchOneMore ==
    /\ InHandler(PIT_IRQ, "test")
    /\ shell_count <= MAX_SHELL_COUNT + 1
    /\ shell_count' = shell_count + 1
    /\ shells' = shells + 1
    /\ GoTo("launched")
    /\ interrupts' = TRUE
    /\ pc' = "user"
    /\ UNCHANGED <<pic, kbd, clock, interrupt_occurred, prev, rate, freq>>

\* 60-64: execute comes to the iret into the shell, which enables interrupts.
PitLaunch ==
    /\ InHandler(PIT_IRQ, "test")
    /\ Launching
    /\ shell_count' = shell_count + 1
    /\ shells' = shells + 1
    /\ GoTo("launched")
    /\ interrupts' = TRUE
    /\ pc' = "user"
    /\ UNCHANGED <<pic, kbd, clock, interrupt_occurred, prev, rate, freq>>

PitPass ==
    /\ InHandler(PIT_IRQ, "test")
    /\ ~Launching
    /\ GoTo("sti")
    /\ UNCHANGED <<interrupts, pic, kbd, clock, interrupt_occurred, program,
                   count>>

\* halt restarts a shell that ends if it is one of the first three; a fourth
\* one gives execute back to pit_handler.  (What the tick interrupted was no
\* call on the clock: those come later, so pc is right as it is.)
ShellExit ==
    /\ InProgram("user")
    /\ ctx # <<>> /\ shells > 3
    /\ shells' = shells - 1
    /\ GoTo("sti")
    /\ UNCHANGED <<interrupts, pic, kbd, clock, interrupt_occurred, program,
                   shell_count>>

Pit == PitEoi \/ PitCli \/ PitLaunch \/ PitPass

-----------------------------------------------------------------------------
\* keyboard_handler, keyboard.c 70-104.

KeyboardCli == Cli(KEYBOARD_IRQ, "entry", "read")

\* 75-97: the byte is read and dealt with.
KeyboardRead ==
    /\ InHandler(KEYBOARD_IRQ, "read")
    /\ kbd' = FALSE
    /\ GoTo("eoi")
    /\ UNCHANGED <<interrupts, pic, clock, interrupt_occurred, program, count>>

\* Mutant of KeyboardEoi: the end of interrupt is not sent.
KeyboardEoiMissing ==
    /\ InHandler(KEYBOARD_IRQ, "eoi")
    /\ GoTo("sti")
    /\ UNCHANGED <<interrupts, pic, kbd, clock, interrupt_occurred, program,
                   count>>

KeyboardEoi == Eoi(KEYBOARD_IRQ, "eoi", "sti")

Keyboard == KeyboardCli \/ KeyboardRead \/ KeyboardEoi

-----------------------------------------------------------------------------
\* The clock's ports.

Select(register) == index' = register

\* inb: reading register C tells the clock that its interrupt was seen.
In == regC' = (regC /\ index # "C")
Value == RegA(index = "A", IF index = "A" THEN regA.rate ELSE 0)

\* outb: register C cannot be written.
Out(value) == regA' = IF index = "A" THEN value ELSE regA

\* rtc_handler, rtc.c 58-73.

RtcEoi == Eoi(RTC_IRQ, "entry", "cli")
RtcCli == Cli(RTC_IRQ, "cli", "select")

RtcSelect ==
    /\ InHandler(RTC_IRQ, "select")
    /\ Select("C")
    /\ GoTo("clear")
    /\ UNCHANGED <<interrupts, pic, kbd, regA, regB, regC, interrupt_occurred,
                   program, count>>

\* Mutant of RtcClear: the read whose result is thrown away is left out.
RtcClearMissing ==
    /\ InHandler(RTC_IRQ, "clear")
    /\ GoTo("flag")
    /\ UNCHANGED <<interrupts, pic, kbd, clock, interrupt_occurred, program,
                   count>>

RtcClear ==
    /\ InHandler(RTC_IRQ, "clear")
    /\ In
    /\ GoTo("flag")
    /\ UNCHANGED <<interrupts, pic, kbd, index, regA, regB, interrupt_occurred,
                   program, count>>

RtcFlag ==
    /\ InHandler(RTC_IRQ, "flag")
    /\ interrupt_occurred' = 1
    /\ GoTo("sti")
    /\ UNCHANGED <<interrupts, pic, kbd, clock, program, count>>

Rtc == RtcEoi \/ RtcCli \/ RtcSelect \/ RtcClear \/ RtcFlag

Handler(q) == \/ q = PIT_IRQ /\ Pit
              \/ q = KEYBOARD_IRQ /\ Keyboard
              \/ q = RTC_IRQ /\ Rtc
              \/ Sti(q) \/ Iret(q)

-----------------------------------------------------------------------------
\* The calls programs make on the clock, once they can be started.

\* rtc_read, 105-110: reset the flag and spin until it is set.
CallRead ==
    /\ InProgram("user") /\ ~Launching
    /\ pc' = "reset"
    /\ UNCHANGED <<cpu, pic, kbd, clock, interrupt_occurred, prev, rate, freq,
                   count>>

\* Mutant of Reset: line 107 is missing.
ResetMissing ==
    /\ InProgram("reset")
    /\ pc' = "spin"
    /\ UNCHANGED <<cpu, pic, kbd, clock, interrupt_occurred, prev, rate, freq,
                   count>>

Reset ==
    /\ InProgram("reset")
    /\ interrupt_occurred' = 0
    /\ pc' = "spin"
    /\ UNCHANGED <<cpu, pic, kbd, clock, prev, rate, freq, count>>

Spin ==
    /\ InProgram("spin")
    /\ interrupt_occurred # 0
    /\ pc' = "user"
    /\ UNCHANGED <<cpu, pic, kbd, clock, interrupt_occurred, prev, rate, freq,
                   count>>

\* 124-139: write_freq counts down from BASE_FREQ while i doubles from 2 to
\* 1024; 0 for a frequency that i does not meet.
RateOf(f) ==
    IF \E k \in 1 .. 10 : f = 2^k
    THEN BASE_FREQ - ((CHOOSE k \in 1 .. 10 : f = 2^k) - 1)
    ELSE 0

\* rtc_write returns -1 for such a frequency.
CallWrite(f) ==
    /\ InProgram("user") /\ ~Launching
    /\ RateOf(f) # 0
    /\ rate' = RateOf(f) /\ freq' = f
    /\ pc' = "cli"
    /\ UNCHANGED <<cpu, pic, kbd, clock, interrupt_occurred, prev, count>>

\* Mutant of Disable: the critical section lacks its cli.
DisableMissing ==
    /\ InProgram("cli")
    /\ pc' = "select"
    /\ UNCHANGED <<cpu, pic, kbd, clock, interrupt_occurred, prev, rate, freq,
                   count>>

Disable ==
    /\ InProgram("cli")
    /\ interrupts' = FALSE
    /\ pc' = "select"
    /\ UNCHANGED <<ctx, pic, kbd, clock, interrupt_occurred, prev, rate, freq,
                   count>>

SelectA(at, next) ==
    /\ InProgram(at)
    /\ Select("A")
    /\ pc' = next
    /\ UNCHANGED <<cpu, pic, kbd, regA, regB, regC, interrupt_occurred, prev,
                   rate, freq, count>>

ReadA ==
    /\ InProgram("in")
    /\ In
    /\ prev' = Value
    /\ pc' = "reselect"
    /\ UNCHANGED <<cpu, pic, kbd, index, regA, regB, interrupt_occurred, rate,
                   freq, count>>

WriteA ==
    /\ InProgram("out")
    /\ Out([prev EXCEPT !.rate = rate])
    /\ pc' = "sti"
    /\ UNCHANGED <<cpu, pic, kbd, index, regB, regC, interrupt_occurred, prev,
                   rate, freq, count>>

Enable ==
    /\ InProgram("sti")
    /\ interrupts' = TRUE
    /\ pc' = "user"
    /\ prev' = RegA(TRUE, 0) /\ rate' = 0     \* locals no more
    /\ UNCHANGED <<ctx, pic, kbd, clock, interrupt_occurred, freq, count>>

Section == \/ Disable \/ SelectA("select", "in") \/ ReadA
           \/ SelectA("reselect", "out") \/ WriteA \/ Enable

\* What the CPU does of itself, and what users and programs may do.
Program == Boot \/ Reset \/ Spin \/ Section
Choice == ShellExit \/ CallRead \/ \E f \in Freqs : CallWrite(f)

Next == \/ PitPeriod \/ KeyPress \/ RtcPeriod
        \/ \E q \in Irqs : Accept(q) \/ Handler(q)
        \/ Program
        \/ Choice

Spec == Init /\ [][Next]_vars

\* The timer and the clock are periodic, with periods much longer than their
\* handlers: a request is taken, a handler goes on and the program goes on if
\* they could again and again, though interrupts come in between.
Fairness ==
    /\ WF_vars(PitPeriod) /\ WF_vars(RtcPeriod)
    /\ \A q \in Irqs : SF_vars(Accept(q)) /\ SF_vars(Handler(q))
    /\ SF_vars(Program)

FairSpec == Spec /\ Fairness

-----------------------------------------------------------------------------
\* No line is unmasked that has no handler, rates fit the four bits of
\* register A, and the timer launches one shell more than MAX_SHELL_COUNT.
TypeOK ==
    /\ interrupts \in BOOLEAN
    /\ unmasked \subseteq Irqs \cup {SLAVE_IRQ}
    /\ irr \subseteq Irqs /\ isr \subseteq Irqs
    /\ ctx \in Seq([irq : Irqs, at : Places])
    /\ kbd \in BOOLEAN
    /\ index \in {"A", "B", "C"}
    /\ regA \in [kept : BOOLEAN, rate : 0 .. 15]
    /\ regB \in BOOLEAN /\ regC \in BOOLEAN
    /\ interrupt_occurred \in 0 .. 1
    /\ pc \in ProgramPlaces
    /\ prev \in [kept : BOOLEAN, rate : 0 .. 15]
    /\ rate \in 0 .. 15 /\ freq \in Freqs \cup {0, 2}
    /\ shell_count \in 0 .. MAX_SHELL_COUNT + 1
    /\ shells \in 0 .. MAX_SHELL_COUNT + 2

\* Places of a handler that has still to send its end of interrupt.
BeforeEoi == {"entry", "read", "eoi"}

\* While a shell runs that a tick has launched, nothing is in service from
\* before: neither that tick nor what it interrupted.  Else that interrupt and
\* all less urgent ones would wait for the shell to end.  What is in service is
\* for a handler that runs above the shell and will say so.
NoneLeftInService ==
    \A j \in 1 .. Len(ctx) : ctx[j].at = "launched" =>
        \A q \in isr : \E i \in j + 1 .. Len(ctx) :
            ctx[i].irq = q /\ ctx[i].at \in BeforeEoi

\* Outside rtc_init and rtc_write, which program it, the clock runs at the frequency
\* last asked of it (32768 >> (rate - 1), the chip's rule), and the bits of
\* register A the code means to keep are kept, though the handler selects
\* another register on the same port at any time.
RateIsSet ==
    pc \in {"rtc_enable", "pit_init", "execute", "user", "reset", "spin"} =>
        regA.kept /\ freq = 32768 \div 2^(regA.rate - 1)

\* rtc_read returns: the clock's interrupt is unmasked, taken, acknowledged in
\* the controllers and in register C, again and again.
RtcReadReturns == pc = "spin" ~> pc = "user"

\* Every byte from the keyboard is read.
KeysAreTaken == kbd ~> ~kbd

\* rtc_read returns only after the handler has set the flag for it: a set flag
\* is one the handler has set since the call began to wait.
Wait == INSTANCE InterruptWait WITH
            waiting <- pc = "spin",
            come <- pc = "spin" /\ interrupt_occurred = 1

IsInterruptWait == Wait!WaitSpec

=============================================================================
