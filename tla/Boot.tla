-------------------------------- MODULE Boot --------------------------------
(***************************************************************************)
(* From the loader's jump to the first shell: boot.S, entry in kernel.c,   *)
(* the descriptors it makes (x86_desc.h), the gates (idt.c) and the        *)
(* programming of the interrupt controllers (i8259.c).  Interrupts are     *)
(* enabled on the way, before everything is in place: what the handlers     *)
(* use must be there by the time their line is unmasked.                   *)
(*                                                                         *)
(* The controllers and the CPU's use of descriptors are modelled from how  *)
(* the code programs them.  What entry prints is left out.  How handlers,  *)
(* programs and devices go on from here is in module Devices.              *)
(***************************************************************************)
EXTENDS Integers, Sequences

CONSTANTS
    Links,         \* where the linker may put the kernel's tables
    ModuleLists,   \* the starts of the modules a loader may load
    Garbage        \* what memory_address holds as long as nothing is stored

MULTIBOOT_BOOTLOADER_MAGIC == 732803074
\* Two powers that fields of descriptors are cut at.
Half == 65536
Byte == 256

KERNEL_DS == 24
KERNEL_TSS == 48
KERNEL_LDT == 56

PIT_INT == 32
KEYBOARD_INT == 33
RTC_INT == 40
SYS_CALL == 128
PIT_IRQ == 0
KEYBOARD_IRQ == 1
SLAVE_IRQ == 2
RTC_IRQ == 8

VARIABLES
    pc,               \* the next thing entry does
    magic, mbi,       \* its arguments
    memory_address,   \* its local
    mod_count,
    interrupts,       \* the interrupt flag
    saved,            \* where i8259_init saves it
    pics,             \* the two controllers
    gdt,              \* the two descriptors made here
    ldtr, tr, tss,
    gates,            \* idt: vector -> gate
    boot,             \* where the file system is
    ready,            \* what has been set up besides
    linked            \* where the linker has put the tables

bootVars == <<pc, magic, mbi, memory_address, mod_count, interrupts, saved, pics,
              gdt, ldtr, tr, tss, gates, boot, ready, linked>>
arguments == <<magic, mbi, linked>>
modules == <<memory_address, mod_count>>
segments == <<gdt, ldtr, tr, tss>>

-----------------------------------------------------------------------------
\* The processor's flag and registers, lib.h and x86_desc.h.
cli == interrupts' = FALSE
sti == interrupts' = TRUE
cli_and_save == saved' = interrupts
restore_flags == interrupts' = saved
lldt(selector) == ldtr' = selector
ltr(selector) == tr' = selector

\* What the kernel gives a value of the task state; all else stays 0.
tss_t == [ss0 |-> 0, esp0 |-> 0, ldt_segment_selector |-> 0]

\* seg_desc_t, before it is given an address and a limit
Segment(opsize, type) ==
    [granularity |-> 0, opsize |-> opsize, reserved |-> 0, avail |-> 0,
     present |-> 1, dpl |-> 0, sys |-> 0, type |-> type,
     base_31_24 |-> 0, base_23_16 |-> 0, base_15_00 |-> 0,
     seg_lim_19_16 |-> 0, seg_lim_15_00 |-> 0]

\* SET_LDT_PARAMS and SET_TSS_PARAMS are the same.
SetParams(desc, addr, lim) ==
    [desc EXCEPT !.base_31_24 = addr \div (Half * Byte),
                 !.base_23_16 = (addr \div Half) % Byte,
                 !.base_15_00 = addr % Half,
                 !.seg_lim_19_16 = lim \div Half,
                 !.seg_lim_15_00 = lim % Half]

\* How the processor reads them.
Base(desc) ==
    desc.base_31_24 * Half * Byte + desc.base_23_16 * Half + desc.base_15_00
Limit(desc) == desc.seg_lim_19_16 * Half + desc.seg_lim_15_00

\* Where things are: two tables, and the linkages of the vectors behind them.
Vectors == 0 .. 19 \cup {PIT_INT, KEYBOARD_INT, RTC_INT, SYS_CALL}
TSS_SIZE == 104
LDT_SIZE == 32
TssAt == linked
LdtAt == linked + 256
LinkageAt(vector) == linked + 512 + 16 * vector

\* The tables are in the kernel's page, the second four megabytes.
ASSUME BootAssumption ==
    /\ Links \subseteq 4194304 .. 8388608 - (512 + 16 * (SYS_CALL + 1))
    /\ ModuleLists \subseteq Seq(STRING)

\* idt_desc_t: SET_IDT_ENTRY, and how the processor reads it
Gate(handler, dpl) ==
    [offset_31_16 |-> handler \div Half, offset_15_00 |-> handler % Half,
     dpl |-> dpl, present |-> 1]
Offset(gate) == gate.offset_31_16 * Half + gate.offset_15_00

-----------------------------------------------------------------------------
\* The interrupt controllers: after ICW1 on the command port come three more
\* control words on the data port; after these, what comes is the mask.
ICW1 == 17
ICW2_MASTER == 32
ICW2_SLAVE == 40
ICW3_MASTER == 4
ICW3_SLAVE == 2
ICW4 == 1

\* What one chip makes of a word on one of its two ports.
Told(chip, port, data) ==
    IF port = "COMMAND" THEN [chip EXCEPT !.expects = "vectors", !.mask = {}]
    ELSE CASE chip.expects = "vectors" ->
                [chip EXCEPT !.vectors = data, !.expects = "cascade"]
           [] chip.expects = "cascade" ->
                [chip EXCEPT !.cascade = data, !.expects = "mode"]
           [] chip.expects = "mode" -> [chip EXCEPT !.expects = "mask"]
           [] chip.expects = "mask" -> [chip EXCEPT !.mask = data]

outb(chips, c, port, data) == [chips EXCEPT ![c] = Told(@, port, data)]

Chip(q) == IF q < 8 THEN "MASTER" ELSE "SLAVE"

\* master_mask and slave_mask are what was written last.
enable_irq(chips, q) ==
    outb(chips, Chip(q), "DATA", chips[Chip(q)].mask \ {q % 8})

MASK_VAL == 0 .. 7

\* One word to the master, then one to the slave.
Both(chips, port, master, slave) ==
    outb(outb(chips, "MASTER", port, master), "SLAVE", port, slave)

ControlWords(chips) ==
    LET icw1 == Both(chips, "COMMAND", ICW1, ICW1)
        icw2 == Both(icw1, "DATA", ICW2_MASTER, ICW2_SLAVE)
        icw3 == Both(icw2, "DATA", ICW3_MASTER, ICW3_SLAVE)
        icw4 == Both(icw3, "DATA", ICW4, ICW4)
    IN  Both(icw4, "DATA", MASK_VAL, MASK_VAL)

\* A request of line q reaches the processor, through the master if it is the
\* slave's.
Deliverable(q) ==
    /\ interrupts
    /\ pics[Chip(q)].expects = "mask" /\ q % 8 \notin pics[Chip(q)].mask
    /\ q >= 8 => /\ SLAVE_IRQ \notin pics["MASTER"].mask
                 /\ pics["MASTER"].cascade = 2^pics["SLAVE"].cascade
Vector(q) == pics[Chip(q)].vectors + (q % 8)

-----------------------------------------------------------------------------
\* Where entry goes on.

\* Mutant of Order: the timer comes before the file system.
OrderTimerFirst ==
    [ldt |-> "tss", tss |-> "idt_init", idt_init |-> "paging_init",
     paging_init |-> "i8259_init", i8259_init |-> "restore_flags",
     restore_flags |-> "terminal_init", terminal_init |-> "keyboard_init",
     keyboard_init |-> "rtc_init", rtc_init |-> "rtc_enable",
     rtc_enable |-> "pit_init", pit_init |-> "filesystem_init",
     filesystem_init |-> "execute", execute |-> "running"]

\* What follows each of the calls, 109-178.
Order ==
    [ldt |-> "tss", tss |-> "idt_init", idt_init |-> "paging_init",
     paging_init |-> "i8259_init", i8259_init |-> "restore_flags",
     restore_flags |-> "terminal_init", terminal_init |-> "keyboard_init",
     keyboard_init |-> "rtc_init", rtc_init |-> "rtc_enable",
     rtc_enable |-> "filesystem_init", filesystem_init |-> "pit_init",
     pit_init |-> "execute", execute |-> "running"]

At(what) == pc = what /\ pc' = Order[what]

BootInit ==
    /\ pc = "start"
    /\ linked \in Links
    /\ magic \in {MULTIBOOT_BOOTLOADER_MAGIC, 0}
    /\ mbi \in [flags : SUBSET {3, 4, 5}, mods : ModuleLists]
    /\ memory_address = Garbage /\ mod_count = 0
    /\ interrupts \in BOOLEAN /\ saved = FALSE
    \* as the BIOS leaves them
    /\ pics = [MASTER |-> [expects |-> "mask", vectors |-> 8, cascade |-> 4, mask |-> {}],
               SLAVE |-> [expects |-> "mask", vectors |-> 112, cascade |-> 2, mask |-> {}]]
    /\ gdt = <<>> /\ ldtr = 0 /\ tr = 0
    /\ tss = tss_t
    /\ gates = <<>> /\ boot = Garbage /\ ready = {}

\* boot.S: interrupts are off before its tables are loaded.
start ==
    /\ pc = "start" /\ pc' = "magic"
    /\ cli
    /\ UNCHANGED <<arguments, modules, saved, pics, segments, gates, boot, ready>>

Still == UNCHANGED <<arguments, interrupts, saved, pics, segments, gates, boot, ready>>

\* 37-40: back to boot.S, which halts
CheckMagic ==
    /\ pc = "magic"
    /\ pc' = IF magic # MULTIBOOT_BOOTLOADER_MAGIC THEN "halted" ELSE "modules"
    /\ Still /\ UNCHANGED modules

\* 60-76: the last module's start stays.
Module ==
    /\ pc = "modules"
    /\ IF 3 \in mbi.flags /\ mod_count < Len(mbi.mods)
         THEN /\ memory_address' = mbi.mods[mod_count + 1]
              /\ mod_count' = mod_count + 1
              /\ UNCHANGED pc
         ELSE pc' = "bits" /\ UNCHANGED modules
    /\ Still

\* 78-106
CheckBits ==
    /\ pc = "bits"
    /\ pc' = IF {4, 5} \subseteq mbi.flags THEN "halted" ELSE "ldt"
    /\ Still /\ UNCHANGED modules

Rest == UNCHANGED <<arguments, modules, interrupts, saved, pics, gates, boot, ready>>

Ldt ==
    /\ At("ldt")
    /\ gdt' = [selector \in {KERNEL_LDT} |->
                    SetParams(Segment(1, 2), LdtAt, LDT_SIZE - 1)]
    /\ lldt(KERNEL_LDT)
    /\ Rest /\ UNCHANGED <<tr, tss>>

Tss ==
    /\ At("tss")
    /\ gdt' = [selector \in {KERNEL_LDT, KERNEL_TSS} |->
                    IF selector = KERNEL_LDT THEN gdt[KERNEL_LDT]
                    ELSE SetParams(Segment(0, 9), TssAt, TSS_SIZE - 1)]
    /\ tss' = [tss EXCEPT !.ldt_segment_selector = KERNEL_LDT,
                          !.ss0 = KERNEL_DS, !.esp0 = 8388608]
    /\ ltr(KERNEL_TSS)
    /\ Rest /\ UNCHANGED ldtr

\* 41 gates, and the one for system calls, which alone programs may use; those
\* without a linkage lead to address 0.
idt_init ==
    /\ At("idt_init")
    /\ gates' = [vector \in 0 .. RTC_INT \cup {SYS_CALL} |->
                Gate(IF vector \in Vectors THEN LinkageAt(vector) ELSE 0,
                     IF vector = SYS_CALL THEN 3 ELSE 0)]
    /\ UNCHANGED <<arguments, modules, interrupts, saved, pics, segments, boot, ready>>

SetsUp(what) ==
    /\ ready' = ready \cup {what}
    /\ UNCHANGED <<arguments, modules, interrupts, saved, pics, segments, gates>>

Paging == At("paging_init") /\ SetsUp("page_directory") /\ UNCHANGED boot
terminal_init == At("terminal_init") /\ SetsUp("terminal") /\ UNCHANGED boot

filesystem_init ==
    /\ At("filesystem_init") /\ SetsUp("boot")
    /\ boot' = memory_address

\* It enables interrupts for a moment, then restores the flag of before.
i8259_init ==
    /\ At("i8259_init")
    /\ cli_and_save
    /\ pics' = enable_irq(ControlWords(pics), SLAVE_IRQ)
    /\ sti
    /\ UNCHANGED <<arguments, modules, segments, gates, boot, ready>>

Settled == UNCHANGED <<arguments, modules, saved, segments, gates, boot, ready>>

RestoreFlags == At("restore_flags") /\ restore_flags /\ Settled /\ UNCHANGED pics

Enables(q) == pics' = enable_irq(pics, q)
keyboard_init ==
    At("keyboard_init") /\ Enables(KEYBOARD_IRQ) /\ Settled /\ UNCHANGED interrupts
rtc_init == At("rtc_init") /\ sti /\ Settled /\ UNCHANGED pics
rtc_enable == At("rtc_enable") /\ Enables(RTC_IRQ) /\ Settled /\ UNCHANGED interrupts
pit_init == At("pit_init") /\ Enables(PIT_IRQ) /\ sti /\ Settled

\* The first shell: it is restarted whenever it ends, so that entry never gets
\* to its own sti, the tests and the halt that follow.
execute ==
    /\ At("execute")
    /\ UNCHANGED <<arguments, modules, interrupts, saved, pics, segments, gates, boot,
                   ready>>

BootNext ==
    \/ start \/ CheckMagic \/ Module \/ CheckBits \/ Ldt \/ Tss
    \/ idt_init \/ Paging \/ i8259_init \/ RestoreFlags \/ terminal_init
    \/ keyboard_init \/ rtc_init \/ rtc_enable \/ filesystem_init \/ pit_init
    \/ execute

BootSpec == BootInit /\ [][BootNext]_bootVars

-----------------------------------------------------------------------------
\* The processor finds the kernel's stack through the task register.
StackFound ==
    /\ tr = KERNEL_TSS
    /\ Base(gdt[tr]) = TssAt /\ Limit(gdt[tr]) = TSS_SIZE - 1
    /\ gdt[tr].present = 1 /\ gdt[tr].type = 9
    /\ tss.ss0 = KERNEL_DS /\ tss.esp0 # 0

\* What the handler of a line reads that is set up here: the timer's starts
\* shells.
Uses(q) == CASE q = PIT_IRQ -> {"page_directory", "terminal", "boot"}
             [] q = KEYBOARD_IRQ -> {"terminal"}
             [] q = RTC_IRQ -> {}
HandlerOf(q) == CASE q = PIT_IRQ -> PIT_INT [] q = KEYBOARD_IRQ -> KEYBOARD_INT
                  [] q = RTC_IRQ -> RTC_INT

\* From the moment on when an interrupt can be taken, the vector that the
\* controllers were told to give for its line has a gate, the gate leads to
\* the handler of that device and no other, and what the handler reads has been
\* set up, down to the stack that a switch from user code takes; and when the
\* first shell runs, the file system is the last module, if there is one.
ReadyForInterrupts ==
    /\ pc # "start" => \A q \in {PIT_IRQ, KEYBOARD_IRQ, RTC_IRQ} : Deliverable(q) =>
        /\ Vector(q) \in DOMAIN gates
        /\ Offset(gates[Vector(q)]) = LinkageAt(HandlerOf(q))
        /\ Uses(q) \subseteq ready
        /\ StackFound
    /\ pc = "running" /\ 3 \in mbi.flags /\ mbi.mods # <<>> => boot = mbi.mods[Len(mbi.mods)]
=============================================================================
