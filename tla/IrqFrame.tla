------------------------------ MODULE IrqFrame ------------------------------
(***************************************************************************)
(* Entry to and return from interrupts: the stubs of idt_table.s, the      *)
(* frame their handlers read and write (struct interrupt_frame) and the    *)
(* handlers of interrupt.c and of the arch part of page_fault.c.  What the *)
(* timer's handler does to tasks is in Sched, what a page fault does to an *)
(* address space in AddressSpace.                                          *)
(*                                                                         *)
(* The kernel stack is a sequence of words, the last pushed first.  A word *)
(* is <<what it is, number>>.  Handlers run with interrupts off (all gates *)
(* are interrupt gates), but may meet a page fault.                        *)
(***************************************************************************)
EXTENDS Integers, Sequences, SequencesExt

CONSTANTS
  Vectors,      \* vectors raised
  FaultCodes,   \* error codes the processor pushes
  Numbers,      \* what a program may have in rax at a system call
  MaxNested     \* bound: interrupts open at a time

ASSUME IrqAssumption ==
  /\ Vectors \subseteq 0 .. 255 /\ FaultCodes \subseteq Nat /\ Numbers \subseteq Int
  /\ MaxNested \in Nat \ {0}

VARIABLES
  regs,         \* the general registers
  pc,           \* <<"pc", d>>: in code that d interrupts have interrupted
  stack,        \* the kernel stack
  open,         \* history: what the open interrupts interrupted, last first
  told,         \* what kernel_page_fault has been told of the last fault
  istage        \* "code", "stub", "handler", "back", "halted", "lost"

irqVars == <<regs, pc, stack, open, told, istage>>

Regs == {"rax", "rcx", "rdx", "rbx", "rbp", "rsi", "rdi", "r8", "r9", "r10", "r11", "r12",
         "r13", "r14", "r15"}
CallerSaved == {"rax", "rcx", "rdx", "rsi", "rdi", "r8", "r9", "r10", "r11"}

NotTold == [flags |-> {}, pc |-> <<"pc", -1>>]

(* A program about to do something, n in rax.                              *)
Program(n) == [r \in Regs |-> IF r = "rax" THEN <<"number", n>> ELSE <<r, 0>>]
IrqStart ==
  /\ regs \in {Program(n) : n \in Numbers} /\ pc = <<"pc", 0>>
  /\ stack = <<>> /\ open = <<>> /\ told = NotTold /\ istage = "code"

(* pushaq_macro and popaq_macro.                                           *)
PushOrder ==
  <<"rax", "rcx", "rdx", "rbx", "rbp", "rsi", "rdi", "r15", "r14", "r13", "r12", "r11", "r10",
    "r9", "r8">>
PopOrder_Swapped ==
  <<"r8", "r9", "r10", "r11", "r12", "r13", "r14", "r15", "rdi", "rsi", "rbx", "rbp", "rdx",
    "rcx", "rax">>
PopOrder ==
  <<"r8", "r9", "r10", "r11", "r12", "r13", "r14", "r15", "rdi", "rsi", "rbp", "rbx", "rdx",
    "rcx", "rax">>
Pushed == Reverse([k \in DOMAIN PushOrder |-> regs[PushOrder[k]]])
Index(s, x) == CHOOSE k \in DOMAIN s : s[k] = x
Popped(s) == [r \in Regs |-> s[Index(PopOrder, r)]]

(* struct interrupt_frame, its union as err and as noerr.                  *)
Exception == <<"rip", "cs", "rflags", "rsp", "ss">>
FrameRegs ==
  <<"interrupt_id", "r8", "r9", "r10", "r11", "r12", "r13", "r14", "r15", "rdi", "rsi", "rbp",
    "rbx", "rdx", "rcx", "rax">>
FrameErr == FrameRegs \o <<"err_code">> \o Exception
FrameNoerr == FrameRegs \o Exception
Field(layout, name) == stack[Index(layout, name)]

(* The stub a vector of isr_stub_table has, and what the stub calls.       *)
ErrStubs == {8, 10, 11, 12, 13, 14, 17, 30}
Stub(v) == IF v >= 32 THEN "irq" ELSE IF v \in ErrStubs THEN "err" ELSE "noerr"
HandlerOf(v) ==
  IF v >= 32 THEN "__irq_handler_stub"
  ELSE IF v = 14 THEN "__int_page_fault"
  ELSE IF v \in ErrStubs THEN "_exception_handler_stub_err" ELSE "_exception_handler_stub_noerr"

(* setup_interrupts: user code may use the gate of system calls only.      *)
Gate(v) == [stub |-> Stub(v), user |-> v = 128]

-----------------------------------------------------------------------------
(* The processor.  It pushes an error code with these exceptions; the two  *)
(* others that have one (21 and 29) belong to features never turned on.    *)
WithCode == {8} \cup 10 .. 14 \cup {17, 30}
Codes(v) == IF v \in WithCode THEN {<<<<"code", e>>>> : e \in FaultCodes} ELSE {<<>>}

Deliver(v) ==
  /\ Len(open) < MaxNested
  /\ \E code \in Codes(v) :
       /\ open' = <<[vector |-> v, regs |-> regs, pc |-> pc, stack |-> stack, code |-> code]>> \o open
       /\ stack' = code \o <<pc, <<"cs", pc[2]>>, <<"rflags", pc[2]>>, <<"sp", Len(stack)>>,
                             <<"ss", pc[2]>>>> \o stack
  /\ pc' = <<"pc", Len(open) + 1>> /\ istage' = "stub"
  /\ UNCHANGED <<regs, told>>

(* An interrupt or exception of a program; its int instruction; a page     *)
(* fault of a handler.                                                     *)
Interrupt(v) == istage = "code" /\ v # 128 /\ Deliver(v)
SoftwareInt(n) ==
  istage = "code" /\ regs["rax"][1] = "number" /\ Deliver(IF Gate(n).user THEN n ELSE 13)
NestedFault == istage = "handler" /\ Deliver(14)

(* A program goes on: it computes what it has in its registers next.       *)
Compute ==
  /\ istage = "code" /\ regs["rax"][1] # "number"
  /\ regs' \in {Program(n) : n \in Numbers}
  /\ UNCHANGED <<pc, stack, open, told, istage>>

(* iretq: an address, a stack pointer.                                     *)
Iretq(s) ==
  /\ pc' = s[1]
  /\ stack' = SubSeq(stack, Len(stack) - s[4][2] + 1, Len(stack))

-----------------------------------------------------------------------------
Vector == open[1].vector

(* A stub up to its call ...                                               *)
EnterStub ==
  /\ istage = "stub"
  /\ stack' = <<<<"id", Vector>>>> \o Pushed \o stack
  /\ regs' = [regs EXCEPT !["rdi"] = <<"frame", Len(stack')>>]
  /\ istage' = "handler"
  /\ UNCHANGED <<pc, open, told>>

(* ... and from there: interrupt_id, the registers, the error code.        *)
AfterFrame_KeepsCode(stub) == 17
AfterFrame(stub) == IF stub = "err" THEN 18 ELSE 17
LeaveStub ==
  /\ istage = "back"
  /\ regs' = Popped(Tail(stack))
  /\ Iretq(SubSeq(stack, AfterFrame(Gate(Vector).stub), Len(stack)))
  /\ open' = Tail(open) /\ told' = NotTold
  /\ istage' = IF open' = <<>> THEN "code" ELSE "handler"

(* A handler returns; the registers a call may change are anything.        *)
HandlerReturns ==
  /\ regs' = [r \in Regs |-> IF r \in CallerSaved THEN <<"any", 0>> ELSE regs[r]]
  /\ istage' = "back"
  /\ UNCHANGED <<pc, open>>

Calls(entry) == istage = "handler" /\ HandlerOf(Vector) = entry
Id == Field(FrameRegs, "interrupt_id")[2]

ExceptionNoerr ==
  /\ Calls("_exception_handler_stub_noerr")
  /\ HandlerReturns
  /\ UNCHANGED <<stack, told>>

(* Protection and stack faults end in a loop.                              *)
ExceptionErr ==
  /\ Calls("_exception_handler_stub_err")
  /\ IF Id \in {12, 13} THEN istage' = "halted" /\ UNCHANGED <<regs, pc, open>> ELSE HandlerReturns
  /\ UNCHANGED <<stack, told>>

(* The bits of a page fault's error code; kernel_page_fault returns when   *)
(* it has mapped a page and halts when it cannot.                          *)
Bit(e, b) == (e \div b) % 2 = 1
FaultFlags(e) ==
  (IF Bit(e, 1) THEN {"protection"} ELSE {}) \cup (IF Bit(e, 2) THEN {"write"} ELSE {})
    \cup (IF Bit(e, 4) THEN {"user"} ELSE {}) \cup (IF Bit(e, 16) THEN {"instruction"} ELSE {})
PageFault ==
  /\ Calls("__int_page_fault")
  /\ told' = [flags |-> FaultFlags(Field(FrameErr, "err_code")[2]), pc |-> Field(FrameErr, "rip")]
  /\ HandlerReturns \/ (istage' = "halted" /\ UNCHANGED <<regs, pc, open>>)
  /\ UNCHANGED stack

(* The timer's handler, when the task runs again, and the other ones.      *)
Irq ==
  /\ Calls("__irq_handler_stub") /\ Id # 128
  /\ HandlerReturns
  /\ UNCHANGED <<stack, told>>

(* A system call, with syscall_table: three functions in four places.  A   *)
(* result says which function it is from and what its arguments were.      *)
SyscallsNr == 4
SyscallTable == 0 .. 2
Arguments == <<"rdi", "rsi", "rdx", "r10", "r8", "r9">>
Result(n, args) == <<"result", n, args>>
FrameRax == Field(FrameRegs, "rax")
Syscall ==
  /\ Calls("__irq_handler_stub") /\ Id = 128
  /\ LET n == FrameRax[2]
         args == [k \in DOMAIN Arguments |-> Field(FrameRegs, Arguments[k])]
     IN  CASE n >= SyscallsNr -> HandlerReturns /\ UNCHANGED stack
           [] n \in SyscallTable ->
                /\ HandlerReturns
                /\ stack' = [stack EXCEPT ![Index(FrameRegs, "rax")] = Result(n, args)]
           [] OTHER -> istage' = "lost" /\ UNCHANGED <<regs, pc, open, stack>>
  /\ UNCHANGED told

IrqNext ==
  \/ \E v \in Vectors : Interrupt(v) \/ SoftwareInt(v)
  \/ NestedFault \/ Compute \/ EnterStub \/ LeaveStub
  \/ ExceptionNoerr \/ ExceptionErr \/ PageFault \/ Irq \/ Syscall

-----------------------------------------------------------------------------
(* What interrupted code finds in its registers when it goes on.           *)
RegsAfter(i) ==
  LET n == i.regs["rax"][2]
  IN  IF i.vector = 128 /\ n \in SyscallTable
        THEN [i.regs EXCEPT !["rax"] =
                Result(n, [k \in DOMAIN Arguments |-> i.regs[Arguments[k]]])]
        ELSE i.regs

(* An interrupt is transparent: the code it interrupted goes on where it   *)
(* was, with its registers and the kernel stack as they were, only that    *)
(* rax holds the result of a system call on that code's arguments; and     *)
(* kernel_page_fault is told what the processor said of this fault, also   *)
(* when the fault came in the middle of another handler.                   *)
InterruptsTransparent ==
  [][/\ Len(open') < Len(open) =>
          pc' = open[1].pc /\ stack' = open[1].stack /\ regs' = RegsAfter(open[1])
     /\ told' \notin {told, NotTold} =>
          told' = [flags |-> FaultFlags(open[1].code[1][2]), pc |-> open[1].pc]]_irqVars
=============================================================================
