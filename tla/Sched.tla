------------------------------- MODULE Sched -------------------------------
(***************************************************************************)
(* The scheduler (kernel/sched.c), the timer interrupt that drives it      *)
(* (arch/x86_64/interrupt.c), the two ways of entering a task's context    *)
(* (arch/x86_64/arch_sched.c, jmp_user.s) and the boot sequence that       *)
(* starts the first task (kernel/init.c).                                  *)
(*                                                                         *)
(* Threads are the tasks and "boot", the code of start_kernel.  A thread's *)
(* instructions are reduced to the places where a timer interrupt makes a  *)
(* difference.  The interrupt handler runs with interrupts off: it is one  *)
(* step.  needs_sched is set by sched_irq and cleared by schedule within   *)
(* that step, so it is no state of its own.                                *)
(***************************************************************************)
EXTENDS Integers, Sequences

CONSTANT KTasks     \* the kernel tasks mk_kernel_task makes after boot

ASSUME KTasksAssumption ==
  KTasks \cap {"init", "idle", "boot", "none", "top", "entry", "code"} = {}

Tasks == {"init"} \cup KTasks
Threads == Tasks \cup {"boot"}
NULL == "none"

(* Where a thread is.  boot: start_kernel's calls, in order.  Tasks:       *)
(* kernel or user code, or the int 0x80 handler.  The iret places are      *)
(* those of __iret_context_switch after cpu_irq_restore: before it, with   *)
(* the segment selector in %rsp, and with %rsp in the frame being popped   *)
(* (which execve puts at the bottom of the kernel stack).                  *)
Places ==
  {"per_cpu", "create", "setup", "add", "start", "pgtable", "switch", "kernel", "user",
   "syscall", "iret_call", "iret_ss", "iret_frame", "iret_bottom", "unborn"}

VARIABLES
  run,          \* the thread whose instructions the CPU executes
  at,           \* where each thread is
  irq,          \* the interrupt flag
  current,      \* cpu->current
  queue,        \* cpu->runqueue.tasks
  ksp,          \* what task->ksp points to: see SchedTypeOK
  pgtable,      \* the task whose page table cr3 holds
  rsp0,         \* the task whose kernel stack tss.rsp[0] holds
  wild,         \* how the CPU has left the kernel's control, or "no"
  waited        \* history: tasks entered since a queued task last ran,
                \* counted up to the length of the queue

schedVars == <<run, at, irq, current, queue, ksp, pgtable, rsp0, wild, waited>>

SchedInit ==
  /\ run = "boot" /\ irq = TRUE
  /\ at = [t \in Threads |-> IF t = "boot" THEN "per_cpu" ELSE "unborn"]
  /\ current = NULL /\ queue = <<>>
  /\ ksp = [t \in Tasks \cup {"idle"} |-> "none"]
  /\ pgtable = NULL /\ rsp0 = NULL
  /\ wild = "no" /\ waited = [t \in Tasks |-> 0]

Queued(t) == \E i \in DOMAIN queue : queue[i] = t

CpuAt(t, place) == wild = "no" /\ run = t /\ at[t] = place
Goto(t, place) == at' = [at EXCEPT ![t] = place]

-----------------------------------------------------------------------------
(* start_kernel.                                                           *)

(* sched_per_cpu_init: the idle task's ksp becomes the address of cpu_idle.*)
SchedPerCpuInit ==
  /\ CpuAt("boot", "per_cpu") /\ Goto("boot", "create")
  /\ ksp' = [ksp EXCEPT !["idle"] = "code"]
  /\ current' = NULL /\ queue' = <<>>
  /\ UNCHANGED <<run, irq, pgtable, rsp0, wild, waited>>

(* create_task(&task_init), whose ksp is the bare top of its stack.        *)
CreateInit ==
  /\ CpuAt("boot", "create") /\ Goto("boot", "setup")
  /\ ksp' = [ksp EXCEPT !["init"] = "top"]
  /\ UNCHANGED <<run, irq, current, queue, pgtable, rsp0, wild, waited>>

(* cpu_ktask_setup(&task_init): its registers, for iretq.                  *)
SetupInit ==
  /\ CpuAt("boot", "setup") /\ Goto("boot", "add")
  /\ ksp' = [ksp EXCEPT !["init"] = "top"]
  /\ UNCHANGED <<run, irq, current, queue, pgtable, rsp0, wild, waited>>

(* sched_add_task, with interrupts off.                                    *)
SchedAddTask(t) ==
  /\ queue' = Append(queue, t)
  /\ waited' = [waited EXCEPT ![t] = 0]

AddInit ==
  /\ CpuAt("boot", "add") /\ Goto("boot", "start")
  /\ SchedAddTask("init")
  /\ UNCHANGED <<run, irq, current, ksp, pgtable, rsp0, wild>>

(* sched_start: current, then its page table, then cpu_context_switch.     *)
StartCurrent ==
  /\ CpuAt("boot", "start") /\ Goto("boot", "pgtable")
  /\ current' = queue[1]
  /\ UNCHANGED <<run, irq, queue, ksp, pgtable, rsp0, wild, waited>>

StartPageTable ==
  /\ CpuAt("boot", "pgtable") /\ Goto("boot", "switch")
  /\ pgtable' = current
  /\ UNCHANGED <<run, irq, current, queue, ksp, rsp0, wild, waited>>

-----------------------------------------------------------------------------
(* cpu_context_switch(new_cpu_state): with interrupts off it sets rsp[0]   *)
(* and writes the frame to return through; then interrupts are as before.  *)
ContextSwitch(t, place) ==
  /\ CpuAt(t, place) /\ Goto(t, "iret_call")
  /\ rsp0' = current
  /\ UNCHANGED <<run, irq, current, queue, ksp, pgtable, wild, waited>>

(* do_execve, whose binary load_binary accepted: kinit_task calls it once, *)
(* and never with interrupts off.                                          *)
Execve == irq /\ ContextSwitch("init", "kernel")
StartSwitch == ContextSwitch("boot", "switch")

(* __iret_context_switch, up to and after the new stack is set.            *)
IretSegments(t) ==
  /\ CpuAt(t, "iret_call") /\ Goto(t, "iret_ss")
  /\ UNCHANGED <<run, irq, current, queue, ksp, pgtable, rsp0, wild, waited>>
IretStack(t) ==
  /\ CpuAt(t, "iret_ss") /\ Goto(t, IF t = "boot" THEN "iret_frame" ELSE "iret_bottom")
  /\ UNCHANGED <<run, irq, current, queue, ksp, pgtable, rsp0, wild, waited>>

(* iretq: into kinit_task from boot, into user code from execve; rflags    *)
(* has the interrupt flag in both.                                         *)
Iretq ==
  /\ irq' = TRUE
  /\ \/ /\ CpuAt("boot", "iret_frame")
        /\ run' = current /\ Goto(current, "kernel")
     \/ /\ CpuAt("init", "iret_bottom")
        /\ Goto("init", "user") /\ UNCHANGED run
  /\ UNCHANGED <<current, queue, ksp, pgtable, rsp0, wild, waited>>

-----------------------------------------------------------------------------
(* What tasks do.  Kernel code of a task makes kernel tasks, with a frame  *)
(* for cpu_switch_to that returns to their entry point ...                 *)
NewFrame_Bare == "top"
NewFrame == "entry"
MkKernelTask(t) ==
  /\ wild = "no" /\ run \in Tasks /\ at[run] = "kernel"
  /\ ksp[t] = "none"
  /\ ksp' = [ksp EXCEPT ![t] = NewFrame]
  /\ UNCHANGED <<run, at, irq, current, queue, pgtable, rsp0, wild, waited>>

(* ... and adds them to the queue ...                                      *)
AddKernelTask(t) ==
  /\ wild = "no" /\ run \in Tasks /\ at[run] = "kernel"
  /\ ksp[t] # "none" /\ ~Queued(t)
  /\ SchedAddTask(t)
  /\ UNCHANGED <<run, at, irq, current, ksp, pgtable, rsp0, wild>>

(* ... and may turn interrupts on and off: cpu_force_sti, cpu_force_cli,   *)
(* cpu_irq_save and cpu_irq_restore.                                       *)
SetIrq ==
  /\ wild = "no" /\ run \in Tasks /\ at[run] = "kernel"
  /\ irq' = ~irq
  /\ UNCHANGED <<run, at, current, queue, ksp, pgtable, rsp0, wild, waited>>

(* User code makes system calls, through an interrupt gate.                *)
Syscall ==
  /\ CpuAt("init", "user") /\ Goto("init", "syscall") /\ irq' = FALSE
  /\ UNCHANGED <<run, current, queue, ksp, pgtable, rsp0, wild, waited>>
SyscallReturn ==
  /\ CpuAt("init", "syscall") /\ Goto("init", "user") /\ irq' = TRUE
  /\ UNCHANGED <<run, current, queue, ksp, pgtable, rsp0, wild, waited>>

-----------------------------------------------------------------------------
(* sched_pick_next_task: the entry of the queue after current.             *)
PickNext_WrapsEarly ==
  IF current = NULL \/ current # queue[1] \/ Len(queue) = 1 THEN queue[1] ELSE queue[2]
PickNext ==
  IF current = NULL \/ current = queue[Len(queue)] THEN queue[1]
  ELSE queue[1 + CHOOSE i \in DOMAIN queue : queue[i] = current]

(* cpu_schedule sets the stack of the next interrupt from user code.       *)
CpuSchedule_Current(prev, next) == rsp0' = current
CpuSchedule_Prev(prev, next) == rsp0' = prev
CpuSchedule(prev, next) == rsp0' = next

(* cpu_switch_to(prev, next): the running thread's frame is saved on its   *)
(* stack and the one next->ksp points to is popped.  A frame saved here    *)
(* resumes in the interrupt handler and returns through iretq; a new       *)
(* kernel task starts at its entry point with interrupts still off; any    *)
(* other ksp pops what is not a frame.                                     *)
SaveTo_Next(prev, next) == next
SaveTo(prev, next) == prev
CpuSwitchTo(prev, next) ==
  /\ ksp' = [ksp EXCEPT ![SaveTo(prev, next)] = run]
  /\ \/ /\ ksp[next] \in Threads
        /\ run' = ksp[next] /\ UNCHANGED <<at, irq, wild>>
     \/ /\ ksp[next] = "entry"
        /\ run' = next /\ irq' = FALSE /\ Goto(next, "kernel") /\ UNCHANGED wild
     \/ /\ ksp[next] \notin Threads \cup {"entry"}
        /\ wild' = "no_frame" /\ UNCHANGED <<run, at, irq>>

(* schedule, with more than one task to choose from (or none chosen yet).  *)
Schedule ==
  LET next == PickNext
      prev == IF current = NULL THEN "idle" ELSE current
  IN  /\ next # prev
      /\ pgtable' = next
      /\ current' = next
      /\ CpuSchedule(prev, next)
      /\ CpuSwitchTo(prev, next)
      /\ waited' = [t \in Tasks |->
                      IF t = next \/ ~Queued(t) THEN 0
                      ELSE IF waited[t] < Len(queue) THEN waited[t] + 1 ELSE waited[t]]
      /\ UNCHANGED queue

(* A timer interrupt where the stack is one: sched_irq, then schedule if a *)
(* task is current or queued.                                              *)
TimerIrq ==
  /\ wild = "no" /\ irq /\ at[run] \notin {"iret_ss", "iret_bottom"}
  /\ current # NULL \/ queue # <<>>
  /\ Schedule

(* A timer interrupt inside __iret_context_switch: the CPU pushes its      *)
(* frame at the selector's value, or below the kernel stack.               *)
TimerIrqStray ==
  /\ wild = "no" /\ irq /\ at[run] \in {"iret_ss", "iret_bottom"}
  /\ wild' = at[run]
  /\ UNCHANGED <<run, at, irq, current, queue, ksp, pgtable, rsp0, waited>>

StartKernel ==
  \/ SchedPerCpuInit \/ CreateInit \/ SetupInit \/ AddInit
  \/ StartCurrent \/ StartPageTable \/ StartSwitch

Iret == Iretq \/ \E t \in Threads : IretSegments(t) \/ IretStack(t)

SchedNext ==
  \/ StartKernel
  \/ Execve
  \/ Iret
  \/ \E t \in KTasks : MkKernelTask(t) \/ AddKernelTask(t)
  \/ SetIrq
  \/ Syscall
  \/ SyscallReturn
  \/ TimerIrq
  \/ TimerIrqStray

SchedSpec == SchedInit /\ [][SchedNext]_schedVars

(***************************************************************************)
(* Straight-line code goes on (boot, __iret_context_switch, a system       *)
(* call); a pending timer interrupt stays pending in the APIC until        *)
(* interrupts are on, so it is taken if they are on again and again.       *)
(***************************************************************************)
Fairness ==
  /\ WF_schedVars(StartKernel) /\ WF_schedVars(Iret) /\ WF_schedVars(SyscallReturn)
  /\ SF_schedVars(TimerIrq)

FairSpec == SchedSpec /\ Fairness

-----------------------------------------------------------------------------
(* Type correctness.  ksp is unset, the bare top of a stack, a frame       *)
(* mk_kernel_task made, the address of cpu_idle, or a thread's saved frame.*)
SchedTypeOK ==
  /\ run \in Threads /\ at \in [Threads -> Places] /\ irq \in BOOLEAN
  /\ current \in Tasks \cup {NULL} /\ queue \in Seq(Tasks)
  /\ ksp \in [Tasks \cup {"idle"} -> {"none", "top", "entry", "code"} \cup Threads]
  /\ pgtable \in Tasks \cup {NULL} /\ rsp0 \in Tasks \cup {NULL}
  /\ wild \in {"no", "no_frame", "iret_ss", "iret_bottom"}
  /\ waited \in [Tasks -> Nat]

(* The thread the CPU executes is the one cpu->current says, and every     *)
(* other task that has run is saved in its own ksp: schedule's switch of   *)
(* current and cpu_switch_to's switch of stacks never come apart.          *)
RunsCurrent ==
  wild = "no" =>
    /\ run # "boot" => run = current
    /\ \A t \in Tasks : at[t] # "unborn" /\ t # run => ksp[t] = t

(* A task in user code has its own page table loaded, and its next         *)
(* interrupt or system call lands on its own kernel stack.                 *)
OwnSpaceAndStack ==
  wild = "no" /\ at[run] \in {"user", "syscall"} => pgtable = run /\ rsp0 = run

(* Once sched_start has made a task current, cpu_switch_to only ever loads *)
(* a stack pointer with a frame on it: in particular it never enters the   *)
(* idle task, whose ksp is the address of its code.                        *)
FramesAfterStart ==
  wild = "no_frame" => at["boot"] = "start"

(* Between two turns of a task every other task has at most one: new tasks *)
(* join at the tail and nobody is passed over.                             *)
OneTurnEach ==
  \A t \in Tasks : Queued(t) => waited[t] < Len(queue)

(* A queued task eventually becomes current, as long as the CPU stays      *)
(* under control and no task keeps interrupts off for good.                *)
EventuallyCurrent ==
  ([](wild = "no") /\ []<>irq) => \A t \in Tasks : Queued(t) ~> current = t

(* "Given that at this point there is no active task in the scheduler"     *)
(* (start_kernel, before sched_start): no task is current yet.             *)
NoActiveTaskBeforeStart ==
  at["boot"] = "start" => current = NULL
=============================================================================
