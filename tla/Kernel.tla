-------------------------------- MODULE Kernel --------------------------------
(***************************************************************************)
(* The kernel: every system call, kernel object operation and interrupt,   *)
(* from a configuration in which the objects exist and an initial program  *)
(* has filled the key registers.                                           *)
(***************************************************************************)
EXTENDS KInterrupt

CONSTANTS
  InitKeys,       \* the key registers handed out before the programs start
  InitPriority,   \* the priorities set before they start
  InitRunnable,   \* the run queue they start from
  InitTarget,     \* the target of each Interrupt
  InitEnabled     \* the interrupts enabled at the start

ASSUME InitAssumption ==
  /\ InitKeys \in [Context -> [Reg -> Key]]
  /\ \A c \in Context : InitKeys[c][0] = NullKey
  /\ InitPriority \in [Context -> Prio]
  /\ InitRunnable \in List(Context)
  /\ Orderly(InitRunnable, InitPriority)
  /\ ~ IsEmpty(InitRunnable)
  /\ InitTarget \in [Interrupt -> Key]
  \* make_key made them all: of the first generation, and no reply keys.
  /\ \A k \in (UNION {Range(InitKeys[c]) : c \in Context}) \cup Range(InitTarget) :
        k.gen = 0 /\ (k.obj \in Context => ~ k.brand.hi)
  /\ InitEnabled \in [Interrupt -> BOOLEAN]

Init ==
  /\ state = [c \in Context |->
                IF c \in Linked(InitRunnable) THEN "runnable" ELSE "stopped"]
  /\ priority = InitPriority
  /\ keys = InitKeys
  /\ desc = [c \in Context |-> NoDescriptor]
  /\ expected = [c \in Context |-> 0]
  /\ runnable = InitRunnable
  /\ current = Peek(InitRunnable)
  /\ switchPending = FALSE
  /\ pendsv = FALSE
  /\ receivers = [g \in Gate |-> EmptyList]
  /\ senders = [g \in Gate |-> EmptyList]
  /\ generation = [o \in Object |-> 0]
  /\ irqTarget = InitTarget
  /\ enabled = InitEnabled
  /\ pending = [i \in Interrupt |-> FALSE]
  /\ redirected = [i \in Interrupt |-> TRUE]
  /\ phase = "user"
  /\ rx = NoContext
  /\ src = NullKey
  /\ job = NoJob
  /\ reply = NoReply
  /\ panicked = "no"

\* A program traps into the kernel.
SystemCall ==
  \/ \E d \in Descriptor :
       \/ BeginReceive(d)
       \/ BeginNothing(d)
       \/ SendReply(d)
       \/ SendToService(d)
       \/ SendToReceiver(d)
       \/ BlockInSend(d)
       \/ RefuseToBlock(d)
  \/ \E to, from \in Reg : CopyKey(to, from)

ReceiveStep ==
  \/ ReceiveReply
  \/ ReceiveRefused
  \/ \E g \in Gate :
       \/ ReceiveFromContext(g)
       \/ ReceiveFromInterrupt(g)
       \/ BlockInReceive(g)

ServeStep ==
  \/ ServeWithoutEffect
  \/ \E x \in Context :
       \/ WriteRegister(x)
       \/ ReadKeyRegister(x)
       \/ WriteKeyRegister(x)
       \/ InterruptSending(x)
       \/ InterruptReceiving(x)
       \/ StartStopped(x)
       \/ SetPriority(x)
       \/ InvalidateContext(x)
  \/ \E g \in Gate : MakeClientKey(g)
  \/ MintKey
  \/ \E o \in Object : InvalidatePlain(o)
  \/ \E i \in Interrupt :
       \/ InvalidateInterrupt(i)
       \/ SetTarget(i)
       \/ Enable(i)

ReplyStep == SendKernelReply \/ DropKernelReply \/ PanicInKernelReply

\* The NVIC takes an interrupt.
Irq(i) ==
  \/ IrqWithoutObject(i)
  \/ IrqCoalesced(i)
  \/ IrqDelivered(i)
  \/ IrqBlocks(i)
  \/ IrqRetargets(i)
  \/ IrqDropped(i)
  \/ PanicInIrq(i)

\* What the kernel does by itself once entered.
KernelStep ==
  \/ ReceiveStep
  \/ ServeStep
  \/ ReplyStep
  \/ DoDeferredSwitch
  \/ DoDeferredSwitchFromIrq

Next ==
  \/ SystemCall
  \/ KernelStep
  \/ SwitchAfterInterrupt
  \/ \E i \in Interrupt : DeviceRaises(i) \/ Irq(i)

Spec == Init /\ [][Next]_vars

\* The processor executes the handlers it has entered.
FairSpec == Spec /\ WF_vars(KernelStep) /\ WF_vars(SwitchAfterInterrupt)
=============================================================================
