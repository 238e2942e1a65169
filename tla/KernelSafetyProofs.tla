-------------------------- MODULE KernelSafetyProofs --------------------------
(***************************************************************************)
(* Proofs of safety properties that follow from the agreement of states    *)
(* and queues: no rendezvous is missed, a Context that stops waiting for a *)
(* reply kills the reply key, key register 0 stays null, and the head of   *)
(* the run queue has the processor.                                        *)
(***************************************************************************)
EXTENDS KernelProofs

-----------------------------------------------------------------------------
(* Rendezvous: how a step can change the queues of the Gates *)

\* Nobody joins a queue.
NobodyQueues ==
  \A g \in Gate : /\ Linked(receivers'[g]) \subseteq Linked(receivers[g])
                  /\ Linked(senders'[g]) \subseteq Linked(senders[g])

\* A receiver joins the queue of a Gate without senders, or the reverse.
ReceiverQueues ==
  \E g \in Gate : /\ IsEmpty(senders[g])
                  /\ senders' = senders
                  /\ \A h \in Gate \ {g} : receivers'[h] = receivers[h]

SenderQueues ==
  \E g \in Gate : /\ IsEmpty(receivers[g])
                  /\ receivers' = receivers
                  /\ \A h \in Gate \ {g} : senders'[h] = senders[h]

\* While nobody joins a Gate's queue, or joins one whose opposite queue is
\* empty, no sender and receiver wait for each other.
LEMMA MissedRendezvousFrame ==
  ASSUME Queues, Queues', NoMissedRendezvous,
         NobodyQueues \/ ReceiverQueues \/ SenderQueues
  PROVE  NoMissedRendezvous'
<1>1. ASSUME NEW g \in Gate
      PROVE  /\ IsEmpty(receivers[g]) <=> Linked(receivers[g]) = {}
             /\ IsEmpty(senders[g]) <=> Linked(senders[g]) = {}
             /\ IsEmpty(receivers'[g]) <=> Linked(receivers'[g]) = {}
             /\ IsEmpty(senders'[g]) <=> Linked(senders'[g]) = {}
  <2>1. /\ receivers[g] \in List(Context) /\ receivers'[g] \in List(Context)
        /\ senders[g] \in List(Sender) /\ senders'[g] \in List(Sender)
    BY DEF Queues, Sender
  <2>. QED  BY <2>1, EmptyIffNothingLinked
<1>2. CASE NobodyQueues
  BY <1>1, <1>2 DEF NobodyQueues, NoMissedRendezvous
<1>3. CASE ReceiverQueues
  BY <1>3 DEF ReceiverQueues, NoMissedRendezvous
<1>4. CASE SenderQueues
  BY <1>4 DEF SenderQueues, NoMissedRendezvous
<1>. QED  BY <1>2, <1>3, <1>4

\* Items are unlinked from the queues of some Gates.
LEMMA UnlinkShrinks ==
  ASSUME Queues, NEW x
  PROVE  \A g \in Gate : /\ Linked(Unlink(receivers[g], x)) \subseteq Linked(receivers[g])
                         /\ Linked(Unlink(senders[g], x)) \subseteq Linked(senders[g])
<1>. TAKE g \in Gate
<1>1. /\ receivers[g] \in List(Context) /\ NoDuplicates(receivers[g])
      /\ senders[g] \in List(Sender) /\ NoDuplicates(senders[g])
  BY DEF Queues, ReceiversAgree, SendersAgree, Orderly, Sender
<1>. QED  BY <1>1, UnlinkList

\* A handler that only unlinks items lets nobody join a queue.
LEMMA UnlinkingStep ==
  ASSUME Queues, NEW x,
         \/ UNCHANGED receivers
         \/ \E g \in Gate : receivers' = [receivers EXCEPT ![g] = Unlink(@, x)]
         \/ receivers' = [g \in Gate |-> Unlink(receivers[g], x)],
         \/ UNCHANGED senders
         \/ \E g \in Gate : senders' = [senders EXCEPT ![g] = Unlink(@, x)]
         \/ senders' = [g \in Gate |-> Unlink(senders[g], x)]
  PROVE  NobodyQueues
<1>1. /\ receivers \in [Gate -> List(Context)]
      /\ senders \in [Gate -> List(Sender)]
  BY DEF Queues, Sender
<1>. QED  BY <1>1, UnlinkShrinks DEF NobodyQueues

\* set_priority moves owners between levels only.
LEMMA RefileKeepsOwners ==
  ASSUME NEW S, NEW l \in List(S), NoDuplicates(l), NEW x \in S, NEW p \in Prio
  PROVE  Linked(Refile(l, x, p)) \subseteq Linked(l)
<1>1. /\ Unlink(l, x) \in List(S)
      /\ Linked(Unlink(l, x)) = Linked(l) \ {x}
  BY UnlinkList
<1>2. Linked(Insert(Unlink(l, x), x, p)) = Linked(Unlink(l, x)) \cup {x}
  BY <1>1, InsertList
<1>. QED  BY <1>1, <1>2 DEF Refile, Reinsert

\* How a system call changes the queues of Gates.
LEMMA SystemCallQueues ==
  ASSUME Inv, SystemCall
  PROVE  \/ NobodyQueues
         \/ SenderQueues /\ \E d \in Descriptor : BlockInSend(d)
<1>1. ASSUME NEW d \in Descriptor, BeginReceive(d) \/ BeginNothing(d) \/ SendReply(d)
                                     \/ SendToService(d) \/ RefuseToBlock(d)
      PROVE  NobodyQueues
  BY <1>1 DEF BeginReceive, BeginNothing, SendReply, SendToService, RefuseToBlock,
              NobodyQueues, gateVars
<1>2. ASSUME NEW to \in Reg, NEW from \in Reg, CopyKey(to, from)
      PROVE  NobodyQueues
  BY <1>2 DEF CopyKey, NobodyQueues, gateVars
<1>3. ASSUME NEW d \in Descriptor, SendToReceiver(d)
      PROVE  NobodyQueues
  <2>1. \E g \in Gate : receivers' = [receivers EXCEPT ![g] = Unlink(@, Peek(receivers[g]))]
    BY <1>3 DEF SendToReceiver
  <2>2. UNCHANGED senders
    BY <1>3 DEF SendToReceiver
  <2>. QED  BY <2>1, <2>2, UnlinkingStep DEF Inv
<1>4. ASSUME NEW d \in Descriptor, BlockInSend(d)
      PROVE  SenderQueues
  BY <1>4 DEF BlockInSend, SenderQueues, Inv, Queues
<1>. QED  BY <1>1, <1>2, <1>3, <1>4 DEF SystemCall

\* How a receive phase changes them.
LEMMA ReceiveStepQueues ==
  ASSUME Inv, ReceiveStep
  PROVE  NobodyQueues \/ ReceiverQueues
<1>1. CASE ReceiveReply \/ ReceiveRefused
  BY <1>1 DEF ReceiveReply, ReceiveRefused, NobodyQueues, gateVars
<1>2. ASSUME NEW g \in Gate, ReceiveFromContext(g) \/ ReceiveFromInterrupt(g)
      PROVE  NobodyQueues
  <2>1. senders' = [senders EXCEPT ![g] = Unlink(@, Peek(senders[g]))]
    BY <1>2 DEF ReceiveFromContext, ReceiveFromInterrupt
  <2>2. UNCHANGED receivers
    BY <1>2 DEF ReceiveFromContext, ReceiveFromInterrupt
  <2>. QED  BY <2>1, <2>2, UnlinkingStep DEF Inv
<1>3. ASSUME NEW g \in Gate, BlockInReceive(g)
      PROVE  ReceiverQueues
  BY <1>3 DEF BlockInReceive, ReceiverQueues, Inv, Queues
<1>. QED  BY <1>1, <1>2, <1>3 DEF ReceiveStep

\* How a kernel object's protocol changes them.
LEMMA ServeStepQueues ==
  ASSUME Inv, Inv', ServeStep
  PROVE  NobodyQueues
<1>1. CASE UNCHANGED gateVars
  BY <1>1 DEF NobodyQueues, gateVars
<1>2. ASSUME NEW x \in Context,
             InterruptSending(x) \/ InterruptReceiving(x) \/ InvalidateContext(x)
      PROVE  NobodyQueues
  BY <1>2, UnlinkingStep DEF InterruptSending, InterruptReceiving, InvalidateContext, Inv
<1>3. ASSUME NEW i \in Interrupt, InvalidateInterrupt(i)
      PROVE  NobodyQueues
  BY <1>3, UnlinkingStep DEF InvalidateInterrupt, Inv
<1>4. ASSUME NEW x \in Context, SetPriority(x)
      PROVE  NobodyQueues
  <2>1. PICK p \in Prio : /\ receivers' = [g \in Gate |-> Refile(receivers[g], x, p)]
                          /\ senders' = [g \in Gate |-> Refile(senders[g], x, p)]
    BY <1>4 DEF SetPriority
  <2>2. ASSUME NEW g \in Gate
        PROVE  /\ Linked(receivers'[g]) \subseteq Linked(receivers[g])
               /\ Linked(senders'[g]) \subseteq Linked(senders[g])
    <3>1. /\ receivers[g] \in List(Context) /\ NoDuplicates(receivers[g])
          /\ senders[g] \in List(Sender) /\ NoDuplicates(senders[g])
          /\ x \in Sender
      BY DEF Inv, Queues, ReceiversAgree, SendersAgree, Orderly, Sender
    <3>2. /\ receivers'[g] = Refile(receivers[g], x, p)
          /\ senders'[g] = Refile(senders[g], x, p)
      BY <2>1
    <3>. QED  BY ONLY <3>1, <3>2, x \in Context, p \in Prio, RefileKeepsOwners
  <2>. QED  BY <2>2 DEF NobodyQueues
<1>5. \/ UNCHANGED gateVars
      \/ \E x \in Context : \/ InterruptSending(x)
                            \/ InterruptReceiving(x)
                            \/ InvalidateContext(x)
                            \/ SetPriority(x)
      \/ \E i \in Interrupt : InvalidateInterrupt(i)
  BY DEF ServeStep, ServeWithoutEffect, WriteRegister, ReadKeyRegister, WriteKeyRegister,
         StartStopped, MakeClientKey, MintKey, InvalidatePlain, SetTarget, Enable
<1>. QED  BY <1>1, <1>2, <1>3, <1>4, <1>5

\* How a message the kernel itself delivers changes them.
LEMMA DeliveryQueues ==
  ASSUME Inv, NEW k, NEW ks, ReplyDelivered(k, ks) \/ GateDelivered(k, ks),
         UNCHANGED senders
  PROVE  NobodyQueues
<1>1. CASE ReplyDelivered(k, ks)
  BY <1>1 DEF ReplyDelivered, NobodyQueues
<1>2. CASE GateDelivered(k, ks)
  <2>1. \E g \in Gate : receivers' = [receivers EXCEPT ![g] = Unlink(@, Peek(receivers[g]))]
    BY <1>2 DEF GateDelivered
  <2>. QED  BY <2>1, UnlinkingStep DEF Inv
<1>. QED  BY <1>1, <1>2

\* How the reply of a kernel object changes them.
LEMMA ReplyStepQueues ==
  ASSUME Inv, ReplyStep
  PROVE  NobodyQueues
<1>1. CASE SendKernelReply
  BY <1>1, DeliveryQueues DEF SendKernelReply
<1>2. CASE DropKernelReply \/ PanicInKernelReply
  BY <1>2 DEF DropKernelReply, PanicInKernelReply, NobodyQueues, gateVars
<1>. QED  BY <1>1, <1>2 DEF ReplyStep

\* How an interrupt changes them.
LEMMA IrqQueues ==
  ASSUME Inv, NEW i \in Interrupt, DeviceRaises(i) \/ Irq(i)
  PROVE  NobodyQueues \/ (SenderQueues /\ IrqBlocks(i))
<1>1. CASE IrqDelivered(i)
  BY <1>1, DeliveryQueues DEF IrqDelivered
<1>2. CASE IrqBlocks(i)
  BY <1>2 DEF IrqBlocks, SenderQueues, Inv, Queues
<1>3. CASE ~ IrqDelivered(i) /\ ~ IrqBlocks(i)
  BY <1>3 DEF DeviceRaises, Irq, IrqWithoutObject, IrqCoalesced, IrqRetargets, IrqDropped,
              PanicInIrq, NobodyQueues, gateVars
<1>. QED  BY <1>1, <1>2, <1>3

\* Every step changes them in one of these ways.
LEMMA NextQueues ==
  ASSUME Inv, Inv', [Next]_vars
  PROVE  NobodyQueues \/ ReceiverQueues \/ SenderQueues
<1>1. CASE SystemCall
  BY <1>1, SystemCallQueues
<1>2. CASE ReceiveStep \/ ServeStep \/ ReplyStep
  BY <1>2, ReceiveStepQueues, ServeStepQueues, ReplyStepQueues
<1>3. CASE DoDeferredSwitch \/ DoDeferredSwitchFromIrq \/ SwitchAfterInterrupt \/ UNCHANGED vars
  BY <1>3 DEF DoDeferredSwitch, DoDeferredSwitchFromIrq, SwitchAfterInterrupt, vars,
              NobodyQueues, gateVars
<1>4. ASSUME NEW i \in Interrupt, DeviceRaises(i) \/ Irq(i)
      PROVE  NobodyQueues \/ SenderQueues
  BY <1>4, IrqQueues
<1>. QED  BY <1>1, <1>2, <1>3, <1>4 DEF Next, KernelStep

\* Gate::deliver_from queues a sender only when nobody waits to receive, and
\* Gate::deliver_to a receiver only when nobody waits to send; no interruption,
\* change of priority or invalidation in between can make the two meet in the
\* queues without being matched.
THEOREM RendezvousNeverMissed == Spec => []NoMissedRendezvous
<1>1. Init => NoMissedRendezvous
  <2>. SUFFICES ASSUME Init PROVE NoMissedRendezvous
    OBVIOUS
  <2>1. IsEmpty(EmptyList)
    BY EmptyOrderly
  <2>. QED  BY <2>1 DEF Init, NoMissedRendezvous
<1>2. Inv /\ Inv' /\ NoMissedRendezvous /\ [Next]_vars => NoMissedRendezvous'
  BY NextQueues, MissedRendezvousFrame DEF Inv
<1>. QED  BY <1>1, <1>2, SpecInv, PTL DEF Spec

-----------------------------------------------------------------------------
(* Waiting for a reply: how a step can move a Context *)

\* c is left alone, or its reply brand advances.
WaitKept(c) ==
  \/ state'[c] = state[c] /\ \A g \in Gate : c \notin Linked(receivers'[g])
  \/ expected'[c] # expected[c]

\* advance_reply_brand never yields the brand it replaces.
LEMMA AdvanceChanges ==
  ASSUME Inv, NEW c \in Context, AdvanceReplyBrand(c)
  PROVE  expected'[c] # expected[c]
<1>1. expected \in [Context -> Nat]
  BY DEF Inv, Data
<1>2. expected'[c] = expected[c] + 1
  BY <1>1 DEF AdvanceReplyBrand
<1>. QED  BY <1>1, <1>2

\* Another Context x is moved.
LEMMA OtherMoves ==
  ASSUME Inv, NEW c \in Context, AwaitingReply(c), NEW x, x # c, NEW v,
         state' = [state EXCEPT ![x] = v],
         \A g \in Gate : Linked(receivers'[g]) \subseteq Linked(receivers[g]) \cup {x}
  PROVE  WaitKept(c)
BY DEF WaitKept, AwaitingReply, Inv, Queues

\* A step that changes no State and no receivers ends nobody's wait.
LEMMA NobodyMoves ==
  ASSUME Inv, NEW c \in Context, AwaitingReply(c), UNCHANGED state, NobodyQueues
  PROVE  WaitKept(c)
BY DEF WaitKept, AwaitingReply, NobodyQueues

\* A wait that a system call ends is that of the Context replied to, whose
\* brand advances.
LEMMA SystemCallWait ==
  ASSUME Inv, NEW c \in Context, AwaitingReply(c), SystemCall
  PROVE  WaitKept(c)
<1>1. ASSUME NEW d \in Descriptor, BeginReceive(d) \/ BeginNothing(d)
                                     \/ SendToService(d) \/ RefuseToBlock(d)
      PROVE  WaitKept(c)
  BY <1>1 DEF BeginReceive, BeginNothing, SendToService, RefuseToBlock,
              WaitKept, AwaitingReply, gateVars, contextVars
<1>2. ASSUME NEW to \in Reg, NEW from \in Reg, CopyKey(to, from)
      PROVE  WaitKept(c)
  BY <1>2 DEF CopyKey, WaitKept, AwaitingReply, gateVars
<1>3. ASSUME NEW d \in Descriptor, SendReply(d)
      PROVE  WaitKept(c)
  <2>1. PICK x \in Context : /\ AdvanceReplyBrand(x)
                             /\ MakeRunnable(x) \/ UNCHANGED state
                             /\ UNCHANGED receivers
    BY <1>3 DEF SendReply, gateVars
  <2>2. CASE x = c
    BY <2>1, <2>2, AdvanceChanges DEF WaitKept
  <2>3. CASE x # c
    BY <2>1, <2>3 DEF MakeRunnable, WaitKept, AwaitingReply, Inv, Queues
  <2>. QED  BY <2>2, <2>3
<1>4. ASSUME NEW d \in Descriptor, SendToReceiver(d)
      PROVE  WaitKept(c)
  <2>. DEFINE g == Get(TargetKey(d))
              r == Peek(receivers[g])
  <2>1. /\ g \in Gate
        /\ ~ IsEmpty(receivers[g])
        /\ receivers' = [receivers EXCEPT ![g] = Unlink(@, r)]
        /\ MakeRunnable(r)
        /\ UNCHANGED senders
    BY <1>4 DEF SendToReceiver
  <2>. HIDE DEF g
  <2>2. r # c
    BY <2>1, FirstReceiver DEF AwaitingReply, Inv
  <2>. HIDE DEF r
  <2>3. NobodyQueues
    BY <2>1, UnlinkingStep DEF Inv
  <2>. QED  BY <2>1, <2>2, <2>3, OtherMoves DEF MakeRunnable, NobodyQueues
<1>5. ASSUME NEW d \in Descriptor, BlockInSend(d)
      PROVE  WaitKept(c)
  <2>1. /\ state' = [state EXCEPT ![current] = "sending"]
        /\ UNCHANGED receivers
        /\ BeginIpc(d)
    BY <1>5 DEF BlockInSend
  <2>2. current # c
    BY <2>1, BeginIpcFacts DEF AwaitingReply
  <2>. QED  BY <2>1, <2>2, OtherMoves
<1>. QED  BY <1>1, <1>2, <1>3, <1>4, <1>5 DEF SystemCall

\* A receive phase ends no wait for a reply.
LEMMA ReceiveStepWait ==
  ASSUME Inv, NEW c \in Context, AwaitingReply(c), ReceiveStep
  PROVE  WaitKept(c)
<1>1. ASSUME ReceiveReply \/ \E g \in Gate : BlockInReceive(g)
      PROVE  WaitKept(c)
  <2>1. /\ phase = "receive"
        /\ BlockReceiver(rx)
        /\ \/ UNCHANGED receivers
           \/ \E g \in Gate : receivers' = [receivers EXCEPT ![g] = Insert(@, rx, priority[rx])]
    BY <1>1 DEF ReceiveReply, BlockInReceive, ReceivesFrom, gateVars
  <2>2. rx \in Context /\ state[rx] = "runnable"
    BY <2>1 DEF Inv, Handler, ReceiverRuns
  <2>3. \A g \in Gate : Linked(receivers'[g]) \subseteq Linked(receivers[g]) \cup {rx}
    <3>1. \A g \in Gate : receivers[g] \in List(Context) /\ priority[rx] \in Prio
      BY <2>2 DEF Inv, Queues
    <3>2. \A g \in Gate : Linked(Insert(receivers[g], rx, priority[rx])) = Linked(receivers[g]) \cup {rx}
      BY <2>2, <3>1, InsertList
    <3>. QED  BY <2>1, <3>2 DEF Inv, Queues
  <2>4. rx # c
    BY <2>2 DEF AwaitingReply
  <2>. QED  BY <2>1, <2>3, <2>4, OtherMoves DEF BlockReceiver
<1>2. ASSUME NEW g \in Gate, ReceiveFromContext(g)
      PROVE  WaitKept(c)
  <2>. DEFINE s == Peek(senders[g])
  <2>1. /\ ~ IsEmpty(senders[g])
        /\ s \in Context
        /\ MakeRunnable(s)
        /\ UNCHANGED receivers
    BY <1>2 DEF ReceiveFromContext
  <2>2. s # c
    BY <2>1, FirstSender DEF AwaitingReply, Inv
  <2>. HIDE DEF s
  <2>. QED  BY <2>1, <2>2, OtherMoves DEF MakeRunnable
<1>3. ASSUME ReceiveRefused \/ \E g \in Gate : ReceiveFromInterrupt(g)
      PROVE  WaitKept(c)
  BY <1>3 DEF ReceiveRefused, ReceiveFromInterrupt, WaitKept, AwaitingReply, gateVars
<1>. QED  BY <1>1, <1>2, <1>3 DEF ReceiveStep

\* A kernel object's protocol ends a wait only by make_runnable and
\* invalidation, which advance the brand.
LEMMA ServeStepWait ==
  ASSUME Inv, Inv', NEW c \in Context, AwaitingReply(c), ServeStep
  PROVE  WaitKept(c)
<1>1. NobodyQueues
  BY ServeStepQueues
<1>2. CASE UNCHANGED state
  BY <1>1, <1>2, NobodyMoves
<1>3. ASSUME NEW x \in Context, InterruptSending(x) \/ StartStopped(x)
      PROVE  WaitKept(c)
  <2>1. x # c /\ MakeRunnable(x)
    BY <1>3 DEF InterruptSending, StartStopped, AwaitingReply
  <2>. QED  BY <1>1, <2>1, OtherMoves DEF MakeRunnable, NobodyQueues
<1>4. ASSUME NEW x \in Context, InterruptReceiving(x)
      PROVE  WaitKept(c)
  <2>1. CASE x = c
    BY <1>4, <2>1, AdvanceChanges DEF InterruptReceiving, WaitKept
  <2>2. CASE x # c
    BY <1>1, <1>4, <2>2, OtherMoves DEF InterruptReceiving, MakeRunnable, NobodyQueues
  <2>. QED  BY <2>1, <2>2
<1>5. ASSUME NEW x \in Context, InvalidateContext(x)
      PROVE  WaitKept(c)
  <2>1. CASE x = c
    BY <1>5, <2>1, AdvanceChanges DEF InvalidateContext, WaitKept
  <2>2. CASE x # c
    BY <1>1, <1>5, <2>2, OtherMoves DEF InvalidateContext, NobodyQueues
  <2>. QED  BY <2>1, <2>2
<1>6. \/ UNCHANGED state
      \/ \E x \in Context : \/ InterruptSending(x)
                            \/ StartStopped(x)
                            \/ InterruptReceiving(x)
                            \/ InvalidateContext(x)
  BY DEF ServeStep, ServeWithoutEffect, WriteRegister, ReadKeyRegister, WriteKeyRegister,
         SetPriority, MakeClientKey, MintKey, InvalidatePlain, InvalidateInterrupt,
         SetTarget, Enable, contextVars
<1>. QED  BY <1>2, <1>3, <1>4, <1>5, <1>6

\* A message the kernel itself delivers ends a wait only through a reply key,
\* and advances the brand.
LEMMA DeliveryWait ==
  ASSUME Inv, NEW c \in Context, AwaitingReply(c),
         NEW k, NEW ks, ReplyDelivered(k, ks) \/ GateDelivered(k, ks), UNCHANGED senders
  PROVE  WaitKept(c)
<1>1. NobodyQueues
  BY DeliveryQueues
<1>2. CASE ReplyDelivered(k, ks)
  <2>1. PICK x \in Context : AdvanceReplyBrand(x) /\ MakeRunnable(x)
    BY <1>2 DEF ReplyDelivered, CompleteBlockedReceive
  <2>2. CASE x = c
    BY <2>1, <2>2, AdvanceChanges DEF WaitKept
  <2>3. CASE x # c
    BY <1>1, <2>1, <2>3, OtherMoves DEF MakeRunnable, NobodyQueues
  <2>. QED  BY <2>2, <2>3
<1>3. CASE GateDelivered(k, ks)
  <2>1. PICK g \in Gate : ~ IsEmpty(receivers[g]) /\ MakeRunnable(Peek(receivers[g]))
    BY <1>3 DEF GateDelivered, CompleteBlockedReceive
  <2>2. Peek(receivers[g]) # c
    BY <2>1, FirstReceiver DEF AwaitingReply, Inv
  <2>. QED  BY <1>1, <2>1, <2>2, OtherMoves DEF MakeRunnable, NobodyQueues
<1>. QED  BY <1>2, <1>3

\* So do the replies of kernel objects and the messages of Interrupts.
LEMMA KernelMessageWait ==
  ASSUME Inv, NEW c \in Context, AwaitingReply(c),
         ReplyStep \/ \E i \in Interrupt : DeviceRaises(i) \/ Irq(i)
  PROVE  WaitKept(c)
<1>1. CASE SendKernelReply
  BY <1>1, DeliveryWait DEF SendKernelReply
<1>2. ASSUME NEW i \in Interrupt, IrqDelivered(i)
      PROVE  WaitKept(c)
  BY <1>2, DeliveryWait DEF IrqDelivered
<1>3. CASE UNCHANGED <<state, receivers>>
  BY <1>3 DEF WaitKept, AwaitingReply
<1>4. \/ SendKernelReply
      \/ \E i \in Interrupt : IrqDelivered(i)
      \/ UNCHANGED <<state, receivers>>
  BY DEF ReplyStep, DropKernelReply, PanicInKernelReply, DeviceRaises, Irq, IrqWithoutObject,
         IrqCoalesced, IrqBlocks, IrqRetargets, IrqDropped, PanicInIrq, gateVars, contextVars
<1>. QED  BY <1>1, <1>2, <1>3, <1>4

\* So does every step.
LEMMA NextWait ==
  ASSUME Inv, Inv', [Next]_vars, NEW c \in Context, AwaitingReply(c)
  PROVE  WaitKept(c)
<1>1. CASE SystemCall
  BY <1>1, SystemCallWait
<1>2. CASE ReceiveStep \/ ServeStep
  BY <1>2, ReceiveStepWait, ServeStepWait
<1>3. CASE ReplyStep \/ \E i \in Interrupt : DeviceRaises(i) \/ Irq(i)
  BY <1>3, KernelMessageWait
<1>4. CASE DoDeferredSwitch \/ DoDeferredSwitchFromIrq \/ SwitchAfterInterrupt \/ UNCHANGED vars
  BY <1>4 DEF DoDeferredSwitch, DoDeferredSwitchFromIrq, SwitchAfterInterrupt, vars,
              WaitKept, AwaitingReply, gateVars, contextVars
<1>. QED  BY <1>1, <1>2, <1>3, <1>4 DEF Next, KernelStep

\* However a Context stops waiting for a reply, by a reply from a program or a
\* kernel object, by make_runnable or by invalidation, expected_reply_brand has
\* moved on, so the reply key it gave out is dead.
THEOREM EveryWaitEndsReplyKey == Spec => WaitEndsReplyKey
<1>1. Inv /\ Inv' /\ [Next]_vars =>
        [\A c \in Context :
           AwaitingReply(c) /\ ~ AwaitingReply(c)' => expected'[c] # expected[c]]_vars
  BY NextWait DEF WaitKept, AwaitingReply
<1>. QED  BY <1>1, SpecInv, PTL DEF Spec, WaitEndsReplyKey

-----------------------------------------------------------------------------
(* Key register 0 *)

\* Register 0 of every Context holds the null key it was made with, whatever
\* generation the null object has.
Kr0Kept == \A c \in Context : keys[c][0] = NullKey

\* KeysRef::set with _defend_k0 leaves register 0 of a receiver alone.
LEMMA StoringKeepsKr0 ==
  ASSUME Inv, Kr0Kept, NEW x \in Context, NEW ks, keys' = [keys EXCEPT ![x] = Stored(x, ks)]
  PROVE  Kr0Kept'
<1>1. 0 \in Reg
  BY KernelAssumption DEF Reg
<1>2. Stored(x, ks)[0] = keys[x][0]
  BY <1>1 DEF Stored
<1>. QED  BY <1>2 DEF Kr0Kept, Inv, Data

\* So do copy_key and write_key_register, which refuse register 0.
LEMMA WritingKeepsKr0 ==
  ASSUME Inv, Kr0Kept, NEW x \in Context, NEW r \in Reg \ {0}, NEW k,
         keys' = [keys EXCEPT ![x][r] = k]
  PROVE  Kr0Kept'
<1>1. \A c \in Context : keys'[c][0] = keys[c][0]
  BY DEF Inv, Data
<1>. QED  BY <1>1 DEF Kr0Kept

\* How a step changes the key registers: not at all, or by one of the two
\* operations above.
LEMMA NextKeys ==
  ASSUME Inv, [Next]_vars
  PROVE  \/ UNCHANGED keys
         \/ \E x \in Context : \E ks : keys' = [keys EXCEPT ![x] = Stored(x, ks)]
         \/ \E x \in Context, r \in Reg \ {0} : \E k : keys' = [keys EXCEPT ![x][r] = k]
<1>. DEFINE Stores == \E x \in Context : \E ks : keys' = [keys EXCEPT ![x] = Stored(x, ks)]
            Writes == \E x \in Context, r \in Reg \ {0} : \E k : keys' = [keys EXCEPT ![x][r] = k]
<1>1. CASE SystemCall
  <2>1. ASSUME NEW d \in Descriptor, SendReply(d)
        PROVE  Stores \/ UNCHANGED keys
    BY <2>1 DEF SendReply
  <2>2. ASSUME NEW d \in Descriptor, SendToReceiver(d)
        PROVE  Stores
    <3>. DEFINE g == Get(TargetKey(d))
    <3>1. /\ g \in Gate
          /\ ~ IsEmpty(receivers[g])
          /\ keys' = [keys EXCEPT ![Peek(receivers[g])] =
                                    Stored(Peek(receivers[g]), Outgoing(current, d))]
      BY <2>2 DEF SendToReceiver
    <3>. HIDE DEF g
    <3>2. Peek(receivers[g]) \in Context
      BY <3>1, FirstReceiver DEF Inv
    <3>. QED  BY <3>1, <3>2
  <2>3. ASSUME NEW to \in Reg, NEW from \in Reg, CopyKey(to, from)
        PROVE  Writes
    BY <2>3 DEF CopyKey, Inv, Data
  <2>4. ASSUME NEW d \in Descriptor,
               BeginReceive(d) \/ BeginNothing(d) \/ SendToService(d)
                 \/ BlockInSend(d) \/ RefuseToBlock(d)
        PROVE  UNCHANGED keys
    BY <2>4 DEF BeginReceive, BeginNothing, SendToService, BlockInSend, RefuseToBlock,
                contextVars
  <2>. HIDE DEF Stores, Writes
  <2>5. Stores \/ Writes \/ UNCHANGED keys
    BY <1>1, <2>1, <2>2, <2>3, <2>4 DEF SystemCall
  <2>. QED  BY <2>5 DEF Stores, Writes
<1>2. CASE ReceiveStep
  <2>1. rx \in Context \/ phase # "receive"
    BY DEF Inv, Handler
  <2>. QED  BY <1>2, <2>1 DEF ReceiveStep, ReceiveReply, ReceiveRefused, ReceiveFromContext,
              ReceiveFromInterrupt, BlockInReceive, ReceivesFrom, Receives
<1>3. CASE ServeStep
  <2>1. \/ UNCHANGED keys
        \/ \E x \in Context : WriteKeyRegister(x)
    BY <1>3 DEF ServeStep, ServeWithoutEffect, WriteRegister, ReadKeyRegister, InterruptSending,
         InterruptReceiving, StartStopped, SetPriority, InvalidateContext, MakeClientKey,
         MintKey, InvalidatePlain, InvalidateInterrupt, SetTarget, Enable, contextVars
  <2>. QED  BY <2>1 DEF WriteKeyRegister
<1>4. ASSUME NEW k, NEW ks, ReplyDelivered(k, ks) \/ GateDelivered(k, ks)
      PROVE  Stores
  <2>1. CASE ReplyDelivered(k, ks)
    BY <2>1 DEF ReplyDelivered, CompleteBlockedReceive, Receives
  <2>2. CASE GateDelivered(k, ks)
    <3>1. /\ Get(k) \in Gate
          /\ ~ IsEmpty(receivers[Get(k)])
          /\ keys' = [keys EXCEPT ![Peek(receivers[Get(k)])] =
                                    Stored(Peek(receivers[Get(k)]), ks)]
      BY <2>2 DEF GateDelivered, CompleteBlockedReceive, Receives
    <3>2. Peek(receivers[Get(k)]) \in Context
      BY <3>1, FirstReceiver DEF Inv
    <3>. QED  BY <3>1, <3>2
  <2>. QED  BY <1>4, <2>1, <2>2
<1>5. CASE ReplyStep \/ \E i \in Interrupt : DeviceRaises(i) \/ Irq(i)
  <2>1. CASE SendKernelReply
    BY <1>4, <2>1 DEF SendKernelReply
  <2>2. ASSUME NEW i \in Interrupt, IrqDelivered(i)
        PROVE  Stores
    BY <1>4, <2>2 DEF IrqDelivered
  <2>3. \/ SendKernelReply
        \/ \E i \in Interrupt : IrqDelivered(i)
        \/ UNCHANGED keys
    BY <1>5 DEF ReplyStep, DropKernelReply, PanicInKernelReply, DeviceRaises, Irq,
         IrqWithoutObject, IrqCoalesced, IrqBlocks, IrqRetargets, IrqDropped, PanicInIrq,
         contextVars
  <2>. QED  BY <2>1, <2>2, <2>3
<1>6. CASE DoDeferredSwitch \/ DoDeferredSwitchFromIrq \/ SwitchAfterInterrupt \/ UNCHANGED vars
  BY <1>6 DEF DoDeferredSwitch, DoDeferredSwitchFromIrq, SwitchAfterInterrupt, vars, contextVars
<1>. QED  BY <1>1, <1>2, <1>3, <1>5, <1>6 DEF Next, KernelStep

\* No message received, copy_key or write_key_register reaches key register 0,
\* so the PANIC of do_ipc ("kr0 written") is unreachable and programs always have
\* a null key to send.
THEOREM Kr0StaysNull == Spec => []Kr0Null
<1>1. Init => Kr0Kept
  BY InitAssumption DEF Init, Kr0Kept
<1>2. Inv /\ Kr0Kept /\ [Next]_vars => Kr0Kept'
  <2>. SUFFICES ASSUME Inv, Kr0Kept, [Next]_vars PROVE Kr0Kept'
    OBVIOUS
  <2>1. CASE UNCHANGED keys
    BY <2>1 DEF Kr0Kept
  <2>. QED  BY <2>1, NextKeys, StoringKeepsKr0, WritingKeepsKr0
<1>3. Inv /\ Kr0Kept => Kr0Null
  BY DEF Kr0Kept, Kr0Null, Get, NullKey
<1>. QED  BY <1>1, <1>2, <1>3, SpecInv, PTL DEF Spec

-----------------------------------------------------------------------------
(* The head of the run queue has the processor, unless a switch is pended *)

HeadKept ==
  /\ phase = "user" => ~ switchPending
  /\ phase # "panic" /\ ~ switchPending /\ ~ pendsv => current = Peek(runnable)

\* The run queue, the current Context and the pended switches are left alone,
\* and the kernel neither returns to a program nor comes back from a panic.
SchedulerKept ==
  /\ UNCHANGED schedVars
  /\ phase' = "user" => phase = "user"
  /\ phase = "panic" => phase' = "panic"

\* Whatever moves in the run queue pends a switch, but for set_priority and the
\* invalidation of a Context that does not run.
LEMMA NextSchedule ==
  ASSUME Inv, [Next]_vars
  PROVE  \/ SchedulerKept
         \/ switchPending' /\ phase' # "user"
         \/ phase' = "panic"
         \/ DoDeferredSwitch \/ DoDeferredSwitchFromIrq \/ SwitchAfterInterrupt
         \/ \E x \in Context : InvalidateContext(x) \/ SetPriority(x)
<1>1. ASSUME NEW x, MakeRunnable(x) \/ BlockReceiver(x)
      PROVE  switchPending'
  BY <1>1 DEF MakeRunnable, BlockReceiver
<1>2. ASSUME NEW s, NEW d, NEW j, ReceivePhase(s, d, j)
      PROVE  phase' # "user"
  BY <1>2 DEF ReceivePhase, Rest
<1>3. ReceiveDone => phase' # "user"
  BY DEF ReceiveDone, Rest
<1>4. ASSUME NEW k, NEW ks, ReplyDelivered(k, ks) \/ GateDelivered(k, ks)
      PROVE  switchPending'
  BY <1>1, <1>4 DEF ReplyDelivered, GateDelivered, CompleteBlockedReceive
<1>5. CASE SystemCall
  <2>1. ASSUME NEW d \in Descriptor, SendReply(d)
        PROVE  (switchPending' /\ phase' # "user") \/ phase' = "panic"
    <3>1. \/ phase' = "panic"
          \/ \E x : MakeRunnable(x) /\ ReceivePhase(current, d, NoJob)
      BY <2>1 DEF SendReply, Panic
    <3>. QED  BY <1>1, <1>2, <3>1
  <2>2. ASSUME NEW d \in Descriptor, SendToReceiver(d)
        PROVE  switchPending' /\ phase' # "user"
    <3>1. \E x : MakeRunnable(x) /\ ReceivePhase(current, d, NoJob)
      BY <2>2 DEF SendToReceiver
    <3>. QED  BY <1>1, <1>2, <3>1
  <2>3. ASSUME NEW d \in Descriptor, BlockInSend(d)
        PROVE  switchPending' /\ phase' # "user"
    BY <2>3 DEF BlockInSend
  <2>4. ASSUME NEW d \in Descriptor, SendToService(d)
        PROVE  SchedulerKept
    <3>1. \E j : ReceivePhase(current, d, j)
      BY <2>4 DEF SendToService
    <3>. QED  BY <1>2, <2>4, <3>1 DEF SendToService, BeginIpc, SchedulerKept
  <2>5. ASSUME NEW d \in Descriptor, BeginReceive(d) \/ BeginNothing(d) \/ RefuseToBlock(d)
        PROVE  SchedulerKept
    BY <2>5 DEF BeginReceive, BeginNothing, RefuseToBlock, BeginIpc, SchedulerKept
  <2>6. ASSUME NEW to \in Reg, NEW from \in Reg, CopyKey(to, from)
        PROVE  SchedulerKept
    BY <2>6 DEF CopyKey, SchedulerKept, handlerVars
  <2>. QED  BY <1>5, <2>1, <2>2, <2>3, <2>4, <2>5, <2>6 DEF SystemCall
<1>6. CASE ReceiveStep
  <2>1. CASE ReceiveReply \/ \E g \in Gate : BlockInReceive(g)
    BY <1>1, <1>3, <2>1 DEF ReceiveReply, BlockInReceive
  <2>2. CASE ReceiveRefused \/ \E g \in Gate : ReceiveFromInterrupt(g)
    BY <1>3, <2>2 DEF ReceiveRefused, ReceiveFromInterrupt, ReceivesFrom, SchedulerKept
  <2>3. ASSUME NEW g \in Gate, ReceiveFromContext(g)
        PROVE  switchPending' /\ phase' # "user"
    <3>1. \E s : MakeRunnable(s) /\ ReceivePhase(s, desc[s], job)
      BY <2>3 DEF ReceiveFromContext
    <3>. QED  BY <1>1, <1>2, <3>1
  <2>. QED  BY <1>6, <2>1, <2>2, <2>3 DEF ReceiveStep
<1>7. CASE ServeStep
  <2>1. \E k : Handled(k)
    BY <1>7 DEF ServeStep, ServeWithoutEffect, WriteRegister, ReadKeyRegister,
         WriteKeyRegister, InterruptSending, InterruptReceiving, StartStopped, SetPriority,
         InvalidateContext, InvalidatePlain, InvalidateInterrupt, MakeClientKey, MintKey,
         SetTarget, Enable
  <2>2. phase' = "reply" /\ phase = "serve"
    <3>1. phase = "serve"
      BY <1>7 DEF ServeStep, ServeWithoutEffect, WriteRegister, ReadKeyRegister,
         WriteKeyRegister, InterruptSending, InterruptReceiving, StartStopped, SetPriority,
         InvalidateContext, InvalidatePlain, InvalidateInterrupt, MakeClientKey, MintKey,
         SetTarget, Enable, Invalidated, AsksContext, Asks
    <3>. QED  BY <2>1, <3>1 DEF Handled
  <2>3. \/ UNCHANGED schedVars
        \/ \E x : MakeRunnable(x)
        \/ \E x \in Context : InvalidateContext(x) \/ SetPriority(x)
    BY <1>7 DEF ServeStep, ServeWithoutEffect, WriteRegister, ReadKeyRegister,
         WriteKeyRegister, InterruptSending, InterruptReceiving, StartStopped,
         InvalidatePlain, InvalidateInterrupt, MakeClientKey, MintKey,
         SetTarget, Enable
  <2>. QED  BY <1>1, <2>2, <2>3 DEF SchedulerKept
<1>8. CASE ReplyStep
  BY <1>4, <1>8 DEF ReplyStep, SendKernelReply, DropKernelReply, PanicInKernelReply, Panic,
       SchedulerKept
<1>9. ASSUME NEW i \in Interrupt, DeviceRaises(i) \/ Irq(i)
      PROVE  \/ SchedulerKept
             \/ switchPending' /\ phase' # "user"
             \/ phase' = "panic"
  BY <1>4, <1>9 DEF DeviceRaises, handlerVars, Irq, Triggered, Taken, IrqWithoutObject, IrqCoalesced,
       IrqDelivered, IrqBlocks, IrqRetargets, IrqDropped, PanicInIrq, Panic, SchedulerKept
<1>10. CASE UNCHANGED vars
  BY <1>10 DEF vars, handlerVars, SchedulerKept
<1>. QED  BY <1>5, <1>6, <1>7, <1>8, <1>9, <1>10 DEF Next, KernelStep

\* The Context that runs is still first when another leaves the run queue.
LEMMA InvalidateKeepsHead ==
  ASSUME Inv, HeadKept, NEW x \in Context, InvalidateContext(x)
  PROVE  HeadKept'
<1>1. /\ runnable' = Unlink(runnable, x)
      /\ UNCHANGED <<current, pendsv>>
      /\ ~ switchPending' => ~ switchPending /\ x # current
      /\ phase = "serve" /\ phase' = "reply"
  BY DEF InvalidateContext, Invalidated, Asks, Handled
<1>2. ASSUME ~ switchPending, ~ pendsv, x # current
      PROVE  Peek(Unlink(runnable, x)) = current
  <2>1. current = Peek(runnable) /\ state[current] = "runnable" /\ current \in Context
    BY <1>1, <1>2 DEF HeadKept, Inv, Data, CurrentRuns
  <2>2. runnable \in List(Context) /\ NoDuplicates(runnable) /\ current \in Linked(runnable)
    BY <2>1 DEF Inv, Queues, RunQueueAgrees, Orderly
  <2>3. ~ IsEmpty(runnable)
    BY <2>2, EmptyIffNothingLinked
  <2>. QED  BY <1>2, <2>1, <2>2, <2>3, PeekUnlinkOther
<1>. QED  BY <1>1, <1>2 DEF HeadKept

\* Every switch gives the processor to the head of the run queue.
LEMMA SwitchKeepsHead ==
  ASSUME Inv, HeadKept, DoDeferredSwitch \/ DoDeferredSwitchFromIrq \/ SwitchAfterInterrupt
  PROVE  HeadKept'
<1>1. SwitchNow => phase' = "panic" \/ current' = Peek(runnable)
  BY DEF SwitchNow, Panic
<1>2. CASE DoDeferredSwitch
  BY <1>1, <1>2 DEF DoDeferredSwitch, HeadKept
<1>3. CASE DoDeferredSwitchFromIrq
  BY <1>3 DEF DoDeferredSwitchFromIrq, HeadKept, Inv, Data
<1>4. CASE SwitchAfterInterrupt
  BY <1>1, <1>4 DEF SwitchAfterInterrupt, HeadKept
<1>. QED  BY <1>2, <1>3, <1>4

\* A message that the handler of a Context's protocol is to take.
Controls == job.obj \in Context /\ ~ job.brand.hi

\* While such a message waits, its sender goes to wait for the reply or does
\* so already, with a switch pended.
ControlHeld ==
  Controls /\ "set_priority" \in Selectors =>
    \/ phase = "receive" /\ Get(src) = rx /\ src.brand = ReplyBrand(rx)
    \/ phase = "serve" /\ switchPending
    \/ phase = "panic"

\* A caller's receive phase follows its message and blocks it.
LEMMA NextControlHeld ==
  ASSUME Inv, Inv', ControlHeld, [Next]_vars, ControlIsCalled
  PROVE  ControlHeld'
<1>. SUFFICES ASSUME Controls', "set_priority" \in Selectors
              PROVE  \/ phase' = "receive" /\ Get(src)' = rx' /\ (src.brand)' = ReplyBrand(rx)'
                     \/ phase' = "serve" /\ switchPending'
                     \/ phase' = "panic"
  BY DEF ControlHeld
<1>1. job' # NoJob
  BY KernelAssumption DEF Controls, NoJob, NoBrand
<1>2. ASSUME NEW s, NEW d, ReceivePhase(s, d, NoJob)
      PROVE  FALSE
  BY <1>1, <1>2 DEF ReceivePhase
<1>3. CASE SystemCall
  <2>1. \/ \E d \in Descriptor : SendToService(d)
        \/ phase' = "panic"
        \/ job' = job /\ phase = "user"
    BY <1>2, <1>3 DEF SystemCall, BeginReceive, BeginNothing, BeginIpc, SendReply, Panic,
         SendToReceiver, BlockInSend, RefuseToBlock, CopyKey, handlerVars
  <2>2. ASSUME NEW d \in Descriptor, SendToService(d)
        PROVE  phase' = "receive" /\ Get(src)' = rx' /\ (src.brand)' = ReplyBrand(rx)'
    <3>1. /\ current \in Context
          /\ job'.obj = Get(TargetKey(d))
          /\ Get(TargetKey(d)) \in Context
          /\ job'.brand = TargetKey(d).brand
      BY <2>2, KernelAssumption DEF SendToService, ReceivePhase, Controls, Inv, Data
    <3>2. IsCall(d)
      BY <2>2, <3>1 DEF ControlIsCalled, Controls
    <3>3. phase' = "receive" /\ rx' = current /\ src' = ReplyKey(current)
      BY <2>2, <3>2 DEF SendToService, ReceivePhase, IsCall
    <3>. QED
      BY <2>2, <3>1, <3>3 DEF SendToService, Get, ReplyKey, MakeKey, ReplyBrand
  <2>. QED  BY <2>1, <2>2 DEF ControlHeld, Controls
<1>4. CASE ReceiveStep
  <2>1. job' = job /\ phase = "receive"
    BY <1>4 DEF ReceiveStep, ReceiveReply, ReceiveRefused, ReceiveFromContext,
         ReceiveFromInterrupt, BlockInReceive, ReceivesFrom, ReceiveDone, ReceivePhase
  <2>2. Get(src) = rx /\ src.brand = ReplyBrand(rx) /\ rx \in Context
    BY <2>1 DEF ControlHeld, Controls, Inv, Handler
  <2>3. ReceiveReply
    BY <1>4, <2>2, KernelAssumption DEF ReceiveStep, ReceiveRefused, ReceiveFromContext,
         ReceiveFromInterrupt, BlockInReceive, ReceivesFrom
  <2>. QED  BY <1>1, <2>1, <2>3 DEF ReceiveReply, BlockReceiver, ReceiveDone, Rest
<1>5. CASE ServeStep
  <2>1. \E k : Handled(k)
    BY <1>5 DEF ServeStep, ServeWithoutEffect, WriteRegister, ReadKeyRegister,
         WriteKeyRegister, InterruptSending, InterruptReceiving, StartStopped, SetPriority,
         InvalidateContext, InvalidatePlain, InvalidateInterrupt, MakeClientKey, MintKey,
         SetTarget, Enable
  <2>. QED  BY <1>1, <2>1 DEF Handled
<1>6. CASE \/ ReplyStep \/ DoDeferredSwitch \/ DoDeferredSwitchFromIrq \/ SwitchAfterInterrupt
           \/ \E i \in Interrupt : Irq(i)
  <2>1. job' = job /\ phase \in {"reply", "exit", "irqexit", "user"}
    BY <1>6 DEF ReplyStep, SendKernelReply, DropKernelReply, PanicInKernelReply,
         DoDeferredSwitch, DoDeferredSwitchFromIrq, SwitchAfterInterrupt,
         Irq, Triggered, Taken, IrqWithoutObject, IrqCoalesced,
         IrqDelivered, IrqBlocks, IrqRetargets, IrqDropped, PanicInIrq
  <2>. QED  BY <2>1 DEF ControlHeld, Controls
<1>7. CASE (\E i \in Interrupt : DeviceRaises(i)) \/ UNCHANGED vars
  <2>1. UNCHANGED <<contextVars, schedVars, generation, handlerVars>>
    BY <1>7 DEF DeviceRaises, vars
  <2>. QED
    BY <2>1 DEF contextVars, schedVars, handlerVars, ControlHeld, Controls, Get, ReplyBrand
<1>. QED  BY <1>3, <1>4, <1>5, <1>6, <1>7 DEF Next, KernelStep

\* No step lets a Context run that is not first.
LEMMA NextHeadKept ==
  ASSUME Inv, HeadKept, ControlHeld, [Next]_vars
  PROVE  HeadKept'
<1>1. CASE SchedulerKept
  BY <1>1 DEF HeadKept, SchedulerKept, schedVars
<1>2. ASSUME NEW x \in Context, SetPriority(x)
      PROVE  switchPending' /\ phase' # "user"
  <2>1. Controls /\ "set_priority" \in Selectors /\ phase = "serve" /\ phase' = "reply"
    BY <1>2 DEF SetPriority, AsksContext, Asks, Handled, Controls
  <2>. QED  BY <1>2, <2>1 DEF ControlHeld, SetPriority
<1>. QED
  BY <1>1, <1>2, NextSchedule, InvalidateKeepsHead, SwitchKeepsHead DEF HeadKept

\* "The head of this list is the same as current": whenever a program runs and no
\* switch is pended it is the first of the most urgent runnable ones, as long
\* as whoever sets priorities waits for the answer.
THEOREM HeadAlwaysRuns == Spec /\ [][ControlIsCalled]_vars => []HeadRuns
<1>1. Init => HeadKept /\ ControlHeld
  BY KernelAssumption DEF Init, HeadKept, ControlHeld, Controls, NoJob
<1>2. Inv /\ Inv' /\ HeadKept /\ ControlHeld /\ [Next]_vars /\ [ControlIsCalled]_vars
        => HeadKept' /\ ControlHeld'
  <2>. SUFFICES ASSUME Inv, Inv', HeadKept, ControlHeld, [Next]_vars, [ControlIsCalled]_vars
               PROVE  HeadKept' /\ ControlHeld'
    OBVIOUS
  <2>1. CASE UNCHANGED vars
    BY <2>1 DEF vars, contextVars, schedVars, handlerVars, HeadKept, ControlHeld, Controls,
         Get, ReplyBrand
  <2>. QED  BY <2>1, NextHeadKept, NextControlHeld
<1>3. Inv /\ HeadKept => HeadRuns
  <2>. SUFFICES ASSUME Inv, HeadKept, phase = "user", ~ pendsv
               PROVE  ~ IsEmpty(runnable) /\ current = Peek(runnable)
    BY DEF HeadRuns
  <2>1. current = Peek(runnable) /\ state[current] = "runnable" /\ current \in Context
    BY DEF HeadKept, Inv, Data, CurrentRuns
  <2>2. runnable \in List(Context) /\ current \in Linked(runnable)
    BY <2>1 DEF Inv, Queues, RunQueueAgrees
  <2>. QED  BY <2>1, <2>2, EmptyIffNothingLinked
<1>. QED  BY <1>1, <1>2, <1>3, SpecInv, PTL DEF Spec
=============================================================================
