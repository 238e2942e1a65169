--------------------------- MODULE KernelKeyProofs ---------------------------
(***************************************************************************)
(* Proofs about the keys of the kernel: where every key that a step leaves *)
(* behind comes from, and what follows from it about invalidation, reply   *)
(* keys and the kernel's panics.                                           *)
(***************************************************************************)
EXTENDS KernelSafetyProofs

-----------------------------------------------------------------------------
(* Where keys come from *)

\* Every key that is stored anywhere: LiveKeys, and the key that a receive
\* phase still goes through.
HeldKeys ==
  {keys[c][r] : c \in Context, r \in Reg}
    \cup {irqTarget[i] : i \in Interrupt}
    \cup {job.k0, job.k1, reply.to, reply.k1, src}

\* A key that this step makes: the null key, or one by Object::make_key for a
\* Gate's or the Object Table's client, for the receiver of an Interrupt, or
\* for a Context that goes on to await the reply.
Made(k) ==
  \/ k = NullKey
  \/ \E g \in Gate, b \in Brand : k = MakeKey(g, b)
  \/ \E i \in Interrupt : k = MakeKey(i, NoBrand) /\ (redirected[i] \/ WaitsToSend(i))
  \/ \E m \in Mintable : k = MakeKey(m.obj, m.brand)
  \/ \E c \in Context : k = ReplyKey(c) /\ phase' = "receive" /\ rx' = c /\ src' = k

KeptOrMade(k) == k \in HeldKeys \/ Made(k)

\* The keys a step leaves are those it found and those it made.
KeysFlow == \A k \in HeldKeys' : KeptOrMade(k)

\* LiveKeys are held.
LEMMA LiveKeysHeld ==
  ASSUME Data
  PROVE  LiveKeys \subseteq HeldKeys
<1>1. ASSUME NEW c \in Context
      PROVE  Range(keys[c]) \subseteq HeldKeys
  BY DEF Data, HeldKeys, Range
<1>2. Range(irqTarget) \subseteq HeldKeys
  BY DEF Data, HeldKeys, Range
<1>3. {job.k0, job.k1, reply.to, reply.k1} \subseteq HeldKeys
  BY DEF HeldKeys
<1>. QED  BY <1>1, <1>2, <1>3 DEF LiveKeys

\* The parts of HeldKeys.
LEMMA HeldParts ==
  /\ \A c \in Context, r \in Reg : KeptOrMade(keys[c][r])
  /\ \A i \in Interrupt : KeptOrMade(irqTarget[i])
  /\ KeptOrMade(job.k0) /\ KeptOrMade(job.k1)
  /\ KeptOrMade(reply.to) /\ KeptOrMade(reply.k1)
  /\ KeptOrMade(src)
  /\ KeptOrMade(NullKey) /\ KeptOrMade(NoJob.k0) /\ KeptOrMade(NoJob.k1)
  /\ KeptOrMade(NoReply.to) /\ KeptOrMade(NoReply.k1)
BY DEF KeptOrMade, HeldKeys, Made, NoJob, NoReply

\* A step is accounted for when each place of a key is.
LEMMA FlowByParts ==
  ASSUME \A c \in Context, r \in Reg : KeptOrMade(keys'[c][r]),
         \A i \in Interrupt : KeptOrMade(irqTarget'[i]),
         KeptOrMade(job'.k0), KeptOrMade(job'.k1),
         KeptOrMade(reply'.to), KeptOrMade(reply'.k1),
         KeptOrMade(src')
  PROVE  KeysFlow
<1>. HIDE DEF KeptOrMade
<1>. QED  BY DEF KeysFlow, HeldKeys

\* KeysRef::set stores what was received, or leaves what was there.
LEMMA StoredFlow ==
  ASSUME Data, NEW x \in Context, NEW ks,
         \A m \in MsgKey : KeptOrMade(ks[m]),
         keys' = [keys EXCEPT ![x] = Stored(x, ks)]
  PROVE  \A c \in Context, r \in Reg : KeptOrMade(keys'[c][r])
<1>1. ASSUME NEW r \in Reg
      PROVE  KeptOrMade(Stored(x, ks)[r])
  <2>1. CASE r # 0 /\ \E i \in MsgKey : LastInto(desc[x], r, i)
    <3>1. (CHOOSE i \in MsgKey : LastInto(desc[x], r, i)) \in MsgKey
      BY <2>1
    <3>2. Stored(x, ks)[r] = ks[CHOOSE i \in MsgKey : LastInto(desc[x], r, i)]
      BY <2>1 DEF Stored
    <3>. QED  BY <3>1, <3>2
  <2>2. CASE ~ (r # 0 /\ \E i \in MsgKey : LastInto(desc[x], r, i))
    <3>1. Stored(x, ks)[r] = keys[x][r]
      BY <2>2 DEF Stored
    <3>. QED  BY <3>1, HeldParts
  <2>. QED  BY <2>1, <2>2
<1>. HIDE DEF KeptOrMade
<1>2. \A c \in Context, r \in Reg : keys'[c][r] = IF c = x THEN Stored(x, ks)[r] ELSE keys[c][r]
  BY DEF Data
<1>. QED  BY <1>1, <1>2, HeldParts

\* The keys Context::on_delivery hands over were the sender's, but for the reply
\* key of a sender that goes on to await it.
LEMMA ReceivePhaseFlow ==
  ASSUME Data, NEW s \in Context, NEW d \in AnyDescriptor, NEW j, ReceivePhase(s, d, j)
  PROVE  /\ \A m \in MsgKey : KeptOrMade(Outgoing(s, d)[m])
         /\ KeptOrMade(src')
         /\ job' = j
<1>1. IsCall(d) => Made(ReplyKey(s)) /\ src' = ReplyKey(s)
  BY DEF ReceivePhase, IsCall, Made
<1>2. KeptOrMade(NullKey) /\ \A r \in Reg : KeptOrMade(keys[s][r])
  BY HeldParts
<1>3. d.source \in Reg /\ \A m \in MsgKey : d.sent[m] \in Reg
  BY DEF AnyDescriptor
<1>4. src' \in {ReplyKey(s), keys[s][d.source], NullKey} /\ (src' = ReplyKey(s) => IsCall(d) \/ KeptOrMade(src'))
  <2>. HIDE DEF KeptOrMade
  <2>. QED  BY <1>2, <1>3 DEF ReceivePhase
<1>5. KeptOrMade(src')
  BY <1>1, <1>2, <1>3, <1>4 DEF KeptOrMade
<1>6. \A m \in MsgKey : \/ Outgoing(s, d)[m] = ReplyKey(s) /\ IsCall(d)
                        \/ Outgoing(s, d)[m] = keys[s][d.sent[m]]
  BY DEF Outgoing
<1>7. \A m \in MsgKey : KeptOrMade(Outgoing(s, d)[m])
  BY <1>1, <1>2, <1>3, <1>6 DEF KeptOrMade
<1>. QED  BY <1>5, <1>7 DEF ReceivePhase

\* do_ipc and do_key_op account for their keys.
LEMMA SystemCallFlow ==
  ASSUME Inv, SystemCall
  PROVE  KeysFlow
<1>. HIDE DEF KeptOrMade
<1>0. /\ 0 \in MsgKey /\ 1 \in MsgKey /\ Data
      /\ \A d \in Descriptor : BeginIpc(d) => current \in Context /\ d \in AnyDescriptor
  BY KernelAssumption, BeginIpcFacts DEF MsgKey, Inv
<1>1. ASSUME NEW d \in Descriptor, BeginReceive(d)
      PROVE  KeysFlow
  <2>1. src' = keys[current][d.source] /\ current \in Context /\ d.source \in Reg
    BY <1>0, <1>1 DEF BeginReceive, AnyDescriptor
  <2>. QED  BY <1>1, <2>1, HeldParts, FlowByParts DEF BeginReceive, irqVars
<1>2. ASSUME NEW d \in Descriptor, BeginNothing(d) \/ RefuseToBlock(d)
      PROVE  KeysFlow
  BY <1>2, HeldParts, FlowByParts DEF BeginNothing, RefuseToBlock, contextVars, irqVars
<1>3. ASSUME NEW d \in Descriptor, SendReply(d)
      PROVE  KeysFlow
  <2>1. PICK x \in Context :
          /\ UNCHANGED <<irqVars, reply>>
          /\ \/ UNCHANGED <<keys, src, job>>
             \/ /\ keys' = [keys EXCEPT ![x] = Stored(x, Outgoing(current, d))]
                /\ ReceivePhase(current, d, NoJob)
    BY <1>3 DEF SendReply
  <2>2. CASE UNCHANGED <<keys, src, job>>
    BY <2>1, <2>2, HeldParts, FlowByParts DEF irqVars
  <2>3. CASE /\ keys' = [keys EXCEPT ![x] = Stored(x, Outgoing(current, d))]
             /\ ReceivePhase(current, d, NoJob)
    <3>0. BeginIpc(d)
      BY <1>3 DEF SendReply
    <3>1. \A c \in Context, r \in Reg : KeptOrMade(keys'[c][r])
      BY <1>0, <2>3, <3>0, ReceivePhaseFlow, StoredFlow
    <3>2. KeptOrMade(src') /\ job' = NoJob
      BY <1>0, <2>3, <3>0, ReceivePhaseFlow
    <3>. QED  BY <2>1, <3>1, <3>2, HeldParts, FlowByParts DEF irqVars
  <2>. QED  BY <2>1, <2>2, <2>3
<1>4. ASSUME NEW d \in Descriptor, SendToService(d)
      PROVE  KeysFlow
  <2>1. PICK j : /\ ReceivePhase(current, d, j)
                 /\ j.k0 = Outgoing(current, d)[0]
                 /\ j.k1 = Outgoing(current, d)[1]
    BY <1>4 DEF SendToService
  <2>2. /\ KeptOrMade(j.k0) /\ KeptOrMade(j.k1) /\ KeptOrMade(src')
        /\ job' = j
    BY <1>0, <1>4, <2>1, ReceivePhaseFlow DEF SendToService
  <2>. QED  BY <1>4, <2>2, HeldParts, FlowByParts DEF SendToService, irqVars
<1>5. ASSUME NEW d \in Descriptor, SendToReceiver(d)
      PROVE  KeysFlow
  <2>. DEFINE g == Get(TargetKey(d))
              r == Peek(receivers[g])
  <2>1. /\ g \in Gate /\ ~ IsEmpty(receivers[g])
        /\ keys' = [keys EXCEPT ![r] = Stored(r, Outgoing(current, d))]
        /\ ReceivePhase(current, d, NoJob)
        /\ BeginIpc(d)
        /\ UNCHANGED <<irqVars, reply>>
    BY <1>5 DEF SendToReceiver
  <2>. HIDE DEF g
  <2>2. r \in Context
    BY <2>1, FirstReceiver DEF Inv
  <2>. HIDE DEF r
  <2>3. \A c \in Context, n \in Reg : KeptOrMade(keys'[c][n])
    BY <1>0, <2>1, <2>2, ReceivePhaseFlow, StoredFlow
  <2>4. KeptOrMade(src') /\ job' = NoJob
    BY <1>0, <2>1, ReceivePhaseFlow
  <2>. QED  BY <2>1, <2>3, <2>4, HeldParts, FlowByParts DEF irqVars
<1>6. ASSUME NEW d \in Descriptor, BlockInSend(d)
      PROVE  KeysFlow
  BY <1>6, HeldParts, FlowByParts DEF BlockInSend, irqVars
<1>7. ASSUME NEW to \in Reg, NEW from \in Reg, CopyKey(to, from)
      PROVE  KeysFlow
  <2>1. \A c \in Context, r \in Reg : keys'[c][r] \in {keys[c][r], keys[current][from]}
    BY <1>7 DEF CopyKey, Inv, Data
  <2>2. \A c \in Context, r \in Reg : KeptOrMade(keys'[c][r])
    <3>1. current \in Context
      BY DEF Inv, Data
    <3>. QED  BY <2>1, <3>1, HeldParts
  <2>. QED  BY <1>7, <2>2, HeldParts, FlowByParts DEF CopyKey, irqVars, handlerVars
<1>. QED  BY <1>1, <1>2, <1>3, <1>4, <1>5, <1>6, <1>7 DEF SystemCall

\* So does a receive phase.
LEMMA ReceiveStepFlow ==
  ASSUME Inv, ReceiveStep
  PROVE  KeysFlow
<1>. HIDE DEF KeptOrMade
<1>0. Data
  BY DEF Inv
<1>1. CASE ReceiveReply \/ ReceiveRefused \/ \E g \in Gate : BlockInReceive(g)
  BY <1>1, HeldParts, FlowByParts
     DEF ReceiveReply, ReceiveRefused, BlockInReceive, ReceiveDone, irqVars
<1>2. ASSUME NEW g \in Gate, ReceiveFromContext(g)
      PROVE  KeysFlow
  <2>. DEFINE s == Peek(senders[g])
  <2>1. /\ s \in Context /\ rx \in Context
        /\ keys' = [keys EXCEPT ![rx] = Stored(rx, Outgoing(s, desc[s]))]
        /\ ReceivePhase(s, desc[s], job)
        /\ UNCHANGED <<irqVars, reply>>
    BY <1>2 DEF ReceiveFromContext, ReceivesFrom, Inv, Handler
  <2>. HIDE DEF s
  <2>2. desc[s] \in AnyDescriptor
    BY <1>0, <2>1 DEF Data
  <2>3. /\ \A m \in MsgKey : KeptOrMade(Outgoing(s, desc[s])[m])
        /\ KeptOrMade(src') /\ job' = job
    BY <1>0, <2>1, <2>2, ReceivePhaseFlow
  <2>4. \A c \in Context, r \in Reg : KeptOrMade(keys'[c][r])
    BY <1>0, <2>1, <2>3, StoredFlow
  <2>. QED  BY <2>1, <2>3, <2>4, HeldParts, FlowByParts DEF irqVars
<1>3. ASSUME NEW g \in Gate, ReceiveFromInterrupt(g)
      PROVE  KeysFlow
  <2>. DEFINE i == Peek(senders[g])
  <2>1. /\ i \in Interrupt /\ ~ IsEmpty(senders[g]) /\ rx \in Context
        /\ keys' = [keys EXCEPT ![rx] = Stored(rx, IrqKeys(i))]
        /\ ReceiveDone
        /\ UNCHANGED <<irqVars, reply>>
    BY <1>3 DEF ReceiveFromInterrupt, ReceivesFrom, Receives, Inv, Handler
  <2>2. WaitsToSend(i)
    BY <2>1, FirstSender DEF WaitsToSend, Inv
  <2>. HIDE DEF i
  <2>3. \A m \in MsgKey : KeptOrMade(IrqKeys(i)[m])
    BY <2>1, <2>2 DEF IrqKeys, KeptOrMade, Made
  <2>4. \A c \in Context, r \in Reg : KeptOrMade(keys'[c][r])
    BY <1>0, <2>1, <2>3, StoredFlow
  <2>. QED  BY <2>1, <2>4, HeldParts, FlowByParts DEF irqVars, ReceiveDone
<1>. QED  BY <1>1, <1>2, <1>3 DEF ReceiveStep

\* The reply of a kernel object carries a key that was held or made; the key it
\* goes to came with the message.
LEMMA HandledFlow ==
  ASSUME NEW k1, KeptOrMade(k1), Handled(k1), UNCHANGED irqTarget,
         \A c \in Context, r \in Reg : KeptOrMade(keys'[c][r])
  PROVE  KeysFlow
<1>. HIDE DEF KeptOrMade
<1>1. /\ job' = NoJob /\ src' = src
      /\ reply'.to = job.k0 /\ reply'.k1 = k1
  BY DEF Handled
<1>2. \A i \in Interrupt : KeptOrMade(irqTarget'[i])
  BY HeldParts
<1>. QED  BY <1>1, <1>2, HeldParts, FlowByParts

\* So do the kernel objects' protocols.
LEMMA ServeStepFlow ==
  ASSUME Inv, ServeStep
  PROVE  KeysFlow
<1>. HIDE DEF KeptOrMade
<1>1. CASE UNCHANGED <<keys, irqTarget>> /\ \E k \in {NullKey} : Handled(k)
  <2>1. \A c \in Context, r \in Reg : KeptOrMade(keys'[c][r])
    BY <1>1, HeldParts
  <2>. QED  BY <1>1, <2>1, HeldParts, HandledFlow
<1>2. ASSUME NEW x \in Context, ReadKeyRegister(x)
      PROVE  KeysFlow
  <2>1. PICK r \in Reg : Handled(keys[x][r])
    BY <1>2 DEF ReadKeyRegister
  <2>2. \A c \in Context, n \in Reg : KeptOrMade(keys'[c][n])
    BY <1>2, HeldParts DEF ReadKeyRegister, contextVars
  <2>. QED  BY <1>2, <2>1, <2>2, HeldParts, HandledFlow DEF ReadKeyRegister, irqVars
<1>3. ASSUME NEW x \in Context, WriteKeyRegister(x)
      PROVE  KeysFlow
  <2>1. \A c \in Context, r \in Reg : keys'[c][r] \in {keys[c][r], job.k1}
    BY <1>3 DEF WriteKeyRegister, Inv, Data
  <2>2. \A c \in Context, r \in Reg : KeptOrMade(keys'[c][r])
    BY <2>1, HeldParts
  <2>. QED  BY <1>3, <2>2, HeldParts, HandledFlow DEF WriteKeyRegister, irqVars
<1>4. ASSUME NEW g \in Gate, MakeClientKey(g)
      PROVE  KeysFlow
  <2>1. PICK n \in ClientBrands : Handled(MakeKey(g, [hi |-> TRUE, n |-> n]))
    BY <1>4 DEF MakeClientKey
  <2>2. [hi |-> TRUE, n |-> n] \in Brand
    BY ProtocolAssumption DEF Brand
  <2>3. KeptOrMade(MakeKey(g, [hi |-> TRUE, n |-> n]))
    BY <2>2 DEF KeptOrMade, Made
  <2>4. \A c \in Context, r \in Reg : KeptOrMade(keys'[c][r])
    BY <1>4, HeldParts DEF MakeClientKey, contextVars
  <2>. QED  BY <1>4, <2>1, <2>3, <2>4, HandledFlow DEF MakeClientKey, irqVars
<1>5. ASSUME MintKey
      PROVE  KeysFlow
  <2>1. PICK m \in Mintable : Handled(MakeKey(m.obj, m.brand))
    BY <1>5 DEF MintKey
  <2>2. KeptOrMade(MakeKey(m.obj, m.brand))
    BY DEF KeptOrMade, Made
  <2>3. \A c \in Context, r \in Reg : KeptOrMade(keys'[c][r])
    BY <1>5, HeldParts DEF MintKey, contextVars
  <2>. QED  BY <1>5, <2>1, <2>2, <2>3, HandledFlow DEF MintKey, irqVars
<1>6. ASSUME NEW i \in Interrupt, SetTarget(i)
      PROVE  KeysFlow
  <2>1. /\ Handled(NullKey)
        /\ \A j \in Interrupt : irqTarget'[j] \in {irqTarget[j], job.k1}
        /\ keys' = keys
    BY <1>6 DEF SetTarget, Inv, Data, contextVars
  <2>2. \A j \in Interrupt : KeptOrMade(irqTarget'[j])
    BY <2>1, HeldParts
  <2>3. /\ job' = NoJob /\ src' = src
        /\ reply'.to = job.k0 /\ reply'.k1 = NullKey
    BY <2>1 DEF Handled
  <2>. QED  BY <2>1, <2>2, <2>3, HeldParts, FlowByParts
<1>7. ASSUME NEW x \in Context,
             WriteRegister(x) \/ InterruptSending(x) \/ InterruptReceiving(x)
               \/ StartStopped(x) \/ SetPriority(x) \/ InvalidateContext(x)
      PROVE  UNCHANGED <<keys, irqTarget>> /\ Handled(NullKey)
  BY <1>7 DEF WriteRegister, InterruptSending, InterruptReceiving, StartStopped, SetPriority,
              InvalidateContext, irqVars
<1>8. ASSUME NEW i \in Interrupt, InvalidateInterrupt(i) \/ Enable(i)
      PROVE  UNCHANGED <<keys, irqTarget>> /\ Handled(NullKey)
  BY <1>8 DEF InvalidateInterrupt, Enable, contextVars
<1>9. ASSUME ServeWithoutEffect \/ \E o \in Object : InvalidatePlain(o)
      PROVE  UNCHANGED <<keys, irqTarget>> /\ Handled(NullKey)
  BY <1>9 DEF ServeWithoutEffect, InvalidatePlain, contextVars, irqVars
<1>. QED
  BY <1>1, <1>2, <1>3, <1>4, <1>5, <1>6, <1>7, <1>8, <1>9 DEF ServeStep

\* So does a message the kernel itself delivers.
LEMMA DeliveryFlow ==
  ASSUME Inv, NEW k, NEW ks, ReplyDelivered(k, ks) \/ GateDelivered(k, ks),
         \A m \in MsgKey : KeptOrMade(ks[m])
  PROVE  \A c \in Context, r \in Reg : KeptOrMade(keys'[c][r])
<1>. HIDE DEF KeptOrMade
<1>1. PICK x \in Context : keys' = [keys EXCEPT ![x] = Stored(x, ks)]
  <2>1. CASE ReplyDelivered(k, ks)
    BY <2>1 DEF ReplyDelivered, CompleteBlockedReceive, Receives
  <2>2. CASE GateDelivered(k, ks)
    <3>1. /\ Get(k) \in Gate
          /\ ~ IsEmpty(receivers[Get(k)])
          /\ keys' = [keys EXCEPT ![Peek(receivers[Get(k)])] =
                                    Stored(Peek(receivers[Get(k)]), ks)]
      BY <2>2 DEF GateDelivered, CompleteBlockedReceive, Receives
    <3>2. Peek(receivers[Get(k)]) \in Context
      BY <3>1, FirstReceiver DEF Inv
    <3>. QED  BY <3>1, <3>2
  <2>. QED  BY <2>1, <2>2
<1>. QED  BY <1>1, StoredFlow DEF Inv

\* So do the replies of kernel objects and the messages of Interrupts.
LEMMA KernelMessageFlow ==
  ASSUME Inv, ReplyStep \/ \E i \in Interrupt : DeviceRaises(i) \/ Irq(i)
  PROVE  KeysFlow
<1>. HIDE DEF KeptOrMade
<1>1. CASE SendKernelReply
  <2>1. \A m \in MsgKey : KeptOrMade(ReplyKeys(reply.k1)[m])
    BY HeldParts DEF ReplyKeys
  <2>2. \A c \in Context, r \in Reg : KeptOrMade(keys'[c][r])
    BY <1>1, <2>1, DeliveryFlow DEF SendKernelReply
  <2>. QED  BY <1>1, <2>2, HeldParts, FlowByParts DEF SendKernelReply, irqVars
<1>2. ASSUME NEW i \in Interrupt, IrqDelivered(i)
      PROVE  KeysFlow
  <2>1. redirected[i]
    BY <1>2 DEF IrqDelivered, Triggered
  <2>2. \A m \in MsgKey : KeptOrMade(IrqKeys(i)[m])
    BY <2>1 DEF IrqKeys, KeptOrMade, Made
  <2>3. \A c \in Context, r \in Reg : KeptOrMade(keys'[c][r])
    BY <1>2, <2>2, DeliveryFlow DEF IrqDelivered
  <2>. QED  BY <1>2, <2>3, HeldParts, FlowByParts DEF IrqDelivered
<1>3. ASSUME NEW i \in Interrupt, IrqRetargets(i)
      PROVE  KeysFlow
  <2>1. \A j \in Interrupt : irqTarget'[j] \in {irqTarget[j], NullKey}
    BY <1>3 DEF IrqRetargets, Inv, Data
  <2>. QED  BY <1>3, <2>1, HeldParts, FlowByParts DEF IrqRetargets, contextVars
<1>4. CASE /\ UNCHANGED <<keys, irqTarget, src, job>>
           /\ reply' \in {reply, NoReply}
  BY <1>4, HeldParts, FlowByParts
<1>5. ASSUME NEW i \in Interrupt, DeviceRaises(i) \/ Irq(i),
             ~ IrqDelivered(i), ~ IrqRetargets(i)
      PROVE  UNCHANGED <<keys, irqTarget, src, job, reply>>
  BY <1>5 DEF DeviceRaises, Irq, IrqWithoutObject, IrqCoalesced, IrqBlocks, IrqDropped,
              PanicInIrq, contextVars, handlerVars
<1>6. ASSUME DropKernelReply \/ PanicInKernelReply
      PROVE  UNCHANGED <<keys, irqTarget, src, job>> /\ reply' \in {reply, NoReply}
  BY <1>6 DEF DropKernelReply, PanicInKernelReply, contextVars, irqVars
<1>. QED  BY <1>1, <1>2, <1>3, <1>4, <1>5, <1>6 DEF ReplyStep

\* Every step of the kernel accounts for its keys.
LEMMA NextFlow ==
  ASSUME Inv, [Next]_vars
  PROVE  KeysFlow
<1>1. CASE SystemCall
  BY <1>1, SystemCallFlow
<1>2. CASE ReceiveStep \/ ServeStep
  BY <1>2, ReceiveStepFlow, ServeStepFlow
<1>3. CASE ReplyStep \/ \E i \in Interrupt : DeviceRaises(i) \/ Irq(i)
  BY <1>3, KernelMessageFlow
<1>4. CASE DoDeferredSwitch \/ DoDeferredSwitchFromIrq \/ SwitchAfterInterrupt \/ UNCHANGED vars
  <2>1. UNCHANGED <<keys, irqTarget, job, reply, src>>
    BY <1>4 DEF DoDeferredSwitch, DoDeferredSwitchFromIrq, SwitchAfterInterrupt, vars,
                contextVars, irqVars, handlerVars
  <2>. HIDE DEF KeptOrMade
  <2>. QED  BY <2>1, HeldParts, FlowByParts
<1>. QED  BY <1>1, <1>2, <1>3, <1>4 DEF Next, KernelStep

-----------------------------------------------------------------------------
(* Generations: no key is ahead of the object it names *)

KeysOfTheTime == \A k \in HeldKeys : k.gen <= generation[k.obj]

\* Held keys are keys.
LEMMA HeldKeysType ==
  ASSUME Inv
  PROVE  HeldKeys \subseteq Key
BY DEF Inv, Data, Handler, HeldKeys, Job, Reply

\* Only Object::invalidate moves a generation, by one.
LEMMA NextGeneration ==
  ASSUME Inv, [Next]_vars
  PROVE  UNCHANGED generation \/ \E o \in Object : Invalidated(o)
<1>1. CASE SystemCall
  BY <1>1 DEF SystemCall, BeginReceive, BeginNothing, SendReply, SendToService, SendToReceiver,
              BlockInSend, RefuseToBlock, CopyKey
<1>2. CASE ReceiveStep
  BY <1>2 DEF ReceiveStep, ReceiveReply, ReceiveRefused, ReceiveFromContext,
              ReceiveFromInterrupt, BlockInReceive
<1>3. CASE ServeStep
  <2>1. Context \subseteq Object /\ Interrupt \subseteq Object
    BY DEF Object
  <2>2. \/ UNCHANGED generation
        \/ \E x \in Context : InvalidateContext(x)
        \/ \E o \in Object : InvalidatePlain(o)
        \/ \E i \in Interrupt : InvalidateInterrupt(i)
    BY <1>3 DEF ServeStep, ServeWithoutEffect, WriteRegister, ReadKeyRegister,
         WriteKeyRegister, InterruptSending, InterruptReceiving, StartStopped, SetPriority,
         MakeClientKey, MintKey, SetTarget, Enable
  <2>. QED  BY <2>1, <2>2 DEF InvalidateContext, InvalidatePlain, InvalidateInterrupt
<1>4. CASE ReplyStep \/ \E i \in Interrupt : DeviceRaises(i) \/ Irq(i)
  BY <1>4 DEF ReplyStep, SendKernelReply, DropKernelReply, PanicInKernelReply, DeviceRaises,
       Irq, IrqWithoutObject, IrqCoalesced, IrqDelivered, IrqBlocks, IrqRetargets, IrqDropped,
       PanicInIrq
<1>5. CASE DoDeferredSwitch \/ DoDeferredSwitchFromIrq \/ SwitchAfterInterrupt \/ UNCHANGED vars
  BY <1>5 DEF DoDeferredSwitch, DoDeferredSwitchFromIrq, SwitchAfterInterrupt, vars
<1>. QED  BY <1>1, <1>2, <1>3, <1>4, <1>5 DEF Next, KernelStep

\* Generations only grow, and a step that makes keys of an object and moves its
\* generation on leaves them dead.
LEMMA GenerationsGrow ==
  ASSUME Inv, [Next]_vars, NEW o \in Object
  PROVE  /\ generation[o] \in Nat
         /\ generation'[o] \in {generation[o], generation[o] + 1}
BY NextGeneration DEF Inv, Data, Invalidated

\* A key that a step makes has the generation its object had before.
LEMMA MadeNow ==
  ASSUME NEW k, Made(k)
  PROVE  k.obj = NullObject \/ k.gen = generation[k.obj]
BY DEF Made, MakeKey, ReplyKey, NullKey

\* No step leaves a key of a generation yet to come: kept keys are of the time
\* already, made ones are of the present, and generations only advance.
LEMMA NextKeysOfTheTime ==
  ASSUME Inv, Inv', KeysOfTheTime, [Next]_vars
  PROVE  KeysOfTheTime'
<1>1. SUFFICES ASSUME NEW k \in HeldKeys'
               PROVE  k.gen <= generation'[k.obj]
  BY DEF KeysOfTheTime
<1>2. k \in Key
  BY HeldKeysType DEF HeldKeys, Inv, Data, Handler, Job, Reply
<1>3. /\ k.obj \in Object /\ k.gen \in Nat
      /\ generation[k.obj] \in Nat
      /\ generation'[k.obj] \in {generation[k.obj], generation[k.obj] + 1}
  BY <1>2, GenerationsGrow DEF Key
<1>4. CASE k \in HeldKeys
  BY <1>3, <1>4 DEF KeysOfTheTime
<1>5. CASE k = NullKey
  BY <1>3, <1>5 DEF NullKey
<1>6. CASE Made(k) /\ k # NullKey
  <2>1. k.gen = generation[k.obj]
    BY <1>6 DEF Made, MakeKey, ReplyKey
  <2>. QED  BY <1>3, <2>1
<1>. QED  BY <1>4, <1>5, <1>6, NextFlow DEF KeysFlow, KeptOrMade

\* The first keys are of the first generation.
LEMMA InitKeysOfTheTime == Init => KeysOfTheTime
<1>. SUFFICES ASSUME Init, NEW k \in HeldKeys  PROVE  k.gen <= generation[k.obj]
  BY DEF KeysOfTheTime
<1>1. k.gen = 0
  <2>1. \A c \in Context, r \in Reg : InitKeys[c][r].gen = 0
    <3>. TAKE c \in Context, r \in Reg
    <3>1. InitKeys[c][r] \in Range(InitKeys[c])
      BY InitAssumption DEF Range
    <3>. QED  BY <3>1, InitAssumption
  <2>2. \A i \in Interrupt : InitTarget[i].gen = 0
    <3>. TAKE i \in Interrupt
    <3>1. InitTarget[i] \in Range(InitTarget)
      BY InitAssumption DEF Range
    <3>. QED  BY <3>1, InitAssumption
  <2>. QED  BY <2>1, <2>2 DEF Init, HeldKeys, NoJob, NoReply, NullKey
<1>2. k \in Key
  BY InitInv, HeldKeysType
<1>. QED  BY <1>1, <1>2 DEF Init, Key

\* A made key is no key to an object invalidated in the same step, and an older
\* one cannot have been waiting for the new generation.
LEMMA RevokedAtOnce ==
  ASSUME Inv, Inv', KeysOfTheTime, [Next]_vars,
         NEW o \in Object \ {NullObject}, generation'[o] # generation[o],
         NEW k \in HeldKeys'
  PROVE  Get(k)' # o
<1>1. SUFFICES ASSUME k.obj = o, k.gen = generation'[o]  PROVE  FALSE
  BY DEF Get
<1>2. /\ generation[o] \in Nat
      /\ generation'[o] = generation[o] + 1
  BY GenerationsGrow
<1>3. CASE k \in HeldKeys
  BY <1>1, <1>2, <1>3 DEF KeysOfTheTime
<1>4. CASE Made(k)
  BY <1>1, <1>2, <1>4, MadeNow
<1>. QED  BY <1>3, <1>4, NextFlow DEF KeysFlow, KeptOrMade

\* Whatever programs, Interrupts and handlers hold, nothing reaches an object
\* once it is invalidated.
THEOREM InvalidationAlwaysRevokes == Spec => InvalidationRevokes
<1>1. Inv /\ Inv' /\ KeysOfTheTime /\ [Next]_vars =>
        [\A o \in Object \ {NullObject} :
           generation'[o] # generation[o] => \A k \in LiveKeys' : Get(k)' # o]_vars
  <2>1. (Inv => LiveKeys \subseteq HeldKeys)'
    <3>1. Inv => LiveKeys \subseteq HeldKeys
      BY LiveKeysHeld DEF Inv
    <3>. QED  BY <3>1, PTL
  <2>. QED  BY <2>1, RevokedAtOnce
<1>. QED
  BY <1>1, SpecInv, InitKeysOfTheTime, NextKeysOfTheTime, PTL DEF Spec, InvalidationRevokes

-----------------------------------------------------------------------------
(* Reply keys: whoever has the one a Context expects, the Context waits *)

\* A reply brand was expected once.
BrandsExpected ==
  \A k \in HeldKeys : k.obj \in Context /\ k.brand.hi => k.brand.n <= expected[k.obj]

\* The Context that expects k waits for it, or is on its way there.
OnItsWay(k) ==
  phase = "receive" /\ rx = Get(k) /\ Get(src) = rx /\ src.brand = k.brand
AwaitedReply(k) ==
  Get(k) \in Context /\ k.brand = ReplyBrand(Get(k)) => AwaitingReply(Get(k)) \/ OnItsWay(k)

HeldReplyKeysAwaited == BrandsExpected /\ \A k \in HeldKeys : AwaitedReply(k)

\* Reply brands are used up one at a time.
LEMMA BrandsGrow ==
  ASSUME Inv, [Next]_vars, NEW c \in Context
  PROVE  /\ expected[c] \in Nat
         /\ expected'[c] \in {expected[c], expected[c] + 1}
<1>1. UNCHANGED expected \/ \E x \in Context : AdvanceReplyBrand(x)
  <2>1. CASE SystemCall
    BY <2>1 DEF SystemCall, BeginReceive, BeginNothing, SendReply, SendToService,
         SendToReceiver, BlockInSend, RefuseToBlock, CopyKey, contextVars
  <2>2. CASE ReceiveStep
    BY <2>2 DEF ReceiveStep, ReceiveReply, ReceiveRefused, ReceiveFromContext,
         ReceiveFromInterrupt, BlockInReceive
  <2>3. CASE ServeStep
    BY <2>3 DEF ServeStep, ServeWithoutEffect, WriteRegister, ReadKeyRegister,
         WriteKeyRegister, InterruptSending, InterruptReceiving, StartStopped, SetPriority,
         InvalidateContext, InvalidatePlain, InvalidateInterrupt, MakeClientKey, MintKey,
         SetTarget, Enable, contextVars
  <2>4. ASSUME NEW k, NEW ks, ReplyDelivered(k, ks) \/ GateDelivered(k, ks)
        PROVE  UNCHANGED expected \/ \E x \in Context : AdvanceReplyBrand(x)
    BY <2>4 DEF ReplyDelivered, GateDelivered
  <2>5. CASE ReplyStep
    BY <2>4, <2>5 DEF ReplyStep, SendKernelReply, DropKernelReply, PanicInKernelReply,
         UnexpectedReply, contextVars
  <2>6. ASSUME NEW i \in Interrupt, DeviceRaises(i) \/ Irq(i)
        PROVE  UNCHANGED expected \/ \E x \in Context : AdvanceReplyBrand(x)
    <3>1. CASE IrqDelivered(i)
      BY <2>4, <3>1 DEF IrqDelivered
    <3>2. CASE PanicInIrq(i)
      BY <3>2 DEF PanicInIrq, UnexpectedReply
    <3>3. CASE ~ IrqDelivered(i) /\ ~ PanicInIrq(i)
      BY <2>6, <3>3 DEF DeviceRaises, Irq, IrqWithoutObject, IrqCoalesced, IrqBlocks,
           IrqRetargets, IrqDropped, contextVars
    <3>. QED  BY <3>1, <3>2, <3>3
  <2>7. CASE DoDeferredSwitch \/ DoDeferredSwitchFromIrq \/ SwitchAfterInterrupt \/ UNCHANGED vars
    BY <2>7 DEF DoDeferredSwitch, DoDeferredSwitchFromIrq, SwitchAfterInterrupt, vars,
         contextVars
  <2>. QED  BY <2>1, <2>2, <2>3, <2>5, <2>6, <2>7 DEF Next, KernelStep
<1>. QED  BY <1>1 DEF Inv, Data, AdvanceReplyBrand

\* A key a step makes bears a reply brand only if a Context goes on to wait for
\* it.
LEMMA MadeReplyKeys ==
  ASSUME Unforged, NEW k, Made(k), k.obj \in Context, k.brand.hi
  PROVE  /\ k = ReplyKey(k.obj)
         /\ phase' = "receive" /\ rx' = k.obj /\ src' = k
<1>1. NullObject \notin Context /\ Context \cap Gate = {} /\ Context \cap Interrupt = {}
  BY KernelAssumption
<1>. QED  BY <1>1 DEF Made, MakeKey, ReplyKey, NullKey, Unforged

\* The next step of a receive phase that awaits a reply blocks the Context; an
\* interrupt line may be asserted before.
LEMMA OnItsWayThenWaits ==
  ASSUME Inv, [Next]_vars, phase = "receive", Get(src) = rx, src.brand = ReplyBrand(rx)
  PROVE  \/ UNCHANGED <<phase, rx, src, generation, expected>>
         \/ /\ state'[rx] = "receiving"
            /\ \A g \in Gate : rx \notin Linked(receivers'[g])
<1>0. /\ rx \in Context /\ state[rx] = "runnable"
      /\ state \in [Context -> {"stopped", "runnable", "sending", "receiving"}]
      /\ \A g \in Gate : rx \notin Linked(receivers[g])
  BY DEF Inv, Handler, ReceiverRuns, Queues, ReceiversAgree
<1>1. CASE ReceiveReply
  <2>1. state'[rx] = "receiving" /\ receivers' = receivers
    BY <1>0, <1>1 DEF ReceiveReply, BlockReceiver, gateVars
  <2>. QED  BY <1>0, <2>1
<1>2. CASE UNCHANGED vars \/ \E i \in Interrupt : DeviceRaises(i)
  BY <1>2 DEF vars, DeviceRaises, contextVars, handlerVars
<1>3. ~ ReceiveRefused /\ \A g \in Gate : ~ ReceivesFrom(g)
  BY <1>0, KernelAssumption DEF ReceiveRefused, ReceivesFrom
<1>4. ~ SystemCall
  BY DEF SystemCall, BeginReceive, BeginNothing, SendReply, SendToService, SendToReceiver,
         BlockInSend, RefuseToBlock, BeginIpc, CopyKey
<1>5. ~ ServeStep
  BY DEF ServeStep, ServeWithoutEffect, WriteRegister, ReadKeyRegister, WriteKeyRegister,
         InterruptSending, InterruptReceiving, StartStopped, SetPriority, InvalidateContext,
         InvalidatePlain, InvalidateInterrupt, MakeClientKey, MintKey, SetTarget, Enable,
         Invalidated, AsksContext, Asks
<1>6. ~ ReplyStep /\ \A i \in Interrupt : ~ Irq(i)
  BY DEF ReplyStep, SendKernelReply, DropKernelReply, PanicInKernelReply, Irq,
         IrqWithoutObject, IrqCoalesced, IrqDelivered, IrqBlocks, IrqRetargets, IrqDropped,
         PanicInIrq, Triggered, Taken
<1>7. ~ DoDeferredSwitch /\ ~ DoDeferredSwitchFromIrq /\ ~ SwitchAfterInterrupt
  BY DEF DoDeferredSwitch, DoDeferredSwitchFromIrq, SwitchAfterInterrupt
<1>8. ReceiveStep => ReceiveReply
  BY <1>3 DEF ReceiveStep, ReceiveFromContext, ReceiveFromInterrupt, BlockInReceive
<1>. QED  BY <1>1, <1>2, <1>4, <1>5, <1>6, <1>7, <1>8 DEF Next, KernelStep

\* A key that was held and is expected now was expected before: the Context has
\* waited since, or has begun to.
LEMMA KeptStaysAwaited ==
  ASSUME Inv, Inv', [Next]_vars, KeysOfTheTime, HeldReplyKeysAwaited,
         NEW k \in HeldKeys, NEW c \in Context,
         k.obj = c, k.gen = generation'[c], k.brand.hi, k.brand.n = expected'[c]
  PROVE  \/ state'[c] = "receiving" /\ \A g \in Gate : c \notin Linked(receivers'[g])
         \/ /\ phase' = "receive" /\ rx' = c /\ src'.obj = c /\ src'.gen = generation'[c]
            /\ src'.brand = k.brand
<1>1. k \in Key /\ c \in Object
  BY HeldKeysType DEF Object
<1>2. expected'[c] = expected[c] /\ expected[c] \in Nat
  <2>1. k.brand.n <= expected[c]
    BY DEF HeldReplyKeysAwaited, BrandsExpected
  <2>. QED  BY <2>1, BrandsGrow
<1>3. generation'[c] = generation[c]
  <2>1. k.gen <= generation[c]
    BY DEF KeysOfTheTime
  <2>. QED  BY <1>1, <2>1, GenerationsGrow
<1>4. Get(k) = c /\ k.brand = ReplyBrand(c)
  BY <1>1, <1>2, <1>3 DEF Get, ReplyBrand, Key, Brand
<1>5. CASE AwaitingReply(c)
  BY <1>2, <1>5, NextWait DEF WaitKept, AwaitingReply
<1>6. CASE OnItsWay(k)
  <2>1. /\ phase = "receive" /\ rx = c /\ Get(src) = rx /\ src.brand = ReplyBrand(rx)
        /\ src.brand = k.brand
    BY <1>4, <1>6 DEF OnItsWay
  <2>2. src.obj = c /\ src.gen = generation[c]
    BY <2>1, KernelAssumption DEF Get
  <2>. QED  BY <1>3, <2>1, <2>2, OnItsWayThenWaits
<1>. QED  BY <1>4, <1>5, <1>6 DEF HeldReplyKeysAwaited, AwaitedReply

\* No step leaves a reply key that a Context expects but does not await: each
\* end of a wait advances the expected brand, each new key is on its way.
LEMMA NextReplyKeysAwaited ==
  ASSUME Unforged, Inv, Inv', KeysOfTheTime, HeldReplyKeysAwaited, [Next]_vars
  PROVE  HeldReplyKeysAwaited'
<1>0. HeldKeys' \subseteq Key
  BY DEF Inv, Data, Handler, HeldKeys, Job, Reply
<1>1. ASSUME NEW k \in HeldKeys', k.obj \in Context, k.brand.hi
      PROVE  k.brand.n <= expected'[k.obj]
  <2>1. /\ expected[k.obj] \in Nat
        /\ expected'[k.obj] \in {expected[k.obj], expected[k.obj] + 1}
        /\ k.brand.n \in Nat
    BY <1>0, <1>1, BrandsGrow DEF Key, Brand
  <2>2. CASE k \in HeldKeys
    BY <1>1, <2>1, <2>2 DEF HeldReplyKeysAwaited, BrandsExpected
  <2>3. CASE Made(k)
    <3>1. k.brand.n = expected[k.obj]
      BY <1>1, <2>3, MadeReplyKeys DEF ReplyKey, MakeKey, ReplyBrand
    <3>. QED  BY <2>1, <3>1
  <2>. QED  BY <1>1, <2>2, <2>3, NextFlow DEF KeysFlow, KeptOrMade
<1>2. ASSUME NEW k \in HeldKeys', (Get(k) \in Context)', (k.brand = ReplyBrand(Get(k)))'
      PROVE  (AwaitingReply(Get(k)) \/ OnItsWay(k))'
  <2>1. /\ k.obj \in Context /\ k.gen = generation'[k.obj]
        /\ Get(k)' = k.obj
        /\ k.brand.hi /\ k.brand.n = expected'[k.obj]
    BY <1>2, KernelAssumption DEF Get, ReplyBrand
  <2>2. CASE k \in HeldKeys
    <3>1. \/ state'[k.obj] = "receiving" /\ \A g \in Gate : k.obj \notin Linked(receivers'[g])
          \/ /\ phase' = "receive" /\ rx' = k.obj /\ src'.obj = k.obj
             /\ src'.gen = generation'[k.obj] /\ src'.brand = k.brand
      BY <2>1, <2>2, KeptStaysAwaited
    <3>. QED  BY <2>1, <3>1 DEF AwaitingReply, OnItsWay, Get
  <2>3. CASE Made(k)
    BY <2>1, <2>3, MadeReplyKeys DEF OnItsWay
  <2>. QED  BY <1>2, <2>2, <2>3, NextFlow DEF KeysFlow, KeptOrMade
<1>. QED  BY <1>1, <1>2 DEF HeldReplyKeysAwaited, BrandsExpected, AwaitedReply

\* No reply keys are handed out at the start.
LEMMA InitReplyKeysAwaited == Init => HeldReplyKeysAwaited
<1>. SUFFICES ASSUME Init, NEW k \in HeldKeys, k.obj \in Context  PROVE  ~ k.brand.hi
  <2>1. \A k \in HeldKeys : Get(k) \in Context => k.obj \in Context
    BY KernelAssumption DEF Get
  <2>. QED  BY <2>1 DEF HeldReplyKeysAwaited, BrandsExpected, AwaitedReply, ReplyBrand
<1>1. \A c \in Context, r \in Reg : InitKeys[c][r].obj \in Context => ~ InitKeys[c][r].brand.hi
  <2>. TAKE c \in Context, r \in Reg
  <2>1. InitKeys[c][r] \in Range(InitKeys[c])
    BY InitAssumption DEF Range
  <2>. QED  BY <2>1, InitAssumption
<1>2. \A i \in Interrupt : InitTarget[i].obj \in Context => ~ InitTarget[i].brand.hi
  <2>. TAKE i \in Interrupt
  <2>1. InitTarget[i] \in Range(InitTarget)
    BY InitAssumption DEF Range
  <2>. QED  BY <2>1, InitAssumption
<1>3. ~ NoBrand.hi
  BY DEF NoBrand
<1>. QED  BY <1>1, <1>2, <1>3 DEF Init, HeldKeys, NoJob, NoReply, NullKey

\* While programs mint no reply brands: whoever holds the reply key that a
\* Context expects, in a register, as the target of an Interrupt or in a pending
\* reply, the Context waits for it or is about to.
THEOREM ReplyKeysAlwaysAwaited == ASSUME Unforged PROVE Spec => []ReplyKeysAwaited
<1>1. Inv /\ Inv' /\ KeysOfTheTime /\ HeldReplyKeysAwaited /\ [Next]_vars => HeldReplyKeysAwaited'
  BY NextReplyKeysAwaited
<1>2. Inv /\ HeldReplyKeysAwaited => ReplyKeysAwaited
  BY LiveKeysHeld DEF Inv, HeldReplyKeysAwaited, AwaitedReply, OnItsWay, ReplyKeysAwaited
<1>. QED
  BY <1>1, <1>2, SpecInv, InitKeysOfTheTime, NextKeysOfTheTime, InitReplyKeysAwaited, PTL DEF Spec

-----------------------------------------------------------------------------
(* Interrupts that have lost their entry in the redirection table *)

\* Nothing reaches an invalidated Interrupt and nothing is left of it.
Gone(i) ==
  /\ i \in Revocable
  /\ ~ enabled[i]
  /\ ~ WaitsToSend(i)
  /\ job.obj # i
  /\ \A k \in HeldKeys : Get(k) # i

Retired == \A i \in Interrupt : ~ redirected[i] => Gone(i)

\* Only an Interrupt in the redirection table joins a queue.
LEMMA QueuedIsRedirected ==
  ASSUME Inv, Inv', [Next]_vars, NEW i \in Interrupt, WaitsToSend(i)'
  PROVE  WaitsToSend(i) \/ redirected[i]
<1>0. PICK g \in Gate : i \in Linked(senders'[g])
  BY DEF WaitsToSend
<1>1. /\ senders \in [Gate -> List(Sender)]
      /\ \A c \in Context : SenderPriority(c) \in Prio
      /\ \A j \in Interrupt : SenderPriority(j) \in Prio
  <2>1. SenderLevels \in [Context \cup Interrupt -> Prio]
    BY LevelFacts DEF Inv
  <2>. QED  BY <2>1 DEF Inv, Queues, Sender, SenderLevels
<1>2. CASE NobodyQueues \/ ReceiverQueues
  BY <1>0, <1>2 DEF NobodyQueues, ReceiverQueues, WaitsToSend
<1>3. ASSUME NEW d \in Descriptor, BlockInSend(d)
      PROVE  WaitsToSend(i)
  <2>1. PICK h \in Gate : senders' = [senders EXCEPT ![h] =
                                        Insert(@, current, SenderPriority(current))]
    BY <1>3 DEF BlockInSend
  <2>2. current \in Context /\ current # i
    BY KernelAssumption DEF Inv, Data
  <2>3. Linked(Insert(senders[h], current, SenderPriority(current)))
          = Linked(senders[h]) \cup {current}
    <3>1. /\ senders[h] \in List(Sender) /\ current \in Sender
          /\ SenderPriority(current) \in Prio
      BY <1>1, <2>2 DEF Sender
    <3>. QED  BY <3>1, InsertList
  <2>4. Linked(senders'[g]) \subseteq Linked(senders[g]) \cup {current}
    BY <1>1, <2>1, <2>3
  <2>. QED  BY <1>0, <2>2, <2>4 DEF WaitsToSend
<1>4. ASSUME NEW j \in Interrupt, IrqBlocks(j)
      PROVE  WaitsToSend(i) \/ redirected[i]
  <2>1. PICK h \in Gate : senders' = [senders EXCEPT ![h] = Insert(@, j, SenderPriority(j))]
    BY <1>4 DEF IrqBlocks
  <2>2. Linked(Insert(senders[h], j, SenderPriority(j))) = Linked(senders[h]) \cup {j}
    BY <1>1, InsertList DEF Sender
  <2>3. redirected[j]
    BY <1>4 DEF IrqBlocks, Triggered
  <2>. QED  BY <1>0, <1>1, <2>1, <2>2, <2>3 DEF WaitsToSend
<1>5. CASE SystemCall
  BY <1>2, <1>3, <1>5, SystemCallQueues
<1>6. CASE ReceiveStep \/ ServeStep \/ ReplyStep
  BY <1>2, <1>6, ReceiveStepQueues, ServeStepQueues, ReplyStepQueues
<1>7. CASE DoDeferredSwitch \/ DoDeferredSwitchFromIrq \/ SwitchAfterInterrupt \/ UNCHANGED vars
  BY <1>2, <1>7 DEF DoDeferredSwitch, DoDeferredSwitchFromIrq, SwitchAfterInterrupt, vars,
                    NobodyQueues, gateVars
<1>8. ASSUME NEW j \in Interrupt, DeviceRaises(j) \/ Irq(j)
      PROVE  WaitsToSend(i) \/ redirected[i]
  BY <1>2, <1>4, <1>8, IrqQueues
<1>. QED  BY <1>5, <1>6, <1>7, <1>8 DEF Next, KernelStep

\* An entry of the table is lost only by invalidation.
LEMMA NextRedirected ==
  ASSUME Inv, [Next]_vars
  PROVE  \/ UNCHANGED redirected
         \/ \E i \in Interrupt : InvalidateInterrupt(i)
<1>1. CASE SystemCall
  BY <1>1 DEF SystemCall, BeginReceive, BeginNothing, SendReply, SendToService, SendToReceiver,
              BlockInSend, RefuseToBlock, CopyKey, irqVars
<1>2. CASE ReceiveStep
  BY <1>2 DEF ReceiveStep, ReceiveReply, ReceiveRefused, ReceiveFromContext,
              ReceiveFromInterrupt, BlockInReceive, irqVars
<1>3. CASE ServeStep
  BY <1>3 DEF ServeStep, ServeWithoutEffect, WriteRegister, ReadKeyRegister,
         WriteKeyRegister, InterruptSending, InterruptReceiving, StartStopped, SetPriority,
         InvalidateContext, InvalidatePlain, MakeClientKey, MintKey, SetTarget, Enable, irqVars
<1>4. CASE ReplyStep \/ \E i \in Interrupt : DeviceRaises(i) \/ Irq(i)
  BY <1>4 DEF ReplyStep, SendKernelReply, DropKernelReply, PanicInKernelReply, DeviceRaises,
       Irq, IrqWithoutObject, IrqCoalesced, IrqDelivered, IrqBlocks, IrqRetargets, IrqDropped,
       PanicInIrq, Triggered, irqVars
<1>5. CASE DoDeferredSwitch \/ DoDeferredSwitchFromIrq \/ SwitchAfterInterrupt \/ UNCHANGED vars
  BY <1>5 DEF DoDeferredSwitch, DoDeferredSwitchFromIrq, SwitchAfterInterrupt, vars, irqVars
<1>. QED  BY <1>1, <1>2, <1>3, <1>4, <1>5 DEF Next, KernelStep

\* An Interrupt is enabled only by a message to it.
LEMMA NextEnabled ==
  ASSUME Inv, [Next]_vars, NEW i \in Interrupt, enabled'[i], ~ enabled[i]
  PROVE  Enable(i)
<1>0. enabled \in [Interrupt -> BOOLEAN]
  BY DEF Inv, Data
<1>1. CASE SystemCall
  BY <1>1 DEF SystemCall, BeginReceive, BeginNothing, SendReply, SendToService, SendToReceiver,
              BlockInSend, RefuseToBlock, CopyKey, irqVars
<1>2. CASE ReceiveStep
  BY <1>2 DEF ReceiveStep, ReceiveReply, ReceiveRefused, ReceiveFromContext,
              ReceiveFromInterrupt, BlockInReceive, irqVars
<1>3. CASE ServeStep
  <2>1. \/ UNCHANGED enabled
        \/ \E j \in Interrupt : InvalidateInterrupt(j) \/ Enable(j)
    BY <1>3 DEF ServeStep, ServeWithoutEffect, WriteRegister, ReadKeyRegister,
         WriteKeyRegister, InterruptSending, InterruptReceiving, StartStopped, SetPriority,
         InvalidateContext, InvalidatePlain, MakeClientKey, MintKey, SetTarget, irqVars
  <2>2. ASSUME NEW j \in Interrupt, InvalidateInterrupt(j)  PROVE FALSE
    BY <1>0, <2>2 DEF InvalidateInterrupt
  <2>3. ASSUME NEW j \in Interrupt, Enable(j), j # i  PROVE FALSE
    BY <1>0, <2>3 DEF Enable
  <2>. QED  BY <2>1, <2>2, <2>3
<1>4. CASE ReplyStep
  BY <1>4 DEF ReplyStep, SendKernelReply, DropKernelReply, PanicInKernelReply, irqVars
<1>5. ASSUME NEW j \in Interrupt, DeviceRaises(j) \/ Irq(j)
      PROVE  FALSE
  <2>1. UNCHANGED enabled \/ enabled' = [enabled EXCEPT ![j] = FALSE]
    BY <1>5 DEF DeviceRaises, Irq, IrqWithoutObject, IrqCoalesced, IrqDelivered, IrqBlocks,
         IrqRetargets, IrqDropped, PanicInIrq, Triggered
  <2>. QED  BY <1>0, <2>1
<1>6. CASE DoDeferredSwitch \/ DoDeferredSwitchFromIrq \/ SwitchAfterInterrupt \/ UNCHANGED vars
  BY <1>6 DEF DoDeferredSwitch, DoDeferredSwitchFromIrq, SwitchAfterInterrupt, vars, irqVars
<1>. QED  BY <1>1, <1>2, <1>3, <1>4, <1>5, <1>6 DEF Next, KernelStep

\* A handler works on the message it had, or on one that came through a held
\* key.
LEMMA NextJob ==
  ASSUME Inv, [Next]_vars
  PROVE  job'.obj \in {job.obj, NullObject} \/ \E k \in HeldKeys : job'.obj = Get(k)
<1>1. CASE SystemCall
  <2>1. ASSUME NEW d \in Descriptor, SendToService(d)
        PROVE  \E k \in HeldKeys : job'.obj = Get(k)
    <3>1. job'.obj = Get(TargetKey(d))
      <4>1. PICK j : ReceivePhase(current, d, j) /\ j.obj = Get(TargetKey(d))
        BY <2>1 DEF SendToService
      <4>. QED  BY <4>1 DEF ReceivePhase
    <3>2. TargetKey(d) \in HeldKeys
      <4>1. d.target \in Reg /\ current \in Context
        BY <2>1, BeginIpcFacts DEF SendToService, AnyDescriptor
      <4>. QED  BY <4>1 DEF TargetKey, HeldKeys
    <3>. QED  BY <3>1, <3>2
  <2>2. ASSUME NEW d \in Descriptor, SendReply(d) \/ SendToReceiver(d)
        PROVE  job' \in {job, NoJob}
    <3>1. UNCHANGED job \/ ReceivePhase(current, d, NoJob)
      BY <2>2 DEF SendReply, SendToReceiver
    <3>. QED  BY <3>1 DEF ReceivePhase
  <2>3. \/ \E d \in Descriptor : SendToService(d) \/ SendReply(d) \/ SendToReceiver(d)
        \/ UNCHANGED job
    BY <1>1 DEF SystemCall, BeginReceive, BeginNothing, BlockInSend, RefuseToBlock, CopyKey,
                handlerVars
  <2>. QED  BY <2>1, <2>2, <2>3 DEF NoJob
<1>2. CASE ReceiveStep
  BY <1>2 DEF ReceiveStep, ReceiveReply, ReceiveRefused, ReceiveFromContext,
              ReceiveFromInterrupt, BlockInReceive, ReceiveDone, ReceivePhase
<1>3. CASE ServeStep
  <2>1. \E k : Handled(k)
    BY <1>3 DEF ServeStep, ServeWithoutEffect, WriteRegister, ReadKeyRegister,
         WriteKeyRegister, InterruptSending, InterruptReceiving, StartStopped, SetPriority,
         InvalidateContext, InvalidatePlain, InvalidateInterrupt, MakeClientKey, MintKey,
         SetTarget, Enable
  <2>. QED  BY <2>1 DEF Handled, NoJob
<1>4. CASE ReplyStep \/ \E i \in Interrupt : DeviceRaises(i) \/ Irq(i)
  BY <1>4 DEF ReplyStep, SendKernelReply, DropKernelReply, PanicInKernelReply, DeviceRaises,
       Irq, IrqWithoutObject, IrqCoalesced, IrqDelivered, IrqBlocks, IrqRetargets, IrqDropped,
       PanicInIrq, handlerVars
<1>5. CASE DoDeferredSwitch \/ DoDeferredSwitchFromIrq \/ SwitchAfterInterrupt \/ UNCHANGED vars
  BY <1>5 DEF DoDeferredSwitch, DoDeferredSwitchFromIrq, SwitchAfterInterrupt, vars, handlerVars
<1>. QED  BY <1>1, <1>2, <1>3, <1>4, <1>5 DEF Next, KernelStep

\* An Interrupt that is gone stays gone: nobody can send to it or mint its key.
LEMMA NextRetired ==
  ASSUME SafeConfiguration, Inv, Inv', KeysOfTheTime, Retired, [Next]_vars
  PROVE  Retired'
<1>. SUFFICES ASSUME NEW i \in Interrupt, ~ redirected'[i]  PROVE  Gone(i)'
  BY DEF Retired
<1>0. i \in Object \ {NullObject}
  BY KernelAssumption DEF Object
<1>1. CASE redirected[i]
  <2>1. PICK j \in Interrupt : InvalidateInterrupt(j)
    BY <1>1, NextRedirected
  <2>2. j = i
    BY <1>1, <2>1 DEF InvalidateInterrupt, Inv, Data
  <2>3. i \in Revocable /\ ~ enabled'[i] /\ generation'[i] # generation[i]
    BY <1>0, <2>1, <2>2 DEF InvalidateInterrupt, Invalidated, Inv, Data
  <2>4. job'.obj # i
    BY <1>0, <2>1 DEF InvalidateInterrupt, Handled, NoJob
  <2>5. \A g \in Gate : i \notin Linked(senders'[g])
    <3>1. senders' = [g \in Gate |-> Unlink(senders[g], i)]
      BY <2>1, <2>2 DEF InvalidateInterrupt
    <3>2. \A g \in Gate : senders[g] \in List(Sender) /\ NoDuplicates(senders[g])
      BY DEF Inv, Queues, SendersAgree, Orderly, Sender
    <3>3. \A g \in Gate : Linked(Unlink(senders[g], i)) = Linked(senders[g]) \ {i}
      BY <3>2, UnlinkList
    <3>. QED  BY <3>1, <3>3
  <2>6. \A k \in HeldKeys' : Get(k)' # i
    BY <1>0, <2>3, RevokedAtOnce
  <2>. QED  BY <2>3, <2>4, <2>5, <2>6 DEF Gone, WaitsToSend
<1>2. CASE ~ redirected[i]
  <2>1. Gone(i)
    BY <1>2 DEF Retired
  <2>2. ~ enabled'[i]
    BY <2>1, NextEnabled DEF Gone, Enable, Asks
  <2>3. ~ WaitsToSend(i)'
    BY <1>2, <2>1, QueuedIsRedirected DEF Gone
  <2>4. job'.obj # i
    BY <1>0, <2>1, NextJob DEF Gone
  <2>5. ASSUME NEW k \in HeldKeys', Get(k)' = i  PROVE  FALSE
    <3>1. k.obj = i /\ k.gen = generation'[i]
      BY <1>0, <2>5 DEF Get
    <3>2. CASE k \in HeldKeys
      <4>1. k.gen <= generation[i] /\ k.gen \in Nat
        BY <3>1, <3>2, HeldKeysType DEF KeysOfTheTime, Key
      <4>2. k.gen = generation[i]
        BY <1>0, <3>1, <4>1, GenerationsGrow
      <4>. QED  BY <2>1, <3>1, <3>2, <4>2 DEF Gone, Get
    <3>3. CASE Made(k)
      <4>1. NullObject # i /\ i \notin Gate /\ i \notin Context
        BY KernelAssumption
      <4>2. \A m \in Mintable : m.obj # i
        BY <2>1 DEF SafeConfiguration, Gone
      <4>. QED  BY <1>2, <2>1, <3>1, <3>3, <4>1, <4>2 DEF Made, MakeKey, ReplyKey, NullKey, Gone
    <3>. QED  BY <3>2, <3>3, NextFlow DEF KeysFlow, KeptOrMade
  <2>. QED  BY <2>1, <2>2, <2>3, <2>4, <2>5 DEF Gone
<1>. QED  BY <1>1, <1>2

-----------------------------------------------------------------------------
(* The idle Context is always ready *)

\* c is runnable and is not about to wait.
Ready(c) == state[c] = "runnable" /\ (phase = "receive" => rx # c)

\* How a Context stops being runnable.
LEMMA WhoStops ==
  ASSUME Inv, [Next]_vars, NEW c \in Context, state[c] = "runnable", state'[c] # "runnable"
  PROVE  \/ \E d \in Descriptor : BlockInSend(d) /\ current = c
         \/ phase = "receive" /\ rx = c
         \/ InvalidateContext(c)
<1>0. state \in [Context -> {"stopped", "runnable", "sending", "receiving"}]
  BY DEF Inv, Queues
<1>1. ASSUME NEW x, MakeRunnable(x)
      PROVE  FALSE
  BY <1>0, <1>1 DEF MakeRunnable
<1>2. CASE SystemCall
  <2>1. \/ UNCHANGED state
        \/ \E x : MakeRunnable(x)
        \/ \E d \in Descriptor : BlockInSend(d)
    BY <1>2 DEF SystemCall, BeginReceive, BeginNothing, SendReply, SendToService,
         SendToReceiver, RefuseToBlock, CopyKey, contextVars
  <2>2. ASSUME NEW d \in Descriptor, BlockInSend(d)
        PROVE  current = c
    BY <1>0, <2>2 DEF BlockInSend
  <2>. QED  BY <1>1, <2>1, <2>2
<1>3. CASE ReceiveStep
  <2>1. \/ UNCHANGED state
        \/ \E x : MakeRunnable(x)
        \/ phase = "receive" /\ state' = [state EXCEPT ![rx] = "receiving"]
    BY <1>3 DEF ReceiveStep, ReceiveReply, ReceiveRefused, ReceiveFromContext, ReceivesFrom,
         ReceiveFromInterrupt, BlockInReceive, BlockReceiver
  <2>. QED  BY <1>0, <1>1, <2>1
<1>4. CASE ServeStep
  <2>1. \/ UNCHANGED state
        \/ \E x : MakeRunnable(x)
        \/ \E x \in Context : InvalidateContext(x)
    BY <1>4 DEF ServeStep, ServeWithoutEffect, WriteRegister, ReadKeyRegister,
         WriteKeyRegister, InterruptSending, InterruptReceiving, StartStopped, SetPriority,
         InvalidatePlain, InvalidateInterrupt, MakeClientKey, MintKey, SetTarget, Enable,
         contextVars
  <2>2. ASSUME NEW x \in Context, InvalidateContext(x), x # c
        PROVE  FALSE
    BY <1>0, <2>2 DEF InvalidateContext
  <2>. QED  BY <1>1, <2>1, <2>2
<1>5. ASSUME NEW k, NEW ks, ReplyDelivered(k, ks) \/ GateDelivered(k, ks)
      PROVE  FALSE
  BY <1>1, <1>5 DEF ReplyDelivered, GateDelivered, CompleteBlockedReceive
<1>6. CASE ReplyStep
  BY <1>5, <1>6 DEF ReplyStep, SendKernelReply, DropKernelReply, PanicInKernelReply, contextVars
<1>7. ASSUME NEW i \in Interrupt, DeviceRaises(i) \/ Irq(i)
      PROVE  FALSE
  <2>1. ~ IrqDelivered(i)
    BY <1>5 DEF IrqDelivered
  <2>. QED  BY <1>7, <2>1 DEF DeviceRaises, Irq, IrqWithoutObject, IrqCoalesced, IrqBlocks,
              IrqRetargets, IrqDropped, PanicInIrq, contextVars
<1>8. CASE DoDeferredSwitch \/ DoDeferredSwitchFromIrq \/ SwitchAfterInterrupt \/ UNCHANGED vars
  BY <1>8 DEF DoDeferredSwitch, DoDeferredSwitchFromIrq, SwitchAfterInterrupt, vars, contextVars
<1>. QED  BY <1>2, <1>3, <1>4, <1>6, <1>7, <1>8 DEF Next, KernelStep

\* Who is in a receive phase: whoever was, a program that asked for one, or a
\* sender that was blocked.
LEMMA WhoReceives ==
  ASSUME Inv, [Next]_vars, phase' = "receive"
  PROVE  \/ phase = "receive" /\ rx' = rx
         \/ \E d \in Descriptor : BeginIpc(d) /\ d.recv /\ rx' = current
         \/ rx' \in Context /\ state[rx'] = "sending"
<1>1. CASE SystemCall
  <2>1. ASSUME NEW d \in Descriptor, NEW j, ReceivePhase(current, d, j)
        PROVE  d.recv /\ rx' = current
    BY <2>1 DEF ReceivePhase, Rest
  <2>2. ASSUME NEW d \in Descriptor,
               BeginReceive(d) \/ SendReply(d) \/ SendToService(d) \/ SendToReceiver(d)
        PROVE  BeginIpc(d) /\ d.recv /\ rx' = current
    <3>1. CASE BeginReceive(d)
      BY <3>1 DEF BeginReceive
    <3>2. CASE SendReply(d)
      <4>1. BeginIpc(d) /\ (ReceivePhase(current, d, NoJob) \/ phase' = "panic")
        BY <3>2 DEF SendReply, Panic
      <4>. QED  BY <2>1, <4>1
    <3>3. CASE SendToService(d)
      <4>1. BeginIpc(d) /\ \E j : ReceivePhase(current, d, j)
        BY <3>3 DEF SendToService
      <4>. QED  BY <2>1, <4>1
    <3>4. CASE SendToReceiver(d)
      <4>1. BeginIpc(d) /\ ReceivePhase(current, d, NoJob)
        BY <3>4 DEF SendToReceiver
      <4>. QED  BY <2>1, <4>1
    <3>. QED  BY <2>2, <3>1, <3>2, <3>3, <3>4
  <2>3. ASSUME NEW d \in Descriptor, BeginNothing(d) \/ BlockInSend(d) \/ RefuseToBlock(d)
        PROVE  FALSE
    BY <2>3 DEF BeginNothing, BlockInSend, RefuseToBlock
  <2>4. ASSUME NEW to \in Reg, NEW from \in Reg, CopyKey(to, from)
        PROVE  FALSE
    BY <2>4 DEF CopyKey, handlerVars
  <2>. QED  BY <1>1, <2>2, <2>3, <2>4 DEF SystemCall
<1>2. CASE ReceiveStep
  <2>1. ASSUME NEW g \in Gate, ReceiveFromContext(g)
        PROVE  rx' \in Context /\ state[rx'] = "sending"
    <3>. DEFINE s == Peek(senders[g])
    <3>1. s \in Context /\ ~ IsEmpty(senders[g]) /\ ReceivePhase(s, desc[s], job)
      BY <2>1 DEF ReceiveFromContext
    <3>2. state[s] = "sending"
      BY <3>1, FirstSender DEF Inv
    <3>. HIDE DEF s
    <3>. QED  BY <3>1, <3>2 DEF ReceivePhase, Rest
  <2>2. ReceiveDone => FALSE
    BY DEF ReceiveDone, Rest
  <2>. QED  BY <1>2, <2>1, <2>2 DEF ReceiveStep, ReceiveReply, ReceiveRefused,
              ReceiveFromInterrupt, BlockInReceive
<1>3. CASE ServeStep
  <2>1. \E k : Handled(k)
    BY <1>3 DEF ServeStep, ServeWithoutEffect, WriteRegister, ReadKeyRegister,
         WriteKeyRegister, InterruptSending, InterruptReceiving, StartStopped, SetPriority,
         InvalidateContext, InvalidatePlain, InvalidateInterrupt, MakeClientKey, MintKey,
         SetTarget, Enable
  <2>. QED  BY <2>1 DEF Handled
<1>4. CASE ReplyStep \/ \E i \in Interrupt : DeviceRaises(i) \/ Irq(i)
  BY <1>4 DEF ReplyStep, SendKernelReply, DropKernelReply, PanicInKernelReply, DeviceRaises,
       Irq, IrqWithoutObject, IrqCoalesced, IrqDelivered, IrqBlocks, IrqRetargets, IrqDropped,
       PanicInIrq, Panic, handlerVars
<1>5. CASE DoDeferredSwitch \/ DoDeferredSwitchFromIrq \/ SwitchAfterInterrupt \/ UNCHANGED vars
  BY <1>5 DEF DoDeferredSwitch, DoDeferredSwitchFromIrq, SwitchAfterInterrupt, SwitchNow, Panic,
       vars, handlerVars
<1>. QED  BY <1>1, <1>2, <1>3, <1>4, <1>5 DEF Next, KernelStep

\* A Context that nobody can invalidate and whose program never waits is always
\* ready.
LEMMA IdleStaysReady ==
  ASSUME Inv, [Next]_vars, NEW c \in Context, c \notin Revocable, Ready(c),
         \A d \in Program[c] : ~ d.recv /\ (d.send => ~ d.block)
  PROVE  Ready(c)'
<1>1. state'[c] = "runnable"
  BY WhoStops DEF Ready, BlockInSend, BeginIpc, InvalidateContext, Invalidated
<1>2. phase' = "receive" => rx' # c
  BY WhoReceives DEF Ready, BeginIpc
<1>. QED  BY <1>1, <1>2 DEF Ready

\* The four ways into PANIC: a held reply key that its Context expects but does
\* not await, an interrupt enabled without an entry in the redirection table,
\* and a switch with nobody to switch to.
LEMMA WhoPanics ==
  ASSUME Inv, [Next]_vars, phase # "panic", phase' = "panic"
  PROVE  \/ phase # "receive" /\ \E k \in HeldKeys : UnexpectedReply(k)
         \/ \E i \in Interrupt : enabled[i] /\ ~ redirected[i]
         \/ IsEmpty(runnable)
<1>1. CASE SystemCall
  <2>1. ASSUME NEW s, NEW d, NEW j, ReceivePhase(s, d, j)
        PROVE  FALSE
    BY <2>1 DEF ReceivePhase, Rest
  <2>2. ASSUME NEW d \in Descriptor, SendReply(d)
        PROVE  phase # "receive" /\ \E k \in HeldKeys : UnexpectedReply(k)
    <3>1. UnexpectedReply(TargetKey(d)) /\ BeginIpc(d)
      <4>1. /\ BeginIpc(d)
            /\ Get(TargetKey(d)) \in Context
            /\ TargetKey(d).brand = ReplyBrand(Get(TargetKey(d)))
            /\ ReceivePhase(current, d, NoJob) \/ ~ AwaitingReply(Get(TargetKey(d)))
        BY <2>2 DEF SendReply
      <4>. QED  BY <2>1, <4>1 DEF UnexpectedReply
    <3>2. TargetKey(d) \in HeldKeys
      <4>1. d.target \in Reg /\ current \in Context
        BY <3>1, BeginIpcFacts DEF AnyDescriptor
      <4>. QED  BY <4>1 DEF TargetKey, HeldKeys
    <3>. QED  BY <3>1, <3>2 DEF BeginIpc
  <2>3. ASSUME NEW d \in Descriptor, SendToService(d) \/ SendToReceiver(d)
        PROVE  FALSE
    <3>1. \E j : ReceivePhase(current, d, j)
      BY <2>3 DEF SendToService, SendToReceiver
    <3>. QED  BY <2>1, <3>1
  <2>4. ASSUME NEW d \in Descriptor,
               BeginReceive(d) \/ BeginNothing(d) \/ BlockInSend(d) \/ RefuseToBlock(d)
        PROVE  FALSE
    BY <2>4 DEF BeginReceive, BeginNothing, BlockInSend, RefuseToBlock
  <2>5. ASSUME NEW to \in Reg, NEW from \in Reg, CopyKey(to, from)
        PROVE  FALSE
    BY <2>5 DEF CopyKey, handlerVars
  <2>. QED  BY <1>1, <2>2, <2>3, <2>4, <2>5 DEF SystemCall
<1>2. CASE ReceiveStep
  BY <1>2 DEF ReceiveStep, ReceiveReply, ReceiveRefused, ReceiveFromContext, ReceivePhase,
       ReceiveFromInterrupt, BlockInReceive, ReceiveDone, Rest
<1>3. CASE ServeStep
  <2>1. \E k : Handled(k)
    BY <1>3 DEF ServeStep, ServeWithoutEffect, WriteRegister, ReadKeyRegister,
         WriteKeyRegister, InterruptSending, InterruptReceiving, StartStopped, SetPriority,
         InvalidateContext, InvalidatePlain, InvalidateInterrupt, MakeClientKey, MintKey,
         SetTarget, Enable
  <2>. QED  BY <2>1 DEF Handled
<1>4. CASE ReplyStep
  <2>1. phase = "reply" /\ UnexpectedReply(reply.to)
    BY <1>4 DEF ReplyStep, SendKernelReply, DropKernelReply, PanicInKernelReply
  <2>. QED  BY <2>1 DEF HeldKeys
<1>5. ASSUME NEW i \in Interrupt, DeviceRaises(i) \/ Irq(i)
      PROVE  \/ phase # "receive" /\ UnexpectedReply(irqTarget[i])
             \/ enabled[i] /\ ~ redirected[i]
  BY <1>5 DEF DeviceRaises, handlerVars, Irq, IrqWithoutObject, IrqCoalesced, IrqDelivered,
              IrqBlocks, IrqRetargets, IrqDropped, PanicInIrq, Triggered, Taken
<1>6. CASE DoDeferredSwitch \/ SwitchAfterInterrupt
  BY <1>6 DEF DoDeferredSwitch, SwitchAfterInterrupt, SwitchNow
<1>7. CASE DoDeferredSwitchFromIrq \/ UNCHANGED vars
  BY <1>7 DEF DoDeferredSwitchFromIrq, vars, handlerVars
<1>8. \A i \in Interrupt : irqTarget[i] \in HeldKeys
  BY DEF HeldKeys
<1>. QED  BY <1>1, <1>2, <1>3, <1>4, <1>5, <1>6, <1>7, <1>8 DEF Next, KernelStep

\* Nothing is lost at the start.
LEMMA InitRetired == Init => Retired
BY DEF Init, Retired

\* With every expected reply awaited, every enabled interrupt in the table and
\* somebody ready, no step panics.
LEMMA NextPanicsNot ==
  ASSUME Inv, HeldReplyKeysAwaited, Retired, NEW c \in Context, Ready(c), NoPanic, [Next]_vars
  PROVE  NoPanic'
<1>1. \A k \in HeldKeys : phase # "receive" => ~ UnexpectedReply(k)
  BY DEF HeldReplyKeysAwaited, AwaitedReply, OnItsWay, UnexpectedReply
<1>2. \A i \in Interrupt : enabled[i] => redirected[i]
  BY DEF Retired, Gone
<1>3. ~ IsEmpty(runnable)
  <2>1. c \in Linked(runnable) /\ runnable \in List(Context)
    BY DEF Ready, Inv, Queues, RunQueueAgrees
  <2>. QED  BY <2>1, EmptyIffNothingLinked
<1>. QED  BY <1>1, <1>2, <1>3, WhoPanics DEF NoPanic

\* In a configuration that mints no reply keys, mints no keys to Interrupts it
\* revokes, and keeps a Context that never waits, the kernel does not panic.
THEOREM KernelNeverPanics == ASSUME SafeConfiguration PROVE Spec => []NoPanic
<1>1. PICK idle \in Linked(InitRunnable) \ Revocable :
        \A d \in Program[idle] : ~ d.recv /\ (d.send => ~ d.block)
  BY DEF SafeConfiguration
<1>2. idle \in Context /\ idle \notin Revocable
  BY InitAssumption, LinkedSubset
<1>3. Unforged
  BY DEF SafeConfiguration
<1>4. Init => Ready(idle) /\ NoPanic
  BY <1>1, <1>2 DEF Init, Ready, NoPanic
<1>5. Inv /\ Inv' /\ KeysOfTheTime /\ HeldReplyKeysAwaited /\ [Next]_vars => HeldReplyKeysAwaited'
  BY <1>3, NextReplyKeysAwaited
<1>6. Inv /\ Inv' /\ KeysOfTheTime /\ Retired /\ [Next]_vars => Retired'
  BY NextRetired
<1>7. Inv /\ Ready(idle) /\ [Next]_vars => Ready(idle)'
  BY <1>1, <1>2, IdleStaysReady
<1>8. Inv /\ HeldReplyKeysAwaited /\ Retired /\ Ready(idle) /\ NoPanic /\ [Next]_vars => NoPanic'
  BY <1>2, NextPanicsNot
<1>. QED
  BY <1>4, <1>5, <1>6, <1>7, <1>8, SpecInv, InitKeysOfTheTime, NextKeysOfTheTime,
     InitReplyKeysAwaited, InitRetired, PTL DEF Spec
=============================================================================
