----------------------------- MODULE KernelProofs -----------------------------
(***************************************************************************)
(* Proofs that the kernel keeps its types and that the states of Contexts  *)
(* and the queues they are linked into agree, for every set of objects,    *)
(* programs and bounds.                                                    *)
(***************************************************************************)
EXTENDS KernelProperties, KernelQueueProofs

(***************************************************************************)
(* The inductive invariant is TypeOK and QueueInv.  It is regrouped by what *)
(* the steps disturb: the queues, the data that no queue depends on, and    *)
(* the point the handler has reached.                                       *)
(***************************************************************************)
Data ==
  /\ keys \in [Context -> [Reg -> Key]]
  /\ desc \in [Context -> AnyDescriptor]
  /\ expected \in [Context -> Nat]
  /\ current \in Context
  /\ switchPending \in BOOLEAN
  /\ pendsv \in BOOLEAN
  /\ generation \in [Object -> Nat]
  /\ irqTarget \in [Interrupt -> Key]
  /\ enabled \in [Interrupt -> BOOLEAN]
  /\ pending \in [Interrupt -> BOOLEAN]
  /\ redirected \in [Interrupt -> BOOLEAN]

Handler ==
  /\ phase \in {"user", "receive", "serve", "reply", "exit", "irqexit", "panic"}
  /\ rx \in Context \cup {NoContext}
  /\ src \in Key
  /\ job \in Job
  /\ reply \in Reply
  /\ phase = "receive" => rx \in Context

Inv == Queues /\ Data /\ Handler /\ ReceiverRuns /\ CurrentRuns

\* The regrouped invariant is TypeOK and QueueInv, no more and no less.
LEMMA InvIsTypeOKAndQueueInv == Inv <=> TypeOK /\ QueueInv
BY DEF Inv, Queues, Data, Handler, TypeOK, QueueInv

-----------------------------------------------------------------------------
(* The types of keys and messages *)

\* Key::null, and a handler without message or reply, are well formed.
LEMMA NullKeyType == NullKey \in Key /\ NoBrand \in Brand /\ NoJob \in Job /\ NoReply \in Reply
BY DEF NullKey, NoBrand, Key, Brand, Object, NoJob, Job, NoReply, Reply

\* Descriptor::zero is a descriptor.
LEMMA NoDescriptorType == NoDescriptor \in AnyDescriptor
<1>1. 0 \in Reg
  BY KernelAssumption DEF Reg
<1>. QED  BY <1>1 DEF NoDescriptor, AnyDescriptor

\* Object::make_key fills in a key.
LEMMA MakeKeyType ==
  ASSUME Data, NEW o \in Object, NEW b \in Brand
  PROVE  MakeKey(o, b) \in Key
BY DEF Data, MakeKey, Key

\* Key::get returns an object.
LEMMA GetType ==
  ASSUME NEW k \in Key
  PROVE  Get(k) \in Object
BY DEF Get, Key, Object

\* Context::make_reply_key fills in a key.
LEMMA ReplyKeyType ==
  ASSUME Data, NEW c \in Context
  PROVE  ReplyKey(c) \in Key
<1>1. ReplyBrand(c) \in Brand /\ c \in Object
  BY DEF Data, ReplyBrand, Brand, Object
<1>. QED  BY <1>1, MakeKeyType DEF ReplyKey

\* The keys a message carries, whoever sends it.
LEMMA OutgoingType ==
  ASSUME Data, NEW s \in Context, NEW d \in AnyDescriptor
  PROVE  Outgoing(s, d) \in [MsgKey -> Key]
<1>1. \A m \in MsgKey : keys[s][d.sent[m]] \in Key
  BY DEF Data, AnyDescriptor
<1>. QED  BY <1>1, ReplyKeyType DEF Outgoing

\* Interrupt::on_delivery sends keys.
LEMMA IrqKeysType ==
  ASSUME Data, NEW i \in Interrupt
  PROVE  IrqKeys(i) \in [MsgKey -> Key]
BY NullKeyType, MakeKeyType DEF IrqKeys, Object

\* ReplySender::on_delivery sends keys.
LEMMA ReplyKeysType ==
  ASSUME NEW k \in Key
  PROVE  ReplyKeys(k) \in [MsgKey -> Key]
BY NullKeyType DEF ReplyKeys

\* Storing received keys leaves keys in every register.
LEMMA StoredType ==
  ASSUME Data, NEW c \in Context, NEW ks \in [MsgKey -> Key]
  PROVE  Stored(c, ks) \in [Reg -> Key]
<1>1. ASSUME NEW r \in Reg
      PROVE  Stored(c, ks)[r] \in Key
  <2>1. CASE r # 0 /\ \E i \in MsgKey : LastInto(desc[c], r, i)
    <3>1. (CHOOSE i \in MsgKey : LastInto(desc[c], r, i)) \in MsgKey
      BY <2>1
    <3>. QED  BY <2>1, <3>1 DEF Stored
  <2>2. CASE ~ (r # 0 /\ \E i \in MsgKey : LastInto(desc[c], r, i))
    BY <2>2 DEF Stored, Data
  <2>. QED  BY <2>1, <2>2
<1>. QED  BY <1>1 DEF Stored

\* A system call happens in the current Context, which is runnable.
LEMMA BeginIpcFacts ==
  ASSUME Inv, NEW d, BeginIpc(d)
  PROVE  /\ d \in AnyDescriptor
         /\ current \in Context
         /\ phase = "user"
         /\ state[current] = "runnable"
         /\ TargetKey(d) \in Key
<1>1. d \in AnyDescriptor
  BY ProgramAssumption, KernelAssumption DEF BeginIpc, Inv, Data
<1>2. TargetKey(d) \in Key
  BY <1>1 DEF TargetKey, Inv, Data, AnyDescriptor
<1>. QED  BY <1>1, <1>2 DEF BeginIpc, Inv, Data, CurrentRuns

\* The sender of a message goes on to its receive phase, or the handler ends.
LEMMA ReceivePhaseFacts ==
  ASSUME Data, NEW s \in Context, NEW d \in AnyDescriptor, NEW j \in Job,
         ReceivePhase(s, d, j)
  PROVE  /\ phase' \in {"receive", "serve", "exit"}
         /\ phase' = "receive" => rx' = s
         /\ rx' \in Context \cup {NoContext}
         /\ src' \in Key
         /\ job' \in Job
<1>1. keys[s][d.source] \in Key
  BY DEF Data, AnyDescriptor
<1>. QED  BY <1>1, ReplyKeyType, NullKeyType DEF ReceivePhase, Rest

\* A receive phase that delivered or blocked ends with the handler's state well
\* formed.
LEMMA ReceiveDoneFacts ==
  ASSUME job \in Job, ReceiveDone
  PROVE  /\ phase' \in {"serve", "exit"}
         /\ rx' \in Context \cup {NoContext}
         /\ src' \in Key
         /\ job' \in Job
BY NullKeyType DEF ReceiveDone, Rest

\* The descriptors a system call leaves saved.
LEMMA SavedType ==
  ASSUME Data, NEW x \in Context, NEW c \in Context, NEW d \in AnyDescriptor
  PROVE  /\ [desc EXCEPT ![c] = IF d.recv THEN d ELSE NoDescriptor] \in [Context -> AnyDescriptor]
         /\ [desc EXCEPT ![c] = NoDescriptor] \in [Context -> AnyDescriptor]
         /\ [desc EXCEPT ![x] = NoDescriptor, ![c] = IF d.recv THEN d ELSE NoDescriptor]
              \in [Context -> AnyDescriptor]
BY NoDescriptorType DEF Data
-----------------------------------------------------------------------------
(* The initial states *)

\* The invariant holds when the initial program is given the processor.
LEMMA InitInv == Init => Inv
<1>. SUFFICES ASSUME Init PROVE Inv
  OBVIOUS
<1>1. Peek(InitRunnable) \in Linked(InitRunnable) /\ Peek(InitRunnable) \in Context
  BY InitAssumption, PeekList
<1>2. Linked(InitRunnable) \subseteq Context
  BY InitAssumption, LinkedSubset
<1>3. Queues
  <2>1. \A g \in Gate : /\ receivers[g] \in List(Context)
                        /\ Linked(receivers[g]) = {}
                        /\ Orderly(receivers[g], priority)
    BY EmptyOrderly DEF Init
  <2>2. \A g \in Gate : /\ senders[g] \in List(Sender)
                        /\ Linked(senders[g]) = {}
                        /\ Orderly(senders[g], SenderLevels)
    BY EmptyOrderly DEF Init
  <2>3. /\ state \in [Context -> {"stopped", "runnable", "sending", "receiving"}]
        /\ priority \in [Context -> Prio]
        /\ runnable \in List(Context)
        /\ RunQueueAgrees
    BY <1>2, InitAssumption DEF Init, RunQueueAgrees
  <2>4. ReceiversAgree
    BY <2>1 DEF ReceiversAgree
  <2>5. SendersAgree
    <3>1. \A c \in Context : state[c] # "sending"
      BY DEF Init
    <3>. QED  BY <2>2, <3>1 DEF SendersAgree
  <2>6. /\ receivers \in [Gate -> List(Context)]
        /\ senders \in [Gate -> List(Sender)]
    BY <2>1, <2>2 DEF Init
  <2>. QED  BY <2>3, <2>4, <2>5, <2>6 DEF Queues, Sender
<1>4. Data
  BY <1>1, InitAssumption, NoDescriptorType DEF Init, Data
<1>5. Handler
  BY NullKeyType DEF Init, Handler
<1>6. ReceiverRuns /\ CurrentRuns
  BY <1>1, <1>2 DEF Init, ReceiverRuns, CurrentRuns
<1>. QED  BY <1>3, <1>4, <1>5, <1>6 DEF Inv

-----------------------------------------------------------------------------
(* System calls *)

\* do_ipc without a send phase keeps the invariant.
LEMMA BeginReceiveInv ==
  ASSUME Inv, NEW d \in Descriptor, BeginReceive(d)
  PROVE  Inv'
<1>. USE BeginIpcFacts DEF BeginReceive
<1>1. Queues'
  BY QueuesUnchanged DEF Inv, queueVars, gateVars, schedVars
<1>2. Data'
  BY SavedType DEF Inv, Data, Save, schedVars, irqVars
<1>3. Handler'
  BY DEF Inv, Data, Handler, AnyDescriptor
<1>4. ReceiverRuns' /\ CurrentRuns'
  BY DEF ReceiverRuns, CurrentRuns, schedVars
<1>. QED  BY <1>1, <1>2, <1>3, <1>4 DEF Inv

\* do_ipc that neither sends nor receives, or is refused by a Gate.
LEMMA BeginNothingInv ==
  ASSUME Inv, NEW d \in Descriptor, BeginNothing(d) \/ RefuseToBlock(d)
  PROVE  Inv'
<1>1. /\ BeginIpc(d)
      /\ phase' = "exit"
      /\ UNCHANGED <<contextVars, schedVars, gateVars, generation, irqVars,
                     rx, src, job, reply, panicked>>
  BY DEF BeginNothing, RefuseToBlock
<1>2. Queues'
  BY <1>1, QueuesUnchanged DEF Inv, queueVars, gateVars, schedVars, contextVars
<1>3. Data'
  BY <1>1 DEF Inv, Data, contextVars, schedVars, irqVars
<1>4. Handler'
  BY <1>1 DEF Inv, Handler
<1>5. ReceiverRuns' /\ CurrentRuns'
  BY <1>1, BeginIpcFacts DEF ReceiverRuns, CurrentRuns, schedVars, contextVars
<1>. QED  BY <1>2, <1>3, <1>4, <1>5 DEF Inv

\* do_key_op keeps the invariant.
LEMMA CopyKeyInv ==
  ASSUME Inv, NEW to \in Reg, NEW from \in Reg, CopyKey(to, from)
  PROVE  Inv'
<1>. USE DEF CopyKey
<1>1. Queues'
  BY QueuesUnchanged DEF Inv, queueVars, gateVars, schedVars
<1>2. Data'
  BY DEF Inv, Data, schedVars, irqVars
<1>3. Handler'
  BY DEF Inv, Handler, handlerVars
<1>4. ReceiverRuns' /\ CurrentRuns'
  BY DEF Inv, ReceiverRuns, CurrentRuns, schedVars, handlerVars
<1>. QED  BY <1>1, <1>2, <1>3, <1>4 DEF Inv

\* Sending to a kernel object keeps the invariant.
LEMMA SendToServiceInv ==
  ASSUME Inv, NEW d \in Descriptor, SendToService(d)
  PROVE  Inv'
<1>. DEFINE k == TargetKey(d)
            j == [obj   |-> Get(k),
                  brand |-> IF Get(k) = NullObject THEN NoBrand ELSE k.brand,
                  k0    |-> Outgoing(current, d)[0],
                  k1    |-> Outgoing(current, d)[1]]
<1>1. ReceivePhase(current, d, j) /\ Save(d) /\ BeginIpc(d)
  BY DEF SendToService
<1>2. j \in Job
  <2>1. 0 \in MsgKey /\ 1 \in MsgKey
    BY KernelAssumption DEF MsgKey
  <2>2. Outgoing(current, d)[0] \in Key /\ Outgoing(current, d)[1] \in Key
    BY <1>1, <2>1, BeginIpcFacts, OutgoingType DEF Inv
  <2>3. Get(k) \in Object /\ k.brand \in Brand
    BY <1>1, BeginIpcFacts, GetType DEF Key
  <2>. QED  BY <2>2, <2>3, NullKeyType DEF Job
<1>. HIDE DEF j
<1>3. /\ phase' \in {"receive", "serve", "exit"}
      /\ phase' = "receive" => rx' = current
      /\ rx' \in Context \cup {NoContext}
      /\ src' \in Key
      /\ job' \in Job
  BY <1>1, <1>2, BeginIpcFacts, ReceivePhaseFacts DEF Inv
<1>4. Queues'
  BY QueuesUnchanged DEF SendToService, Inv, queueVars, gateVars, schedVars
<1>5. Data'
  BY <1>1, SavedType, BeginIpcFacts DEF SendToService, Inv, Data, Save, schedVars, irqVars
<1>6. Handler'
  BY <1>1, <1>3, BeginIpcFacts DEF SendToService, Inv, Handler
<1>7. ReceiverRuns' /\ CurrentRuns'
  BY <1>1, <1>3, BeginIpcFacts DEF SendToService, ReceiverRuns, CurrentRuns, schedVars
<1>. QED  BY <1>4, <1>5, <1>6, <1>7 DEF Inv

\* Context::deliver_from with a reply brand keeps the invariant: the Context
\* that waited is made runnable, or the kernel panics.
LEMMA SendReplyInv ==
  ASSUME Inv, NEW d \in Descriptor, SendReply(d)
  PROVE  Inv'
<1>. DEFINE x == Get(TargetKey(d))
<1>1. /\ BeginIpc(d)
      /\ x \in Context
      /\ AdvanceReplyBrand(x)
      /\ UNCHANGED <<priority, current, pendsv, gateVars, generation, irqVars, reply>>
  BY DEF SendReply
<1>2. expected' \in [Context -> Nat]
  BY <1>1 DEF Inv, Data, AdvanceReplyBrand
<1>3. CASE ~ AwaitingReply(x)
  <2>1. /\ phase' = "panic"
        /\ UNCHANGED <<runnable, state, switchPending, keys, desc, rx, src, job>>
    BY <1>3 DEF SendReply, Panic
  <2>2. Queues'
    BY <1>1, <2>1, QueuesUnchanged DEF Inv, queueVars, gateVars
  <2>3. Data'
    BY <1>1, <1>2, <2>1 DEF Inv, Data, irqVars
  <2>4. Handler' /\ ReceiverRuns' /\ CurrentRuns'
    BY <1>1, <2>1 DEF Inv, Handler, ReceiverRuns, CurrentRuns
  <2>. QED  BY <2>2, <2>3, <2>4 DEF Inv
<1>4. CASE AwaitingReply(x)
  <2>1. /\ MakeRunnable(x)
        /\ keys' = [keys EXCEPT ![x] = Stored(x, Outgoing(current, d))]
        /\ desc' = [desc EXCEPT ![x] = NoDescriptor,
                                ![current] = IF d.recv THEN d ELSE NoDescriptor]
        /\ ReceivePhase(current, d, NoJob)
    BY <1>4 DEF SendReply
  <2>. HIDE DEF x
  <2>2. /\ phase' \in {"receive", "serve", "exit"}
        /\ phase' = "receive" => rx' = current
        /\ rx' \in Context \cup {NoContext}
        /\ src' \in Key
        /\ job' \in Job
    BY <1>1, <2>1, NullKeyType, BeginIpcFacts, ReceivePhaseFacts DEF Inv
  <2>3. Queues'
    BY <1>1, <1>4, <2>1, WakeReceiver DEF Inv, gateVars, AwaitingReply
  <2>4. Data'
    <3>1. keys' \in [Context -> [Reg -> Key]]
      BY <1>1, <2>1, BeginIpcFacts, StoredType, OutgoingType DEF Inv, Data
    <3>2. desc' \in [Context -> AnyDescriptor]
      BY <1>1, <2>1, BeginIpcFacts, SavedType DEF Inv
    <3>. QED  BY <1>1, <1>2, <2>1, <3>1, <3>2 DEF Inv, Data, irqVars, MakeRunnable
  <2>5. Handler'
    BY <1>1, <2>2, BeginIpcFacts DEF Inv, Handler
  <2>6. ReceiverRuns' /\ CurrentRuns'
    BY <1>1, <2>1, <2>2, BeginIpcFacts DEF Inv, Queues, ReceiverRuns, CurrentRuns, MakeRunnable
  <2>. QED  BY <2>3, <2>4, <2>5, <2>6 DEF Inv
<1>. QED  BY <1>3, <1>4

\* The first item of a queue of senders or of receivers.
LEMMA FirstReceiver ==
  ASSUME Queues, NEW g \in Gate, ~ IsEmpty(receivers[g])
  PROVE  /\ Peek(receivers[g]) \in Context
         /\ Peek(receivers[g]) \in Linked(receivers[g])
         /\ state[Peek(receivers[g])] = "receiving"
<1>1. receivers[g] \in List(Context)
  BY DEF Queues
<1>2. Peek(receivers[g]) \in Linked(receivers[g]) /\ Peek(receivers[g]) \in Context
  BY <1>1, PeekList
<1>. QED  BY <1>2 DEF Queues, ReceiversAgree

\* The sender at the head of a Gate is one: it waits to send through that Gate.
LEMMA FirstSender ==
  ASSUME Queues, NEW g \in Gate, ~ IsEmpty(senders[g])
  PROVE  /\ Peek(senders[g]) \in Sender
         /\ Peek(senders[g]) \in Linked(senders[g])
         /\ Peek(senders[g]) \in Context => state[Peek(senders[g])] = "sending"
<1>1. senders[g] \in List(Sender)
  BY DEF Queues, Sender
<1>2. Peek(senders[g]) \in Linked(senders[g]) /\ Peek(senders[g]) \in Sender
  BY <1>1, PeekList
<1>. QED  BY <1>2 DEF Queues, SendersAgree

\* Gate::deliver_from with a receiver waiting keeps the invariant.
LEMMA SendToReceiverInv ==
  ASSUME Inv, NEW d \in Descriptor, SendToReceiver(d)
  PROVE  Inv'
<1>. DEFINE g == Get(TargetKey(d))
            r == Peek(receivers[g])
<1>1. /\ BeginIpc(d)
      /\ g \in Gate
      /\ ~ IsEmpty(receivers[g])
      /\ receivers' = [receivers EXCEPT ![g] = Unlink(@, r)]
      /\ MakeRunnable(r)
      /\ keys' = [keys EXCEPT ![r] = Stored(r, Outgoing(current, d))]
      /\ desc' = [desc EXCEPT ![r] = NoDescriptor,
                              ![current] = IF d.recv THEN d ELSE NoDescriptor]
      /\ ReceivePhase(current, d, NoJob)
      /\ UNCHANGED <<priority, expected, current, pendsv, senders, generation,
                     irqVars, reply, panicked>>
  BY DEF SendToReceiver
<1>. HIDE DEF g
<1>2. r \in Context /\ r \in Linked(receivers[g]) /\ state[r] = "receiving"
  BY <1>1, FirstReceiver DEF Inv
<1>. HIDE DEF r
<1>3. /\ phase' \in {"receive", "serve", "exit"}
      /\ phase' = "receive" => rx' = current
      /\ rx' \in Context \cup {NoContext}
      /\ src' \in Key
      /\ job' \in Job
  BY <1>1, NullKeyType, BeginIpcFacts, ReceivePhaseFacts DEF Inv
<1>4. Queues'
  BY <1>1, <1>2, WakeReceiver DEF Inv
<1>5. Data'
  <2>1. keys' \in [Context -> [Reg -> Key]]
    BY <1>1, <1>2, BeginIpcFacts, StoredType, OutgoingType DEF Inv, Data
  <2>2. desc' \in [Context -> AnyDescriptor]
    BY <1>1, <1>2, BeginIpcFacts, SavedType DEF Inv
  <2>. QED  BY <1>1, <2>1, <2>2 DEF Inv, Data, irqVars, MakeRunnable
<1>6. Handler'
  BY <1>1, <1>3, BeginIpcFacts DEF Inv, Handler
<1>7. ReceiverRuns' /\ CurrentRuns'
  BY <1>1, <1>2, <1>3, BeginIpcFacts DEF Inv, Queues, ReceiverRuns, CurrentRuns, MakeRunnable
<1>. QED  BY <1>4, <1>5, <1>6, <1>7 DEF Inv

\* Context::block_in_send keeps the invariant.
LEMMA BlockInSendInv ==
  ASSUME Inv, NEW d \in Descriptor, BlockInSend(d)
  PROVE  Inv'
<1>. DEFINE g == Get(TargetKey(d))
<1>1. /\ BeginIpc(d)
      /\ g \in Gate
      /\ senders' = [senders EXCEPT ![g] = Insert(@, current, SenderPriority(current))]
      /\ runnable' = Unlink(runnable, current)
      /\ state' = [state EXCEPT ![current] = "sending"]
      /\ switchPending' = TRUE
      /\ desc' = [desc EXCEPT ![current] = d]
      /\ phase' = "exit"
      /\ UNCHANGED <<priority, keys, expected, current, pendsv, receivers,
                     generation, irqVars, rx, src, job, reply, panicked>>
  BY DEF BlockInSend
<1>. HIDE DEF g
<1>2. Queues'
  BY <1>1, BeginIpcFacts, SenderBlocks DEF Inv
<1>3. Data'
  BY <1>1, BeginIpcFacts DEF Inv, Data, irqVars
<1>4. Handler'
  BY <1>1 DEF Inv, Handler
<1>5. ReceiverRuns' /\ CurrentRuns'
  BY <1>1 DEF ReceiverRuns, CurrentRuns
<1>. QED  BY <1>2, <1>3, <1>4, <1>5 DEF Inv

\* Every system call keeps the invariant.
LEMMA SystemCallInv ==
  ASSUME Inv, SystemCall
  PROVE  Inv'
BY BeginReceiveInv, BeginNothingInv, SendReplyInv, SendToServiceInv,
   SendToReceiverInv, BlockInSendInv, CopyKeyInv DEF SystemCall

-----------------------------------------------------------------------------
(* The receive phase *)

\* Context::deliver_to and Gate::deliver_to with nobody waiting to send.
LEMMA BlockReceiveInv ==
  ASSUME Inv, ReceiveReply \/ \E g \in Gate : BlockInReceive(g)
  PROVE  Inv'
<1>1. /\ phase = "receive"
      /\ BlockReceiver(rx)
      /\ ReceiveDone
      /\ \/ UNCHANGED receivers
         \/ \E g \in Gate : receivers' = [receivers EXCEPT ![g] = Insert(@, rx, priority[rx])]
      /\ UNCHANGED <<priority, keys, desc, expected, current, pendsv, senders,
                     generation, irqVars, reply, panicked>>
  BY DEF ReceiveReply, BlockInReceive, ReceivesFrom, gateVars
<1>2. rx \in Context /\ state[rx] = "runnable"
  BY <1>1 DEF Inv, Handler, ReceiverRuns
<1>3. Queues'
  BY <1>1, <1>2, ReceiverBlocks DEF Inv
<1>4. Data'
  BY <1>1 DEF Inv, Data, irqVars, BlockReceiver
<1>5. /\ phase' \in {"serve", "exit"}
      /\ rx' \in Context \cup {NoContext}
      /\ src' \in Key
      /\ job' \in Job
  BY <1>1, ReceiveDoneFacts DEF Inv, Handler
<1>6. Handler'
  BY <1>1, <1>5 DEF Inv, Handler
<1>7. ReceiverRuns' /\ CurrentRuns'
  BY <1>1, <1>5 DEF ReceiverRuns, CurrentRuns, BlockReceiver
<1>. QED  BY <1>3, <1>4, <1>6, <1>7 DEF Inv

\* Object::deliver_to, which fails the receive phase, keeps the invariant.
LEMMA ReceiveRefusedInv ==
  ASSUME Inv, ReceiveRefused
  PROVE  Inv'
<1>1. /\ phase = "receive"
      /\ desc' = [desc EXCEPT ![rx] = NoDescriptor]
      /\ ReceiveDone
      /\ UNCHANGED <<state, priority, keys, expected, schedVars, gateVars,
                     generation, irqVars, reply, panicked>>
  BY DEF ReceiveRefused
<1>2. /\ phase' \in {"serve", "exit"}
      /\ rx' \in Context \cup {NoContext}
      /\ src' \in Key
      /\ job' \in Job
  BY <1>1, ReceiveDoneFacts DEF Inv, Handler
<1>3. Queues'
  BY <1>1, QueuesUnchanged DEF Inv, queueVars, gateVars, schedVars
<1>4. Data'
  BY <1>1, NoDescriptorType DEF Inv, Data, schedVars, irqVars
<1>5. Handler'
  BY <1>1, <1>2 DEF Inv, Handler
<1>6. ReceiverRuns' /\ CurrentRuns'
  BY <1>1, <1>2 DEF Inv, ReceiverRuns, CurrentRuns, schedVars
<1>. QED  BY <1>3, <1>4, <1>5, <1>6 DEF Inv

\* Gate::deliver_to with a Context waiting to send keeps the invariant.
LEMMA ReceiveFromContextInv ==
  ASSUME Inv, NEW g \in Gate, ReceiveFromContext(g)
  PROVE  Inv'
<1>. DEFINE s == Peek(senders[g])
<1>1. /\ phase = "receive"
      /\ ~ IsEmpty(senders[g])
      /\ s \in Context
      /\ senders' = [senders EXCEPT ![g] = Unlink(@, s)]
      /\ MakeRunnable(s)
      /\ keys' = [keys EXCEPT ![rx] = Stored(rx, Outgoing(s, desc[s]))]
      /\ desc' = [desc EXCEPT ![rx] = NoDescriptor,
                              ![s] = IF @.recv THEN @ ELSE NoDescriptor]
      /\ ReceivePhase(s, desc[s], job)
      /\ UNCHANGED <<priority, expected, current, pendsv, receivers, generation,
                     irqVars, reply, panicked>>
  BY DEF ReceiveFromContext, ReceivesFrom
<1>2. s \in Linked(senders[g]) /\ state[s] = "sending"
  BY <1>1, FirstSender DEF Inv
<1>. HIDE DEF s
<1>3. rx \in Context /\ desc[s] \in AnyDescriptor
  BY <1>1 DEF Inv, Data, Handler
<1>4. /\ phase' \in {"receive", "serve", "exit"}
      /\ phase' = "receive" => rx' = s
      /\ rx' \in Context \cup {NoContext}
      /\ src' \in Key
      /\ job' \in Job
  BY <1>1, <1>3, ReceivePhaseFacts DEF Inv, Handler
<1>5. Queues'
  BY <1>1, <1>2, WakeSender DEF Inv
<1>6. Data'
  <2>1. keys' \in [Context -> [Reg -> Key]]
    BY <1>1, <1>3, StoredType, OutgoingType DEF Inv, Data
  <2>2. desc' \in [Context -> AnyDescriptor]
    BY <1>1, <1>3, NoDescriptorType DEF Inv, Data
  <2>. QED  BY <1>1, <2>1, <2>2 DEF Inv, Data, irqVars, MakeRunnable
<1>7. Handler'
  BY <1>1, <1>4 DEF Inv, Handler
<1>8. ReceiverRuns' /\ CurrentRuns'
  BY <1>1, <1>4 DEF Inv, Queues, ReceiverRuns, CurrentRuns, MakeRunnable
<1>. QED  BY <1>5, <1>6, <1>7, <1>8 DEF Inv

\* A sender leaves the one queue that holds it.
LEMMA SenderLeaves ==
  ASSUME Queues, NEW g \in Gate, NEW s \in Linked(senders[g])
  PROVE  [senders EXCEPT ![g] = Unlink(@, s)] = UnlinkAll(senders, s)
<1>1. /\ senders \in [Gate -> List(Sender)]
      /\ \A h \in Gate \ {g} : s \notin Linked(senders[h])
  BY DEF Queues, SendersAgree, Sender
<1>. QED  BY <1>1, UnlinkOne

\* Gate::deliver_to with an Interrupt waiting to send keeps the invariant.
LEMMA ReceiveFromInterruptInv ==
  ASSUME Inv, NEW g \in Gate, ReceiveFromInterrupt(g)
  PROVE  Inv'
<1>. DEFINE i == Peek(senders[g])
<1>1. /\ phase = "receive"
      /\ ~ IsEmpty(senders[g])
      /\ i \in Interrupt
      /\ senders' = [senders EXCEPT ![g] = Unlink(@, i)]
      /\ Receives(rx, IrqKeys(i))
      /\ ReceiveDone
      /\ UNCHANGED <<state, priority, expected, schedVars, receivers, generation,
                     irqVars, reply, panicked>>
  BY DEF ReceiveFromInterrupt, ReceivesFrom
<1>2. i \in Linked(senders[g])
  BY <1>1, FirstSender DEF Inv
<1>. HIDE DEF i
<1>3. rx \in Context
  BY <1>1 DEF Inv, Handler
<1>4. /\ phase' \in {"serve", "exit"}
      /\ rx' \in Context \cup {NoContext}
      /\ src' \in Key
      /\ job' \in Job
  BY <1>1, ReceiveDoneFacts DEF Inv, Handler
<1>5. Queues'
  <2>1. senders' = UnlinkAll(senders, i)
    BY <1>1, <1>2, SenderLeaves DEF Inv
  <2>. QED  BY <1>1, <2>1, InterruptMoves DEF Inv, schedVars
<1>6. Data'
  <2>1. keys' \in [Context -> [Reg -> Key]]
    BY <1>1, <1>3, StoredType, IrqKeysType DEF Inv, Data, Receives
  <2>2. desc' \in [Context -> AnyDescriptor]
    BY <1>1, NoDescriptorType DEF Inv, Data, Receives
  <2>. QED  BY <1>1, <2>1, <2>2 DEF Inv, Data, schedVars, irqVars
<1>7. Handler'
  BY <1>1, <1>4 DEF Inv, Handler
<1>8. ReceiverRuns' /\ CurrentRuns'
  BY <1>1, <1>4 DEF Inv, ReceiverRuns, CurrentRuns, schedVars
<1>. QED  BY <1>5, <1>6, <1>7, <1>8 DEF Inv

\* Every receive phase keeps the invariant.
LEMMA ReceiveStepInv ==
  ASSUME Inv, ReceiveStep
  PROVE  Inv'
BY BlockReceiveInv, ReceiveRefusedInv, ReceiveFromContextInv,
   ReceiveFromInterruptInv DEF ReceiveStep

-----------------------------------------------------------------------------
(* The handlers of kernel objects *)

\* A handler leaves its reply well formed for ~ScopedReplySender.
LEMMA HandledFacts ==
  ASSUME Inv, NEW k1 \in Key, Handled(k1)
  PROVE  phase' = "reply" /\ Handler' /\ ReceiverRuns'
<1>1. job.k0 \in Key
  BY DEF Inv, Handler, Job
<1>. QED  BY <1>1, NullKeyType DEF Inv, Handler, Handled, Reply, ReceiverRuns

\* Handlers that change no queue and no Context's state.
LEMMA QuietHandlerInv ==
  ASSUME Inv, NEW k1 \in Key, phase = "serve", Handled(k1),
         UNCHANGED <<state, priority, expected, schedVars, gateVars>>,
         Data'
  PROVE  Inv'
<1>1. Queues'
  BY QueuesUnchanged DEF Inv, queueVars, gateVars, schedVars
<1>2. CurrentRuns'
  BY HandledFacts DEF Inv, CurrentRuns, schedVars
<1>. QED  BY <1>1, <1>2, HandledFacts DEF Inv

\* Object::do_badop, read_key_register of a Context, Gate::deliver_from with a service
\* key and ObjectTable::do_mint_key.
LEMMA ReadOnlyHandlerInv ==
  ASSUME Inv, \/ ServeWithoutEffect
              \/ \E x \in Context : ReadKeyRegister(x)
              \/ \E g \in Gate : MakeClientKey(g)
              \/ MintKey
  PROVE  Inv'
<1>1. \E k1 \in Key : Handled(k1)
  <2>1. CASE ServeWithoutEffect
    BY <2>1, NullKeyType DEF ServeWithoutEffect
  <2>2. ASSUME NEW x \in Context, ReadKeyRegister(x)
        PROVE  \E k1 \in Key : Handled(k1)
    BY <2>2 DEF ReadKeyRegister, Inv, Data
  <2>3. ASSUME NEW g \in Gate, MakeClientKey(g)
        PROVE  \E k1 \in Key : Handled(k1)
    <3>1. PICK n \in ClientBrands : Handled(MakeKey(g, [hi |-> TRUE, n |-> n]))
      BY <2>3 DEF MakeClientKey
    <3>2. [hi |-> TRUE, n |-> n] \in Brand /\ g \in Object
      BY ProtocolAssumption DEF Brand, Object
    <3>. QED  BY <3>1, <3>2, MakeKeyType DEF Inv
  <2>4. CASE MintKey
    <3>1. PICK m \in Mintable : Handled(MakeKey(m.obj, m.brand))
      BY <2>4 DEF MintKey
    <3>2. m.obj \in Object /\ m.brand \in Brand
      BY ProtocolAssumption
    <3>. QED  BY <3>1, <3>2, MakeKeyType DEF Inv
  <2>. QED  BY <2>1, <2>2, <2>3, <2>4
<1>2. /\ phase = "serve"
      /\ UNCHANGED <<contextVars, schedVars, gateVars, generation, irqVars>>
  BY DEF ServeWithoutEffect, ReadKeyRegister, MakeClientKey, MintKey, Asks, AsksContext
<1>3. Data'
  BY <1>2 DEF Inv, Data, contextVars, schedVars, irqVars
<1>. QED  BY <1>1, <1>2, <1>3, QuietHandlerInv DEF contextVars

\* Writing the saved registers of a waiting Context keeps the invariant.
LEMMA WriteRegisterInv ==
  ASSUME Inv, NEW x \in Context, WriteRegister(x)
  PROVE  Inv'
<1>1. PICK d \in Rewritten(desc[x]) : desc' = [desc EXCEPT ![x] = d]
  BY DEF WriteRegister
<1>2. PICK w \in Descriptor \cup {NoDescriptor} :
        d \in {[w EXCEPT !.sent = desc[x].sent, !.rx = desc[x].rx],
              [desc[x] EXCEPT !.sent = w.sent],
              [desc[x] EXCEPT !.rx = w.rx],
              [desc[x] EXCEPT !.sent = NoDescriptor.sent, !.rx = NoDescriptor.rx]}
  BY <1>1 DEF Rewritten
<1>3. /\ w \in AnyDescriptor
      /\ desc[x] \in AnyDescriptor
      /\ NoDescriptor \in AnyDescriptor
  BY NoDescriptorType, KernelAssumption DEF Inv, Data
<1>4. d \in AnyDescriptor
  BY <1>2, <1>3 DEF AnyDescriptor
<1>5. Data'
  BY <1>1, <1>4 DEF WriteRegister, Inv, Data, schedVars, irqVars
<1>. QED  BY <1>5, NullKeyType, QuietHandlerInv DEF WriteRegister, AsksContext, Asks

\* Writing a key register of another Context keeps the invariant.
LEMMA WriteKeyRegisterInv ==
  ASSUME Inv, NEW x \in Context, WriteKeyRegister(x)
  PROVE  Inv'
<1>1. job.k1 \in Key
  BY DEF Inv, Handler, Job
<1>2. Data'
  BY <1>1 DEF WriteKeyRegister, Inv, Data, schedVars, irqVars
<1>. QED  BY <1>2, NullKeyType, QuietHandlerInv DEF WriteKeyRegister, AsksContext, Asks

\* make_runnable of a Context, in the three states that it ends.
LEMMA MakeRunnableInv ==
  ASSUME Inv, NEW x \in Context,
         InterruptSending(x) \/ InterruptReceiving(x) \/ StartStopped(x)
  PROVE  Inv'
<1>1. /\ MakeRunnable(x)
      /\ Handled(NullKey)
      /\ UNCHANGED <<priority, keys, current, pendsv, generation, irqVars>>
      /\ UNCHANGED expected \/ AdvanceReplyBrand(x)
      /\ UNCHANGED desc \/ desc' = [desc EXCEPT ![x] = NoDescriptor]
  BY DEF InterruptSending, InterruptReceiving, StartStopped
<1>2. Queues'
  <2>1. CASE InterruptSending(x)
    BY <2>1, WakeSender DEF InterruptSending, UnlinkAll, Inv
  <2>2. CASE InterruptReceiving(x)
    BY <2>2, WakeReceiver DEF InterruptReceiving, UnlinkAll, Inv
  <2>3. CASE StartStopped(x)
    BY <2>3, WakeStopped DEF StartStopped, gateVars, Inv
  <2>. QED  BY <2>1, <2>2, <2>3
<1>3. Data'
  BY <1>1, NoDescriptorType DEF Inv, Data, MakeRunnable, AdvanceReplyBrand, irqVars
<1>4. CurrentRuns'
  BY <1>1, NullKeyType, HandledFacts DEF CurrentRuns, MakeRunnable
<1>. QED  BY <1>1, <1>2, <1>3, <1>4, NullKeyType, HandledFacts DEF Inv

\* set_priority, which moves items between levels, keeps the invariant.
LEMMA SetPriorityInv ==
  ASSUME Inv, NEW x \in Context, SetPriority(x)
  PROVE  Inv'
<1>1. Queues'
  BY RefilePreservesQueues DEF SetPriority, Inv
<1>2. Data'
  BY DEF SetPriority, Inv, Data, irqVars
<1>3. phase = "serve" /\ Handled(NullKey) /\ UNCHANGED <<state, current, switchPending>>
  BY DEF SetPriority, AsksContext, Asks
<1>4. CurrentRuns'
  BY <1>3, NullKeyType, HandledFacts DEF Inv, CurrentRuns
<1>. QED  BY <1>1, <1>2, <1>3, <1>4, NullKeyType, HandledFacts DEF Inv

\* Object::invalidate leaves generations numbers.
LEMMA InvalidatedFacts ==
  ASSUME Inv, NEW o \in Object, Invalidated(o)
  PROVE  phase = "serve" /\ generation' \in [Object -> Nat]
BY DEF Invalidated, Asks, Inv, Data

\* Invalidating an object whose hook does nothing keeps the invariant.
LEMMA InvalidatePlainInv ==
  ASSUME Inv, NEW o \in Object, InvalidatePlain(o)
  PROVE  Inv'
<1>1. Data'
  BY InvalidatedFacts DEF InvalidatePlain, Inv, Data, contextVars, schedVars, irqVars
<1>. QED  BY <1>1, InvalidatedFacts, NullKeyType, QuietHandlerInv DEF InvalidatePlain, contextVars

\* Context::invalidation_hook keeps the invariant, the current Context included.
LEMMA InvalidateContextInv ==
  ASSUME Inv, NEW c \in Context, InvalidateContext(c)
  PROVE  Inv'
<1>1. Invalidated(c) /\ c \in Object /\ Handled(NullKey)
  BY DEF InvalidateContext, Object
<1>2. Queues'
  BY HaltPreservesQueues DEF InvalidateContext, UnlinkAll, Inv
<1>3. Data'
  BY <1>1, InvalidatedFacts, NoDescriptorType
     DEF InvalidateContext, AdvanceReplyBrand, Inv, Data, irqVars
<1>4. CurrentRuns'
  <2>1. /\ state' = [state EXCEPT ![c] = "stopped"]
        /\ switchPending' = (switchPending \/ c = current)
        /\ current' = current
    BY DEF InvalidateContext
  <2>2. phase = "serve" /\ phase' = "reply"
    BY <1>1, InvalidatedFacts, NullKeyType, HandledFacts
  <2>3. ~ switchPending' => state'[current'] = state[current] /\ ~ switchPending
    BY <2>1 DEF Inv, Data, Queues
  <2>. QED  BY <2>2, <2>3 DEF Inv, CurrentRuns
<1>. QED  BY <1>1, <1>2, <1>3, <1>4, NullKeyType, HandledFacts DEF Inv

\* Interrupt::invalidation_hook keeps the invariant.
LEMMA InvalidateInterruptInv ==
  ASSUME Inv, NEW i \in Interrupt, InvalidateInterrupt(i)
  PROVE  Inv'
<1>1. Invalidated(i) /\ i \in Object /\ Handled(NullKey)
  BY DEF InvalidateInterrupt, Object
<1>2. Queues'
  BY InterruptMoves DEF InvalidateInterrupt, UnlinkAll, Inv, contextVars, schedVars
<1>3. Data'
  BY <1>1, InvalidatedFacts DEF InvalidateInterrupt, Inv, Data, contextVars, schedVars
<1>4. CurrentRuns'
  BY <1>1, InvalidatedFacts, NullKeyType, HandledFacts
     DEF InvalidateInterrupt, Inv, CurrentRuns, contextVars, schedVars
<1>. QED  BY <1>1, <1>2, <1>3, <1>4, NullKeyType, HandledFacts DEF Inv

\* do_set_target and do_enable of an Interrupt keep the invariant.
LEMMA InterruptHandlerInv ==
  ASSUME Inv, NEW i \in Interrupt, SetTarget(i) \/ Enable(i)
  PROVE  Inv'
<1>1. job.k1 \in Key
  BY DEF Inv, Handler, Job
<1>2. /\ phase = "serve"
      /\ Handled(NullKey)
      /\ UNCHANGED <<contextVars, schedVars, gateVars, generation>>
  BY DEF SetTarget, Enable, Asks
<1>3. Data'
  BY <1>1, <1>2 DEF SetTarget, Enable, Inv, Data, contextVars, schedVars
<1>. QED  BY <1>2, <1>3, NullKeyType, QuietHandlerInv DEF contextVars

\* Every kernel object's protocol keeps the invariant.
LEMMA ServeStepInv ==
  ASSUME Inv, ServeStep
  PROVE  Inv'
BY ReadOnlyHandlerInv, WriteRegisterInv, WriteKeyRegisterInv, MakeRunnableInv,
   SetPriorityInv, InvalidateContextInv, InvalidatePlainInv,
   InvalidateInterruptInv, InterruptHandlerInv DEF ServeStep

-----------------------------------------------------------------------------
(* Messages the kernel sends: the replies of kernel objects, and interrupts *)

\* A Context that waits is made runnable and takes the message.
LEMMA DeliveredFacts ==
  ASSUME Inv, NEW k \in Key, NEW ks \in [MsgKey -> Key],
         ReplyDelivered(k, ks) \/ GateDelivered(k, ks),
         UNCHANGED <<priority, senders, current, pendsv, generation, irqTarget, redirected>>,
         enabled' \in [Interrupt -> BOOLEAN], pending' \in [Interrupt -> BOOLEAN]
  PROVE  /\ Queues'
         /\ Data'
         /\ switchPending'
         /\ state[current] = "runnable" => state'[current'] = "runnable"
<1>1. PICK c \in Context :
        /\ state[c] = "receiving"
        /\ CompleteBlockedReceive(c, ks)
        /\ expected' = expected \/ expected' = [expected EXCEPT ![c] = @ + 1]
        /\ \/ UNCHANGED receivers /\ AwaitingReply(c)
           \/ \E g \in Gate : /\ c \in Linked(receivers[g])
                              /\ receivers' = [receivers EXCEPT ![g] = Unlink(@, c)]
  <2>1. CASE ReplyDelivered(k, ks)
    BY <2>1 DEF ReplyDelivered, AdvanceReplyBrand, AwaitingReply
  <2>2. CASE GateDelivered(k, ks)
    BY <2>2, FirstReceiver DEF GateDelivered, Inv
  <2>. QED  BY <2>1, <2>2
<1>2. MakeRunnable(c) /\ Receives(c, ks)
  BY <1>1 DEF CompleteBlockedReceive
<1>3. Queues'
  BY <1>1, <1>2, WakeReceiver DEF Inv
<1>4. Data'
  <2>1. keys' \in [Context -> [Reg -> Key]]
    BY <1>2, StoredType DEF Inv, Data, Receives
  <2>2. desc' \in [Context -> AnyDescriptor]
    BY <1>2, NoDescriptorType DEF Inv, Data, Receives
  <2>3. expected' \in [Context -> Nat]
    BY <1>1 DEF Inv, Data
  <2>. QED  BY <1>2, <2>1, <2>2, <2>3 DEF Inv, Data, MakeRunnable
<1>5. switchPending' /\ (state[current] = "runnable" => state'[current'] = "runnable")
  BY <1>2 DEF MakeRunnable, Inv, Queues, Data
<1>. QED  BY <1>3, <1>4, <1>5

\* advance_reply_brand leaves a brand.
LEMMA AdvanceReplyBrandType ==
  ASSUME Data, NEW x \in Context, AdvanceReplyBrand(x)
  PROVE  expected' \in [Context -> Nat]
BY DEF Data, AdvanceReplyBrand

\* ~ScopedReplySender keeps the invariant, delivered, dropped or fatal.
LEMMA ReplyStepInv ==
  ASSUME Inv, ReplyStep
  PROVE  Inv'
<1>0. /\ reply.to \in Key
      /\ reply.k1 \in Key
      /\ ReplyKeys(reply.k1) \in [MsgKey -> Key]
  BY ReplyKeysType DEF Inv, Handler, Reply
<1>1. CASE SendKernelReply
  <2>1. /\ ReplyDelivered(reply.to, ReplyKeys(reply.k1)) \/ GateDelivered(reply.to, ReplyKeys(reply.k1))
        /\ phase' = "exit"
        /\ reply' = NoReply
        /\ UNCHANGED <<priority, current, pendsv, senders, generation, irqVars, rx, src, job, panicked>>
    BY <1>1 DEF SendKernelReply
  <2>2. Queues' /\ Data' /\ switchPending'
    BY <1>0, <2>1, DeliveredFacts DEF irqVars, Inv, Data
  <2>3. Handler'
    BY <2>1, NullKeyType DEF Inv, Handler
  <2>. QED  BY <2>1, <2>2, <2>3 DEF Inv, ReceiverRuns, CurrentRuns
<1>2. CASE DropKernelReply
  <2>1. Queues'
    BY <1>2, QueuesUnchanged DEF DropKernelReply, Inv, queueVars, contextVars, schedVars, gateVars
  <2>2. Data'
    BY <1>2 DEF DropKernelReply, Inv, Data, contextVars, schedVars, irqVars
  <2>3. Handler'
    BY <1>2, NullKeyType DEF DropKernelReply, Inv, Handler
  <2>4. ReceiverRuns' /\ CurrentRuns'
    BY <1>2 DEF DropKernelReply, Inv, ReceiverRuns, CurrentRuns, contextVars, schedVars
  <2>. QED  BY <2>1, <2>2, <2>3, <2>4 DEF Inv
<1>3. CASE PanicInKernelReply
  <2>1. Queues'
    BY <1>3, QueuesUnchanged DEF PanicInKernelReply, Inv, queueVars, schedVars, gateVars
  <2>2. Data'
    <3>1. expected' \in [Context -> Nat]
      BY <1>3, AdvanceReplyBrandType DEF PanicInKernelReply, UnexpectedReply, Inv
    <3>. QED  BY <1>3, <3>1 DEF PanicInKernelReply, Inv, Data, schedVars, irqVars
  <2>3. Handler' /\ ReceiverRuns' /\ CurrentRuns'
    BY <1>3 DEF PanicInKernelReply, Panic, Inv, Handler, ReceiverRuns, CurrentRuns
  <2>. QED  BY <2>1, <2>2, <2>3 DEF Inv
<1>. QED  BY <1>1, <1>2, <1>3 DEF ReplyStep

\* A device's request changes nothing but the NVIC's pending bit.
LEMMA DeviceRaisesInv ==
  ASSUME Inv, NEW i \in Interrupt, DeviceRaises(i)
  PROVE  Inv'
<1>1. Queues'
  BY QueuesUnchanged DEF DeviceRaises, Inv, queueVars, contextVars, schedVars, gateVars
<1>2. Data'
  BY DEF DeviceRaises, Inv, Data, contextVars, schedVars
<1>3. Handler' /\ ReceiverRuns' /\ CurrentRuns'
  BY DEF DeviceRaises, Inv, Handler, ReceiverRuns, CurrentRuns, contextVars, schedVars, handlerVars
<1>. QED  BY <1>1, <1>2, <1>3 DEF Inv

\* Interrupt::trigger, when it changes no queue.
LEMMA QuietIrqInv ==
  ASSUME Inv, NEW i \in Interrupt,
         \/ IrqWithoutObject(i)
         \/ IrqCoalesced(i)
         \/ IrqRetargets(i)
         \/ IrqDropped(i)
         \/ PanicInIrq(i)
  PROVE  Inv'
<1>1. /\ phase = "user"
      /\ phase' \in {"panic", "irqexit"}
      /\ UNCHANGED <<state, priority, keys, desc, schedVars, gateVars, generation, redirected,
                     rx, src, job, reply>>
  BY DEF IrqWithoutObject, IrqCoalesced, IrqRetargets, IrqDropped, PanicInIrq,
         Triggered, Taken, Panic, contextVars
<1>2. Queues'
  BY <1>1, QueuesUnchanged DEF Inv, queueVars, schedVars, gateVars
<1>3. Data'
  <2>1. pending' \in [Interrupt -> BOOLEAN] /\ enabled' \in [Interrupt -> BOOLEAN]
    BY DEF IrqWithoutObject, IrqCoalesced, IrqRetargets, IrqDropped, PanicInIrq,
           Triggered, Taken, Inv, Data
  <2>2. irqTarget' \in [Interrupt -> Key]
    BY NullKeyType DEF IrqWithoutObject, IrqCoalesced, IrqRetargets, IrqDropped,
                       PanicInIrq, Inv, Data
  <2>3. expected' \in [Context -> Nat]
    <3>1. CASE PanicInIrq(i)
      BY <3>1, AdvanceReplyBrandType DEF PanicInIrq, UnexpectedReply, Inv
    <3>2. CASE ~ PanicInIrq(i)
      BY <3>2 DEF IrqWithoutObject, IrqCoalesced, IrqRetargets, IrqDropped, contextVars, Inv, Data
    <3>. QED  BY <3>1, <3>2
  <2>. QED  BY <1>1, <2>1, <2>2, <2>3 DEF Inv, Data, schedVars
<1>4. Handler' /\ ReceiverRuns' /\ CurrentRuns'
  BY <1>1 DEF Inv, Handler, ReceiverRuns, CurrentRuns, schedVars
<1>. QED  BY <1>2, <1>3, <1>4 DEF Inv

\* Interrupt::trigger keeps the invariant when its target takes the message.
LEMMA IrqDeliveredInv ==
  ASSUME Inv, NEW i \in Interrupt, IrqDelivered(i)
  PROVE  Inv'
<1>1. /\ phase = "user"
      /\ phase' = "irqexit"
      /\ ReplyDelivered(irqTarget[i], IrqKeys(i)) \/ GateDelivered(irqTarget[i], IrqKeys(i))
      /\ UNCHANGED <<priority, current, pendsv, senders, generation, irqTarget, redirected,
                     rx, src, job, reply, panicked>>
  BY DEF IrqDelivered, Triggered, Taken
<1>2. /\ irqTarget[i] \in Key
      /\ IrqKeys(i) \in [MsgKey -> Key]
      /\ enabled' \in [Interrupt -> BOOLEAN]
      /\ pending' \in [Interrupt -> BOOLEAN]
  BY IrqKeysType DEF IrqDelivered, Triggered, Taken, Inv, Data
<1>3. /\ Queues'
      /\ Data'
      /\ state[current] = "runnable" => state'[current'] = "runnable"
  BY <1>1, <1>2, DeliveredFacts
<1>4. Handler' /\ ReceiverRuns'
  BY <1>1 DEF Inv, Handler, ReceiverRuns
<1>5. CurrentRuns'
  BY <1>1, <1>3 DEF Inv, CurrentRuns
<1>. QED  BY <1>3, <1>4, <1>5 DEF Inv

\* Interrupt::block_in_send keeps the invariant.
LEMMA IrqBlocksInv ==
  ASSUME Inv, NEW i \in Interrupt, IrqBlocks(i)
  PROVE  Inv'
<1>1. /\ phase = "user"
      /\ phase' = "irqexit"
      /\ ~ WaitsToSend(i)
      /\ \E g \in Gate : senders' = [senders EXCEPT ![g] = Insert(@, i, SenderPriority(i))]
      /\ UNCHANGED <<contextVars, schedVars, receivers, generation, irqTarget, redirected,
                     rx, src, job, reply, panicked>>
  BY DEF IrqBlocks, Triggered, Taken
<1>2. Queues'
  BY <1>1, InterruptMoves DEF Inv, contextVars, schedVars
<1>3. Data'
  BY <1>1 DEF IrqBlocks, Triggered, Taken, Inv, Data, contextVars, schedVars
<1>4. Handler' /\ ReceiverRuns' /\ CurrentRuns'
  BY <1>1 DEF Inv, Handler, ReceiverRuns, CurrentRuns, contextVars, schedVars
<1>. QED  BY <1>2, <1>3, <1>4 DEF Inv

\* Every interrupt taken keeps the invariant.
LEMMA IrqInv ==
  ASSUME Inv, NEW i \in Interrupt, Irq(i)
  PROVE  Inv'
BY QuietIrqInv, IrqDeliveredInv, IrqBlocksInv DEF Irq

-----------------------------------------------------------------------------
(* The scheduler *)

\* switch_now picks a runnable Context.
LEMMA SwitchNowFacts ==
  ASSUME Inv, SwitchNow
  PROVE  /\ current' \in Context
         /\ phase' \in {"panic", "user"}
         /\ phase' = "user" => state[current'] = "runnable"
<1>1. CASE IsEmpty(runnable)
  <2>1. phase' = "panic" /\ current' = current
    BY <1>1 DEF SwitchNow, Panic
  <2>. QED  BY <2>1 DEF Inv, Data
<1>2. CASE ~ IsEmpty(runnable)
  <2>1. Peek(runnable) \in Linked(runnable) /\ Peek(runnable) \in Context
    BY <1>2, PeekList DEF Inv, Queues
  <2>. QED  BY <1>2, <2>1 DEF SwitchNow, Inv, Queues, RunQueueAgrees
<1>. QED  BY <1>1, <1>2

\* The three ways out of the kernel keep the invariant: the Context that is
\* given the processor is runnable.
LEMMA SchedulerInv ==
  ASSUME Inv, DoDeferredSwitch \/ DoDeferredSwitchFromIrq \/ SwitchAfterInterrupt
  PROVE  Inv'
<1>1. /\ UNCHANGED <<contextVars, runnable, gateVars, generation, irqVars, rx, src, job, reply>>
      /\ switchPending' \in BOOLEAN
      /\ pendsv' \in BOOLEAN
  BY DEF DoDeferredSwitch, DoDeferredSwitchFromIrq, SwitchAfterInterrupt, Inv, Data
<1>2. Queues'
  BY <1>1, QueuesUnchanged DEF Inv, queueVars, contextVars, gateVars
<1>3. /\ current' \in Context
      /\ phase' \in {"user", "panic"}
      /\ phase' = "user" => state[current'] = "runnable"
  <2>1. CASE DoDeferredSwitch
    BY <2>1, SwitchNowFacts DEF DoDeferredSwitch, Inv, Data, CurrentRuns
  <2>2. CASE DoDeferredSwitchFromIrq
    BY <2>2 DEF DoDeferredSwitchFromIrq, Inv, Data, CurrentRuns
  <2>3. CASE SwitchAfterInterrupt
    BY <2>3, SwitchNowFacts DEF SwitchAfterInterrupt
  <2>. QED  BY <2>1, <2>2, <2>3
<1>4. Data'
  BY <1>1, <1>3 DEF Inv, Data, contextVars, irqVars
<1>5. Handler' /\ ReceiverRuns' /\ CurrentRuns'
  BY <1>1, <1>3 DEF Inv, Handler, ReceiverRuns, CurrentRuns, contextVars
<1>. QED  BY <1>2, <1>4, <1>5 DEF Inv

-----------------------------------------------------------------------------
(* The theorems *)

\* The invariant is inductive.
LEMMA NextInv == Inv /\ [Next]_vars => Inv'
<1>. SUFFICES ASSUME Inv, [Next]_vars
             PROVE  Inv'
  OBVIOUS
<1>1. CASE SystemCall
  BY <1>1, SystemCallInv
<1>2. CASE KernelStep
  BY <1>2, ReceiveStepInv, ServeStepInv, ReplyStepInv, SchedulerInv DEF KernelStep
<1>3. CASE SwitchAfterInterrupt
  BY <1>3, SchedulerInv
<1>4. ASSUME NEW i \in Interrupt, DeviceRaises(i) \/ Irq(i)
      PROVE  Inv'
  BY <1>4, DeviceRaisesInv, IrqInv
<1>5. CASE UNCHANGED vars
  <2>1. Queues'
    BY <1>5, QueuesUnchanged DEF vars, queueVars, contextVars, schedVars, gateVars, Inv
  <2>2. Data'
    BY <1>5 DEF vars, contextVars, schedVars, irqVars, Inv, Data
  <2>3. Handler' /\ ReceiverRuns' /\ CurrentRuns'
    BY <1>5 DEF vars, contextVars, schedVars, handlerVars, Inv, Handler, ReceiverRuns, CurrentRuns
  <2>. QED  BY <2>1, <2>2, <2>3 DEF Inv
<1>. QED  BY <1>1, <1>2, <1>3, <1>4, <1>5 DEF Next

\* The invariant holds in every reachable state.
LEMMA SpecInv == Spec => []Inv
BY InitInv, NextInv, PTL DEF Spec

\* Every handler leaves the kernel's variables with their types: the keys a
\* message carries and stores, the queues a Context joins and leaves, and the
\* Context whose receive phase is next.
THEOREM TypeCorrect == Spec => []TypeOK
BY SpecInv, InvIsTypeOKAndQueueInv, PTL

\* Whatever the programs do, and whenever interrupts arrive: the run queue holds
\* the runnable Contexts, a Context or Interrupt is queued on one Gate at most
\* and once, each at its own priority and in the state the queue is for, and
\* between handlers the current Context is runnable.
THEOREM QueuesAgree == Spec => []QueueInv
BY SpecInv, InvIsTypeOKAndQueueInv, PTL
=============================================================================
