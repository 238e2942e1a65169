------------------------------ MODULE KProtocols ------------------------------
(***************************************************************************)
(* The kernel objects' protocols: what happens to a message a program      *)
(* sends to a Context, Gate, Object Table or Interrupt key, once the       *)
(* sender has been through its receive phase, and the reply to it.         *)
(***************************************************************************)
EXTENDS KGate

CONSTANTS
  Selectors,      \* the operations programs ask for
  Mintable,       \* the [obj, brand] pairs asked of the Object Table
  Revocable,      \* the objects programs ask it to invalidate
  ClientBrands,   \* the brands asked of a Gate's make_client_key
  MaxGen          \* bound: times an object is invalidated

ASSUME ProtocolAssumption ==
  /\ Mintable \subseteq [obj : Object, brand : Brand]
  /\ Revocable \subseteq Object
  /\ ClientBrands \subseteq Nat
  /\ MaxGen \in Nat

\* The handler of the pending message has run; its ScopedReplySender, which
\* carries k1, leaves its scope next.
Handled(k1) ==
  /\ job' = NoJob
  /\ phase' = "reply"
  /\ reply' = [to |-> job.k0, k1 |-> k1]
  /\ UNCHANGED <<rx, src, panicked>>

\* The pending message asks object x for an operation.
Asks(x, selector) == phase = "serve" /\ job.obj = x /\ selector \in Selectors

\* Of a Context: only a key without the reply bit reaches its protocol.
AsksContext(x, selector) ==
  x \in Context /\ ~ job.brand.hi /\ Asks(x, selector)

\* Object::do_badop, and every operation that only reads state, fails on its
\* arguments, or touches registers this module does not keep.
ServeWithoutEffect ==
  /\ phase = "serve"
  /\ Handled(NullKey)
  /\ UNCHANGED <<contextVars, schedVars, gateVars, generation, irqVars>>

-----------------------------------------------------------------------------
(* Context::handle_protocol *)

\* What a write to its saved registers makes of the descriptor d of a Context
\* blocked in send: on_delivery has yet to read r4 (the descriptor), r10 (the
\* sent map) and r11 (the receive map), and write_register sets one of them.
\* write_high_registers sets both maps, to the zeros of its own reply's message.
Rewritten(d) ==
  UNION {{[w EXCEPT !.sent = d.sent, !.rx = d.rx],
          [d EXCEPT !.sent = w.sent],
          [d EXCEPT !.rx = w.rx],
          [d EXCEPT !.sent = NoDescriptor.sent, !.rx = NoDescriptor.rx]} :
         w \in Descriptor \cup {NoDescriptor}}

\* write_register, write_low_registers and write_high_registers, of a register
\* that matters to an IPC the Context has not finished.  To one that receives,
\* only r11 does.
WriteRegister(x) ==
  /\ AsksContext(x, "write_register")
  /\ \E d \in Rewritten(desc[x]) :
       /\ state[x] = "receiving" => d = [desc[x] EXCEPT !.rx = d.rx]
       /\ desc' = [desc EXCEPT ![x] = d]
  /\ state[x] \in {"sending", "receiving"}
  /\ Handled(NullKey)
  /\ UNCHANGED <<state, priority, keys, expected, schedVars, gateVars,
                 generation, irqVars>>

ReadKeyRegister(x) ==
  /\ AsksContext(x, "read_key_register")
  /\ \E r \in Reg : Handled(keys[x][r])
  /\ UNCHANGED <<contextVars, schedVars, gateVars, generation, irqVars>>

WriteKeyRegister(x) ==
  /\ AsksContext(x, "write_key_register")
  /\ \E r \in Reg \ {0} : keys' = [keys EXCEPT ![x][r] = job.k1]
  /\ Handled(NullKey)
  /\ UNCHANGED <<state, priority, desc, expected, schedVars, gateVars,
                 generation, irqVars>>

\* make_runnable interrupts whatever the Context waits for, and starts it if
\* it is stopped.  A runnable one is left alone (ServeWithoutEffect).
InterruptSending(x) ==
  /\ AsksContext(x, "make_runnable")
  /\ state[x] = "sending"
  /\ senders' = [g \in Gate |-> Unlink(senders[g], x)]
  /\ MakeRunnable(x)
  /\ desc' = [desc EXCEPT ![x] = NoDescriptor]
  /\ Handled(NullKey)
  /\ UNCHANGED <<priority, keys, expected, current, pendsv, receivers,
                 generation, irqVars>>

\* A faulty make_runnable: the reply key the Context waited on stays good.
InterruptReceivingFault(x) ==
  /\ AsksContext(x, "make_runnable")
  /\ state[x] = "receiving"
  /\ receivers' = [g \in Gate |-> Unlink(receivers[g], x)]
  /\ MakeRunnable(x)
  /\ desc' = [desc EXCEPT ![x] = NoDescriptor]
  /\ Handled(NullKey)
  /\ UNCHANGED <<priority, keys, expected, current, pendsv, senders, generation,
                 irqVars>>

InterruptReceiving(x) ==
  /\ AsksContext(x, "make_runnable")
  /\ state[x] = "receiving"
  /\ IF AwaitingReply(x) THEN AdvanceReplyBrand(x) ELSE UNCHANGED expected
  /\ receivers' = [g \in Gate |-> Unlink(receivers[g], x)]
  /\ MakeRunnable(x)
  /\ desc' = [desc EXCEPT ![x] = NoDescriptor]
  /\ Handled(NullKey)
  /\ UNCHANGED <<priority, keys, current, pendsv, senders, generation, irqVars>>

StartStopped(x) ==
  /\ AsksContext(x, "make_runnable")
  /\ state[x] = "stopped"
  /\ MakeRunnable(x)
  /\ Handled(NullKey)
  /\ UNCHANGED <<priority, keys, desc, expected, current, pendsv, gateVars,
                 generation, irqVars>>

\* Two faulty set_priority: the item stays at its old level, or is inserted at
\* its new one while linked.
RelinkFault(l, x, p) == IF x \in Linked(l) THEN Insert(l, x, p) ELSE l

\* A linked item is filed under its Context's new level.
Refile(l, x, p) == IF x \in Linked(l) THEN Reinsert(l, x, p) ELSE l

\* set_priority does not pend a switch.
SetPriority(x) ==
  /\ AsksContext(x, "set_priority")
  /\ \E p \in Prio :
       /\ priority'  = [priority EXCEPT ![x] = p]
       /\ runnable'  = Refile(runnable, x, p)
       /\ receivers' = [g \in Gate |-> Refile(receivers[g], x, p)]
       /\ senders'   = [g \in Gate |-> Refile(senders[g], x, p)]
  /\ Handled(NullKey)
  /\ UNCHANGED <<state, keys, desc, expected, current, switchPending, pendsv,
                 generation, irqVars>>

-----------------------------------------------------------------------------
(* The other objects *)

\* Gate::deliver_from with a service key.  The transparent bit is set whatever
\* brand was asked for.
MakeClientKey(g) ==
  /\ g \in Gate
  /\ Asks(g, "make_client_key")
  /\ \E n \in ClientBrands : Handled(MakeKey(g, [hi |-> TRUE, n |-> n]))
  /\ UNCHANGED <<contextVars, schedVars, gateVars, generation, irqVars>>

\* ObjectTable::do_mint_key.  No object rejects a brand.
MintKey ==
  /\ Asks(ObjectTable, "mint_key")
  /\ \E m \in Mintable : Handled(MakeKey(m.obj, m.brand))
  /\ UNCHANGED <<contextVars, schedVars, gateVars, generation, irqVars>>

\* ObjectTable::do_invalidate and Object::invalidate: the object's hook, then
\* its generation.
Invalidated(o) ==
  /\ Asks(ObjectTable, "invalidate")
  /\ o \in Revocable
  /\ generation[o] < MaxGen
  /\ generation' = [generation EXCEPT ![o] = @ + 1]

\* Object::invalidation_hook does nothing: what waits on a Gate stays there.
InvalidatePlain(o) ==
  /\ Invalidated(o)
  /\ o \notin Context \cup Interrupt
  /\ Handled(NullKey)
  /\ UNCHANGED <<contextVars, schedVars, gateVars, irqVars>>

\* Context::invalidation_hook.
InvalidateContext(c) ==
  /\ Invalidated(c)
  /\ c \in Context
  /\ runnable' = Unlink(runnable, c)
  /\ receivers' = [g \in Gate |-> Unlink(receivers[g], c)]
  /\ senders' = [g \in Gate |-> Unlink(senders[g], c)]
  /\ state' = [state EXCEPT ![c] = "stopped"]
  /\ desc' = [desc EXCEPT ![c] = NoDescriptor]
  /\ AdvanceReplyBrand(c)
  /\ switchPending' = (switchPending \/ c = current)
  /\ Handled(NullKey)
  /\ UNCHANGED <<priority, keys, current, pendsv, irqVars>>

\* Interrupt::invalidation_hook.
InvalidateInterrupt(i) ==
  /\ Invalidated(i)
  /\ i \in Interrupt
  /\ enabled' = [enabled EXCEPT ![i] = FALSE]
  /\ pending' = [pending EXCEPT ![i] = FALSE]
  /\ redirected' = [redirected EXCEPT ![i] = FALSE]
  /\ senders' = [g \in Gate |-> Unlink(senders[g], i)]
  /\ Handled(NullKey)
  /\ UNCHANGED <<contextVars, schedVars, receivers, irqTarget>>

\* Interrupt::do_set_target.
SetTarget(i) ==
  /\ i \in Interrupt
  /\ Asks(i, "set_target")
  /\ irqTarget' = [irqTarget EXCEPT ![i] = job.k1]
  /\ Handled(NullKey)
  /\ UNCHANGED <<contextVars, schedVars, gateVars, generation, enabled, pending,
                 redirected>>

\* Interrupt::do_enable, clearing the NVIC's pending bit first if asked to.
Enable(i) ==
  /\ i \in Interrupt
  /\ Asks(i, "enable")
  /\ \E clear \in BOOLEAN :
       pending' = [pending EXCEPT ![i] = @ /\ ~ clear]
  /\ enabled' = [enabled EXCEPT ![i] = TRUE]
  /\ Handled(NullKey)
  /\ UNCHANGED <<contextVars, schedVars, gateVars, generation, irqTarget,
                 redirected>>

-----------------------------------------------------------------------------
(* Messages the kernel itself sends: the replies of kernel objects, and what *)
(* an Interrupt sends when it is triggered                                    *)

\* A key that bears the reply brand its Context expects.
ReplyDelivered(k, ks) ==
  LET x == Get(k)
  IN /\ x \in Context
     /\ k.brand = ReplyBrand(x)
     /\ AwaitingReply(x)
     /\ AdvanceReplyBrand(x)
     /\ CompleteBlockedReceive(x, ks)
     /\ UNCHANGED receivers

\* A transparent Gate key with a Context waiting to receive.
GateDelivered(k, ks) ==
  LET g == Get(k)
      r == Peek(receivers[g])
  IN /\ g \in Gate
     /\ k.brand.hi
     /\ ~ IsEmpty(receivers[g])
     /\ receivers' = [receivers EXCEPT ![g] = Unlink(@, r)]
     /\ CompleteBlockedReceive(r, ks)
     /\ UNCHANGED expected

\* The paranoid check of Context::deliver_from.
UnexpectedReply(k) ==
  /\ Get(k) \in Context
  /\ k.brand = ReplyBrand(Get(k))
  /\ ~ AwaitingReply(Get(k))

\* ~ScopedReplySender and ReplySender: a reply never blocks, and a kernel
\* object that gets one takes it for a bad operation it cannot answer.
ReplyReaches(k) ==
  LET x == Get(k)
  IN \/ x \in Context /\ k.brand = ReplyBrand(x)
     \/ x \in Gate /\ k.brand.hi /\ ~ IsEmpty(receivers[x])

SendKernelReply ==
  /\ phase = "reply"
  /\ \/ ReplyDelivered(reply.to, ReplyKeys(reply.k1))
     \/ GateDelivered(reply.to, ReplyKeys(reply.k1))
  /\ phase' = "exit"
  /\ reply' = NoReply
  /\ UNCHANGED <<priority, current, pendsv, senders, generation, irqVars,
                 rx, src, job, panicked>>

DropKernelReply ==
  /\ phase = "reply"
  /\ ~ ReplyReaches(reply.to)
  /\ phase' = "exit"
  /\ reply' = NoReply
  /\ UNCHANGED <<contextVars, schedVars, gateVars, generation, irqVars,
                 rx, src, job, panicked>>

PanicInKernelReply ==
  /\ phase = "reply"
  /\ UnexpectedReply(reply.to)
  /\ AdvanceReplyBrand(Get(reply.to))
  /\ Panic("context not awaiting reply")
  /\ UNCHANGED <<state, priority, keys, desc, schedVars, gateVars, generation,
                 irqVars, rx, src, job, reply>>
=============================================================================
