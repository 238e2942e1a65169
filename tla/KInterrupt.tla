------------------------------ MODULE KInterrupt ------------------------------
(***************************************************************************)
(* Taking an interrupt: the NVIC, irq_redirector (k/irq_entry.cc) and      *)
(* Interrupt::trigger (k/interrupt.cc).  An IRQ is taken only from         *)
(* unprivileged code or ahead of PendSV, and runs to its end.              *)
(***************************************************************************)
EXTENDS KProtocols

\* A device asserts its interrupt line; the NVIC remembers it.
DeviceRaises(i) ==
  /\ phase # "panic"
  /\ ~ pending[i]
  /\ pending' = [pending EXCEPT ![i] = TRUE]
  /\ UNCHANGED <<contextVars, schedVars, gateVars, generation, irqTarget,
                 enabled, redirected, handlerVars>>

\* The NVIC starts the ISR of an enabled interrupt and forgets its request.
Taken(i) ==
  /\ phase = "user"
  /\ pending[i]
  /\ enabled[i]
  /\ pending' = [pending EXCEPT ![i] = FALSE]

\* irq_redirector finds no Interrupt object in the table.
IrqWithoutObject(i) ==
  /\ Taken(i)
  /\ ~ redirected[i]
  /\ Panic("null IRQ redirector entry")
  /\ UNCHANGED <<contextVars, schedVars, gateVars, generation, irqTarget,
                 enabled, redirected, rx, src, job, reply>>

\* Interrupt::trigger: the interrupt is masked until a program enables it.
Triggered(i) ==
  /\ Taken(i)
  /\ redirected[i]
  /\ enabled' = [enabled EXCEPT ![i] = FALSE]
  /\ UNCHANGED redirected

\* A faulty trigger: an Interrupt that waits to send sends again.
WaitsToSendFault(i) == i \notin Interrupt

WaitsToSend(i) == \E g \in Gate : i \in Linked(senders[g])

\* It is still blocked with the message of an earlier interrupt.
IrqCoalesced(i) ==
  /\ Triggered(i)
  /\ WaitsToSend(i)
  /\ phase' = "irqexit"
  /\ UNCHANGED <<contextVars, schedVars, gateVars, generation, irqTarget,
                 rx, src, job, reply, panicked>>

\* Its target takes the message: a Gate with a receiver, or a Context whose
\* reply key it was given.
IrqDelivered(i) ==
  /\ Triggered(i)
  /\ ~ WaitsToSend(i)
  /\ \/ ReplyDelivered(irqTarget[i], IrqKeys(i))
     \/ GateDelivered(irqTarget[i], IrqKeys(i))
  /\ phase' = "irqexit"
  /\ UNCHANGED <<priority, current, pendsv, senders, generation, irqTarget,
                 rx, src, job, reply, panicked>>

\* Interrupt::block_in_send: an Interrupt always agrees to block.
IrqBlocks(i) ==
  /\ Triggered(i)
  /\ ~ WaitsToSend(i)
  /\ LET k == irqTarget[i]
         g == Get(k)
     IN /\ g \in Gate
        /\ k.brand.hi
        /\ IsEmpty(receivers[g])
        /\ senders' = [senders EXCEPT ![g] = Insert(@, i, SenderPriority(i))]
  /\ phase' = "irqexit"
  /\ UNCHANGED <<contextVars, schedVars, receivers, generation, irqTarget,
                 rx, src, job, reply, panicked>>

\* The target is an Interrupt's own key: selector 1, with null keys, is
\* set_target there.
IrqRetargets(i) ==
  /\ Triggered(i)
  /\ ~ WaitsToSend(i)
  /\ LET t == Get(irqTarget[i])
     IN /\ t \in Interrupt
        /\ irqTarget' = [irqTarget EXCEPT ![t] = NullKey]
  /\ phase' = "irqexit"
  /\ UNCHANGED <<contextVars, schedVars, gateVars, generation,
                 rx, src, job, reply, panicked>>

\* Any other target has no use for the message.
IrqDropped(i) ==
  /\ Triggered(i)
  /\ ~ WaitsToSend(i)
  /\ LET k == irqTarget[i]
     IN /\ Get(k) \in Gate => ~ k.brand.hi
        /\ Get(k) \in Context => k.brand # ReplyBrand(Get(k))
        /\ Get(k) \notin Interrupt
  /\ phase' = "irqexit"
  /\ UNCHANGED <<contextVars, schedVars, gateVars, generation, irqTarget,
                 rx, src, job, reply, panicked>>

PanicInIrq(i) ==
  /\ Triggered(i)
  /\ ~ WaitsToSend(i)
  /\ UnexpectedReply(irqTarget[i])
  /\ AdvanceReplyBrand(Get(irqTarget[i]))
  /\ Panic("context not awaiting reply")
  /\ UNCHANGED <<state, priority, keys, desc, schedVars, gateVars, generation,
                 irqTarget, rx, src, job, reply>>
=============================================================================
