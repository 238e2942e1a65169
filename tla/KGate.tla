-------------------------------- MODULE KGate --------------------------------
(***************************************************************************)
(* Gates, k/gate.cc: the rendezvous between a Context or an Interrupt that *)
(* sends through a transparent (client) key and a Context that receives    *)
(* through a service key.                                                  *)
(***************************************************************************)
EXTENDS KContext

\* The level a BlockingSender is queued at: Context::get_priority, and
\* Interrupt::get_priority, which nothing ever changes from 0.
SenderPriority(s) == IF s \in Context THEN priority[s] ELSE 0

\* Gate::deliver_from with a Context waiting to receive: the receiver is made
\* runnable and takes the message, then the sender goes on to receive.
SendToReceiver(d) ==
  /\ BeginIpc(d)
  /\ d.send
  /\ LET k == TargetKey(d)
         g == Get(k)
         r == Peek(receivers[g])
     IN /\ g \in Gate
        /\ k.brand.hi
        /\ ~ IsEmpty(receivers[g])
        /\ receivers' = [receivers EXCEPT ![g] = Unlink(@, r)]
        /\ MakeRunnable(r)
        /\ keys' = [keys EXCEPT ![r] = Stored(r, Outgoing(current, d))]
        /\ desc' = [desc EXCEPT ![r] = NoDescriptor,
                                ![current] = IF d.recv THEN d ELSE NoDescriptor]
        /\ ReceivePhase(current, d, NoJob)
  /\ UNCHANGED <<priority, expected, current, pendsv, senders, generation,
                 irqVars, reply, panicked>>

\* Gate::deliver_from with no receiver, and Context::block_in_send.
BlockInSend(d) ==
  /\ BeginIpc(d)
  /\ d.send
  /\ LET k == TargetKey(d)
         g == Get(k)
     IN /\ g \in Gate
        /\ k.brand.hi
        /\ IsEmpty(receivers[g])
        /\ d.block
        /\ senders' = [senders EXCEPT ![g] =
                         Insert(@, current, SenderPriority(current))]
  /\ runnable' = Unlink(runnable, current)
  /\ state' = [state EXCEPT ![current] = "sending"]
  /\ switchPending' = TRUE
  /\ desc' = [desc EXCEPT ![current] = d]
  /\ phase' = "exit"
  /\ UNCHANGED <<priority, keys, expected, current, pendsv, receivers,
                 generation, irqVars, rx, src, job, reply, panicked>>

\* The same, for a program unwilling to block: would_block.
RefuseToBlock(d) ==
  /\ BeginIpc(d)
  /\ d.send
  /\ LET k == TargetKey(d)
         g == Get(k)
     IN /\ g \in Gate
        /\ k.brand.hi
        /\ IsEmpty(receivers[g])
        /\ ~ d.block
  /\ phase' = "exit"
  /\ UNCHANGED <<contextVars, schedVars, gateVars, generation, irqVars,
                 rx, src, job, reply, panicked>>

-----------------------------------------------------------------------------
(* Gate::deliver_to, reached with a service key *)

ReceivesFrom(g) == phase = "receive" /\ Get(src) = g /\ ~ src.brand.hi

\* The first waiting sender is a Context: it is made runnable, delivers, and
\* goes on to its own receive phase (on_blocked_delivery).
ReceiveFromContext(g) ==
  /\ ReceivesFrom(g)
  /\ ~ IsEmpty(senders[g])
  /\ LET s == Peek(senders[g])
     IN /\ s \in Context
        /\ senders' = [senders EXCEPT ![g] = Unlink(@, s)]
        /\ MakeRunnable(s)
        /\ keys' = [keys EXCEPT ![rx] = Stored(rx, Outgoing(s, desc[s]))]
        /\ desc' = [desc EXCEPT ![rx] = NoDescriptor,
                                ![s] = IF @.recv THEN @ ELSE NoDescriptor]
        /\ ReceivePhase(s, desc[s], job)
  /\ UNCHANGED <<priority, expected, current, pendsv, receivers, generation,
                 irqVars, reply, panicked>>

\* It is an Interrupt: it delivers and is then idle.
ReceiveFromInterrupt(g) ==
  /\ ReceivesFrom(g)
  /\ ~ IsEmpty(senders[g])
  /\ LET i == Peek(senders[g])
     IN /\ i \in Interrupt
        /\ senders' = [senders EXCEPT ![g] = Unlink(@, i)]
        /\ Receives(rx, IrqKeys(i))
  /\ ReceiveDone
  /\ UNCHANGED <<state, priority, expected, schedVars, receivers, generation,
                 irqVars, reply, panicked>>

\* A faulty deliver_to: the receiver is queued without a look at the senders.
BlockInReceiveFault(g) ==
  /\ ReceivesFrom(g)
  /\ BlockReceiver(rx)
  /\ receivers' = [receivers EXCEPT ![g] = Insert(@, rx, priority[rx])]
  /\ ReceiveDone
  /\ UNCHANGED <<priority, keys, desc, expected, current, pendsv, senders,
                 generation, irqVars, reply, panicked>>

\* Nobody waits to send: Context::block_in_receive.
BlockInReceive(g) ==
  /\ ReceivesFrom(g)
  /\ IsEmpty(senders[g])
  /\ BlockReceiver(rx)
  /\ receivers' = [receivers EXCEPT ![g] = Insert(@, rx, priority[rx])]
  /\ ReceiveDone
  /\ UNCHANGED <<priority, keys, desc, expected, current, pendsv, senders,
                 generation, irqVars, reply, panicked>>
=============================================================================
