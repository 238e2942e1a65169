------------------------------- MODULE KContext -------------------------------
(***************************************************************************)
(* Contexts, k/context.cc: the system calls a program makes, the two       *)
(* phases of an IPC seen from the Context that performs it, and messages   *)
(* sent to and received from Context keys.                                 *)
(***************************************************************************)
EXTENDS KScheduler

CONSTANTS
  Program,        \* the descriptors each Context's code may load
  KeyCopies,      \* the <<to, from>> registers of its copy_key system calls
  MaxCalls        \* bound: reply brands a Context uses up

ASSUME ProgramAssumption ==
  /\ Program \in [Context -> SUBSET Descriptor]
  /\ KeyCopies \in [Context -> SUBSET (Reg \X Reg)]
  /\ MaxCalls \in Nat

-----------------------------------------------------------------------------
(* Internal factors of Context's handlers *)

\* A faulty make_runnable: no switch is pended.
MakeRunnableFault(c) ==
  /\ runnable' = Insert(runnable, c, priority[c])
  /\ state' = [state EXCEPT ![c] = "runnable"]
  /\ UNCHANGED switchPending

\* Context::make_runnable.
MakeRunnable(c) ==
  /\ runnable' = Insert(runnable, c, priority[c])
  /\ state' = [state EXCEPT ![c] = "runnable"]
  /\ switchPending' = TRUE

\* Context::complete_receive, both overloads: the message, or the failure,
\* overwrites the saved registers.
Receives(c, ks) ==
  /\ keys' = [keys EXCEPT ![c] = Stored(c, ks)]
  /\ desc' = [desc EXCEPT ![c] = NoDescriptor]

\* Context::complete_blocked_receive.
CompleteBlockedReceive(c, ks) == MakeRunnable(c) /\ Receives(c, ks)

\* A faulty advance_reply_brand: the brand stays.
AdvanceReplyBrandFault(c) == c \in Context /\ UNCHANGED expected

\* Context::advance_reply_brand: keys with the old brand are dead.
AdvanceReplyBrand(c) == expected' = [expected EXCEPT ![c] = @ + 1]

\* A faulty on_delivery: the receive phase begins for whoever was last in one.
ReceivePhaseFault(s, d, j) ==
  /\ job' = j
  /\ phase' = IF d.recv THEN "receive" ELSE Rest(j)
  /\ src' = IF d.recv THEN keys[s][d.source] ELSE NullKey
  /\ UNCHANGED rx

\* The end of Context::on_delivery for a sender s that saved d: it goes on to
\* its receive phase if d asks for one, from its new reply key if it called.
ReceivePhase(s, d, j) ==
  /\ job' = j
  /\ \/ /\ d.recv
        /\ phase' = "receive"
        /\ rx' = s
        /\ src' = IF IsCall(d) THEN ReplyKey(s) ELSE keys[s][d.source]
     \/ /\ ~ d.recv
        /\ phase' = Rest(j)
        /\ rx' = NoContext
        /\ src' = NullKey

\* The end of a receive phase that delivers or blocks.
ReceiveDone ==
  /\ phase' = Rest(job)
  /\ rx' = NoContext
  /\ src' = NullKey
  /\ UNCHANGED job

\* A faulty block_in_receive: no switch is pended.
BlockReceiverFault(c) ==
  /\ runnable' = Unlink(runnable, c)
  /\ state' = [state EXCEPT ![c] = "receiving"]
  /\ UNCHANGED switchPending

\* Context::block_in_receive and block_in_reply, but for the queue.
BlockReceiver(c) ==
  /\ runnable' = Unlink(runnable, c)
  /\ state' = [state EXCEPT ![c] = "receiving"]
  /\ switchPending' = TRUE

-----------------------------------------------------------------------------
(* System calls: Context::do_ipc and Context::do_key_op *)

\* The program running in current loads d and executes SVC.  do_ipc first
\* panics if key register 0 is not null; Kr0Null says it always is.
BeginIpc(d) ==
  /\ phase = "user"
  /\ ~ pendsv
  /\ d \in Program[current]
  /\ IsCall(d) => expected[current] < MaxCalls

\* The key do_ipc sends through.
TargetKey(d) == keys[current][d.target]

\* While d's receive phase is ahead the saved registers are needed.
Save(d) == desc' = [desc EXCEPT ![current] = IF d.recv THEN d ELSE NoDescriptor]

\* do_ipc with the receive phase alone.
BeginReceive(d) ==
  /\ BeginIpc(d)
  /\ ~ d.send
  /\ d.recv
  /\ Save(d)
  /\ phase' = "receive"
  /\ rx' = current
  /\ src' = keys[current][d.source]
  /\ UNCHANGED <<state, priority, keys, expected, schedVars, gateVars,
                 generation, irqVars, job, reply, panicked>>

\* do_ipc with neither phase: only the deferred switch.
BeginNothing(d) ==
  /\ BeginIpc(d)
  /\ ~ d.send
  /\ ~ d.recv
  /\ phase' = "exit"
  /\ UNCHANGED <<contextVars, schedVars, gateVars, generation, irqVars,
                 rx, src, job, reply, panicked>>

\* do_key_op, copy_key: there is no deferred switch on this path.
CopyKey(to, from) ==
  /\ phase = "user"
  /\ ~ pendsv
  /\ <<to, from>> \in KeyCopies[current]
  /\ to # 0
  /\ keys' = [keys EXCEPT ![current][to] = keys[current][from]]
  /\ UNCHANGED <<state, priority, desc, expected, schedVars, gateVars,
                 generation, irqVars, handlerVars>>

-----------------------------------------------------------------------------
(* Context::deliver_from, for keys that bear a reply brand *)

\* The current Context replies through the reply key x awaits on.
SendReply(d) ==
  /\ BeginIpc(d)
  /\ d.send
  /\ LET k == TargetKey(d)
         x == Get(k)
     IN /\ x \in Context
        /\ k.brand = ReplyBrand(x)
        /\ AdvanceReplyBrand(x)
        /\ \/ /\ AwaitingReply(x)
              /\ MakeRunnable(x)
              /\ keys' = [keys EXCEPT ![x] = Stored(x, Outgoing(current, d))]
              /\ desc' = [desc EXCEPT ![x] = NoDescriptor,
                                      ![current] = IF d.recv THEN d ELSE NoDescriptor]
              /\ ReceivePhase(current, d, NoJob)
              /\ UNCHANGED panicked
           \/ /\ ~ AwaitingReply(x)
              /\ Panic("context not awaiting reply")
              /\ UNCHANGED <<runnable, state, switchPending, keys, desc, rx, src, job>>
  /\ UNCHANGED <<priority, current, pendsv, gateVars, generation, irqVars, reply>>

\* Any other message to an object that is not a transparent Gate key is taken
\* at once (Sender::on_delivery) and handled when the sender has been through
\* its own receive phase.  A stale reply brand ends here too.
SendToService(d) ==
  /\ BeginIpc(d)
  /\ d.send
  /\ LET k == TargetKey(d)
         x == Get(k)
     IN /\ ~ (x \in Gate /\ k.brand.hi)
        /\ ~ (x \in Context /\ k.brand = ReplyBrand(x))
        /\ ReceivePhase(current, d,
             [obj   |-> x,
              brand |-> IF x = NullObject THEN NoBrand ELSE k.brand,
              k0    |-> Outgoing(current, d)[0],
              k1    |-> Outgoing(current, d)[1]])
        /\ Save(d)
  /\ UNCHANGED <<state, priority, keys, expected, schedVars, gateVars,
                 generation, irqVars, reply, panicked>>

-----------------------------------------------------------------------------
(* Context::deliver_to and Object::deliver_to *)

\* A Context receiving from its own reply key waits on no queue.
ReceiveReply ==
  /\ phase = "receive"
  /\ Get(src) = rx
  /\ src.brand = ReplyBrand(rx)
  /\ BlockReceiver(rx)
  /\ ReceiveDone
  /\ UNCHANGED <<priority, keys, desc, expected, current, pendsv, gateVars,
                 generation, irqVars, reply, panicked>>

\* Receiving from anything else that is not a Gate's service key fails at once
\* with bad_operation; the keys are left alone.
ReceiveRefused ==
  /\ phase = "receive"
  /\ ~ (Get(src) = rx /\ src.brand = ReplyBrand(rx))
  /\ Get(src) \in Gate => src.brand.hi
  /\ desc' = [desc EXCEPT ![rx] = NoDescriptor]
  /\ ReceiveDone
  /\ UNCHANGED <<state, priority, keys, expected, schedVars, gateVars,
                 generation, irqVars, reply, panicked>>
=============================================================================
