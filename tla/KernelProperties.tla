--------------------------- MODULE KernelProperties ---------------------------
(***************************************************************************)
(* What the kernel promises about Contexts, queues and keys.               *)
(***************************************************************************)
EXTENDS Kernel

\* Every variable has its type, and a Context in its receive phase is one.
TypeOK ==
  /\ state \in [Context -> {"stopped", "runnable", "sending", "receiving"}]
  /\ priority \in [Context -> Prio]
  /\ keys \in [Context -> [Reg -> Key]]
  /\ desc \in [Context -> AnyDescriptor]
  /\ expected \in [Context -> Nat]
  /\ runnable \in List(Context)
  /\ current \in Context
  /\ switchPending \in BOOLEAN
  /\ pendsv \in BOOLEAN
  /\ receivers \in [Gate -> List(Context)]
  /\ senders \in [Gate -> List(Context \cup Interrupt)]
  /\ generation \in [Object -> Nat]
  /\ irqTarget \in [Interrupt -> Key]
  /\ enabled \in [Interrupt -> BOOLEAN]
  /\ pending \in [Interrupt -> BOOLEAN]
  /\ redirected \in [Interrupt -> BOOLEAN]
  /\ phase \in {"user", "receive", "serve", "reply", "exit", "irqexit", "panic"}
  /\ rx \in Context \cup {NoContext}
  /\ src \in Key
  /\ job \in Job
  /\ reply \in Reply
  /\ phase = "receive" => rx \in Context

-----------------------------------------------------------------------------
(* Block queues and the run queue.  Context::Body has one ctx_item and one  *)
(* sender_item; List::insert panics on a linked item and leaves a corrupt   *)
(* list if the check is compiled out.  The parts below say that a Context's *)
(* State and the queues its items are in always agree.                      *)

\* The run queue holds exactly the runnable Contexts, each once and at its
\* own priority.
RunQueueAgrees ==
  /\ Orderly(runnable, priority)
  /\ Linked(runnable) = {c \in Context : state[c] = "runnable"}

\* A Context queued to receive is in state receiving, on one Gate, once.
ReceiversAgree ==
  /\ \A g \in Gate :
       /\ Orderly(receivers[g], priority)
       /\ \A c \in Linked(receivers[g]) : state[c] = "receiving"
  /\ \A g, h \in Gate : g # h => Linked(receivers[g]) \cap Linked(receivers[h]) = {}

SenderLevels == [s \in Context \cup Interrupt |-> SenderPriority(s)]

\* A sender is queued on one Gate, once; a Context is queued exactly while its
\* state is sending.
SendersAgree ==
  /\ \A g \in Gate : Orderly(senders[g], SenderLevels)
  /\ \A g, h \in Gate : g # h => Linked(senders[g]) \cap Linked(senders[h]) = {}
  /\ \A c \in Context :
       state[c] = "sending" <=> \E g \in Gate : c \in Linked(senders[g])

\* A Context in its receive phase is runnable: block_in_receive unlinks it
\* from the run queue.
ReceiverRuns == phase = "receive" => state[rx] = "runnable"

\* Between handlers, and until a switch is pended, the current Context is
\* runnable.
CurrentRuns ==
  phase # "panic" /\ (phase \in {"user", "irqexit"} \/ ~ switchPending) =>
    state[current] = "runnable"

\* The queues agree with the states, through blocking, delivery, interruption,
\* changes of priority and invalidation.
QueueInv == RunQueueAgrees /\ ReceiversAgree /\ SendersAgree
            /\ ReceiverRuns /\ CurrentRuns

\* Gate::deliver_from and deliver_to never leave a sender and a receiver
\* waiting for each other.
NoMissedRendezvous ==
  \A g \in Gate : IsEmpty(receivers[g]) \/ IsEmpty(senders[g])

-----------------------------------------------------------------------------
(* Reply keys *)

\* The keys a program or the kernel could still use.
LiveKeys ==
  (UNION {Range(keys[c]) : c \in Context}) \cup Range(irqTarget)
    \cup {job.k0, job.k1, reply.to, reply.k1}

\* Whoever holds the reply key a Context expects, that Context is waiting for
\* it ("context not awaiting reply" cannot happen), or is on its way there.
ReplyKeysAwaited ==
  \A k \in LiveKeys :
    LET c == Get(k)
    IN c \in Context /\ k.brand = ReplyBrand(c) =>
         \/ AwaitingReply(c)
         \/ phase = "receive" /\ rx = c /\ Get(src) = c /\ src.brand = k.brand

\* No program may mint a key with a reply brand: the Object Table asks no object
\* whether it takes the brand, so only its clients' restraint keeps reply keys
\* genuine.
Unforged == \A m \in Mintable : m.obj \in Context => ~ m.brand.hi

\* "Unblocking from awaiting reply is supposed to advance the expected reply
\* brand" (context.cc:281): however a Context stops waiting for a reply, the
\* key it was waiting on is dead.
WaitEndsReplyKey ==
  [][\A c \in Context :
       AwaitingReply(c) /\ ~ AwaitingReply(c)' => expected'[c] # expected[c]]_vars

\* "After invalidation, an object will not be reachable through any Key"
\* (object.h:55), whether a program, an Interrupt or a pending reply holds it.
InvalidationRevokes ==
  [][\A o \in Object \ {NullObject} :
       generation'[o] # generation[o] => \A k \in LiveKeys' : Get(k)' # o]_vars

\* No program can write key register 0, the kernel's source of null keys.
Kr0Null == \A c \in Context : Get(keys[c][0]) = NullObject

\* PANIC is for errors in the kernel: programs do not reach one.
NoPanic == phase # "panic"

\* What the kernel leaves to the system's configuration.  An idle Context, ready
\* from the start, that nobody can revoke and whose program never waits; no
\* minted reply keys; and no key minted to an Interrupt that can be
\* invalidated, since the entry it had in the redirection table is gone.
SafeConfiguration ==
  /\ Unforged
  /\ \A m \in Mintable : m.obj \notin Interrupt \cap Revocable
  /\ \E idle \in Linked(InitRunnable) \ Revocable :
       \A d \in Program[idle] : ~ d.recv /\ (d.send => ~ d.block)

-----------------------------------------------------------------------------
(* Scheduling *)

\* "The head of this list is the same as current" (scheduler.h:65), whenever a
\* program is running.
HeadRuns ==
  phase = "user" /\ ~ pendsv =>
    ~ IsEmpty(runnable) /\ current = Peek(runnable)

\* Where priorities change, whoever sends a message to a Context's protocol
\* calls, and so blocks in its own receive phase: set_priority pends no switch,
\* the caller's wait does.
ControlIsCalled ==
  "set_priority" \in Selectors =>
    \A d \in Descriptor :
      SendToService(d) /\ Get(TargetKey(d)) \in Context /\ ~ TargetKey(d).brand.hi
        => IsCall(d)

\* Every entry into the kernel ends: a chain of receive phases, each served by
\* the next waiting sender, is finite.
KernelReturns == phase # "user" ~> phase \in {"user", "panic"}
=============================================================================
