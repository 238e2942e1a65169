----------------------------- MODULE KernelState -----------------------------
(***************************************************************************)
(* The state shared by the kernel's objects (k/ in the repository): the    *)
(* Contexts, the block queues of the Gates, the run queue, the key         *)
(* registers, the generations that make keys valid, the Interrupts, and    *)
(* the point the kernel has reached in the handler it is executing.        *)
(*                                                                         *)
(* The kernel is not reentrant.  A system call runs to its end before an   *)
(* interrupt is taken (SVC outranks every IRQ and an IRQ outranks PendSV), *)
(* so while phase is not "user" the only enabled action is the next step   *)
(* of the handler; the steps are split only where one handler calls into   *)
(* another object.                                                         *)
(*                                                                         *)
(* Message words are not modelled: a handler that reads one chooses its    *)
(* value among those the constants allow, since a program may send any.    *)
(***************************************************************************)
EXTENDS KLists

CONSTANTS
  Context, Gate, Interrupt,     \* the objects of each kind
  NullObject, ObjectTable,      \* entries 0 and 1 of the object table
  NKeys,                        \* config::n_task_keys
  NMsgKeys,                     \* config::n_message_keys
  Descriptor                    \* the system call registers programs load

Reg    == 0 .. (NKeys - 1)
MsgKey == 0 .. (NMsgKeys - 1)
Object == {NullObject, ObjectTable} \cup Context \cup Gate \cup Interrupt

\* A Brand is 64 bits: hi is the most significant (transparent_mask of a Gate,
\* reply_brand_mask of a Context), n the other 63.
Brand == [hi : BOOLEAN, n : Nat]
Key   == [obj : Object, gen : Nat, brand : Brand]

\* What a program loads for an IPC: the descriptor's phase bits and key
\* registers, and the key maps of r10 (sent keys) and r11 (received keys).
AnyDescriptor == [send : BOOLEAN, recv : BOOLEAN, block : BOOLEAN,
                  target : Reg, source : Reg,
                  sent : [MsgKey -> Reg], rx : [MsgKey -> Reg]]

ASSUME KernelAssumption ==
  /\ NKeys \in Nat \ {0}
  /\ NMsgKeys \in Nat \ {0, 1}
  /\ NullObject # ObjectTable
  /\ {NullObject, ObjectTable} \cap (Context \cup Gate \cup Interrupt) = {}
  /\ Context \cap Gate = {}
  /\ Context \cap Interrupt = {}
  /\ Gate \cap Interrupt = {}
  /\ Descriptor \subseteq AnyDescriptor

VARIABLES
  \* the Contexts (Context::Body)
  state,          \* State: stopped, runnable, sending, receiving
  priority,       \* the level the Context's list items are filed under
  keys,           \* its key registers
  desc,           \* its saved system call registers, while an IPC it began
                  \* is unfinished; the message received overwrites them
  expected,       \* expected_reply_brand, the 63 low bits
  \* the scheduler (scheduler.cc)
  runnable, current, switchPending,
  pendsv,         \* the PendSV exception is pending
  \* the Gates (Gate::Body): who waits to receive, who waits to send
  receivers, senders,
  \* every Object
  generation,
  \* the Interrupts (Interrupt::Body) and what the NVIC keeps for them
  irqTarget, enabled, pending,
  redirected,     \* its entry in the redirection table points to it
  \* the handler being executed
  phase,          \* user, receive, serve, reply, exit, irqexit, panic
  rx, src,        \* in "receive": the Context receiving, and through what key
  job,            \* a message for a kernel object, handled after the sender's
                  \* own receive phase
  reply,          \* in "reply": the ScopedReplySender about to fire
  panicked        \* the reason given to PANIC

contextVars == <<state, priority, keys, desc, expected>>
schedVars   == <<runnable, current, switchPending, pendsv>>
gateVars    == <<receivers, senders>>
irqVars     == <<irqTarget, enabled, pending, redirected>>
handlerVars == <<phase, rx, src, job, reply, panicked>>
vars == <<contextVars, schedVars, gateVars, generation, irqVars, handlerVars>>

-----------------------------------------------------------------------------
(* Keys *)

NoBrand == [hi |-> FALSE, n |-> 0]
NullKey == [obj |-> NullObject, gen |-> 0, brand |-> NoBrand]

\* A faulty make_key: a key that outlives the next invalidation.
MakeKeyFault(o, b) == [obj |-> o, gen |-> generation[o] + 1, brand |-> b]

\* Object::make_key and Key::filled: a key carries the present generation.
MakeKey(o, b) == [obj |-> o, gen |-> generation[o], brand |-> b]

\* A faulty Key::get: the generation is not compared.
GetFault(k) == k.obj

\* Key::get: a key made before its object was last invalidated is a null key.
Get(k) == IF k.gen = generation[k.obj] THEN k.obj ELSE NullObject

\* Context::make_reply_key and the brand it is compared with.
ReplyBrand(c) == [hi |-> TRUE, n |-> expected[c]]
ReplyKey(c)   == MakeKey(c, ReplyBrand(c))

\* Context::is_awaiting_reply: receiving, but on no Gate's queue.
AwaitingReply(c) ==
  state[c] = "receiving" /\ \A g \in Gate : c \notin Linked(receivers[g])

\* The key KeysRef::set leaves in register r, of those mapped to it.
LastInto(d, r, i) == d.rx[i] = r /\ \A j \in MsgKey : j > i => d.rx[j] # r

\* A faulty KeysRef::set: register 0 is written like any other.
StoredFault(c, ks) ==
  [r \in Reg |->
     IF \E i \in MsgKey : LastInto(desc[c], r, i)
     THEN ks[CHOOSE i \in MsgKey : LastInto(desc[c], r, i)]
     ELSE keys[c][r]]

\* Key registers c holds after ks are stored through its receive map (KeysRef
\* with _defend_k0): register 0 is never written, and when the map names a
\* register twice the later key stays.
Stored(c, ks) ==
  [r \in Reg |->
     IF r # 0 /\ \E i \in MsgKey : LastInto(desc[c], r, i)
     THEN ks[CHOOSE i \in MsgKey : LastInto(desc[c], r, i)]
     ELSE keys[c][r]]

\* Descriptor::is_call.
IsCall(d) == d.recv /\ d.source = 0

\* The keys Context::on_delivery hands over, for a sender s that saved d: a
\* call sends a fresh reply key in place of its key 0.
Outgoing(s, d) ==
  [i \in MsgKey |-> IF i = 0 /\ IsCall(d) THEN ReplyKey(s) ELSE keys[s][d.sent[i]]]

\* Interrupt::on_delivery and ReplySender::on_delivery.
IrqKeys(i) ==
  [m \in MsgKey |-> IF m = 0 THEN MakeKey(i, NoBrand) ELSE NullKey]
ReplyKeys(k1) ==
  [m \in MsgKey |-> IF m = 1 THEN k1 ELSE NullKey]

-----------------------------------------------------------------------------
(* What a handler keeps on its stack *)

\* A message a kernel object has accepted, with the two keys handlers look at.
Job   == [obj : Object, brand : Brand, k0 : Key, k1 : Key]
\* Nothing to handle; also a message to the null object that nobody awaits.
NoJob == [obj |-> NullObject, brand |-> NoBrand, k0 |-> NullKey, k1 |-> NullKey]

\* A ScopedReplySender: where its reply goes and the key it carries.
Reply   == [to : Key, k1 : Key]
NoReply == [to |-> NullKey, k1 |-> NullKey]

\* No Context is in its receive phase, and no Context waits with registers.
NoContext    == NullObject
NoDescriptor ==
  [send |-> FALSE, recv |-> FALSE, block |-> FALSE, target |-> 0, source |-> 0,
   sent |-> [m \in MsgKey |-> 0], rx |-> [m \in MsgKey |-> 0]]

\* The handler goes on once the receive phases are done.
Rest(j) == IF j = NoJob THEN "exit" ELSE "serve"

\* PANIC_IF, PANIC_UNLESS and ALWAYS_PANIC_UNLESS: the kernel stops.
Panic(reason) == phase' = "panic" /\ panicked' = reason
=============================================================================
