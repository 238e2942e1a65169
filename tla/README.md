# A TLA+ model of brittle

This directory specifies the kernel of the repository (`src/k`), its system
server (`src/a/sys`), its UART driver (`src/a/drv/stm32f4/uart`) and the
simulated UART server that its hosted tests run (`src/sim`).  TLC checks the
specifications on small configurations; TLAPS proves the central invariants for
every configuration.  Paths below are relative to `src/`.

## The system

The kernel manages *objects*, entries of one fixed object table.  Programs
reach objects only through *keys* held in the key registers of the *Context*
they run in.  A system call sends a message through a key, receives one, or
both; everything else (starting a Context, changing a priority, revoking keys)
is a message to a kernel object.

| Part | Source | State it keeps | Operations |
|---|---|---|---|
| Priority list | `k/list.h` | circular sublist per level | insert, unlink, reinsert, take, peek |
| Keys | `k/key.*`, `k/keys.h` | brand, generation, object | fill, get, move through a key map |
| Scheduler | `k/scheduler.*` | `runnable`, `current`, `switch_pending` | pend and apply a switch, from a system call or through PendSV |
| Context | `k/context.*` | registers, key registers, state, priority, expected reply brand, two list items | `do_ipc`, `do_key_op`, deliver, block, the context protocol, invalidation |
| Gate | `k/gate.*` | waiting senders and receivers | rendezvous, `make_client_key` |
| Object table | `k/object_table.*` | the entries | mint, read, kind, invalidate |
| Interrupt | `k/interrupt.*`, `k/irq_entry.*` | target key, list item, redirection table entry | trigger, block, `set_target`, `enable`, invalidation |
| Reply sender | `k/reply_sender.*` | one message, on the stack | fires when the handler's scope ends |
| Memory, slots, become | `k/memory.*`, `k/become.*` | extent, parent, child count | split, make_child, become, change |
| Boot | `k/app.cc` | | builds the table and the first Context |
| Runtime | `a/rt` | free key registers | allocate, release |
| System allocator | `a/sys/alloc.cc` | slots used, a list of free Memory per size | allocate, split, free |
| Loader | `a/sys/load.cc` | | checks an image, allocates and fills its RAM, makes its Context |
| System server | `a/sys/main.cc`, `idle.cc`, `a/app/serial` | key registers | starts the application's programs; `map_memory`, `exit` |
| Stubs | `a/k` | | one per kernel operation, with an assertion on the answer |
| UART driver | `a/drv/stm32f4/uart` | the reply key of its caller | sends one character, waits for TXE |
| ASCII server | `a/srv/ascii` | | calls the driver for every character |
| Task simulator, mock | `sim/task.cc`, `mock.cc`, `stubs.cc` | key names, masked ports, a pipe each way | requests, answers, expectations |
| Simulated UART | `sim/uart.cc` | two saved reply keys, `flushing` | send1, flush, recv1, interrupts |

**How the parts interact.**  Inside the kernel objects call each other directly,
on its one stack.  A message goes to `Object::deliver_from`; the object calls
back the sender's `on_delivery`, which hands over the keys and, if the program
asked for it, starts the sender's *receive phase* at once, inside the callback.
That may find another sender waiting, whose own receive phase starts in turn.
Only then does the object handle the message, and its reply is a third delivery,
from a destructor.  An interrupt enters by the same `deliver_from`.  Programs
interact by messages only: the system server with the object table, Memory and
Contexts, a driver with its Gate and its Interrupt.  A simulated task talks to
the test that mocks its kernel over two pipes, one request at a time.

**What is hard.**

- One list item per Context serves the run queue and every Gate's receivers.
  Functions in four files move it; `State` and the queue must agree.
- A sender and a receiver can reach a Gate in either order and from three kinds
  of handlers.
- A reply key is an ordinary key that programs can copy.  It must work once,
  and only while its Context waits.
- Messages are handled after the sender's state has moved on: an operation may
  be applied to a Context that has blocked or been woken, and what was passed by
  reference may have changed.
- Interrupts cannot switch Contexts themselves; PendSV does, later.
- Revocation is by generation and lazy; the MPU caches what keys gave.
- The system server keeps its lists in the Memory they are lists of, and its
  keys in sixteen registers; any of its calls may fail half-way.
- The driver waits for an interrupt while it serves: a wakeup can come early, be
  left over from the character before, or never.

What makes each part correct is stated in its properties module (below); the
hazards, each at its line, are in `PROJECT.json`.

## The modules

    KLists <- KernelState <- KScheduler <- KContext <- KGate <- KProtocols
           <- KInterrupt <- Kernel <- KernelProperties <- MCIpc, MCControl, MCMint
                                                       <- KMessages <- MCBrand
       proofs: KernelQueueProofs <- KernelProofs <- KernelSafetyProofs
               <- KernelKeyProofs
    KMemory <- KMemoryProperties <- MCMemory
       proofs: KMemoryProofs
    SysAlloc <- SysLoad <- SysServer <- SysProperties <- SysScopes <- MCSys
       implements SysPool           proofs: SysProofs
    UartDriver <- MCUart         proofs: UartProofs
    SimTask <- SimUart <- MCSim  proofs: SimProofs

| Module | What it models |
|---|---|
| `KLists` | A `List` as a function from levels to sequences of owners; an item is linked when its owner occurs in one. |
| `KernelState` | Variables, keys, brands, key maps, and what a handler keeps on its stack. |
| `KScheduler` | `switch_now` and its three callers. |
| `KContext` | System calls; the two IPC phases; reply keys. |
| `KGate` | Both directions of the rendezvous, blocking and refusing to block. |
| `KProtocols` | The operations of Contexts, Gates, the object table and Interrupts, and the reply that ends each. |
| `KInterrupt` | The NVIC and device (external), `irq_redirector`, `Interrupt::trigger` and its outcomes. |
| `Kernel` | Initial states, `Next`, fairness. |
| `KernelProperties` | Type invariant, invariants, action and liveness properties. |
| `KMessages` | The kernel's steps with the brand a waiting receiver is told, and the register it is read from. |
| `KMemory` | Memory objects, slots, become, region registers, the MPU, invalidation with generations of a given width. |
| `KMemoryProperties` | The tree of Memory, who claims what, authority, revocation, and the MPU. |
| `SysAlloc` | The object table as the server's calls change it, its key registers, slots and free lists, `alloc_mem`, `free_mem`. |
| `SysPool` | What the allocator promises: RAM is free or owned, and nothing is lost. |
| `SysLoad` | `load_program`: every check, the RAM it needs, relocation. |
| `SysServer` | `main`, `make_idle_task`, `app_setup`, other applications' calls, and the service of system calls. |
| `SysProperties` | The free lists, key registers, what a running program has. |
| `SysScopes` | Which sequences of library calls keep to the scopes of their AutoKeys: the condition on applications that the proofs rest on. |
| `UartDriver` | The driver, its clients, the Gate and Interrupt between them, the NVIC and the transmitter; its properties. |
| `SimTask` | A task's requests and the simulator's answers; a test's expectations. |
| `SimUart` | The simulated UART server, its tests, and its properties. |

### The kernel

The kernel is not reentrant: `initialize_irq_priorities` gives SVC a higher
priority than interrupts and interrupts a higher one than PendSV.  A handler
thus runs to its end, and the model splits it only where it calls into another
object.  `phase` is the place it has reached:

| `phase` | next |
|---|---|
| `user` | a program runs: a system call, an interrupt, or a pending PendSV, which goes before any program |
| `receive` | `deliver_to` for the Context `rx` through the key `src` |
| `serve` | the handler of the kernel object that accepted the message `job` |
| `reply` | `~ScopedReplySender` fires `reply` |
| `exit` | `do_deferred_switch` |
| `irqexit` | `do_deferred_switch_from_irq` |
| `panic` | the kernel has stopped |

The nesting of C++ calls becomes the order of these steps.  A message to a Gate
with a receiver is transferred and then the sender's receive phase follows; a
message to a kernel object is set aside in `job`, the receive phase (and the
chain it starts) runs, and the handler runs when the chain has ended.

An IRQ that preempts PendSV before it has masked interrupts leaves PendSV pending
once more; the second run picks the same head and is left out.

`KMessages` adds two variables to these steps.  `lent` is the key register a
brand was passed from by reference (`k/key.cc:32`) and the brand it had then;
`told` is what `complete_blocked_receive` reads there in the end, when the
sender's receive phase may have put another key into the register.

### Memory

`KMemory` has a state of its own.  A message to a Memory, to a Context's region
registers or to the Object Table is one action: the handler calls no object
before its reply, and the sender's receive phase, which comes first, changes
neither the object table nor the MPU.  `held` is every key any program has been
given, which is all that matters to what can be asked next; it only grows, so
programs that share or hoard keys are covered.  What the receive phase can
change is the brand a Memory sees, as above: `Arriving` are the brands of the
keys that may arrive in the register the message was sent from, and a message is
handled with a held key or with one that has such a brand (`Seen`).  `object` is
the object table (an `ObjectHead` of a Memory keeps base, size, device
attribute, parent and number of children; a kernel object made by become keeps
the extent of its body), and `mpu` is what `apply_to_mpu` last loaded.  A
program that waits for the reply blocks, so a switch is pending at the end of
the call and `Exit` reloads the MPU; one that does not goes on as it is.  Which
Context is next is any, the scheduler being modelled in `KScheduler`.

The address space has 2^`AddrBits` addresses and extents are compared in that
width, as the code does in 32 bits; `GenSpace` is the number of generations.
Of a brand the fields that decide access are kept, the access permission and the
subregions disabled; a permission that is in no `Decoded` is one the
architecture leaves undefined.  `phase` says which panic was reached.

### System server

The kernel runs the server alone until it blocks, so its program is a sequence
`todo` of calls and a step does the first of them, or one pass of a loop in it.
A call may put the calls it makes in front.  An assertion that fails leaves the
server halted, with the reason in `result`.  An `AutoKey` in scope is an entry of
`local`, from the variable to the register it holds; leaving the scope releases
it.  `object`, `generation` and `keys` are the table and the server's key
registers as the kernel's answers change them.  The links of the free lists are
words of the listed Memory, `next`; `mem_roots` are their roots.  Applications
are lists of calls: the serial one is `app_setup`; others make any few library
calls, with images and sizes from a set.  What a C++ compiler would not
let an application write is not excluded by the steps but by `SysScopes`, as a
condition on the applications.  Once the server blocks,
any program it has started may make a system call.

### UART driver

`pc` is the driver's place, between two accesses to the hardware or system
calls, where an interrupt or a client's call may come.  The driver and its clients run
at one priority, so calls and receives block and the Gate's queue is in order of
arrival.  The NVIC remembers an interrupt while it is disabled (`pending`,
`enabled`); a message of the Interrupt that finds nobody waiting blocks
(`irq_waits`).  The USART is its data register, its interrupt enable and the
shift register behind.

### Task simulator

A stub writes a request to one pipe and reads the response from the other;
`todo` are the server's statements that remain, `clist` and `masked_ports` what the
simulator keeps for it.  The test may do whatever keeps to the
protocol (play any client, and a USART that answers register reads), or
expect something else and fail.  Two sets that are not in the code keep account of
the callers: `unanswered`, who have no answer yet, and `ignored`, whose message
had a tag that its handler drops (`sim/uart.cc:163, 191, 243`) and who never get
one.  The server owes an answer to the others (`owed`).

### Abstractions

- Message words are not kept.  A handler that reads one (selector, register,
  index, priority) chooses it among the values of the configuration, since a
  program may send any.
- A saved descriptor is kept only while an IPC is unfinished, which is the only
  time the kernel reads it.  Writing registers through a Context key is an
  action only then: of a Context blocked in send, r4 (descriptor), r10 (keys to
  send) and r11 (where to receive keys); of one that receives, r11.  Writing
  the high block sets both maps, to zeros (`Rewritten`).
- Memory objects, regions and the MPU are in `KMemory`, apart from the Contexts'
  exchanges.
- `Key::get` overwrites a stale key with a null key.  No later read can tell,
  so the model computes the null object on every use.
- In `Kernel`, generations and reply brands are unbounded naturals and
  bounded by `MaxGen` and `MaxCalls` in the guards.
- Panics: "context not awaiting reply", "null IRQ redirector entry" and "no
  runnable Contexts" lead to `phase = "panic"`.  "node already in list" and
  "reinsert without insert" are what `QueueInv` excludes, and "kr0 written" what
  `Kr0Null` excludes.  "non-current Context block_in_send" cannot be
  expressed: only `BlockInSend`, of `current`, blocks a Context that sends.
- `free_mem` passes on the object table's refusal to roll a generation over; no
  generation gets there while the application starts, and the refusal is left
  out.
- In `UartDriver` a write reaches its register at once, and a store to NVIC or
  USART is not overtaken by the next access.  Writing DR is taken to clear TC
  in `SimUart`.
- `SimTask` leaves out `null_cap`, which no stub issues.
- Operators named `...Fault` are deliberate defects of the definition that
  follows them: a forgotten switch, a guard that is gone, a brand that does not
  advance.  Nothing uses them; substituted for that definition, each makes TLC
  find a property violated, so the properties depend on the code they are about.

## Properties

Of the kernel:

- `QueueInv`: the state of every Context and the queues its items are in agree;
  every queue is in order, without duplicates and filed by present priority;
  the Context in a receive phase and, between handlers, the current Context,
  are runnable.
- `NoMissedRendezvous`: no Gate has both a waiting sender and a waiting receiver.
- `ReplyKeysAwaited`: whoever holds the reply key a Context expects, that
  Context waits for it or is about to.
- `WaitEndsReplyKey`: however a wait for a reply ends, the reply key dies.
- `InvalidationRevokes`: once an object is invalidated no live key reaches it.
- `Kr0Null`: key register 0 stays null.
- `NoPanic`: the kernel does not panic.
- `HeadRuns`: a program that runs is the head of the run queue.
- `KernelReturns`: every entry into the kernel ends.
- `BrandOfKeyUsed`: a receiver is told the brand of the key the message was sent
  through.

Of Memory:

- `TreeAgrees`: children are counted exactly, have a Memory for parent and lie
  within it.
- `OnlySplitChildrenOverlap`: roots do not overlap and the body of a kernel object
  is in no Memory (`RootsDisjoint`, `BodiesPrivate`: the manual's words), and no
  step but the split of a child ends that.
- `DeviceSticky`: every extent is part of one of boot, of the same attribute: no
  kernel object lies in device registers.
- `NoAmplification`: no combination of operations makes an address reachable
  that no key reached before, unless a brand of more access arrives in the
  register a message is sent from.
- `RevocationKills`: no dead key comes back to life, whatever is revoked or
  reused, but by the reuse of an entry at its last generation.
- `MpuFresh`: while a program runs, the MPU holds what its keys give now.

Of the system server:

- `FreeListsSound`: every free list ends and holds Memory of its size, each once;
  no two objects in RAM overlap.
- `KeysBalanced`: key registers are taken and released exactly, on failing paths
  too, and sixteen suffice.
- `ProgramsComplete`: a program that can run has live keys to itself, its code, stack and
  relocated pointers within its regions, and for a driver an Interrupt that
  sends to its Gate.
- `IdleFirst`: the idle Context runs before anybody may block.
- `MapsOnlyCaller`: `map_memory` changes no program but its caller.
- `PoolImplemented`: the allocator implements `SysPool`; a unit of RAM is free or
  owned, changes hands in whole blocks, and is lost only when slots run out.
- `ServesExtraSlots`: slots are handed out from the extra entries only.

Of the UART driver:

- `CharactersKept`: no character overwrites another, and none is reported sent
  before it has left the data register.
- `WakeupNotLost`: the driver never waits for an interrupt that cannot come.
- `RepliesToCaller`: the reply key the driver keeps is that of a caller that waits.
- `Answered`: whoever calls to send a character is answered.

Of the simulated UART:

- `RepliesKept`: the reply key of each caller whose message a handler knows is
  where the server will look for it, whatever keys arrive meanwhile, and when
  the server receives again nobody is unanswered but a flush under way and those
  whose tag no handler knows (`ignored`).
- `CharactersKept`: a character is written only to an empty register.
- `TxWakes`: a masked transmit port has an interrupt coming that unmasks it.

## Runs

| Run | Configuration | Bounds |
|---|---|---|
| `MCIpc` | two clients, of the driver's priority and below, a driver that serves them and its Interrupt on one Gate, an idle Context | 2 calls per Context |
| `MCControl` | client, server, idle, and a supervisor with their Context keys, who writes their descriptors and key maps, and the object table | 4 calls, 1 invalidation per object |
| `MCMint` | a supervisor that may mint any key, a client, an Interrupt | 3 calls, 1 invalidation |
| `MCBrand` | two clients, a server, a collector of its answers, idle; one Gate for requests and one for answers | 2 calls |
| `MCSendOnly` | `MCControl` with send-only control messages and equal priorities | 4 calls |
| `MCMemory` | one Memory and one device Memory, three slots, two Contexts: change, split, make_child, become | 4 messages, extents on the edges of both |
| `MCMemKeys` | one Memory and one slot; all operations, with region registers, minting and revocation | 5 messages, 4 generations |
| `MCMemRevoke` | invalidations that wait for no reply | 5 messages |
| `MCSys` | the serial application with slots to spare and with too few; other applications, with 20, 5 and no slots | 4 KiB of RAM, 64 KiB of addresses; 3, 3 and 2 library calls |
| `MCSlots` | the serial application with 6 slots | same |
| `MCUart` | two ascii servers and a client that sends anything | none |
| `MCSim` | the server under tests of any length | 3 key names, 5 key registers |

`MCBrand`, `MCSendOnly`, `MCMemRevoke` and `MCSlots` are the findings below; the
others pass.  The bounds are small on purpose and enough for what they ask.

In the kernel every pair of concurrent roles is there (two senders at different
priorities, a client that blocks before its server listens and one that would
rather not, a server that calls its client back, a waiter and its interrupter, an
interrupt on top of an undelivered one), a reply key is used, kept until it is
stale and used again within two calls, and one invalidation already leaves keys
of two generations.  `NMsgKeys`
is 2 (the code has 4) because handlers look at keys 0 and 1 only; key registers
are as many as the programs name.  Symmetry is not used there: the programs differ.

For Memory, sixteen addresses hold two roots side by side and extents that are
too small to map, not aligned, at the end of the address space or past it; three
slots are enough for siblings that overlap, a child of a child, a split within
such a tree, and what may become of its root.  The slots of `MCMemory` are
interchangeable, and it is checked up to their permutation.  With four generations
and five messages, `MCMemKeys` has revocations and reuse reach the last generation
of an entry and go past it.  `MCMemory` lets the brand of an Interrupt's message
arrive (an access that is none), `MCMemKeys` the strongest.

The system server has the kernel's real object sizes; its memory map is scaled
down to what makes the loader's allocations split blocks of every size.  The
other applications load images that are misaligned, too large, wrong in each
field of their header, at the end of their Memory, or with sizes whose sum wraps.

`MCUart` and `MCSim` have finitely many states without a bound.

`CHECK_DEADLOCK` is off where a configuration may stop: a Context of the kernel
models whose calls are used up has no step, the idle Context makes no system
call, a panic or a failed assertion is final, and so is a failed test.  In
`MCUart` nothing stops and deadlock is checked.

`MCIpc` and `MCControl` show that ordinary programs, supervisors and drivers
cannot panic the kernel, which takes an idle Context: if the last Context
blocks, "no runnable Contexts" is reached, as in `MCMint`.

### Where the code and its comments disagree

- `MCSendOnly`: `set_priority` refiles a Context and does not pend a switch.
  When the message waits for no answer nothing else does, and the running
  Context stays although it is not the head (`scheduler.h:64-65`).
- `MCBrand`: a brand is passed by reference into the sender's key register and
  read after the sender's receive phase (`k/context.cc:132`).  A server that
  answers through a Gate key in the register its next request's key arrives in
  makes the receiver see the brand of the latter (`doc/manual/arch/syscalls.rst:257`).
- `MCMemRevoke`: `Object::invalidate` reloads the MPU before the generation
  advances, and a program that does not wait for the reply keeps its access
  (`doc/manual/kor/memory.rst:95`, `k/object.h:64`).  Any switch ends it, which
  is why `MpuFresh` holds where every call waits.
- `MCSlots`: the slot allocator counts one fixed object too many
  (`a/sys/alloc.cc:28`, `common/abi_sizes.h:12`), never uses the first extra slot,
  and ends by handing out an index beyond the table.

Other divergences are in the models, where their actions show them, without a run
of their own:

- `Memory::deliver_from` looks at the same reference after the sender's receive
  phase, so split and change may answer with a key of the brand that arrived.
  With a stronger brand in `Arriving`, `NoAmplification` is violated; `MCMemory`
  shows that it holds when only the brand of an Interrupt arrives.  The line
  itself is the finding of `MCBrand`.
- A block write of registers takes the words from the reply under construction,
  which are zero, and not from the message (`k/context.cc:418-427`).
- An invalidated Interrupt is gone from the redirection table but remains an
  object, and can be enabled with a new key; its next interrupt finds a null
  entry and panics (`k/interrupt.cc:154`, `k/irq_entry.cc:27`).
- split leaves both halves without a parent (`k/memory.cc:356-358`), so that the
  halves of a child are roots within their former parent, which may be a root:
  roots overlap (`doc/manual/kor/memory.rst:35-37`).  That parent counts no children
  any more, and may become a kernel object (`k/become.cc:46`) whose body is in
  Memory that programs hold (`doc/manual/kor/memory.rst:44-48`).  So `RootsDisjoint`
  and `BodiesPrivate`, as invariants of `MCMemory`, are violated after two messages
  and after three; what `MCMemory` checks, `OnlySplitChildrenOverlap`, is that no
  other operation does either.
- The handlers of the simulated UART drop a message of an unknown tag together with
  its reply key (`sim/uart.cc:163, 191, 243`), and its caller waits for ever; servers
  agree to answer calls (`doc/manual/arch/syscalls.rst:265-266`).  These callers are
  `ignored`; asked to leave nobody unanswered but a flush, `MCSim` is violated.
- peek and poke do not look at the key's permission (`k/memory.cc:259`,
  `doc/manual/kor/memory.rst:357`).
- `PanicInMakeChild`: `contains` adds in 32 bits and lets an extent that wraps
  through to the constructor, whose precondition (`k/memory.h:61`) panics.
- `PanicInChange`: `change` decodes the permission of the key itself, which may
  have been minted undefined (`k/memory.cc:144`).
- `PanicInKernelReply` and `UnexpectedReply`: `mint_key` will make the reply key
  a Context *expects* before it waits; using it reaches the PANIC that
  `context.cc:281-282` explains away.
- split, make_child and become advance a generation without the test for its
  roll-over that `do_invalidate` makes (`ReuseRollsOver`).
- `alloc_mem` loses the block it has taken when no slot is left
  (`a/sys/alloc.cc:141-146`); `SysPool` allows it then, as `Lose`.
- `Region::contains` takes the end of a Memory for part of it
  (`a/k/memory.h:27-29`), and the words of a header are peeked before the header
  is known to fit (`a/sys/load.cc:166-179`); both end in a failed assertion.
- The sum of a header's sizes wraps (`a/sys/load.cc:104`).
- `map_memory` with an index that is no region's fails an assertion of the server, and `exit`
  never returns: either ends the service for every program.
- A call with an unknown selector is answered through key register 0
  (`a/drv/stm32f4/uart/main.cc:165-172`), so `Answered` is about callers that send.
- In the simulator, `revoke_key` looks at key registers 0 to 3 only
  (`sim/task.cc:177`); the mock's `and_return` ignores its argument
  (`sim/mock.cc:140`); the `call` stub writes a `SendRequest`
  (`sim/stubs.cc:79`); and RxNE is enabled by the first receive, so a test must
  set it for a character to be reported before (`sim/uart.cc:76-80, 238`).

The panics are in builds with consistency checks; `DISABLE_KERNEL_CONSISTENCY_CHECKS`
removes all but `decode_ap`'s and "no runnable Contexts".

## Fairness

The kernel's `FairSpec` asks weak fairness of the steps inside the kernel and of
the PendSV switch, nothing of programs or devices.  The processor executes the
instructions of a handler it has entered, and PendSV goes before any program.
`KernelReturns` uses the first; an interrupt that is raised for ever may keep
programs from running, and no property denies it.

The UART's `FairSpec` asks weak fairness of the driver and of the hardware (the
shift register, the line, the NVIC), nothing of clients: they need not ask.  The
driver is scheduled in turn with the programs of its priority, which block as
soon as they call.  `Answered` needs the Gate's queue to be first come, first
served; nothing is assumed of it.

## Proofs

`tlapm` checks, from the named assumptions on the constants alone
(`NPrioAssumption`, `KernelAssumption`, `ProgramAssumption`,
`ProtocolAssumption`, `InitAssumption`, `MemoryAssumption`, `SysAssumption`,
`ServerAssumption`, `ScopesAssumption`, `PowersAssumption`, `UartAssumption`,
`SimAssumption`) and the conditions in the last column:

| Theorem | Says | If |
|---|---|---|
| `TypeCorrect` | `Spec => []TypeOK` | |
| `QueuesAgree` | `Spec => []QueueInv` | |
| `RendezvousNeverMissed` | `Spec => []NoMissedRendezvous` | |
| `EveryWaitEndsReplyKey` | `Spec => WaitEndsReplyKey` | |
| `Kr0StaysNull` | `Spec => []Kr0Null` | |
| `HeadAlwaysRuns` | `Spec => []HeadRuns` | `[][ControlIsCalled]_vars` |
| `InvalidationAlwaysRevokes` | `Spec => InvalidationRevokes` | |
| `ReplyKeysAlwaysAwaited` | `Spec => []ReplyKeysAwaited` | `Unforged` |
| `KernelNeverPanics` | `Spec => []NoPanic` | `SafeConfiguration` |
| `MemoryTypeCorrect` | `Spec => []TypeOK` | |
| `TreeAlwaysAgrees` | `Spec => []TreeAgrees` | |
| `RevocationIsFinal` | `Spec => RevocationKills` | `RolloverRefused` |
| `MpuStaysFresh` | `Spec => []MpuFresh` | `RolloverRefused`, `InvalidationWaits`, `[][~ ReuseRollsOver]_vars` |
| `OnlySplittingChildrenOverlaps` | `Spec => OnlySplitChildrenOverlap` | |
| `ApartUntilChildIsSplit` | `Spec => [](RootsDisjoint /\ BodiesPrivate)` | `BootApart`, `[][~ SplitsChild]_vars` |
| `DeviceAttributeSticks` | `Spec => []DeviceSticky` | |
| `AuthorityOnlyShrinks` | `Spec => NoAmplification` | `NothingAdded`, `[][~ ReuseRollsOver]_vars` |
| `FreeListsStaySound` | `Spec => []FreeListsSound` | |
| `KeysStayBalanced` | `Spec => []KeysBalanced` | |
| `IdleComesFirst` | `Spec => []IdleFirst` | |
| `MapsOnlyTheCaller` | `Spec => MapsOnlyCaller` | |
| `UartCharactersKept` | `Spec => []CharactersKept` | |
| `UartWakeupNotLost` | `Spec => []WakeupNotLost` | |
| `UartRepliesToCaller` | `Spec => [](TypeOK /\ RepliesToCaller)` | |
| `KnownTagsAnswered` | `Spec => []RepliesKept` | |
| `NoCharacterLost` | `Spec => []CharactersKept` | |
| `TransmitterWakes` | `Spec => []TxWakes` | |

The first nine are of `Kernel`, the next eight of `KMemory`, then four of
`SysServer`, three of `UartDriver` and three of `SimUart`.

**The kernel.**  `QueueInv` with `TypeOK` is inductive, which is why its parts
are what they are: `RunQueueAgrees` alone is not, since a Context that is
received from must be known to be in no run queue (`SendersAgree`), one that is
interrupted in no second Gate (the disjointness in `ReceiversAgree`), the one
that blocks must be linked (`ReceiverRuns`, `CurrentRuns`).  `Inv` regroups
the same conjuncts by what steps disturb: `Queues` (states, priorities, lists),
`Data`, `Handler` and the two facts on who runs.

- `KernelQueueProofs` first proves what the list operators do: `InsertOrderly`,
  `UnlinkOrderly` and `PeekList` are used everywhere.  Then it has one lemma per
  way of moving a Context or Interrupt: blocking as sender or receiver, waking
  from each kind of wait, refiling, and invalidation.  Each says that the move
  keeps `Queues`.
- `KernelProofs` shows of each action that it makes one of those moves and
  leaves `Data` and `Handler` well formed.
- `KernelSafetyProofs` classifies steps by what they do to queues, to a Context
  that awaits a reply, to the scheduler and to key registers, and derives the
  theorems up to `HeadAlwaysRuns`.
- `KernelKeyProofs` follows keys: `NextFlow` says of every step that each key it
  leaves anywhere was there before or is made just now (`KeptOrMade`).

`HeadRuns` holds between handlers only.  Within one (`HeadKept`) the current
Context is the head unless a switch is pended, since whatever moves in the run
queue pends one, but for the invalidation of a Context that does not run, which
takes nothing from in front of the head, and `set_priority`.  There the caller's
own wait for the reply has pended it already (`ControlHeld`), if it calls
(`ControlIsCalled`, which `MCControl` satisfies and `MCSendOnly` does not).

Keys are of the time (`KeysOfTheTime`: none is of a generation to come), so an
object that was invalidated has left every key behind; that needs nothing of
programs.  That only reply keys of Contexts that wait are live needs more: a
reply key is handed over before its maker blocks, so between the two it is *on
its way* (`src` of the receive phase) or already stored; and nobody may mint one
(`Unforged`).  The panics then go one by one (`WhoPanics`): a reply nobody awaits
contradicts the former; a missing redirection entry takes an Interrupt that was
invalidated, disabled then, and enabled again through a key that cannot exist
(`Retired`); and "no runnable Contexts" takes that the idle Context has left the
run queue, which neither its own program, nor anybody's message, nor an
invalidation does (`Ready`).  `SafeConfiguration` says so of programs; TLC
evaluates it for `MCIpc` and `MCControl`, and `MCMint`, which has none of it, panics.

**Memory.**  `KMemoryProofs` proves that `MemoryInv` is inductive: the tree, the
types and the fact that no extent passes the end of the address space, without
which `Contains` would not mean containment.  `DetachedAgrees` is the heart of
it, shared by split and become: the object rewritten in place is a leaf, so
nobody points to it, and `~Memory` takes exactly it off its parent's children.
The assumption on the initial table is what `create_memory_objects` makes: roots
without children whose extents end.

The second half of the module builds on it.  That no key is newer than its object
(`NoKeyAhead`) holds as long as no generation goes back (`Grows`), and a
generation that advances leaves every old key behind.  `RolloverRefused` says
that invalidations leave the flag alone that would have the generation rolled
over; then `do_invalidate` refuses at the last one, however few there are, and
the only step that can still take a generation back is the reuse of an entry by
split, make_child or become, which have no such test (`ReuseRollsOver`).
`RevocationKills` excepts that step itself; the theorems on the MPU and on
authority, which speak of every later state, are about behaviours without it.
For the MPU, `Fresh` adds that what was loaded is what the keys of `current` give
unless a switch is pending; `InvalidationWaits` excludes send-only invalidations,
for which `MCMemRevoke` shows it false.

Who claims an address takes that the tree is one.  `TreeAgrees` says of each
child that its extent lies in its parent's, which would allow two equal extents to
be each other's parents; `Forest` adds ranks, which fall from child to parent.  A
Memory that overlapped a leaf root without being a root would have a parent that
does so too, and of these the one of least rank has none (`LeafRootAlone`).
That is what become needs, whose Memory is a leaf root; split divides what
was its own, and make_child makes no root.  So nothing but the split of a
child breaks `RootsDisjoint` or `BodiesPrivate` (`OnlySplittingChildrenOverlaps`),
and until one is split they hold (`ApartUntilChildIsSplit`), if the Memory of
boot lies apart (`BootApart`).  The attribute of a device has no such exception.
All of this holds for any `Arriving`.

`NoAmplification` holds when nothing is added from outside (`NothingAdded`: no
generation rolled over, no minted key, no access in a brand that arrives, region
registers that start with what held keys give), which `MCMemory` satisfies.  Its
run leaves the region registers out, for their number of states; the theorem has
them.  `Authority` is inductive: what a region register holds, a held key covers,
so a key read back from one adds nothing.  Every operation then gives no more
than it takes (`ChangeGivesNothing`, `SplitGivesNothing`, `MakeChildGivesNothing`,
`BecomeGivesNothing`): the new key has an extent within the old one's and a
permission no wider.

**The system server.**  `SysProofs` takes any memory map, table, images and sizes,
and any applications whose calls keep to the rules that the language and the
library put on a C++ program.  `SysScopes` states these: no AutoKey is used out
of its scope or named like another in it, a `Maybe` is looked into before its key is
used, at most so many are in scope that three registers are left, and what
becomes a kernel object is Memory from `alloc_mem`.  A *scope* says what is known of
each variable between two calls; `After` computes it from the calls alone, and
`ScopesAssumption` asks that every call of an application be `Allowed` in the
scope it is made in.  It says nothing of what calls do, or of which of them
fail.  TLC evaluates it for every application of `MCSys` and `MCSlots`.  The same assumption
has the entries of the memory map and the images outside of the application's
RAM.  `PowersAssumption` says what the powers of two are that `Bytes` takes
them to be, since the prover does not know how `^` grows; TLC evaluates it too.

`Inv` is inductive, and has four parts:

- `Memories`: objects in the application's RAM are apart (`Placed`); objects on
  free lists have a *rank*, which falls along the links (`Ranked`), so a list
  cannot come back to where it has been; and a live key in a variable is to an
  object of rank 0, to which no other variable has a live key (`Holdings`).
  Without the last, `free_mem` could put an object on a list twice, and a split
  could move one that somebody uses.
- `Registers`: `KeysBalanced`, and each register in use is none of the fixed ones.
- `Programs`: the syscall key a program has been given names the program itself.
- `Control`: what remains of `todo` is allowed, after the scope that fits the
  state (`Fits`), or is an iteration of `alloc_mem`'s second pass on top of that
  (`Descending`), or a load that has failed and gives its RAM back (`Freeing`,
  `Failing`).

There is one lemma per call, on what it does to each part (`SplitStep`,
`FreeMemStep`, `LoadProgramStep`); `OkMain` says that the calls of `main` itself are
allowed from the reset on.  Registers cannot run out because `Deep` leaves room for
the three AutoKeys that the allocator's loop holds at once.  That every list
ends within the number of table entries (`ListsEnd`) follows from the ranks:
objects seen on a walk have different ranks, so a walk that has not ended has
seen more objects than the table has, given that the null object links to
nothing (`NullEnds`).  The idle Context stays what it is because `main` releases
the only key to it before anything else can be started.

**The driver.**  `IInv` adds to the properties `Irq`: at each place of the
driver, how far the interrupt of the character in hand has come, and outside of
that that there is none in any stage (`Quiet`).
`CharactersKept` is not inductive: that an interrupt means an empty register
holds because the pending bit is cleared with every enable.

**The simulator.**  The server's control is the sequence `todo` of statements it
has yet to execute.  `SimProofs` gives each of the 41 places in its code a label,
and `On(l, todo)` says that `todo` is what the code does from `l` until it receives
again; `HandlerPath` and `BranchPath` show that of what handlers and branches put
there.  `Transmitter`, `Copies` and `Callers` then say what holds at each label:
of the transmit port, its interrupts and the data register, of the handler's
copies of the registers, and of those who wait for an answer.  The properties are
not inductive by themselves: that the copy of CR1 is what the register holds when
it is written back (`Copies`) is what keeps an interrupt from being lost, and a
flush is answered in time because nothing is written while one is under way
(`Flushing`).
A statement takes effect when the test answers it, so what holds is said of the
place whose effect is next (`Place`).  `SimAssumption` says that the keys which the
server keeps are beyond those that travel with messages.

**Only model-checked.**  Of the system server, `ProgramsComplete` and
`PoolImplemented`.  The first is about what a particular setup gives its programs and
what the loader computes from particular headers, and is not true of every
application that keeps to the scopes.  The refinement compares sets of units of
RAM, those of `Owned` with the regions of every program; `Inv` says of a live key in
a variable that its object is on no list, and nothing of the keys that programs
have been given.  `KernelReturns` and `Answered` are liveness, which is out of
the prover's reach.

## Not modelled, and why

- The pointers of `List` (next, prev, container): only `list.h` touches them,
  and membership with order is what its operations promise.
- The arena, the ABI token and the start of the scheduler: they run once,
  before any program, with constant arguments.  What boot leaves is the
  initial state of `Kernel`, `KMemory` and `SysAlloc`.
- Register files and their saving (`k/entry.S`, `a/rt/ipc.S`), unprivileged
  access (`k/unprivileged.S`), `crt0`, and fault handlers that loop for ever:
  register-level code whose effect is to copy words.
- `KMemory` composed with the exchanges of `Kernel`: which Context runs next is
  any in the one, what keys give access to does not matter in the other; the
  brand that passes between them is `Arriving`.
- The old demo (`demo/`), for an earlier interface; test doubles and unit tests;
  build files; vendored libraries.
