-------------------------------- MODULE KMemory --------------------------------
(***************************************************************************)
(* Memory objects (k/memory.cc, k/become.cc): the tree of parents and      *)
(* children, the keys that give access to them, and the MPU regions of the *)
(* Context that runs.                                                      *)
(*                                                                         *)
(* A message to a Memory, a Context's region registers or the Object Table *)
(* is one action, as no handler here calls another object before its reply *)
(* ("held" collects the keys of all programs, so who is answered does not  *)
(* matter).  Scheduling is only "any Context may be next"; KScheduler has  *)
(* the rest.                                                               *)
(***************************************************************************)
EXTENDS Integers, FiniteSets

CONSTANTS
  Entry,          \* entries of the object table
  NullObject,     \* entry 0
  Context,        \* the Contexts that may run
  NRegions,       \* config::n_task_regions
  AddrBits,       \* 32, scaled down: an address has this many bits
  AddrSpace,      \* 2 ^ AddrBits
  GenSpace,       \* 2^32: generations roll over
  MinMappable,    \* 32 bytes
  MinSubregions,  \* 256 bytes: smaller regions have no subregions
  BodySize,       \* kabi sizes of what a Memory may become
  AP,             \* the access permissions programs use
  Subregion,      \* subregions that can be disabled
  Ops,            \* the operations programs ask for
  SendOnly,       \* those they may ask for without awaiting the reply
  Arriving,       \* the brands of keys that programs, while they send, receive
                  \* into the register they send through
  Bases, Sizes,   \* the extents asked for by make_child
  Positions,      \* the positions asked for by split
  Mintable,       \* the keys asked of the Object Table: [obj, brand]
  Revocable,      \* the entries it is asked to invalidate
  RolloverOk,     \* the rollover flags given with invalidate
  MaxCalls,       \* bound: messages in a behaviour
  InitObject, InitHeld, InitRegions

\* Access permissions by privileged and unprivileged access (decode_ap): 0 is
\* none, 1 read, 2 write.  Any other is what ap_is_unpredictable rejects.
Decoded ==
  [none_none   |-> [priv |-> 0, unpriv |-> 0],
   read_none   |-> [priv |-> 1, unpriv |-> 0],
   read_read   |-> [priv |-> 1, unpriv |-> 1],
   write_none  |-> [priv |-> 2, unpriv |-> 0],
   write_read  |-> [priv |-> 2, unpriv |-> 1],
   write_write |-> [priv |-> 2, unpriv |-> 2]]
Predictable == DOMAIN Decoded

Reg     == 0 .. (NRegions - 1)
Gen     == 0 .. (GenSpace - 1)
Address == 0 .. (AddrSpace - 1)
\* Of a brand, the fields of the RASR value that matter to access.
Brand   == [ap : AP, srd : SUBSET Subregion]
Key     == [obj : Entry, gen : Gen, brand : Brand]
Kind    == {"null", "slot", "memory", "context", "gate", "interrupt"}
ObjectHead    == [kind : Kind, base : Address, size : 0 .. AddrSpace, device : BOOLEAN,
            parent : Entry, children : Nat]

ASSUME MemoryAssumption ==
  /\ NullObject \in Entry
  /\ Context \subseteq Entry \ {NullObject}
  /\ {NRegions, AddrBits, AddrSpace, GenSpace, MinMappable} \subseteq Nat \ {0}
  /\ AddrSpace = 2 ^ AddrBits
  /\ GenSpace > 1
  /\ MinSubregions \in Nat
  /\ BodySize \in [{"context", "gate", "interrupt"} -> Nat]
  /\ Bases \subseteq Address
  /\ Sizes \subseteq Address
  /\ Positions \subseteq Address
  /\ Mintable \subseteq [obj : Entry, brand : Brand]
  /\ Revocable \subseteq Entry \ (Context \cup {NullObject})
  /\ MaxCalls \in Nat
  /\ Arriving \subseteq Brand
  /\ "none_none" \in AP
  /\ IsFiniteSet(Entry)
  /\ InitObject \in [Entry -> ObjectHead]
  /\ InitObject[NullObject].kind = "null"
  /\ \A o \in Entry :
       /\ InitObject[o].parent = NullObject /\ InitObject[o].children = 0
       /\ InitObject[o].base + InitObject[o].size < AddrSpace
  \* make_key made the first keys, of the first generation.
  /\ InitHeld \subseteq Key
  /\ InitRegions \in [Context -> [Reg -> Key]]
  /\ \A k \in InitHeld : k.gen = 0
  /\ \A c \in Context, n \in Reg : InitRegions[c][n].gen = 0

VARIABLES
  object,       \* the object table: what each entry is
  generation,
  held,         \* the keys programs have been given
  regions,      \* the memory_regions of each Context
  current,
  mpu,          \* the regions loaded in the MPU
  phase,        \* user, exit; overflow, undecoded: a panic
  pend,         \* a switch is pending
  calls         \* messages so far (bounded by MaxCalls)

vars == <<object, generation, held, regions, current, mpu, phase, pend, calls>>

-----------------------------------------------------------------------------
(* Keys and regions *)

NullBrand == [ap |-> "none_none", srd |-> {}]
NullKey == [obj |-> NullObject, gen |-> 0, brand |-> NullBrand]

\* Key::get, in an object table of generations gs: what a key still reaches.
Get(gs, k) == IF gs[k.obj] = k.gen THEN k.obj ELSE NullObject

\* The constructor's test of a mappable extent.
Mappable(h) ==
  /\ h.size >= MinMappable
  /\ \E i \in 0 .. (AddrBits - 1) : h.size = 2 ^ i
  /\ h.base % h.size = 0

NoRegion == [base |-> 0, size |-> 0, brand |-> NullBrand]

\* get_region_for_brand of the object a key reaches.
Region(os, gs, k) ==
  LET h == os[Get(gs, k)]
  IN IF h.kind = "memory" /\ Mappable(h)
     THEN [base |-> h.base, size |-> h.size, brand |-> k.brand]
     ELSE NoRegion

\* Context::apply_to_mpu.
Applied(os, gs, rs) == [n \in Reg |-> Region(os, gs, rs[n])]

\* current->apply_to_mpu, when a handler has changed a Memory.
Reapplied(os, gs) == Applied(os, gs, regions[current])

\* The subregions a key disables.
Disabled(k) == Region(object, generation, k).brand.srd

Bumped(o) == (generation[o] + 1) % GenSpace

-----------------------------------------------------------------------------
(* Messages and their replies *)

\* Memory::deliver_from is given the brand by reference and looks at it after
\* on_delivery.  A program that sends and receives (a call receives nothing at
\* once) may by then have got another key in the register: the handler sees the
\* object of the one and the brand of the other.  KMessages has the mechanism.
Seen == held \cup {[k EXCEPT !.brand = b] : k \in held, b \in Arriving}

\* A program sends a message for operation op; the Memory's handler sees k.
Asked(op) == phase = "user" /\ op \in Ops /\ calls < MaxCalls
AskedOf(k, op) ==
  /\ Asked(op)
  /\ object[Get(generation, k)].kind = "memory"

\* The handler ends with a reply that carries the keys ks.  If a program waits
\* for it, the sender or another at a Gate, it gets the keys and a switch is
\* pending; if none does, the keys are lost and the sender keeps running.
Reply(op, ks) ==
  /\ phase' = "exit"
  /\ calls' = calls + 1
  /\ \E waits \in IF op \in SendOnly THEN BOOLEAN ELSE {TRUE} :
       /\ pend' = waits
       /\ held' = IF waits THEN held \cup ks ELSE held

\* PANIC_IF and PANIC: the kernel stops.
Panic(reason) ==
  /\ phase' = reason
  /\ UNCHANGED <<object, generation, held, regions, current, mpu, pend, calls>>

\* Memory::Memory, ~Memory.
NewMemory(base, size, device, parent) ==
  [kind |-> "memory", base |-> base, size |-> size, device |-> device,
   parent |-> parent, children |-> 0]
NewObject(kind, base, size) ==
  [NewMemory(base, size, FALSE, NullObject) EXCEPT !.kind = kind]

\* A faulty ~Memory: the parent is not told.
OrphanedFault(o) == object

\* The table once the Memory o is destroyed; NullObject stands for no parent.
Orphaned(o) ==
  IF object[o].parent = NullObject THEN object
  ELSE [object EXCEPT ![object[o].parent].children = @ - 1]

IsSlot(d) == object[Get(generation, d)].kind = "slot"

-----------------------------------------------------------------------------
(* The Memory protocol *)

\* inspect, peek, and every refusal: nothing but the reply.
ReadOrRefuse(k) ==
  /\ AskedOf(k, "inspect")
  /\ Reply("inspect", {})
  /\ UNCHANGED <<object, generation, regions, current, mpu>>

\* poke: a word within the Memory is written, whatever access the key confers.
Poke(k) ==
  /\ AskedOf(k, "poke")
  /\ object[k.obj].size > 0
  /\ Reply("poke", {})
  /\ UNCHANGED <<object, generation, regions, current, mpu>>

\* ap_is_stronger.
Stronger(a, b) ==
  \/ Decoded[a].priv > Decoded[b].priv
  \/ Decoded[a].unpriv > Decoded[b].unpriv

\* change: a key with another brand, of no more access.
Change(k) ==
  /\ AskedOf(k, "change")
  /\ Mappable(object[k.obj])
  /\ k.brand.ap \in Predictable
  /\ \E b \in Brand :
       /\ b.ap \in Predictable
       /\ ~ Stronger(b.ap, k.brand.ap)
       /\ k.brand.srd \subseteq b.srd
       /\ object[k.obj].size >= MinSubregions \/ b.srd = {}
       /\ Reply("change", {[k EXCEPT !.brand = b]})
  /\ UNCHANGED <<object, generation, regions, current, mpu>>

\* decode_ap of the key's own permission, which nothing has checked.
PanicInChange(k) ==
  /\ AskedOf(k, "change")
  /\ Mappable(object[k.obj])
  /\ k.brand.ap \notin Predictable
  /\ AP \cap Predictable # {}
  /\ Panic("undecoded")

\* A faulty do_split: the device attribute is not passed on.
UnmarkedFault(k, d, pos) ==
  LET h == object[k.obj]
  IN [Orphaned(k.obj) EXCEPT
        ![d.obj] = NewMemory(h.base + pos, h.size - pos, FALSE, NullObject),
        ![k.obj] = NewMemory(h.base, pos, h.device, NullObject)]

\* The donated slot becomes the top, this object the bottom, neither with a
\* parent.
Halves(k, d, pos) ==
  LET h == object[k.obj]
  IN [Orphaned(k.obj) EXCEPT
        ![d.obj] = NewMemory(h.base + pos, h.size - pos, h.device, NullObject),
        ![k.obj] = NewMemory(h.base, pos, h.device, NullObject)]

\* A faulty do_split: any position.
WithinFault(pos, size) == TRUE

Within(pos, size) == pos <= size

\* do_split.  All keys to either object die.
Split(k) ==
  /\ AskedOf(k, "split")
  /\ Disabled(k) = {}
  /\ object[k.obj].children = 0
  /\ \E pos \in Positions, d \in held :
       /\ Within(pos, object[k.obj].size)
       /\ IsSlot(d)
       /\ object' = Halves(k, d, pos)
       /\ generation' = [generation EXCEPT ![d.obj] = Bumped(d.obj),
                                          ![k.obj] = Bumped(k.obj)]
       /\ mpu' = Reapplied(object', generation')
       /\ Reply("split", {[k EXCEPT !.gen = Bumped(k.obj)],
                          [k EXCEPT !.obj = d.obj, !.gen = Bumped(d.obj)]})
  /\ UNCHANGED <<regions, current>>

\* A faulty contains: only the base is compared.
ContainsFault(h, base, size) ==
  base >= h.base /\ base - h.base <= h.size

\* contains, in 32-bit arithmetic.
Contains(h, base, size) ==
  /\ base >= h.base
  /\ base - h.base <= h.size
  /\ (base + size - h.base) % AddrSpace <= h.size

\* The constructor's precondition.
Overflows(base, size) == (base + size) % AddrSpace < base

\* A make_child that is accepted: of extent (base, size), for slot d.
Accepted(k, base, size, d) ==
  /\ AskedOf(k, "make_child")
  /\ Disabled(k) = {}
  /\ Contains(object[k.obj], base, size)
  /\ IsSlot(d)

MakeChild(k) ==
  /\ \E base \in Bases, size \in Sizes, d \in held :
       /\ Accepted(k, base, size, d)
       /\ ~ Overflows(base, size)
       /\ object' = [object EXCEPT
                       ![d.obj] = NewMemory(base, size, object[k.obj].device, k.obj),
                       ![k.obj].children = @ + 1]
       /\ generation' = [generation EXCEPT ![d.obj] = Bumped(d.obj)]
       /\ Reply("make_child", {[k EXCEPT !.obj = d.obj, !.gen = Bumped(d.obj)]})
  /\ UNCHANGED <<regions, current, mpu>>

PanicInMakeChild(k) ==
  /\ \E base \in Bases, size \in Sizes, d \in held :
       Accepted(k, base, size, d) /\ Overflows(base, size)
  /\ Panic("overflow")

\* A faulty check: a parent may become something else.
TotalFault(h) == ~ h.device /\ h.parent = NullObject /\ Mappable(h)

\* What become asks of the Memory.
Total(h) ==
  ~ h.device /\ h.children = 0 /\ h.parent = NullObject /\ Mappable(h)

\* become: the Memory's space is the body of a kernel object of its entry.
Become(k) ==
  /\ AskedOf(k, "become")
  /\ Disabled(k) = {}
  /\ Total(object[k.obj])
  /\ \E kind \in DOMAIN BodySize :
       /\ BodySize[kind] <= object[k.obj].size
       /\ object' = [object EXCEPT ![k.obj] = NewObject(kind, @.base, BodySize[kind])]
       /\ generation' = [generation EXCEPT ![k.obj] = Bumped(k.obj)]
       /\ mpu' = Reapplied(object', generation')
       /\ Reply("become", {[obj |-> k.obj, gen |-> Bumped(k.obj), brand |-> NullBrand]})
  /\ UNCHANGED <<regions, current>>

-----------------------------------------------------------------------------
(* The other objects' operations on Memory keys *)

\* read_region_register and write_region_register of Context c.
ReadRegion(c, n) ==
  /\ Asked("read_region")
  /\ Reply("read_region", {regions[c][n]})
  /\ UNCHANGED <<object, generation, regions, current, mpu>>

\* A faulty write_region_register: the running Context keeps its old region.
WriteRegionFault(c, n) ==
  /\ Asked("write_region")
  /\ \E k \in held \cup {NullKey} : regions' = [regions EXCEPT ![c][n] = k]
  /\ Reply("write_region", {})
  /\ UNCHANGED <<object, generation, current, mpu>>

WriteRegion(c, n) ==
  /\ Asked("write_region")
  /\ \E k \in held \cup {NullKey} : regions' = [regions EXCEPT ![c][n] = k]
  /\ mpu' = IF c = current THEN Applied(object, generation, regions'[c]) ELSE mpu
  /\ Reply("write_region", {})
  /\ UNCHANGED <<object, generation, current>>

\* do_mint_key: no Memory refuses a brand.
MintKey ==
  /\ Asked("mint_key")
  /\ \E m \in Mintable :
       Reply("mint_key", {[obj |-> m.obj, gen |-> generation[m.obj], brand |-> m.brand]})
  /\ UNCHANGED <<object, generation, regions, current, mpu>>

\* A faulty do_invalidate: any generation may be left.
MayRevokeFault(o, ok) == TRUE

\* do_invalidate refuses to roll a generation over unless told to.
MayRevoke(o, ok) == ok \/ generation[o] # GenSpace - 1

\* Object::invalidate: a Memory's hook applies the regions of the current
\* Context; after that the generation changes.
Invalidate(o) ==
  /\ Asked("invalidate")
  /\ \E ok \in RolloverOk : MayRevoke(o, ok)
  /\ mpu' = IF object[o].kind = "memory" THEN Reapplied(object, generation) ELSE mpu
  /\ generation' = [generation EXCEPT ![o] = Bumped(o)]
  /\ Reply("invalidate", {})
  /\ UNCHANGED <<object, regions, current>>

-----------------------------------------------------------------------------
(* The scheduler *)

\* switch_now: some Context is next and its regions are loaded.
SwitchNow ==
  \E c \in Context :
    /\ current' = c
    /\ mpu' = Applied(object, generation, regions[c])

\* do_deferred_switch, at the end of a system call.
Exit ==
  /\ phase = "exit"
  /\ IF pend THEN SwitchNow ELSE UNCHANGED <<current, mpu>>
  /\ pend' = FALSE
  /\ phase' = "user"
  /\ UNCHANGED <<object, generation, held, regions, calls>>

\* switch_after_interrupt.
Preempt ==
  /\ phase = "user"
  /\ SwitchNow
  /\ UNCHANGED <<object, generation, held, regions, phase, pend, calls>>

\* initialize_app: Memory and slots from the application's tables, and the
\* first Context's grants applied before it runs.
Init ==
  /\ object = InitObject
  /\ generation = [o \in Entry |-> 0]
  /\ held = InitHeld
  /\ regions = InitRegions
  /\ current \in Context
  /\ mpu = Applied(InitObject, [o \in Entry |-> 0], InitRegions[current])
  /\ phase = "user"
  /\ pend = FALSE
  /\ calls = 0

MemoryMessage(k) ==
  \/ ReadOrRefuse(k) \/ Poke(k) \/ Change(k) \/ PanicInChange(k) \/ Split(k)
  \/ MakeChild(k) \/ PanicInMakeChild(k) \/ Become(k)

Next ==
  \/ \E k \in Seen : MemoryMessage(k)
  \/ \E c \in Context, n \in Reg : ReadRegion(c, n) \/ WriteRegion(c, n)
  \/ MintKey
  \/ \E o \in Revocable : Invalidate(o)
  \/ Exit
  \/ Preempt

Spec == Init /\ [][Next]_vars
=============================================================================
