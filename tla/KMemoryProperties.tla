-------------------------- MODULE KMemoryProperties --------------------------
(***************************************************************************)
(* What the Memory objects promise: a tree whose links agree, authority    *)
(* that only shrinks, and an MPU that follows the keys.                    *)
(***************************************************************************)
EXTENDS KMemory

MemoryIn(o) == object[o].kind = "memory"
Extent(o)   == object[o].base .. (object[o].base + object[o].size - 1)
Children(o) == {c \in Entry : MemoryIn(c) /\ object[c].parent = o}
Root(o)     == MemoryIn(o) /\ object[o].parent = NullObject

\* The shape of the state.
TypeOK ==
  /\ object \in [Entry -> ObjectHead]
  /\ generation \in [Entry -> Gen]
  /\ held \subseteq Key
  /\ regions \in [Context -> [Reg -> Key]]
  /\ current \in Context
  /\ phase \in {"user", "exit", "overflow", "undecoded"}
  /\ pend \in BOOLEAN
  /\ calls \in 0 .. MaxCalls

-----------------------------------------------------------------------------
(* The hierarchy *)

\* No extent runs over the end of the address space.
ExtentsEnd == \A o \in Entry : object[o].base + object[o].size < AddrSpace

\* A Memory counts its children exactly, so that the panic of ~Memory
\* ("non-leaf Memory dtor") is never reached and become and split, which rewrite
\* an entry in place, leave no child with a parent that is something else; and
\* a child's extent is within its parent's, which make_child checks once and
\* no later operation checks again.
TreeAgrees ==
  \A o \in Entry :
    /\ MemoryIn(o) => object[o].children = Cardinality(Children(o))
    /\ object[o].parent # NullObject =>
         /\ MemoryIn(o)
         /\ MemoryIn(object[o].parent)
         /\ Extent(o) \subseteq Extent(object[o].parent)

\* "No two root objects overlap, so a root and its children have ultimate
\* authority over a section of address space" (memory.rst:35-37).  Not so once a
\* child has been split: do_split leaves both halves without a parent
\* (memory.cc:356-358), within their former parent, which may be a root.
RootsDisjoint ==
  \A o, p \in Entry : Root(o) /\ Root(p) /\ o # p => Extent(o) \cap Extent(p) = {}

\* "Total authority over a section of address space: no parents nor children make
\* claims to it.  Such total Memory objects are the only kind that can be donated"
\* (memory.rst:44-48): the body of a kernel object is in no Memory that programs
\* could map or poke, and in no other object's body.  Not so once a child has
\* been split: its former parent has no children left and may become an object
\* (become.cc:46), whose body is in the halves.
Body(o) == object[o].kind \in DOMAIN BodySize
BodiesPrivate ==
  \A o, p \in Entry :
    o # p /\ Body(o) /\ (Body(p) \/ MemoryIn(p)) => Extent(o) \cap Extent(p) = {}

\* A Memory that had a parent has none.
SplitsChild ==
  \E o \in Entry : object[o].parent # NullObject /\ object'[o].parent = NullObject

\* Splitting a child is all that breaks the two: whatever trees make_child
\* builds, siblings that overlap included, no other operation makes roots
\* overlap or gives a kernel object a body in somebody's Memory (memory.cc:305,
\* 332-358, become.cc:46).
OnlySplitChildrenOverlap ==
  [][RootsDisjoint /\ BodiesPrivate /\ ~ SplitsChild =>
       (RootsDisjoint /\ BodiesPrivate)']_vars

\* "This attribute is sticky: it persists across splits, and applies to any
\* children.  The kernel will not accept donations of Memory so marked"
\* (memory.rst:64-67).  Every extent is part of one of those of boot, of the same
\* attribute; so no sequence of make_child, split (of children too) and become
\* puts a kernel object into device registers.
DeviceSticky ==
  \A o \in Entry : \E r \in Entry :
    /\ Extent(o) \subseteq InitObject[r].base .. (InitObject[r].base + InitObject[r].size - 1)
    /\ object[o].device = InitObject[r].device

-----------------------------------------------------------------------------
(* Authority *)

\* Whether key k, to a Memory, lets unprivileged code reach address a with
\* access of at least this level, by itself or once the Memory is split.
Confers(k, a, level) ==
  LET h == object[k.obj]
      n == Cardinality(Subregion)
  IN /\ MemoryIn(Get(generation, k))
     /\ a \in Extent(k.obj)
     /\ Decoded[k.brand.ap].unpriv >= level
     /\ Mappable(h) => (((a - h.base) * n) \div h.size) \notin k.brand.srd

Reachable(level) == UNION {{a \in Extent(k.obj) : Confers(k, a, level)} : k \in held}

\* However programs combine change, split, make_child and become (and the region
\* registers, as the theorem shows), they never gain access to an address that
\* none of them had: only the Object Table mints authority.  This takes that no
\* key of more access arrives in the register a message was sent through
\* (Arriving), because change, split and make_child return a key with the brand
\* they find there: what a key with more access in that register does to it is
\* BrandOfKeyUsed's matter (KMessages).
NoAmplification ==
  [][\A level \in {1, 2} : Reachable(level)' \subseteq Reachable(level)]_<<object, generation, held>>

\* No key is of a generation that its object has yet to reach.
NotAhead(gs, k) == k.gen <= gs[k.obj]
NoKeyAhead ==
  /\ \A k \in held : NotAhead(generation, k)
  /\ \A c \in Context, n \in Reg : NotAhead(generation, regions[c][n])

\* split, make_child and become move a generation on as well, without the test
\* for its roll-over that do_invalidate makes.
ReuseRollsOver ==
  /\ \E o \in Entry : generation'[o] < generation[o]
  /\ \E k \in Seen : Split(k) \/ MakeChild(k) \/ Become(k)

\* No key that is dead comes back, whatever revokes, divides, makes or maps
\* what, until an entry is reused that is at its last generation: do_invalidate
\* refuses to roll one over, and would revive the keys of long ago
\* (object_table.cc:130-133).
RevocationKills ==
  [][NoKeyAhead /\ ~ ReuseRollsOver =>
       /\ NoKeyAhead'
       /\ \A k \in held : Get(generation, k) # k.obj => Get(generation', k) # k.obj]_vars

\* While a program runs, the MPU holds what the keys in its Context's region
\* registers give now: split, become, write_region_register, a switch and the
\* invalidation of a Memory each see to it.
MpuFresh ==
  phase = "user" => mpu = Applied(object, generation, regions[current])
=============================================================================
