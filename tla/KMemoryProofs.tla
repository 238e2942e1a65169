---------------------------- MODULE KMemoryProofs ----------------------------
(***************************************************************************)
(* Proofs about Memory objects, for any object table, extents and          *)
(* messages: the links of the tree of parents and children always agree.   *)
(*                                                                         *)
(* Theorems that hold under a condition name it: that whoever invalidates  *)
(* asks for no roll-over and that no reused entry rolls its generation     *)
(* over, that invalidations wait for the answer, that no child is split,   *)
(* that nothing comes from outside.                                        *)
(***************************************************************************)
EXTENDS KMemoryProperties, FiniteSetTheorems, WellFoundedInduction, TLAPS

\* The inductive invariant: the tree, the types it needs, and extents that end.
MemoryInv ==
  /\ TypeOK
  /\ ExtentsEnd
  /\ TreeAgrees
  /\ object[NullObject].kind = "null"

\* A key as a handler sees it is a key; held keys are among them.
LEMMA SeenType ==
  ASSUME TypeOK
  PROVE  Seen \subseteq Key /\ held \subseteq Seen
<1>1. held \subseteq Key /\ Arriving \subseteq Brand
  BY MemoryAssumption DEF TypeOK
<1>2. \A k \in Key, b \in Brand : [k EXCEPT !.brand = b] \in Key
  BY DEF Key
<1>. QED  BY <1>1, <1>2 DEF Seen

\* A key that reaches a Memory or a slot is live, and no key reaches the null
\* object as either.
LEMMA LiveKey ==
  ASSUME MemoryInv, NEW k \in Seen,
         object[Get(generation, k)].kind \in {"memory", "slot"}
  PROVE  /\ Get(generation, k) = k.obj
         /\ k \in Key /\ k.obj \in Entry \ {NullObject}
BY SeenType DEF MemoryInv, TypeOK, Get, Key

\* Generations stay within their width.
LEMMA BumpedType ==
  ASSUME TypeOK, NEW o \in Entry
  PROVE  Bumped(o) \in Gen
<1>1. generation[o] \in Nat /\ GenSpace \in Nat \ {0}
  BY MemoryAssumption DEF TypeOK, Gen
<1>. QED  BY <1>1 DEF Bumped, Gen

\* What a reply adds is type correct if the keys it carries are.
LEMMA ReplyType ==
  ASSUME MemoryInv, NEW op, NEW ks \in SUBSET Key, Reply(op, ks), Asked(op)
  PROVE  /\ held' \subseteq Key
         /\ pend' \in BOOLEAN
         /\ phase' \in {"user", "exit", "overflow", "undecoded"}
         /\ calls' \in 0 .. MaxCalls
<1>1. calls' \in 0 .. MaxCalls
  BY MemoryAssumption DEF MemoryInv, TypeOK, Reply, Asked
<1>2. held' \subseteq Key /\ pend' \in BOOLEAN
  BY DEF MemoryInv, TypeOK, Reply
<1>. QED  BY <1>1, <1>2 DEF Reply

\* A set of children is finite, and empty when there are none to count.
LEMMA ChildrenFinite ==
  ASSUME MemoryInv, NEW o \in Entry
  PROVE  /\ IsFiniteSet(Children(o))
         /\ Cardinality(Children(o)) \in Nat
         /\ Cardinality(Children(o)) = 0 <=> Children(o) = {}
<1>1. IsFiniteSet(Children(o))
  BY FS_Subset, MemoryAssumption DEF Children
<1>. QED  BY <1>1, FS_CardinalityType, FS_EmptySet

\* A Memory with no child is the parent of none.
LEMMA LeafIsNoParent ==
  ASSUME MemoryInv, NEW o \in Entry, MemoryIn(o), object[o].children = 0
  PROVE  \A c \in Entry : object[c].parent = o => o = NullObject
<1>1. Children(o) = {}
  BY ChildrenFinite DEF MemoryInv, TreeAgrees
<1>2. SUFFICES ASSUME NEW c \in Entry, object[c].parent = o, o # NullObject
               PROVE  FALSE
  OBVIOUS
<1>3. MemoryIn(c)
  BY <1>2 DEF MemoryInv, TreeAgrees
<1>. QED  BY <1>1, <1>2, <1>3 DEF Children

\* Nor is anything that is not a Memory.
LEMMA OtherIsNoParent ==
  ASSUME MemoryInv, NEW o \in Entry, ~ MemoryIn(o)
  PROVE  \A c \in Entry : object[c].parent = o => o = NullObject
BY DEF MemoryInv, TreeAgrees

\* ~Memory of a leaf leaves its parent with one child less, and that is all.
LEMMA OrphanedKeeps ==
  ASSUME MemoryInv, NEW o \in Entry \ {NullObject}, MemoryIn(o), object[o].children = 0
  PROVE  /\ Orphaned(o) \in [Entry -> ObjectHead]
         /\ \A p \in Entry :
              /\ Orphaned(o)[p].kind = object[p].kind
              /\ Orphaned(o)[p].base = object[p].base
              /\ Orphaned(o)[p].size = object[p].size
              /\ Orphaned(o)[p].parent = object[p].parent
              /\ Orphaned(o)[p].device = object[p].device
              /\ MemoryIn(p) => Orphaned(o)[p].children = Cardinality(Children(p) \ {o})
<1>0. object \in [Entry -> ObjectHead]
  BY DEF MemoryInv, TypeOK
<1>1. \A p \in Entry : MemoryIn(p) => object[p].children = Cardinality(Children(p))
  BY DEF MemoryInv, TreeAgrees
<1>2. CASE object[o].parent = NullObject
  <2>1. \A p \in Entry : MemoryIn(p) => Children(p) \ {o} = Children(p)
    BY <1>2 DEF Children, MemoryInv, MemoryIn
  <2>. QED  BY <1>0, <1>1, <1>2, <2>1 DEF Orphaned
<1>3. CASE object[o].parent # NullObject
  <2>. DEFINE q == object[o].parent
  <2>1. q \in Entry /\ MemoryIn(q)
    BY <1>0, <1>3 DEF MemoryInv, TreeAgrees, ObjectHead
  <2>2. o \in Children(q)
    BY DEF Children
  <2>3. /\ Cardinality(Children(q)) \in Nat
        /\ Cardinality(Children(q) \ {o}) = Cardinality(Children(q)) - 1
        /\ Cardinality(Children(q) \ {o}) \in Nat
    <3>1. IsFiniteSet(Children(q)) /\ IsFiniteSet(Children(q) \ {o})
      BY <2>1, ChildrenFinite, FS_RemoveElement
    <3>. QED  BY <2>2, <3>1, FS_RemoveElement, FS_CardinalityType
  <2>4. \A p \in Entry : p # q => Children(p) \ {o} = Children(p)
    BY DEF Children
  <2>5. object[q].children = Cardinality(Children(q))
    BY <1>1, <2>1
  <2>6. Orphaned(o) = [object EXCEPT ![q].children = object[q].children - 1]
    BY <1>3 DEF Orphaned
  <2>7. [object[q] EXCEPT !.children = object[q].children - 1] \in ObjectHead
    BY <1>0, <2>1, <2>3, <2>5 DEF ObjectHead
  <2>8. Orphaned(o) = [object EXCEPT ![q] = [object[q] EXCEPT !.children = object[q].children - 1]]
    BY <2>6
  <2>9. Orphaned(o) \in [Entry -> ObjectHead]
    BY <1>0, <2>1, <2>7, <2>8
  <2>10. \A p \in Entry : p # q => Orphaned(o)[p] = object[p]
    BY <1>0, <2>8
  <2>11. Orphaned(o)[q] = [object[q] EXCEPT !.children = object[q].children - 1]
    BY <1>0, <2>1, <2>8
  <2>12. object[q] \in ObjectHead
    BY <1>0, <2>1
  <2>13. /\ Orphaned(o)[q].kind = object[q].kind
         /\ Orphaned(o)[q].base = object[q].base
         /\ Orphaned(o)[q].size = object[q].size
         /\ Orphaned(o)[q].parent = object[q].parent
         /\ Orphaned(o)[q].device = object[q].device
         /\ Orphaned(o)[q].children = object[q].children - 1
    BY <2>11, <2>12 DEF ObjectHead
  <2>. QED  BY <1>1, <2>3, <2>4, <2>5, <2>9, <2>10, <2>13
<1>. QED  BY <1>2, <1>3

\* The tree still agrees once a leaf o has lost its parent and o and s, which
\* is a slot or o itself, are something new that has no parent and no child.
LEMMA DetachedAgrees ==
  ASSUME MemoryInv, NEW o \in Entry \ {NullObject}, NEW s \in Entry \ {NullObject},
         MemoryIn(o), object[o].children = 0, s = o \/ ~ MemoryIn(s),
         object' \in [Entry -> ObjectHead],
         \A p \in Entry \ {o, s} : object'[p] = Orphaned(o)[p],
         \A p \in {o, s} : object'[p].parent = NullObject /\ object'[p].children = 0,
         ExtentsEnd'
  PROVE  TreeAgrees'
<1>1. /\ \A p \in Entry : object[p].parent = o => FALSE
      /\ \A p \in Entry : object[p].parent = s => FALSE
  BY LeafIsNoParent, OtherIsNoParent
<1>2. \A p \in Entry \ {o, s} :
        /\ object'[p].kind = object[p].kind
        /\ object'[p].base = object[p].base
        /\ object'[p].size = object[p].size
        /\ object'[p].parent = object[p].parent
        /\ MemoryIn(p) => object'[p].children = Cardinality(Children(p) \ {o})
  <2>. TAKE p \in Entry \ {o, s}
  <2>1. object'[p] = Orphaned(o)[p]
    OBVIOUS
  <2>2. /\ Orphaned(o)[p].kind = object[p].kind
        /\ Orphaned(o)[p].base = object[p].base
        /\ Orphaned(o)[p].size = object[p].size
        /\ Orphaned(o)[p].parent = object[p].parent
        /\ MemoryIn(p) => Orphaned(o)[p].children = Cardinality(Children(p) \ {o})
    BY OrphanedKeeps
  <2>. QED  BY <2>1, <2>2
<1>3. ASSUME NEW p \in Entry, MemoryIn(p)'
      PROVE  object'[p].children = Cardinality(Children(p)')
  <2>1. CASE p \in {o, s}
    <3>1. Children(p)' = {}
      <4>1. SUFFICES ASSUME NEW c \in Entry, object'[c].parent = p  PROVE  FALSE
        BY DEF Children
      <4>2. c \notin {o, s}
        BY <2>1, <4>1
      <4>3. object[c].parent = p
        BY <1>2, <4>1, <4>2
      <4>. QED  BY <1>1, <2>1, <4>3
    <3>2. Cardinality({}) = 0
      BY FS_EmptySet
    <3>. QED  BY <2>1, <3>1, <3>2
  <2>2. CASE p \notin {o, s}
    <3>1. MemoryIn(p) /\ p # NullObject
      BY <1>2, <1>3, <2>2 DEF MemoryIn, MemoryInv
    <3>2. Children(p)' = Children(p) \ {o}
      <4>1. s \notin Children(p) \/ s = o
        BY DEF Children
      <4>. QED  BY <1>2, <2>2, <3>1, <4>1 DEF Children, MemoryIn
    <3>. QED  BY <1>2, <2>2, <3>1, <3>2
  <2>. QED  BY <2>1, <2>2
<1>4. ASSUME NEW c \in Entry, object'[c].parent # NullObject
      PROVE  /\ MemoryIn(c)'
             /\ MemoryIn(object[c].parent)'
             /\ Extent(c)' \subseteq Extent(object[c].parent)'
  <2>1. c \notin {o, s} /\ object[c].parent # NullObject
    BY <1>2, <1>4
  <2>2. /\ object[c].parent \in Entry \ {o, s}
        /\ MemoryIn(c) /\ MemoryIn(object[c].parent)
        /\ Extent(c) \subseteq Extent(object[c].parent)
    BY <1>1, <2>1 DEF MemoryInv, TypeOK, TreeAgrees, ObjectHead
  <2>3. /\ c \in Entry \ {o, s}
        /\ object'[c].parent = object[c].parent
        /\ \A p \in Entry \ {o, s} :
             /\ object'[p].kind = object[p].kind
             /\ object'[p].base = object[p].base
             /\ object'[p].size = object[p].size
    BY <1>2, <2>1
  <2>4. /\ MemoryIn(c)' /\ MemoryIn(object[c].parent)'
        /\ Extent(c)' = Extent(c)
        /\ Extent(object[c].parent)' = Extent(object[c].parent)
    BY <2>2, <2>3 DEF MemoryIn, Extent
  <2>. QED  BY <2>2, <2>4
<1>. QED  BY <1>3, <1>4 DEF TreeAgrees

\* An extent that does not overflow ends within the address space, and
\* contains means what it says of it.
LEMMA ContainsMeans ==
  ASSUME NEW h \in ObjectHead, NEW base \in Address, NEW size \in Address,
         Contains(h, base, size), ~ Overflows(base, size)
  PROVE  /\ base + size < AddrSpace
         /\ h.base <= base
         /\ base + size <= h.base + h.size
<1>0. /\ AddrSpace \in Nat \ {0} /\ base \in Nat /\ size \in Nat /\ h.base \in Nat
      /\ h.size \in Nat /\ base < AddrSpace /\ size < AddrSpace
  BY MemoryAssumption DEF ObjectHead, Address
<1>1. base + size < AddrSpace
  <2>1. SUFFICES ASSUME base + size >= AddrSpace  PROVE  FALSE
    BY <1>0
  <2>2. (base + size) % AddrSpace = base + size - AddrSpace
    BY <1>0, <2>1
  <2>. QED  BY <1>0, <2>1, <2>2 DEF Overflows
<1>2. h.base <= base
  BY DEF Contains
<1>3. (base + size - h.base) % AddrSpace = base + size - h.base
  BY <1>0, <1>1, <1>2
<1>. QED  BY <1>0, <1>1, <1>2, <1>3 DEF Contains

\* make_child keeps the tree: the new Memory is one more child of o, within it.
LEMMA ChildAgrees ==
  ASSUME MemoryInv, NEW o \in Entry \ {NullObject}, NEW d \in Entry \ {NullObject},
         MemoryIn(o), ~ MemoryIn(d),
         NEW base \in Address, NEW size \in Address,
         Contains(object[o], base, size), ~ Overflows(base, size),
         object' = [object EXCEPT ![d] = NewMemory(base, size, object[o].device, o),
                                  ![o].children = @ + 1]
  PROVE  object' \in [Entry -> ObjectHead] /\ ExtentsEnd' /\ TreeAgrees'
<1>0. object \in [Entry -> ObjectHead] /\ object[o] \in ObjectHead /\ d # o
  BY DEF MemoryInv, TypeOK, MemoryIn
<1>1. /\ object'[d] = NewMemory(base, size, object[o].device, o)
      /\ object'[o] = [object[o] EXCEPT !.children = object[o].children + 1]
      /\ \A p \in Entry \ {o, d} : object'[p] = object[p]
      /\ DOMAIN object' = Entry
  BY <1>0
<1>2. NewMemory(base, size, object[o].device, o) \in ObjectHead
  BY <1>0, MemoryAssumption DEF NewMemory, ObjectHead, Kind, Address
<1>3. [object[o] EXCEPT !.children = object[o].children + 1] \in ObjectHead
  BY <1>0 DEF ObjectHead
<1>4. /\ object'[o].kind = object[o].kind /\ object'[o].parent = object[o].parent
      /\ object'[o].base = object[o].base /\ object'[o].size = object[o].size
      /\ object'[o].children = object[o].children + 1
  BY <1>0, <1>1 DEF ObjectHead
<1>5. /\ object'[d].kind = "memory" /\ object'[d].parent = o
      /\ object'[d].base = base /\ object'[d].size = size /\ object'[d].children = 0
  BY <1>1 DEF NewMemory
<1>6. object' \in [Entry -> ObjectHead]
  BY <1>0, <1>1, <1>2, <1>3
<1>7. base + size < AddrSpace /\ object[o].base <= base
      /\ base + size <= object[o].base + object[o].size
  BY <1>0, ContainsMeans
<1>8. ExtentsEnd'
  BY <1>1, <1>4, <1>5, <1>7 DEF ExtentsEnd, MemoryInv
<1>9. \A p \in Entry : object[p].parent # d
  BY OtherIsNoParent
<1>10. ASSUME NEW p \in Entry, MemoryIn(p)'
       PROVE  object'[p].children = Cardinality(Children(p)')
  <2>1. CASE p = o
    <3>1. Children(o)' = Children(o) \cup {d} /\ d \notin Children(o)
      BY <1>0, <1>1, <1>4, <1>5 DEF Children, MemoryIn
    <3>2. Cardinality(Children(o) \cup {d}) = Cardinality(Children(o)) + 1
      BY <3>1, ChildrenFinite, FS_AddElement
    <3>3. object[o].children = Cardinality(Children(o))
      BY DEF MemoryInv, TreeAgrees
    <3>. QED  BY <1>4, <2>1, <3>1, <3>2, <3>3
  <2>2. CASE p = d
    <3>1. Children(d)' = {}
      <4>1. SUFFICES ASSUME NEW c \in Entry, object'[c].parent = d  PROVE  FALSE
        BY DEF Children
      <4>2. c # d
        BY <1>0, <1>5, <4>1
      <4>3. object[c].parent = d
        BY <1>1, <1>4, <4>1, <4>2
      <4>. QED  BY <1>9, <4>3
    <3>2. Cardinality({}) = 0
      BY FS_EmptySet
    <3>3. Cardinality(Children(p)') = 0
      BY <2>2, <3>1, <3>2
    <3>. QED  BY <1>5, <2>2, <3>3
  <2>3. CASE p \notin {o, d}
    <3>1. MemoryIn(p)
      BY <1>1, <1>10, <2>3 DEF MemoryIn
    <3>2. Children(p)' = Children(p)
      BY <1>1, <1>4, <1>5, <2>3 DEF Children, MemoryIn
    <3>. QED  BY <1>1, <2>3, <3>1, <3>2 DEF MemoryInv, TreeAgrees
  <2>. QED  BY <2>1, <2>2, <2>3
<1>11. ASSUME NEW c \in Entry, object'[c].parent # NullObject
       PROVE  /\ MemoryIn(c)'
              /\ MemoryIn(object[c].parent)'
              /\ Extent(c)' \subseteq Extent(object[c].parent)'
  <2>1. CASE c = d
    <3>1. base .. (base + size - 1) \subseteq
            object[o].base .. (object[o].base + object[o].size - 1)
      BY <1>0, <1>7 DEF ObjectHead, Address
    <3>. QED  BY <1>4, <1>5, <2>1, <3>1 DEF MemoryIn, Extent
  <2>2. CASE c # d
    <3>1. object'[c].parent = object[c].parent
      BY <1>1, <1>4, <2>2
    <3>2. /\ object[c].parent \in Entry \ {d}
          /\ MemoryIn(c) /\ MemoryIn(object[c].parent)
          /\ Extent(c) \subseteq Extent(object[c].parent)
      BY <1>0, <1>9, <1>11, <3>1 DEF MemoryInv, TreeAgrees, ObjectHead
    <3>3. \A p \in Entry \ {d} : object'[p].kind = object[p].kind
            /\ object'[p].base = object[p].base /\ object'[p].size = object[p].size
      BY <1>1, <1>4
    <3>. DEFINE p == object[c].parent
    <3>4. MemoryIn(c)' /\ MemoryIn(p)'
      BY <2>2, <3>1, <3>2, <3>3 DEF MemoryIn
    <3>5. Extent(c)' = Extent(c) /\ Extent(p)' = Extent(p)
      BY <2>2, <3>1, <3>2, <3>3 DEF Extent
    <3>. QED  BY <3>1, <3>2, <3>4, <3>5
  <2>. QED  BY <2>1, <2>2
<1>. QED  BY <1>6, <1>8, <1>10, <1>11 DEF TreeAgrees

\* A step that leaves the object table alone keeps the tree.
LEMMA SameObjects ==
  ASSUME MemoryInv, TypeOK', object' = object
  PROVE  MemoryInv'
BY DEF MemoryInv, ExtentsEnd, TreeAgrees, MemoryIn, Children, Extent

\* Every entry of a table of generations rewritten at some entries is one.
LEMMA BumpedTable ==
  ASSUME MemoryInv, NEW o \in Entry, NEW d \in Entry
  PROVE  /\ [generation EXCEPT ![o] = Bumped(o)] \in [Entry -> Gen]
         /\ [generation EXCEPT ![d] = Bumped(d), ![o] = Bumped(o)] \in [Entry -> Gen]
BY BumpedType DEF MemoryInv, TypeOK

\* split keeps the invariant.
LEMMA SplitKeeps ==
  ASSUME MemoryInv, NEW k \in Seen, Split(k)
  PROVE  MemoryInv'
<1>1. /\ k \in Key /\ k.obj \in Entry \ {NullObject} /\ MemoryIn(k.obj)
      /\ object[k.obj].children = 0
  BY LiveKey DEF Split, AskedOf, MemoryIn
<1>2. PICK pos \in Positions, d \in held :
        /\ Within(pos, object[k.obj].size)
        /\ IsSlot(d)
        /\ object' = Halves(k, d, pos)
        /\ generation' = [generation EXCEPT ![d.obj] = Bumped(d.obj), ![k.obj] = Bumped(k.obj)]
        /\ Reply("split", {[k EXCEPT !.gen = Bumped(k.obj)],
                           [k EXCEPT !.obj = d.obj, !.gen = Bumped(d.obj)]})
  BY DEF Split
<1>3. d \in Key /\ d.obj \in Entry \ {NullObject} /\ ~ MemoryIn(d.obj)
  BY <1>2, LiveKey, SeenType DEF IsSlot, MemoryIn, MemoryInv
<1>. DEFINE o == k.obj
            h == object[o]
            top == NewMemory(h.base + pos, h.size - pos, h.device, NullObject)
            bot == NewMemory(h.base, pos, h.device, NullObject)
<1>4. /\ h \in ObjectHead /\ h.base \in Nat /\ h.size \in Nat /\ h.device \in BOOLEAN
      /\ h.base + h.size < AddrSpace /\ pos \in Nat /\ pos <= h.size
      /\ AddrSpace \in Nat
  BY <1>1, <1>2, MemoryAssumption
     DEF MemoryInv, TypeOK, ExtentsEnd, ObjectHead, Address, Within
<1>5. top \in ObjectHead /\ bot \in ObjectHead
  <2>1. h.base + pos \in Address /\ h.base \in Address
        /\ h.size - pos \in 0 .. AddrSpace /\ pos \in 0 .. AddrSpace
    BY <1>4 DEF Address
  <2>. QED  BY <1>4, <2>1, MemoryAssumption DEF NewMemory, ObjectHead, Kind
<1>6. Orphaned(o) \in [Entry -> ObjectHead]
      /\ \A p \in Entry : /\ Orphaned(o)[p].base = object[p].base
                           /\ Orphaned(o)[p].size = object[p].size
                           /\ Orphaned(o)[p].kind = object[p].kind
  BY <1>1, OrphanedKeeps
<1>7. object' = [Orphaned(o) EXCEPT ![d.obj] = top, ![o] = bot] /\ d.obj # o
  BY <1>1, <1>2, <1>3 DEF Halves
<1>8. /\ object'[o] = bot /\ object'[d.obj] = top
      /\ \A p \in Entry \ {o, d.obj} : object'[p] = Orphaned(o)[p]
      /\ object' \in [Entry -> ObjectHead]
  BY <1>1, <1>3, <1>5, <1>6, <1>7
<1>9. /\ bot.parent = NullObject /\ bot.children = 0 /\ bot.base = h.base /\ bot.size = pos
      /\ top.parent = NullObject /\ top.children = 0
      /\ top.base = h.base + pos /\ top.size = h.size - pos
  BY DEF NewMemory
<1>. HIDE DEF top, bot
<1>10. ExtentsEnd'
  <2>1. SUFFICES ASSUME NEW p \in Entry
                 PROVE  object'[p].base + object'[p].size < AddrSpace
    BY DEF ExtentsEnd
  <2>2. CASE p = o
    BY <1>4, <1>8, <1>9, <2>2
  <2>3. CASE p = d.obj
    BY <1>4, <1>8, <1>9, <2>3
  <2>4. CASE p \notin {o, d.obj}
    BY <1>6, <1>8, <2>4 DEF ExtentsEnd, MemoryInv
  <2>. QED  BY <2>2, <2>3, <2>4
<1>11. TreeAgrees'
  BY <1>1, <1>3, <1>8, <1>9, <1>10, DetachedAgrees
<1>12. object'[NullObject].kind = "null"
  BY <1>1, <1>3, <1>6, <1>8, MemoryAssumption DEF MemoryInv
<1>13. TypeOK'
  <2>1. /\ [k EXCEPT !.gen = Bumped(k.obj)] \in Key
        /\ [k EXCEPT !.obj = d.obj, !.gen = Bumped(d.obj)] \in Key
    BY <1>1, <1>3, BumpedType DEF Key, MemoryInv
  <2>2. Asked("split")
    BY DEF Split, AskedOf
  <2>3. /\ held' \subseteq Key /\ pend' \in BOOLEAN
        /\ phase' \in {"user", "exit", "overflow", "undecoded"} /\ calls' \in 0 .. MaxCalls
    BY <1>2, <2>1, <2>2, ReplyType
  <2>4. generation' \in [Entry -> Gen]
    BY <1>1, <1>2, <1>3, BumpedTable
  <2>5. regions' = regions /\ current' = current
    BY DEF Split
  <2>. QED  BY <1>8, <2>3, <2>4, <2>5 DEF MemoryInv, TypeOK
<1>. QED  BY <1>10, <1>11, <1>12, <1>13 DEF MemoryInv

\* make_child keeps the invariant.
LEMMA MakeChildKeeps ==
  ASSUME MemoryInv, NEW k \in Seen, MakeChild(k)
  PROVE  MemoryInv'
<1>1. PICK base \in Bases, size \in Sizes, d \in held :
        /\ Accepted(k, base, size, d)
        /\ ~ Overflows(base, size)
        /\ object' = [object EXCEPT
                        ![d.obj] = NewMemory(base, size, object[k.obj].device, k.obj),
                        ![k.obj].children = @ + 1]
        /\ generation' = [generation EXCEPT ![d.obj] = Bumped(d.obj)]
        /\ Reply("make_child", {[k EXCEPT !.obj = d.obj, !.gen = Bumped(d.obj)]})
  BY DEF MakeChild
<1>2. /\ k \in Key /\ k.obj \in Entry \ {NullObject} /\ MemoryIn(k.obj)
  BY <1>1, LiveKey DEF Accepted, AskedOf, MemoryIn
<1>3. d \in Key /\ d.obj \in Entry \ {NullObject} /\ ~ MemoryIn(d.obj)
  BY <1>1, LiveKey, SeenType DEF Accepted, IsSlot, MemoryIn, MemoryInv
<1>4. base \in Address /\ size \in Address /\ Contains(object[k.obj], base, size)
  BY <1>1, MemoryAssumption DEF Accepted
<1>5. object' \in [Entry -> ObjectHead] /\ ExtentsEnd' /\ TreeAgrees'
  BY <1>1, <1>2, <1>3, <1>4, ChildAgrees
<1>6. object'[NullObject].kind = "null"
  BY <1>1, <1>2, <1>3, MemoryAssumption DEF MemoryInv, TypeOK
<1>7. TypeOK'
  <2>1. [k EXCEPT !.obj = d.obj, !.gen = Bumped(d.obj)] \in Key
    BY <1>2, <1>3, BumpedType DEF Key, MemoryInv
  <2>2. Asked("make_child")
    BY <1>1 DEF Accepted, AskedOf
  <2>3. /\ held' \subseteq Key /\ pend' \in BOOLEAN
        /\ phase' \in {"user", "exit", "overflow", "undecoded"} /\ calls' \in 0 .. MaxCalls
    BY <1>1, <2>1, <2>2, ReplyType
  <2>4. generation' \in [Entry -> Gen]
    BY <1>1, <1>3, BumpedTable
  <2>5. regions' = regions /\ current' = current
    BY DEF MakeChild
  <2>. QED  BY <1>5, <2>3, <2>4, <2>5 DEF MemoryInv, TypeOK
<1>. QED  BY <1>5, <1>6, <1>7 DEF MemoryInv

\* become keeps the invariant: it is asked of a leaf without a parent.
LEMMA BecomeKeeps ==
  ASSUME MemoryInv, NEW k \in Seen, Become(k)
  PROVE  MemoryInv'
<1>. DEFINE o == k.obj
<1>1. /\ k \in Key /\ o \in Entry \ {NullObject} /\ MemoryIn(o)
      /\ object[o].children = 0 /\ object[o].parent = NullObject
  BY LiveKey DEF Become, AskedOf, MemoryIn, Total
<1>2. PICK kind \in DOMAIN BodySize :
        /\ BodySize[kind] <= object[o].size
        /\ object' = [object EXCEPT ![o] = NewObject(kind, @.base, BodySize[kind])]
        /\ generation' = [generation EXCEPT ![o] = Bumped(o)]
        /\ Reply("become", {[obj |-> o, gen |-> Bumped(o), brand |-> NullBrand]})
  BY DEF Become
<1>. DEFINE new == NewObject(kind, object[o].base, BodySize[kind])
<1>3. /\ kind \in Kind /\ kind # "null" /\ BodySize[kind] \in Nat
      /\ object[o].base \in Address /\ object[o].size \in 0 .. AddrSpace
      /\ object \in [Entry -> ObjectHead]
      /\ object[o].base + object[o].size < AddrSpace /\ AddrSpace \in Nat
  BY <1>1, MemoryAssumption DEF Kind, MemoryInv, TypeOK, ObjectHead, ExtentsEnd
<1>4. /\ new.kind = kind /\ new.base = object[o].base /\ new.size = BodySize[kind]
      /\ new.parent = NullObject /\ new.children = 0
      /\ new \in ObjectHead
  <2>1. BodySize[kind] \in 0 .. AddrSpace
    BY <1>2, <1>3 DEF Address
  <2>. QED  BY <1>3, <2>1, MemoryAssumption DEF NewObject, NewMemory, ObjectHead
<1>. HIDE DEF new
<1>5. /\ object'[o] = new /\ object' \in [Entry -> ObjectHead]
      /\ \A p \in Entry \ {o} : object'[p] = object[p]
  BY <1>1, <1>2, <1>3, <1>4 DEF new
<1>6. ExtentsEnd'
  <2>1. SUFFICES ASSUME NEW p \in Entry
                 PROVE  object'[p].base + object'[p].size < AddrSpace
    BY DEF ExtentsEnd
  <2>2. CASE p = o
    BY <1>2, <1>3, <1>4, <1>5, <2>2 DEF Address
  <2>3. CASE p # o
    BY <1>5, <2>3 DEF MemoryInv, ExtentsEnd
  <2>. QED  BY <2>2, <2>3
<1>7. TreeAgrees'
  <2>1. Orphaned(o) = object
    BY <1>1 DEF Orphaned
  <2>. QED  BY <1>1, <1>4, <1>5, <1>6, <2>1, DetachedAgrees
<1>8. object'[NullObject].kind = "null"
  BY <1>1, <1>5, MemoryAssumption DEF MemoryInv
<1>9. TypeOK'
  <2>1. [obj |-> o, gen |-> Bumped(o), brand |-> NullBrand] \in Key
    BY <1>1, BumpedType, MemoryAssumption DEF Key, Brand, NullBrand, MemoryInv
  <2>2. Asked("become")
    BY DEF Become, AskedOf
  <2>3. /\ held' \subseteq Key /\ pend' \in BOOLEAN
        /\ phase' \in {"user", "exit", "overflow", "undecoded"} /\ calls' \in 0 .. MaxCalls
    BY <1>2, <2>1, <2>2, ReplyType
  <2>4. generation' \in [Entry -> Gen]
    BY <1>1, <1>2, BumpedTable
  <2>5. regions' = regions /\ current' = current
    BY DEF Become
  <2>. QED  BY <1>5, <2>3, <2>4, <2>5 DEF MemoryInv, TypeOK
<1>. QED  BY <1>6, <1>7, <1>8, <1>9 DEF MemoryInv

\* The replies that carry no key, or one that exists already.
LEMMA OtherMessagesKeep ==
  ASSUME MemoryInv, NEW k \in Seen,
         ReadOrRefuse(k) \/ Poke(k) \/ Change(k) \/ PanicInChange(k) \/ PanicInMakeChild(k)
  PROVE  MemoryInv'
<1>0. k \in Key
  BY SeenType DEF MemoryInv
<1>1. CASE ReadOrRefuse(k)
  BY <1>1, ReplyType, SameObjects DEF ReadOrRefuse, AskedOf, MemoryInv, TypeOK
<1>2. CASE Poke(k)
  <2>1. k.obj \in Entry
    BY <1>0 DEF Key
  <2>. QED  BY <1>2, <2>1, ReplyType, SameObjects DEF Poke, AskedOf, MemoryInv, TypeOK
<1>3. CASE Change(k)
  <2>1. PICK b \in Brand : Reply("change", {[k EXCEPT !.brand = b]})
    BY <1>3 DEF Change
  <2>2. [k EXCEPT !.brand = b] \in Key
    BY <1>0 DEF Key
  <2>3. {[k EXCEPT !.brand = b]} \in SUBSET Key
    BY <2>2
  <2>. QED  BY <1>3, <2>1, <2>3, ReplyType, SameObjects DEF Change, AskedOf, MemoryInv, TypeOK
<1>4. CASE PanicInChange(k) \/ PanicInMakeChild(k)
  BY <1>4, SameObjects DEF PanicInChange, PanicInMakeChild, Panic, MemoryInv, TypeOK
<1>. QED  BY <1>1, <1>2, <1>3, <1>4

\* The region registers and the Object Table.
LEMMA OtherOperationsKeep ==
  ASSUME MemoryInv,
         \/ \E c \in Context, n \in Reg : ReadRegion(c, n) \/ WriteRegion(c, n)
         \/ MintKey
         \/ \E o \in Revocable : Invalidate(o)
  PROVE  MemoryInv'
<1>1. ASSUME NEW c \in Context, NEW n \in Reg, ReadRegion(c, n)
      PROVE  MemoryInv'
  <2>1. {regions[c][n]} \in SUBSET Key
    BY DEF MemoryInv, TypeOK
  <2>. QED  BY <1>1, <2>1, ReplyType, SameObjects DEF ReadRegion, MemoryInv, TypeOK
<1>2. ASSUME NEW c \in Context, NEW n \in Reg, WriteRegion(c, n)
      PROVE  MemoryInv'
  <2>1. NullKey \in Key
    <3>1. 0 \in Gen /\ NullBrand \in Brand
      BY MemoryAssumption DEF Gen, Brand, NullBrand
    <3>. QED  BY <3>1, MemoryAssumption DEF NullKey, Key
  <2>2. regions' \in [Context -> [Reg -> Key]]
    BY <1>2, <2>1 DEF WriteRegion, MemoryInv, TypeOK
  <2>. QED  BY <1>2, <2>2, ReplyType, SameObjects DEF WriteRegion, MemoryInv, TypeOK
<1>3. CASE MintKey
  <2>1. PICK m \in Mintable :
          Reply("mint_key", {[obj |-> m.obj, gen |-> generation[m.obj], brand |-> m.brand]})
    BY <1>3 DEF MintKey
  <2>2. {[obj |-> m.obj, gen |-> generation[m.obj], brand |-> m.brand]} \in SUBSET Key
    BY MemoryAssumption DEF MemoryInv, TypeOK, Key
  <2>. QED  BY <1>3, <2>1, <2>2, ReplyType, SameObjects DEF MintKey, MemoryInv, TypeOK
<1>4. ASSUME NEW o \in Revocable, Invalidate(o)
      PROVE  MemoryInv'
  <2>1. generation' \in [Entry -> Gen]
    BY <1>4, BumpedTable, MemoryAssumption DEF Invalidate
  <2>. QED  BY <1>4, <2>1, ReplyType, SameObjects DEF Invalidate, MemoryInv, TypeOK
<1>. QED  BY <1>1, <1>2, <1>3, <1>4

\* A switch loads other regions and no more.
LEMMA SwitchesKeep ==
  ASSUME MemoryInv, Exit \/ Preempt
  PROVE  MemoryInv'
BY SameObjects DEF Exit, Preempt, SwitchNow, MemoryInv, TypeOK

\* The object table that initialize_app fills satisfies the invariant: every
\* Memory in it is a root and a leaf.
LEMMA InitMemoryInv == Init => MemoryInv
<1>. SUFFICES ASSUME Init  PROVE  MemoryInv
  OBVIOUS
<1>1. TypeOK
  <2>1. generation \in [Entry -> Gen]
    BY MemoryAssumption DEF Init, Gen
  <2>2. object \in [Entry -> ObjectHead] /\ held \subseteq Key
        /\ regions \in [Context -> [Reg -> Key]]
    BY MemoryAssumption DEF Init
  <2>3. calls \in 0 .. MaxCalls
    BY MemoryAssumption DEF Init
  <2>4. current \in Context /\ phase = "user" /\ pend \in BOOLEAN
    BY DEF Init
  <2>. QED  BY <2>1, <2>2, <2>3, <2>4 DEF TypeOK
<1>2. TreeAgrees
  <2>1. ASSUME NEW o \in Entry, MemoryIn(o)
        PROVE  object[o].children = Cardinality(Children(o))
    <3>1. /\ o # NullObject
          /\ \A c \in Entry : object[c].parent = NullObject
      BY <2>1, MemoryAssumption DEF Init, MemoryIn
    <3>3. Children(o) = {}
      BY <3>1 DEF Children
    <3>2. Cardinality({}) = 0
      BY FS_EmptySet
    <3>. QED  BY <3>2, <3>3, MemoryAssumption DEF Init
  <2>. QED  BY <2>1, MemoryAssumption DEF Init, TreeAgrees
<1>. QED  BY <1>1, <1>2, MemoryAssumption DEF Init, MemoryInv, ExtentsEnd

\* Every step keeps the invariant.
LEMMA NextMemoryInv == MemoryInv /\ [Next]_vars => MemoryInv'
<1>. SUFFICES ASSUME MemoryInv, [Next]_vars  PROVE  MemoryInv'
  OBVIOUS
<1>1. ASSUME NEW k \in Seen, MemoryMessage(k)  PROVE  MemoryInv'
  BY <1>1, SplitKeeps, MakeChildKeeps, BecomeKeeps, OtherMessagesKeep DEF MemoryMessage
<1>2. CASE UNCHANGED vars
  BY <1>2 DEF vars, MemoryInv, TypeOK, ExtentsEnd, TreeAgrees, MemoryIn, Children, Extent
<1>. QED  BY <1>1, <1>2, OtherOperationsKeep, SwitchesKeep DEF Next

\* The links of the tree agree whatever programs ask for, in whatever order:
\* counts are exact, no parent is rewritten under its children, and a child
\* stays within its parent.
THEOREM TreeAlwaysAgrees == Spec => []TreeAgrees
<1>1. MemoryInv => TreeAgrees
  BY DEF MemoryInv
<1>. QED  BY <1>1, InitMemoryInv, NextMemoryInv, PTL DEF Spec

\* The variables keep their types; in particular no extent and no count leaves
\* its range.
THEOREM MemoryTypeCorrect == Spec => []TypeOK
<1>1. MemoryInv => TypeOK
  BY DEF MemoryInv
<1>. QED  BY <1>1, InitMemoryInv, NextMemoryInv, PTL DEF Spec

-----------------------------------------------------------------------------
(* What holds under a condition *)

\* Whoever invalidates does not ask for a generation to be rolled over.  The
\* messages that reuse an entry roll one over unasked, at the last generation:
\* the theorems are about behaviours without such a step (ReuseRollsOver).
RolloverRefused == RolloverOk \subseteq {FALSE}

-----------------------------------------------------------------------------
(* Generations and the keys that carry them *)

Gens == MemoryInv /\ NoKeyAhead

\* No generation goes back.
Grows == \A o \in Entry : generation[o] <= generation'[o]

\* A key as a handler sees it is as old as the one that is held.
LEMMA SeenNotAhead ==
  ASSUME Gens, NEW k \in Seen
  PROVE  k \in Key /\ NotAhead(generation, k)
<1>1. held \subseteq Key /\ Arriving \subseteq Brand
  BY MemoryAssumption DEF Gens, MemoryInv, TypeOK
<1>2. \A h \in held, b \in Arriving :
        [h EXCEPT !.brand = b] \in Key /\ NotAhead(generation, [h EXCEPT !.brand = b])
  BY <1>1 DEF Gens, NoKeyAhead, NotAhead, Key
<1>. QED  BY <1>1, <1>2 DEF Seen, Gens, NoKeyAhead

\* The first keys are of the first generation.
LEMMA InitGens == Init => Gens
<1>. SUFFICES ASSUME Init  PROVE  Gens
  OBVIOUS
<1>1. \A k \in InitHeld : k.obj \in Entry /\ k.gen = 0
  BY MemoryAssumption DEF Key
<1>2. \A c \in Context, n \in Reg :
        InitRegions[c][n].obj \in Entry /\ InitRegions[c][n].gen = 0
  BY MemoryAssumption DEF Key
<1>3. \A o \in Entry : generation[o] = 0
  BY DEF Init
<1>. QED  BY <1>1, <1>2, <1>3, InitMemoryInv DEF Init, Gens, NoKeyAhead, NotAhead

\* A generation always moves, and to the next one if it is not the last.
LEMMA BumpedMoves ==
  ASSUME MemoryInv, NEW o \in Entry
  PROVE  /\ generation[o] \in Nat /\ Bumped(o) \in Nat
         /\ Bumped(o) # generation[o]
         /\ generation[o] # GenSpace - 1 => Bumped(o) = generation[o] + 1
<1>1. generation[o] \in 0 .. (GenSpace - 1) /\ GenSpace \in Nat /\ GenSpace > 1
  BY MemoryAssumption DEF MemoryInv, TypeOK, Gen
<1>2. CASE generation[o] # GenSpace - 1
  BY <1>1, <1>2 DEF Bumped
<1>3. CASE generation[o] = GenSpace - 1
  <2>1. generation[o] + 1 = GenSpace
    BY <1>1, <1>3
  <2>2. GenSpace % GenSpace = 0
    BY <1>1
  <2>. QED  BY <1>1, <1>3, <2>1, <2>2 DEF Bumped
<1>. QED  BY <1>2, <1>3

\* do_invalidate makes its test before it moves a generation on; no other step
\* moves one, except those that reuse an entry.
LEMMA GenerationsGrow ==
  ASSUME RolloverRefused, MemoryInv, [Next]_vars, [~ ReuseRollsOver]_vars
  PROVE  Grows
<1>0. \A o \in Entry : generation[o] \in Nat
  BY MemoryAssumption DEF MemoryInv, TypeOK, Gen
<1>1. ASSUME generation' = generation  PROVE  Grows
  BY <1>0, <1>1 DEF Grows
<1>2. ASSUME NEW k \in Seen, Split(k) \/ MakeChild(k) \/ Become(k)
      PROVE  Grows
  <2>1. generation' \in [Entry -> Gen]
    BY NextMemoryInv DEF MemoryInv, TypeOK
  <2>2. \A o \in Entry : generation'[o] \in Nat
    BY <2>1, MemoryAssumption DEF Gen
  <2>3. \A o \in Entry : ~ generation'[o] < generation[o]
    BY <1>0, <1>2 DEF ReuseRollsOver, vars
  <2>. QED  BY <1>0, <2>2, <2>3 DEF Grows
<1>3. ASSUME NEW o \in Revocable, Invalidate(o)  PROVE  Grows
  <2>1. o \in Entry /\ generation[o] # GenSpace - 1
    BY <1>3, MemoryAssumption DEF Invalidate, MayRevoke, RolloverRefused
  <2>2. generation \in [Entry -> Gen] /\ generation' = [generation EXCEPT ![o] = Bumped(o)]
    BY <1>3 DEF Invalidate, MemoryInv, TypeOK
  <2>3. Bumped(o) = generation[o] + 1
    BY <2>1, BumpedMoves
  <2>. QED  BY <1>0, <2>1, <2>2, <2>3 DEF Grows
<1>4. ASSUME NEW k \in Seen,
             \/ ReadOrRefuse(k) \/ Poke(k) \/ Change(k)
             \/ PanicInChange(k) \/ PanicInMakeChild(k)
      PROVE  generation' = generation
  BY <1>4 DEF ReadOrRefuse, Poke, Change, PanicInChange, PanicInMakeChild, Panic
<1>5. ASSUME \/ \E c \in Context, n \in Reg : ReadRegion(c, n) \/ WriteRegion(c, n)
             \/ MintKey \/ Exit \/ Preempt \/ UNCHANGED vars
      PROVE  generation' = generation
  BY <1>5 DEF ReadRegion, WriteRegion, MintKey, Exit, Preempt, vars
<1>. QED  BY <1>1, <1>2, <1>3, <1>4, <1>5 DEF Next, MemoryMessage

\* A step keeps keys behind their objects if no generation goes back and the
\* keys it hands out are of generations their objects have reached.
LEMMA GensGrow ==
  ASSUME Gens, MemoryInv', Grows, NEW op, NEW ks, Reply(op, ks),
         \A k \in ks : k \in Key /\ NotAhead(generation', k),
         \A c \in Context, n \in Reg :
           regions'[c][n] = regions[c][n] \/ regions'[c][n] \in held \cup {NullKey}
  PROVE  Gens'
<1>1. \A o \in Entry : /\ generation[o] \in Nat /\ generation'[o] \in Nat
                       /\ generation[o] <= generation'[o]
  BY MemoryAssumption DEF Gens, MemoryInv, TypeOK, Gen, Grows
<1>3. ASSUME NEW k \in Key, NotAhead(generation, k)
      PROVE  NotAhead(generation', k)
  <2>1. k.obj \in Entry /\ k.gen \in Nat
    BY MemoryAssumption DEF Key, Gen
  <2>. QED  BY <1>1, <1>3, <2>1 DEF NotAhead
<1>4. held \subseteq Key /\ regions \in [Context -> [Reg -> Key]]
  BY DEF Gens, MemoryInv, TypeOK
<1>5. \A k \in held' : NotAhead(generation', k)
  BY <1>3, <1>4 DEF Gens, NoKeyAhead, Reply
<1>6. NotAhead(generation', NullKey)
  BY <1>1, MemoryAssumption DEF NotAhead, NullKey
<1>7. \A c \in Context, n \in Reg : NotAhead(generation', regions[c][n])
  BY <1>3, <1>4 DEF Gens, NoKeyAhead
<1>8. \A k \in held : NotAhead(generation', k)
  BY <1>3, <1>4 DEF Gens, NoKeyAhead
<1>9. \A c \in Context, n \in Reg : NotAhead(generation', regions'[c][n])
  BY <1>6, <1>7, <1>8 DEF NotAhead
<1>. QED  BY <1>5, <1>9 DEF Gens, NoKeyAhead, NotAhead

\* The steps that change no generation and make no key.
LEMMA QuietStepsKeepGens ==
  ASSUME Gens, MemoryInv', generation' = generation, held' = held, regions' = regions
  PROVE  Gens'
BY DEF Gens, NoKeyAhead, NotAhead

\* split, make_child, become: the keys they hand out are of the new generation.
LEMMA RewritesKeepGens ==
  ASSUME Gens, MemoryInv', Grows, NEW k \in Seen,
         Split(k) \/ MakeChild(k) \/ Become(k)
  PROVE  Gens'
<1>1. k \in Key /\ k.obj \in Entry
  BY SeenType DEF Gens, MemoryInv, Key
<1>2. generation \in [Entry -> Gen] /\ NullBrand \in Brand
  BY MemoryAssumption DEF Gens, MemoryInv, TypeOK, NullBrand, Brand
<1>3. \A o \in Entry : Bumped(o) \in Nat /\ Bumped(o) \in Gen
  BY BumpedMoves, BumpedType DEF Gens, MemoryInv
<1>4. CASE Split(k)
  <2>1. PICK d \in held :
          /\ generation' = [generation EXCEPT ![d.obj] = Bumped(d.obj), ![k.obj] = Bumped(k.obj)]
          /\ Reply("split", {[k EXCEPT !.gen = Bumped(k.obj)],
                             [k EXCEPT !.obj = d.obj, !.gen = Bumped(d.obj)]})
    BY <1>4 DEF Split
  <2>2. d.obj \in Entry
    BY DEF Gens, MemoryInv, TypeOK, Key
  <2>3. /\ [k EXCEPT !.gen = Bumped(k.obj)] \in Key
        /\ [k EXCEPT !.obj = d.obj, !.gen = Bumped(d.obj)] \in Key
    BY <1>1, <1>3, <2>2 DEF Key
  <2>4. /\ NotAhead(generation', [k EXCEPT !.gen = Bumped(k.obj)])
        /\ NotAhead(generation', [k EXCEPT !.obj = d.obj, !.gen = Bumped(d.obj)])
    BY <1>1, <1>2, <1>3, <2>1, <2>2 DEF NotAhead, Key
  <2>6. regions' = regions
    BY <1>4 DEF Split
  <2>. DEFINE ks == {[k EXCEPT !.gen = Bumped(k.obj)],
                    [k EXCEPT !.obj = d.obj, !.gen = Bumped(d.obj)]}
  <2>7. Reply("split", ks) /\ \A x \in ks : x \in Key /\ NotAhead(generation', x)
    BY <2>1, <2>3, <2>4
  <2>. HIDE DEF ks
  <2>. QED  BY <2>6, <2>7, GensGrow
<1>5. CASE MakeChild(k)
  <2>1. PICK d \in held :
          /\ generation' = [generation EXCEPT ![d.obj] = Bumped(d.obj)]
          /\ Reply("make_child", {[k EXCEPT !.obj = d.obj, !.gen = Bumped(d.obj)]})
    BY <1>5 DEF MakeChild
  <2>2. d.obj \in Entry
    BY DEF Gens, MemoryInv, TypeOK, Key
  <2>3. [k EXCEPT !.obj = d.obj, !.gen = Bumped(d.obj)] \in Key
    BY <1>1, <1>3, <2>2 DEF Key
  <2>4. NotAhead(generation', [k EXCEPT !.obj = d.obj, !.gen = Bumped(d.obj)])
    BY <1>1, <1>2, <1>3, <2>1, <2>2 DEF NotAhead, Key
  <2>6. regions' = regions
    BY <1>5 DEF MakeChild
  <2>. DEFINE ks == {[k EXCEPT !.obj = d.obj, !.gen = Bumped(d.obj)]}
  <2>7. Reply("make_child", ks) /\ \A x \in ks : x \in Key /\ NotAhead(generation', x)
    BY <2>1, <2>3, <2>4
  <2>. HIDE DEF ks
  <2>. QED  BY <2>6, <2>7, GensGrow
<1>6. CASE Become(k)
  <2>1. /\ generation' = [generation EXCEPT ![k.obj] = Bumped(k.obj)]
        /\ Reply("become", {[obj |-> k.obj, gen |-> Bumped(k.obj), brand |-> NullBrand]})
        /\ regions' = regions
    BY <1>6 DEF Become
  <2>2. [obj |-> k.obj, gen |-> Bumped(k.obj), brand |-> NullBrand] \in Key
    BY <1>1, <1>2, <1>3 DEF Key
  <2>3. NotAhead(generation', [obj |-> k.obj, gen |-> Bumped(k.obj), brand |-> NullBrand])
    BY <1>1, <1>2, <1>3, <2>1 DEF NotAhead
  <2>. QED  BY <2>1, <2>2, <2>3, GensGrow
<1>. QED  BY <1>4, <1>5, <1>6

\* The other messages hand out no key, or one as old as one that exists.
LEMMA OthersKeepGens ==
  ASSUME Gens, MemoryInv', Grows,
         \/ \E k \in Seen : ReadOrRefuse(k) \/ Poke(k) \/ Change(k)
         \/ \E c \in Context, n \in Reg : ReadRegion(c, n) \/ WriteRegion(c, n)
         \/ MintKey
         \/ \E o \in Revocable : Invalidate(o)
  PROVE  Gens'
<1>0. /\ held \subseteq Key /\ regions \in [Context -> [Reg -> Key]]
      /\ generation \in [Entry -> Gen] /\ Gen \subseteq Nat
  BY MemoryAssumption DEF Gens, MemoryInv, TypeOK, Gen
<1>1. ASSUME NEW k \in Seen, ReadOrRefuse(k) \/ Poke(k)
      PROVE  Gens'
  BY <1>1, GensGrow DEF ReadOrRefuse, Poke
<1>2. ASSUME NEW k \in Seen, Change(k)
      PROVE  Gens'
  <2>1. PICK b \in Brand : Reply("change", {[k EXCEPT !.brand = b]})
    BY <1>2 DEF Change
  <2>2. generation' = generation /\ regions' = regions
    BY <1>2 DEF Change
  <2>3. [k EXCEPT !.brand = b] \in Key /\ NotAhead(generation', [k EXCEPT !.brand = b])
    BY <1>0, <2>2, SeenNotAhead DEF Key, NotAhead
  <2>. QED  BY <2>1, <2>2, <2>3, GensGrow
<1>3. ASSUME NEW c \in Context, NEW n \in Reg, ReadRegion(c, n)
      PROVE  Gens'
  <2>1. regions[c][n] \in Key /\ NotAhead(generation, regions[c][n])
    BY <1>0 DEF Gens, NoKeyAhead
  <2>. QED  BY <1>3, <2>1, GensGrow DEF ReadRegion
<1>4. ASSUME NEW c \in Context, NEW n \in Reg, WriteRegion(c, n)
      PROVE  Gens'
  <2>1. PICK k \in held \cup {NullKey} : regions' = [regions EXCEPT ![c][n] = k]
    BY <1>4 DEF WriteRegion
  <2>2. \A a \in Context, b \in Reg :
          regions'[a][b] = regions[a][b] \/ regions'[a][b] \in held \cup {NullKey}
    BY <1>0, <2>1
  <2>. QED  BY <1>4, <2>2, GensGrow DEF WriteRegion
<1>5. CASE MintKey
  <2>1. PICK m \in Mintable :
          Reply("mint_key", {[obj |-> m.obj, gen |-> generation[m.obj], brand |-> m.brand]})
    BY <1>5 DEF MintKey
  <2>2. generation' = generation /\ regions' = regions
    BY <1>5 DEF MintKey
  <2>3. /\ [obj |-> m.obj, gen |-> generation[m.obj], brand |-> m.brand] \in Key
        /\ NotAhead(generation', [obj |-> m.obj, gen |-> generation[m.obj], brand |-> m.brand])
    <3>1. m.obj \in Entry /\ m.brand \in Brand /\ generation[m.obj] \in Gen
      BY <1>0, MemoryAssumption
    <3>2. generation[m.obj] \in Nat
      BY <1>0, <3>1
    <3>. QED  BY <2>2, <3>1, <3>2 DEF Key, NotAhead
  <2>. QED  BY <2>1, <2>2, <2>3, GensGrow
<1>6. ASSUME NEW o \in Revocable, Invalidate(o)
      PROVE  Gens'
  BY <1>6, GensGrow DEF Invalidate
<1>. QED  BY <1>1, <1>2, <1>3, <1>4, <1>5, <1>6

\* Every step keeps keys behind their objects while no generation goes back.
LEMMA NextGens == Gens /\ [Next]_vars /\ Grows => Gens'
<1>. SUFFICES ASSUME Gens, [Next]_vars, Grows  PROVE  Gens'
  OBVIOUS
<1>1. MemoryInv'
  BY NextMemoryInv DEF Gens
<1>2. ASSUME NEW k \in Seen, PanicInChange(k) \/ PanicInMakeChild(k)
      PROVE  Gens'
  BY <1>1, <1>2, QuietStepsKeepGens DEF PanicInChange, PanicInMakeChild, Panic
<1>3. CASE Exit \/ Preempt \/ UNCHANGED vars
  BY <1>1, <1>3, QuietStepsKeepGens DEF Exit, Preempt, vars
<1>. QED
  BY <1>1, <1>2, <1>3, RewritesKeepGens, OthersKeepGens DEF Next, MemoryMessage

\* A key that is behind its object stays behind.
LEMMA DeadStaysDead ==
  ASSUME Gens, MemoryInv', Grows, NEW k \in held, Get(generation, k) # k.obj
  PROVE  Get(generation', k) # k.obj
<1>1. /\ k \in Key /\ k.obj \in Entry \ {NullObject} /\ k.gen # generation[k.obj]
      /\ NotAhead(generation, k)
  BY DEF Gens, NoKeyAhead, MemoryInv, TypeOK, Key, Get
<1>2. /\ k.gen \in Nat /\ generation[k.obj] \in Nat /\ generation'[k.obj] \in Nat
      /\ generation[k.obj] <= generation'[k.obj]
  BY <1>1, MemoryAssumption DEF Gens, MemoryInv, TypeOK, Key, Gen, Grows
<1>3. generation'[k.obj] # k.gen
  BY <1>1, <1>2 DEF NotAhead
<1>. QED  BY <1>1, <1>3 DEF Get

\* If whoever invalidates leaves the roll-over flag alone, a dead key stays dead
\* through every step but one that reuses an entry at its last generation.
THEOREM RevocationIsFinal == ASSUME RolloverRefused PROVE Spec => RevocationKills
<1>1. ASSUME MemoryInv, MemoryInv', [Next]_vars, NoKeyAhead, ~ ReuseRollsOver
      PROVE  /\ NoKeyAhead'
             /\ \A k \in held : Get(generation, k) # k.obj => Get(generation', k) # k.obj
  <2>1. Gens /\ Grows
    BY <1>1, GenerationsGrow DEF Gens
  <2>2. Gens'
    BY <1>1, <2>1, NextGens
  <2>. QED  BY <1>1, <2>1, <2>2, DeadStaysDead DEF Gens
<1>2. MemoryInv /\ MemoryInv' /\ [Next]_vars =>
        [NoKeyAhead /\ ~ ReuseRollsOver =>
           /\ NoKeyAhead'
           /\ \A k \in held : Get(generation, k) # k.obj => Get(generation', k) # k.obj]_vars
  BY <1>1
<1>. QED  BY <1>2, InitMemoryInv, NextMemoryInv, PTL DEF Spec, RevocationKills

-----------------------------------------------------------------------------
(* The MPU *)

\* Whoever invalidates waits for the answer, and so a switch follows.
InvalidationWaits == "invalidate" \notin SendOnly

\* The MPU is up to date as well at the end of a system call that switches to
\* nobody else.
Fresh ==
  /\ Gens
  /\ phase = "user" \/ (phase = "exit" /\ ~ pend) =>
       mpu = Applied(object, generation, regions[current])

\* No region depends on an entry that make_child fills, or on a count of
\* children.
LEMMA ChildIsNoRegion ==
  ASSUME Gens, Grows, NEW k \in Seen, MakeChild(k)
  PROVE  \A c \in Context :
           Applied(object', generation', regions[c]) = Applied(object, generation, regions[c])
<1>1. PICK base \in Bases, size \in Sizes, d \in held :
        /\ Accepted(k, base, size, d)
        /\ object' = [object EXCEPT
                        ![d.obj] = NewMemory(base, size, object[k.obj].device, k.obj),
                        ![k.obj].children = @ + 1]
        /\ generation' = [generation EXCEPT ![d.obj] = Bumped(d.obj)]
  BY DEF MakeChild
<1>2. /\ k.obj \in Entry \ {NullObject} /\ object[k.obj].kind = "memory"
      /\ d.obj \in Entry \ {NullObject} /\ object[d.obj].kind = "slot"
  BY <1>1, LiveKey, SeenType DEF Gens, MemoryInv, Accepted, AskedOf, IsSlot
<1>3. /\ object \in [Entry -> ObjectHead] /\ generation \in [Entry -> Gen]
      /\ regions \in [Context -> [Reg -> Key]] /\ object[NullObject].kind = "null"
  BY DEF Gens, MemoryInv, TypeOK
<1>4. /\ \A o \in Entry \ {d.obj} :
           /\ object'[o].kind = object[o].kind
           /\ object'[o].base = object[o].base /\ object'[o].size = object[o].size
           /\ generation'[o] = generation[o]
      /\ generation[d.obj] < generation'[d.obj] /\ generation[d.obj] \in Nat
      /\ generation'[d.obj] \in Nat
  <2>1. d.obj # k.obj
    BY <1>2
  <2>2. \A o \in Entry \ {d.obj, k.obj} : object'[o] = object[o]
    BY <1>1, <1>3
  <2>3. object'[k.obj] = [object[k.obj] EXCEPT !.children = object[k.obj].children + 1]
    BY <1>1, <1>2, <1>3, <2>1
  <2>4. object[k.obj] \in ObjectHead
    BY <1>2, <1>3
  <2>5. /\ object'[k.obj].kind = object[k.obj].kind
        /\ object'[k.obj].base = object[k.obj].base /\ object'[k.obj].size = object[k.obj].size
    BY <2>3, <2>4 DEF ObjectHead
  <2>6. /\ generation[d.obj] < generation'[d.obj] /\ generation[d.obj] \in Nat
        /\ generation'[d.obj] \in Nat
    BY <1>1, <1>2, <1>3, BumpedMoves DEF Gens, Grows
  <2>. QED  BY <1>1, <1>3, <2>2, <2>5, <2>6
<1>5. ASSUME NEW r \in Key, NotAhead(generation, r)
      PROVE  Region(object', generation', r) = Region(object, generation, r)
  <2>1. r.obj \in Entry /\ r.gen \in Nat
    BY MemoryAssumption DEF Key, Gen
  <2>2. CASE r.obj = d.obj
    <3>1. generation'[r.obj] # r.gen
      BY <1>4, <1>5, <2>1, <2>2 DEF NotAhead
    <3>2. Get(generation', r) = NullObject /\ Get(generation, r) \in {NullObject, d.obj}
      BY <2>2, <3>1 DEF Get
    <3>3. object'[NullObject].kind = "null"
      BY <1>2, <1>3, <1>4, MemoryAssumption
    <3>. QED  BY <1>2, <1>3, <3>2, <3>3 DEF Region
  <2>3. CASE r.obj # d.obj
    <3>1. /\ Get(generation', r) = Get(generation, r)
          /\ Get(generation, r) \in Entry \ {d.obj}
      BY <1>2, <1>4, <2>1, <2>3, MemoryAssumption DEF Get
    <3>. QED  BY <1>4, <3>1 DEF Region, Mappable
  <2>. QED  BY <2>2, <2>3
<1>. QED  BY <1>3, <1>5 DEF Applied, Gens, NoKeyAhead

\* Every step reloads the MPU, leaves alone what it was loaded from, or leaves
\* a switch pending.
LEMMA NextFresh ==
  ASSUME RolloverRefused, InvalidationWaits
  PROVE  Fresh /\ [Next]_vars /\ [~ ReuseRollsOver]_vars => Fresh'
<1>. SUFFICES ASSUME Fresh, [Next]_vars, Grows
              PROVE  phase' = "user" \/ (phase' = "exit" /\ ~ pend') =>
                       mpu' = Applied(object', generation', regions'[current'])
  BY NextGens, GenerationsGrow DEF Fresh, Gens
<1>0. current \in Context
  BY DEF Fresh, Gens, MemoryInv, TypeOK
<1>1. ASSUME NEW k \in Seen, ReadOrRefuse(k) \/ Poke(k) \/ Change(k)
      PROVE  mpu' = Applied(object', generation', regions'[current'])
  BY <1>1 DEF Fresh, ReadOrRefuse, Poke, Change, AskedOf, Asked
<1>2. ASSUME NEW k \in Seen, PanicInChange(k) \/ PanicInMakeChild(k)
      PROVE  phase' \notin {"user", "exit"}
  BY <1>2 DEF PanicInChange, PanicInMakeChild, Panic
<1>3. ASSUME NEW k \in Seen, Split(k) \/ Become(k)
      PROVE  mpu' = Applied(object', generation', regions'[current'])
  BY <1>3 DEF Split, Become, Reapplied
<1>4. ASSUME NEW k \in Seen, MakeChild(k)
      PROVE  mpu' = Applied(object', generation', regions'[current'])
  BY <1>0, <1>4, ChildIsNoRegion DEF Fresh, MakeChild, Accepted, AskedOf, Asked
<1>5. ASSUME NEW c \in Context, NEW n \in Reg, ReadRegion(c, n) \/ WriteRegion(c, n)
      PROVE  mpu' = Applied(object', generation', regions'[current'])
  <2>1. CASE ReadRegion(c, n)
    BY <2>1 DEF Fresh, ReadRegion, Asked
  <2>2. CASE WriteRegion(c, n)
    <3>1. c # current => regions'[current] = regions[current]
      BY <1>0, <2>2 DEF WriteRegion, Fresh, Gens, MemoryInv, TypeOK
    <3>. QED  BY <2>2, <3>1 DEF Fresh, WriteRegion, Asked
  <2>. QED  BY <1>5, <2>1, <2>2
<1>6. CASE MintKey
  BY <1>6 DEF Fresh, MintKey, Asked
<1>7. ASSUME NEW o \in Revocable, Invalidate(o)
      PROVE  phase' = "exit" /\ pend'
  BY <1>7 DEF Invalidate, Reply, InvalidationWaits
<1>8. CASE Exit \/ Preempt
  BY <1>8 DEF Fresh, Exit, Preempt, SwitchNow
<1>9. CASE UNCHANGED vars
  BY <1>9 DEF Fresh, vars
<1>. QED  BY <1>1, <1>2, <1>3, <1>4, <1>5, <1>6, <1>7, <1>8, <1>9 DEF Next, MemoryMessage

\* While a program runs the MPU holds what its keys give now, whatever is
\* split, made, changed, mapped or revoked, if those who invalidate wait for
\* the answer and no generation rolls over.
THEOREM MpuStaysFresh ==
  ASSUME RolloverRefused, InvalidationWaits
  PROVE  Spec /\ [][~ ReuseRollsOver]_vars => []MpuFresh
<1>1. Init => Fresh
  BY InitGens DEF Init, Fresh
<1>2. Fresh => MpuFresh
  BY DEF Fresh, MpuFresh
<1>. QED  BY <1>1, <1>2, NextFresh, PTL DEF Spec

-----------------------------------------------------------------------------
(* Extents *)

\* Some order of the entries has every parent before its children.
Ranked ==
  \E rank \in [Entry -> Nat] : \A o \in Entry :
    object[o].parent # NullObject => rank[object[o].parent] < rank[o]
Forest == MemoryInv /\ Ranked

\* A step keeps to an entry p what p is, but for its count of children.
Keeps(p) ==
  /\ object'[p].kind = object[p].kind /\ object'[p].parent = object[p].parent
  /\ object'[p].device = object[p].device /\ Extent(p)' = Extent(p)

\* What split does: o and a slot are roots, apart, made of what o was.
SplitOf(o, d) ==
  /\ o \in Entry \ {NullObject} /\ d \in Entry \ {NullObject, o}
  /\ MemoryIn(o) /\ object[o].children = 0 /\ object[d].kind = "slot"
  /\ \A e \in {o, d} :
       /\ object'[e].kind = "memory" /\ object'[e].parent = NullObject
       /\ object'[e].device = object[o].device /\ Extent(e)' \subseteq Extent(o)
  /\ Extent(o)' \cap Extent(d)' = {}
  /\ \A p \in Entry \ {o, d} : Keeps(p)

LEMMA SplitDoes ==
  ASSUME MemoryInv, NEW k \in Seen, Split(k)
  PROVE  \E d \in Entry : SplitOf(k.obj, d)
<1>. DEFINE o == k.obj
<1>1. PICK pos \in Positions, d \in held :
        Within(pos, object[o].size) /\ IsSlot(d) /\ object' = Halves(k, d, pos)
  BY DEF Split
<1>2. /\ o \in Entry \ {NullObject} /\ MemoryIn(o) /\ object[o].children = 0
      /\ d.obj \in Entry \ {NullObject, o} /\ object[d.obj].kind = "slot"
  BY <1>1, LiveKey, SeenType DEF MemoryInv, Split, AskedOf, IsSlot, MemoryIn
<1>3. /\ Orphaned(o) \in [Entry -> ObjectHead]
      /\ \A p \in Entry : /\ Orphaned(o)[p].kind = object[p].kind
                          /\ Orphaned(o)[p].base = object[p].base
                          /\ Orphaned(o)[p].size = object[p].size
                          /\ Orphaned(o)[p].device = object[p].device
                          /\ Orphaned(o)[p].parent = object[p].parent
  BY <1>2, OrphanedKeeps
<1>4. /\ object[o].base \in Nat /\ object[o].size \in Nat /\ pos \in Nat
      /\ pos <= object[o].size
  BY <1>1, <1>2, MemoryAssumption DEF MemoryInv, TypeOK, ObjectHead, Within, Address
<1>5. /\ object'[d.obj] = NewMemory(object[o].base + pos, object[o].size - pos,
                                    object[o].device, NullObject)
      /\ object'[o] = NewMemory(object[o].base, pos, object[o].device, NullObject)
      /\ \A p \in Entry \ {o, d.obj} : object'[p] = Orphaned(o)[p]
  BY <1>1, <1>2, <1>3 DEF Halves
<1>. HIDE DEF o
<1>6. /\ object'[d.obj].base = object[o].base + pos
      /\ object'[d.obj].size = object[o].size - pos
      /\ object'[o].base = object[o].base /\ object'[o].size = pos
      /\ \A e \in {o, d.obj} : /\ object'[e].kind = "memory" /\ object'[e].parent = NullObject
                               /\ object'[e].device = object[o].device
  BY <1>5 DEF NewMemory
<1>7. /\ Extent(o)' \subseteq Extent(o) /\ Extent(d.obj)' \subseteq Extent(o)
      /\ Extent(o)' \cap Extent(d.obj)' = {}
  BY <1>4, <1>6 DEF Extent
<1>8. \A p \in Entry \ {o, d.obj} : Keeps(p)
  BY <1>3, <1>5 DEF Keeps, Extent
<1>9. SplitOf(o, d.obj)
  BY <1>2, <1>6, <1>7, <1>8 DEF SplitOf
<1>. QED  BY <1>2, <1>9 DEF o

\* What make_child does: a slot is a Memory within o.
ChildOf(o, d) ==
  /\ o \in Entry \ {NullObject} /\ d \in Entry \ {NullObject, o}
  /\ MemoryIn(o) /\ object[d].kind = "slot"
  /\ object'[d].kind = "memory" /\ object'[d].parent = o
  /\ object'[d].device = object[o].device /\ Extent(d)' \subseteq Extent(o)
  /\ \A p \in Entry \ {d} : Keeps(p)

LEMMA MakeChildDoes ==
  ASSUME MemoryInv, NEW k \in Seen, MakeChild(k)
  PROVE  \E d \in Entry : ChildOf(k.obj, d)
<1>. DEFINE o == k.obj
<1>1. PICK base \in Bases, size \in Sizes, d \in held :
        /\ Accepted(k, base, size, d)
        /\ ~ Overflows(base, size)
        /\ object' = [object EXCEPT ![d.obj] = NewMemory(base, size, object[o].device, o),
                                    ![o].children = @ + 1]
  BY DEF MakeChild
<1>2. /\ o \in Entry \ {NullObject} /\ MemoryIn(o)
      /\ d.obj \in Entry \ {NullObject, o} /\ object[d.obj].kind = "slot"
  BY <1>1, LiveKey, SeenType DEF MemoryInv, Accepted, AskedOf, IsSlot, MemoryIn
<1>3. object \in [Entry -> ObjectHead] /\ object[o] \in ObjectHead
  BY <1>2 DEF MemoryInv, TypeOK
<1>4. /\ base \in Nat /\ size \in Nat /\ object[o].base \in Nat /\ object[o].size \in Nat
      /\ object[o].base <= base /\ base + size <= object[o].base + object[o].size
  <2>1. base \in Address /\ size \in Address /\ Contains(object[o], base, size)
    BY <1>1, MemoryAssumption DEF Accepted
  <2>2. object[o].base <= base /\ base + size <= object[o].base + object[o].size
    BY <1>1, <1>3, <2>1, ContainsMeans
  <2>. QED  BY <1>3, <2>1, <2>2, MemoryAssumption DEF ObjectHead, Address
<1>5. /\ object'[d.obj] = NewMemory(base, size, object[o].device, o)
      /\ object'[o] = [object[o] EXCEPT !.children = object[o].children + 1]
      /\ \A p \in Entry \ {o, d.obj} : object'[p] = object[p]
  BY <1>1, <1>2, <1>3
<1>. HIDE DEF o
<1>6. /\ object'[d.obj].base = base /\ object'[d.obj].size = size
      /\ object'[d.obj].kind = "memory" /\ object'[d.obj].parent = o
      /\ object'[d.obj].device = object[o].device
  BY <1>5 DEF NewMemory
<1>7. Extent(d.obj)' \subseteq Extent(o)
  BY <1>4, <1>6 DEF Extent
<1>8. Keeps(o)
  BY <1>3, <1>5 DEF Keeps, Extent, ObjectHead
<1>9. \A p \in Entry \ {d.obj} : Keeps(p)
  BY <1>5, <1>8 DEF Keeps, Extent
<1>10. ChildOf(o, d.obj)
  BY <1>2, <1>6, <1>7, <1>9 DEF ChildOf
<1>. QED  BY <1>2, <1>10 DEF o

\* What become does: o, a root and a leaf that is no device, is a body where it was.
BodyOf(o) ==
  /\ o \in Entry \ {NullObject} /\ Root(o)
  /\ object[o].children = 0 /\ object[o].device = FALSE
  /\ Body(o)' /\ object'[o].kind # "memory" /\ object'[o].parent = NullObject
  /\ object'[o].device = FALSE /\ Extent(o)' \subseteq Extent(o)
  /\ \A p \in Entry \ {o} : Keeps(p)

LEMMA BecomeDoes ==
  ASSUME MemoryInv, NEW k \in Seen, Become(k)
  PROVE  BodyOf(k.obj)
<1>. DEFINE o == k.obj
<1>1. PICK kind \in DOMAIN BodySize :
        /\ BodySize[kind] <= object[o].size
        /\ object' = [object EXCEPT ![o] = NewObject(kind, @.base, BodySize[kind])]
  BY DEF Become
<1>2. object \in [Entry -> ObjectHead]
  BY DEF MemoryInv, TypeOK
<1>3. /\ o \in Entry \ {NullObject} /\ Root(o)
      /\ object[o].children = 0 /\ object[o].device = FALSE
  BY <1>2, LiveKey DEF Become, AskedOf, MemoryIn, Root, Total, ObjectHead
<1>4. /\ BodySize[kind] \in Nat /\ kind \in {"context", "gate", "interrupt"}
      /\ DOMAIN BodySize = {"context", "gate", "interrupt"}
  BY MemoryAssumption
<1>5. /\ object[o].base \in Nat /\ object[o].size \in Nat
  BY <1>2, <1>3, MemoryAssumption DEF ObjectHead, Address
<1>6. /\ object'[o] = NewObject(kind, object[o].base, BodySize[kind])
      /\ \A p \in Entry \ {o} : object'[p] = object[p]
  BY <1>1, <1>2, <1>3
<1>. HIDE DEF o
<1>7. /\ object'[o].kind = kind /\ object'[o].parent = NullObject
      /\ object'[o].device = FALSE
      /\ object'[o].base = object[o].base /\ object'[o].size = BodySize[kind]
  BY <1>6 DEF NewObject, NewMemory
<1>8. Extent(o)' \subseteq Extent(o)
  BY <1>1, <1>4, <1>5, <1>7 DEF Extent
<1>9. \A p \in Entry \ {o} : Keeps(p)
  BY <1>6 DEF Keeps, Extent
<1>10. Body(o)' /\ kind # "memory"
  BY <1>4, <1>7 DEF Body
<1>11. BodyOf(o)
  BY <1>3, <1>7, <1>8, <1>9, <1>10 DEF BodyOf
<1>. QED  BY <1>11 DEF o

\* The other steps leave the object table alone.
LEMMA OthersKeepObjects ==
  ASSUME [Next]_vars, ~ \E k \in Seen : Split(k) \/ MakeChild(k) \/ Become(k)
  PROVE  object' = object
<1>1. ASSUME NEW k \in Seen, MemoryMessage(k)  PROVE  object' = object
  BY <1>1 DEF MemoryMessage, ReadOrRefuse, Poke, Change, PanicInChange, PanicInMakeChild, Panic
<1>2. ASSUME \/ \E c \in Context, n \in Reg : ReadRegion(c, n) \/ WriteRegion(c, n)
             \/ MintKey
             \/ \E o \in Revocable : Invalidate(o)
             \/ Exit \/ Preempt \/ UNCHANGED vars
      PROVE  object' = object
  BY <1>2 DEF ReadRegion, WriteRegion, MintKey, Invalidate, Exit, Preempt, vars
<1>. QED  BY <1>1, <1>2 DEF Next

\* An order stays one as long as nobody gets a parent.
LEMMA FewerParents ==
  ASSUME Ranked, \A o \in Entry : object'[o].parent \in {object[o].parent, NullObject}
  PROVE  Ranked'
<1>1. PICK rank \in [Entry -> Nat] : \A o \in Entry :
        object[o].parent # NullObject => rank[object[o].parent] < rank[o]
  BY DEF Ranked
<1>2. \A o \in Entry :
        object'[o].parent # NullObject => rank[object'[o].parent] < rank[o]
  BY <1>1
<1>. QED  BY <1>2 DEF Ranked

\* A new child, which is nobody's parent, comes after its parent.
LEMMA OneMoreChild ==
  ASSUME Forest, NEW o, NEW d, ChildOf(o, d)
  PROVE  Ranked'
<1>1. PICK rank \in [Entry -> Nat] : \A p \in Entry :
        object[p].parent # NullObject => rank[object[p].parent] < rank[p]
  BY DEF Forest, Ranked
<1>. DEFINE new == [rank EXCEPT ![d] = rank[o] + 1]
<1>2. o \in Entry /\ d \in Entry /\ o # d
  BY DEF ChildOf
<1>3. /\ new \in [Entry -> Nat] /\ new[d] = rank[o] + 1
      /\ \A p \in Entry \ {d} : new[p] = rank[p]
  BY <1>2
<1>. HIDE DEF new
<1>4. \A p \in Entry : object[p].parent \in Entry \ {d}
  <2>1. ~ MemoryIn(d) /\ d # NullObject
    BY DEF ChildOf, MemoryIn
  <2>2. \A p \in Entry : object[p].parent # d
    BY <1>2, <2>1, OtherIsNoParent DEF Forest
  <2>. QED  BY <2>2 DEF Forest, MemoryInv, TypeOK, ObjectHead
<1>5. ASSUME NEW p \in Entry, object'[p].parent # NullObject
      PROVE  new[object'[p].parent] < new[p]
  <2>1. CASE p = d
    <3>1. object'[d].parent = o
      BY DEF ChildOf
    <3>. QED  BY <1>2, <1>3, <2>1, <3>1
  <2>2. CASE p # d
    <3>1. object'[p].parent = object[p].parent
      BY <2>2 DEF ChildOf, Keeps
    <3>. QED  BY <1>1, <1>3, <1>4, <1>5, <2>2, <3>1
  <2>. QED  BY <2>1, <2>2
<1>. QED  BY <1>3, <1>5 DEF Ranked

\* The tree stays a forest: no Memory is among its own ancestors.
LEMMA NextForest == Forest /\ [Next]_vars => Forest'
<1>. SUFFICES ASSUME Forest, [Next]_vars  PROVE  Ranked'
  BY NextMemoryInv DEF Forest
<1>1. ASSUME NEW k \in Seen, Split(k)  PROVE  Ranked'
  BY <1>1, SplitDoes, FewerParents DEF Forest, SplitOf, Keeps
<1>2. ASSUME NEW k \in Seen, MakeChild(k)  PROVE  Ranked'
  BY <1>2, MakeChildDoes, OneMoreChild DEF Forest
<1>3. ASSUME NEW k \in Seen, Become(k)  PROVE  Ranked'
  <2>1. BodyOf(k.obj)
    BY <1>3, BecomeDoes DEF Forest
  <2>. QED  BY <2>1, FewerParents DEF Forest, BodyOf, Keeps
<1>4. CASE ~ \E k \in Seen : Split(k) \/ MakeChild(k) \/ Become(k)
  BY <1>4, OthersKeepObjects, FewerParents DEF Forest
<1>. QED  BY <1>1, <1>2, <1>3, <1>4

\* The Memory of boot has no parents.
LEMMA InitForest == Init => Forest
<1>. SUFFICES ASSUME Init  PROVE  Ranked
  BY InitMemoryInv DEF Forest
<1>1. [o \in Entry |-> 0] \in [Entry -> Nat]
  OBVIOUS
<1>. QED  BY <1>1, MemoryAssumption DEF Init, Ranked

\* A root with no children overlaps no other Memory, if it overlaps no root:
\* of those it overlapped, one would have a parent that it does not overlap.
LEMMA LeafRootAlone ==
  ASSUME Forest, RootsDisjoint, NEW o \in Entry, Root(o), object[o].children = 0
  PROVE  \A p \in Entry : p # o /\ MemoryIn(p) => Extent(p) \cap Extent(o) = {}
<1>. DEFINE Bad == {p \in Entry : p # o /\ MemoryIn(p) /\ Extent(p) \cap Extent(o) # {}}
<1>. SUFFICES ASSUME Bad # {}  PROVE  FALSE
  OBVIOUS
<1>1. PICK rank \in [Entry -> Nat] : \A p \in Entry :
        object[p].parent # NullObject => rank[object[p].parent] < rank[p]
  BY DEF Forest, Ranked
<1>. DEFINE Ranks == {rank[p] : p \in Bad}
<1>2. Ranks \subseteq Nat /\ Ranks # {}
  OBVIOUS
<1>3. PICK n \in Ranks : \A m \in Ranks : ~ (<<m, n>> \in OpToRel(<, Nat))
  <2>. HIDE DEF Ranks
  <2>. QED  BY <1>2, NatLessThanWellFounded, WFMin, Zenon
<1>4. PICK p \in Bad : rank[p] = n
  OBVIOUS
<1>. DEFINE q == object[p].parent
<1>5. q # NullObject
  BY <1>4 DEF RootsDisjoint, Root
<1>6. q \in Entry /\ MemoryIn(q) /\ Extent(p) \subseteq Extent(q)
  BY <1>4, <1>5 DEF Forest, MemoryInv, TypeOK, ObjectHead, TreeAgrees
<1>7. q # o
  BY <1>4, <1>5, LeafIsNoParent DEF Forest, Root
<1>8. q \in Bad
  BY <1>4, <1>6, <1>7
<1>9. rank[q] < n /\ rank[q] \in Nat /\ n \in Nat /\ rank[q] \in Ranks
  BY <1>1, <1>4, <1>5, <1>6, <1>8
<1>10. <<rank[q], n>> \in OpToRel(<, Nat)
  BY <1>9 DEF OpToRel
<1>. QED  BY <1>3, <1>9, <1>10

\* The two properties, and what a step may do to them.
Private == RootsDisjoint /\ BodiesPrivate

\* A split of a root: the halves are within what was apart from the rest.
LEMMA SplitKeepsPrivate ==
  ASSUME Forest, Private, NEW o, NEW d, SplitOf(o, d), ~ SplitsChild
  PROVE  Private'
<1>1. Root(o)
  BY DEF SplitsChild, SplitOf, Root
<1>2. \A p \in Entry \ {o, d} : /\ Root(p)' => Root(p)
                                /\ MemoryIn(p)' => MemoryIn(p)
                                /\ Body(p)' => Body(p)
                                /\ Extent(p)' = Extent(p)
  BY DEF SplitOf, Keeps, Root, MemoryIn, Body
<1>3. ~ Body(o)' /\ ~ Body(d)'
  BY MemoryAssumption DEF SplitOf, Body
<1>4. RootsDisjoint'
  BY <1>1, <1>2 DEF Private, RootsDisjoint, SplitOf
<1>5. BodiesPrivate'
  BY <1>1, <1>2, <1>3 DEF Private, BodiesPrivate, SplitOf
<1>. QED  BY <1>4, <1>5 DEF Private

\* A new child is no root, and within a Memory that no body is in.
LEMMA ChildKeepsPrivate ==
  ASSUME Private, NEW o, NEW d, ChildOf(o, d)
  PROVE  Private'
<1>1. \A p \in Entry \ {d} : /\ Root(p)' => Root(p)
                             /\ MemoryIn(p)' => MemoryIn(p)
                             /\ Body(p)' => Body(p)
                             /\ Extent(p)' = Extent(p)
  BY DEF ChildOf, Keeps, Root, MemoryIn, Body
<1>2. ~ Body(d)' /\ ~ Root(d)' /\ ~ Body(o)
  BY MemoryAssumption DEF ChildOf, Body, Root, MemoryIn
<1>3. RootsDisjoint'
  BY <1>1, <1>2 DEF Private, RootsDisjoint
<1>4. BodiesPrivate'
  BY <1>1, <1>2 DEF Private, BodiesPrivate, ChildOf
<1>. QED  BY <1>3, <1>4 DEF Private

\* What becomes a body was a root without children.
LEMMA BecomeKeepsPrivate ==
  ASSUME Forest, Private, NEW o, BodyOf(o)
  PROVE  Private'
<1>1. \A p \in Entry \ {o} : /\ Root(p)' => Root(p)
                             /\ MemoryIn(p)' => MemoryIn(p)
                             /\ Body(p)' => Body(p)
                             /\ Extent(p)' = Extent(p)
  BY DEF BodyOf, Keeps, Root, MemoryIn, Body
<1>2. ~ MemoryIn(o)' /\ ~ Root(o)' /\ MemoryIn(o)
  BY DEF BodyOf, MemoryIn, Root
<1>3. \A p \in Entry : p # o /\ MemoryIn(p) => Extent(p) \cap Extent(o) = {}
  BY LeafRootAlone DEF BodyOf, Private
<1>4. RootsDisjoint'
  BY <1>1, <1>2 DEF Private, RootsDisjoint
<1>5. BodiesPrivate'
  <2>. SUFFICES ASSUME NEW p \in Entry, NEW q \in Entry, p # q,
                       Body(p)', Body(q)' \/ MemoryIn(q)'
                PROVE  Extent(p)' \cap Extent(q)' = {}
    BY DEF BodiesPrivate
  <2>1. CASE p # o /\ q # o
    BY <1>1, <2>1 DEF Private, BodiesPrivate
  <2>2. CASE p = o
    <3>1. Extent(q)' = Extent(q) /\ (Body(q) \/ MemoryIn(q))
      BY <1>1, <2>2
    <3>2. Extent(q) \cap Extent(o) = {}
      BY <1>2, <1>3, <2>2, <3>1 DEF Private, BodiesPrivate, BodyOf
    <3>. QED  BY <2>2, <3>1, <3>2 DEF BodyOf
  <2>3. CASE q = o
    <3>1. Extent(p)' = Extent(p) /\ Body(p)
      BY <1>1, <2>3
    <3>2. Extent(p) \cap Extent(o) = {}
      BY <1>2, <2>3, <3>1 DEF Private, BodiesPrivate, BodyOf
    <3>. QED  BY <2>3, <3>1, <3>2 DEF BodyOf
  <2>. QED  BY <2>1, <2>2, <2>3
<1>. QED  BY <1>4, <1>5 DEF Private

\* Every step but the split of a child keeps roots and bodies apart.
LEMMA NextPrivate ==
  ASSUME Forest, [Next]_vars, Private, ~ SplitsChild
  PROVE  Private'
<1>1. ASSUME NEW k \in Seen, Split(k)  PROVE  Private'
  BY <1>1, SplitDoes, SplitKeepsPrivate DEF Forest
<1>2. ASSUME NEW k \in Seen, MakeChild(k)  PROVE  Private'
  BY <1>2, MakeChildDoes, ChildKeepsPrivate DEF Forest
<1>3. ASSUME NEW k \in Seen, Become(k)  PROVE  Private'
  BY <1>3, BecomeDoes, BecomeKeepsPrivate DEF Forest
<1>4. CASE ~ \E k \in Seen : Split(k) \/ MakeChild(k) \/ Become(k)
  BY <1>4, OthersKeepObjects
     DEF Private, RootsDisjoint, BodiesPrivate, Root, Body, MemoryIn, Extent
<1>. QED  BY <1>1, <1>2, <1>3, <1>4

\* In every behaviour, children and overlapping siblings included, a step that
\* makes roots overlap or puts a body into somebody's Memory splits a child.
THEOREM OnlySplittingChildrenOverlaps == Spec => OnlySplitChildrenOverlap
<1>1. Forest /\ [Next]_vars =>
        [RootsDisjoint /\ BodiesPrivate /\ ~ SplitsChild =>
           (RootsDisjoint /\ BodiesPrivate)']_vars
  BY NextPrivate DEF Private
<1>. QED  BY <1>1, InitForest, NextForest, PTL DEF Spec, OnlySplitChildrenOverlap

\* The Memory of boot lies apart.
BootApart ==
  \A o, p \in Entry : o # p =>
    LET Occupied(q) == InitObject[q].base .. (InitObject[q].base + InitObject[q].size - 1)
    IN  Occupied(o) \cap Occupied(p) = {}

\* So until a child is split the manual's two statements are true, with children
\* made and kernel objects created in any order.
THEOREM ApartUntilChildIsSplit ==
  ASSUME BootApart
  PROVE  Spec /\ [][~ SplitsChild]_vars => [](RootsDisjoint /\ BodiesPrivate)
<1>1. Init => Private
  BY DEF Init, BootApart, Private, RootsDisjoint, BodiesPrivate, Extent
<1>2. Forest /\ Private /\ [Next]_vars /\ [~ SplitsChild]_vars => Private'
  <2>1. Private /\ UNCHANGED vars => Private'
    BY DEF vars, Private, RootsDisjoint, BodiesPrivate, Root, Body, MemoryIn, Extent
  <2>. QED  BY <2>1, NextPrivate
<1>3. Private => RootsDisjoint /\ BodiesPrivate
  BY DEF Private
<1>. QED  BY <1>1, <1>2, <1>3, InitForest, NextForest, PTL DEF Spec

\* Every new extent is part of one, of the same attribute, that was there.
LEMMA NextSticky == MemoryInv /\ DeviceSticky /\ [Next]_vars => DeviceSticky'
<1>. SUFFICES ASSUME MemoryInv, DeviceSticky, [Next]_vars  PROVE  DeviceSticky'
  OBVIOUS
<1>0. ASSUME \A p \in Entry : \E q \in Entry :
               Extent(p)' \subseteq Extent(q) /\ object'[p].device = object[q].device
      PROVE  DeviceSticky'
  <2>. SUFFICES ASSUME NEW p \in Entry
                PROVE  \E r \in Entry :
                         /\ Extent(p)' \subseteq
                              InitObject[r].base .. (InitObject[r].base + InitObject[r].size - 1)
                         /\ object'[p].device = InitObject[r].device
    BY DEF DeviceSticky
  <2>1. PICK q \in Entry :
          Extent(p)' \subseteq Extent(q) /\ object'[p].device = object[q].device
    BY <1>0
  <2>. QED  BY <2>1 DEF DeviceSticky
<1>1. ASSUME NEW k \in Seen, Split(k)  PROVE  DeviceSticky'
  <2>1. PICK d \in Entry : SplitOf(k.obj, d)
    BY <1>1, SplitDoes
  <2>2. ASSUME NEW p \in Entry
        PROVE  \E q \in Entry :
                 Extent(p)' \subseteq Extent(q) /\ object'[p].device = object[q].device
    BY <2>1 DEF SplitOf, Keeps
  <2>. QED  BY <1>0, <2>2
<1>2. ASSUME NEW k \in Seen, MakeChild(k)  PROVE  DeviceSticky'
  <2>1. PICK d \in Entry : ChildOf(k.obj, d)
    BY <1>2, MakeChildDoes
  <2>2. ASSUME NEW p \in Entry
        PROVE  \E q \in Entry :
                 Extent(p)' \subseteq Extent(q) /\ object'[p].device = object[q].device
    BY <2>1 DEF ChildOf, Keeps
  <2>. QED  BY <1>0, <2>2
<1>3. ASSUME NEW k \in Seen, Become(k)  PROVE  DeviceSticky'
  <2>1. BodyOf(k.obj)
    BY <1>3, BecomeDoes
  <2>2. ASSUME NEW p \in Entry
        PROVE  \E q \in Entry :
                 Extent(p)' \subseteq Extent(q) /\ object'[p].device = object[q].device
    BY <2>1 DEF BodyOf, Keeps
  <2>. QED  BY <1>0, <2>2
<1>4. CASE ~ \E k \in Seen : Split(k) \/ MakeChild(k) \/ Become(k)
  BY <1>4, OthersKeepObjects DEF DeviceSticky, Extent
<1>. QED  BY <1>1, <1>2, <1>3, <1>4

\* The device attribute survives every chain of make_child, split and become,
\* the split of children included, and no kernel object is ever where a device is.
THEOREM DeviceAttributeSticks == Spec => []DeviceSticky
<1>1. Init => DeviceSticky
  BY DEF Init, DeviceSticky, Extent
<1>. QED  BY <1>1, NextSticky, InitMemoryInv, NextMemoryInv, PTL DEF Spec

-----------------------------------------------------------------------------
(* Authority *)

\* Key k lets unprivileged code do what key r does, as long as their object
\* stays what it is.
Covers(k, r) ==
  /\ k.obj = r.obj /\ k.gen = r.gen
  /\ \A level \in {1, 2} :
       Decoded[r.brand.ap].unpriv >= level => Decoded[k.brand.ap].unpriv >= level
  /\ k.brand.srd \subseteq r.brand.srd

\* All the authority there is comes from the keys first held: nobody has a
\* generation rolled over or mints keys, those that arrive during a send give
\* unprivileged code no access, and the first regions are no more than keys.
NothingAdded ==
  /\ RolloverRefused
  /\ "mint_key" \in Ops => Mintable = {}
  /\ \A b \in Arriving : b.ap \in Predictable /\ Decoded[b.ap].unpriv = 0
  /\ \A c \in Context, n \in Reg :
       InitRegions[c][n] = NullKey \/ \E k \in InitHeld : Covers(k, InitRegions[c][n])

\* Region registers hold no more authority than the keys held, and never will:
\* held keys are never given up.
Authority ==
  /\ Gens
  /\ \A c \in Context, n \in Reg :
       regions[c][n] = NullKey \/ \E k \in held : Covers(k, regions[c][n])

\* Region registers start with what held keys give.
LEMMA InitAuthority == ASSUME NothingAdded PROVE Init => Authority
BY InitGens DEF Init, Authority, NothingAdded

\* What a program may read back from a region register, a held key covers.
LEMMA NextAuthority ==
  ASSUME NothingAdded
  PROVE  Authority /\ [Next]_vars /\ [~ ReuseRollsOver]_vars => Authority'
<1>. SUFFICES ASSUME Authority, [Next]_vars, [~ ReuseRollsOver]_vars  PROVE  Authority'
  OBVIOUS
<1>1. Gens'
  BY NextGens, GenerationsGrow DEF Authority, NothingAdded, Gens
<1>2. held \subseteq held'
  <2>1. \A op, ks : Reply(op, ks) => held \subseteq held'
    BY DEF Reply
  <2>2. ASSUME NEW k \in Seen, MemoryMessage(k)
        PROVE  held' = held \/ \E op, ks : Reply(op, ks)
    BY <2>2 DEF MemoryMessage, ReadOrRefuse, Poke, Change, PanicInChange, Split, MakeChild,
                PanicInMakeChild, Become, Panic
  <2>3. ASSUME NEW c \in Context, NEW n \in Reg, ReadRegion(c, n) \/ WriteRegion(c, n)
        PROVE  \E op, ks : Reply(op, ks)
    BY <2>3 DEF ReadRegion, WriteRegion
  <2>4. ASSUME MintKey \/ \E o \in Revocable : Invalidate(o)
        PROVE  \E op, ks : Reply(op, ks)
    BY <2>4 DEF MintKey, Invalidate
  <2>5. ASSUME Exit \/ Preempt \/ UNCHANGED vars
        PROVE  held' = held
    BY <2>5 DEF Exit, Preempt, vars
  <2>. QED  BY <2>1, <2>2, <2>3, <2>4, <2>5 DEF Next
<1>3. \/ regions' = regions
      \/ \E c \in Context, n \in Reg, k \in held \cup {NullKey} :
           regions' = [regions EXCEPT ![c][n] = k]
  <2>1. ASSUME NEW c \in Context, NEW n \in Reg, WriteRegion(c, n)
        PROVE  \E k \in held \cup {NullKey} : regions' = [regions EXCEPT ![c][n] = k]
    BY <2>1 DEF WriteRegion
  <2>. QED
    BY <2>1 DEF Next, MemoryMessage, ReadOrRefuse, Poke, Change, PanicInChange, Split, MakeChild,
         PanicInMakeChild, Become, ReadRegion, MintKey, Invalidate, Panic, Exit, Preempt, vars
<1>4. \A k \in held : Covers(k, k)
  BY DEF Covers
<1>5. regions \in [Context -> [Reg -> Key]]
  BY DEF Authority, Gens, MemoryInv, TypeOK
<1>6. ASSUME NEW c \in Context, NEW n \in Reg
      PROVE  regions'[c][n] = regions[c][n] \/ regions'[c][n] \in held \cup {NullKey}
  BY <1>3, <1>5
<1>7. ASSUME NEW c \in Context, NEW n \in Reg
      PROVE  regions'[c][n] = NullKey \/ \E k \in held' : Covers(k, regions'[c][n])
  BY <1>2, <1>4, <1>6 DEF Authority
<1>. QED  BY <1>1, <1>7 DEF Authority

-----------------------------------------------------------------------------
(* What the keys held before and after a step confer *)

\* An address is reachable if a held key confers it.
LEMMA ReachableMeans ==
  ASSUME NEW level, NEW a
  PROVE  a \in Reachable(level) <=> \E k \in held : Confers(k, a, level)
BY DEF Reachable, Confers

\* A key confers no more if its object keeps its extent, and was Memory if it is.
LEMMA ConfersFrame ==
  ASSUME NEW k, NEW a, NEW level, Confers(k, a, level)',
         object'[k.obj].base = object[k.obj].base,
         object'[k.obj].size = object[k.obj].size,
         MemoryIn(Get(generation, k))
  PROVE  Confers(k, a, level)
BY DEF Confers, Extent, Mappable, MemoryIn

\* A step leaves entries it gives no new generation what they are.
Undisturbed ==
  \A o \in Entry :
    \/ generation[o] < generation'[o]
    \/ /\ generation'[o] = generation[o]
       /\ object'[o].kind = object[o].kind
       /\ object'[o].base = object[o].base
       /\ object'[o].size = object[o].size

\* A held key confers after such a step what it conferred before, or has died.
LEMMA HeldConfersNoMore ==
  ASSUME Gens, Gens', Undisturbed, NEW k \in held, NEW a, NEW level, Confers(k, a, level)'
  PROVE  Confers(k, a, level)
<1>1. /\ k \in Key /\ k.obj \in Entry /\ k.gen \in Nat
      /\ k.gen <= generation[k.obj] /\ generation[k.obj] \in Nat
  BY MemoryAssumption DEF Gens, NoKeyAhead, MemoryInv, TypeOK, Key, Gen, NotAhead
<1>2. object'[NullObject].kind = "null"
  BY DEF Gens, MemoryInv
<1>3. Get(generation', k) = k.obj /\ generation'[k.obj] = k.gen /\ object'[k.obj].kind = "memory"
  BY <1>2 DEF Confers, MemoryIn, Get
<1>4. /\ generation'[k.obj] = generation[k.obj]
      /\ object'[k.obj].kind = object[k.obj].kind
      /\ object'[k.obj].base = object[k.obj].base
      /\ object'[k.obj].size = object[k.obj].size
  BY <1>1, <1>3 DEF Undisturbed
<1>5. MemoryIn(Get(generation, k))
  BY <1>3, <1>4 DEF MemoryIn, Get
<1>. QED  BY <1>4, <1>5, ConfersFrame

\* A reply gives away nothing if no key it carries does.
LEMMA ReplyGivesNothing ==
  ASSUME Gens, Gens', Undisturbed, NEW op, NEW ks, Reply(op, ks), NEW level,
         \A x \in ks, a \in Nat : Confers(x, a, level)' => a \in Reachable(level)
  PROVE  Reachable(level)' \subseteq Reachable(level)
<1>. SUFFICES ASSUME NEW a, (a \in Reachable(level))'  PROVE  a \in Reachable(level)
  OBVIOUS
<1>1. PICK k \in held' : Confers(k, a, level)'
  BY DEF Reachable, Confers
<1>2. k \in held \/ k \in ks
  BY DEF Reply
<1>3. a \in Nat
  <2>1. a \in Extent(k.obj)' /\ held' \subseteq Key /\ object' \in [Entry -> ObjectHead]
    BY <1>1 DEF Confers, Gens, MemoryInv, TypeOK
  <2>2. object'[k.obj].base \in Nat /\ object'[k.obj].size \in Nat
    BY <2>1, MemoryAssumption DEF Key, ObjectHead, Address
  <2>. QED  BY <2>1, <2>2 DEF Extent
<1>4. CASE k \in held
  BY <1>1, <1>4, HeldConfersNoMore, ReachableMeans
<1>5. CASE k \in ks
  BY <1>1, <1>3, <1>5
<1>. QED  BY <1>2, <1>4, <1>5

\* The handler sees a held key, or a brand that gives no access.
LEMMA SeenIsHeldOrPowerless ==
  ASSUME NothingAdded, Gens, NEW k \in Seen
  PROVE  \/ k \in held
         \/ k.brand.ap \in Predictable /\ Decoded[k.brand.ap].unpriv = 0
<1>1. held \subseteq Key
  BY DEF Gens, MemoryInv, TypeOK
<1>2. CASE \E h \in held, b \in Arriving : k = [h EXCEPT !.brand = b]
  <2>1. PICK h \in held, b \in Arriving : k = [h EXCEPT !.brand = b]
    BY <1>2
  <2>2. k.brand = b
    BY <1>1, <2>1 DEF Key
  <2>. QED  BY <2>2 DEF NothingAdded
<1>. QED  BY <1>2 DEF Seen

\* A key with all its subregions gives what it gives over its whole extent.
LEMMA AskedConfers ==
  ASSUME NothingAdded, Gens, NEW k \in Seen, NEW op, AskedOf(k, op), Disabled(k) = {},
         NEW level \in {1, 2}, Decoded[k.brand.ap].unpriv >= level, NEW a \in Extent(k.obj)
  PROVE  a \in Reachable(level)
<1>1. k \in held
  <2>1. Decoded[k.brand.ap].unpriv # 0
    OBVIOUS
  <2>. QED  BY <2>1, SeenIsHeldOrPowerless
<1>2. Get(generation, k) = k.obj /\ object[k.obj].kind = "memory"
  <2>1. Get(generation, k) = k.obj
    BY LiveKey DEF Gens, AskedOf
  <2>. QED  BY <2>1 DEF AskedOf
<1>3. Mappable(object[k.obj]) => k.brand.srd = {}
  BY <1>2 DEF Disabled, Region
<1>4. Confers(k, a, level)
  BY <1>2, <1>3 DEF Confers, MemoryIn
<1>. QED  BY <1>1, <1>4, ReachableMeans

-----------------------------------------------------------------------------
(* No message gives authority that nobody had *)

\* change: a brand of no more access, and no subregion enabled again.
LEMMA ChangeGivesNothing ==
  ASSUME NothingAdded, Gens, Gens', NEW k \in Seen, Change(k), NEW level \in {1, 2}
  PROVE  Reachable(level)' \subseteq Reachable(level)
<1>1. PICK b \in Brand :
        /\ b.ap \in Predictable
        /\ ~ Stronger(b.ap, k.brand.ap)
        /\ k.brand.srd \subseteq b.srd
        /\ Reply("change", {[k EXCEPT !.brand = b]})
  BY DEF Change
<1>2. k \in Key /\ k.brand.ap \in Predictable
  BY SeenType DEF Gens, MemoryInv, Change
<1>3. /\ \A p \in Predictable : Decoded[p].unpriv \in {0, 1, 2}
      /\ Decoded[b.ap].unpriv <= Decoded[k.brand.ap].unpriv
  <2>1. \A p \in Predictable : Decoded[p].unpriv \in {0, 1, 2}
    BY DEF Predictable, Decoded
  <2>2. ~ Decoded[b.ap].unpriv > Decoded[k.brand.ap].unpriv
    BY <1>1 DEF Stronger
  <2>. QED  BY <1>1, <1>2, <2>1, <2>2
<1>4. object' = object /\ generation' = generation
  BY DEF Change
<1>5. Undisturbed
  BY <1>4 DEF Undisturbed
<1>. DEFINE x == [k EXCEPT !.brand = b]
<1>6. x.obj = k.obj /\ x.gen = k.gen /\ x.brand = b
  BY <1>2 DEF Key
<1>7. ASSUME NEW a, Confers(x, a, level)'
      PROVE  a \in Reachable(level)
  <2>1. Confers(x, a, level)
    BY <1>4, <1>7 DEF Confers, MemoryIn, Extent, Get, Mappable
  <2>. HIDE DEF x
  <2>2. Decoded[b.ap].unpriv >= level
    BY <1>6, <2>1 DEF Confers
  <2>3. Decoded[k.brand.ap].unpriv >= level
    BY <1>1, <1>2, <1>3, <2>2
  <2>4. Confers(k, a, level)
    BY <1>1, <1>6, <2>1, <2>3 DEF Confers, Get
  <2>5. k \in held
    <3>1. Decoded[k.brand.ap].unpriv # 0
      BY <2>3
    <3>. QED  BY <3>1, SeenIsHeldOrPowerless
  <2>. QED  BY <2>4, <2>5, ReachableMeans
<1>. QED  BY <1>1, <1>5, <1>7, ReplyGivesNothing

\* A key of the same brand, to an entry made of a part of the Memory, gives a
\* part of what the Memory's key gave.
LEMMA PartGivesNothing ==
  ASSUME NothingAdded, Gens, NEW k \in Seen, NEW op, AskedOf(k, op), Disabled(k) = {},
         NEW x, x.brand = k.brand, Extent(x.obj)' \subseteq Extent(k.obj),
         NEW level \in {1, 2}, NEW a, Confers(x, a, level)'
  PROVE  a \in Reachable(level)
<1>1. a \in Extent(k.obj) /\ Decoded[k.brand.ap].unpriv >= level
  BY DEF Confers
<1>. QED  BY <1>1, AskedConfers

\* split: the two keys give the two halves.
LEMMA SplitGivesNothing ==
  ASSUME NothingAdded, Gens, Gens', Grows, NEW k \in Seen, Split(k),
         NEW level \in {1, 2}
  PROVE  Reachable(level)' \subseteq Reachable(level)
<1>. DEFINE o == k.obj
<1>1. PICK pos \in Positions, d \in held :
        /\ Within(pos, object[o].size) /\ IsSlot(d) /\ object' = Halves(k, d, pos)
        /\ generation' = [generation EXCEPT ![d.obj] = Bumped(d.obj), ![o] = Bumped(o)]
        /\ Reply("split", {[k EXCEPT !.gen = Bumped(o)],
                           [k EXCEPT !.obj = d.obj, !.gen = Bumped(d.obj)]})
  BY DEF Split
<1>2. /\ k \in Key /\ o \in Entry \ {NullObject} /\ MemoryIn(o) /\ object[o].children = 0
      /\ d.obj \in Entry \ {NullObject} /\ d.obj # o
      /\ AskedOf(k, "split") /\ Disabled(k) = {}
  BY <1>1, LiveKey, SeenType DEF Gens, MemoryInv, Split, AskedOf, IsSlot, MemoryIn
<1>3. /\ Orphaned(o) \in [Entry -> ObjectHead]
      /\ \A p \in Entry : /\ Orphaned(o)[p].kind = object[p].kind
                          /\ Orphaned(o)[p].base = object[p].base
                          /\ Orphaned(o)[p].size = object[p].size
  BY <1>2, OrphanedKeeps DEF Gens
<1>4. /\ object[o].base \in Nat /\ object[o].size \in Nat /\ pos \in Nat
      /\ pos <= object[o].size
  BY <1>1, <1>2, MemoryAssumption DEF Gens, MemoryInv, TypeOK, ObjectHead, Within, Address
<1>5. /\ object'[d.obj].base = object[o].base + pos
      /\ object'[d.obj].size = object[o].size - pos
      /\ object'[o].base = object[o].base /\ object'[o].size = pos
      /\ \A p \in Entry \ {o, d.obj} : object'[p] = Orphaned(o)[p]
  BY <1>1, <1>2, <1>3 DEF Halves, NewMemory
<1>6. Extent(o)' \subseteq Extent(o) /\ Extent(d.obj)' \subseteq Extent(o)
  <2>. HIDE DEF o
  <2>. QED  BY <1>4, <1>5 DEF Extent
<1>7. Undisturbed
  <2>1. generation \in [Entry -> Gen] /\ \A e \in Entry : generation'[e] \in Nat
    BY MemoryAssumption DEF Gens, MemoryInv, TypeOK, Gen
  <2>2. \A e \in {o, d.obj} : generation[e] < generation'[e]
    BY <1>1, <1>2, <2>1, BumpedMoves DEF Gens, Grows
  <2>3. \A e \in Entry \ {o, d.obj} : generation'[e] = generation[e]
    BY <1>1, <2>1
  <2>. QED  BY <1>3, <1>5, <2>2, <2>3 DEF Undisturbed
<1>8. PICK x, y : /\ x = [k EXCEPT !.gen = Bumped(o)]
                  /\ y = [k EXCEPT !.obj = d.obj, !.gen = Bumped(d.obj)]
  OBVIOUS
<1>9. /\ x.brand = k.brand /\ Extent(x.obj)' \subseteq Extent(k.obj)
      /\ y.brand = k.brand /\ Extent(y.obj)' \subseteq Extent(k.obj)
  <2>1. x.brand = k.brand /\ x.obj = o /\ y.brand = k.brand /\ y.obj = d.obj
    BY <1>2, <1>8 DEF Key
  <2>. QED  BY <1>6, <2>1
<1>10. Reply("split", {x, y})
  BY <1>1, <1>8
<1>. HIDE DEF o
<1>11. ASSUME NEW z \in {x, y}, NEW a, Confers(z, a, level)'
       PROVE  a \in Reachable(level)
  BY <1>2, <1>9, <1>11, PartGivesNothing
<1>. QED  BY <1>7, <1>10, <1>11, ReplyGivesNothing

\* make_child: the child's extent is within its parent's.
LEMMA MakeChildGivesNothing ==
  ASSUME NothingAdded, Gens, Gens', Grows, NEW k \in Seen, MakeChild(k),
         NEW level \in {1, 2}
  PROVE  Reachable(level)' \subseteq Reachable(level)
<1>. DEFINE o == k.obj
<1>1. PICK base \in Bases, size \in Sizes, d \in held :
        /\ Accepted(k, base, size, d)
        /\ ~ Overflows(base, size)
        /\ object' = [object EXCEPT ![d.obj] = NewMemory(base, size, object[o].device, o),
                                    ![o].children = @ + 1]
        /\ generation' = [generation EXCEPT ![d.obj] = Bumped(d.obj)]
        /\ Reply("make_child", {[k EXCEPT !.obj = d.obj, !.gen = Bumped(d.obj)]})
  BY DEF MakeChild
<1>2. /\ k \in Key /\ o \in Entry \ {NullObject} /\ MemoryIn(o)
      /\ AskedOf(k, "make_child") /\ Disabled(k) = {}
  BY <1>1, LiveKey DEF Gens, Accepted, AskedOf, MemoryIn
<1>3. d \in Key /\ d.obj \in Entry \ {NullObject} /\ d.obj # o
  BY <1>1, <1>2, LiveKey, SeenType DEF Gens, MemoryInv, Accepted, IsSlot, MemoryIn
<1>4. object \in [Entry -> ObjectHead] /\ object[o] \in ObjectHead
  BY <1>2 DEF Gens, MemoryInv, TypeOK
<1>5. /\ base \in Nat /\ size \in Nat /\ object[o].base \in Nat /\ object[o].size \in Nat
      /\ object[o].base <= base /\ base + size <= object[o].base + object[o].size
  <2>1. base \in Address /\ size \in Address /\ Contains(object[o], base, size)
    BY <1>1, MemoryAssumption DEF Accepted
  <2>2. /\ object[o].base <= base /\ base + size <= object[o].base + object[o].size
    BY <1>1, <1>4, <2>1, ContainsMeans
  <2>. QED  BY <1>4, <2>1, <2>2, MemoryAssumption DEF ObjectHead, Address
<1>6. /\ object'[d.obj].base = base /\ object'[d.obj].size = size
      /\ object'[o] = [object[o] EXCEPT !.children = @ + 1]
      /\ \A p \in Entry \ {o, d.obj} : object'[p] = object[p]
  BY <1>1, <1>2, <1>3, <1>4 DEF NewMemory
<1>7. /\ object'[o].kind = object[o].kind /\ object'[o].base = object[o].base
      /\ object'[o].size = object[o].size
  BY <1>4, <1>6 DEF ObjectHead
<1>8. Extent(d.obj)' \subseteq Extent(o)
  <2>. HIDE DEF o
  <2>. QED  BY <1>5, <1>6 DEF Extent
<1>9. Undisturbed
  <2>1. generation \in [Entry -> Gen] /\ \A e \in Entry : generation'[e] \in Nat
    BY MemoryAssumption DEF Gens, MemoryInv, TypeOK, Gen
  <2>2. generation[d.obj] < generation'[d.obj]
    BY <1>1, <1>3, <2>1, BumpedMoves DEF Gens, Grows
  <2>3. \A e \in Entry \ {d.obj} : generation'[e] = generation[e]
    BY <1>1, <2>1
  <2>. QED  BY <1>6, <1>7, <2>2, <2>3 DEF Undisturbed
<1>10. PICK x : x = [k EXCEPT !.obj = d.obj, !.gen = Bumped(d.obj)]
  OBVIOUS
<1>11. Reply("make_child", {x}) /\ x.brand = k.brand /\ x.obj = d.obj
  BY <1>1, <1>2, <1>10 DEF Key
<1>12. ASSUME NEW a, Confers(x, a, level)'
       PROVE  a \in Reachable(level)
  <2>1. Extent(x.obj)' \subseteq Extent(k.obj)
    BY <1>8, <1>11
  <2>. QED  BY <1>2, <1>11, <1>12, <2>1, PartGivesNothing
<1>. QED  BY <1>9, <1>11, <1>12, ReplyGivesNothing

\* become: a kernel object gives no access to its space.
LEMMA BecomeGivesNothing ==
  ASSUME NothingAdded, Gens, Gens', Grows, NEW k \in Seen, Become(k),
         NEW level \in {1, 2}
  PROVE  Reachable(level)' \subseteq Reachable(level)
<1>1. PICK kind \in DOMAIN BodySize :
        object' = [object EXCEPT ![k.obj] = NewObject(kind, @.base, BodySize[kind])]
  BY DEF Become
<1>2. /\ generation' = [generation EXCEPT ![k.obj] = Bumped(k.obj)]
      /\ Reply("become", {[obj |-> k.obj, gen |-> Bumped(k.obj), brand |-> NullBrand]})
  BY DEF Become
<1>3. k.obj \in Entry /\ object \in [Entry -> ObjectHead] /\ generation \in [Entry -> Gen]
  BY SeenType DEF Gens, MemoryInv, TypeOK, Key
<1>4. object'[k.obj].kind = kind /\ \A p \in Entry \ {k.obj} : object'[p] = object[p]
  BY <1>1, <1>3 DEF NewObject, NewMemory
<1>5. kind # "memory"
  BY MemoryAssumption
<1>6. Undisturbed
  <2>1. generation[k.obj] < generation'[k.obj]
    <3>1. generation'[k.obj] \in Nat
      BY <1>3, MemoryAssumption DEF Gens, MemoryInv, TypeOK, Gen
    <3>. QED  BY <1>2, <1>3, <3>1, BumpedMoves DEF Gens, Grows
  <2>. QED  BY <1>2, <1>3, <1>4, <2>1 DEF Undisturbed
<1>7. PICK x : x = [obj |-> k.obj, gen |-> Bumped(k.obj), brand |-> NullBrand]
  OBVIOUS
<1>8. ASSUME NEW a, Confers(x, a, level)'  PROVE  FALSE
  <2>1. object'[NullObject].kind = "null"
    BY DEF Gens, MemoryInv
  <2>2. x.obj = k.obj
    BY <1>7
  <2>3. Get(generation', x) \in {k.obj, NullObject}
    BY <2>2 DEF Get
  <2>. QED  BY <1>4, <1>5, <1>8, <2>1, <2>3 DEF Confers, MemoryIn
<1>. QED  BY <1>2, <1>6, <1>8, <1>7, ReplyGivesNothing

\* The region registers give back what held keys cover.
LEMMA RegionsGiveNothing ==
  ASSUME Authority, Gens', NEW c \in Context, NEW n \in Reg,
         ReadRegion(c, n) \/ WriteRegion(c, n), NEW level \in {1, 2}
  PROVE  Reachable(level)' \subseteq Reachable(level)
<1>0. PICK r : r = regions[c][n]
  OBVIOUS
<1>1. object' = object /\ generation' = generation /\ Undisturbed /\ Gens
  BY DEF ReadRegion, WriteRegion, Undisturbed, Authority
<1>2. Reply("read_region", {r}) \/ Reply("write_region", {})
  BY <1>0 DEF ReadRegion, WriteRegion
<1>3. r = NullKey \/ \E k \in held : Covers(k, r)
  BY <1>0 DEF Authority
<1>4. ASSUME NEW a, Confers(r, a, level)'
      PROVE  a \in Reachable(level)
  <2>1. Confers(r, a, level)
    BY <1>1, <1>4 DEF Confers, MemoryIn, Extent, Get, Mappable
  <2>2. r # NullKey
    BY <1>1, <2>1 DEF Gens, MemoryInv, Confers, MemoryIn, Get, NullKey
  <2>3. PICK k \in held : Covers(k, r)
    BY <1>3, <2>2
  <2>4. Confers(k, a, level)
    BY <2>1, <2>3 DEF Covers, Confers, Get
  <2>. QED  BY <2>4, ReachableMeans
<1>. QED  BY <1>1, <1>2, <1>4, ReplyGivesNothing

\* The messages that hand out no key.
LEMMA OthersGiveNothing ==
  ASSUME NothingAdded, Gens, Gens', Grows, NEW level \in {1, 2},
         \/ \E k \in Seen : ReadOrRefuse(k) \/ Poke(k)
         \/ MintKey
         \/ \E o \in Revocable : Invalidate(o)
  PROVE  Reachable(level)' \subseteq Reachable(level)
<1>1. ASSUME NEW k \in Seen, ReadOrRefuse(k) \/ Poke(k)
      PROVE  Undisturbed /\ \E op : Reply(op, {})
  BY <1>1 DEF ReadOrRefuse, Poke, Undisturbed
<1>2. ~ MintKey
  BY DEF MintKey, Asked, NothingAdded
<1>3. ASSUME NEW o \in Revocable, Invalidate(o)
      PROVE  Undisturbed /\ \E op : Reply(op, {})
  <2>1. o \in Entry /\ generation \in [Entry -> Gen] /\ generation'[o] \in Nat
    BY <1>3, MemoryAssumption DEF Gens, MemoryInv, TypeOK, Gen
  <2>2. /\ generation' = [generation EXCEPT ![o] = Bumped(o)]
        /\ generation[o] < generation'[o]
    BY <1>3, <2>1, BumpedMoves DEF Invalidate, Gens, Grows
  <2>. QED  BY <1>3, <2>1, <2>2 DEF Invalidate, Undisturbed
<1>. QED  BY <1>1, <1>2, <1>3, ReplyGivesNothing

\* No step reaches more.
LEMMA NextGivesNothing ==
  ASSUME NothingAdded, Authority, Gens', [Next]_vars, Grows, NEW level \in {1, 2}
  PROVE  Reachable(level)' \subseteq Reachable(level)
<1>1. Gens
  BY DEF Authority
<1>2. ASSUME UNCHANGED <<object, generation, held>>
      PROVE  Reachable(level)' = Reachable(level)
  BY <1>2 DEF Reachable, Confers, Extent, MemoryIn, Get, Mappable
<1>3. ASSUME NEW k \in Seen, PanicInChange(k) \/ PanicInMakeChild(k)
      PROVE  UNCHANGED <<object, generation, held>>
  BY <1>3 DEF PanicInChange, PanicInMakeChild, Panic
<1>4. CASE Exit \/ Preempt \/ UNCHANGED vars
  <2>1. UNCHANGED <<object, generation, held>>
    BY <1>4 DEF Exit, Preempt, vars
  <2>. QED  BY <1>2, <2>1
<1>. QED
  BY <1>1, <1>2, <1>3, <1>4, ChangeGivesNothing, SplitGivesNothing, MakeChildGivesNothing,
     BecomeGivesNothing, RegionsGiveNothing, OthersGiveNothing DEF Next, MemoryMessage

\* Whatever programs ask of Memory and of region registers, they reach nothing
\* that no key of theirs reached, as long as nobody mints keys for them and no
\* generation rolls over.
THEOREM AuthorityOnlyShrinks ==
  ASSUME NothingAdded
  PROVE  Spec /\ [][~ ReuseRollsOver]_vars => NoAmplification
<1>1. Authority /\ Authority' /\ [Next]_vars /\ [~ ReuseRollsOver]_vars =>
        [\A level \in {1, 2} : Reachable(level)' \subseteq Reachable(level)]_<<object, generation, held>>
  BY NextGivesNothing, GenerationsGrow DEF Authority, Gens, NothingAdded
<1>. QED  BY <1>1, InitAuthority, NextAuthority, PTL DEF Spec, NoAmplification
=============================================================================
