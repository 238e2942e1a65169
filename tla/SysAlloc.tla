------------------------------ MODULE SysAlloc ------------------------------
(***************************************************************************)
(* The system server's allocators (a/sys/alloc.cc), the key registers its  *)
(* AutoKeys stand for (a/rt/keys.cc) and the kernel calls they make        *)
(* (a/k/*.cc), on the object table the kernel leaves at boot (k/app.cc).   *)
(*                                                                         *)
(* The server is one Context.  Its control is a sequence of calls still to *)
(* be made, todo; a call that makes others puts them in its own place.     *)
(* One step is one pass of a loop or one straight piece of code.  A failed *)
(* ETL_ASSERT loops forever: the server is halted.                         *)
(***************************************************************************)
EXTENDS Integers, Sequences, FiniteSets, FiniteSetsExt, SequencesExt

CONSTANTS
  NReg,          \* key registers of a Context
  MaxLevel,      \* the largest l2_half_size of mem_roots
  AddrSpace,     \* addresses are numbers below AddrSpace (2^32)
  MemoryMap,     \* the memory map of AppInfo: a sequence of [base, level]
  AppRam,        \* oi_app_ram, the entry that feeds the allocator
  Application    \* records [extra, setup]: extra_slot_count, app_setup's calls

WellKnown  == 3                            \* kabi::well_known_object_count
MapCount   == Len(MemoryMap)
FixedSlots == 4 + MapCount                 \* fixed_slot_count
MinLevel   == 4                            \* Memory of 32 bytes
Level      == 0 .. MaxLevel
Reg        == 0 .. (NReg - 1)
Bytes(l)   == 2 ^ (l + 1)                  \* the size an l2_half_size means

ASSUME SysAssumption ==
  /\ NReg \in Nat \ {0, 1, 2, 3}
  /\ MaxLevel \in Nat
  /\ AddrSpace \in Nat \ {0}
  /\ AppRam \in WellKnown .. (WellKnown + MapCount - 1)
  /\ MemoryMap \in Seq([base : Nat, level : Level])
  /\ \A a \in Application : a.extra \in Nat

VARIABLES
  app,              \* the application this system was built with
  object,           \* the object table: [kind, base, level] by index
  generation,       \* the generation of each entry
  next,             \* the word at the base of each Memory object
  keys,             \* the server's key registers
  available_keys,   \* rt's bitmask, as a set
  local,            \* the AutoKeys in scope: variable -> key register
  mem_roots,        \* index of the first free object of each level, or 0
  slots_used,       \* extra slots handed out
  result,           \* of the last call
  todo              \* the calls still to be made

tableVars == <<object, generation, next>>
keyVars   == <<keys, available_keys, local>>
poolVars  == <<mem_roots, slots_used>>
allocVars == <<app, tableVars, keyVars, poolVars, result, todo>>

Index == DOMAIN object

-----------------------------------------------------------------------------
(* Keys and key registers *)

\* hi is the transparency bit of a Gate's client keys; n stands for the access
\* rights of a Memory key or the number in a client key.
Brand(hi, n) == [hi |-> hi, n |-> n]
Plain   == Brand(FALSE, 0)
NullKey == [obj |-> 0, gen |-> 0, brand |-> Plain]
Minted(i, brand) == [obj |-> i, gen |-> generation[i], brand |-> brand]

\* The object of a key: the null object once the key is revoked.
Target(k) == IF generation[k.obj] = k.gen THEN k.obj ELSE 0
Held(v)   == keys[local[v]]

\* An AutoKey takes the lowest register and gives it back with its scope; a
\* fault: the register stays available.
NewReg    == Min(available_keys)
Room(n)   == Cardinality(available_keys) >= n
KeepFault(v, k) ==
  /\ UNCHANGED available_keys
  /\ keys' = [keys EXCEPT ![NewReg] = k]
  /\ local' = [x \in DOMAIN local \cup {v} |-> IF x = v THEN NewReg ELSE local[x]]
Keep(v, k) ==
  /\ available_keys' = available_keys \ {NewReg}
  /\ keys' = [keys EXCEPT ![NewReg] = k]
  /\ local' = [x \in DOMAIN local \cup {v} |-> IF x = v THEN NewReg ELSE local[x]]
Drop(vs) ==
  /\ available_keys' = available_keys \cup {local[v] : v \in vs}
  /\ local' = [x \in DOMAIN local \ vs |-> local[x]]

-----------------------------------------------------------------------------
(* Control *)

NoVar == ""      \* of a call without an AutoKey
Call(op, arg, var) == [op |-> op, arg |-> arg, var |-> var]
At(op) == todo # << >> /\ Head(todo).op = op
Arg    == Head(todo).arg
Var    == Head(todo).var

Return(r)   == todo' = Tail(todo) /\ result' = r
Calls(more) == todo' = more \o Tail(todo) /\ result' = "ok"
Halt(why)   == todo' = <<Call("halted", 0, NoVar)>> /\ result' = why

\* The call returns a key, in an AutoKey named by the variable it initialises.
Result(v, k) ==
  IF Room(1) THEN Keep(v, k) /\ Return("ok") ELSE Halt("keys") /\ UNCHANGED keyVars

\* Maybe::ref: AssertMaybeCheckPolicy insists on a value.
Ref == /\ At("ref")
       /\ IF result = "ok" THEN Return("ok") ELSE Halt("assertion")
       /\ UNCHANGED <<app, tableVars, keyVars, poolVars>>

-----------------------------------------------------------------------------
(* Slots *)

\* alloc_slot_int hands out indices in order; none is ever returned.
NoSlots  == slots_used = app.extra
NextSlot == slots_used + FixedSlots

\* mint_key refuses an index outside of the table, and split and make_child a
\* key that is not to a slot.
SlotAt(i) == i \in Index /\ object[i].kind = "slot"

-----------------------------------------------------------------------------
(* Memory *)

Memory(base, level) == [kind |-> "memory", base |-> base, level |-> level]
Pop(l)    == [mem_roots EXCEPT ![l] = next[mem_roots[l]]]

\* The links once the halves of a block have joined list l; a fault: the root of
\* the list is moved too early.
PushedFault(bot, top, l) == [next EXCEPT ![top] = bot, ![bot] = top]
Pushed(bot, top, l) == [next EXCEPT ![top] = mem_roots[l], ![bot] = top]

\* free_mem, which needs an AutoKey.  Its key's object must be Memory; all the
\* keys to it are revoked, and it becomes the first of its list.
FreeMem ==
  /\ At("free_mem")
  /\ LET i == Target(Held(Var))
         l == object[i].level
     IN  \/ /\ object[i].kind # "memory"
            /\ Return("nothing")
            /\ UNCHANGED <<generation, next, mem_roots>>
         \/ /\ object[i].kind = "memory"
            /\ generation' = [generation EXCEPT ![i] = @ + 1]
            /\ next' = [next EXCEPT ![i] = mem_roots[l]]
            /\ mem_roots' = [mem_roots EXCEPT ![l] = i]
            /\ IF Room(1) THEN Return("ok") ELSE Halt("keys")
  /\ UNCHANGED <<app, object, keyVars, slots_used>>

\* alloc_mem up to the end of pass one, which finds the smallest list that can
\* serve the request.
AllocMem ==
  /\ At("alloc_mem")
  /\ LET serving == {l \in Level : l >= Arg.level /\ mem_roots[l] # 0}
     IN  IF Arg.level < MinLevel \/ serving = {}
         THEN Return("nothing")
         ELSE Calls(<<Call("descend", [level |-> Arg.level, brand |-> Arg.brand,
                                            from |-> Min(serving)], Var)>>)
  /\ UNCHANGED <<app, tableVars, keyVars, poolVars>>

\* Pass two, an iteration: the head of the list is split in two, which both go
\* to the next smaller list.  Three AutoKeys live in it.
Split ==
  /\ At("descend")
  /\ Arg.from > Arg.level
  /\ LET l   == Arg.from
         bot == mem_roots[l]
         top == NextSlot
     IN  \/ /\ NoSlots
            /\ mem_roots' = Pop(l)
            /\ next' = [next EXCEPT ![bot] = 0]
            /\ Return("nothing")
            /\ UNCHANGED <<object, generation, slots_used>>
         \/ /\ ~ NoSlots
            /\ slots_used' = slots_used + 1
            /\ IF Room(3) /\ SlotAt(top)
               THEN /\ object' = [object EXCEPT
                         ![bot].level = l - 1,
                         ![top] = Memory(object[bot].base + Bytes(l - 1), l - 1)]
                    /\ generation' = [generation EXCEPT ![bot] = @ + 1, ![top] = @ + 1]
                    /\ next' = Pushed(bot, top, l - 1)
                    /\ mem_roots' = [Pop(l) EXCEPT ![l - 1] = bot]
                    /\ Calls(<<Call("descend", [Arg EXCEPT !.from = l - 1], Var)>>)
               ELSE /\ mem_roots' = Pop(l)
                    /\ next' = [next EXCEPT ![bot] = 0]
                    /\ Halt(IF Room(3) THEN "assertion" ELSE "keys")
                    /\ UNCHANGED <<object, generation>>
  /\ UNCHANGED <<app, keyVars>>

\* mem_take, from the list that is asked for.
Take ==
  /\ At("descend")
  /\ Arg.from = Arg.level
  /\ LET i == mem_roots[Arg.level]
     IN  /\ mem_roots' = Pop(Arg.level)
         /\ next' = [next EXCEPT ![i] = 0]
         /\ Result(Var, Minted(i, Arg.brand))
  /\ UNCHANGED <<app, object, generation, slots_used>>

\* alloc_slot, by an application that keeps the key.
AllocSlot ==
  /\ At("alloc_slot")
  /\ IF ~ NoSlots /\ NextSlot \in Index
     THEN Result(Var, Minted(NextSlot, Plain))
     ELSE Halt("assertion") /\ UNCHANGED keyVars
  /\ slots_used' = IF NoSlots THEN slots_used ELSE slots_used + 1
  /\ UNCHANGED <<app, tableVars, mem_roots>>

\* become, on the key in a variable: every other key to the object dies.
Become ==
  /\ At("become")
  /\ LET i == Target(Held(Var))
     IN  /\ object' = [object EXCEPT ![i].kind = Arg]
         /\ generation' = [generation EXCEPT ![i] = @ + 1]
         /\ keys' = [keys EXCEPT ![local[Var]].gen = generation[i] + 1]
  /\ Return("ok")
  /\ UNCHANGED <<app, next, available_keys, local, poolVars>>

\* ~AutoKey at the end of a scope of the application's.
Release ==
  /\ At("release")
  /\ Drop({Var} \cap DOMAIN local)
  /\ Return("ok")
  /\ UNCHANGED <<app, tableVars, keys, poolVars>>

-----------------------------------------------------------------------------
(* Boot *)

\* initialize_app's object table: the well-known objects, the Memory of the
\* memory map, and the slots.
TableSize(a) == WellKnown + MapCount + a.extra
BootEntry(i) ==
  LET m == i - WellKnown + 1
  IN  IF i \in 0 .. 2
      THEN [kind |-> <<"null", "object_table", "context">>[i + 1], base |-> 0, level |-> 0]
      ELSE IF m <= MapCount THEN Memory(MemoryMap[m].base, MemoryMap[m].level)
      ELSE [kind |-> "slot", base |-> 0, level |-> 0]
BootTable(a) == [i \in 0 .. (TableSize(a) - 1) |-> BootEntry(i)]

AllocInit ==
  /\ app \in Application
  /\ object = BootTable(app)
  /\ generation = [i \in Index |-> 0]
  /\ next = [i \in Index |-> 0]
  /\ mem_roots = [l \in Level |-> 0]
  /\ slots_used = 0
  /\ result = "ok"

AllocNext ==
  Ref \/ FreeMem \/ AllocMem \/ Split \/ Take \/ AllocSlot \/ Become \/ Release
=============================================================================
