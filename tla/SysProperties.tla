---------------------------- MODULE SysProperties ----------------------------
(***************************************************************************)
(* What the system server keeps true of its memory, its key registers and  *)
(* the programs it starts.                                                 *)
(***************************************************************************)
EXTENDS SysServer

\* The objects on a list: what following the links from its root finds, with at
\* most one step per entry of the table.  The list ends if that comes to 0.
Steps == Cardinality(Index)
Walk(l) == LET at[n \in 0 .. Steps] == IF n = 0 THEN mem_roots[l] ELSE next[at[n - 1]]
           IN  at
OnList(l) == IF mem_roots[l] = 0 THEN {} ELSE Range(Walk(l)) \ {0}
Ends(l)   == mem_roots[l] # 0 => Walk(l)[Steps] = 0
Listed  == UNION {OnList(l) : l \in Level}

\* Addresses, in units of the smallest Memory.
Lowest(i)  == object[i].base \div 32
Highest(i) == (object[i].base + Bytes(object[i].level)) \div 32 - 1
UnitsOf(s) == UNION {Lowest(i) .. Highest(i) : i \in s}
Ram      == MemoryMap[AppRam - WellKnown + 1]
InRam(i) == object[i].base >= Ram.base /\ object[i].base < Ram.base + Bytes(Ram.level)

\* The objects in the application's RAM that somebody has: kernel objects, and
\* Memory that is on no list and that a key gives.
InUse == {Target(Held(v)) : v \in DOMAIN local}
         \cup UNION {{Target(k) : k \in Range(program[p].region)} : p \in Index}
Owned ==
  LET had == (InUse \cup {i \in {AppRam} : generation[i] = 0}) \ Listed
  IN  {i \in Index :
         /\ InRam(i)
         /\ \/ object[i].kind \in {"context", "gate", "interrupt"}
            \/ object[i].kind = "memory" /\ i \in had}

\* The shape of the state.
TypeOK ==
  /\ app \in Application
  /\ Index = 0 .. (TableSize(app) - 1)
  /\ \A i \in Index : /\ object[i].base \in Nat /\ object[i].level \in Level
                      /\ generation[i] \in Nat /\ next[i] \in Index
                      /\ Target(target[i]) \in Index
  /\ DOMAIN keys = Reg /\ available_keys \subseteq Reg
  /\ mem_roots \in [Level -> Index]
  /\ slots_used \in 0 .. app.extra

\* Every list of mem_roots ends, holds Memory objects of its size only, and no
\* object is on two lists or twice on one; no two objects in the application's
\* RAM overlap, whether free or in use.  The links of the lists are in the
\* Memory itself, which a split and free_mem write in an order that matters
\* (alloc.cc:97-98, 141-160).
FreeListsSound ==
  /\ \A l \in Level :
       /\ Ends(l)
       /\ \A i \in OnList(l) : object[i].kind = "memory" /\ object[i].level = l
  /\ LET placed == {i \in Index : InRam(i) /\ object[i].kind # "slot"}
     IN  \A i, j \in placed : Lowest(i) < Lowest(j) => Highest(i) < Lowest(j)
  /\ \A i, j \in Listed : Lowest(i) = Lowest(j) => i = j

\* The key registers that are not available are the fixed ones and those of the
\* AutoKeys in scope, each its own; so none is lost on any path through the
\* allocator, the loader and the setup, the failing ones included, and the
\* sixteen suffice for the serial application's deepest scope
\* (a/rt/keys.cc:26-44).
KeysBalanced ==
  /\ available_keys = Reg \ ({0, 1, kself, kgate} \cup Range(local))
  /\ \A v, w \in DOMAIN local : local[v] = local[w] => v = w
  /\ result # "keys"

\* A program that can run has everything it needs: keys that are live, a
\* syscall key whose brand names the program itself (so that map_memory acts on
\* its caller), code, stack and relocated pointers within the regions it was
\* given, and for a driver an interrupt that sends to the Gate it listens on.
\* Keys die when become replaces their object, and the loader computes with
\* whatever the header says.
Within(addr, i) == addr >= object[i].base /\ addr < object[i].base + Bytes(object[i].level)
Complete(p) ==
  LET c == program[p]
      code == Target(c.region[0])
      ram  == Target(c.region[1])
  IN  /\ object[p].kind = "context"
      /\ \A n \in DOMAIN c.key : c.key[n] # NullKey => Target(c.key[n]) # 0
      /\ object[code].kind = "memory" /\ object[ram].kind = "memory"
      /\ c.key[15] # NullKey =>
           /\ Target(c.key[15]) = Target(keys[kgate])
           /\ c.key[15].brand = Brand(TRUE, p)
           /\ Within(c.pc, code) /\ Within(c.sp, ram) /\ Within(c.sp + FrameSize - 1, ram)
           /\ \A e \in DOMAIN c.got : Within(c.got[e], code) \/ Within(c.got[e], ram)
           /\ object[Target(c.key[14])].kind = "gate"
      /\ c.key[12] # NullKey => Target(target[Target(c.key[12])]) = Target(c.key[13])
ProgramsComplete == \A p \in Index : program[p].runnable => Complete(p)

\* There is always somebody to run: before any program can, or the server waits
\* for one, the idle Context runs at a priority below everybody else's.  The
\* kernel panics when it finds no runnable Context (main.cc:260-264).
Idle(p) == program[p].runnable /\ program[p].priority = 1
IdleFirst ==
  At("serving") \/ (\E p \in Index \ {Self} : program[p].runnable)
    => \E p \in Index : Idle(p) /\ object[p].kind = "context"

\* A system call changes nothing of another program than its caller
\* (main.cc:217-231).
MapsOnlyCaller ==
  [][\A p \in Index : MapMemory(p) =>
       \A q \in Index \ {p} : program'[q] = program[q]]_vars

\* The allocator implements SysPool: of the application's RAM nothing becomes
\* free but what was owned, nothing is handed out but what was free, and
\* nothing is lost on the way, by splits, failed loads and freed Memory alike,
\* as long as there are slots (alloc.cc:141-146).
Pool == INSTANCE SysPool WITH
          free <- UnitsOf(Listed), owned <- UnitsOf(Owned),
          slots <- app.extra - slots_used
PoolImplemented == Pool!Spec

\* alloc_slot_int "serves up slots designated as extra in the AppInfo block"
\* (alloc.cc:22): the indices handed out are those that come after the memory
\* map's.
ServesExtraSlots ==
  \A s \in 0 .. (slots_used - 1) :
    s + FixedSlots \in (WellKnown + MapCount) .. (TableSize(app) - 1)
=============================================================================
