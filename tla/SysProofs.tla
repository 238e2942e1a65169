------------------------------ MODULE SysProofs ------------------------------
(***************************************************************************)
(* The system server keeps its free lists, its key registers and its       *)
(* programs right under every application that keeps to the library's      *)
(* rules.                                                                  *)
(***************************************************************************)
EXTENDS SysScopes, FiniteSetTheorems, SequenceTheorems, NaturalsInduction,
        WellFoundedInduction, TLAPS

-----------------------------------------------------------------------------
(* Sequences of calls *)

\* s keeps to the rules when sc is known.
Ok(s, sc) == \E f : Follows(f, s, sc)

LEMMA ConsProperties ==
  ASSUME NEW c, NEW T, NEW t \in Seq(T)
  PROVE  /\ <<c>> \o t \in Seq(T \cup {c})
         /\ Len(<<c>> \o t) = Len(t) + 1
         /\ (<<c>> \o t)[1] = c
         /\ \A i \in 1 .. Len(t) : (<<c>> \o t)[i + 1] = t[i]
         /\ Head(<<c>> \o t) = c
         /\ Tail(<<c>> \o t) = t
         /\ <<c>> \o t # << >>
<1>1. <<c>> \in Seq(T \cup {c}) /\ t \in Seq(T \cup {c})
  OBVIOUS
<1>2. /\ <<c>> \o t \in Seq(T \cup {c})
      /\ Len(<<c>> \o t) = Len(t) + 1
      /\ (<<c>> \o t)[1] = c
      /\ \A i \in 1 .. Len(t) : (<<c>> \o t)[i + 1] = t[i]
  BY <1>1
<1>. DEFINE s == <<c>> \o t
<1>3. s \in Seq(T \cup {c}) /\ Len(s) = Len(t) + 1 /\ s[1] = c
        /\ \A i \in 1 .. Len(t) : s[i + 1] = t[i]
  BY <1>2
<1>. HIDE DEF s
<1>4. Head(s) = c /\ s # << >>
  BY <1>3
<1>5. Tail(s) \in Seq(T \cup {c}) /\ Len(Tail(s)) = Len(t)
        /\ \A i \in 1 .. Len(t) : Tail(s)[i] = s[i + 1]
  BY <1>3, <1>4
<1>6. Tail(s) = t
  BY <1>1, <1>3, <1>5
<1>. QED  BY <1>2, <1>4, <1>6 DEF s

LEMMA UpdateTwo ==
  ASSUME NEW S, NEW V, NEW f \in [S -> V], NEW a \in S, NEW b \in S, a # b,
         NEW x \in V, NEW y \in V, NEW g, g = [f EXCEPT ![a] = x, ![b] = y]
  PROVE  /\ g \in [S -> V] /\ g[a] = x /\ g[b] = y
         /\ \A j \in S \ {a, b} : g[j] = f[j]
OBVIOUS

LEMMA OwnRange ==
  ASSUME NEW S, NEW s \in Seq(S)
  PROVE  s \in Seq(Range(s))
BY DEF Range

LEMMA OkHead ==
  ASSUME NEW s, NEW sc, Ok(s, sc), s # << >>
  PROVE  /\ sc \in Scope
         /\ Allowed(Head(s), sc)
         /\ Ok(Tail(s), After(Head(s), sc))
<1>1. PICK f : Follows(f, s, sc)
  BY DEF Ok
<1>2. s \in Seq(Range(s)) /\ Len(s) \in Nat \ {0}
  BY <1>1 DEF Follows
<1>3. PICK R, n, t : R = Range(s) /\ n = Len(s) /\ t = Tail(s)
  OBVIOUS
<1>4. s \in Seq(R) /\ n \in Nat \ {0} /\ Head(s) = s[1]
  BY <1>2, <1>3
<1>5. t \in Seq(R) /\ Len(t) = n - 1 /\ \A i \in 1 .. (n - 1) : t[i] = s[i + 1]
  BY <1>3, <1>4
<1>6. t \in Seq(Range(t))
  BY <1>5, OwnRange
<1>7. /\ f \in [1 .. (n + 1) -> Scope] /\ f[1] = sc
      /\ \A i \in 1 .. n : Allowed(s[i], f[i]) /\ f[i + 1] = After(s[i], f[i])
  BY <1>1, <1>3 DEF Follows
<1>8. PICK g : g = [i \in 1 .. n |-> f[i + 1]]
  OBVIOUS
<1>9. 1 \in 1 .. n /\ 1 \in 1 .. (n + 1) /\ \A i \in 1 .. n : i + 1 \in 1 .. (n + 1)
  BY <1>4
<1>10. /\ g \in [1 .. n -> Scope] /\ g[1] = f[2] /\ f[2] = After(s[1], sc)
       /\ \A i \in 1 .. n : g[i] = f[i + 1]
  BY <1>7, <1>8, <1>9
<1>11. \A i \in 1 .. (n - 1) : Allowed(t[i], g[i]) /\ g[i + 1] = After(t[i], g[i])
  <2>. TAKE i \in 1 .. (n - 1)
  <2>1. i \in 1 .. n /\ i + 1 \in 1 .. n
    BY <1>4
  <2>. QED  BY <1>5, <1>7, <1>10, <2>1
<1>12. Len(t) + 1 = n
  BY <1>4, <1>5
<1>13. Follows(g, t, After(Head(s), sc))
  BY <1>4, <1>5, <1>6, <1>10, <1>11, <1>12 DEF Follows
<1>14. sc \in Scope /\ Allowed(Head(s), sc)
  BY <1>4, <1>7, <1>9
<1>. QED  BY <1>3, <1>13, <1>14 DEF Ok

LEMMA OkCons ==
  ASSUME NEW c, NEW t, NEW sc \in Scope, Allowed(c, sc), Ok(t, After(c, sc))
  PROVE  Ok(<<c>> \o t, sc)
<1>1. PICK f : Follows(f, t, After(c, sc))
  BY DEF Ok
<1>2. PICK R, n, s : R = Range(t) /\ n = Len(t) /\ s = <<c>> \o t
  OBVIOUS
<1>3. /\ t \in Seq(R) /\ n \in Nat /\ f \in [1 .. (n + 1) -> Scope] /\ f[1] = After(c, sc)
      /\ \A i \in 1 .. n : Allowed(t[i], f[i]) /\ f[i + 1] = After(t[i], f[i])
  BY <1>1, <1>2 DEF Follows
<1>4. /\ s \in Seq(R \cup {c}) /\ Len(s) = n + 1 /\ s[1] = c
      /\ \A i \in 1 .. n : s[i + 1] = t[i]
  BY <1>2, <1>3, ConsProperties
<1>5. s \in Seq(Range(s))
  BY <1>4, OwnRange
<1>6. PICK g : g = [i \in 1 .. (n + 2) |-> IF i = 1 THEN sc ELSE f[i - 1]]
  OBVIOUS
<1>7. /\ 1 \in 1 .. (n + 2)
      /\ \A i \in 1 .. (n + 2) : i = 1 \/ (i # 1 /\ i - 1 \in 1 .. (n + 1))
  BY <1>3
<1>8. g \in [1 .. (n + 2) -> Scope] /\ g[1] = sc
  BY <1>3, <1>6, <1>7
<1>9. \A i \in 1 .. (n + 1) : g[i + 1] = f[i]
  BY <1>3, <1>6
<1>10. ASSUME NEW i \in 1 .. (n + 1)
       PROVE  Allowed(s[i], g[i]) /\ g[i + 1] = After(s[i], g[i])
  <2>1. CASE i = 1
    BY <1>3, <1>4, <1>8, <1>9, <2>1
  <2>2. CASE i # 1
    <3>1. PICK j \in 1 .. n : i = j + 1
      <4>1. i - 1 \in 1 .. n /\ i = (i - 1) + 1
        BY <1>3, <2>2
      <4>. QED  BY <4>1
    <3>2. s[i] = t[j] /\ g[i] = f[j] /\ g[i + 1] = f[j + 1]
      <4>1. j \in 1 .. (n + 1)
        BY <1>3
      <4>. QED  BY <1>4, <1>9, <1>10, <3>1, <4>1
    <3>. QED  BY <1>3, <3>2
  <2>. QED  BY <2>1, <2>2
<1>11. Len(s) + 1 = n + 2
  BY <1>3, <1>4
<1>12. Follows(g, s, sc)
  BY <1>4, <1>5, <1>8, <1>10, <1>11 DEF Follows
<1>. QED  BY <1>2, <1>12 DEF Ok

\* What is left of a sequence that keeps to the rules is one of calls.
LEMMA OkSeq ==
  ASSUME NEW s, NEW sc, Ok(s, sc)
  PROVE  s \in Seq(Range(s)) /\ sc \in Scope
<1>1. PICK f : Follows(f, s, sc)
  BY DEF Ok
<1>2. s \in Seq(Range(s)) /\ f \in [1 .. (Len(s) + 1) -> Scope] /\ f[1] = sc
  BY <1>1 DEF Follows
<1>3. Len(s) \in Nat
  BY <1>2
<1>4. 1 \in 1 .. (Len(s) + 1)
  BY <1>3
<1>. QED  BY <1>2, <1>4

LEMMA OkEnd ==
  ASSUME NEW sc \in Scope
  PROVE  Ok(<< >>, sc)
<1>1. PICK s \in Seq({sc}) : s = << >>
  <2>1. << >> \in Seq({sc})
    OBVIOUS
  <2>. QED  BY <2>1
<1>2. s \in Seq(Range(s)) /\ Len(s) = 0
  BY <1>1, OwnRange
<1>3. PICK f : f = [i \in 1 .. 1 |-> sc]
  OBVIOUS
<1>4. f \in [1 .. (Len(s) + 1) -> Scope] /\ f[1] = sc /\ 1 .. Len(s) = {}
  BY <1>2, <1>3
<1>5. Follows(f, s, sc)
  BY <1>2, <1>4 DEF Follows
<1>. QED  BY <1>1, <1>5 DEF Ok

-----------------------------------------------------------------------------
(* The invariant *)

Live(k) == generation[k.obj] = k.gen
Has(v, kind) == /\ v \in DOMAIN local
                /\ Live(Held(v))
                /\ object[Held(v).obj].kind = kind

Brands == [hi : BOOLEAN, n : Nat]
Key    == [obj : Nat, gen : Nat, brand : Brands]
Table  == 0 .. (TableSize(app) - 1)
TableKind == Kind \cup {"null", "object_table", "slot"}

\* The object table, and what it is when no Memory is on any list.
Shape ==
  /\ app \in Application
  /\ object \in [Table -> [kind : TableKind, base : Nat, level : Level]]
  /\ generation \in [Table -> Nat]
  /\ next \in [Table -> Table]
  /\ mem_roots \in [Level -> Table]
  /\ slots_used \in Nat
  /\ object[0].kind = "null" /\ object[Self].kind = "context"
  /\ \A i \in Table : i >= NextSlot => object[i].kind = "slot"

\* The objects in the application's RAM are apart, and whole units.
IsPlaced(i) == InRam(i) /\ object[i].kind # "slot"
End(i)      == object[i].base + Bytes(object[i].level)
Placed ==
  /\ \A i \in Table : IsPlaced(i) =>
       /\ object[i].base % 32 = 0 /\ object[i].level >= MinLevel
       /\ End(i) <= Ram.base + Bytes(Ram.level)
  /\ \A i, j \in Table : IsPlaced(i) /\ IsPlaced(j) /\ i # j =>
       End(i) <= object[j].base \/ End(j) <= object[i].base

\* Each object on a list has a rank, which falls along the links; 0 is for those
\* on none.  Nothing links to a root, nor do two objects to the same one.
OnRam(o) == o.base >= Ram.base /\ o.base < Ram.base + Bytes(Ram.level)
RankedOn(T, rank, obj, nxt, roots) ==
  /\ rank \in [T -> Nat]
  /\ \A l \in Level : roots[l] # 0 => rank[roots[l]] > 0 /\ obj[roots[l]].level = l
  /\ \A i \in T : rank[i] > 0 =>
       /\ obj[i].kind = "memory" /\ OnRam(obj[i])
       /\ nxt[i] # 0 => /\ rank[nxt[i]] > 0 /\ rank[nxt[i]] < rank[i]
                        /\ obj[nxt[i]].level = obj[i].level
                        /\ nxt[i] # roots[obj[i].level]
  /\ \A i, j \in T : rank[i] > 0 /\ rank[j] > 0 /\ nxt[i] # 0 /\ nxt[i] = nxt[j] => i = j
Ranked(rank) == RankedOn(Table, rank, object, next, mem_roots)

\* A key in a variable is to a handed-out object; if it is live then that is on
\* no list, and there is no other live key to it.
Holds(rank, v) ==
  LET k == Held(v)
  IN  /\ k.obj \in Table \ {0, Self} /\ k.obj < NextSlot
      /\ k.gen \in Nat /\ k.gen <= generation[k.obj]
      /\ Live(k) => /\ rank[k.obj] = 0
                    /\ v # "k_img" /\ object[k.obj].kind = "memory" => InRam(k.obj)
Apart(v, w) == v # w => ~ (Live(Held(v)) /\ Live(Held(w)) /\ Held(v).obj = Held(w).obj)
Mine == DOMAIN local \cap Variable
Holdings(rank) == /\ \A v \in Mine : Holds(rank, v)
                  /\ \A v, w \in Mine : Apart(v, w)

Memories == /\ Shape
            /\ Placed
            /\ \E rank : Ranked(rank) /\ Holdings(rank)

Registers ==
  /\ keys \in [Reg -> Key]
  /\ local \in [DOMAIN local -> Reg \ {0, 1, kself, kgate}]
  /\ KeysBalanced

\* Programs: their keys to the syscall gate name themselves; the idle Context is
\* the first to be runnable, and nobody has a key to it.
IsContext(c) ==
  /\ c = [key |-> c.key, region |-> c.region, priority |-> c.priority,
          runnable |-> c.runnable, pc |-> c.pc, sp |-> c.sp, got |-> c.got]
  /\ c.key = [n \in 11 .. 15 |-> c.key[n]]
Programs ==
  /\ program = [p \in Table |-> program[p]]
  /\ \A p \in Table : /\ IsContext(program[p])
                      /\ program[p].key[15] # NullKey => program[p].key[15].brand.n = p
Quiet == \A p \in Table \ {Self} : program[p].runnable = FALSE
IsIdle(p) ==
  /\ Idle(p)
  /\ object[p].kind = "context"
  /\ \A v \in Mine : Live(Held(v)) => Held(v).obj # p
IdleThere == \E p \in Table \ {Self} : IsIdle(p)

\* The state at the beginning of a scope.
InPhase(phase) ==
  /\ phase = "boot" => /\ \A l \in Level : mem_roots[l] = 0
                       /\ InRam(AppRam) /\ object[AppRam].kind = "memory"
  /\ IF phase = "idle" THEN IdleThere ELSE Quiet
Fits(sc) ==
  /\ sc \in Scope
  /\ \A v \in DOMAIN local : v \in Opened(sc)
  /\ \A v \in Variable : /\ sc.at[v] \notin {"out", "maybe"} => v \in DOMAIN local
                         /\ sc.at[v] \in Kind => Has(v, sc.at[v])
  /\ sc.last # NoVar => IF result = "nothing" THEN sc.last \notin DOMAIN local
                                          ELSE Has(sc.last, sc.made)
  /\ InPhase(sc.phase)

\* The calls still to be made: those of a sequence, or alloc_mem's second pass or
\* a failing load on top of one.
NonEmpty(s) == s \in Seq(Range(s)) /\ s # << >>
Descending(sc) ==
  /\ NonEmpty(todo)
  /\ Head(todo).op = "descend"
  /\ Arg \in [level : Nat, brand : Brands, from : Level]
  /\ MinLevel <= Arg.level /\ Arg.level <= Arg.from /\ mem_roots[Arg.from] # 0
  /\ Var \in Variable \ {"k_img"} /\ sc.at[Var] = "out"
  /\ Deep(Opened(sc))
  /\ Ok(Tail(todo), Pending(sc, Var, "memory"))
FailedLoad(sc, s) ==
  \E v \in Variable \ {"k_ram"} : sc.at[v] = "out" /\ Ok(s, Loaded(sc, v))
Freeing(sc) ==
  /\ NonEmpty(todo)
  /\ Head(todo) = Call("free_mem", 0, "k_ram") /\ sc.at["k_ram"] = "memory"
  /\ Deep(Opened(sc))
  /\ \E s : /\ Tail(todo) = <<Call("load_failed", 0, "k_ram")>> \o s
            /\ FailedLoad(sc, s)
Failing(sc) ==
  /\ NonEmpty(todo)
  /\ Head(todo) = Call("load_failed", 0, "k_ram")
  /\ sc.at["k_ram"] \notin {"out", "maybe"}
  /\ FailedLoad(sc, Tail(todo))
Halted  == todo = <<Call("halted", 0, NoVar)>> /\ (Quiet \/ IdleThere)
Serving == todo = <<Call("serving", 0, NoVar)>> /\ IdleThere
Control ==
  \/ Halted \/ Serving
  \/ \E sc : /\ Fits(sc)
             /\ \/ Ok(todo, sc)
                \/ /\ sc.phase # "boot"
                   /\ Descending(sc) \/ Freeing(sc) \/ Failing(sc)

Inv == Memories /\ Registers /\ Programs /\ Control

-----------------------------------------------------------------------------
(* Registers *)

LEMMA PickLeast ==
  ASSUME NEW T \in SUBSET Nat, T # {}
  PROVE  \E m \in T : \A n \in T : m <= n
<1>1. PICK m \in T : \A n \in T : ~ (<<n, m>> \in OpToRel(<, Nat))
  BY NatLessThanWellFounded, WFMin, Zenon
<1>2. \A n \in T : ~ (n < m)
  BY <1>1 DEF OpToRel
<1>. QED  BY <1>2

LEMMA MinIs ==
  ASSUME NEW T \in SUBSET Nat, T # {}
  PROVE  Min(T) \in T /\ \A n \in T : Min(T) <= n
BY PickLeast DEF Min

LEMMA RegIsFinite == IsFiniteSet(Reg) /\ Cardinality(Reg) = NReg
<1>1. PICK n \in Int : n = NReg - 1 /\ n >= 0 /\ n + 1 = NReg
  BY SysAssumption
<1>2. IsFiniteSet(0 .. n) /\ Cardinality(0 .. n) = IF 0 > n THEN 0 ELSE n - 0 + 1
  BY <1>1, FS_Interval
<1>3. Cardinality(0 .. n) = NReg
  BY <1>1, <1>2
<1>. QED  BY <1>1, <1>2, <1>3 DEF Reg

LEMMA AddsFinite ==
  ASSUME NEW S, NEW x, IsFiniteSet(S)
  PROVE  IsFiniteSet({x} \cup S)
<1>1. {x} \cup S = S \cup {x}
  OBVIOUS
<1>. QED  BY <1>1, FS_AddElement

LEMMA VariableIsFinite == IsFiniteSet(Variable)
<1>1. IsFiniteSet({"k_irq"} \cup ({"k_irq_gate"} \cup AnyVar))
  BY AddsFinite, ScopesAssumption
<1>2. IsFiniteSet({"k_prog"} \cup ({"k_gate"} \cup ({"k_irq"} \cup ({"k_irq_gate"} \cup AnyVar))))
  BY <1>1, AddsFinite
<1>3. PICK S : S = {"k_prog"} \cup ({"k_gate"} \cup ({"k_irq"} \cup ({"k_irq_gate"} \cup AnyVar)))
  OBVIOUS
<1>4. IsFiniteSet({"k_ctx"} \cup ({"k_img"} \cup ({"k_ram"} \cup S)))
  BY <1>2, <1>3, AddsFinite
<1>5. IsFiniteSet({"k_app_ram"} \cup ({"k"} \cup ({"k_ctx"} \cup ({"k_img"} \cup ({"k_ram"} \cup S)))))
  BY <1>4, AddsFinite
<1>6. Variable = {"k_app_ram"} \cup ({"k"} \cup ({"k_ctx"} \cup ({"k_img"} \cup ({"k_ram"} \cup S))))
  BY <1>3 DEF Variable
<1>. QED  BY <1>5, <1>6

LEMMA DeepSubset ==
  ASSUME NEW S, NEW T, IsFiniteSet(S), T \subseteq S, Deep(S)
  PROVE  Deep(T)
<1>1. IsFiniteSet(T) /\ Cardinality(T) <= Cardinality(S)
  BY FS_Subset
<1>2. Cardinality(T) \in Nat /\ Cardinality(S) \in Nat /\ NReg \in Nat
  BY <1>1, FS_CardinalityType, SysAssumption
<1>. QED  BY <1>1, <1>2 DEF Deep

\* In a scope that is not too deep there is room.
LEMMA RoomThree ==
  ASSUME Registers, NEW S, IsFiniteSet(S), Deep(S), DOMAIN local \subseteq S
  PROVE  Room(1) /\ Room(2) /\ Room(3)
<1>1. PICK D, R : D = DOMAIN local /\ R = Range(local)
  OBVIOUS
<1>2. IsFiniteSet(D) /\ Cardinality(D) <= Cardinality(S)
  BY <1>1, FS_Subset
<1>3. local \in Surjection(D, R)
  BY <1>1 DEF Registers, Surjection, Range
<1>4. IsFiniteSet(R) /\ Cardinality(R) <= Cardinality(D)
  BY <1>2, <1>3, FS_Surjection
<1>5. PICK F : F = {0, 1, kself, kgate}
  OBVIOUS
<1>6. IsFiniteSet(F) /\ Cardinality(F) <= 4
  <2>1. F = {0} \cup {1} \cup {2} \cup {3}
    BY <1>5 DEF kself, kgate
  <2>2. IsFiniteSet({0}) /\ Cardinality({0}) = 1
    BY FS_Singleton
  <2>3. IsFiniteSet({0} \cup {1}) /\ Cardinality({0} \cup {1}) = 2
    BY <2>2, FS_AddElement
  <2>4. IsFiniteSet({0} \cup {1} \cup {2}) /\ Cardinality({0} \cup {1} \cup {2}) = 3
    BY <2>3, FS_AddElement
  <2>5. PICK T : T = {0} \cup {1} \cup {2}
    OBVIOUS
  <2>6. IsFiniteSet(T \cup {3}) /\ Cardinality(T \cup {3}) = 4
    <3>1. IsFiniteSet(T) /\ Cardinality(T) = 3 /\ 3 \notin T
      BY <2>4, <2>5
    <3>. QED  BY <3>1, FS_AddElement
  <2>. QED  BY <2>1, <2>5, <2>6
<1>7. PICK U : U = F \cup R
  OBVIOUS
<1>8. IsFiniteSet(U) /\ Cardinality(U) = Cardinality(F) + Cardinality(R) - Cardinality(F \cap R)
  BY <1>4, <1>6, <1>7, FS_Union
<1>9. IsFiniteSet(F \cap R)
  BY <1>4, FS_Subset
<1>10. U \subseteq Reg /\ available_keys = Reg \ U
  BY <1>1, <1>5, <1>7, SysAssumption DEF Registers, KeysBalanced, Range, Reg, kself, kgate
<1>11. IsFiniteSet(Reg) /\ Cardinality(Reg) = NReg
  BY RegIsFinite
<1>12. IsFiniteSet(Reg \ U)
  BY <1>11, FS_Subset
<1>13. Cardinality(U \cup (Reg \ U)) =
         Cardinality(U) + Cardinality(Reg \ U) - Cardinality(U \cap (Reg \ U))
  BY <1>8, <1>12, FS_Union
<1>14. U \cup (Reg \ U) = Reg /\ U \cap (Reg \ U) = {}
  BY <1>10
<1>15. Cardinality(Reg \ U) = NReg - Cardinality(U)
  <2>1. Cardinality({}) = 0 /\ Cardinality(Reg \ U) \in Nat /\ Cardinality(U) \in Nat
    BY <1>8, <1>12, FS_EmptySet, FS_CardinalityType
  <2>2. NReg = Cardinality(U) + Cardinality(Reg \ U) - 0
    BY <1>11, <1>13, <1>14, <2>1
  <2>. QED  BY <2>1, <2>2
<1>16. /\ Cardinality(S) \in Nat /\ Cardinality(D) \in Nat /\ Cardinality(R) \in Nat
       /\ Cardinality(F) \in Nat /\ Cardinality(F \cap R) \in Nat /\ Cardinality(U) \in Nat
       /\ NReg \in Nat
  BY <1>2, <1>4, <1>6, <1>8, <1>9, FS_CardinalityType, SysAssumption
<1>17. Cardinality(available_keys) >= 3
  BY <1>2, <1>4, <1>6, <1>8, <1>10, <1>15, <1>16 DEF Deep
<1>18. Cardinality(available_keys) \in Nat
  BY <1>10, <1>12, FS_CardinalityType
<1>. QED  BY <1>17, <1>18 DEF Room

LEMMA NewRegIsFree ==
  ASSUME Registers, Room(1)
  PROVE  NewReg \in available_keys /\ NewReg \in Reg /\ NewReg \notin Range(local)
<1>1. available_keys \subseteq Reg /\ available_keys \cap Range(local) = {}
  BY DEF Registers, KeysBalanced
<1>2. available_keys \in SUBSET Nat
  BY <1>1, SysAssumption DEF Reg
<1>3. available_keys # {}
  BY FS_EmptySet DEF Room
<1>4. NewReg \in available_keys
  BY <1>2, <1>3, MinIs DEF NewReg
<1>. QED  BY <1>1, <1>4

\* A new AutoKey is the only change to the variables.
LEMMA KeepRegisters ==
  ASSUME Registers, NEW v, v \notin DOMAIN local, NEW k \in Key, Room(1), Keep(v, k),
         result' # "keys"
  PROVE  /\ Registers'
         /\ DOMAIN local' = DOMAIN local \cup {v}
         /\ Held(v)' = k
         /\ \A w \in DOMAIN local : Held(w)' = Held(w)
<1>1. PICK n, D, F : n = NewReg /\ D = DOMAIN local /\ F = {0, 1, kself, kgate}
  OBVIOUS
<1>2. n \in available_keys /\ n \in Reg /\ n \notin Range(local)
  BY <1>1, NewRegIsFree
<1>3. /\ available_keys' = available_keys \ {n}
      /\ keys' = [keys EXCEPT ![n] = k]
      /\ local' = [x \in D \cup {v} |-> IF x = v THEN n ELSE local[x]]
  BY <1>1 DEF Keep
<1>4. /\ keys \in [Reg -> Key] /\ local \in [D -> Reg \ F]
      /\ available_keys = Reg \ (F \cup Range(local))
      /\ \A a, b \in D : local[a] = local[b] => a = b
  BY <1>1 DEF Registers, KeysBalanced
<1>5. \A w \in D : local[w] # n /\ local[w] \in Range(local)
  BY <1>1, <1>2 DEF Range
<1>6. n \in Reg \ F
  BY <1>2, <1>4
<1>7. /\ DOMAIN local' = D \cup {v} /\ local' \in [D \cup {v} -> Reg \ F]
      /\ local'[v] = n /\ \A w \in D : local'[w] = local[w]
  BY <1>1, <1>3, <1>4, <1>6
<1>8. keys' \in [Reg -> Key]
  BY <1>3, <1>4
<1>9. Held(v)' = k /\ \A w \in D : Held(w)' = Held(w)
  BY <1>2, <1>3, <1>4, <1>5, <1>7 DEF Held
<1>10. Range(local)' = Range(local) \cup {n}
  <2>1. \A x \in DOMAIN local' : local'[x] \in Range(local) \cup {n}
    BY <1>5, <1>7
  <2>2. n \in Range(local)'
    BY <1>7 DEF Range
  <2>3. \A x \in D : local[x] \in Range(local)'
    BY <1>7 DEF Range
  <2>. QED  BY <1>1, <2>1, <2>2, <2>3 DEF Range
<1>11. available_keys' = Reg \ (F \cup Range(local)')
  BY <1>3, <1>4, <1>10
<1>12. \A a, b \in DOMAIN local' : local'[a] = local'[b] => a = b
  BY <1>4, <1>5, <1>7
<1>13. KeysBalanced'
  BY <1>1, <1>11, <1>12 DEF KeysBalanced, kself, kgate, Reg
<1>. QED  BY <1>1, <1>7, <1>8, <1>9, <1>13 DEF Registers, Reg, kself, kgate, Key, Brands

\* The AutoKeys of a scope that ends give their registers back.
LEMMA DropRegisters ==
  ASSUME Registers, NEW vs, vs \subseteq DOMAIN local, Drop(vs),
         keys' \in [Reg -> Key],
         \A r \in Reg \ {0, 1, kself, kgate} : keys'[r] = keys[r], result' # "keys"
  PROVE  /\ Registers'
         /\ DOMAIN local' = DOMAIN local \ vs
         /\ \A w \in DOMAIN local' : Held(w)' = Held(w)
<1>1. PICK D, F : D = DOMAIN local /\ F = {0, 1, kself, kgate}
  OBVIOUS
<1>2. /\ local \in [D -> Reg \ F]
      /\ available_keys = Reg \ (F \cup Range(local))
      /\ \A a, b \in D : local[a] = local[b] => a = b
  BY <1>1 DEF Registers, KeysBalanced
<1>3. /\ available_keys' = available_keys \cup {local[v] : v \in vs}
      /\ local' = [x \in D \ vs |-> local[x]]
  BY <1>1 DEF Drop
<1>4. /\ DOMAIN local' = D \ vs /\ local' \in [D \ vs -> Reg \ F]
      /\ \A w \in D \ vs : local'[w] = local[w]
  BY <1>2, <1>3
<1>5. \A w \in D \ vs : Held(w)' = Held(w)
  BY <1>1, <1>2, <1>4 DEF Held
<1>6. \A r : r \in Range(local) <=> \E x \in D : r = local[x]
  BY <1>1 DEF Range
<1>7. \A r : r \in Range(local)' <=> \E x \in D \ vs : r = local[x]
  BY <1>4 DEF Range
<1>8. available_keys' = Reg \ (F \cup Range(local)')
  <2>1. ASSUME NEW r \in available_keys'  PROVE r \in Reg \ (F \cup Range(local)')
    <3>1. CASE r \in available_keys
      BY <1>2, <1>6, <1>7, <3>1
    <3>2. CASE r \notin available_keys
      <4>1. PICK v \in vs : r = local[v]
        BY <1>3, <3>2, <2>1
      <4>. QED  BY <1>1, <1>2, <1>7, <4>1
    <3>. QED  BY <3>1, <3>2
  <2>2. ASSUME NEW r \in Reg \ (F \cup Range(local)')  PROVE r \in available_keys'
    <3>1. CASE r \in Range(local)
      <4>1. PICK x \in D : r = local[x]
        BY <1>6, <3>1
      <4>2. x \in vs
        BY <1>7, <2>2, <4>1
      <4>. QED  BY <1>3, <4>1, <4>2
    <3>2. CASE r \notin Range(local)
      BY <1>2, <1>3, <2>2, <3>2
    <3>. QED  BY <3>1, <3>2
  <2>. QED  BY <2>1, <2>2
<1>9. \A a, b \in DOMAIN local' : local'[a] = local'[b] => a = b
  BY <1>2, <1>4
<1>10. KeysBalanced'
  BY <1>1, <1>8, <1>9 DEF KeysBalanced, kself, kgate, Reg
<1>. QED  BY <1>1, <1>4, <1>5, <1>10 DEF Registers, Reg, kself, kgate, Key, Brands

\* A step that has no part in the variables.
LEMMA SameRegisters ==
  ASSUME Registers, UNCHANGED <<available_keys, local>>, keys' \in [Reg -> Key],
         \A r \in Reg \ {0, 1, kself, kgate} : keys'[r] = keys[r], result' # "keys"
  PROVE  /\ Registers'
         /\ DOMAIN local' = DOMAIN local
         /\ \A w \in DOMAIN local : Held(w)' = Held(w)
<1>1. local \in [DOMAIN local -> Reg \ {0, 1, kself, kgate}] /\ KeysBalanced
  BY DEF Registers
<1>2. \A w \in DOMAIN local : Held(w)' = Held(w)
  BY <1>1 DEF Held
<1>3. Range(local)' = Range(local)
  BY DEF Range
<1>4. KeysBalanced'
  BY <1>1, <1>3 DEF KeysBalanced, kself, kgate, Reg
<1>. QED  BY <1>1, <1>2, <1>4 DEF Registers, Reg, kself, kgate, Key, Brands

-----------------------------------------------------------------------------
(* Scopes *)

LEMMA AfterIs ==
  ASSUME NEW c, NEW sc
  PROVE  /\ c.op = "alloc_mem" => After(c, sc) = Pending(sc, c.var, "memory")
         /\ c.op \in {"load_program", "load_context", "load_fill", "load_image"} =>
              After(c, sc) = Loaded(sc, c.var)
         /\ c.op \in {"alloc_slot", "isolate", "free_mem"} =>
              After(c, sc) = Known(sc, c.var, "held")
         /\ c.op = "ref" => After(c, sc) = IF sc.last = NoVar THEN sc
                                           ELSE Known(sc, sc.last, sc.made)
         /\ c.op = "become" => After(c, sc) = Known(sc, c.var, c.arg)
         /\ c.op \in {"release", "copy_key"} => After(c, sc) = Known(sc, c.var, "out")
         /\ c.op = "prepare_idle_task" =>
              After(c, sc) = [Known(sc, c.var, "out") EXCEPT !.phase = "idle"]
         /\ c.op = "feed_allocator" =>
              After(c, sc) = [Known(sc, c.var, "memory") EXCEPT !.phase = "fed"]
         /\ c.op = "any" => After(c, sc) = AfterAny(sc)
         /\ c.op \in {"make_self_key", "give_syscall_key", "set_key", "give_client_key",
                      "give_apb", "set_target", "start", "serve_syscalls"} =>
              After(c, sc) = Forget(sc)
<1>1. ASSUME c.op = "alloc_mem"  PROVE After(c, sc) = Pending(sc, c.var, "memory")
  BY <1>1 DEF After
<1>2. ASSUME c.op \in {"load_program", "load_context", "load_fill", "load_image"}
      PROVE  After(c, sc) = Loaded(sc, c.var)
  BY <1>2 DEF After
<1>3. ASSUME c.op \in {"alloc_slot", "isolate", "free_mem"}
      PROVE  After(c, sc) = Known(sc, c.var, "held")
  BY <1>3 DEF After
<1>4. ASSUME c.op = "ref"
      PROVE  After(c, sc) = IF sc.last = NoVar THEN sc ELSE Known(sc, sc.last, sc.made)
  BY <1>4 DEF After
<1>5. ASSUME c.op = "become"  PROVE After(c, sc) = Known(sc, c.var, c.arg)
  BY <1>5 DEF After
<1>6. ASSUME c.op \in {"release", "copy_key"}  PROVE After(c, sc) = Known(sc, c.var, "out")
  BY <1>6 DEF After
<1>7. ASSUME c.op = "prepare_idle_task"
      PROVE  After(c, sc) = [Known(sc, c.var, "out") EXCEPT !.phase = "idle"]
  BY <1>7 DEF After
<1>8. ASSUME c.op = "feed_allocator"
      PROVE  After(c, sc) = [Known(sc, c.var, "memory") EXCEPT !.phase = "fed"]
  BY <1>8 DEF After
<1>9. ASSUME c.op = "any"  PROVE After(c, sc) = AfterAny(sc)
  BY <1>9 DEF After
<1>10. ASSUME c.op \in {"make_self_key", "give_syscall_key", "set_key", "give_client_key",
                        "give_apb", "set_target", "start", "serve_syscalls"}
       PROVE  After(c, sc) = Forget(sc)
  BY <1>10 DEF After
<1>. QED  BY <1>1, <1>2, <1>3, <1>4, <1>5, <1>6, <1>7, <1>8, <1>9, <1>10

LEMMA KnownIs ==
  ASSUME NEW sc \in Scope, NEW v \in Variable, NEW what \in Knowledge
  PROVE  /\ Known(sc, v, what) \in Scope
         /\ Known(sc, v, what).at[v] = what
         /\ \A x \in Variable \ {v} : Known(sc, v, what).at[x] = sc.at[x]
         /\ Known(sc, v, what).last = NoVar
         /\ Known(sc, v, what).phase = sc.phase
<1>. HIDE DEF Variable, Knowledge, Kind, Phase, NoVar
<1>. QED  BY DEF Known, Scope

LEMMA PendingIs ==
  ASSUME NEW sc \in Scope, NEW v \in Variable, NEW kind \in Kind
  PROVE  /\ Pending(sc, v, kind) \in Scope
         /\ Pending(sc, v, kind).at[v] = "maybe"
         /\ \A x \in Variable \ {v} : Pending(sc, v, kind).at[x] = sc.at[x]
         /\ Pending(sc, v, kind).last = v
         /\ Pending(sc, v, kind).made = kind
         /\ Pending(sc, v, kind).phase = sc.phase
<1>1. "maybe" \in Knowledge
  BY DEF Knowledge
<1>. HIDE DEF Variable, Knowledge, Kind, Phase, NoVar
<1>. QED  BY <1>1 DEF Pending, Scope

LEMMA LoadedIs ==
  ASSUME NEW sc \in Scope, NEW v \in Variable \ {"k_ram"}
  PROVE  /\ Loaded(sc, v) \in Scope
         /\ Loaded(sc, v).at[v] = "maybe"
         /\ Loaded(sc, v).at["k_ram"] = "out"
         /\ \A x \in Variable \ {v, "k_ram"} : Loaded(sc, v).at[x] = sc.at[x]
         /\ Loaded(sc, v).last = v
         /\ Loaded(sc, v).made = "context"
         /\ Loaded(sc, v).phase = sc.phase
<1>1. "context" \in Kind /\ "out" \in Knowledge /\ "k_ram" \in Variable
  BY DEF Kind, Knowledge, Variable
<1>2. PICK p : p = Pending(sc, v, "context")
  OBVIOUS
<1>3. /\ p \in Scope /\ p.at[v] = "maybe" /\ p.last = v /\ p.made = "context"
      /\ \A x \in Variable \ {v} : p.at[x] = sc.at[x] /\ p.phase = sc.phase
      /\ p.phase = sc.phase
  BY <1>1, <1>2, PendingIs
<1>4. Loaded(sc, v) = [p EXCEPT !.at["k_ram"] = "out"]
  BY <1>2 DEF Loaded
<1>. HIDE DEF Variable, Knowledge, Kind, Phase, NoVar
<1>. QED  BY <1>1, <1>3, <1>4 DEF Scope

LEMMA ForgetIs ==
  ASSUME NEW sc \in Scope
  PROVE  /\ Forget(sc) \in Scope
         /\ Forget(sc).at = sc.at
         /\ Forget(sc).last = NoVar
         /\ Forget(sc).phase = sc.phase
         /\ Forget(sc).made = sc.made
<1>. HIDE DEF Variable, Knowledge, Kind, Phase, NoVar
<1>. QED  BY DEF Forget, Scope

LEMMA AfterAnyIs ==
  ASSUME NEW sc \in Scope
  PROVE  /\ AfterAny(sc) \in Scope
         /\ \A v \in Variable : AfterAny(sc).at[v] = IF v \in AnyVar THEN "maybe" ELSE sc.at[v]
         /\ AfterAny(sc).last = NoVar
         /\ AfterAny(sc).made = "memory"
         /\ AfterAny(sc).phase = sc.phase
<1>1. "maybe" \in Knowledge /\ "memory" \in Kind
  BY DEF Knowledge, Kind
<1>2. PICK at : at = [v \in Variable |-> IF v \in AnyVar THEN "maybe" ELSE sc.at[v]]
  OBVIOUS
<1>3. AfterAny(sc) = [sc EXCEPT !.last = NoVar, !.made = "memory", !.at = at]
  BY <1>2 DEF AfterAny, Scope
<1>. HIDE DEF Variable, Knowledge, Kind, Phase, NoVar
<1>4. at \in [Variable -> Knowledge]
  BY <1>1, <1>2 DEF Scope
<1>5. AfterAny(sc) = [at |-> at, last |-> NoVar, made |-> "memory", phase |-> sc.phase]
  BY <1>3 DEF Scope
<1>6. sc.phase \in Phase
  BY DEF Scope
<1>7. AfterAny(sc) \in Scope
  BY <1>1, <1>4, <1>5, <1>6 DEF Scope
<1>. QED  BY <1>2, <1>5, <1>7

LEMMA PhasedIs ==
  ASSUME NEW sc \in Scope, NEW v \in Variable, NEW what \in Knowledge, NEW ph \in Phase
  PROVE  LET s == [Known(sc, v, what) EXCEPT !.phase = ph]
         IN  /\ s \in Scope
             /\ s.at[v] = what
             /\ \A x \in Variable \ {v} : s.at[x] = sc.at[x]
             /\ s.last = NoVar
             /\ s.phase = ph
<1>1. PICK k : k = Known(sc, v, what)
  OBVIOUS
<1>2. /\ k \in Scope /\ k.at[v] = what /\ k.last = NoVar
      /\ \A x \in Variable \ {v} : k.at[x] = sc.at[x]
  BY <1>1, KnownIs
<1>. HIDE DEF Variable, Knowledge, Kind, Phase, NoVar
<1>. QED  BY <1>1, <1>2 DEF Scope

\* The variables in scope are few enough.
LEMMA ScopeHasRoom ==
  ASSUME Registers, NEW sc, Fits(sc), Deep(Opened(sc))
  PROVE  Room(1) /\ Room(2) /\ Room(3)
<1>1. IsFiniteSet(Opened(sc))
  <2>1. Opened(sc) \in SUBSET Variable
    BY DEF Opened
  <2>. QED  BY <2>1, VariableIsFinite, FS_Subset
<1>2. DOMAIN local \subseteq Opened(sc)
  BY DEF Fits
<1>. QED  BY <1>1, <1>2, RoomThree

\* The next call of a sequence, and what is known before and after it.
LEMMA CallIs ==
  ASSUME Control, todo # << >>,
         Head(todo).op \in Library \ {"free_mem"}
  PROVE  \E sc : /\ Fits(sc) /\ Allowed(Head(todo), sc) /\ Deep(Opened(sc))
                 /\ Ok(Tail(todo), After(Head(todo), sc))
                 /\ After(Head(todo), sc) \in Scope /\ sc \in Scope
                 /\ Tail(todo) \in Seq(Range(Tail(todo)))
                 /\ Head(todo).op # "feed_allocator" => sc.phase # "boot"
<1>1. \A op, arg, var : Call(op, arg, var).op = op
  BY DEF Call
<1>2. \A op, arg, var : Head(<<Call(op, arg, var)>>).op = op
  BY <1>1
<1>3. ~ Halted /\ ~ Serving
  <2>1. "halted" \notin Library /\ "serving" \notin Library
    BY DEF Library
  <2>. QED  BY <1>2, <2>1 DEF Halted, Serving
<1>4. PICK sc : /\ Fits(sc)
                /\ Ok(todo, sc) \/ Descending(sc) \/ Freeing(sc) \/ Failing(sc)
  BY <1>3 DEF Control
<1>5. ~ Descending(sc) /\ ~ Freeing(sc) /\ ~ Failing(sc)
  <2>1. "descend" \notin Library /\ "load_failed" \notin Library
    BY DEF Library
  <2>. QED  BY <1>1, <2>1 DEF Descending, Freeing, Failing
<1>6. Ok(todo, sc)
  BY <1>4, <1>5
<1>7. /\ sc \in Scope /\ Allowed(Head(todo), sc)
      /\ Ok(Tail(todo), After(Head(todo), sc))
  BY <1>6, OkHead
<1>8. /\ After(Head(todo), sc) \in Scope /\ Tail(todo) \in Seq(Range(Tail(todo)))
  BY <1>7, OkSeq
<1>9. Deep(Opened(sc)) /\ (Head(todo).op # "feed_allocator" => sc.phase # "boot")
  <2>1. PICK c : c = Head(todo)
    OBVIOUS
  <2>2. Deep(Opened(sc)) /\ (c.op = "feed_allocator" <=> sc.phase = "boot")
    BY <1>7, <2>1 DEF Allowed
  <2>. QED  BY <2>1, <2>2
<1>. QED  BY <1>4, <1>7, <1>8, <1>9

-----------------------------------------------------------------------------
(* The free lists and the keys to Memory *)

LEMMA TableIs ==
  ASSUME Memories
  PROVE  /\ Index = Table /\ 0 \in Table /\ slots_used \in Nat /\ NextSlot \in Nat \ {0}
         /\ app.extra \in Nat /\ MapCount \in Nat \ {0}
         /\ \A i \in Table : /\ object[i].level \in Level /\ object[i].base \in Nat
                             /\ generation[i] \in Nat /\ next[i] \in Table
         /\ \A l \in Level : mem_roots[l] \in Table
         /\ Self \in Table \ {0} /\ 5 <= NextSlot
         /\ object[0].kind = "null" /\ object[Self].kind = "context"
<1>1. Shape
  BY DEF Memories
<1>2. app.extra \in Nat
  BY <1>1, SysAssumption DEF Shape
<1>3. PICK m : m = MapCount
  OBVIOUS
<1>4. m \in Nat \ {0}
  <2>1. m \in Nat
    BY <1>3, SysAssumption DEF MapCount
  <2>2. AppRam \in 3 .. (3 + m - 1)
    BY <1>3, SysAssumption DEF WellKnown
  <2>. QED  BY <2>1, <2>2
<1>5. slots_used \in Nat /\ Index = Table
  BY <1>1 DEF Shape, Index
<1>6. NextSlot \in Nat \ {0} /\ 5 <= NextSlot
  BY <1>3, <1>4, <1>5 DEF NextSlot, FixedSlots
<1>7. 0 \in Table /\ Self \in Table \ {0}
  <2>1. TableSize(app) - 1 = 2 + m + app.extra
    BY <1>2, <1>3, <1>4 DEF TableSize, WellKnown
  <2>. QED  BY <1>2, <1>4, <2>1 DEF Table, Self
<1>8. \A i \in Table : /\ object[i].level \in Level /\ object[i].base \in Nat
                       /\ generation[i] \in Nat /\ next[i] \in Table
  BY <1>1 DEF Shape
<1>9. /\ \A l \in Level : mem_roots[l] \in Table
      /\ object[0].kind = "null" /\ object[Self].kind = "context"
  BY <1>1 DEF Shape
<1>. QED  BY <1>2, <1>3, <1>4, <1>5, <1>6, <1>7, <1>8, <1>9

LEMMA NextSlotIs ==
  ASSUME NEW n \in Nat, slots_used \in Nat, slots_used' = slots_used + n
  PROVE  NextSlot' = NextSlot + n
<1>1. MapCount \in Nat
  BY SysAssumption DEF MapCount
<1>. QED  BY <1>1 DEF NextSlot, FixedSlots

\* Nothing but the variables changes, and they become fewer; a slot may be lost.
LEMMA SameMemories ==
  ASSUME Memories, UNCHANGED <<app, tableVars, mem_roots>>,
         slots_used' \in {slots_used, slots_used + 1},
         Mine' \subseteq Mine, \A v \in Mine' : Held(v)' = Held(v)
  PROVE  Memories'
<1>1. PICK rank : Ranked(rank) /\ Holdings(rank)
  BY DEF Memories
<1>2. UNCHANGED <<app, object, generation, next, mem_roots>> /\ Table' = Table
  BY DEF tableVars, Table
<1>3. PICK n, n2 : n = NextSlot /\ n2 = NextSlot'
  OBVIOUS
<1>4. n \in Nat /\ n2 \in Nat /\ n <= n2 /\ slots_used' \in Nat
  <2>1. slots_used \in Nat /\ n \in Nat
    BY <1>3, TableIs
  <2>2. CASE slots_used' = slots_used
    BY <1>3, <2>1, <2>2, NextSlotIs
  <2>3. CASE slots_used' = slots_used + 1
    BY <1>3, <2>1, <2>3, NextSlotIs
  <2>. QED  BY <2>2, <2>3
<1>5. Shape'
  <2>1. \A i \in Table : i >= n2 => object[i].kind = "slot"
    <3>1. \A i \in Table : i >= n => object[i].kind = "slot"
      BY <1>3 DEF Memories, Shape
    <3>2. \A i \in Table : i \in Int
      BY DEF Table
    <3>. QED  BY <1>4, <3>1, <3>2
  <2>. QED  BY <1>2, <1>3, <1>4, <2>1 DEF Memories, Shape
<1>6. Placed'
  BY <1>2 DEF Memories, Placed, IsPlaced, InRam, End
<1>7. Ranked(rank)'
  BY <1>1, <1>2 DEF Ranked
<1>8. Holdings(rank)'
  <2>1. ASSUME NEW v \in Mine'  PROVE Holds(rank, v)'
    <3>1. PICK k : k = Held(v) /\ k = Held(v)'
      OBVIOUS
    <3>2. Holds(rank, v)
      BY <1>1 DEF Holdings
    <3>3. k.obj \in Table \ {0, Self} /\ k.obj < n
      BY <1>3, <3>1, <3>2 DEF Holds
    <3>4. k.obj < n2
      BY <1>4, <3>3 DEF Table
    <3>. QED  BY <1>2, <1>3, <3>1, <3>2, <3>4 DEF Holds, Live, InRam
  <2>2. \A v, w \in Mine' : Apart(v, w)'
    BY <1>1, <1>2 DEF Holdings, Apart, Live
  <2>. QED  BY <2>1, <2>2 DEF Holdings
<1>. QED  BY <1>5, <1>6, <1>7, <1>8 DEF Memories

\* mem_roots has no Memory before the allocator is fed.
LEMMA FeedMemories ==
  ASSUME Memories, UNCHANGED <<app, tableVars, poolVars>>, InPhase("boot"), Mine = {},
         NEW v, v # "k_img", Mine' \subseteq {v}, Held(v)' = Minted(AppRam, Plain)
  PROVE  Memories'
<1>1. UNCHANGED <<app, object, generation, next, mem_roots, slots_used>> /\ Table' = Table
  BY DEF tableVars, poolVars, Table
<1>2. PICK rank : rank = [i \in Table |-> 0]
  OBVIOUS
<1>3. \A l \in Level : mem_roots[l] = 0
  BY DEF InPhase
<1>4. Ranked(rank)'
  BY <1>1, <1>2, <1>3 DEF Ranked, RankedOn
<1>5. NextSlot' = NextSlot
  BY <1>1 DEF NextSlot
<1>6. Shape' /\ Placed'
  BY <1>1, <1>5 DEF Memories, Shape, Placed, IsPlaced, InRam, End
<1>7. AppRam \in Table \ {0, Self} /\ AppRam < NextSlot /\ generation[AppRam] \in Nat
  <2>1. PICK m : m = MapCount
    OBVIOUS
  <2>2. m \in Nat /\ app.extra \in Nat /\ slots_used \in Nat
    BY <2>1, TableIs
  <2>3. AppRam \in 3 .. (3 + m - 1)
    BY <2>1, SysAssumption DEF WellKnown
  <2>4. AppRam \in Table \ {0, Self} /\ AppRam < NextSlot
    BY <2>1, <2>2, <2>3 DEF Table, TableSize, WellKnown, Self, NextSlot, FixedSlots
  <2>. QED  BY <2>4, TableIs
<1>8. Holds(rank, v)'
  <2>1. PICK k : k = Held(v)'
    OBVIOUS
  <2>2. k.obj = AppRam /\ k.gen = generation[AppRam]
    BY <2>1 DEF Minted
  <2>3. InRam(AppRam)' /\ rank[AppRam] = 0
    BY <1>1, <1>2, <1>7 DEF InPhase, IsPlaced, InRam
  <2>. QED  BY <1>1, <1>5, <1>7, <2>1, <2>2, <2>3 DEF Holds
<1>9. Holdings(rank)'
  BY <1>8 DEF Holdings, Apart
<1>. QED  BY <1>4, <1>6, <1>9 DEF Memories

\* alloc_slot's key is to an entry nobody has had.
LEMMA SlotMemories ==
  ASSUME Memories, UNCHANGED <<app, tableVars, mem_roots>>, slots_used' = slots_used + 1,
         NextSlot \in Table, NEW v, Mine' = Mine \cup {v}, Held(v)' = Minted(NextSlot, Plain),
         \A w \in Mine : Held(w)' = Held(w), v \notin Mine
  PROVE  Memories'
<1>1. PICK rank : Ranked(rank) /\ Holdings(rank)
  BY DEF Memories
<1>2. UNCHANGED <<app, object, generation, next, mem_roots>> /\ Table' = Table
  BY DEF tableVars, Table
<1>3. PICK n : n = NextSlot
  OBVIOUS
<1>4. n \in Nat /\ n >= 5 /\ NextSlot' = n + 1 /\ slots_used' \in Nat
  <2>1. slots_used \in Nat /\ n \in Nat /\ 5 <= n
    BY <1>3, TableIs
  <2>. QED  BY <1>3, <2>1, NextSlotIs
<1>5. \A i \in Table : i >= n => object[i].kind = "slot"
  BY <1>3 DEF Memories, Shape
<1>6. \A i \in Table : i \in Int
  BY DEF Table
<1>7. Shape'
  <2>1. \A i \in Table : i >= n + 1 => object[i].kind = "slot"
    BY <1>4, <1>5, <1>6
  <2>. QED  BY <1>2, <1>4, <2>1 DEF Memories, Shape
<1>8. Placed'
  BY <1>2 DEF Memories, Placed, IsPlaced, InRam, End
<1>9. Ranked(rank)'
  BY <1>1, <1>2 DEF Ranked
<1>10. object[n].kind = "slot" /\ rank[n] = 0
  <2>1. object[n].kind = "slot"
    BY <1>3, <1>4, <1>5
  <2>2. ~ rank[n] > 0 /\ rank[n] \in Nat
    BY <1>1, <1>3, <2>1 DEF Ranked, RankedOn
  <2>. QED  BY <2>1, <2>2
<1>11. \A w \in Mine : Held(w).obj \in Table \ {0, Self} /\ Held(w).obj < n
  BY <1>1, <1>3 DEF Holdings, Holds
<1>12. ASSUME NEW w \in Mine  PROVE Holds(rank, w)'
  <2>1. PICK k : k = Held(w) /\ k = Held(w)'
    OBVIOUS
  <2>2. Holds(rank, w) /\ k.obj < n /\ k.obj \in Int
    BY <1>1, <1>6, <1>11, <2>1 DEF Holdings
  <2>3. k.obj < n + 1
    BY <1>4, <2>2
  <2>. QED  BY <1>2, <1>4, <2>1, <2>2, <2>3 DEF Holds, Live, InRam
<1>13. Holds(rank, v)'
  <2>1. PICK k : k = Held(v)'
    OBVIOUS
  <2>2. k.obj = n /\ k.gen = generation[n]
    BY <1>3, <2>1 DEF Minted
  <2>3. n \in Table \ {0, Self} /\ n < n + 1 /\ generation[n] \in Nat
    BY <1>3, <1>4, TableIs DEF Self
  <2>. QED  BY <1>2, <1>4, <1>10, <2>1, <2>2, <2>3 DEF Holds
<1>14. ASSUME NEW w \in Mine', NEW x \in Mine'  PROVE Apart(w, x)'
  <2>1. Held(v)'.obj = n
    BY <1>3 DEF Minted
  <2>2. \A y \in Mine : Held(y)'.obj # n
    BY <1>4, <1>11
  <2>3. CASE w = v \/ x = v
    BY <2>1, <2>2, <2>3, <1>14 DEF Apart
  <2>4. CASE w # v /\ x # v
    <3>1. Apart(w, x) /\ Held(w)' = Held(w) /\ Held(x)' = Held(x)
      BY <1>1, <1>14, <2>4 DEF Holdings
    <3>. QED  BY <1>2, <3>1 DEF Apart, Live
  <2>. QED  BY <2>3, <2>4
<1>15. Holdings(rank)'
  BY <1>12, <1>13, <1>14 DEF Holdings
<1>. QED  BY <1>7, <1>8, <1>9, <1>15 DEF Memories

\* Taking the first object off a list.
LEMMA PopRanked ==
  ASSUME NEW T, NEW rank, NEW obj, NEW nxt \in [T -> T], NEW roots \in [Level -> T],
         \A i \in T : obj[i].level \in Level,
         RankedOn(T, rank, obj, nxt, roots), NEW l \in Level, roots[l] # 0, 0 \in T
  PROVE  RankedOn(T, [rank EXCEPT ![roots[l]] = 0], obj, [nxt EXCEPT ![roots[l]] = 0],
                  [roots EXCEPT ![l] = nxt[roots[l]]])
<1>. HIDE DEF Level
<1>1. PICK r : r = roots[l]
  OBVIOUS
<1>2. PICK rank2, nxt2, roots2 : /\ rank2 = [rank EXCEPT ![r] = 0]
                                 /\ nxt2 = [nxt EXCEPT ![r] = 0]
                                 /\ roots2 = [roots EXCEPT ![l] = nxt[r]]
  OBVIOUS
<1>3. /\ rank \in [T -> Nat]
      /\ \A m \in Level : roots[m] # 0 => rank[roots[m]] > 0 /\ obj[roots[m]].level = m
      /\ \A i \in T : rank[i] > 0 =>
           /\ obj[i].kind = "memory" /\ OnRam(obj[i])
           /\ nxt[i] # 0 => /\ rank[nxt[i]] > 0 /\ rank[nxt[i]] < rank[i]
                            /\ obj[nxt[i]].level = obj[i].level
                            /\ nxt[i] # roots[obj[i].level]
      /\ \A i, j \in T : rank[i] > 0 /\ rank[j] > 0 /\ nxt[i] # 0 /\ nxt[i] = nxt[j] => i = j
  BY DEF RankedOn
<1>4. r \in T /\ r # 0 /\ rank[r] > 0 /\ obj[r].level = l
  BY <1>1, <1>3
<1>5. /\ rank2 \in [T -> Nat] /\ rank2[r] = 0 /\ \A i \in T \ {r} : rank2[i] = rank[i]
      /\ \A i \in T \ {r} : nxt2[i] = nxt[i]
      /\ roots2[l] = nxt[r] /\ \A m \in Level \ {l} : roots2[m] = roots[m]
  BY <1>2, <1>3, <1>4
<1>6. ASSUME NEW m \in Level, roots2[m] # 0
      PROVE  rank2[roots2[m]] > 0 /\ obj[roots2[m]].level = m
  <2>1. CASE m = l
    <3>1. nxt[r] # 0 /\ nxt[r] \in T
      BY <1>4, <1>5, <1>6, <2>1
    <3>2. rank[nxt[r]] > 0 /\ rank[nxt[r]] < rank[r] /\ obj[nxt[r]].level = l
      BY <1>3, <1>4, <3>1
    <3>3. nxt[r] # r
      BY <1>3, <1>4, <3>2
    <3>. QED  BY <1>5, <2>1, <3>1, <3>2, <3>3
  <2>2. CASE m # l
    <3>1. roots2[m] = roots[m] /\ roots[m] # 0 /\ roots[m] \in T
      BY <1>5, <1>6, <2>2
    <3>2. rank[roots[m]] > 0 /\ obj[roots[m]].level = m
      BY <1>3, <3>1
    <3>3. roots[m] # r
      BY <1>4, <2>2, <3>2
    <3>. QED  BY <1>5, <3>1, <3>2, <3>3
  <2>. QED  BY <2>1, <2>2
<1>7. ASSUME NEW i \in T, rank2[i] > 0
      PROVE  /\ i # r /\ rank[i] > 0 /\ nxt2[i] = nxt[i] /\ rank2[i] = rank[i]
             /\ obj[i].kind = "memory" /\ OnRam(obj[i])
             /\ nxt2[i] # 0 => /\ rank2[nxt2[i]] > 0 /\ rank2[nxt2[i]] < rank2[i]
                               /\ obj[nxt2[i]].level = obj[i].level
                               /\ nxt2[i] # roots2[obj[i].level]
  <2>1. i # r /\ rank[i] > 0 /\ nxt2[i] = nxt[i] /\ rank2[i] = rank[i]
    BY <1>5, <1>7
  <2>2. obj[i].kind = "memory" /\ OnRam(obj[i])
    BY <1>3, <2>1
  <2>3. ASSUME nxt[i] # 0
        PROVE  /\ rank2[nxt[i]] > 0 /\ rank2[nxt[i]] < rank[i]
               /\ obj[nxt[i]].level = obj[i].level
               /\ nxt[i] # roots2[obj[i].level]
    <3>1. /\ rank[nxt[i]] > 0 /\ rank[nxt[i]] < rank[i]
          /\ obj[nxt[i]].level = obj[i].level /\ nxt[i] # roots[obj[i].level]
          /\ nxt[i] \in T /\ obj[i].level \in Level
      BY <1>3, <2>1, <2>3
    <3>2. nxt[i] # r
      BY <1>1, <1>4, <3>1
    <3>3. nxt[i] # roots2[obj[i].level]
      <4>1. CASE obj[i].level = l
        BY <1>3, <1>4, <1>5, <2>1, <2>3, <4>1
      <4>2. CASE obj[i].level # l
        BY <1>5, <3>1, <4>2
      <4>. QED  BY <4>1, <4>2
    <3>. QED  BY <1>5, <3>1, <3>2, <3>3
  <2>. QED  BY <2>1, <2>2, <2>3
<1>8. \A i, j \in T : rank2[i] > 0 /\ rank2[j] > 0 /\ nxt2[i] # 0 /\ nxt2[i] = nxt2[j] => i = j
  BY <1>3, <1>7
<1>9. RankedOn(T, rank2, obj, nxt2, roots2)
  BY <1>5, <1>6, <1>7, <1>8 DEF RankedOn
<1>. QED  BY <1>1, <1>2, <1>9

\* Making an object that is on no list the first one of its list.
Above(rank, r) == IF r = 0 THEN 1 ELSE rank[r] + 1
LEMMA PushRanked ==
  ASSUME NEW T, NEW rank, NEW obj, NEW nxt \in [T -> T], NEW roots \in [Level -> T],
         \A i \in T : obj[i].level \in Level,
         RankedOn(T, rank, obj, nxt, roots), NEW b \in T \ {0}, rank[b] = 0,
         obj[b].kind = "memory", OnRam(obj[b]), NEW l \in Level, l = obj[b].level
  PROVE  RankedOn(T, [rank EXCEPT ![b] = Above(rank, roots[l])], obj,
                  [nxt EXCEPT ![b] = roots[l]], [roots EXCEPT ![l] = b])
<1>. HIDE DEF Level
<1>1. PICK r : r = roots[l]
  OBVIOUS
<1>2. PICK a : a = Above(rank, r)
  OBVIOUS
<1>3. PICK rank2, nxt2, roots2 : /\ rank2 = [rank EXCEPT ![b] = a]
                                 /\ nxt2 = [nxt EXCEPT ![b] = r]
                                 /\ roots2 = [roots EXCEPT ![l] = b]
  OBVIOUS
<1>4. /\ rank \in [T -> Nat]
      /\ \A m \in Level : roots[m] # 0 => rank[roots[m]] > 0 /\ obj[roots[m]].level = m
      /\ \A i \in T : rank[i] > 0 =>
           /\ obj[i].kind = "memory" /\ OnRam(obj[i])
           /\ nxt[i] # 0 => /\ rank[nxt[i]] > 0 /\ rank[nxt[i]] < rank[i]
                            /\ obj[nxt[i]].level = obj[i].level
                            /\ nxt[i] # roots[obj[i].level]
      /\ \A i, j \in T : rank[i] > 0 /\ rank[j] > 0 /\ nxt[i] # 0 /\ nxt[i] = nxt[j] => i = j
  BY DEF RankedOn
<1>5. r \in T /\ (r # 0 => rank[r] > 0 /\ obj[r].level = l /\ rank[r] < a) /\ a \in Nat /\ a > 0
  <2>1. r \in T /\ (r # 0 => rank[r] > 0 /\ obj[r].level = l) /\ rank[r] \in Nat
    BY <1>1, <1>4
  <2>. QED  BY <1>2, <2>1 DEF Above
<1>6. /\ rank2 \in [T -> Nat] /\ rank2[b] = a /\ \A i \in T \ {b} : rank2[i] = rank[i]
      /\ nxt2[b] = r /\ \A i \in T \ {b} : nxt2[i] = nxt[i]
      /\ roots2[l] = b /\ \A m \in Level \ {l} : roots2[m] = roots[m]
  BY <1>3, <1>4, <1>5
<1>7. r # b
  BY <1>5
<1>8. ASSUME NEW m \in Level, roots2[m] # 0
      PROVE  rank2[roots2[m]] > 0 /\ obj[roots2[m]].level = m
  <2>1. CASE m = l
    BY <1>5, <1>6, <2>1
  <2>2. CASE m # l
    <3>1. roots2[m] = roots[m] /\ roots[m] # 0 /\ roots[m] \in T
      BY <1>6, <1>8, <2>2
    <3>2. rank[roots[m]] > 0 /\ obj[roots[m]].level = m /\ roots[m] # b
      BY <1>4, <3>1
    <3>. QED  BY <1>6, <3>1, <3>2
  <2>. QED  BY <2>1, <2>2
<1>9. ASSUME NEW i \in T, i # b, rank[i] > 0, nxt[i] # 0
      PROVE  /\ nxt[i] \in T /\ nxt[i] # b /\ nxt[i] # r
             /\ rank[nxt[i]] > 0 /\ rank[nxt[i]] < rank[i]
             /\ obj[nxt[i]].level = obj[i].level
             /\ nxt[i] # roots2[obj[i].level]
  <2>1. /\ rank[nxt[i]] > 0 /\ rank[nxt[i]] < rank[i]
        /\ obj[nxt[i]].level = obj[i].level /\ nxt[i] # roots[obj[i].level]
        /\ nxt[i] \in T /\ obj[i].level \in Level
    BY <1>4, <1>9
  <2>2. nxt[i] # b
    BY <2>1
  <2>3. nxt[i] # r
    BY <1>1, <1>5, <1>9, <2>1
  <2>4. nxt[i] # roots2[obj[i].level]
    BY <1>6, <2>1, <2>2
  <2>. QED  BY <2>1, <2>2, <2>3, <2>4
<1>10. ASSUME NEW i \in T, rank2[i] > 0
       PROVE  /\ obj[i].kind = "memory" /\ OnRam(obj[i])
              /\ nxt2[i] # 0 => /\ rank2[nxt2[i]] > 0 /\ rank2[nxt2[i]] < rank2[i]
                                /\ obj[nxt2[i]].level = obj[i].level
                                /\ nxt2[i] # roots2[obj[i].level]
  <2>1. CASE i = b
    BY <1>5, <1>6, <1>7, <2>1
  <2>2. CASE i # b
    BY <1>4, <1>6, <1>9, <1>10, <2>2
  <2>. QED  BY <2>1, <2>2
<1>11. ASSUME NEW i \in T, NEW j \in T, rank2[i] > 0, rank2[j] > 0, nxt2[i] # 0,
              nxt2[i] = nxt2[j]
       PROVE  i = j
  <2>1. CASE i # b /\ j # b
    BY <1>4, <1>6, <1>11, <2>1
  <2>2. CASE i = b /\ j # b
    BY <1>6, <1>9, <1>11, <2>2
  <2>3. CASE i # b /\ j = b
    BY <1>6, <1>9, <1>11, <2>3
  <2>. QED  BY <2>1, <2>2, <2>3
<1>12. RankedOn(T, rank2, obj, nxt2, roots2)
  BY <1>6, <1>8, <1>10, <1>11 DEF RankedOn
<1>. QED  BY <1>1, <1>2, <1>3, <1>12

\* Objects on no list may change.
LEMMA ObjectRanked ==
  ASSUME NEW T, NEW rank, NEW obj, NEW nxt, NEW roots, NEW obj2,
         RankedOn(T, rank, obj, nxt, roots),
         \A l \in Level : roots[l] \in T, \A i \in T : nxt[i] \in T,
         \A i \in T : rank[i] > 0 => obj2[i] = obj[i]
  PROVE  RankedOn(T, rank, obj2, nxt, roots)
BY DEF RankedOn

\* What a key to something other than the null object gives is live.
LEMMA TargetIs ==
  ASSUME Memories, NEW v \in Mine
  PROVE  /\ Held(v).obj \in Table \ {0, Self} /\ Held(v).obj < NextSlot
         /\ Live(Held(v)) => Target(Held(v)) = Held(v).obj
         /\ ~ Live(Held(v)) => Target(Held(v)) = 0
         /\ object[Target(Held(v))].kind \in {"memory", "context"} => Live(Held(v))
         /\ Target(Held(v)) \in Table
<1>1. PICK rank : Holdings(rank)
  BY DEF Memories
<1>2. Held(v).obj \in Table \ {0, Self} /\ Held(v).obj < NextSlot
  BY <1>1 DEF Holdings, Holds
<1>3. /\ Live(Held(v)) => Target(Held(v)) = Held(v).obj
      /\ ~ Live(Held(v)) => Target(Held(v)) = 0
  BY DEF Live, Target
<1>4. object[0].kind = "null" /\ 0 \in Table
  BY TableIs
<1>. QED  BY <1>2, <1>3, <1>4

\* free_mem: the Memory becomes the first of its list.
LEMMA FreeMemories ==
  ASSUME Memories, NEW v \in Mine, v # "k_img", NEW i, i = Target(Held(v)),
         object[i].kind = "memory", NEW l, l = object[i].level,
         UNCHANGED <<app, object, slots_used>>, Mine' = Mine,
         \A w \in Mine : Held(w)' = Held(w),
         generation' = [generation EXCEPT ![i] = @ + 1],
         next' = [next EXCEPT ![i] = mem_roots[l]],
         mem_roots' = [mem_roots EXCEPT ![l] = i]
  PROVE  /\ Memories'
         /\ \A w \in Mine : Live(Held(w))' => Live(Held(w))
         /\ \A w \in Mine \ {v} : Live(Held(w)) => /\ Held(w).obj # i
                                                   /\ generation'[Held(w).obj] = generation[Held(w).obj]
<1>1. PICK rank : Ranked(rank) /\ Holdings(rank)
  BY DEF Memories
<1>2. Table' = Table /\ NextSlot' = NextSlot
  BY DEF Table, NextSlot
<1>3. Live(Held(v)) /\ i = Held(v).obj /\ i \in Table \ {0, Self}
  BY TargetIs
<1>4. rank[i] = 0 /\ InRam(i)
  BY <1>1, <1>3 DEF Holdings, Holds
<1>5. PICK T, n, nxt, roots : T = Table /\ n = NextSlot /\ nxt = next /\ roots = mem_roots
  OBVIOUS
<1>6. /\ nxt \in [T -> T] /\ roots \in [Level -> T] /\ generation \in [T -> Nat]
      /\ \A j \in T : object[j].level \in Level /\ l \in Level
      /\ i \in T \ {0} /\ l \in Level
  BY <1>3, <1>5 DEF Memories, Shape
<1>7. /\ generation' \in [T -> Nat] /\ generation'[i] = generation[i] + 1
      /\ \A j \in T \ {i} : generation'[j] = generation[j]
  BY <1>6
<1>8. next' = [nxt EXCEPT ![i] = roots[l]] /\ mem_roots' = [roots EXCEPT ![l] = i]
  BY <1>5
<1>9. next' \in [T -> T] /\ mem_roots' \in [Level -> T]
  <2>. HIDE DEF Level
  <2>. QED  BY ONLY <1>6, <1>8
<1>10. Shape'
  BY <1>2, <1>5, <1>7, <1>9 DEF Memories, Shape
<1>11. Placed'
  BY <1>2 DEF Memories, Placed, IsPlaced, InRam, End
<1>12. PICK rank2 : rank2 = [rank EXCEPT ![i] = Above(rank, roots[l])]
  OBVIOUS
<1>13. RankedOn(T, rank2, object, next', mem_roots')
  <2>1. RankedOn(T, rank, object, nxt, roots)
    BY <1>1, <1>5 DEF Ranked
  <2>2. OnRam(object[i])
    BY <1>4 DEF InRam, OnRam
  <2>3. /\ \A j \in T : object[j].level \in Level
        /\ nxt \in [T -> T] /\ roots \in [Level -> T] /\ i \in T \ {0} /\ l \in Level
        /\ rank[i] = 0 /\ object[i].kind = "memory" /\ l = object[i].level
    BY <1>4, <1>6
  <2>4. RankedOn(T, [rank EXCEPT ![i] = Above(rank, roots[l])], object,
                 [nxt EXCEPT ![i] = roots[l]], [roots EXCEPT ![l] = i])
    BY ONLY <2>1, <2>2, <2>3, PushRanked
  <2>. QED  BY <1>8, <1>12, <2>4, Zenon
<1>14. Ranked(rank2)'
  BY <1>2, <1>5, <1>13 DEF Ranked
<1>15. \A j \in T \ {i} : rank2[j] = rank[j]
  BY <1>1, <1>5, <1>12 DEF Ranked, RankedOn
<1>16. ASSUME NEW w \in Mine  PROVE Holds(rank2, w)' /\ (Live(Held(w))' => Live(Held(w)))
  <2>1. PICK k : k = Held(w) /\ k = Held(w)'
    OBVIOUS
  <2>2. Holds(rank, w)
    BY <1>1 DEF Holdings
  <2>3. k.obj \in T \ {0, Self} /\ k.obj < n /\ k.gen \in Nat /\ k.gen <= generation[k.obj]
    BY <1>5, <2>1, <2>2 DEF Holds
  <2>4. k.gen <= generation'[k.obj] /\ (k.obj = i => generation'[k.obj] # k.gen)
    BY <1>6, <1>7, <2>3
  <2>5. generation'[k.obj] = k.gen => k.obj # i /\ generation[k.obj] = k.gen
    BY <1>7, <2>3, <2>4
  <2>6. generation'[k.obj] = k.gen =>
          /\ rank2[k.obj] = 0
          /\ w # "k_img" /\ object[k.obj].kind = "memory" => InRam(k.obj)
    BY <1>15, <2>1, <2>2, <2>3, <2>5 DEF Holds, Live
  <2>7. Live(Held(w))' => Live(Held(w))
    BY <2>1, <2>5 DEF Live
  <2>8. InRam(k.obj) => InRam(k.obj)'
    BY DEF InRam
  <2>9. k.obj \in Table' \ {0, Self} /\ k.obj < NextSlot'
    BY <1>2, <1>5, <2>3
  <2>10. object' = object /\ k = Held(w)'
    BY <2>1
  <2>11. Holds(rank2, w)'
    BY ONLY <2>3, <2>4, <2>6, <2>8, <2>9, <2>10 DEF Holds, Live
  <2>. QED  BY <2>7, <2>11
<1>17. Holdings(rank2)'
  <2>1. ASSUME NEW w \in Mine, NEW x \in Mine  PROVE Apart(w, x)'
    <3>1. Apart(w, x)
      BY <1>1 DEF Holdings
    <3>. QED  BY <1>16, <3>1 DEF Apart
  <2>. QED  BY <1>16, <2>1 DEF Holdings
<1>18. ASSUME NEW w \in Mine \ {v}, Live(Held(w))
       PROVE  Held(w).obj # i /\ generation'[Held(w).obj] = generation[Held(w).obj]
  <2>1. Apart(w, v) /\ Holds(rank, w)
    BY <1>1 DEF Holdings
  <2>2. Held(w).obj # i /\ Held(w).obj \in T
    BY <1>3, <1>5, <1>18, <2>1 DEF Apart, Holds
  <2>. QED  BY <1>7, <2>2
<1>. QED  BY <1>10, <1>11, <1>14, <1>16, <1>17, <1>18 DEF Memories

\* The head of a list leaves it; nobody has a key to it, but may get one.
LEMMA TakeMemories ==
  ASSUME Memories, NEW l \in Level, NEW i, i = mem_roots[l], i # 0,
         UNCHANGED <<app, object, generation>>,
         slots_used' \in {slots_used, slots_used + 1},
         NEW vs, vs \cap Mine = {}, Mine' = Mine \cup vs, NEW b,
         \A w \in Mine : Held(w)' = Held(w),
         \A w \in vs : Held(w)' = Minted(i, b), \A w, x \in vs : w = x,
         mem_roots' = Pop(l), next' = [next EXCEPT ![i] = 0]
  PROVE  /\ Memories'
         /\ i \in Table \ {0} /\ object[i].kind = "memory" /\ InRam(i) /\ i < NextSlot
         /\ \A w \in Mine : Live(Held(w)) => Held(w).obj # i
<1>1. PICK rank : Ranked(rank) /\ Holdings(rank)
  BY DEF Memories
<1>2. Table' = Table
  BY DEF Table
<1>3. PICK T, n, n2, nxt, roots :
        T = Table /\ n = NextSlot /\ n2 = NextSlot' /\ nxt = next /\ roots = mem_roots
  OBVIOUS
<1>4. n \in Nat /\ n2 \in Nat /\ n <= n2 /\ slots_used' \in Nat
  <2>1. slots_used \in Nat /\ n \in Nat
    BY <1>3, TableIs
  <2>2. CASE slots_used' = slots_used
    BY <1>3, <2>1, <2>2, NextSlotIs
  <2>3. CASE slots_used' = slots_used + 1
    BY <1>3, <2>1, <2>3, NextSlotIs
  <2>. QED  BY <2>2, <2>3
<1>5. /\ nxt \in [T -> T] /\ roots \in [Level -> T] /\ generation \in [T -> Nat] /\ 0 \in T
      /\ \A j \in T : object[j].level \in Level
  BY <1>3, TableIs DEF Memories, Shape
<1>6. RankedOn(T, rank, object, nxt, roots)
  BY <1>1, <1>3 DEF Ranked
<1>7. /\ i \in T \ {0} /\ rank[i] > 0 /\ object[i].kind = "memory" /\ OnRam(object[i])
      /\ i = roots[l]
  <2>1. i \in T \ {0} /\ i = roots[l]
    BY <1>3, <1>5
  <2>2. rank[i] > 0
    BY <1>6, <2>1 DEF RankedOn
  <2>. QED  BY <1>6, <2>1, <2>2 DEF RankedOn
<1>8. InRam(i)
  BY <1>7 DEF InRam, OnRam
<1>9. \A j \in T : j \in Int /\ (j >= n => object[j].kind = "slot")
  BY <1>3 DEF Memories, Shape, Table
<1>10. i < n
  BY <1>4, <1>7, <1>9
<1>11. \A w \in Mine : Live(Held(w)) => Held(w).obj # i
  BY <1>1, <1>7 DEF Holdings, Holds
<1>12. mem_roots' = [roots EXCEPT ![l] = nxt[roots[l]]] /\ next' = [nxt EXCEPT ![roots[l]] = 0]
  BY <1>3, <1>7 DEF Pop
<1>13. next' \in [T -> T] /\ mem_roots' \in [Level -> T]
  <2>. HIDE DEF Level
  <2>1. l \in Level
    OBVIOUS
  <2>. QED  BY ONLY <1>5, <1>7, <1>12, <2>1
<1>14. Shape'
  <2>1. \A j \in T : j >= n2 => object[j].kind = "slot"
    BY <1>4, <1>9
  <2>. QED  BY <1>2, <1>3, <1>4, <1>13, <2>1 DEF Memories, Shape
<1>15. Placed'
  BY <1>2 DEF Memories, Placed, IsPlaced, InRam, End
<1>16. PICK rank2 : rank2 = [rank EXCEPT ![roots[l]] = 0]
  OBVIOUS
<1>17. RankedOn(T, rank2, object, next', mem_roots')
  <2>1. /\ nxt \in [T -> T] /\ roots \in [Level -> T] /\ 0 \in T /\ l \in Level
        /\ \A j \in T : object[j].level \in Level
        /\ roots[l] # 0
    BY <1>5, <1>7
  <2>2. RankedOn(T, [rank EXCEPT ![roots[l]] = 0], object, [nxt EXCEPT ![roots[l]] = 0],
                 [roots EXCEPT ![l] = nxt[roots[l]]])
    BY ONLY <1>6, <2>1, PopRanked
  <2>. QED  BY <1>12, <1>16, <2>2, Zenon
<1>18. Ranked(rank2)'
  BY <1>2, <1>3, <1>17 DEF Ranked
<1>19. rank2[i] = 0 /\ \A j \in T : rank[j] = 0 => rank2[j] = 0
  BY <1>6, <1>7, <1>16 DEF RankedOn
<1>20. ASSUME NEW w \in Mine  PROVE Holds(rank2, w)'
  <2>1. PICK k : k = Held(w) /\ k = Held(w)'
    OBVIOUS
  <2>2. Holds(rank, w)
    BY <1>1 DEF Holdings
  <2>3. k.obj \in T \ {0, Self} /\ k.obj < n
    BY <1>3, <2>1, <2>2 DEF Holds
  <2>4. k.obj < n2
    BY <1>4, <1>9, <2>3
  <2>. QED  BY <1>2, <1>3, <1>19, <2>1, <2>2, <2>3, <2>4 DEF Holds, Live, InRam
<1>21. ASSUME NEW w \in vs  PROVE Holds(rank2, w)' /\ Held(w)'.obj = i
  <2>1. PICK k : k = Held(w)'
    OBVIOUS
  <2>2. k.obj = i /\ k.gen = generation[i]
    BY <2>1 DEF Minted
  <2>3. i \in Table \ {0, Self} /\ i < n2 /\ generation[i] \in Nat
    <3>1. i # Self
      BY <1>7, TableIs
    <3>2. i < n2
      BY <1>4, <1>7, <1>9, <1>10
    <3>. QED  BY <1>3, <1>5, <1>7, <3>1, <3>2
  <2>4. generation[i] <= generation[i]
    BY <2>3
  <2>. QED  BY <1>2, <1>3, <1>8, <1>19, <2>1, <2>2, <2>3, <2>4 DEF Holds, InRam
<1>22. Holdings(rank2)'
  <2>1. ASSUME NEW w \in Mine', NEW x \in Mine'  PROVE Apart(w, x)'
    <3>1. CASE w \in Mine /\ x \in Mine
      <4>1. Apart(w, x) /\ Held(w)' = Held(w) /\ Held(x)' = Held(x)
        BY <1>1, <3>1 DEF Holdings
      <4>. QED  BY <4>1 DEF Apart, Live
    <3>2. CASE w \in vs /\ x \in vs
      BY <3>2 DEF Apart
    <3>3. CASE w \in vs /\ x \in Mine
      <4>1. Held(x)' = Held(x) /\ (Live(Held(x))' => Live(Held(x)))
        BY <3>3 DEF Live
      <4>. QED  BY <1>11, <1>21, <3>3, <4>1 DEF Apart
    <3>4. CASE w \in Mine /\ x \in vs
      <4>1. Held(w)' = Held(w) /\ (Live(Held(w))' => Live(Held(w)))
        BY <3>4 DEF Live
      <4>. QED  BY <1>11, <1>21, <3>4, <4>1 DEF Apart
    <3>. QED  BY <2>1, <3>1, <3>2, <3>3, <3>4
  <2>. QED  BY <1>20, <1>21, <2>1 DEF Holdings
<1>. QED  BY <1>3, <1>7, <1>8, <1>10, <1>11, <1>14, <1>15, <1>18, <1>22 DEF Memories

LEMMA KindIs ==
  \A kind \in Kind \ {"memory"} :
    kind \in TableKind /\ kind # "slot" /\ kind # "memory" /\ kind # "null"
BY DEF Kind, TableKind

\* become: the other keys to the object die, its place stays the same.
LEMMA BecomeMemories ==
  ASSUME Memories, NEW v \in Mine, NEW i, i = Target(Held(v)), Live(Held(v)),
         NEW kind \in Kind \ {"memory"}, object[i].kind = "memory",
         UNCHANGED <<app, next, mem_roots, slots_used>>, Mine' = Mine,
         object' = [object EXCEPT ![i].kind = kind],
         generation' = [generation EXCEPT ![i] = @ + 1],
         \A w \in Mine \ {v} : Held(w)' = Held(w),
         Held(v)' = [Held(v) EXCEPT !.gen = generation[i] + 1],
         Held(v) \in Key
  PROVE  /\ Memories'
         /\ Live(Held(v))' /\ Held(v)'.obj = i
         /\ object'[i].kind = kind
         /\ \A j \in Table \ {i} : object'[j] = object[j]
         /\ \A w \in Mine \ {v} : Live(Held(w))' <=> Live(Held(w))
         /\ \A w \in Mine \ {v} : Live(Held(w)) => Held(w).obj # i
<1>1. PICK rank : Ranked(rank) /\ Holdings(rank)
  BY DEF Memories
<1>2. Table' = Table /\ NextSlot' = NextSlot
  BY DEF Table, NextSlot
<1>3. PICK T, n, obj, gen : T = Table /\ n = NextSlot /\ obj = object /\ gen = generation
  OBVIOUS
<1>4. PICK k : k = Held(v) /\ k \in Key
  OBVIOUS
<1>5. i = k.obj /\ gen[i] = k.gen /\ i \in T \ {0, Self} /\ i < n
  BY <1>3, <1>4, TargetIs DEF Live
<1>6. /\ obj \in [T -> [kind : TableKind, base : Nat, level : Level]] /\ gen \in [T -> Nat]
      /\ \A j \in T : j >= n => obj[j].kind = "slot"
      /\ obj[0].kind = "null" /\ obj[Self].kind = "context"
  BY <1>3 DEF Memories, Shape
<1>7. kind \in TableKind /\ kind # "slot" /\ kind # "memory"
  BY KindIs
<1>8. PICK obj2, gen2 : obj2 = object' /\ gen2 = generation'
  OBVIOUS
<1>9. /\ obj2 = [obj EXCEPT ![i].kind = kind] /\ gen2 = [gen EXCEPT ![i] = gen[i] + 1]
  BY <1>3, <1>8
<1>10. /\ obj2 \in [T -> [kind : TableKind, base : Nat, level : Level]]
       /\ obj2[i].kind = kind /\ obj2[i].base = obj[i].base /\ obj2[i].level = obj[i].level
       /\ \A j \in T \ {i} : obj2[j] = obj[j]
  <2>. HIDE DEF Level, TableKind
  <2>. QED  BY ONLY <1>5, <1>6, <1>7, <1>9
<1>11. /\ gen2 \in [T -> Nat] /\ gen2[i] = gen[i] + 1
       /\ \A j \in T \ {i} : gen2[j] = gen[j]
  BY ONLY <1>5, <1>6, <1>9
<1>12. Shape'
  <2>1. /\ object' \in [T -> [kind : TableKind, base : Nat, level : Level]]
        /\ generation' \in [T -> Nat]
        /\ object'[0].kind = "null" /\ object'[Self].kind = "context"
        /\ \A j \in T : j >= n => object'[j].kind = "slot"
    <3>1. 0 \in T /\ Self \in T /\ n \in Nat /\ \A j \in T : j \in Int
      BY <1>3, TableIs DEF Table
    <3>2. \A j \in T : j >= n => j # i
      BY <1>5, <3>1
    <3>. QED  BY <1>5, <1>6, <1>8, <1>10, <1>11, <3>1, <3>2
  <2>2. app \in Application /\ next \in [T -> T] /\ mem_roots \in [Level -> T] /\ slots_used \in Nat
    BY <1>3 DEF Memories, Shape
  <2>. QED  BY <1>2, <1>3, <2>1, <2>2 DEF Shape
<1>13. \A j \in T : (InRam(j)' <=> InRam(j)) /\ (IsPlaced(j)' <=> IsPlaced(j)) /\ End(j)' = End(j)
  <2>. TAKE j \in T
  <2>1. object'[j].base = object[j].base /\ object'[j].level = object[j].level
          /\ (object'[j].kind = "slot" <=> object[j].kind = "slot")
    BY <1>3, <1>7, <1>8, <1>10
  <2>. QED  BY <2>1 DEF InRam, IsPlaced, End
<1>14. Placed'
  <2>1. \A j \in T : object'[j].base = object[j].base /\ object'[j].level = object[j].level
    BY <1>3, <1>8, <1>10
  <2>2. Placed
    BY DEF Memories
  <2>3. ASSUME NEW j \in T, IsPlaced(j)'
        PROVE  /\ object'[j].base % 32 = 0 /\ object'[j].level >= MinLevel
               /\ End(j)' <= Ram.base + Bytes(Ram.level)
    BY <1>3, <1>13, <2>1, <2>2, <2>3 DEF Placed
  <2>4. ASSUME NEW j \in T, NEW m \in T, IsPlaced(j)', IsPlaced(m)', j # m
        PROVE  End(j)' <= object'[m].base \/ End(m)' <= object'[j].base
    BY <1>3, <1>13, <2>1, <2>2, <2>4 DEF Placed
  <2>. QED  BY <1>2, <1>3, <2>3, <2>4 DEF Placed, Ram
<1>15. Ranked(rank)'
  <2>1. rank[i] = 0
    BY <1>1, <1>3, <1>4, <1>5 DEF Holdings, Holds
  <2>2. RankedOn(T, rank, object, next, mem_roots)
    BY <1>1, <1>3 DEF Ranked
  <2>3. (\A l \in Level : mem_roots[l] \in T) /\ \A j \in T : next[j] \in T
    BY <1>3, TableIs
  <2>4. \A j \in T : rank[j] > 0 => obj2[j] = object[j]
    BY <1>3, <1>10, <2>1
  <2>5. RankedOn(T, rank, obj2, next, mem_roots)
    BY ONLY <2>2, <2>3, <2>4, ObjectRanked
  <2>. QED  BY <1>2, <1>3, <1>8, <2>5 DEF Ranked
<1>16. /\ Held(v)' = [k EXCEPT !.gen = gen[i] + 1] /\ Held(v)'.obj = i /\ Held(v)'.gen = gen[i] + 1
  BY <1>3, <1>4, <1>5 DEF Key
<1>17. Live(Held(v))'
  BY <1>8, <1>11, <1>16 DEF Live
<1>18. Holds(rank, v)'
  <2>1. rank[i] = 0
    BY <1>1, <1>3, <1>4, <1>5 DEF Holdings, Holds
  <2>2. i \in Table' \ {0, Self} /\ i < NextSlot' /\ gen[i] + 1 \in Nat
          /\ gen[i] + 1 <= generation'[i]
    BY <1>2, <1>3, <1>5, <1>6, <1>8, <1>11
  <2>3. object'[i].kind # "memory"
    BY <1>7, <1>8, <1>10
  <2>. QED  BY <1>16, <2>1, <2>2, <2>3 DEF Holds
<1>19. \A w \in Mine \ {v} : Live(Held(w)) => Held(w).obj # i
  <2>. TAKE w \in Mine \ {v}
  <2>1. Apart(w, v)
    BY <1>1 DEF Holdings
  <2>. QED  BY <1>4, <1>5, <2>1 DEF Apart
<1>20. ASSUME NEW w \in Mine \ {v}
       PROVE  (Live(Held(w))' <=> Live(Held(w))) /\ Holds(rank, w)'
  <2>1. PICK q : q = Held(w) /\ q = Held(w)'
    OBVIOUS
  <2>2. Holds(rank, w)
    BY <1>1 DEF Holdings
  <2>3. q.obj \in T \ {0, Self} /\ q.obj < n /\ q.gen \in Nat /\ q.gen <= gen[q.obj]
    BY <1>3, <2>1, <2>2 DEF Holds
  <2>4. q.gen <= gen2[q.obj] /\ (gen2[q.obj] = q.gen <=> gen[q.obj] = q.gen)
    <3>1. CASE q.obj = i
      <4>1. gen[i] # q.gen
        BY <1>3, <1>19, <2>1, <3>1 DEF Live
      <4>. QED  BY <1>5, <1>6, <1>11, <2>3, <3>1, <4>1
    <3>2. CASE q.obj # i
      BY <1>11, <2>3, <3>2
    <3>. QED  BY <3>1, <3>2
  <2>5. Live(Held(w))' <=> Live(Held(w))
    BY <1>3, <1>8, <2>1, <2>4 DEF Live
  <2>6. ASSUME Live(Held(w))
        PROVE  /\ rank[q.obj] = 0
               /\ w # "k_img" /\ object'[q.obj].kind = "memory" => InRam(q.obj)'
    <3>1. q.obj # i
      BY <1>19, <2>1, <2>6
    <3>2. object'[q.obj] = object[q.obj]
      BY <1>3, <1>8, <1>10, <2>3, <3>1
    <3>3. InRam(q.obj)' <=> InRam(q.obj)
      BY <1>13, <2>3
    <3>4. /\ rank[q.obj] = 0
          /\ w # "k_img" /\ object[q.obj].kind = "memory" => InRam(q.obj)
      BY <2>1, <2>2, <2>6 DEF Holds
    <3>. QED  BY <3>2, <3>3, <3>4
  <2>7. q.obj \in Table' \ {0, Self} /\ q.obj < NextSlot' /\ q.gen <= generation'[q.obj]
          /\ q = Held(w)'
    BY <1>2, <1>3, <1>8, <2>1, <2>3, <2>4
  <2>8. Holds(rank, w)'
    BY ONLY <2>3, <2>5, <2>6, <2>7 DEF Holds
  <2>. QED  BY <2>5, <2>8
<1>21. Holdings(rank)'
  <2>1. ASSUME NEW w \in Mine, NEW x \in Mine  PROVE Apart(w, x)'
    <3>1. CASE w # v /\ x # v
      <4>1. Apart(w, x)
        BY <1>1 DEF Holdings
      <4>. QED  BY <1>20, <3>1, <4>1 DEF Apart
    <3>2. CASE w = v /\ x # v
      <4>1. Live(Held(x))' => Held(x)'.obj # i
        BY <1>19, <1>20, <3>2
      <4>. QED  BY <1>16, <3>2, <4>1 DEF Apart
    <3>3. CASE w # v /\ x = v
      <4>1. Live(Held(w))' => Held(w)'.obj # i
        BY <1>19, <1>20, <3>3
      <4>. QED  BY <1>16, <3>3, <4>1 DEF Apart
    <3>4. CASE w = v /\ x = v
      BY <3>4 DEF Apart
    <3>. QED  BY <3>1, <3>2, <3>3, <3>4
  <2>2. \A w \in Mine : Holds(rank, w)'
    BY <1>18, <1>20
  <2>. QED  BY <2>1, <2>2 DEF Holdings
<1>22. object'[i].kind = kind /\ \A j \in Table \ {i} : object'[j] = object[j]
  BY <1>3, <1>8, <1>10
<1>. QED  BY <1>12, <1>14, <1>15, <1>16, <1>17, <1>19, <1>20, <1>21, <1>22 DEF Memories

LEMMA RamIs == Ram.base \in Nat \ {0} /\ Ram.level \in Level /\ Bytes(Ram.level) \in Nat
<1>1. PICK m, M : m = MapCount /\ M = MemoryMap
  OBVIOUS
<1>2. M \in Seq([base : Nat, level : Level]) /\ m = Len(M) /\ m \in Nat
  BY <1>1, SysAssumption DEF MapCount
<1>3. PICK j : j = AppRam - WellKnown + 1
  OBVIOUS
<1>4. j \in 1 .. m
  BY <1>1, <1>2, <1>3, SysAssumption DEF WellKnown
<1>5. M[j] \in [base : Nat, level : Level]
  <2>1. PICK S : S = [base : Nat, level : Level]
    OBVIOUS
  <2>2. M \in Seq(S) /\ j \in 1 .. Len(M)
    BY <1>2, <1>4, <2>1
  <2>3. M[j] \in S
    BY ONLY <2>2
  <2>. QED  BY <2>1, <2>3
<1>6. Ram.base \in Nat /\ Ram.level \in Level
  BY <1>1, <1>3, <1>5 DEF Ram
<1>7. Ram.base > 0
  BY ScopesAssumption
<1>. QED  BY <1>6, <1>7, PowersAssumption

\* A Memory is some whole units.
LEMMA BytesAre ==
  ASSUME NEW l \in Level, l >= MinLevel
  PROVE  \E n \in Nat \ {0} : Bytes(l) = 32 * n
<1>. DEFINE Bad == {m \in Nat : m \in Level /\ m >= MinLevel
                               /\ ~ \E n \in Nat \ {0} : Bytes(m) = 32 * n}
<1>1. SUFFICES ASSUME Bad # {}  PROVE FALSE
  <2>1. l \in Nat
    BY DEF Level
  <2>. QED  BY <2>1
<1>2. PICK m \in Bad : \A n \in Bad : m <= n
  <2>1. Bad \in SUBSET Nat
    OBVIOUS
  <2>. HIDE DEF Bad
  <2>. QED  BY <1>1, <2>1, PickLeast
<1>3. m \in Nat /\ m \in Level /\ m >= 4
  BY <1>2 DEF MinLevel
<1>4. MaxLevel \in Nat /\ m <= MaxLevel
  BY <1>3, SysAssumption DEF Level
<1>5. 4 \in Level
  BY <1>3, <1>4 DEF Level
<1>. HIDE DEF Level, Bytes
<1>6. m # 4
  <2>1. Bytes(4) = 32
    BY <1>5, PowersAssumption DEF MinLevel
  <2>2. 32 = 32 * 1 /\ 1 \in Nat \ {0}
    OBVIOUS
  <2>3. ASSUME m = 4  PROVE FALSE
    BY <1>2, <2>1, <2>2, <2>3
  <2>. QED  BY <2>3
<1>7. m - 1 \in Nat /\ m - 1 \in Level /\ m - 1 >= MinLevel
  BY <1>3, <1>4, <1>6 DEF Level, MinLevel
<1>8. PICK n \in Nat \ {0} : Bytes(m - 1) = 32 * n
  <2>1. m - 1 \notin Bad
    <3>1. ASSUME m - 1 \in Bad  PROVE FALSE
      <4>1. m <= m - 1
        BY <1>2, <3>1
      <4>. QED  BY <1>3, <4>1
    <3>. QED  BY <3>1
  <2>. QED  BY <1>7, <2>1
<1>9. Bytes(m) = 2 * Bytes(m - 1)
  BY <1>3, PowersAssumption
<1>10. 2 * (32 * n) = 32 * (2 * n) /\ 2 * n \in Nat \ {0}
  OBVIOUS
<1>11. Bytes(m) = 32 * (2 * n)
  BY <1>8, <1>9, <1>10
<1>. QED  BY <1>2, <1>10, <1>11

\* isolate's object is an entry nobody has had, and lies outside of the RAM.
LEMMA IsolateMemories ==
  ASSUME Memories, UNCHANGED <<app, next, mem_roots>>, slots_used' = slots_used + 1,
         SlotAt(NextSlot), NEW base \in Nat, NEW level \in Level, Outside(base),
         object' = [object EXCEPT ![NextSlot] = Memory(base, level)],
         generation' = [generation EXCEPT ![NextSlot] = @ + 1],
         NEW v, v = "k_img", v \notin Mine, Mine' = Mine \cup {v},
         Held(v)'.obj = NextSlot, Held(v)'.gen = generation[NextSlot] + 1,
         \A w \in Mine : Held(w)' = Held(w)
  PROVE  /\ Memories'
         /\ \A i \in Table \ {NextSlot} : object'[i] = object[i]
         /\ \A w \in Mine : Live(Held(w))' <=> Live(Held(w))
<1>1. PICK rank : Ranked(rank) /\ Holdings(rank)
  BY DEF Memories
<1>2. Table' = Table
  BY DEF Table
<1>3. PICK T, n, obj, gen : T = Table /\ n = NextSlot /\ obj = object /\ gen = generation
  OBVIOUS
<1>4. /\ n \in Nat /\ n >= 5 /\ NextSlot' = n + 1 /\ slots_used' \in Nat
      /\ 0 \in T /\ Self \in T /\ Self = 2 /\ \A j \in T : j \in Int
  <2>1. /\ slots_used \in Nat /\ n \in Nat /\ 5 <= n /\ 0 \in T /\ Self \in T
    BY <1>3, TableIs
  <2>. QED  BY <1>3, <2>1, NextSlotIs DEF Self, Table
<1>5. n \in T /\ obj[n].kind = "slot"
  BY <1>3, TableIs DEF SlotAt
<1>6. /\ obj \in [T -> [kind : TableKind, base : Nat, level : Level]] /\ gen \in [T -> Nat]
      /\ \A j \in T : j >= n => obj[j].kind = "slot"
      /\ obj[0].kind = "null" /\ obj[Self].kind = "context"
  BY <1>3 DEF Memories, Shape
<1>7. PICK obj2, gen2, new : obj2 = object' /\ gen2 = generation' /\ new = Memory(base, level)
  OBVIOUS
<1>8. /\ new \in [kind : TableKind, base : Nat, level : Level]
      /\ new.kind = "memory" /\ new.base = base /\ new.level = level
  <2>1. "memory" \in TableKind
    BY DEF TableKind, Kind
  <2>. HIDE DEF Level, TableKind
  <2>. QED  BY <1>7, <2>1 DEF Memory
<1>9. /\ obj2 = [obj EXCEPT ![n] = new] /\ gen2 = [gen EXCEPT ![n] = gen[n] + 1]
  BY <1>3, <1>7
<1>10. /\ obj2 \in [T -> [kind : TableKind, base : Nat, level : Level]]
       /\ obj2[n] = new /\ \A j \in T \ {n} : obj2[j] = obj[j]
  <2>. HIDE DEF Level, TableKind
  <2>. QED  BY ONLY <1>5, <1>6, <1>8, <1>9
<1>11. /\ gen2 \in [T -> Nat] /\ gen2[n] = gen[n] + 1
       /\ \A j \in T \ {n} : gen2[j] = gen[j]
  BY ONLY <1>5, <1>6, <1>9
<1>12. Shape'
  <2>1. /\ object'[0].kind = "null" /\ object'[Self].kind = "context"
        /\ \A j \in T : j >= n + 1 => object'[j].kind = "slot"
    <3>1. \A j \in T : j >= n + 1 => j # n /\ j >= n
      BY <1>4
    <3>2. 0 # n /\ Self # n
      BY <1>4
    <3>. QED  BY <1>4, <1>6, <1>7, <1>10, <3>1, <3>2
  <2>2. app \in Application /\ next \in [T -> T] /\ mem_roots \in [Level -> T]
    BY <1>3 DEF Memories, Shape
  <2>. QED  BY <1>2, <1>3, <1>4, <1>7, <1>10, <1>11, <2>1, <2>2 DEF Shape
<1>13. \A j \in T \ {n} : (IsPlaced(j)' <=> IsPlaced(j)) /\ End(j)' = End(j)
                          /\ (InRam(j)' <=> InRam(j)) /\ object'[j] = object[j]
  <2>. TAKE j \in T \ {n}
  <2>1. object'[j] = object[j]
    BY <1>3, <1>7, <1>10
  <2>. QED  BY <2>1 DEF InRam, IsPlaced, End
<1>14. ~ InRam(n)' /\ ~ IsPlaced(n)'
  <2>1. object'[n].base = base
    BY <1>7, <1>8, <1>10
  <2>2. Ram.base \in Nat /\ Bytes(Ram.level) \in Nat
    BY RamIs
  <2>3. ~ InRam(n)'
    BY <2>1, <2>2 DEF InRam, Outside, Ram
  <2>. QED  BY <2>3 DEF IsPlaced
<1>15. Placed'
  <2>1. Placed
    BY DEF Memories
  <2>2. ASSUME NEW j \in T, IsPlaced(j)'
        PROVE  /\ j # n /\ object'[j].base % 32 = 0 /\ object'[j].level >= MinLevel
               /\ End(j)' <= Ram.base + Bytes(Ram.level)
    BY <1>3, <1>13, <1>14, <2>1, <2>2 DEF Placed
  <2>3. ASSUME NEW j \in T, NEW m \in T, IsPlaced(j)', IsPlaced(m)', j # m
        PROVE  End(j)' <= object'[m].base \/ End(m)' <= object'[j].base
    <3>1. j # n /\ m # n
      BY <2>2, <2>3
    <3>. QED  BY <1>3, <1>13, <2>1, <2>3, <3>1 DEF Placed
  <2>. QED  BY <1>2, <1>3, <2>2, <2>3 DEF Placed, Ram
<1>16. rank[n] = 0
  <2>1. ~ rank[n] > 0 /\ rank[n] \in Nat
    BY <1>1, <1>3, <1>5 DEF Ranked, RankedOn
  <2>. QED  BY <2>1
<1>17. Ranked(rank)'
  <2>1. RankedOn(T, rank, object, next, mem_roots)
    BY <1>1, <1>3 DEF Ranked
  <2>2. (\A l \in Level : mem_roots[l] \in T) /\ \A j \in T : next[j] \in T
    BY <1>3, TableIs
  <2>3. \A j \in T : rank[j] > 0 => obj2[j] = object[j]
    BY <1>3, <1>10, <1>16
  <2>4. RankedOn(T, rank, obj2, next, mem_roots)
    BY ONLY <2>1, <2>2, <2>3, ObjectRanked
  <2>. QED  BY <1>2, <1>3, <1>7, <2>4 DEF Ranked
<1>18. ASSUME NEW w \in Mine
       PROVE  (Live(Held(w))' <=> Live(Held(w))) /\ Holds(rank, w)' /\ Held(w)'.obj # n
  <2>1. PICK q : q = Held(w) /\ q = Held(w)'
    OBVIOUS
  <2>2. Holds(rank, w)
    BY <1>1 DEF Holdings
  <2>3. q.obj \in T \ {0, Self} /\ q.obj < n /\ q.gen \in Nat /\ q.gen <= gen[q.obj]
    BY <1>3, <2>1, <2>2 DEF Holds
  <2>4. q.obj # n /\ q.obj < n + 1
    <3>1. PICK o : o = q.obj
      OBVIOUS
    <3>2. o \in Int /\ n \in Nat /\ o < n
      BY <1>4, <2>3, <3>1
    <3>3. o # n /\ o < n + 1
      BY ONLY <3>2
    <3>. QED  BY <3>1, <3>3
  <2>5. gen2[q.obj] = gen[q.obj]
    BY <1>11, <2>3, <2>4
  <2>6. Live(Held(w))' <=> Live(Held(w))
    BY <1>3, <1>7, <2>1, <2>5 DEF Live
  <2>7. ASSUME Live(Held(w))
        PROVE  /\ rank[q.obj] = 0
               /\ w # "k_img" /\ object'[q.obj].kind = "memory" => InRam(q.obj)'
    <3>1. /\ rank[q.obj] = 0
          /\ w # "k_img" /\ object[q.obj].kind = "memory" => InRam(q.obj)
      BY <2>1, <2>2, <2>7 DEF Holds
    <3>. QED  BY <1>13, <2>3, <2>4, <3>1
  <2>8. q.obj \in Table' \ {0, Self} /\ q.obj < NextSlot' /\ q.gen <= generation'[q.obj]
          /\ q = Held(w)'
    BY <1>2, <1>3, <1>4, <1>7, <2>1, <2>3, <2>4, <2>5
  <2>9. Holds(rank, w)'
    BY ONLY <2>3, <2>6, <2>7, <2>8 DEF Holds
  <2>. QED  BY <2>1, <2>4, <2>6, <2>9
<1>19. Holds(rank, v)' /\ Held(v)'.obj = n
  <2>1. PICK q : q = Held(v)'
    OBVIOUS
  <2>2. q.obj = n /\ q.gen = gen[n] + 1
    BY <1>3, <2>1
  <2>3. n \in Table' \ {0, Self} /\ n < NextSlot' /\ q.gen \in Nat /\ q.gen <= generation'[n]
    BY <1>2, <1>3, <1>4, <1>5, <1>6, <1>7, <1>11, <2>2
  <2>. QED  BY <1>16, <2>1, <2>2, <2>3 DEF Holds
<1>20. Holdings(rank)'
  <2>1. ASSUME NEW w \in Mine', NEW x \in Mine'  PROVE Apart(w, x)'
    <3>1. CASE w # v /\ x # v
      <4>1. Apart(w, x)
        BY <1>1, <3>1 DEF Holdings
      <4>. QED  BY <1>18, <3>1, <4>1 DEF Apart
    <3>2. CASE w = v /\ x # v
      BY <1>18, <1>19, <3>2 DEF Apart
    <3>3. CASE w # v /\ x = v
      BY <1>18, <1>19, <3>3 DEF Apart
    <3>4. CASE w = v /\ x = v
      BY <3>4 DEF Apart
    <3>. QED  BY <3>1, <3>2, <3>3, <3>4
  <2>. QED  BY <1>18, <1>19, <2>1 DEF Holdings
<1>. QED  BY <1>3, <1>12, <1>13, <1>15, <1>17, <1>18, <1>20 DEF Memories

\* A block's halves have its place.
LEMMA SplitPlaced ==
  ASSUME Memories, NEW l \in Level, l > MinLevel, NEW bot \in Table, NEW top \in Table \ {bot},
         object[bot].kind = "memory", object[bot].level = l, InRam(bot),
         object[top].kind = "slot", app' = app,
         \A i \in Table \ {bot, top} : object'[i] = object[i],
         object'[bot].kind = "memory", object'[bot].level = l - 1,
         object'[bot].base = object[bot].base,
         object'[top] = Memory(object[bot].base + Bytes(l - 1), l - 1)
  PROVE  /\ Placed'
         /\ InRam(bot)' /\ InRam(top)'
<1>1. PICK T : T = Table /\ T = Table'
  BY DEF Table
<1>2. PICK b, h, R, E : /\ b = object[bot].base /\ h = Bytes(l - 1)
                        /\ R = Ram.base /\ E = Ram.base + Bytes(Ram.level)
  OBVIOUS
<1>3. l - 1 \in Level /\ l - 1 >= MinLevel /\ l > 0 /\ l \in Nat
  BY SysAssumption DEF Level, MinLevel
<1>4. /\ b \in Nat /\ R \in Nat /\ E \in Nat /\ h \in Nat /\ Bytes(l) = 2 * h
  BY <1>1, <1>2, <1>3, RamIs, TableIs, PowersAssumption
<1>5. PICK n \in Nat \ {0} : h = 32 * n
  BY <1>2, <1>3, BytesAre
<1>6. Placed
  BY DEF Memories
<1>7. IsPlaced(bot)
  BY DEF IsPlaced
<1>8. End(bot) = b + 2 * h
  BY <1>2, <1>4 DEF End
<1>9. b % 32 = 0 /\ b + 2 * h <= E /\ R <= b
  <2>1. b % 32 = 0 /\ b + 2 * h <= E
    BY <1>2, <1>6, <1>7, <1>8 DEF Placed
  <2>2. R <= b
    BY <1>2 DEF InRam
  <2>. QED  BY <2>1, <2>2
<1>10. /\ object'[top].kind = "memory" /\ object'[top].base = b + h
       /\ object'[top].level = l - 1 /\ object'[bot].base = b
  BY <1>2 DEF Memory
<1>11. End(bot)' = b + h /\ End(top)' = b + 2 * h
  <2>1. End(bot)' = b + h
    BY <1>2, <1>10 DEF End
  <2>2. End(top)' = (b + h) + h
    BY <1>2, <1>10 DEF End
  <2>. QED  BY <1>4, <2>1, <2>2
<1>12. h > 0 /\ (b + h) % 32 = 0
  BY <1>4, <1>5, <1>9
<1>13. InRam(bot)' /\ InRam(top)'
  <2>1. b >= R /\ b < E /\ b + h >= R /\ b + h < E
    BY <1>4, <1>9, <1>12
  <2>. QED  BY <1>2, <1>10, <2>1 DEF InRam, Ram
<1>14. \A i \in T \ {bot, top} : (IsPlaced(i)' <=> IsPlaced(i)) /\ End(i)' = End(i)
  <2>. TAKE i \in T \ {bot, top}
  <2>1. object'[i] = object[i]
    BY <1>1
  <2>. QED  BY <2>1 DEF IsPlaced, InRam, End
<1>15. ASSUME NEW i \in T, IsPlaced(i)'
       PROVE  /\ object'[i].base % 32 = 0 /\ object'[i].level >= MinLevel
              /\ End(i)' <= E
  <2>1. CASE i = bot
    BY <1>3, <1>4, <1>9, <1>10, <1>11, <1>12, <2>1
  <2>2. CASE i = top
    BY <1>3, <1>4, <1>9, <1>10, <1>11, <1>12, <2>2
  <2>3. CASE i \notin {bot, top}
    BY <1>1, <1>2, <1>6, <1>14, <1>15, <2>3 DEF Placed
  <2>. QED  BY <2>1, <2>2, <2>3
<1>16. ASSUME NEW i \in T, i \notin {bot, top}, IsPlaced(i)'
       PROVE  End(i)' <= b \/ b + 2 * h <= object'[i].base
  <2>1. IsPlaced(i)
    BY <1>14, <1>16
  <2>2. End(i) <= b \/ b + 2 * h <= object[i].base
    BY <1>1, <1>2, <1>6, <1>7, <1>8, <1>16, <2>1 DEF Placed
  <2>. QED  BY <1>1, <1>14, <1>16, <2>2
<1>17. \A i \in T : IsPlaced(i)' => object'[i].base \in Nat /\ End(i)' \in Int
  <2>. TAKE i \in T
  <2>1. HAVE IsPlaced(i)'
  <2>2. CASE i \in {bot, top}
    BY <1>4, <1>10, <1>11, <2>2
  <2>3. CASE i \notin {bot, top}
    <3>1. object'[i] = object[i] /\ object[i].base \in Nat /\ object[i].level \in Level
      BY <1>1, <2>3, TableIs
    <3>2. Bytes(object[i].level) \in Nat
      BY <3>1, PowersAssumption
    <3>3. End(i) \in Int
      BY <3>1, <3>2 DEF End
    <3>. QED  BY <1>14, <2>3, <3>1, <3>3
  <2>. QED  BY <2>2, <2>3
<1>18. ASSUME NEW i \in T, i \notin {bot, top}, IsPlaced(i)'
       PROVE  /\ End(i)' <= object'[bot].base \/ End(bot)' <= object'[i].base
              /\ End(i)' <= object'[top].base \/ End(top)' <= object'[i].base
  <2>1. object'[i].base \in Nat /\ End(i)' \in Int
    BY <1>17, <1>18
  <2>2. PICK e, o : e = End(i)' /\ o = object'[i].base
    OBVIOUS
  <2>3. e \in Int /\ o \in Int /\ (e <= b \/ b + 2 * h <= o)
    BY <1>16, <1>18, <2>1, <2>2
  <2>4. (e <= b \/ b + h <= o) /\ (e <= b + h \/ b + 2 * h <= o)
    BY <1>4, <2>3
  <2>. QED  BY <1>10, <1>11, <2>2, <2>4
<1>19. End(bot)' <= object'[top].base
  BY <1>4, <1>10, <1>11
<1>20. ASSUME NEW i \in T, NEW j \in T, IsPlaced(i)', IsPlaced(j)', i # j
       PROVE  End(i)' <= object'[j].base \/ End(j)' <= object'[i].base
  <2>1. CASE i \in {bot, top} /\ j \in {bot, top}
    BY <1>19, <1>20, <2>1
  <2>2. CASE i \notin {bot, top} /\ j \in {bot, top}
    BY <1>18, <1>20, <2>2
  <2>3. CASE i \in {bot, top} /\ j \notin {bot, top}
    BY <1>18, <1>20, <2>3
  <2>4. CASE i \notin {bot, top} /\ j \notin {bot, top}
    BY <1>1, <1>6, <1>14, <1>20, <2>4 DEF Placed
  <2>. QED  BY <2>1, <2>2, <2>3, <2>4
<1>21. Placed'
  BY <1>1, <1>2, <1>15, <1>20 DEF Placed, Ram
<1>. QED  BY <1>13, <1>21

\* A split: the head of a list leaves it, and its halves join the next smaller one.
LEMMA SplitMemories ==
  ASSUME Memories, NEW l \in Level, l > MinLevel, NEW bot, bot = mem_roots[l], bot # 0,
         NEW top, top = NextSlot, SlotAt(top),
         app' = app, slots_used' = slots_used + 1,
         object' = [object EXCEPT ![bot].level = l - 1,
                                  ![top] = Memory(object[bot].base + Bytes(l - 1), l - 1)],
         generation' = [generation EXCEPT ![bot] = @ + 1, ![top] = @ + 1],
         next' = Pushed(bot, top, l - 1),
         mem_roots' = [Pop(l) EXCEPT ![l - 1] = bot],
         Mine' = Mine, \A w \in Mine : Held(w)' = Held(w)
  PROVE  /\ Memories'
         /\ \A i \in Table \ {bot, top} : object'[i] = object[i]
         /\ \A w \in Mine : Live(Held(w))' <=> Live(Held(w))
         /\ object[bot].kind = "memory" /\ object[top].kind = "slot"
         /\ bot \in Table /\ mem_roots'[l - 1] # 0
<1>1. PICK rank : Ranked(rank) /\ Holdings(rank)
  BY DEF Memories
<1>2. Table' = Table
  BY DEF Table
<1>3. PICK T, n, obj, gen, nxt, roots, m :
        /\ T = Table /\ n = NextSlot /\ obj = object /\ gen = generation
        /\ nxt = next /\ roots = mem_roots /\ m = l - 1
  OBVIOUS
<1>4. /\ n \in Nat /\ n >= 5 /\ NextSlot' = n + 1 /\ slots_used' \in Nat
      /\ 0 \in T /\ Self \in T /\ Self = 2 /\ \A j \in T : j \in Int
  <2>1. /\ slots_used \in Nat /\ n \in Nat /\ 5 <= n /\ 0 \in T /\ Self \in T
    BY <1>3, TableIs
  <2>. QED  BY <1>3, <2>1, NextSlotIs DEF Self, Table
<1>5. top = n /\ n \in T /\ obj[n].kind = "slot"
  BY <1>3, TableIs DEF SlotAt
<1>6. /\ obj \in [T -> [kind : TableKind, base : Nat, level : Level]] /\ gen \in [T -> Nat]
      /\ \A j \in T : j >= n => obj[j].kind = "slot"
      /\ obj[0].kind = "null" /\ obj[Self].kind = "context"
      /\ nxt \in [T -> T] /\ roots \in [Level -> T]
  BY <1>3 DEF Memories, Shape
<1>7. RankedOn(T, rank, obj, nxt, roots)
  BY <1>1, <1>3 DEF Ranked
<1>8. bot \in T \ {0} /\ rank[bot] > 0 /\ obj[bot].kind = "memory" /\ OnRam(obj[bot])
        /\ obj[bot].level = l /\ roots[l] = bot
  <2>1. bot \in T \ {0} /\ bot = roots[l] /\ rank[bot] > 0 /\ obj[bot].level = l
    BY <1>3, <1>6, <1>7 DEF RankedOn
  <2>. QED  BY <1>7, <2>1 DEF RankedOn
<1>9. bot # n /\ bot < n /\ bot # Self /\ rank[n] = 0
  <2>1. bot # n /\ bot # Self /\ ~ bot >= n
    BY <1>5, <1>6, <1>8
  <2>2. ~ rank[n] > 0 /\ rank[n] \in Nat
    BY <1>5, <1>7 DEF RankedOn
  <2>. QED  BY <1>4, <1>8, <2>1, <2>2
<1>10. m \in Level /\ m # l /\ l \in Nat /\ m + 1 = l
  <2>1. l \in 0 .. MaxLevel /\ l > 4 /\ MaxLevel \in Nat /\ m = l - 1
    BY <1>3, SysAssumption DEF Level, MinLevel
  <2>2. m \in 0 .. MaxLevel /\ m # l /\ l \in Nat /\ m + 1 = l
    BY ONLY <2>1
  <2>. QED  BY <2>2 DEF Level
<1>11. PICK obj2, gen2, lower, upper :
         /\ obj2 = object' /\ gen2 = generation'
         /\ lower = [obj[bot] EXCEPT !.level = m] /\ upper = Memory(obj[bot].base + Bytes(m), m)
  OBVIOUS
<1>12. Bytes(m) \in Nat /\ obj[bot].base \in Nat
  BY <1>3, <1>8, <1>10, PowersAssumption, TableIs
<1>13. /\ upper \in [kind : TableKind, base : Nat, level : Level] /\ upper.kind = "memory"
       /\ upper.level = m
  <2>1. "memory" \in TableKind /\ obj[bot].base + Bytes(m) \in Nat
    BY <1>12 DEF TableKind, Kind
  <2>. HIDE DEF Level, TableKind, Bytes
  <2>. QED  BY <1>10, <1>11, <2>1 DEF Memory
<1>14. /\ lower \in [kind : TableKind, base : Nat, level : Level] /\ lower.kind = "memory"
       /\ lower.level = m /\ lower.base = obj[bot].base
  <2>1. obj[bot] \in [kind : TableKind, base : Nat, level : Level] /\ m \in Level
          /\ obj[bot].kind = "memory" /\ lower = [obj[bot] EXCEPT !.level = m]
    BY <1>6, <1>8, <1>10, <1>11
  <2>. HIDE DEF Level, TableKind
  <2>. QED  BY ONLY <2>1
<1>15. obj2 = [obj EXCEPT ![bot] = lower, ![n] = upper]
         /\ gen2 = [gen EXCEPT ![bot] = gen[bot] + 1, ![n] = gen[n] + 1]
  <2>1. object' = [obj EXCEPT ![bot].level = m, ![n] = upper]
    BY <1>3, <1>5, <1>11
  <2>2. generation' = [gen EXCEPT ![bot] = gen[bot] + 1, ![n] = gen[n] + 1]
    BY <1>3, <1>5, <1>9
  <2>3. [obj EXCEPT ![bot].level = m, ![n] = upper] = [obj EXCEPT ![bot] = lower, ![n] = upper]
    BY ONLY <1>11
  <2>. QED  BY <1>11, <2>1, <2>2, <2>3
<1>16. /\ obj2 \in [T -> [kind : TableKind, base : Nat, level : Level]]
       /\ obj2[bot] = lower /\ obj2[n] = upper
       /\ \A j \in T \ {bot, n} : obj2[j] = obj[j]
  <2>. HIDE DEF Level, TableKind
  <2>1. bot \in T /\ n \in T /\ bot # n
    BY <1>5, <1>8, <1>9
  <2>. QED  BY ONLY <1>6, <1>13, <1>14, <1>15, <2>1
<1>17. /\ gen2 \in [T -> Nat] /\ gen2[bot] = gen[bot] + 1 /\ gen2[n] = gen[n] + 1
       /\ \A j \in T \ {bot, n} : gen2[j] = gen[j]
  <2>1. bot \in T /\ n \in T /\ bot # n
    BY <1>5, <1>8, <1>9
  <2>2. gen[bot] + 1 \in Nat /\ gen[n] + 1 \in Nat
    BY <1>6, <2>1
  <2>3. gen \in [T -> Nat] /\ gen2 = [gen EXCEPT ![bot] = gen[bot] + 1, ![n] = gen[n] + 1]
    BY <1>6, <1>15
  <2>. QED  BY ONLY <2>1, <2>2, <2>3, UpdateTwo, Zenon
<1>18. PICK nxt1, roots1, rank1 :
         /\ nxt1 = [nxt EXCEPT ![bot] = 0] /\ roots1 = [roots EXCEPT ![l] = nxt[bot]]
         /\ rank1 = [rank EXCEPT ![bot] = 0]
  OBVIOUS
<1>19. /\ RankedOn(T, rank1, obj, nxt1, roots1)
       /\ nxt1 \in [T -> T] /\ roots1 \in [Level -> T] /\ rank1 \in [T -> Nat]
       /\ rank1[bot] = 0 /\ rank1[n] = 0 /\ roots1[m] = roots[m]
  <2>1. /\ nxt \in [T -> T] /\ roots \in [Level -> T] /\ 0 \in T /\ l \in Level
        /\ \A j \in T : obj[j].level \in Level
        /\ roots[l] # 0
    BY <1>3, <1>4, <1>6, <1>8, TableIs
  <2>2. RankedOn(T, [rank EXCEPT ![roots[l]] = 0], obj, [nxt EXCEPT ![roots[l]] = 0],
                 [roots EXCEPT ![l] = nxt[roots[l]]])
    BY ONLY <1>7, <2>1, PopRanked
  <2>3. RankedOn(T, rank1, obj, nxt1, roots1)
    BY <1>8, <1>18, <2>2
  <2>4. rank \in [T -> Nat] /\ rank1 \in [T -> Nat]
    BY <1>7, <2>3 DEF RankedOn
  <2>5. n \in T /\ bot \in T /\ bot # n /\ rank[n] = 0 /\ m \in Level /\ m # l
    BY <1>5, <1>8, <1>9, <1>10
  <2>6. /\ nxt1 \in [T -> T] /\ roots1 \in [Level -> T]
        /\ rank1[bot] = 0 /\ rank1[n] = 0 /\ roots1[m] = roots[m]
    <3>. HIDE DEF Level
    <3>. QED  BY ONLY <1>18, <2>1, <2>4, <2>5
  <2>. QED  BY <2>3, <2>4, <2>6
<1>20. RankedOn(T, rank1, obj2, nxt1, roots1)
  <2>1. (\A k \in Level : roots1[k] \in T) /\ \A j \in T : nxt1[j] \in T
    BY <1>19
  <2>2. \A j \in T : rank1[j] > 0 => obj2[j] = obj[j]
    <3>1. \A j \in T \ {bot, n} : obj2[j] = obj[j]
      BY <1>16
    <3>2. rank1[bot] = 0 /\ rank1[n] = 0
      BY <1>19
    <3>. QED  BY ONLY <3>1, <3>2
  <2>3. RankedOn(T, rank1, obj, nxt1, roots1)
    BY <1>19
  <2>. QED  BY ONLY <2>1, <2>2, <2>3, ObjectRanked
<1>21. Placed' /\ OnRam(obj2[bot]) /\ OnRam(obj2[n])
  <2>1. InRam(bot) /\ object[bot].kind = "memory" /\ object[bot].level = l
          /\ object[top].kind = "slot" /\ bot \in Table /\ top \in Table \ {bot}
    BY <1>3, <1>5, <1>8, <1>9 DEF InRam, OnRam
  <2>2. /\ \A i \in Table \ {bot, top} : object'[i] = object[i]
        /\ object'[bot].kind = "memory" /\ object'[bot].level = l - 1
        /\ object'[bot].base = object[bot].base
        /\ object'[top] = Memory(object[bot].base + Bytes(l - 1), l - 1)
    BY <1>3, <1>5, <1>11, <1>14, <1>16
  <2>3. Placed' /\ InRam(bot)' /\ InRam(top)'
    BY <2>1, <2>2, SplitPlaced
  <2>. QED  BY <1>5, <1>11, <2>3 DEF InRam, OnRam, Ram
<1>22. PICK nxt2, roots2, rank2, a :
         /\ nxt2 = [nxt1 EXCEPT ![n] = roots1[m]] /\ roots2 = [roots1 EXCEPT ![m] = n]
         /\ a = Above(rank1, roots1[m]) /\ rank2 = [rank1 EXCEPT ![n] = a]
  OBVIOUS
<1>23. \A j \in T : obj2[j].level \in Level
  BY <1>16
<1>24. RankedOn(T, rank2, obj2, nxt2, roots2)
  <2>1. /\ nxt1 \in [T -> T] /\ roots1 \in [Level -> T]
        /\ n \in T \ {0} /\ rank1[n] = 0 /\ obj2[n].kind = "memory" /\ m \in Level
        /\ m = obj2[n].level /\ OnRam(obj2[n])
    BY <1>4, <1>5, <1>10, <1>13, <1>16, <1>19, <1>21
  <2>2. RankedOn(T, [rank1 EXCEPT ![n] = Above(rank1, roots1[m])], obj2,
                 [nxt1 EXCEPT ![n] = roots1[m]], [roots1 EXCEPT ![m] = n])
    BY ONLY <1>20, <1>23, <2>1, PushRanked
  <2>. QED  BY <1>22, <2>2, Zenon
<1>25. /\ nxt2 \in [T -> T] /\ roots2 \in [Level -> T] /\ rank2[bot] = 0 /\ roots2[m] = n
       /\ rank2 \in [T -> Nat]
       /\ \A j \in T \ {bot, n} : rank2[j] = rank[j]
  <2>1. bot \in T /\ n \in T /\ bot # n /\ m \in Level
    BY <1>5, <1>8, <1>9, <1>10
  <2>2. rank2 \in [T -> Nat] /\ rank \in [T -> Nat]
    BY <1>7, <1>24 DEF RankedOn
  <2>3. rank1 = [rank EXCEPT ![bot] = 0] /\ rank1[bot] = 0 /\ rank1 \in [T -> Nat]
    BY <1>18, <1>19
  <2>4. nxt1 \in [T -> T] /\ roots1 \in [Level -> T]
    BY <1>19
  <2>. HIDE DEF Level
  <2>. QED  BY ONLY <1>22, <2>1, <2>2, <2>3, <2>4
<1>26. PICK rank3 : rank3 = [rank2 EXCEPT ![bot] = Above(rank2, n)]
  OBVIOUS
<1>27. RankedOn(T, rank3, obj2, [nxt2 EXCEPT ![bot] = n], [roots2 EXCEPT ![m] = bot])
  <2>1. /\ nxt2 \in [T -> T] /\ roots2 \in [Level -> T]
        /\ bot \in T \ {0} /\ rank2[bot] = 0 /\ obj2[bot].kind = "memory" /\ m \in Level
        /\ m = obj2[bot].level /\ OnRam(obj2[bot])
    BY <1>8, <1>10, <1>14, <1>16, <1>21, <1>25
  <2>2. RankedOn(T, [rank2 EXCEPT ![bot] = Above(rank2, roots2[m])], obj2,
                 [nxt2 EXCEPT ![bot] = roots2[m]], [roots2 EXCEPT ![m] = bot])
    BY ONLY <1>23, <1>24, <2>1, PushRanked
  <2>. QED  BY <1>25, <1>26, <2>2, Zenon
<1>28. next' = [nxt2 EXCEPT ![bot] = n] /\ next' \in [T -> T]
  <2>1. next' = [nxt EXCEPT ![n] = roots[m], ![bot] = n]
    BY <1>3, <1>5 DEF Pushed
  <2>2. /\ nxt \in [T -> T] /\ bot # n /\ bot \in T /\ n \in T /\ roots1[m] = roots[m]
        /\ roots[m] \in T
    BY <1>5, <1>6, <1>8, <1>9, <1>10, <1>19
  <2>3. nxt1 = [nxt EXCEPT ![bot] = 0] /\ nxt2 = [nxt1 EXCEPT ![n] = roots1[m]]
    BY <1>18, <1>22
  <2>. QED  BY ONLY <2>1, <2>2, <2>3
<1>29. mem_roots' = [roots2 EXCEPT ![m] = bot] /\ mem_roots' \in [Level -> T]
         /\ mem_roots'[m] = bot
  <2>1. mem_roots' = [[roots EXCEPT ![l] = nxt[roots[l]]] EXCEPT ![m] = bot]
    BY <1>3 DEF Pop
  <2>2. /\ roots1 = [roots EXCEPT ![l] = nxt[bot]] /\ roots[l] = bot
        /\ roots2 = [roots1 EXCEPT ![m] = n]
    BY <1>8, <1>18, <1>22
  <2>3. roots1 \in [Level -> T] /\ m \in Level /\ bot \in T
    BY <1>8, <1>10, <1>19
  <2>. HIDE DEF Level
  <2>. QED  BY ONLY <2>1, <2>2, <2>3
<1>30. Ranked(rank3)'
  <2>1. RankedOn(T, rank3, object', next', mem_roots')
    BY <1>11, <1>27, <1>28, <1>29, Zenon
  <2>. QED  BY <1>2, <1>3, <2>1 DEF Ranked
<1>31. \A j \in T \ {bot, n} : rank3[j] = rank[j]
  <2>1. \A j \in T \ {bot, n} : rank3[j] = rank2[j]
    BY <1>25, <1>26
  <2>. QED  BY <1>25, <2>1
<1>32. Shape'
  <2>1. /\ object'[0].kind = "null" /\ object'[Self].kind = "context"
        /\ \A j \in T : j >= n + 1 => object'[j].kind = "slot"
    <3>1. \A j \in T : j >= n + 1 => j # n /\ j >= n /\ j # bot
      BY <1>4, <1>8, <1>9
    <3>2. 0 # n /\ Self # n /\ 0 # bot /\ Self # bot
      BY <1>4, <1>8, <1>9
    <3>. QED  BY <1>4, <1>6, <1>11, <1>16, <3>1, <3>2
  <2>2. app \in Application
    BY DEF Memories, Shape
  <2>. QED  BY <1>2, <1>3, <1>4, <1>11, <1>16, <1>17, <1>28, <1>29, <2>1, <2>2 DEF Shape
<1>33. ASSUME NEW w \in Mine
       PROVE  (Live(Held(w))' <=> Live(Held(w))) /\ Holds(rank3, w)'
  <2>1. PICK q : q = Held(w) /\ q = Held(w)'
    OBVIOUS
  <2>2. Holds(rank, w)
    BY <1>1 DEF Holdings
  <2>3. q.obj \in T \ {0, Self} /\ q.obj < n /\ q.gen \in Nat /\ q.gen <= gen[q.obj]
          /\ (q.gen = gen[q.obj] => rank[q.obj] = 0)
    BY <1>3, <2>1, <2>2 DEF Holds, Live
  <2>4. q.obj # n /\ q.obj < n + 1
    <3>1. PICK o : o = q.obj
      OBVIOUS
    <3>2. o \in Int /\ n \in Nat /\ o < n
      BY <1>4, <2>3, <3>1
    <3>3. o # n /\ o < n + 1
      BY ONLY <3>2
    <3>. QED  BY <3>1, <3>3
  <2>5. q.obj = bot => gen[q.obj] # q.gen
    BY <1>8, <2>3
  <2>6. q.gen <= gen2[q.obj] /\ (gen2[q.obj] = q.gen <=> gen[q.obj] = q.gen)
    <3>1. CASE q.obj = bot
      BY <1>6, <1>8, <1>17, <2>3, <2>5, <3>1
    <3>2. CASE q.obj # bot
      BY <1>17, <2>3, <2>4, <3>2
    <3>. QED  BY <3>1, <3>2
  <2>7. Live(Held(w))' <=> Live(Held(w))
    BY <1>3, <1>11, <2>1, <2>6 DEF Live
  <2>8. ASSUME Live(Held(w))
        PROVE  /\ rank3[q.obj] = 0
               /\ w # "k_img" /\ object'[q.obj].kind = "memory" => InRam(q.obj)'
    <3>1. /\ rank[q.obj] = 0
          /\ w # "k_img" /\ object[q.obj].kind = "memory" => InRam(q.obj)
      BY <2>1, <2>2, <2>8 DEF Holds
    <3>2. q.obj # bot
      BY <1>8, <3>1
    <3>3. object'[q.obj] = object[q.obj] /\ rank3[q.obj] = rank[q.obj]
      BY <1>3, <1>11, <1>16, <1>31, <2>3, <2>4, <3>2
    <3>. QED  BY <3>1, <3>3 DEF InRam
  <2>9. q.obj \in Table' \ {0, Self} /\ q.obj < NextSlot' /\ q.gen <= generation'[q.obj]
          /\ q = Held(w)'
    BY <1>2, <1>3, <1>4, <1>11, <2>1, <2>3, <2>4, <2>6
  <2>10. Holds(rank3, w)'
    BY ONLY <2>3, <2>7, <2>8, <2>9 DEF Holds
  <2>. QED  BY <2>7, <2>10
<1>34. Holdings(rank3)'
  <2>1. ASSUME NEW w \in Mine, NEW x \in Mine  PROVE Apart(w, x)'
    <3>1. Apart(w, x) /\ Held(w)' = Held(w) /\ Held(x)' = Held(x)
      BY <1>1 DEF Holdings
    <3>. QED  BY <1>33, <3>1 DEF Apart
  <2>. QED  BY <1>33, <2>1 DEF Holdings
<1>35. Memories'
  BY <1>21, <1>30, <1>32, <1>34 DEF Memories
<1>36. \A i \in Table \ {bot, top} : object'[i] = object[i]
  BY <1>3, <1>5, <1>11, <1>16
<1>. QED  BY <1>3, <1>5, <1>8, <1>29, <1>33, <1>35, <1>36

-----------------------------------------------------------------------------
(* From a scope to the next one *)

LEMMA ScopeEqual ==
  ASSUME NEW a \in Scope, NEW b \in Scope, a.last = b.last, a.made = b.made,
         a.phase = b.phase, \A v \in Variable : a.at[v] = b.at[v]
  PROVE  a = b
<1>. HIDE DEF Variable, Knowledge, Kind, Phase, NoVar
<1>1. a.at \in [Variable -> Knowledge] /\ b.at \in [Variable -> Knowledge]
  BY DEF Scope
<1>2. a.at = b.at
  BY <1>1
<1>. QED  BY <1>2 DEF Scope

\* A load ends in the same scope whether or not its parts are known.
LEMMA LoadedSame ==
  ASSUME NEW a \in Scope, NEW b \in Scope, a.phase = b.phase, NEW v \in Variable \ {"k_ram"},
         \A x \in Variable \ {v, "k_ram"} : a.at[x] = b.at[x]
  PROVE  Loaded(a, v) = Loaded(b, v)
<1>1. PICK c, d : c = Loaded(a, v) /\ d = Loaded(b, v)
  OBVIOUS
<1>2. /\ c \in Scope /\ c.at[v] = "maybe" /\ c.at["k_ram"] = "out" /\ c.last = v
      /\ \A x \in Variable \ {v, "k_ram"} : c.at[x] = a.at[x]
      /\ c.made = "context" /\ c.phase = a.phase
  BY <1>1, LoadedIs
<1>3. /\ d \in Scope /\ d.at[v] = "maybe" /\ d.at["k_ram"] = "out" /\ d.last = v
      /\ \A x \in Variable \ {v, "k_ram"} : d.at[x] = b.at[x]
      /\ d.made = "context" /\ d.phase = b.phase
  BY <1>1, LoadedIs
<1>4. \A x \in Variable : c.at[x] = d.at[x]
  BY <1>2, <1>3
<1>. QED  BY <1>1, <1>2, <1>3, <1>4, ScopeEqual

LEMMA AfterAnySame ==
  ASSUME NEW a \in Scope, NEW b \in Scope, a.phase = b.phase,
         \A x \in Variable \ AnyVar : a.at[x] = b.at[x]
  PROVE  AfterAny(a) = AfterAny(b)
<1>1. PICK c, d : c = AfterAny(a) /\ d = AfterAny(b)
  OBVIOUS
<1>2. /\ c \in Scope /\ c.last = NoVar /\ c.made = "memory" /\ c.phase = a.phase
      /\ \A v \in Variable : c.at[v] = IF v \in AnyVar THEN "maybe" ELSE a.at[v]
  BY <1>1, AfterAnyIs
<1>3. /\ d \in Scope /\ d.last = NoVar /\ d.made = "memory" /\ d.phase = b.phase
      /\ \A v \in Variable : d.at[v] = IF v \in AnyVar THEN "maybe" ELSE b.at[v]
  BY <1>1, AfterAnyIs
<1>4. \A x \in Variable : c.at[x] = d.at[x]
  BY <1>2, <1>3
<1>. QED  BY <1>1, <1>2, <1>3, <1>4, ScopeEqual

LEMMA PendingSame ==
  ASSUME NEW a \in Scope, NEW b \in Scope, a.phase = b.phase, a.at = b.at,
         NEW v \in Variable, NEW kind \in Kind
  PROVE  Pending(a, v, kind) = Pending(b, v, kind)
<1>1. PICK c, d : c = Pending(a, v, kind) /\ d = Pending(b, v, kind)
  OBVIOUS
<1>2. /\ c \in Scope /\ c.at[v] = "maybe" /\ c.last = v
      /\ \A x \in Variable \ {v} : c.at[x] = a.at[x]
      /\ c.made = kind /\ c.phase = a.phase
  BY <1>1, PendingIs
<1>3. /\ d \in Scope /\ d.at[v] = "maybe" /\ d.last = v
      /\ \A x \in Variable \ {v} : d.at[x] = b.at[x]
      /\ d.made = kind /\ d.phase = b.phase
  BY <1>1, PendingIs
<1>4. \A x \in Variable : c.at[x] = d.at[x]
  BY <1>2, <1>3
<1>. QED  BY <1>1, <1>2, <1>3, <1>4, ScopeEqual

LEMMA ConsRest ==
  ASSUME NEW c, NEW S, NEW r \in Seq(S), NEW T, NEW t \in Seq(T)
  PROVE  (<<c>> \o r) \o t = <<c>> \o (r \o t)
<1>1. PICK U : U = S \cup T \cup {c}
  OBVIOUS
<1>2. <<c>> \in Seq(U) /\ r \in Seq(U) /\ t \in Seq(U)
  BY <1>1
<1>. QED  BY <1>2

LEMMA PairIs ==
  ASSUME NEW c, NEW d
  PROVE  <<c, d>> = <<c>> \o <<d>> /\ <<d>> \in Seq({d})
<1>1. <<d>> \in Seq({d}) /\ <<c>> \in Seq({c})
  OBVIOUS
<1>2. PICK s, t, p : t = <<d>> /\ s = <<c>> \o t /\ p = <<c, d>>
  OBVIOUS
<1>3. t \in Seq({d}) /\ Len(t) = 1 /\ t[1] = d
  BY <1>1, <1>2
<1>4. /\ s \in Seq({d} \cup {c}) /\ Len(s) = Len(t) + 1 /\ s[1] = c
      /\ \A i \in 1 .. Len(t) : s[i + 1] = t[i]
  BY <1>2, <1>3, ConsProperties
<1>5. s \in Seq({d} \cup {c}) /\ Len(s) = 2 /\ s[1] = c /\ s[2] = d
  BY <1>3, <1>4
<1>6. p \in Seq({d} \cup {c}) /\ Len(p) = 2 /\ p[1] = c /\ p[2] = d
  BY <1>2
<1>7. s = p
  BY ONLY <1>5, <1>6
<1>. QED  BY <1>1, <1>2, <1>7

LEMMA OkTwo ==
  ASSUME NEW c, NEW d, NEW t, NEW sc \in Scope, Allowed(c, sc), NEW sd \in Scope,
         sd = After(c, sc), Allowed(d, sd), Ok(t, After(d, sd))
  PROVE  Ok(<<c, d>> \o t, sc)
<1>1. t \in Seq(Range(t))
  BY OkSeq
<1>2. <<c, d>> \o t = <<c>> \o (<<d>> \o t)
  <2>1. <<c, d>> = <<c>> \o <<d>> /\ <<d>> \in Seq({d})
    BY PairIs
  <2>. QED  BY <1>1, <2>1, ConsRest
<1>3. Ok(<<d>> \o t, sd)
  BY OkCons
<1>. QED  BY <1>2, <1>3, OkCons

LEMMA OkThree ==
  ASSUME NEW c, NEW d, NEW e, NEW t, NEW sc \in Scope, Allowed(c, sc), NEW sd \in Scope,
         sd = After(c, sc), Allowed(d, sd), NEW se \in Scope, se = After(d, sd),
         Allowed(e, se), Ok(t, After(e, se))
  PROVE  Ok(<<c, d, e>> \o t, sc)
<1>1. t \in Seq(Range(t))
  BY OkSeq
<1>2. <<c, d, e>> \o t = <<c>> \o (<<d, e>> \o t)
  <2>1. <<c, d, e>> = <<c>> \o <<d, e>> /\ <<d, e>> \in Seq({d, e})
    OBVIOUS
  <2>. QED  BY <1>1, <2>1, ConsRest
<1>3. Ok(<<d, e>> \o t, sd)
  BY OkTwo
<1>. QED  BY <1>2, <1>3, OkCons

LEMMA OkFour ==
  ASSUME NEW c, NEW d, NEW e, NEW g, NEW t, NEW sc \in Scope, Allowed(c, sc),
         NEW sd \in Scope, sd = After(c, sc), Allowed(d, sd),
         NEW se \in Scope, se = After(d, sd), Allowed(e, se),
         NEW sg \in Scope, sg = After(e, se), Allowed(g, sg), Ok(t, After(g, sg))
  PROVE  Ok(<<c, d, e, g>> \o t, sc)
<1>1. t \in Seq(Range(t))
  BY OkSeq
<1>2. <<c, d, e, g>> \o t = <<c>> \o (<<d, e, g>> \o t)
  <2>1. <<c, d, e, g>> = <<c>> \o <<d, e, g>> /\ <<d, e, g>> \in Seq({d, e, g})
    OBVIOUS
  <2>. QED  BY <1>1, <2>1, ConsRest
<1>3. Ok(<<d, e, g>> \o t, sd)
  BY OkThree
<1>. QED  BY <1>2, <1>3, OkCons

\* What is known of a variable stays true.
Stays(w) == \A kind \in Kind : Has(w, kind) => Has(w, kind)'

LEMMA HasStays ==
  ASSUME NEW w \in DOMAIN local', Held(w)' = Held(w),
         Live(Held(w)) => /\ generation'[Held(w).obj] = generation[Held(w).obj]
                          /\ object'[Held(w).obj].kind = object[Held(w).obj].kind
  PROVE  Stays(w)
BY DEF Stays, Has, Live

LEMMA FitsKnown ==
  ASSUME NEW sc, Fits(sc), NEW v \in Variable, NEW what \in Knowledge,
         DOMAIN local' \ {v} = DOMAIN local \ {v},
         what = "out" => v \notin DOMAIN local',
         what \notin {"out", "maybe"} => v \in DOMAIN local',
         what \in Kind => Has(v, what)',
         \A w \in DOMAIN local \ {v} : Stays(w), InPhase(sc.phase)',
         NEW s, s = Known(sc, v, what)
  PROVE  Fits(s)'
<1>1. sc \in Scope
  BY DEF Fits
<1>2. /\ s \in Scope /\ s.at[v] = what /\ \A x \in Variable \ {v} : s.at[x] = sc.at[x]
      /\ s.last = NoVar /\ s.phase = sc.phase
  BY <1>1, KnownIs
<1>3. ASSUME NEW x \in DOMAIN local'  PROVE x \in Opened(s)
  <2>1. CASE x = v
    BY <1>2, <1>3, <2>1 DEF Opened
  <2>2. CASE x # v
    BY <1>2, <1>3, <2>2 DEF Fits, Opened
  <2>. QED  BY <2>1, <2>2
<1>4. ASSUME NEW x \in Variable
      PROVE  /\ s.at[x] \notin {"out", "maybe"} => x \in DOMAIN local'
             /\ s.at[x] \in Kind => Has(x, s.at[x])'
  <2>1. CASE x = v
    BY <1>2, <2>1
  <2>2. CASE x # v
    <3>1. /\ s.at[x] \notin {"out", "maybe"} => x \in DOMAIN local
          /\ s.at[x] \in Kind => Has(x, s.at[x])
      BY <1>2, <2>2 DEF Fits
    <3>2. s.at[x] \in Kind => Has(x, s.at[x])'
      BY <3>1, <2>2 DEF Stays, Has
    <3>. QED  BY <3>1, <3>2, <2>2
  <2>. QED  BY <2>1, <2>2
<1>. HIDE DEF Opened, InPhase, Has, NoVar, Kind, Variable
<1>. QED  BY <1>2, <1>3, <1>4 DEF Fits

LEMMA FitsPending ==
  ASSUME NEW sc, Fits(sc), NEW v \in Variable, NEW kind \in Kind,
         DOMAIN local' \ {v} = DOMAIN local \ {v},
         IF result' = "nothing" THEN v \notin DOMAIN local' ELSE Has(v, kind)',
         \A w \in DOMAIN local \ {v} : Stays(w), InPhase(sc.phase)',
         NEW s, s = Pending(sc, v, kind)
  PROVE  Fits(s)'
<1>1. sc \in Scope
  BY DEF Fits
<1>2. /\ s \in Scope /\ s.at[v] = "maybe" /\ \A x \in Variable \ {v} : s.at[x] = sc.at[x]
      /\ s.last = v /\ s.made = kind /\ s.phase = sc.phase
  BY <1>1, PendingIs
<1>3. ASSUME NEW x \in DOMAIN local'  PROVE x \in Opened(s)
  <2>1. CASE x = v
    BY <1>2, <1>3, <2>1 DEF Opened
  <2>2. CASE x # v
    BY <1>2, <1>3, <2>2 DEF Fits, Opened
  <2>. QED  BY <2>1, <2>2
<1>4. ASSUME NEW x \in Variable
      PROVE  /\ s.at[x] \notin {"out", "maybe"} => x \in DOMAIN local'
             /\ s.at[x] \in Kind => Has(x, s.at[x])'
  <2>1. CASE x = v
    BY <1>2, <2>1 DEF Kind
  <2>2. CASE x # v
    <3>1. /\ s.at[x] \notin {"out", "maybe"} => x \in DOMAIN local
          /\ s.at[x] \in Kind => Has(x, s.at[x])
      BY <1>2, <2>2 DEF Fits
    <3>2. s.at[x] \in Kind => Has(x, s.at[x])'
      BY <3>1, <2>2 DEF Stays, Has
    <3>. QED  BY <3>1, <3>2, <2>2
  <2>. QED  BY <2>1, <2>2
<1>. HIDE DEF Opened, InPhase, Has, NoVar, Kind, Variable
<1>. QED  BY <1>2, <1>3, <1>4 DEF Fits

\* The scope is the same but for what the last call did.
LEMMA FitsForget ==
  ASSUME NEW sc, Fits(sc), DOMAIN local' = DOMAIN local,
         \A w \in DOMAIN local : Stays(w), InPhase(sc.phase)',
         NEW s, s = Forget(sc)
  PROVE  Fits(s)'
<1>1. sc \in Scope
  BY DEF Fits
<1>2. s \in Scope /\ s.at = sc.at /\ s.last = NoVar /\ s.phase = sc.phase
  BY <1>1, ForgetIs
<1>3. \A x \in DOMAIN local' : x \in Opened(s)
  BY <1>2 DEF Fits, Opened
<1>4. ASSUME NEW x \in Variable
      PROVE  /\ s.at[x] \notin {"out", "maybe"} => x \in DOMAIN local'
             /\ s.at[x] \in Kind => Has(x, s.at[x])'
  <2>1. /\ s.at[x] \notin {"out", "maybe"} => x \in DOMAIN local
        /\ s.at[x] \in Kind => Has(x, s.at[x])
    BY <1>2 DEF Fits
  <2>2. s.at[x] \in Kind => Has(x, s.at[x])'
    BY <2>1 DEF Stays, Has
  <2>. QED  BY <2>1, <2>2
<1>. HIDE DEF Opened, InPhase, Has, NoVar, Kind, Variable
<1>. QED  BY <1>2, <1>3, <1>4 DEF Fits

LEMMA FitsLoaded ==
  ASSUME NEW sc, Fits(sc), NEW v \in Variable \ {"k_ram"},
         DOMAIN local' \ {v} = DOMAIN local \ {v, "k_ram"},
         IF result' = "nothing" THEN v \notin DOMAIN local' ELSE Has(v, "context")',
         \A w \in DOMAIN local \ {v, "k_ram"} : Stays(w), InPhase(sc.phase)',
         NEW s, s = Loaded(sc, v)
  PROVE  Fits(s)'
<1>1. sc \in Scope
  BY DEF Fits
<1>2. /\ s \in Scope /\ s.at[v] = "maybe" /\ s.at["k_ram"] = "out"
      /\ \A x \in Variable \ {v, "k_ram"} : s.at[x] = sc.at[x]
      /\ s.last = v /\ s.made = "context" /\ s.phase = sc.phase
  BY <1>1, LoadedIs
<1>3. ASSUME NEW x \in DOMAIN local'  PROVE x \in Opened(s)
  <2>1. CASE x = v
    BY <1>2, <1>3, <2>1 DEF Opened
  <2>2. CASE x # v
    <3>1. x \in DOMAIN local /\ x # "k_ram"
      BY <1>3, <2>2
    <3>. QED  BY <1>2, <3>1, <2>2 DEF Fits, Opened
  <2>. QED  BY <2>1, <2>2
<1>4. ASSUME NEW x \in Variable
      PROVE  /\ s.at[x] \notin {"out", "maybe"} => x \in DOMAIN local'
             /\ s.at[x] \in Kind => Has(x, s.at[x])'
  <2>1. CASE x = v
    BY <1>2, <2>1 DEF Kind
  <2>2. CASE x # v /\ x # "k_ram"
    <3>1. /\ s.at[x] \notin {"out", "maybe"} => x \in DOMAIN local
          /\ s.at[x] \in Kind => Has(x, s.at[x])
      BY <1>2, <2>2 DEF Fits
    <3>2. s.at[x] \in Kind => Has(x, s.at[x])'
      BY <3>1, <2>2 DEF Stays, Has
    <3>. QED  BY <3>1, <3>2, <2>2
  <2>3. CASE x = "k_ram"
    BY <1>2, <2>3 DEF Kind
  <2>. QED  BY <2>1, <2>2, <2>3
<1>. HIDE DEF Opened, InPhase, Has, NoVar, Kind, Variable
<1>. QED  BY <1>2, <1>3, <1>4 DEF Fits

\* Nobody gets a key to the idle Context.
LEMMA IdleKept ==
  ASSUME NEW p \in Table \ {Self}, IsIdle(p),
         program'[p].runnable = program[p].runnable,
         program'[p].priority = program[p].priority, object'[p].kind = object[p].kind,
         \A v \in Mine' : Live(Held(v))' =>
           \/ v \in Mine /\ Live(Held(v)) /\ Held(v)'.obj = Held(v).obj
           \/ Held(v)'.obj # p
  PROVE  IsIdle(p)'
BY DEF IsIdle, Idle

LEMMA PhaseKept ==
  ASSUME NEW phase, phase # "boot", InPhase(phase), app' = app, program' = program,
         \A p \in Table : object[p].kind = "context" => object'[p].kind = "context",
         \A v \in Mine' : Live(Held(v))' =>
           \/ v \in Mine /\ Live(Held(v)) /\ Held(v)'.obj = Held(v).obj
           \/ object[Held(v)'.obj].kind # "context"
  PROVE  InPhase(phase)'
<1>1. CASE phase = "idle"
  <2>1. PICK p \in Table \ {Self} : IsIdle(p)
    BY <1>1 DEF InPhase, IdleThere
  <2>2. object[p].kind = "context" /\ object'[p].kind = "context"
    BY <2>1 DEF IsIdle
  <2>3. IsIdle(p)'
    BY <2>1, <2>2, IdleKept
  <2>4. p \in Table' \ {Self}
    BY DEF Table
  <2>. QED  BY <1>1, <2>3, <2>4 DEF InPhase, IdleThere
<1>2. CASE phase # "idle"
  BY <1>2 DEF InPhase, Quiet, Table
<1>. QED  BY <1>1, <1>2

\* A step that changes neither the table nor the programs, and at most loses keys.
LEMMA FramePhase ==
  ASSUME UNCHANGED <<app, object, generation, program>>, Mine' \subseteq Mine,
         \A w \in Mine' : Held(w)' = Held(w)
  PROVE  /\ \A phase : phase # "boot" /\ InPhase(phase) => InPhase(phase)'
         /\ \A w \in Mine' : Stays(w)
<1>1. ASSUME NEW phase, phase # "boot", InPhase(phase)  PROVE InPhase(phase)'
  <2>1. \A v \in Mine' : Live(Held(v))' <=> Live(Held(v))
    BY DEF Live
  <2>. QED  BY <1>1, <2>1, PhaseKept
<1>2. ASSUME NEW w \in Mine'  PROVE Stays(w)
  BY HasStays DEF Mine
<1>. QED  BY <1>1, <1>2

\* What a fault leaves.
LEMMA HaltControl ==
  ASSUME NEW phase, InPhase(phase)', NEW why, Halt(why)
  PROVE  Control' /\ result' = why
BY DEF InPhase, Halt, Control, Halted

LEMMA SamePrograms ==
  ASSUME Programs, UNCHANGED <<app, program>>
  PROVE  Programs'
BY DEF Programs, Table

\* The variables in scope are the library's.
LEMMA FitsMine ==
  ASSUME NEW sc, Fits(sc)
  PROVE  Mine = DOMAIN local
BY DEF Fits, Mine, Opened

-----------------------------------------------------------------------------
(* The steps of the allocators *)

\* A step that changes nothing but the calls to be made.
LEMMA SameStep ==
  ASSUME Inv, UNCHANGED <<app, tableVars, keyVars, poolVars, program>>, result' # "keys"
  PROVE  /\ Memories' /\ Registers' /\ Programs'
         /\ DOMAIN local' = DOMAIN local
         /\ \A w \in DOMAIN local : Held(w)' = Held(w)
         /\ \A w \in Mine : Stays(w)
         /\ \A phase : phase # "boot" /\ InPhase(phase) => InPhase(phase)'
<1>1. Memories /\ Registers /\ Programs
  BY DEF Inv
<1>2. /\ UNCHANGED <<app, tableVars, mem_roots>> /\ slots_used' = slots_used
      /\ UNCHANGED <<available_keys, local>> /\ keys' = keys
      /\ UNCHANGED <<app, object, generation, program>>
  BY DEF tableVars, keyVars, poolVars
<1>3. keys' \in [Reg -> Key]
  BY <1>1, <1>2 DEF Registers
<1>4. Registers' /\ DOMAIN local' = DOMAIN local /\ \A w \in DOMAIN local : Held(w)' = Held(w)
  BY <1>1, <1>2, <1>3, SameRegisters
<1>5. Mine' = Mine /\ \A w \in Mine' : Held(w)' = Held(w)
  BY <1>4 DEF Mine
<1>6. Memories'
  BY <1>1, <1>2, <1>5, SameMemories
<1>7. Programs'
  BY <1>1, <1>2, SamePrograms
<1>. QED  BY <1>2, <1>4, <1>5, <1>6, <1>7, FramePhase

LEMMA HaltSame ==
  ASSUME Inv, UNCHANGED <<app, tableVars, keyVars, poolVars, program>>, NEW sc, Fits(sc),
         sc.phase # "boot", NEW why, why # "keys", Halt(why)
  PROVE  Inv'
<1>1. result' # "keys"
  BY DEF Halt
<1>2. Memories' /\ Registers' /\ Programs' /\ InPhase(sc.phase)'
  BY <1>1, SameStep DEF Fits
<1>. QED  BY <1>2, HaltControl DEF Inv

LEMMA RefStep ==
  ASSUME Inv, Ref, UNCHANGED program
  PROVE  Inv'
<1>1. /\ todo # << >> /\ Head(todo).op = "ref" /\ Control
      /\ UNCHANGED <<app, tableVars, keyVars, poolVars, program>>
  BY DEF Ref, At, Inv
<1>2. PICK sc : /\ Fits(sc) /\ sc \in Scope /\ sc.phase # "boot"
                /\ Ok(Tail(todo), After(Head(todo), sc))
                /\ After(Head(todo), sc) \in Scope
  BY <1>1, CallIs DEF Library
<1>3. CASE result # "ok"
  BY <1>1, <1>2, <1>3, HaltSame DEF Ref
<1>4. CASE result = "ok"
  <2>1. todo' = Tail(todo) /\ result' = "ok"
    BY <1>4 DEF Ref, Return
  <2>2. /\ Memories' /\ Registers' /\ Programs' /\ DOMAIN local' = DOMAIN local
        /\ \A w \in DOMAIN local : Stays(w)
        /\ InPhase(sc.phase)'
    BY <1>1, <1>2, <2>1, SameStep, FitsMine DEF Fits
  <2>3. PICK s : s = After(Head(todo), sc)
    OBVIOUS
  <2>4. s = IF sc.last = NoVar THEN sc ELSE Known(sc, sc.last, sc.made)
    BY <1>1, <2>3, AfterIs
  <2>5. CASE sc.last = NoVar
    <3>1. sc = Forget(sc)
      BY <1>2, <2>5, ForgetIs, ScopeEqual
    <3>2. Fits(sc)'
      BY <1>2, <2>2, <3>1, FitsForget
    <3>. QED  BY <1>2, <2>1, <2>2, <2>3, <2>4, <2>5, <3>2 DEF Inv, Control
  <2>6. CASE sc.last # NoVar
    <3>1. sc.last \in Variable /\ sc.made \in Kind /\ sc.made \in Knowledge
            /\ sc.made \notin {"out", "maybe"}
      BY <1>2, <2>6 DEF Scope, Knowledge, Kind
    <3>2. Has(sc.last, sc.made)
      BY <1>2, <1>4, <2>6 DEF Fits
    <3>3. sc.last \in DOMAIN local /\ Has(sc.last, sc.made)'
      BY <2>2, <3>1, <3>2 DEF Stays, Has
    <3>4. Fits(s)'
      BY <1>2, <2>2, <2>4, <2>6, <3>1, <3>3, FitsKnown
    <3>. QED  BY <1>2, <2>1, <2>2, <2>3, <3>4 DEF Inv, Control
  <2>. QED  BY <2>5, <2>6
<1>. QED  BY <1>3, <1>4

-----------------------------------------------------------------------------
(* The calls a call makes *)

Ready(sc) == sc \in Scope /\ Deep(Opened(sc)) /\ sc.phase # "boot"

LEMMA AllowAlloc ==
  ASSUME NEW sc, Ready(sc), NEW v \in Variable \ {"k_img"}, sc.at[v] = "out",
         NEW arg \in [level : Int, brand : Brands],
         NEW c, c = Call("alloc_mem", arg, v)
  PROVE  Allowed(c, sc) /\ After(c, sc) = Pending(sc, v, "memory")
<1>1. c.op = "alloc_mem" /\ c.arg = arg /\ c.var = v
  BY DEF Call
<1>2. Allowed(c, sc)
  BY <1>1 DEF Allowed, Ready, Library, Brands
<1>. QED  BY <1>1, <1>2, AfterIs

LEMMA AllowSlot ==
  ASSUME NEW sc, Ready(sc), NEW v \in Variable \ {"k_img"}, sc.at[v] = "out",
         NEW arg, NEW c, c = Call("alloc_slot", arg, v)
  PROVE  Allowed(c, sc) /\ After(c, sc) = Known(sc, v, "held")
<1>1. c.op = "alloc_slot" /\ c.arg = arg /\ c.var = v
  BY DEF Call
<1>2. Allowed(c, sc)
  BY <1>1 DEF Allowed, Ready, Library, Brands
<1>. QED  BY <1>1, <1>2, AfterIs

LEMMA AllowIsolate ==
  ASSUME NEW sc, Ready(sc), sc.at["k_img"] = "out", NEW img, img.base \in Nat,
         img.level \in Level, Outside(img.base),
         NEW c, c = Call("isolate", img, "k_img")
  PROVE  Allowed(c, sc) /\ After(c, sc) = Known(sc, "k_img", "held")
<1>1. c.op = "isolate" /\ c.arg = img /\ c.var = "k_img"
  BY DEF Call
<1>2. Allowed(c, sc)
  BY <1>1 DEF Allowed, Ready, Library, Brands
<1>. QED  BY <1>1, <1>2, AfterIs

LEMMA AllowLoadProgram ==
  ASSUME NEW sc, Ready(sc), NEW v \in Variable \ {"k_img", "k_ram"}, sc.at[v] = "out",
         sc.at["k_ram"] = "out", Deep(Opened(sc) \cup {v, "k_ram"}),
         NEW img, NEW c, c = Call("load_program", img, v)
  PROVE  Allowed(c, sc) /\ After(c, sc) = Loaded(sc, v)
<1>1. c.op = "load_program" /\ c.arg = img /\ c.var = v
  BY DEF Call
<1>2. Allowed(c, sc)
  BY <1>1 DEF Allowed, Ready, Library, Brands
<1>. QED  BY <1>1, <1>2, AfterIs

LEMMA AllowLoadContext ==
  ASSUME NEW sc, Ready(sc), NEW v \in Variable \ {"k_img", "k_ram"}, sc.at[v] = "out",
         sc.last = "k_ram", sc.made = "memory", Deep(Opened(sc) \cup {v}),
         NEW img, NEW c, c = Call("load_context", img, v)
  PROVE  Allowed(c, sc) /\ After(c, sc) = Loaded(sc, v)
<1>1. c.op = "load_context" /\ c.arg = img /\ c.var = v
  BY DEF Call
<1>2. Allowed(c, sc)
  BY <1>1 DEF Allowed, Ready, Library, Brands
<1>. QED  BY <1>1, <1>2, AfterIs

LEMMA AllowLoadFill ==
  ASSUME NEW sc, Ready(sc), NEW v \in Variable \ {"k_ram"}, sc.last = v,
         sc.made = "memory", sc.at["k_ram"] = "memory",
         NEW img, NEW c, c = Call("load_fill", img, v)
  PROVE  Allowed(c, sc) /\ After(c, sc) = Loaded(sc, v)
<1>1. c.op = "load_fill" /\ c.arg = img /\ c.var = v
  BY DEF Call
<1>2. Allowed(c, sc)
  BY <1>1 DEF Allowed, Ready, Library, Brands
<1>. QED  BY <1>1, <1>2, AfterIs

LEMMA AllowBecome ==
  ASSUME NEW sc, Ready(sc), NEW v \in Variable, sc.at[v] = "memory",
         NEW kind \in Kind \ {"memory"},
         NEW c, c = Call("become", kind, v)
  PROVE  Allowed(c, sc) /\ After(c, sc) = Known(sc, v, kind)
<1>1. c.op = "become" /\ c.arg = kind /\ c.var = v
  BY DEF Call
<1>2. Allowed(c, sc)
  BY <1>1 DEF Allowed, Ready, Library, Brands
<1>. QED  BY <1>1, <1>2, AfterIs

LEMMA AllowLoadImage ==
  ASSUME NEW sc, Ready(sc), NEW v \in Variable \ {"k_ram"}, sc.at[v] = "context",
         sc.at["k_ram"] = "memory", NEW img, NEW c, c = Call("load_image", img, v)
  PROVE  Allowed(c, sc) /\ After(c, sc) = Loaded(sc, v)
<1>1. c.op = "load_image" /\ c.arg = img /\ c.var = v
  BY DEF Call
<1>2. Allowed(c, sc)
  BY <1>1 DEF Allowed, Ready, Library, Brands
<1>. QED  BY <1>1, <1>2, AfterIs

LEMMA AllowFree ==
  ASSUME NEW sc, Ready(sc), NEW v \in Variable \ {"k_img"}, sc.at[v] \notin {"out", "maybe"},
         NEW arg, NEW c, c = Call("free_mem", arg, v)
  PROVE  Allowed(c, sc) /\ After(c, sc) = Known(sc, v, "held")
<1>1. c.op = "free_mem" /\ c.arg = arg /\ c.var = v
  BY DEF Call
<1>2. Allowed(c, sc)
  BY <1>1 DEF Allowed, Ready, Library, Brands
<1>. QED  BY <1>1, <1>2, AfterIs

LEMMA AllowRelease ==
  ASSUME NEW sc, Ready(sc), NEW v \in Variable, NEW arg, NEW c, c = Call("release", arg, v)
  PROVE  Allowed(c, sc) /\ After(c, sc) = Known(sc, v, "out")
<1>1. c.op = "release" /\ c.arg = arg /\ c.var = v
  BY DEF Call
<1>2. Allowed(c, sc)
  BY <1>1 DEF Allowed, Ready, Library, Brands
<1>. QED  BY <1>1, <1>2, AfterIs

LEMMA AllowAny ==
  ASSUME NEW sc, Ready(sc), NEW n \in Nat, sc.at["k_img"] = "out", sc.at["k_ram"] = "out",
         Deep(Opened(sc) \cup AnyVar \cup {"k_img", "k_ram"}),
         NEW v, NEW c, c = Call("any", n, v)
  PROVE  Allowed(c, sc) /\ After(c, sc) = AfterAny(sc)
<1>1. c.op = "any" /\ c.arg = n /\ c.var = v
  BY DEF Call
<1>2. Allowed(c, sc)
  BY <1>1 DEF Allowed, Ready, Library, Brands
<1>. QED  BY <1>1, <1>2, AfterIs

LEMMA AllowRef ==
  ASSUME NEW sc, Ready(sc), NEW arg, NEW v, NEW c, c = Call("ref", arg, v)
  PROVE  /\ Allowed(c, sc)
         /\ After(c, sc) = IF sc.last = NoVar THEN sc ELSE Known(sc, sc.last, sc.made)
<1>1. c.op = "ref" /\ c.arg = arg /\ c.var = v
  BY DEF Call
<1>2. Allowed(c, sc)
  BY <1>1 DEF Allowed, Ready, Library, Brands
<1>. QED  BY <1>1, <1>2, AfterIs

LEMMA AllowSelf ==
  ASSUME NEW sc, Ready(sc), NEW arg, NEW v, NEW c, c = Call("make_self_key", arg, v)
  PROVE  Allowed(c, sc) /\ After(c, sc) = Forget(sc)
<1>1. c.op = "make_self_key" /\ c.arg = arg /\ c.var = v
  BY DEF Call
<1>2. Allowed(c, sc)
  BY <1>1 DEF Allowed, Ready, Library, Brands
<1>. QED  BY <1>1, <1>2, AfterIs

LEMMA AllowCopy ==
  ASSUME NEW sc, Ready(sc), NEW v \in Variable, sc.at[v] \notin {"out", "maybe"},
         NEW c, c = Call("copy_key", kgate, v)
  PROVE  Allowed(c, sc) /\ After(c, sc) = Known(sc, v, "out")
<1>1. c.op = "copy_key" /\ c.arg = kgate /\ c.var = v
  BY DEF Call
<1>2. Allowed(c, sc)
  BY <1>1 DEF Allowed, Ready, Library, Brands
<1>. QED  BY <1>1, <1>2, AfterIs

LEMMA AllowIdle ==
  ASSUME NEW sc, Ready(sc), NEW v \in Variable, sc.at[v] = "context", sc.phase = "fed",
         NEW arg, NEW c, c = Call("prepare_idle_task", arg, v)
  PROVE  Allowed(c, sc) /\ After(c, sc) = [Known(sc, v, "out") EXCEPT !.phase = "idle"]
<1>1. c.op = "prepare_idle_task" /\ c.arg = arg /\ c.var = v
  BY DEF Call
<1>2. Allowed(c, sc)
  BY <1>1 DEF Allowed, Ready, Library, Brands
<1>. QED  BY <1>1, <1>2, AfterIs

LEMMA AllowFeed ==
  ASSUME NEW sc, sc \in Scope, Deep(Opened(sc)), sc.phase = "boot", Opened(sc) = {},
         NEW v \in Variable \ {"k_img"}, NEW arg, NEW c, c = Call("feed_allocator", arg, v)
  PROVE  Allowed(c, sc) /\ After(c, sc) = [Known(sc, v, "memory") EXCEPT !.phase = "fed"]
<1>1. c.op = "feed_allocator" /\ c.arg = arg /\ c.var = v
  BY DEF Call
<1>2. Allowed(c, sc)
  BY <1>1 DEF Allowed, Ready, Library, Brands
<1>. QED  BY <1>1, <1>2, AfterIs


LEMMA DeepWithin ==
  ASSUME NEW S \in SUBSET Variable, Deep(S), NEW T \in SUBSET S
  PROVE  Deep(T)
<1>1. IsFiniteSet(S)
  BY VariableIsFinite, FS_Subset
<1>. QED  BY <1>1, DeepSubset

LEMMA OpenedIs ==
  ASSUME NEW sc
  PROVE  Opened(sc) \in SUBSET Variable /\ \A v \in Variable : v \in Opened(sc) <=> sc.at[v] # "out"
BY DEF Opened

LEMMA RamPowerIs ==
  ASSUME NEW hdr
  PROVE  RamPower(hdr) \in Nat
<1>1. PICK v, P : /\ v = Wrap(hdr.bss_end - hdr.text_end + hdr.stack_size)
                  /\ P = {p \in 0 .. MaxLevel + 1 : v <= 2 ^ p}
  OBVIOUS
<1>2. RamPower(hdr) = IF v = 0 \/ P = {} THEN MaxLevel + 2 ELSE Min(P)
  BY <1>1 DEF RamPower
<1>3. MaxLevel \in Nat /\ P \in SUBSET Nat
  BY <1>1, SysAssumption
<1>4. P # {} => Min(P) \in Nat
  BY <1>3, MinIs
<1>. QED  BY <1>2, <1>3, <1>4

LEMMA LoadProgramStep ==
  ASSUME Inv, LoadProgram
  PROVE  Inv'
<1>1. /\ todo # << >> /\ Head(todo).op = "load_program" /\ Control
      /\ UNCHANGED <<app, tableVars, keyVars, poolVars, program>>
  BY DEF LoadProgram, At, Inv
<1>2. PICK sc : /\ Fits(sc) /\ Ready(sc) /\ Allowed(Head(todo), sc)
                /\ Ok(Tail(todo), After(Head(todo), sc))
  BY <1>1, CallIs DEF Library, Ready
<1>3. PICK v, img, t : v = Var /\ img = Arg /\ t = Tail(todo)
  OBVIOUS
<1>4. /\ v \in Variable \ {"k_img", "k_ram"} /\ sc.at[v] = "out" /\ sc.at["k_ram"] = "out"
      /\ Deep(Opened(sc) \cup {v, "k_ram"})
  BY <1>1, <1>2, <1>3 DEF Allowed, Var
<1>5. Ok(t, Loaded(sc, v)) /\ sc \in Scope /\ sc.phase # "boot"
  BY <1>1, <1>2, <1>3, AfterIs DEF Var, Ready
<1>6. Mine = DOMAIN local /\ v \notin DOMAIN local /\ "k_ram" \notin DOMAIN local
  BY <1>2, <1>4, FitsMine DEF Fits, Opened
<1>7. ASSUME result' # "keys"
      PROVE  /\ Memories' /\ Registers' /\ Programs' /\ DOMAIN local' = DOMAIN local
             /\ \A w \in DOMAIN local : Stays(w)
             /\ InPhase(sc.phase)'
  BY <1>1, <1>2, <1>6, <1>7, SameStep DEF Fits, Ready
<1>8. CASE Halt("assertion")
  BY <1>1, <1>2, <1>5, <1>8, HaltSame
<1>9. CASE Return("nothing")
  <2>1. todo' = t /\ result' = "nothing"
    BY <1>3, <1>9 DEF Return
  <2>2. PICK s : s = Loaded(sc, v)
    OBVIOUS
  <2>3. Fits(s)'
    <3>1. /\ DOMAIN local' \ {v} = DOMAIN local \ {v, "k_ram"}
          /\ v \notin DOMAIN local'
          /\ \A w \in DOMAIN local \ {v, "k_ram"} : Stays(w)
          /\ InPhase(sc.phase)'
      BY <1>6, <1>7, <2>1
    <3>. QED  BY <1>2, <1>4, <2>1, <2>2, <3>1, FitsLoaded
  <2>. QED  BY <1>5, <1>7, <2>1, <2>2, <2>3 DEF Inv, Control
<1>10. PICK arg : arg = [level |-> RamPower(img.hdr) - 1, brand |-> Brand(FALSE, ReadWrite)]
  OBVIOUS
<1>11. PICK c, d : c = Call("alloc_mem", arg, "k_ram") /\ d = Call("load_context", img, v)
  OBVIOUS
<1>12. CASE Calls(<<c, d>>)
  <2>1. todo' = <<c, d>> \o t /\ result' = "ok"
    BY <1>3, <1>12 DEF Calls
  <2>2. PICK s : s = Forget(sc)
    OBVIOUS
  <2>3. s \in Scope /\ s.at = sc.at /\ s.phase = sc.phase
    BY <1>5, <2>2, ForgetIs
  <2>4. Fits(s)'
    BY <1>2, <1>6, <1>7, <2>1, <2>2, FitsForget
  <2>5. PICK S : S = Opened(sc) \cup {v, "k_ram"}
    OBVIOUS
  <2>6. "k_ram" \in Variable \ {"k_img"} /\ "memory" \in Kind
    BY DEF Variable, Kind
  <2>7. S \in SUBSET Variable /\ Deep(S)
    BY <1>4, <2>5, <2>6, OpenedIs
  <2>8. Opened(s) \in SUBSET S
    BY <2>3, <2>5 DEF Opened
  <2>9. Ready(s)
    BY <1>5, <2>3, <2>7, <2>8, DeepWithin DEF Ready
  <2>10. arg \in [level : Int, brand : Brands]
    <3>1. RamPower(img.hdr) \in Nat
      BY RamPowerIs
    <3>. QED  BY <1>10, <3>1 DEF Brand, Brands, ReadWrite
  <2>11. Allowed(c, s) /\ After(c, s) = Pending(s, "k_ram", "memory")
    BY <1>4, <1>11, <2>3, <2>6, <2>9, <2>10, AllowAlloc
  <2>12. PICK sd : sd = Pending(s, "k_ram", "memory")
    OBVIOUS
  <2>13. /\ sd \in Scope /\ sd.last = "k_ram" /\ sd.made = "memory" /\ sd.phase = s.phase
         /\ \A x \in Variable \ {"k_ram"} : sd.at[x] = s.at[x]
    BY <2>3, <2>6, <2>12, PendingIs
  <2>14. Opened(sd) \in SUBSET S /\ Opened(sd) \cup {v} \in SUBSET S
    BY <2>3, <2>5, <2>13 DEF Opened
  <2>15. Ready(sd) /\ Deep(Opened(sd) \cup {v})
    BY <1>5, <2>3, <2>7, <2>13, <2>14, DeepWithin DEF Ready
  <2>16. Allowed(d, sd) /\ After(d, sd) = Loaded(sd, v)
    BY <1>4, <1>11, <2>3, <2>13, <2>15, AllowLoadContext
  <2>17. Loaded(sd, v) = Loaded(sc, v)
    BY <1>4, <1>5, <2>3, <2>13, LoadedSame
  <2>18. Ok(todo', s)
    BY <1>5, <2>1, <2>3, <2>11, <2>12, <2>13, <2>16, <2>17, OkTwo
  <2>. QED  BY <1>7, <2>1, <2>4, <2>18 DEF Inv, Control
<1>13. Halt("assertion") \/ Return("nothing") \/ Calls(<<c, d>>)
  BY <1>3, <1>10, <1>11 DEF LoadProgram
<1>. QED  BY <1>8, <1>9, <1>12, <1>13

LEMMA LoadContextStep ==
  ASSUME Inv, LoadContext
  PROVE  Inv'
<1>1. /\ todo # << >> /\ Head(todo).op = "load_context" /\ Control
      /\ UNCHANGED <<app, tableVars, keyVars, poolVars, program>>
  BY DEF LoadContext, At, Inv
<1>2. PICK sc : /\ Fits(sc) /\ Ready(sc) /\ Allowed(Head(todo), sc)
                /\ Ok(Tail(todo), After(Head(todo), sc))
  BY <1>1, CallIs DEF Library, Ready
<1>3. PICK v, img, t : v = Var /\ img = Arg /\ t = Tail(todo)
  OBVIOUS
<1>4. /\ v \in Variable \ {"k_img", "k_ram"} /\ sc.at[v] = "out" /\ sc.last = "k_ram"
      /\ sc.made = "memory" /\ Deep(Opened(sc) \cup {v})
  BY <1>1, <1>2, <1>3 DEF Allowed, Var
<1>5. Ok(t, Loaded(sc, v)) /\ sc \in Scope /\ sc.phase # "boot"
  BY <1>1, <1>2, <1>3, AfterIs DEF Var, Ready
<1>6. "k_ram" \in Variable /\ "memory" \in Kind /\ "memory" \in Knowledge
  BY DEF Variable, Kind, Knowledge
<1>7. /\ Mine = DOMAIN local /\ v \notin DOMAIN local
      /\ IF result = "nothing" THEN "k_ram" \notin DOMAIN local ELSE Has("k_ram", "memory")
  <2>1. sc.last # NoVar
    BY <1>4, <1>6, ScopesAssumption
  <2>. QED  BY <1>2, <1>4, <2>1, FitsMine DEF Fits, Opened
<1>8. ASSUME result' # "keys"
      PROVE  /\ Memories' /\ Registers' /\ Programs' /\ DOMAIN local' = DOMAIN local
             /\ \A w \in DOMAIN local : Stays(w)
             /\ InPhase(sc.phase)'
  BY <1>1, <1>2, <1>7, <1>8, SameStep DEF Fits, Ready
<1>9. CASE result = "nothing"
  <2>1. todo' = t /\ result' = "nothing"
    BY <1>3, <1>9 DEF LoadContext, Return
  <2>2. PICK s : s = Loaded(sc, v)
    OBVIOUS
  <2>3. Fits(s)'
    <3>1. /\ DOMAIN local' \ {v} = DOMAIN local \ {v, "k_ram"}
          /\ v \notin DOMAIN local'
          /\ \A w \in DOMAIN local \ {v, "k_ram"} : Stays(w)
          /\ InPhase(sc.phase)'
      BY <1>7, <1>8, <1>9, <2>1
    <3>. QED  BY <1>2, <1>4, <2>1, <2>2, <3>1, FitsLoaded
  <2>. QED  BY <1>5, <1>8, <2>1, <2>2, <2>3 DEF Inv, Control
<1>10. CASE result # "nothing"
  <2>1. PICK arg : arg = [level |-> CtxLevel, brand |-> Plain]
    OBVIOUS
  <2>2. PICK c, d : c = Call("alloc_mem", arg, v) /\ d = Call("load_fill", img, v)
    OBVIOUS
  <2>3. todo' = <<c, d>> \o t /\ result' = "ok"
    BY <1>3, <1>10, <2>1, <2>2 DEF LoadContext, Calls
  <2>4. PICK s : s = Known(sc, "k_ram", "memory")
    OBVIOUS
  <2>5. /\ s \in Scope /\ s.at["k_ram"] = "memory" /\ s.phase = sc.phase
        /\ \A x \in Variable \ {"k_ram"} : s.at[x] = sc.at[x]
    BY <1>5, <1>6, <2>4, KnownIs
  <2>6. Has("k_ram", "memory")' /\ "k_ram" \in DOMAIN local
    BY <1>6, <1>7, <1>8, <1>10, <2>3 DEF Stays, Has
  <2>7. Fits(s)'
    BY <1>2, <1>6, <1>8, <2>3, <2>4, <2>6, FitsKnown DEF Kind
  <2>8. PICK S : S = Opened(sc) \cup {v}
    OBVIOUS
  <2>9. S \in SUBSET Variable /\ Deep(S) /\ "k_ram" \in Opened(sc)
    BY <1>2, <1>4, <2>6, <2>8, OpenedIs DEF Fits
  <2>10. Opened(s) \in SUBSET S
    BY <2>5, <2>8, <2>9 DEF Opened
  <2>11. Ready(s)
    BY <1>5, <2>5, <2>9, <2>10, DeepWithin DEF Ready
  <2>12. arg \in [level : Int, brand : Brands]
    BY <2>1, ScopesAssumption DEF Plain, Brand, Brands
  <2>13. s.at[v] = "out"
    BY <1>4, <2>5
  <2>14. Allowed(c, s) /\ After(c, s) = Pending(s, v, "memory")
    BY <1>4, <2>2, <2>11, <2>12, <2>13, AllowAlloc
  <2>15. PICK sd : sd = Pending(s, v, "memory")
    OBVIOUS
  <2>16. /\ sd \in Scope /\ sd.last = v /\ sd.made = "memory" /\ sd.phase = s.phase
         /\ \A x \in Variable \ {v} : sd.at[x] = s.at[x]
    BY <1>4, <1>6, <2>5, <2>15, PendingIs
  <2>17. Opened(sd) \in SUBSET S
    BY <2>5, <2>8, <2>9, <2>16 DEF Opened
  <2>18. Ready(sd) /\ sd.at["k_ram"] = "memory"
    BY <1>4, <1>5, <1>6, <2>5, <2>9, <2>16, <2>17, DeepWithin DEF Ready
  <2>19. Allowed(d, sd) /\ After(d, sd) = Loaded(sd, v)
    BY <1>4, <2>2, <2>16, <2>18, AllowLoadFill
  <2>20. Loaded(sd, v) = Loaded(sc, v)
    BY <1>4, <1>5, <2>5, <2>16, LoadedSame
  <2>21. Ok(todo', s)
    BY <1>5, <2>3, <2>5, <2>14, <2>15, <2>16, <2>19, <2>20, OkTwo
  <2>. QED  BY <1>8, <2>3, <2>7, <2>21 DEF Inv, Control
<1>. QED  BY <1>9, <1>10

LEMMA LoadFillStep ==
  ASSUME Inv, LoadFill
  PROVE  Inv'
<1>1. /\ todo # << >> /\ Head(todo).op = "load_fill" /\ Control
      /\ UNCHANGED <<app, tableVars, keyVars, poolVars, program>>
  BY DEF LoadFill, At, Inv
<1>2. PICK sc : /\ Fits(sc) /\ Ready(sc) /\ Allowed(Head(todo), sc)
                /\ Ok(Tail(todo), After(Head(todo), sc))
                /\ Tail(todo) \in Seq(Range(Tail(todo)))
  BY <1>1, CallIs DEF Library, Ready
<1>3. PICK v, img, t : v = Var /\ img = Arg /\ t = Tail(todo)
  OBVIOUS
<1>4. /\ v \in Variable \ {"k_ram"} /\ sc.last = v /\ sc.made = "memory"
      /\ sc.at["k_ram"] = "memory"
  BY <1>1, <1>2, <1>3 DEF Allowed, Var
<1>5. Ok(t, Loaded(sc, v)) /\ sc \in Scope
  BY <1>1, <1>2, <1>3, AfterIs DEF Var, Ready
<1>6. Mine = DOMAIN local
        /\ IF result = "nothing" THEN v \notin DOMAIN local ELSE Has(v, "memory")
  <2>1. sc.last # NoVar
    BY <1>4, ScopesAssumption
  <2>. QED  BY <1>2, <1>4, <2>1, FitsMine DEF Fits
<1>7. ASSUME result' # "keys"
      PROVE  /\ Memories' /\ Registers' /\ Programs' /\ DOMAIN local' = DOMAIN local
             /\ \A w \in DOMAIN local : Stays(w)
             /\ InPhase(sc.phase)'
  BY <1>1, <1>2, <1>6, <1>7, SameStep DEF Fits, Ready
<1>8. CASE result = "nothing"
  <2>1. PICK c, d : c = Call("free_mem", 0, "k_ram") /\ d = Call("load_failed", 0, "k_ram")
    OBVIOUS
  <2>2. todo' = <<c, d>> \o t /\ result' = "ok"
    BY <1>3, <1>8, <2>1 DEF LoadFill, Calls
  <2>3. PICK s : s = Known(sc, v, "out")
    OBVIOUS
  <2>4. "out" \in Knowledge /\ "k_ram" \in Variable /\ "out" \notin Kind
    BY DEF Knowledge, Variable, Kind
  <2>5. /\ s \in Scope /\ s.at["k_ram"] = "memory" /\ s.phase = sc.phase /\ s.at[v] = "out"
        /\ \A x \in Variable \ {v} : s.at[x] = sc.at[x]
    BY <1>4, <1>5, <2>3, <2>4, KnownIs
  <2>6. Fits(s)'
    BY <1>2, <1>4, <1>6, <1>7, <1>8, <2>2, <2>3, <2>4, FitsKnown
  <2>7. Loaded(s, v) = Loaded(sc, v)
    BY <1>4, <1>5, <2>5, LoadedSame
  <2>8. FailedLoad(s, t)
    BY <1>4, <1>5, <2>5, <2>7 DEF FailedLoad
  <2>9. Deep(Opened(s))
    <3>1. Opened(s) \in SUBSET Opened(sc)
      BY <2>5 DEF Opened
    <3>. QED  BY <1>2, <3>1, OpenedIs, DeepWithin DEF Ready
  <2>10. t \in Seq(Range(t))
    BY <1>2, <1>3
  <2>11. <<c, d>> \o t = <<c>> \o (<<d>> \o t)
    <3>1. <<c, d>> = <<c>> \o <<d>> /\ <<d>> \in Seq({d})
      BY PairIs
    <3>. QED  BY <2>10, <3>1, ConsRest
  <2>12. PICK u : u = <<d>> \o t
    OBVIOUS
  <2>13. u \in Seq(Range(t) \cup {d})
    BY <2>10, <2>12, ConsProperties
  <2>14. /\ todo' \in Seq(Range(t) \cup {d} \cup {c}) /\ Head(todo') = c /\ Tail(todo') = u
         /\ todo' # << >>
    BY <2>2, <2>11, <2>12, <2>13, ConsProperties
  <2>15. NonEmpty(todo')
    BY <2>14, OwnRange DEF NonEmpty
  <2>16. Freeing(s)'
    BY <2>1, <2>5, <2>8, <2>9, <2>12, <2>14, <2>15 DEF Freeing
  <2>17. s.phase # "boot"
    BY <1>2, <2>5 DEF Ready
  <2>. QED  BY <1>7, <2>2, <2>6, <2>16, <2>17 DEF Inv, Control
<1>9. CASE result # "nothing"
  <2>1. PICK c, d : c = Call("become", "context", v) /\ d = Call("load_image", img, v)
    OBVIOUS
  <2>2. todo' = <<c, d>> \o t /\ result' = "ok"
    BY <1>3, <1>9, <2>1 DEF LoadFill, Calls
  <2>3. PICK s : s = Known(sc, v, "memory")
    OBVIOUS
  <2>4. /\ "memory" \in Kind /\ "memory" \in Knowledge /\ "context" \in Knowledge
        /\ "k_ram" \in Variable /\ "context" \in Kind \ {"memory"}
    BY DEF Kind, Knowledge, Variable
  <2>5. /\ s \in Scope /\ s.at[v] = "memory" /\ s.phase = sc.phase
        /\ \A x \in Variable \ {v} : s.at[x] = sc.at[x]
    <3>1. v \in Variable /\ "memory" \in Knowledge /\ sc \in Scope
      BY <1>4, <1>5, <2>4
    <3>. QED  BY ONLY <2>3, <3>1, KnownIs
  <2>6. Has(v, "memory")' /\ v \in DOMAIN local
    BY <1>6, <1>7, <1>9, <2>2, <2>4 DEF Stays, Has
  <2>7. Fits(s)'
    BY <1>2, <1>4, <1>7, <2>2, <2>3, <2>4, <2>6, FitsKnown
  <2>8. PICK s2 : s2 = Known(s, v, "context")
    OBVIOUS
  <2>9. /\ s2 \in Scope /\ s2.at[v] = "context" /\ s2.phase = sc.phase
        /\ \A x \in Variable \ {v} : s2.at[x] = sc.at[x]
    <3>1. v \in Variable /\ "context" \in Knowledge /\ s \in Scope
      BY <1>4, <2>4, <2>5
    <3>2. /\ s2 \in Scope /\ s2.at[v] = "context" /\ s2.phase = s.phase
          /\ \A x \in Variable \ {v} : s2.at[x] = s.at[x]
      BY ONLY <2>8, <3>1, KnownIs
    <3>. QED  BY <2>5, <3>2
  <2>10. v \in Opened(sc)
    BY <1>2, <2>6 DEF Fits
  <2>11. Opened(s) \in SUBSET Opened(sc) /\ Opened(s2) \in SUBSET Opened(sc)
    BY <2>5, <2>9, <2>10 DEF Opened
  <2>12. Deep(Opened(s)) /\ Deep(Opened(s2))
    BY <1>2, <2>11, OpenedIs, DeepWithin DEF Ready
  <2>13. Allowed(c, s) /\ After(c, s) = s2
    BY <1>2, <1>4, <2>1, <2>4, <2>5, <2>8, <2>12, AllowBecome DEF Ready
  <2>14. Allowed(d, s2) /\ After(d, s2) = Loaded(s2, v)
    BY <1>2, <1>4, <2>1, <2>4, <2>9, <2>12, AllowLoadImage DEF Ready
  <2>15. Loaded(s2, v) = Loaded(sc, v)
    BY <1>4, <1>5, <2>9, LoadedSame
  <2>16. Ok(<<c, d>> \o t, s)
    BY <1>5, <2>5, <2>9, <2>13, <2>14, <2>15, OkTwo
  <2>. QED  BY <1>7, <2>2, <2>7, <2>16 DEF Inv, Control
<1>. QED  BY <1>8, <1>9

LEMMA AllocMemStep ==
  ASSUME Inv, AllocMem, UNCHANGED program
  PROVE  Inv'
<1>1. /\ todo # << >> /\ Head(todo).op = "alloc_mem" /\ Control
      /\ UNCHANGED <<app, tableVars, keyVars, poolVars, program>>
  BY DEF AllocMem, At, Inv
<1>2. PICK sc : /\ Fits(sc) /\ Ready(sc) /\ Allowed(Head(todo), sc)
                /\ Ok(Tail(todo), After(Head(todo), sc))
                /\ Tail(todo) \in Seq(Range(Tail(todo)))
  BY <1>1, CallIs DEF Library, Ready
<1>3. PICK v, arg, t : v = Var /\ arg = Arg /\ t = Tail(todo)
  OBVIOUS
<1>4. /\ v \in Variable \ {"k_img"} /\ sc.at[v] = "out" /\ arg \in [level : Int, brand : Brands]
  BY <1>1, <1>2, <1>3 DEF Allowed, Var, Arg, Brands
<1>5. Ok(t, Pending(sc, v, "memory")) /\ sc \in Scope /\ "memory" \in Kind
  BY <1>1, <1>2, <1>3, AfterIs DEF Var, Ready, Kind
<1>6. v \notin DOMAIN local /\ Mine = DOMAIN local
  BY <1>2, <1>4, FitsMine DEF Fits, Opened
<1>7. ASSUME result' # "keys"
      PROVE  /\ Memories' /\ Registers' /\ Programs' /\ DOMAIN local' = DOMAIN local
             /\ \A w \in DOMAIN local : Stays(w)
             /\ InPhase(sc.phase)'
  BY <1>1, <1>2, <1>6, <1>7, SameStep DEF Fits, Ready
<1>. DEFINE serving == {l \in Level : l >= Arg.level /\ mem_roots[l] # 0}
<1>8. CASE Arg.level < MinLevel \/ serving = {}
  <2>1. todo' = t /\ result' = "nothing"
    BY <1>3, <1>8 DEF AllocMem, Return
  <2>2. PICK s : s = Pending(sc, v, "memory")
    OBVIOUS
  <2>3. Fits(s)'
    BY <1>2, <1>4, <1>5, <1>6, <1>7, <2>1, <2>2, FitsPending
  <2>. QED  BY <1>5, <1>7, <2>1, <2>2, <2>3 DEF Inv, Control
<1>9. CASE ~ (Arg.level < MinLevel \/ serving = {})
  <2>1. PICK c : c = Call("descend", [level |-> arg.level, brand |-> arg.brand,
                                      from |-> Min(serving)], v)
    OBVIOUS
  <2>2. todo' = <<c>> \o t /\ result' = "ok"
    BY <1>3, <1>9, <2>1 DEF AllocMem, Calls
  <2>3. /\ Min(serving) \in Level /\ Min(serving) >= arg.level
        /\ mem_roots[Min(serving)] # 0
    <3>1. serving \in SUBSET Nat
      BY SysAssumption DEF Level
    <3>2. Min(serving) \in serving
      BY <1>9, <3>1, MinIs
    <3>. QED  BY <1>3, <3>2
  <2>4. arg.level \in Nat /\ arg.level >= MinLevel /\ arg.brand \in Brands /\ MinLevel \in Nat
    BY <1>3, <1>4, <1>9 DEF MinLevel
  <2>. HIDE DEF serving
  <2>5. PICK m : m = Min(serving)
    OBVIOUS
  <2>6. /\ c.op = "descend" /\ c.var = v
        /\ c.arg = [level |-> arg.level, brand |-> arg.brand, from |-> m]
    BY <2>1, <2>5 DEF Call
  <2>7. PICK s : s = Forget(sc)
    OBVIOUS
  <2>8. s \in Scope /\ s.at = sc.at /\ s.phase = sc.phase
    BY <1>5, <2>7, ForgetIs
  <2>9. Fits(s)'
    BY <1>2, <1>6, <1>7, <2>2, <2>7, FitsForget
  <2>10. Pending(s, v, "memory") = Pending(sc, v, "memory")
    BY <1>4, <1>5, <2>8, PendingSame
  <2>11. /\ todo' \in Seq(Range(t) \cup {c}) /\ Head(todo') = c /\ Tail(todo') = t
         /\ todo' # << >>
    BY <1>2, <1>3, <2>2, ConsProperties
  <2>12. NonEmpty(todo')
    BY <2>11, OwnRange DEF NonEmpty
  <2>13. Deep(Opened(s))
    <3>1. Opened(s) = Opened(sc)
      BY <2>8 DEF Opened
    <3>. QED  BY <1>2, <3>1 DEF Ready
  <2>14. mem_roots' = mem_roots
    BY <1>1 DEF poolVars
  <2>15. /\ c.arg.level = arg.level /\ c.arg.from = m
         /\ c.arg \in [level : Nat, brand : Brands, from : Level]
    BY <2>3, <2>4, <2>5, <2>6
  <2>16. Descending(s)'
    <3>1. Arg' = c.arg /\ Var' = v
      BY <2>6, <2>11 DEF Arg, Var
    <3>. HIDE DEF Level, MinLevel, Brands
    <3>2. s.at[v] = "out"
      BY <1>4, <2>8
    <3>. QED  BY <1>4, <1>5, <2>3, <2>4, <2>5, <2>6, <2>10, <2>11, <2>12, <2>13, <2>14, <2>15,
                 <3>1, <3>2 DEF Descending
  <2>17. s.phase # "boot"
    BY <1>2, <2>8 DEF Ready
  <2>. QED  BY <1>7, <2>2, <2>9, <2>16, <2>17 DEF Inv, Control
<1>. QED  BY <1>8, <1>9

LEMMA AnyEndsStep ==
  ASSUME Inv, AnyEnds
  PROVE  Inv'
<1>1. /\ todo # << >> /\ Head(todo).op = "any" /\ Control
      /\ UNCHANGED <<app, tableVars, keyVars, poolVars, program>>
      /\ todo' = Tail(todo) /\ result' = "ok"
  BY DEF AnyEnds, At, Inv, Kept, Return
<1>2. PICK sc : /\ Fits(sc) /\ Ready(sc) /\ Allowed(Head(todo), sc)
                /\ Ok(Tail(todo), After(Head(todo), sc))
  BY <1>1, CallIs DEF Library, Ready
<1>3. PICK s : s = AfterAny(sc)
  OBVIOUS
<1>4. Ok(Tail(todo), s)
  BY <1>1, <1>2, <1>3, AfterIs
<1>5. /\ s \in Scope /\ s.last = NoVar /\ s.phase = sc.phase
      /\ \A v \in Variable : s.at[v] = IF v \in AnyVar THEN "maybe" ELSE sc.at[v]
  BY <1>2, <1>3, AfterAnyIs DEF Ready
<1>6. Mine = DOMAIN local
  BY <1>2, FitsMine
<1>7. /\ Memories' /\ Registers' /\ Programs' /\ DOMAIN local' = DOMAIN local
      /\ \A w \in DOMAIN local : Stays(w)
      /\ InPhase(s.phase)'
  BY <1>1, <1>2, <1>5, <1>6, SameStep DEF Fits, Ready
<1>8. \A v \in DOMAIN local : v \in Opened(s)
  BY <1>2, <1>5 DEF Fits, Opened
<1>9. ASSUME NEW v \in Variable
      PROVE  /\ s.at[v] \notin {"out", "maybe"} => v \in DOMAIN local
             /\ s.at[v] \in Kind => Has(v, s.at[v])'
  <2>1. CASE v \in AnyVar
    BY <1>5, <2>1 DEF Kind
  <2>2. CASE v \notin AnyVar
    <3>1. /\ s.at[v] \notin {"out", "maybe"} => v \in DOMAIN local
          /\ s.at[v] \in Kind => Has(v, s.at[v])
      BY <1>2, <1>5, <2>2 DEF Fits
    <3>2. s.at[v] \in Kind => Has(v, s.at[v])'
      BY <1>7, <3>1 DEF Stays, Has
    <3>. QED  BY <3>1, <3>2
  <2>. QED  BY <2>1, <2>2
<1>10. Fits(s)'
  <2>. HIDE DEF Opened, InPhase, Has, NoVar, Kind, Variable
  <2>. QED  BY <1>5, <1>7, <1>8, <1>9 DEF Fits
<1>. QED  BY <1>1, <1>4, <1>7, <1>10 DEF Inv, Control

-----------------------------------------------------------------------------
(* The steps of the startup *)

\* The phase depends on nothing else of the programs than who may run.
LEMMA PhaseWith ==
  ASSUME NEW phase, phase # "boot", InPhase(phase), UNCHANGED <<app, object, generation>>,
         \A p \in Table : /\ program'[p].runnable = program[p].runnable
                          /\ program'[p].priority = program[p].priority,
         Mine' \subseteq Mine, \A w \in Mine' : Held(w)' = Held(w)
  PROVE  InPhase(phase)'
<1>1. CASE phase = "idle"
  <2>1. PICK p \in Table \ {Self} : IsIdle(p)
    BY <1>1 DEF InPhase, IdleThere
  <2>2. \A v \in Mine' : Live(Held(v))' <=> Live(Held(v))
    BY DEF Live
  <2>3. IsIdle(p)'
    BY <2>1, <2>2, IdleKept
  <2>4. p \in Table' \ {Self}
    BY DEF Table
  <2>. QED  BY <1>1, <2>3, <2>4 DEF InPhase, IdleThere
<1>2. CASE phase # "idle"
  BY <1>2 DEF InPhase, Quiet, Table
<1>. QED  BY <1>1, <1>2

\* A key is put into a Context.
LEMMA GivePrograms ==
  ASSUME Programs, app' = app, NEW p, NEW n, NEW k, n = 15 => k.brand.n = p,
         program' = [program EXCEPT ![p].key[n] = k]
  PROVE  /\ Programs'
         /\ \A q \in Table : /\ program'[q].runnable = program[q].runnable
                             /\ program'[q].priority = program[q].priority
<1>1. Table' = Table /\ program = [q \in Table |-> program[q]]
  BY DEF Programs, Table
<1>2. \A q \in Table : IsContext(program[q])
        /\ (program[q].key[15] # NullKey => program[q].key[15].brand.n = q)
  BY DEF Programs
<1>3. program' = [q \in Table |-> program'[q]] /\ \A q \in Table \ {p} : program'[q] = program[q]
  BY <1>1
<1>4. ASSUME p \in Table
      PROVE  /\ IsContext(program'[p])
             /\ program'[p].key[15] # NullKey => program'[p].key[15].brand.n = p
             /\ program'[p].runnable = program[p].runnable
             /\ program'[p].priority = program[p].priority
  <2>1. PICK c : c = program[p]
    OBVIOUS
  <2>2. PICK d : d = [c EXCEPT !.key[n] = k]
    OBVIOUS
  <2>3. program'[p] = d
    BY <1>1, <1>4, <2>1, <2>2
  <2>4. c = [key |-> c.key, region |-> c.region, priority |-> c.priority,
             runnable |-> c.runnable, pc |-> c.pc, sp |-> c.sp, got |-> c.got]
          /\ c.key = [m \in 11 .. 15 |-> c.key[m]]
    BY <1>2, <1>4, <2>1 DEF IsContext
  <2>5. PICK e : e = [c.key EXCEPT ![n] = k]
    OBVIOUS
  <2>6. d = [key |-> e, region |-> c.region, priority |-> c.priority,
             runnable |-> c.runnable, pc |-> c.pc, sp |-> c.sp, got |-> c.got]
    BY <2>2, <2>4, <2>5
  <2>7. e = [m \in 11 .. 15 |-> e[m]] /\ (n # 15 => e[15] = c.key[15]) /\ (n = 15 => e[15] = k)
    <3>1. PICK f, I : f = c.key /\ I = 11 .. 15
      OBVIOUS
    <3>2. f = [m \in I |-> f[m]] /\ 15 \in I /\ e = [f EXCEPT ![n] = k]
      BY <2>4, <2>5, <3>1
    <3>3. e = [m \in I |-> e[m]] /\ (n # 15 => e[15] = f[15]) /\ (n = 15 => e[15] = k)
      BY ONLY <3>2
    <3>. QED  BY <3>1, <3>3
  <2>8. IsContext(d) /\ d.key = e /\ d.runnable = c.runnable /\ d.priority = c.priority
    BY <2>6, <2>7 DEF IsContext
  <2>9. e[15] # NullKey => e[15].brand.n = p
    BY <1>2, <1>4, <2>1, <2>7
  <2>. QED  BY <2>1, <2>3, <2>8, <2>9
<1>5. ASSUME NEW q \in Table
      PROVE  /\ IsContext(program'[q])
             /\ program'[q].key[15] # NullKey => program'[q].key[15].brand.n = q
             /\ program'[q].runnable = program[q].runnable
             /\ program'[q].priority = program[q].priority
  BY <1>2, <1>3, <1>4
<1>6. IsContext(program[0])' <=> IsContext(program'[0])
  BY DEF IsContext
<1>7. \A q \in Table' : IsContext(program[q])'
        /\ (program'[q].key[15] # NullKey => program'[q].key[15].brand.n = q)
  BY <1>1, <1>5 DEF IsContext
<1>8. program' = [q \in Table' |-> program'[q]]
  BY <1>1, <1>3
<1>9. Programs'
  BY <1>7, <1>8 DEF Programs, NullKey
<1>. QED  BY <1>5, <1>9

\* A step that changes no object and no variable.
LEMMA SameParts ==
  ASSUME Inv, UNCHANGED <<app, tableVars, keyVars, poolVars>>, result' # "keys"
  PROVE  /\ Memories' /\ Registers'
         /\ DOMAIN local' = DOMAIN local /\ Mine' = Mine
         /\ \A w \in DOMAIN local : Held(w)' = Held(w)
         /\ \A w \in DOMAIN local : Stays(w)
<1>1. Memories /\ Registers
  BY DEF Inv
<1>2. /\ UNCHANGED <<app, tableVars, mem_roots>> /\ slots_used' = slots_used
      /\ UNCHANGED <<available_keys, local>> /\ keys' = keys
      /\ UNCHANGED <<app, object, generation>>
  BY DEF tableVars, keyVars, poolVars
<1>3. keys' \in [Reg -> Key]
  BY <1>1, <1>2 DEF Registers
<1>4. Registers' /\ DOMAIN local' = DOMAIN local /\ \A w \in DOMAIN local : Held(w)' = Held(w)
  BY <1>1, <1>2, <1>3, SameRegisters
<1>5. Mine' = Mine /\ \A w \in Mine' : Held(w)' = Held(w)
  BY <1>4 DEF Mine
<1>6. Memories'
  BY <1>1, <1>2, <1>5, SameMemories
<1>7. ASSUME NEW w \in DOMAIN local  PROVE Stays(w)
  BY <1>2, <1>4, HasStays
<1>. QED  BY <1>4, <1>5, <1>6, <1>7

Unknowing == {"make_self_key", "give_syscall_key", "set_key", "give_client_key", "give_apb",
              "set_target", "start"}

\* A call that tells nothing of the variables is over.
LEMMA ForgetStep ==
  ASSUME Memories', Registers', Programs', DOMAIN local' = DOMAIN local,
         \A w \in DOMAIN local : Stays(w), Head(todo).op \in Unknowing,
         NEW sc \in Scope, Fits(sc), Ok(Tail(todo), After(Head(todo), sc)),
         InPhase(sc.phase)', Return("ok")
  PROVE  Inv'
<1>1. todo' = Tail(todo)
  BY DEF Return
<1>2. PICK s : s = Forget(sc)
  OBVIOUS
<1>3. Ok(Tail(todo), s)
  BY <1>2, AfterIs DEF Unknowing
<1>4. Fits(s)'
  BY <1>2, FitsForget
<1>. QED  BY <1>1, <1>3, <1>4 DEF Inv, Control

\* A key is given to the program that is being set up.
LEMMA GiveStep ==
  ASSUME Inv, NEW n, NEW k, Give(n, k), todo # << >>, Head(todo).op \in Unknowing,
         NEW p, p = Target(Held("k_prog")), n = 15 => k.brand.n = p
  PROVE  Inv'
<1>1. /\ UNCHANGED <<app, tableVars, keyVars, poolVars>> /\ Programs /\ Control
      /\ UNCHANGED <<app, object, generation>> /\ Registers
      /\ program' = [program EXCEPT ![p].key[n] = k]
  BY DEF Inv, Give, Kept, tableVars
<1>2. PICK sc : /\ Fits(sc) /\ sc \in Scope /\ Deep(Opened(sc)) /\ sc.phase # "boot"
                /\ Ok(Tail(todo), After(Head(todo), sc))
  BY <1>1, CallIs DEF Library, Unknowing
<1>3. Return("ok") /\ result' # "keys"
  BY <1>1, <1>2, ScopeHasRoom DEF Give, Return
<1>4. /\ Memories' /\ Registers'
      /\ DOMAIN local' = DOMAIN local /\ Mine' = Mine
      /\ \A w \in DOMAIN local : Held(w)' = Held(w)
      /\ \A w \in DOMAIN local : Stays(w)
  BY <1>1, <1>3, SameParts
<1>5. /\ Programs'
      /\ \A q \in Table : /\ program'[q].runnable = program[q].runnable
                          /\ program'[q].priority = program[q].priority
  BY <1>1, GivePrograms
<1>6. InPhase(sc.phase)'
  <2>1. Mine' \subseteq Mine /\ \A w \in Mine' : Held(w)' = Held(w)
    BY <1>4 DEF Mine
  <2>2. InPhase(sc.phase)
    BY <1>2 DEF Fits
  <2>. QED  BY <1>1, <1>2, <1>5, <2>1, <2>2, PhaseWith
<1>. QED  BY <1>2, <1>3, <1>4, <1>5, <1>6, ForgetStep

LEMMA GiveApbStep == ASSUME Inv, GiveApb  PROVE Inv'
<1>1. todo # << >> /\ Head(todo).op = "give_apb" /\ Control
  BY DEF GiveApb, At, Inv
<1>2. PICK n, k, p : n = Arg /\ k = Minted(Apb, Brand(FALSE, NoExecute))
                       /\ p = Target(Held("k_prog"))
  OBVIOUS
<1>3. n # 15
  BY <1>1, <1>2, CallIs DEF Library, Allowed, Arg
<1>. QED  BY <1>1, <1>2, <1>3, GiveStep DEF GiveApb, Unknowing

LEMMA SetKeyStep == ASSUME Inv, SetKey  PROVE Inv'
<1>1. todo # << >> /\ Head(todo).op = "set_key" /\ Control
  BY DEF SetKey, At, Inv
<1>2. PICK n, k, p : n = Arg /\ k = Held(Var) /\ p = Target(Held("k_prog"))
  OBVIOUS
<1>3. n # 15
  BY <1>1, <1>2, CallIs DEF Library, Allowed, Arg
<1>. QED  BY <1>1, <1>2, <1>3, GiveStep DEF SetKey, Unknowing

LEMMA GiveClientKeyStep == ASSUME Inv, GiveClientKey  PROVE Inv'
<1>1. todo # << >> /\ Head(todo).op = "give_client_key" /\ Control
  BY DEF GiveClientKey, At, Inv
<1>2. PICK n, k, p : n = Arg /\ k = [Held(Var) EXCEPT !.brand = Brand(TRUE, 0)]
                       /\ p = Target(Held("k_prog"))
  OBVIOUS
<1>3. n # 15
  BY <1>1, <1>2, CallIs DEF Library, Allowed, Arg
<1>. QED  BY <1>1, <1>2, <1>3, GiveStep DEF GiveClientKey, Unknowing

LEMMA GiveSyscallKeyStep == ASSUME Inv, GiveSyscallKey  PROVE Inv'
<1>1. todo # << >> /\ Head(todo).op = "give_syscall_key" /\ Control /\ Memories /\ Registers
  BY DEF GiveSyscallKey, At, Inv
<1>2. PICK sc : Fits(sc) /\ Allowed(Head(todo), sc)
  BY <1>1, CallIs DEF Library
<1>3. Var = "k_prog" /\ sc.at["k_prog"] = "context"
  BY <1>1, <1>2 DEF Allowed, Var
<1>4. "k_prog" \in DOMAIN local /\ Has("k_prog", "context") /\ "k_prog" \in Mine
  BY <1>2, <1>3 DEF Fits, Kind, Variable, Mine
<1>5. PICK n, k, p : /\ n = 15 /\ k = [keys[kgate] EXCEPT !.brand = Brand(TRUE, Held(Var).obj)]
                     /\ p = Target(Held("k_prog"))
  OBVIOUS
<1>6. p = Held(Var).obj
  BY <1>1, <1>3, <1>4, <1>5, TargetIs DEF Has
<1>7. k.brand.n = p
  <2>1. keys[kgate] \in Key
    BY <1>1, SysAssumption DEF Registers, Reg, kgate
  <2>2. PICK g \in Key : g = keys[kgate]
    BY <2>1
  <2>. QED  BY <1>5, <1>6, <2>2 DEF Key, Brand
<1>8. Give(n, k)
  BY <1>5 DEF GiveSyscallKey
<1>. QED  BY <1>1, <1>5, <1>7, <1>8, GiveStep DEF Unknowing

LEMMA SetTargetStep == ASSUME Inv, SetTarget  PROVE Inv'
<1>1. /\ UNCHANGED <<app, tableVars, keyVars, poolVars, program>> /\ Control /\ Registers
      /\ UNCHANGED <<app, tableVars, keyVars, poolVars>>
      /\ todo # << >> /\ Head(todo).op = "set_target"
  BY DEF Inv, SetTarget, Kept, At
<1>2. PICK sc : /\ Fits(sc) /\ sc \in Scope /\ Deep(Opened(sc)) /\ sc.phase # "boot"
                /\ Ok(Tail(todo), After(Head(todo), sc))
  BY <1>1, CallIs DEF Library
<1>3. Return("ok") /\ result' # "keys"
  BY <1>1, <1>2, ScopeHasRoom DEF SetTarget, Return
<1>4. /\ Memories' /\ Registers' /\ Programs'
      /\ DOMAIN local' = DOMAIN local /\ InPhase(sc.phase)'
  BY <1>1, <1>2, <1>3, SameStep DEF Fits
<1>5. \A w \in DOMAIN local : Stays(w)
  BY <1>1, <1>3, SameParts
<1>. QED  BY <1>1, <1>2, <1>3, <1>4, <1>5, ForgetStep DEF Unknowing

LEMMA MakeSelfKeyStep == ASSUME Inv, MakeSelfKey  PROVE Inv'
<1>1. /\ UNCHANGED <<app, tableVars, poolVars, available_keys, local, program>> /\ Control
      /\ Registers /\ Memories /\ Programs
      /\ keys' = [keys EXCEPT ![kself] = Minted(Self, Plain)]
      /\ UNCHANGED <<app, object, generation>> /\ UNCHANGED <<available_keys, local>>
      /\ UNCHANGED <<app, tableVars, mem_roots>> /\ slots_used' = slots_used
      /\ todo # << >> /\ Head(todo).op = "make_self_key"
  BY DEF Inv, MakeSelfKey, Kept, At, tableVars, poolVars
<1>2. PICK sc : /\ Fits(sc) /\ sc \in Scope /\ Deep(Opened(sc)) /\ sc.phase # "boot"
                /\ Ok(Tail(todo), After(Head(todo), sc))
  BY <1>1, CallIs DEF Library
<1>3. Return("ok") /\ result' # "keys"
  BY <1>1, <1>2, ScopeHasRoom DEF MakeSelfKey, Return
<1>4. keys' \in [Reg -> Key] /\ \A r \in Reg \ {0, 1, kself, kgate} : keys'[r] = keys[r]
  <2>1. generation[Self] \in Nat
    BY <1>1, TableIs
  <2>2. PICK k : k = Minted(Self, Plain)
    OBVIOUS
  <2>3. k \in Key
    BY <2>1, <2>2 DEF Minted, Key, Plain, Brand, Brands, Self
  <2>. QED  BY <1>1, <2>2, <2>3 DEF Registers
<1>5. /\ Registers' /\ DOMAIN local' = DOMAIN local
      /\ \A w \in DOMAIN local : Held(w)' = Held(w)
  BY <1>1, <1>3, <1>4, SameRegisters
<1>6. Mine' = Mine /\ Mine = DOMAIN local /\ \A w \in Mine' : Held(w)' = Held(w)
  BY <1>2, <1>5, FitsMine DEF Mine
<1>7. Memories' /\ Programs'
  BY <1>1, <1>6, SameMemories, SamePrograms
<1>8. InPhase(sc.phase)' /\ \A w \in DOMAIN local : Stays(w)
  <2>1. InPhase(sc.phase)
    BY <1>2 DEF Fits
  <2>. QED  BY <1>1, <1>2, <1>6, <2>1, FramePhase
<1>. QED  BY <1>1, <1>2, <1>3, <1>5, <1>7, <1>8, ForgetStep DEF Unknowing

-----------------------------------------------------------------------------
(* The steps that make, use and give up keys *)

\* Keys that minting makes.
LEMMA MintedIs ==
  ASSUME Memories, NEW i \in Table, NEW b \in Brands
  PROVE  Minted(i, b) \in Key /\ Minted(i, b).obj = i /\ Minted(i, b).gen = generation[i]
<1>1. generation[i] \in Nat /\ i \in Nat
  BY TableIs DEF Table
<1>. QED  BY <1>1 DEF Minted, Key, Brands

LEMMA PlainIs == Plain \in Brands
BY DEF Plain, Brand, Brands

\* The AutoKeys of a scope that ends, and nothing of the table.
LEMMA DropStep ==
  ASSUME Inv, NEW vs, vs \subseteq DOMAIN local, Drop(vs), UNCHANGED <<app, tableVars, poolVars>>,
         keys' \in [Reg -> Key],
         \A r \in Reg \ {0, 1, kself, kgate} : keys'[r] = keys[r], result' # "keys"
  PROVE  /\ Memories' /\ Registers'
         /\ DOMAIN local' = DOMAIN local \ vs /\ Mine' \subseteq Mine
         /\ \A w \in DOMAIN local' : Held(w)' = Held(w)
         /\ \A w \in DOMAIN local' : Stays(w)
<1>1. Memories /\ Registers
  BY DEF Inv
<1>2. /\ UNCHANGED <<app, tableVars, mem_roots>> /\ slots_used' = slots_used
      /\ UNCHANGED <<object, generation>>
  BY DEF tableVars, poolVars
<1>3. /\ Registers' /\ DOMAIN local' = DOMAIN local \ vs
      /\ \A w \in DOMAIN local' : Held(w)' = Held(w)
  BY <1>1, DropRegisters
<1>4. Mine' \subseteq Mine /\ \A w \in Mine' : Held(w)' = Held(w)
  BY <1>3 DEF Mine
<1>5. Memories'
  BY <1>1, <1>2, <1>4, SameMemories
<1>6. ASSUME NEW w \in DOMAIN local'  PROVE Stays(w)
  BY <1>2, <1>3, HasStays
<1>. QED  BY <1>3, <1>4, <1>5, <1>6

LEMMA ReleaseStep ==
  ASSUME Inv, Release, UNCHANGED program
  PROVE  Inv'
<1>1. /\ todo # << >> /\ Head(todo).op = "release" /\ Control /\ Programs /\ Registers
      /\ UNCHANGED <<app, tableVars, poolVars>> /\ UNCHANGED <<app, object, generation, program>>
      /\ keys' = keys /\ todo' = Tail(todo) /\ result' = "ok"
  BY DEF Release, At, Inv, Return, tableVars
<1>2. PICK sc : /\ Fits(sc) /\ sc \in Scope /\ Allowed(Head(todo), sc) /\ sc.phase # "boot"
                /\ Ok(Tail(todo), After(Head(todo), sc))
  BY <1>1, CallIs DEF Library
<1>3. PICK v, vs, s : v = Var /\ vs = {v} \cap DOMAIN local /\ s = Known(sc, v, "out")
  OBVIOUS
<1>4. v \in Variable /\ Ok(Tail(todo), s)
  BY <1>1, <1>2, <1>3, AfterIs DEF Allowed, Var
<1>5. keys' \in [Reg -> Key] /\ vs \subseteq DOMAIN local /\ Drop(vs)
  BY <1>1, <1>3 DEF Registers, Release
<1>6. /\ Memories' /\ Registers'
      /\ DOMAIN local' = DOMAIN local \ vs /\ Mine' \subseteq Mine
      /\ \A w \in DOMAIN local' : Held(w)' = Held(w)
      /\ \A w \in DOMAIN local' : Stays(w)
  BY <1>1, <1>5, DropStep
<1>7. InPhase(sc.phase)' /\ Programs'
  <2>1. InPhase(sc.phase) /\ \A w \in Mine' : Held(w)' = Held(w)
    BY <1>2, <1>6 DEF Fits, Mine
  <2>. QED  BY <1>1, <1>2, <1>6, <2>1, FramePhase, SamePrograms
<1>8. Fits(s)'
  <2>1. /\ DOMAIN local' \ {v} = DOMAIN local \ {v} /\ v \notin DOMAIN local'
        /\ \A w \in DOMAIN local \ {v} : Stays(w)
    BY <1>3, <1>6
  <2>2. "out" \in Knowledge /\ "out" \notin Kind
    BY DEF Knowledge, Kind
  <2>. QED  BY <1>2, <1>3, <1>4, <1>7, <2>1, <2>2, FitsKnown
<1>. QED  BY <1>1, <1>4, <1>6, <1>7, <1>8 DEF Inv, Control

LEMMA AllocSlotStep ==
  ASSUME Inv, AllocSlot, UNCHANGED program
  PROVE  Inv'
<1>1. /\ todo # << >> /\ Head(todo).op = "alloc_slot" /\ Control /\ Programs /\ Registers
      /\ Memories /\ UNCHANGED <<app, tableVars, mem_roots>>
      /\ UNCHANGED <<app, object, generation, program>>
  BY DEF AllocSlot, At, Inv, tableVars
<1>2. PICK sc : /\ Fits(sc) /\ sc \in Scope /\ Allowed(Head(todo), sc) /\ sc.phase # "boot"
                /\ Deep(Opened(sc)) /\ Ok(Tail(todo), After(Head(todo), sc))
  BY <1>1, CallIs DEF Library
<1>3. PICK v, s : v = Var /\ s = Known(sc, v, "held")
  OBVIOUS
<1>4. v \in Variable \ {"k_img"} /\ sc.at[v] = "out" /\ Ok(Tail(todo), s)
  BY <1>1, <1>2, <1>3, AfterIs DEF Allowed, Var
<1>5. Mine = DOMAIN local /\ v \notin DOMAIN local /\ Room(1)
  BY <1>1, <1>2, <1>4, FitsMine, ScopeHasRoom DEF Fits, Opened
<1>6. CASE ~ NoSlots /\ NextSlot \in Index
  <2>1. PICK k, n : n = NextSlot /\ k = Minted(n, Plain)
    OBVIOUS
  <2>2. /\ Keep(v, k) /\ todo' = Tail(todo) /\ result' = "ok" /\ slots_used' = slots_used + 1
    BY <1>3, <1>5, <1>6, <2>1 DEF AllocSlot, Result, Return
  <2>3. n \in Table /\ k \in Key /\ k.obj = n
    BY <1>1, <1>6, <2>1, TableIs, MintedIs, PlainIs
  <2>4. /\ Registers' /\ DOMAIN local' = DOMAIN local \cup {v} /\ Held(v)' = k
        /\ \A w \in DOMAIN local : Held(w)' = Held(w)
    BY <1>1, <1>5, <2>2, <2>3, KeepRegisters
  <2>5. Mine' = Mine \cup {v} /\ v \notin Mine /\ \A w \in Mine : Held(w)' = Held(w)
    BY <1>4, <1>5, <2>4 DEF Mine
  <2>6. Memories'
    BY <1>1, <2>1, <2>2, <2>3, <2>4, <2>5, SlotMemories
  <2>7. \A w \in DOMAIN local : Stays(w)
    BY <1>1, <2>4, HasStays
  <2>8. object[n].kind = "slot"
    <3>1. \A i \in Table : i >= NextSlot => object[i].kind = "slot"
      BY <1>1 DEF Memories, Shape
    <3>2. NextSlot >= NextSlot
      BY <1>1, TableIs
    <3>. QED  BY <2>1, <2>3, <3>1, <3>2
  <2>9. InPhase(sc.phase)'
    <3>1. ASSUME NEW w \in Mine', Live(Held(w))'
          PROVE  \/ w \in Mine /\ Live(Held(w)) /\ Held(w)'.obj = Held(w).obj
                 \/ object[Held(w)'.obj].kind # "context"
      <4>1. CASE w = v
        BY <2>3, <2>4, <2>8, <4>1
      <4>2. CASE w # v
        <5>1. w \in Mine /\ Held(w)' = Held(w)
          BY <2>5, <4>2
        <5>. QED  BY <1>1, <3>1, <5>1 DEF Live
      <4>. QED  BY <4>1, <4>2
    <3>2. InPhase(sc.phase)
      BY <1>2 DEF Fits
    <3>. QED  BY <1>1, <1>2, <3>1, <3>2, PhaseKept
  <2>10. Fits(s)'
    <3>1. "held" \in Knowledge /\ "held" \notin Kind /\ "held" # "out"
      BY DEF Knowledge, Kind
    <3>. QED  BY <1>2, <1>3, <1>4, <2>4, <2>7, <2>9, <3>1, FitsKnown
  <2>11. Programs'
    BY <1>1, SamePrograms
  <2>. QED  BY <1>4, <2>2, <2>4, <2>6, <2>10, <2>11 DEF Inv, Control
<1>7. CASE ~ (~ NoSlots /\ NextSlot \in Index)
  <2>1. /\ Halt("assertion") /\ UNCHANGED <<available_keys, local>> /\ keys' = keys
        /\ slots_used' \in {slots_used, slots_used + 1} /\ result' # "keys"
    BY <1>7 DEF AllocSlot, keyVars, Halt
  <2>2. keys' \in [Reg -> Key]
    BY <1>1, <2>1 DEF Registers
  <2>3. Registers' /\ DOMAIN local' = DOMAIN local /\ \A w \in DOMAIN local : Held(w)' = Held(w)
    BY <1>1, <2>1, <2>2, SameRegisters
  <2>4. Mine' \subseteq Mine /\ \A w \in Mine' : Held(w)' = Held(w)
    BY <2>3 DEF Mine
  <2>5. Memories' /\ Programs'
    BY <1>1, <2>1, <2>4, SameMemories, SamePrograms
  <2>6. InPhase(sc.phase)'
    BY <1>1, <1>2, <2>4, FramePhase DEF Fits
  <2>. QED  BY <2>1, <2>3, <2>5, <2>6, HaltControl DEF Inv
<1>. QED  BY <1>6, <1>7

LEMMA BecomeStep ==
  ASSUME Inv, Become, UNCHANGED program
  PROVE  Inv'
<1>1. /\ todo # << >> /\ Head(todo).op = "become" /\ Control /\ Programs /\ Registers
      /\ Memories /\ UNCHANGED <<app, next, available_keys, local, mem_roots, slots_used, program>>
      /\ todo' = Tail(todo) /\ result' = "ok"
  BY DEF Become, At, Inv, poolVars, Return
<1>2. PICK sc : /\ Fits(sc) /\ sc \in Scope /\ Allowed(Head(todo), sc) /\ sc.phase # "boot"
                /\ Ok(Tail(todo), After(Head(todo), sc))
  BY <1>1, CallIs DEF Library
<1>3. PICK v, kind, s : v = Var /\ kind = Arg /\ s = Known(sc, v, kind)
  OBVIOUS
<1>4. v \in Variable /\ sc.at[v] = "memory" /\ kind \in Kind \ {"memory"} /\ Ok(Tail(todo), s)
  BY <1>1, <1>2, <1>3, AfterIs DEF Allowed, Var, Arg
<1>5. Mine = DOMAIN local /\ v \in DOMAIN local /\ Has(v, "memory")
  BY <1>2, <1>4, FitsMine DEF Fits, Kind
<1>6. PICK i : i = Target(Held(v))
  OBVIOUS
<1>7. i = Held(v).obj /\ Live(Held(v)) /\ object[i].kind = "memory" /\ i \in Table
  BY <1>1, <1>5, <1>6, TargetIs DEF Has
<1>8. /\ object' = [object EXCEPT ![i].kind = kind]
      /\ generation' = [generation EXCEPT ![i] = @ + 1]
      /\ keys' = [keys EXCEPT ![local[v]].gen = generation[i] + 1]
  BY <1>3, <1>6 DEF Become
<1>9. PICK r, D, F : r = local[v] /\ D = DOMAIN local /\ F = Reg \ {0, 1, kself, kgate}
  OBVIOUS
<1>10. /\ keys \in [Reg -> Key] /\ local \in [D -> F] /\ r \in F /\ r \in Reg
       /\ \A x, y \in D : local[x] = local[y] => x = y
  BY <1>1, <1>5, <1>9 DEF Registers, KeysBalanced
<1>11. generation[i] + 1 \in Nat
  BY <1>1, <1>7, TableIs
<1>12. PICK k : k = keys[r] /\ k \in Key /\ k = Held(v)
  BY <1>9, <1>10 DEF Held
<1>13. PICK k2 : k2 = [k EXCEPT !.gen = generation[i] + 1]
  OBVIOUS
<1>14. k2 \in Key
  BY <1>11, <1>12, <1>13 DEF Key
<1>15. keys' = [keys EXCEPT ![r] = k2]
  BY <1>8, <1>9, <1>12, <1>13
<1>16. keys' \in [Reg -> Key] /\ keys'[r] = k2 /\ \A x \in Reg \ {r} : keys'[x] = keys[x]
  BY ONLY <1>10, <1>14, <1>15
<1>17. Held(v)' = k2 /\ \A w \in D \ {v} : Held(w)' = Held(w)
  <2>1. Held(v)' = k2
    BY <1>1, <1>9, <1>16 DEF Held
  <2>2. ASSUME NEW w \in D \ {v}  PROVE Held(w)' = Held(w)
    <3>1. local[w] \in Reg \ {r}
      BY <1>5, <1>9, <1>10
    <3>. QED  BY <1>1, <1>16, <3>1 DEF Held
  <2>. QED  BY <2>1, <2>2
<1>18. Registers'
  <2>1. Range(local)' = Range(local)
    BY <1>1 DEF Range
  <2>2. KeysBalanced'
    BY <1>1, <2>1 DEF Registers, KeysBalanced, kself, kgate, Reg
  <2>. QED  BY <1>1, <1>9, <1>10, <1>16, <2>2 DEF Registers, Reg, kself, kgate, Key, Brands
<1>19. Mine' = Mine /\ DOMAIN local' = D
  BY <1>1, <1>9 DEF Mine
<1>20. /\ Memories' /\ Live(Held(v))' /\ Held(v)'.obj = i
       /\ object'[i].kind = kind
       /\ \A j \in Table \ {i} : object'[j] = object[j]
       /\ \A w \in Mine \ {v} : Live(Held(w))' <=> Live(Held(w))
       /\ \A w \in Mine \ {v} : Live(Held(w)) => Held(w).obj # i
  <2>1. v \in Mine /\ Held(v) \in Key /\ \A w \in Mine \ {v} : Held(w)' = Held(w)
    BY <1>5, <1>9, <1>12, <1>17
  <2>2. Held(v)' = [Held(v) EXCEPT !.gen = generation[i] + 1]
    BY <1>12, <1>13, <1>17
  <2>3. UNCHANGED <<app, next, mem_roots, slots_used>>
    BY <1>1
  <2>. QED  BY <1>1, <1>4, <1>6, <1>7, <1>8, <1>19, <2>1, <2>2, <2>3, BecomeMemories
<1>21. \A w \in D \ {v} : Stays(w)
  <2>. TAKE w \in D \ {v}
  <2>1. w \in Mine \ {v} /\ w \in DOMAIN local' /\ Held(w)' = Held(w)
    BY <1>5, <1>9, <1>17, <1>19
  <2>2. ASSUME Live(Held(w))
        PROVE  /\ generation'[Held(w).obj] = generation[Held(w).obj]
               /\ object'[Held(w).obj].kind = object[Held(w).obj].kind
    <3>1. Live(Held(w))' /\ Held(w).obj # i /\ Held(w).obj \in Table
      BY <1>1, <1>20, <2>1, <2>2, TargetIs
    <3>2. object'[Held(w).obj] = object[Held(w).obj]
      BY <1>20, <3>1
    <3>3. generation'[Held(w).obj] = Held(w).gen
      BY <2>1, <3>1 DEF Live
    <3>. QED  BY <2>2, <3>2, <3>3 DEF Live
  <2>. QED  BY <2>1, <2>2, HasStays
<1>22. InPhase(sc.phase)'
  <2>1. ASSUME NEW w \in Mine', Live(Held(w))'
        PROVE  \/ w \in Mine /\ Live(Held(w)) /\ Held(w)'.obj = Held(w).obj
               \/ object[Held(w)'.obj].kind # "context"
    <3>1. CASE w = v
      BY <1>7, <1>20, <3>1
    <3>2. CASE w # v
      BY <1>5, <1>9, <1>17, <1>19, <1>20, <2>1, <3>2
    <3>. QED  BY <3>1, <3>2
  <2>2. \A p \in Table : object[p].kind = "context" => object'[p].kind = "context"
    BY <1>7, <1>20
  <2>3. InPhase(sc.phase)
    BY <1>2 DEF Fits
  <2>. QED  BY <1>1, <1>2, <2>1, <2>2, <2>3, PhaseKept
<1>23. Fits(s)'
  <2>1. Has(v, kind)' /\ v \in DOMAIN local'
    BY <1>5, <1>9, <1>19, <1>20 DEF Has
  <2>2. kind \in Knowledge /\ kind # "out"
    BY <1>4 DEF Knowledge, Kind
  <2>. QED  BY <1>2, <1>3, <1>4, <1>9, <1>19, <1>21, <1>22, <2>1, <2>2, FitsKnown
<1>24. Programs'
  BY <1>1, SamePrograms
<1>. QED  BY <1>1, <1>4, <1>18, <1>20, <1>23, <1>24 DEF Inv, Control

\* free_mem is the application's or that of a failing load.
LEMMA FreeIs ==
  ASSUME Control, todo # << >>, Head(todo).op = "free_mem"
  PROVE  \E sc : /\ Fits(sc) /\ sc \in Scope /\ sc.phase # "boot" /\ Deep(Opened(sc))
                 /\ Var \in Variable \ {"k_img"} /\ sc.at[Var] \notin {"out", "maybe"}
                 /\ Ok(Tail(todo), Known(sc, Var, "held")) \/ (Freeing(sc) /\ Var = "k_ram")
<1>1. \A op, arg, var : Call(op, arg, var).op = op /\ Call(op, arg, var).var = var
  BY DEF Call
<1>2. \A op, arg, var : Head(<<Call(op, arg, var)>>).op = op
  BY <1>1
<1>3. ~ Halted /\ ~ Serving
  BY <1>2 DEF Halted, Serving
<1>4. PICK sc : /\ Fits(sc)
                /\ \/ Ok(todo, sc)
                   \/ sc.phase # "boot" /\ (Descending(sc) \/ Freeing(sc) \/ Failing(sc))
  BY <1>3 DEF Control
<1>5. ~ Descending(sc) /\ ~ Failing(sc) /\ sc \in Scope
  BY <1>1, <1>4 DEF Descending, Failing, Fits
<1>6. CASE Ok(todo, sc)
  <2>1. Allowed(Head(todo), sc) /\ Ok(Tail(todo), After(Head(todo), sc))
    BY <1>6, OkHead
  <2>2. PICK c : c = Head(todo)
    OBVIOUS
  <2>3. /\ Deep(Opened(sc)) /\ sc.phase # "boot"
        /\ c.var \in Variable \ {"k_img"} /\ sc.at[c.var] \notin {"out", "maybe"}
    BY <2>1, <2>2 DEF Allowed
  <2>4. After(c, sc) = Known(sc, c.var, "held")
    BY <2>2, AfterIs
  <2>. QED  BY <1>4, <1>5, <2>1, <2>2, <2>3, <2>4 DEF Var
<1>7. CASE sc.phase # "boot" /\ Freeing(sc)
  <2>1. Var = "k_ram" /\ sc.at["k_ram"] = "memory" /\ Deep(Opened(sc))
    BY <1>1, <1>7 DEF Freeing, Var
  <2>2. "k_ram" \in Variable \ {"k_img"}
    BY DEF Variable
  <2>. QED  BY <1>4, <1>5, <1>7, <2>1, <2>2
<1>. QED  BY <1>4, <1>5, <1>6, <1>7

LEMMA FreeControl ==
  ASSUME NEW sc \in Scope, sc.phase # "boot", NEW v \in Variable,
         Ok(Tail(todo), Known(sc, v, "held")) \/ (Freeing(sc) /\ v = "k_ram"),
         todo' = Tail(todo), NEW s, s = Known(sc, v, "held"), Fits(s)'
  PROVE  Control'
<1>1. "held" \in Knowledge
  BY DEF Knowledge
<1>2. /\ s \in Scope /\ s.at[v] = "held" /\ s.phase = sc.phase
      /\ \A x \in Variable \ {v} : s.at[x] = sc.at[x]
  BY <1>1, KnownIs
<1>3. CASE Ok(Tail(todo), s)
  BY <1>3 DEF Control
<1>4. CASE Freeing(sc) /\ v = "k_ram"
  <2>1. PICK c : c = Call("load_failed", 0, "k_ram")
    OBVIOUS
  <2>2. PICK r : Tail(todo) = <<c>> \o r /\ FailedLoad(sc, r)
    BY <1>4, <2>1 DEF Freeing
  <2>3. PICK x \in Variable \ {"k_ram"} : sc.at[x] = "out" /\ Ok(r, Loaded(sc, x))
    BY <2>2 DEF FailedLoad
  <2>4. s.at[x] = "out"
    BY <1>2, <1>4, <2>3
  <2>5. Loaded(s, x) = Loaded(sc, x)
    BY <1>2, <1>4, LoadedSame
  <2>6. FailedLoad(s, r)
    BY <2>3, <2>4, <2>5 DEF FailedLoad
  <2>7. r \in Seq(Range(r))
    BY <2>3, OkSeq
  <2>8. /\ todo' \in Seq(Range(r) \cup {c}) /\ Head(todo') = c /\ Tail(todo') = r
        /\ todo' # << >>
    <3>1. PICK R : R = Range(r)
      OBVIOUS
    <3>2. r \in Seq(R) /\ todo' = <<c>> \o r
      BY <2>2, <2>7, <3>1
    <3>. QED  BY ONLY <3>1, <3>2, ConsProperties
  <2>9. NonEmpty(todo')
    BY <2>8, OwnRange DEF NonEmpty
  <2>10. Failing(s)'
    BY <1>2, <1>4, <2>1, <2>6, <2>8, <2>9 DEF Failing
  <2>. QED  BY <1>2, <2>10 DEF Control
<1>. QED  BY <1>3, <1>4

LEMMA FreeMemStep ==
  ASSUME Inv, FreeMem, UNCHANGED program
  PROVE  Inv'
<1>1. /\ todo # << >> /\ Head(todo).op = "free_mem" /\ Control /\ Programs /\ Registers
      /\ Memories /\ UNCHANGED <<app, object, keyVars, slots_used, program>>
  BY DEF FreeMem, At, Inv
<1>2. PICK sc : /\ Fits(sc) /\ sc \in Scope /\ sc.phase # "boot" /\ Deep(Opened(sc))
                /\ Var \in Variable \ {"k_img"} /\ sc.at[Var] \notin {"out", "maybe"}
                /\ Ok(Tail(todo), Known(sc, Var, "held")) \/ (Freeing(sc) /\ Var = "k_ram")
  BY <1>1, FreeIs
<1>3. PICK v, s : v = Var /\ s = Known(sc, v, "held")
  OBVIOUS
<1>4. Mine = DOMAIN local /\ v \in Mine /\ v # "k_img" /\ v \in Variable
  BY <1>2, <1>3, FitsMine DEF Fits
<1>5. "held" \in Knowledge /\ "held" \notin Kind /\ "held" # "out"
  BY DEF Knowledge, Kind
<1>6. PICK i, l : i = Target(Held(v)) /\ l = object[i].level
  OBVIOUS
<1>7. CASE object[i].kind # "memory"
  <2>1. UNCHANGED <<app, tableVars, keyVars, poolVars, program>> /\ todo' = Tail(todo)
          /\ result' = "nothing"
    BY <1>1, <1>3, <1>6, <1>7 DEF FreeMem, tableVars, poolVars, Return
  <2>2. /\ Memories' /\ Registers' /\ Programs' /\ DOMAIN local' = DOMAIN local
        /\ \A w \in DOMAIN local : Stays(w)
        /\ InPhase(sc.phase)'
    BY <1>2, <1>4, <2>1, SameStep DEF Fits
  <2>3. Fits(s)'
    BY <1>2, <1>3, <1>4, <1>5, <2>2, FitsKnown
  <2>. QED  BY <1>2, <1>3, <2>1, <2>2, <2>3, FreeControl DEF Inv
<1>8. CASE object[i].kind = "memory"
  <2>1. Room(1)
    BY <1>1, <1>2, ScopeHasRoom
  <2>2. /\ generation' = [generation EXCEPT ![i] = @ + 1]
        /\ next' = [next EXCEPT ![i] = mem_roots[l]]
        /\ mem_roots' = [mem_roots EXCEPT ![l] = i]
        /\ todo' = Tail(todo) /\ result' = "ok"
    BY <1>3, <1>6, <1>8, <2>1 DEF FreeMem, Return
  <2>3. keys' = keys /\ UNCHANGED <<available_keys, local>> /\ result' # "keys"
          /\ keys' \in [Reg -> Key]
    BY <1>1, <2>2 DEF keyVars, Registers
  <2>4. Registers' /\ DOMAIN local' = DOMAIN local /\ \A w \in DOMAIN local : Held(w)' = Held(w)
    BY <1>1, <2>3, SameRegisters
  <2>5. Mine' = Mine /\ \A w \in Mine : Held(w)' = Held(w)
    BY <2>4 DEF Mine
  <2>6. /\ Memories'
        /\ \A w \in Mine : Live(Held(w))' => Live(Held(w))
        /\ \A w \in Mine \ {v} : Live(Held(w)) => /\ Held(w).obj # i
                                                  /\ generation'[Held(w).obj] = generation[Held(w).obj]
    <3>1. UNCHANGED <<app, object, slots_used>>
      BY <1>1
    <3>2. Memories /\ v \in Mine /\ v # "k_img" /\ Mine' = Mine
            /\ \A w \in Mine : Held(w)' = Held(w)
      BY <1>1, <1>4, <2>5
    <3>. HIDE DEF Memories, Mine
    <3>. QED  BY ONLY <1>6, <1>8, <2>2, <3>1, <3>2, FreeMemories
  <2>7. \A w \in DOMAIN local \ {v} : Stays(w)
    <3>. TAKE w \in DOMAIN local \ {v}
    <3>1. w \in DOMAIN local' /\ Held(w)' = Held(w)
      BY <2>4
    <3>2. Live(Held(w)) => /\ generation'[Held(w).obj] = generation[Held(w).obj]
                           /\ object'[Held(w).obj].kind = object[Held(w).obj].kind
      BY <1>1, <1>4, <2>6
    <3>. QED  BY <3>1, <3>2, HasStays
  <2>8. InPhase(sc.phase)'
    <3>1. \A w \in Mine' : Live(Held(w))' =>
            \/ w \in Mine /\ Live(Held(w)) /\ Held(w)'.obj = Held(w).obj
            \/ object[Held(w)'.obj].kind # "context"
      BY <2>5, <2>6
    <3>2. InPhase(sc.phase)
      BY <1>2 DEF Fits
    <3>. QED  BY <1>1, <1>2, <3>1, <3>2, PhaseKept
  <2>9. Fits(s)'
    BY <1>2, <1>3, <1>4, <1>5, <2>4, <2>7, <2>8, FitsKnown
  <2>10. Programs' /\ Control'
    BY <1>1, <1>2, <1>3, <2>2, <2>9, SamePrograms, FreeControl
  <2>. QED  BY <2>4, <2>6, <2>10 DEF Inv
<1>. QED  BY <1>7, <1>8

\* load_failed ends a load.
LEMMA FailedIs ==
  ASSUME Control, todo # << >>, Head(todo).op = "load_failed"
  PROVE  \E sc : Fits(sc) /\ sc \in Scope /\ sc.phase # "boot" /\ Failing(sc) /\ Var = "k_ram"
<1>1. \A op, arg, var : Call(op, arg, var).op = op /\ Call(op, arg, var).var = var
  BY DEF Call
<1>2. \A op, arg, var : Head(<<Call(op, arg, var)>>).op = op
  BY <1>1
<1>3. ~ Halted /\ ~ Serving
  BY <1>2 DEF Halted, Serving
<1>4. PICK sc : /\ Fits(sc)
                /\ \/ Ok(todo, sc)
                   \/ sc.phase # "boot" /\ (Descending(sc) \/ Freeing(sc) \/ Failing(sc))
  BY <1>3 DEF Control
<1>5. ~ Ok(todo, sc)
  <2>1. ASSUME Ok(todo, sc)  PROVE Head(todo).op \in Library
    <3>1. PICK c : c = Head(todo) /\ Allowed(c, sc)
      BY <2>1, OkHead
    <3>. QED  BY <3>1 DEF Allowed
  <2>. QED  BY <2>1 DEF Library
<1>6. ~ Descending(sc) /\ ~ Freeing(sc) /\ sc \in Scope
  BY <1>1, <1>4 DEF Descending, Freeing, Fits
<1>. QED  BY <1>1, <1>4, <1>5, <1>6 DEF Failing, Var

LEMMA LoadFailedStep ==
  ASSUME Inv, LoadFailed
  PROVE  Inv'
<1>1. /\ todo # << >> /\ Head(todo).op = "load_failed" /\ Control /\ Programs /\ Registers
      /\ UNCHANGED <<app, tableVars, poolVars>> /\ UNCHANGED <<app, object, generation, program>>
      /\ keys' = keys /\ todo' = Tail(todo) /\ result' = "nothing"
  BY DEF LoadFailed, At, Inv, Return, tableVars
<1>2. PICK sc : Fits(sc) /\ sc \in Scope /\ sc.phase # "boot" /\ Failing(sc) /\ Var = "k_ram"
  BY <1>1, FailedIs
<1>3. PICK v \in Variable \ {"k_ram"} : sc.at[v] = "out" /\ Ok(Tail(todo), Loaded(sc, v))
  BY <1>2 DEF Failing, FailedLoad
<1>4. "k_ram" \in Variable /\ "k_ram" \in DOMAIN local /\ v \notin DOMAIN local
  <2>1. "k_ram" \in Variable
    BY DEF Variable
  <2>. QED  BY <1>2, <1>3, <2>1 DEF Failing, Fits, Opened
<1>5. keys' \in [Reg -> Key] /\ {"k_ram"} \subseteq DOMAIN local /\ Drop({"k_ram"})
        /\ \A r \in Reg \ {0, 1, kself, kgate} : keys'[r] = keys[r]
  BY <1>1, <1>2, <1>4 DEF Registers, LoadFailed
<1>6. /\ Memories' /\ Registers'
      /\ DOMAIN local' = DOMAIN local \ {"k_ram"} /\ Mine' \subseteq Mine
      /\ \A w \in DOMAIN local' : Held(w)' = Held(w)
      /\ \A w \in DOMAIN local' : Stays(w)
  <2>1. PICK vs : vs = {"k_ram"}
    OBVIOUS
  <2>. QED  BY <1>1, <1>5, <2>1, DropStep
<1>7. InPhase(sc.phase)' /\ Programs'
  <2>1. InPhase(sc.phase) /\ \A w \in Mine' : Held(w)' = Held(w)
    BY <1>2, <1>6 DEF Fits, Mine
  <2>. QED  BY <1>1, <1>2, <1>6, <2>1, FramePhase, SamePrograms
<1>8. PICK s : s = Loaded(sc, v)
  OBVIOUS
<1>9. Fits(s)'
  <2>1. /\ DOMAIN local' \ {v} = DOMAIN local \ {v, "k_ram"} /\ v \notin DOMAIN local'
        /\ \A w \in DOMAIN local \ {v, "k_ram"} : Stays(w)
    BY <1>4, <1>6
  <2>. QED  BY <1>1, <1>2, <1>7, <1>8, <2>1, FitsLoaded
<1>. QED  BY <1>1, <1>3, <1>6, <1>7, <1>8, <1>9 DEF Inv, Control

\* descend is alloc_mem's second pass.
LEMMA DescendIs ==
  ASSUME Control, todo # << >>, Head(todo).op = "descend"
  PROVE  \E sc : Fits(sc) /\ sc \in Scope /\ sc.phase # "boot" /\ Descending(sc)
<1>1. \A op, arg, var : Call(op, arg, var).op = op
  BY DEF Call
<1>2. \A op, arg, var : Head(<<Call(op, arg, var)>>).op = op
  BY <1>1
<1>3. ~ Halted /\ ~ Serving
  BY <1>2 DEF Halted, Serving
<1>4. PICK sc : /\ Fits(sc)
                /\ \/ Ok(todo, sc)
                   \/ sc.phase # "boot" /\ (Descending(sc) \/ Freeing(sc) \/ Failing(sc))
  BY <1>3 DEF Control
<1>5. ~ Ok(todo, sc)
  <2>1. ASSUME Ok(todo, sc)  PROVE Head(todo).op \in Library
    <3>1. PICK c : c = Head(todo) /\ Allowed(c, sc)
      BY <2>1, OkHead
    <3>. QED  BY <3>1 DEF Allowed
  <2>. QED  BY <2>1 DEF Library
<1>6. ~ Failing(sc) /\ ~ Freeing(sc) /\ sc \in Scope
  BY <1>1, <1>4 DEF Failing, Freeing, Fits
<1>. QED  BY <1>4, <1>5, <1>6

LEMMA TakeStep ==
  ASSUME Inv, Take, UNCHANGED program
  PROVE  Inv'
<1>1. /\ todo # << >> /\ Head(todo).op = "descend" /\ Control /\ Programs /\ Registers
      /\ Memories /\ UNCHANGED <<app, object, generation, program, slots_used>>
      /\ Arg.from = Arg.level
  BY DEF Take, At, Inv
<1>2. PICK sc : Fits(sc) /\ sc \in Scope /\ sc.phase # "boot" /\ Descending(sc)
  BY <1>1, DescendIs
<1>3. PICK v, l, i, b, s : /\ v = Var /\ l = Arg.level /\ i = mem_roots[l] /\ b = Arg.brand
                           /\ s = Pending(sc, v, "memory")
  OBVIOUS
<1>4. /\ v \in Variable \ {"k_img"} /\ sc.at[v] = "out" /\ Ok(Tail(todo), s)
      /\ l \in Level /\ i # 0 /\ b \in Brands /\ Deep(Opened(sc))
  BY <1>1, <1>2, <1>3 DEF Descending
<1>5. Mine = DOMAIN local /\ v \notin DOMAIN local /\ Room(1)
  BY <1>1, <1>2, <1>4, FitsMine, ScopeHasRoom DEF Fits, Opened
<1>6. PICK k : k = Minted(i, b)
  OBVIOUS
<1>7. /\ Keep(v, k) /\ todo' = Tail(todo) /\ result' = "ok"
      /\ mem_roots' = Pop(l) /\ next' = [next EXCEPT ![i] = 0]
  BY <1>3, <1>5, <1>6 DEF Take, Result, Return
<1>8. i \in Table /\ k \in Key /\ k.obj = i /\ k.gen = generation[i]
  BY <1>1, <1>3, <1>4, <1>6, TableIs, MintedIs
<1>9. /\ Registers' /\ DOMAIN local' = DOMAIN local \cup {v} /\ Held(v)' = k
      /\ \A w \in DOMAIN local : Held(w)' = Held(w)
  BY <1>1, <1>5, <1>7, <1>8, KeepRegisters
<1>10. PICK vs : vs = {v}
  OBVIOUS
<1>11. /\ Mine' = Mine \cup vs /\ vs \cap Mine = {} /\ \A w \in Mine : Held(w)' = Held(w)
       /\ \A w \in vs : Held(w)' = Minted(i, b)
       /\ \A w, x \in vs : w = x
  BY <1>4, <1>5, <1>6, <1>9, <1>10 DEF Mine
<1>12. /\ Memories'
       /\ i \in Table \ {0} /\ object[i].kind = "memory" /\ InRam(i) /\ i < NextSlot
       /\ \A w \in Mine : Live(Held(w)) => Held(w).obj # i
  <2>1. slots_used' \in {slots_used, slots_used + 1}
    BY <1>1
  <2>. QED  BY <1>1, <1>3, <1>4, <1>7, <1>11, <2>1, TakeMemories
<1>13. \A w \in DOMAIN local : Stays(w)
  BY <1>1, <1>9, HasStays
<1>14. InPhase(sc.phase)'
  <2>1. ASSUME NEW w \in Mine', Live(Held(w))'
        PROVE  \/ w \in Mine /\ Live(Held(w)) /\ Held(w)'.obj = Held(w).obj
               \/ object[Held(w)'.obj].kind # "context"
    <3>1. CASE w = v
      BY <1>8, <1>9, <1>12, <3>1
    <3>2. CASE w # v
      <4>1. w \in Mine /\ Held(w)' = Held(w)
        BY <1>10, <1>11, <3>2
      <4>. QED  BY <1>1, <2>1, <4>1 DEF Live
    <3>. QED  BY <3>1, <3>2
  <2>2. InPhase(sc.phase)
    BY <1>2 DEF Fits
  <2>. QED  BY <1>1, <1>2, <2>1, <2>2, PhaseKept
<1>15. Fits(s)'
  <2>1. Has(v, "memory")'
    BY <1>1, <1>8, <1>9, <1>12 DEF Has, Live
  <2>2. "memory" \in Kind /\ DOMAIN local' \ {v} = DOMAIN local \ {v} /\ result' # "nothing"
    BY <1>7, <1>9 DEF Kind
  <2>. QED  BY <1>2, <1>3, <1>4, <1>13, <1>14, <2>1, <2>2, FitsPending
<1>. QED  BY <1>1, <1>4, <1>7, <1>9, <1>12, <1>15, SamePrograms DEF Inv, Control

\* Pass two without a slot left, or with one that is none: the Memory is lost.
LEMMA SplitFails ==
  ASSUME Inv, NEW l \in Level, NEW i, i = mem_roots[l], i # 0, NEW sc, Fits(sc),
         sc.phase # "boot", UNCHANGED <<app, object, generation, keyVars, program>>,
         slots_used' \in {slots_used, slots_used + 1}, result' # "keys",
         mem_roots' = Pop(l), next' = [next EXCEPT ![i] = 0]
  PROVE  /\ Memories' /\ Registers' /\ Programs'
         /\ DOMAIN local' = DOMAIN local
         /\ \A w \in DOMAIN local : Stays(w)
         /\ InPhase(sc.phase)'
<1>1. /\ Registers /\ Memories /\ Programs /\ keys' = keys
      /\ UNCHANGED <<available_keys, local>>
  BY DEF Inv, keyVars
<1>2. /\ Registers' /\ DOMAIN local' = DOMAIN local
      /\ \A w \in DOMAIN local : Held(w)' = Held(w)
  <2>1. keys' \in [Reg -> Key]
    BY <1>1 DEF Registers
  <2>. QED  BY <1>1, <2>1, SameRegisters
<1>3. Mine' = Mine /\ \A w \in Mine : Held(w)' = Held(w)
  BY <1>2 DEF Mine
<1>4. Memories'
  <2>1. PICK vs, b : vs = {} /\ b = Plain
    OBVIOUS
  <2>2. /\ vs \cap Mine = {} /\ Mine' = Mine \cup vs
        /\ \A w \in vs : Held(w)' = Minted(i, b)
        /\ \A w, x \in vs : w = x
    BY <1>3, <2>1
  <2>. QED  BY <1>1, <1>3, <2>2, TakeMemories
<1>5. \A w \in DOMAIN local : Stays(w)
  BY <1>2, HasStays
<1>6. InPhase(sc.phase)'
  BY <1>3, FramePhase DEF Fits
<1>. QED  BY <1>1, <1>2, <1>4, <1>5, <1>6, SamePrograms

LEMMA SplitStep ==
  ASSUME Inv, Split, UNCHANGED program
  PROVE  Inv'
<1>1. /\ todo # << >> /\ Head(todo).op = "descend" /\ Control /\ Programs /\ Registers
      /\ Memories /\ UNCHANGED <<app, keyVars, program>> /\ Arg.from > Arg.level
  BY DEF Split, At, Inv
<1>2. PICK sc : Fits(sc) /\ sc \in Scope /\ sc.phase # "boot" /\ Descending(sc)
  BY <1>1, DescendIs
<1>3. PICK v, arg, t : v = Var /\ arg = Arg /\ t = Tail(todo)
  OBVIOUS
<1>4. PICK l, bot, top : l = arg.from /\ bot = mem_roots[l] /\ top = NextSlot
  OBVIOUS
<1>5. /\ v \in Variable \ {"k_img"} /\ sc.at[v] = "out"
      /\ Ok(t, Pending(sc, v, "memory"))
      /\ arg \in [level : Nat, brand : Brands, from : Level] /\ MinLevel <= arg.level
      /\ arg.level < l /\ l \in Level /\ bot # 0 /\ Deep(Opened(sc))
  BY <1>1, <1>2, <1>3, <1>4, SysAssumption DEF Descending, Level
<1>6. Mine = DOMAIN local /\ v \notin DOMAIN local /\ Room(3)
  BY <1>1, <1>2, <1>5, FitsMine, ScopeHasRoom DEF Fits, Opened
<1>7. /\ l > MinLevel /\ l - 1 \in Level /\ arg.level <= l - 1
      /\ \A m \in Level : m \in Nat
  BY <1>5, SysAssumption DEF Level, MinLevel
<1>8. CASE NoSlots
  <2>1. /\ mem_roots' = Pop(l) /\ next' = [next EXCEPT ![bot] = 0] /\ todo' = t
        /\ result' = "nothing" /\ UNCHANGED <<object, generation, slots_used>>
    BY <1>3, <1>4, <1>8 DEF Split, Return
  <2>2. /\ Memories' /\ Registers' /\ Programs' /\ DOMAIN local' = DOMAIN local
        /\ \A w \in DOMAIN local : Stays(w)
        /\ InPhase(sc.phase)'
    <3>1. UNCHANGED <<app, object, generation, keyVars, program>>
      BY <1>1, <2>1
    <3>. QED  BY <1>2, <1>4, <1>5, <2>1, <3>1, SplitFails
  <2>3. PICK s : s = Pending(sc, v, "memory")
    OBVIOUS
  <2>4. Fits(s)'
    <3>1. "memory" \in Kind
      BY DEF Kind
    <3>. QED  BY <1>2, <1>5, <1>6, <2>1, <2>2, <2>3, <3>1, FitsPending
  <2>. QED  BY <1>5, <2>1, <2>2, <2>3, <2>4 DEF Inv, Control
<1>9. CASE ~ NoSlots /\ ~ SlotAt(top)
  <2>1. /\ mem_roots' = Pop(l) /\ next' = [next EXCEPT ![bot] = 0] /\ Halt("assertion")
        /\ slots_used' = slots_used + 1 /\ UNCHANGED <<object, generation>>
    BY <1>3, <1>4, <1>6, <1>9 DEF Split
  <2>2. result' # "keys"
    BY <2>1 DEF Halt
  <2>3. Memories' /\ Registers' /\ Programs' /\ InPhase(sc.phase)'
    <3>1. UNCHANGED <<app, object, generation, keyVars, program>>
      BY <1>1, <2>1
    <3>. QED  BY <1>2, <1>4, <1>5, <2>1, <2>2, <3>1, SplitFails
  <2>. QED  BY <2>1, <2>3, HaltControl DEF Inv
<1>10. CASE ~ NoSlots /\ SlotAt(top)
  <2>1. PICK c : c = Call("descend", [arg EXCEPT !.from = l - 1], v)
    OBVIOUS
  <2>2. /\ slots_used' = slots_used + 1 /\ todo' = <<c>> \o t /\ result' = "ok"
        /\ object' = [object EXCEPT ![bot].level = l - 1,
                                    ![top] = Memory(object[bot].base + Bytes(l - 1), l - 1)]
        /\ generation' = [generation EXCEPT ![bot] = @ + 1, ![top] = @ + 1]
        /\ next' = Pushed(bot, top, l - 1)
        /\ mem_roots' = [Pop(l) EXCEPT ![l - 1] = bot]
    BY <1>3, <1>4, <1>6, <1>10, <2>1 DEF Split, Calls
  <2>3. /\ Registers' /\ DOMAIN local' = DOMAIN local
        /\ \A w \in DOMAIN local : Held(w)' = Held(w)
    <3>1. keys' \in [Reg -> Key] /\ keys' = keys /\ UNCHANGED <<available_keys, local>>
      BY <1>1 DEF Registers, keyVars
    <3>2. result' # "keys"
      BY <2>2
    <3>. QED  BY <1>1, <3>1, <3>2, SameRegisters
  <2>4. Mine' = Mine /\ \A w \in Mine : Held(w)' = Held(w)
    BY <2>3 DEF Mine
  <2>5. /\ Memories'
        /\ \A i \in Table \ {bot, top} : object'[i] = object[i]
        /\ \A w \in Mine : Live(Held(w))' <=> Live(Held(w))
        /\ object[bot].kind = "memory" /\ object[top].kind = "slot"
        /\ bot \in Table /\ mem_roots'[l - 1] # 0
    <3>1. /\ Memories /\ app' = app /\ l \in Level /\ l > MinLevel /\ SlotAt(top)
          /\ bot = mem_roots[l] /\ bot # 0 /\ top = NextSlot
          /\ Mine' = Mine /\ \A w \in Mine : Held(w)' = Held(w)
      BY <1>1, <1>4, <1>5, <1>7, <1>10, <2>4
    <3>. HIDE DEF Memories, Mine, Level, MinLevel, Bytes
    <3>. QED  BY ONLY <2>2, <3>1, SplitMemories
  <2>6. \A w \in Mine : Live(Held(w)) => Held(w).obj \in Table /\ Held(w).obj \notin {bot, top}
    <3>. TAKE w \in Mine
    <3>. HAVE Live(Held(w))
    <3>1. Held(w).obj \in Table /\ Held(w).obj < NextSlot
      BY <1>1, TargetIs
    <3>2. Held(w).obj # top
      BY <1>1, <1>4, <3>1, TableIs DEF Table
    <3>3. ASSUME Held(w).obj = bot  PROVE FALSE
      <4>1. generation[bot] \in Nat /\ bot \in DOMAIN generation /\ bot # top
        BY <1>1, <1>4, <2>5, TableIs DEF Memories, Shape
      <4>2. generation'[bot] = generation[bot] + 1
        BY <2>2, <4>1
      <4>3. generation'[bot] = Held(w).gen /\ generation[bot] = Held(w).gen
        BY <2>4, <2>5, <3>3 DEF Live
      <4>. QED  BY <4>1, <4>2, <4>3
    <3>. QED  BY <3>1, <3>2, <3>3
  <2>7. \A w \in DOMAIN local : Stays(w)
    <3>. TAKE w \in DOMAIN local
    <3>1. w \in DOMAIN local' /\ Held(w)' = Held(w) /\ w \in Mine
      BY <1>6, <2>3
    <3>2. Live(Held(w)) => /\ generation'[Held(w).obj] = generation[Held(w).obj]
                           /\ object'[Held(w).obj].kind = object[Held(w).obj].kind
      BY <2>5, <2>6, <3>1 DEF Live
    <3>. QED  BY <3>1, <3>2, HasStays
  <2>8. InPhase(sc.phase)'
    <3>1. \A w \in Mine' : Live(Held(w))' =>
             \/ w \in Mine /\ Live(Held(w)) /\ Held(w)'.obj = Held(w).obj
             \/ object[Held(w)'.obj].kind # "context"
      BY <2>4, <2>5
    <3>2. InPhase(sc.phase)
      BY <1>2 DEF Fits
    <3>3. \A p \in Table : object[p].kind = "context" => object'[p].kind = "context"
      BY <2>5
    <3>. QED  BY <1>1, <1>2, <3>1, <3>2, <3>3, PhaseKept
  <2>9. PICK s : s = Forget(sc)
    OBVIOUS
  <2>10. s \in Scope /\ s.at = sc.at /\ s.phase = sc.phase
    BY <1>2, <2>9, ForgetIs
  <2>11. Fits(s)'
    BY <1>2, <2>3, <2>7, <2>8, <2>9, FitsForget
  <2>12. Pending(s, v, "memory") = Pending(sc, v, "memory") /\ "memory" \in Kind
    <3>1. "memory" \in Kind
      BY DEF Kind
    <3>. QED  BY <1>2, <1>5, <2>10, <3>1, PendingSame
  <2>13. /\ todo' \in Seq(Range(t) \cup {c}) /\ Head(todo') = c /\ Tail(todo') = t
         /\ todo' # << >>
    <3>1. PICK R : R = Range(t)
      OBVIOUS
    <3>2. t \in Seq(R) /\ todo' = <<c>> \o t
      BY <1>5, <2>2, <3>1, OkSeq
    <3>. QED  BY ONLY <3>1, <3>2, ConsProperties
  <2>14. NonEmpty(todo')
    BY <2>13, OwnRange DEF NonEmpty
  <2>15. Deep(Opened(s))
    <3>1. Opened(s) = Opened(sc)
      BY <2>10 DEF Opened
    <3>. QED  BY <1>5, <3>1
  <2>16. c.op = "descend" /\ c.var = v /\ c.arg = [arg EXCEPT !.from = l - 1]
    BY <2>1 DEF Call
  <2>17. /\ c.arg \in [level : Nat, brand : Brands, from : Level]
         /\ c.arg.from = l - 1 /\ c.arg.level = arg.level
    <3>. HIDE DEF Level, Brands
    <3>. QED  BY <1>5, <1>7, <2>16
  <2>18. Descending(s)'
    <3>1. Arg' = c.arg /\ Var' = v
      BY <2>13, <2>16 DEF Arg, Var
    <3>. HIDE DEF Level, MinLevel, Brands
    <3>2. s.at[v] = "out"
      BY <1>5, <2>10
    <3>. QED  BY <1>5, <1>7, <2>5, <2>12, <2>13, <2>14, <2>15, <2>16, <2>17, <3>1, <3>2
                 DEF Descending
  <2>. QED  BY <1>1, <1>2, <2>3, <2>5, <2>10, <2>11, <2>18, SamePrograms DEF Inv, Control
<1>. QED  BY <1>8, <1>9, <1>10

-----------------------------------------------------------------------------
(* The steps that fill Contexts in *)

\* One Context is filled in, without a syscall key.
LEMMA FillPrograms ==
  ASSUME Programs, app' = app, NEW q, NEW d, IsContext(d),
         d.key[15] # NullKey => d.key[15].brand.n = q,
         program' = [program EXCEPT ![q] = d]
  PROVE  /\ Programs'
         /\ \A p \in Table \ {q} : program'[p] = program[p]
         /\ q \in Table => program'[q] = d
<1>1. Table' = Table /\ program = [p \in Table |-> program[p]]
  BY DEF Programs, Table
<1>2. \A p \in Table : IsContext(program[p])
        /\ (program[p].key[15] # NullKey => program[p].key[15].brand.n = p)
  BY DEF Programs
<1>3. /\ program' = [p \in Table |-> program'[p]]
      /\ \A p \in Table \ {q} : program'[p] = program[p]
      /\ q \in Table => program'[q] = d
  BY <1>1
<1>4. \A p \in Table' : IsContext(program[p])'
        /\ (program'[p].key[15] # NullKey => program'[p].key[15].brand.n = p)
  BY <1>1, <1>2, <1>3 DEF IsContext
<1>5. program' = [p \in Table' |-> program'[p]]
  BY <1>1, <1>3
<1>. QED  BY <1>3, <1>4, <1>5 DEF Programs, NullKey

\* A Context somebody has a key to is not the idle one.
LEMMA PhaseOther ==
  ASSUME NEW phase, phase # "boot", InPhase(phase), UNCHANGED <<app, object, generation>>,
         NEW v \in Mine, Live(Held(v)), NEW q, q = Held(v).obj,
         \A p \in Table \ {q} : program'[p] = program[p],
         phase = "idle" \/ (q \in Table => program'[q].runnable = FALSE),
         Mine' \subseteq Mine, \A w \in Mine' : Held(w)' = Held(w)
  PROVE  InPhase(phase)'
<1>1. Table' = Table
  BY DEF Table
<1>2. CASE phase = "idle"
  <2>1. PICK p \in Table \ {Self} : IsIdle(p)
    BY <1>2 DEF InPhase, IdleThere
  <2>2. p # q
    BY <2>1 DEF IsIdle
  <2>3. program'[p] = program[p]
    BY <2>1, <2>2
  <2>4. \A w \in Mine' : Live(Held(w))' => w \in Mine /\ Live(Held(w)) /\ Held(w)'.obj = Held(w).obj
    BY DEF Live
  <2>5. IsIdle(p)'
    BY <2>1, <2>3, <2>4, IdleKept
  <2>. QED  BY <1>1, <1>2, <2>1, <2>5 DEF InPhase, IdleThere, Self
<1>3. CASE phase # "idle"
  <2>1. Quiet
    BY <1>3 DEF InPhase
  <2>2. Quiet'
    BY <1>1, <1>3, <2>1 DEF Quiet, Self
  <2>. QED  BY <1>3, <2>2 DEF InPhase
<1>. QED  BY <1>2, <1>3

\* A Context that is filled in has no syscall key yet.
LEMMA BlankIs ==
  \E f, r : /\ f[15] = NullKey /\ f = [n \in 11 .. 15 |-> f[n]]
            /\ Blank = [key |-> f, region |-> r, priority |-> 0, runnable |-> FALSE,
                        pc |-> 0, sp |-> 0, got |-> << >>]
<1>1. PICK f, r : f = [n \in 11 .. 15 |-> NullKey] /\ r = [n \in 0 .. (NRegions - 1) |-> NullKey]
  OBVIOUS
<1>2. f[15] = NullKey /\ f = [n \in 11 .. 15 |-> f[n]]
  BY <1>1
<1>3. Blank = [key |-> f, region |-> r, priority |-> 0, runnable |-> FALSE,
               pc |-> 0, sp |-> 0, got |-> << >>]
  BY <1>1 DEF Blank
<1>. QED  BY <1>2, <1>3

Filled(a, b, c, d, e) ==
  [Blank EXCEPT !.region[0] = a, !.region[1] = b, !.pc = c, !.sp = d, !.got = e]

LEMMA LoadedContext ==
  ASSUME NEW a, NEW b, NEW c, NEW d, NEW e, NEW x, x = Filled(a, b, c, d, e)
  PROVE  IsContext(x) /\ x.key[15] = NullKey /\ x.runnable = FALSE
<1>1. PICK f, r : /\ f[15] = NullKey /\ f = [n \in 11 .. 15 |-> f[n]]
                  /\ Blank = [key |-> f, region |-> r, priority |-> 0, runnable |-> FALSE,
                              pc |-> 0, sp |-> 0, got |-> << >>]
  BY BlankIs
<1>2. PICK s : s = [[r EXCEPT ![0] = a] EXCEPT ![1] = b]
  OBVIOUS
<1>3. x = [key |-> f, region |-> s, priority |-> 0, runnable |-> FALSE, pc |-> c,
           sp |-> d, got |-> e]
  BY <1>1, <1>2 DEF Filled
<1>4. /\ x.key = f /\ x.region = s /\ x.priority = 0 /\ x.runnable = FALSE
      /\ x.pc = c /\ x.sp = d /\ x.got = e
  BY ONLY <1>3
<1>5. IsContext(x)
  BY ONLY <1>1, <1>3, <1>4 DEF IsContext
<1>. QED  BY <1>1, <1>4, <1>5

IdleFilled(a, b) ==
  [Blank EXCEPT !.region[0] = a, !.region[1] = b, !.priority = 1, !.runnable = TRUE]

LEMMA IdleContext ==
  ASSUME NEW a, NEW b, NEW x, x = IdleFilled(a, b)
  PROVE  IsContext(x) /\ x.key[15] = NullKey /\ x.priority = 1 /\ x.runnable = TRUE
<1>1. PICK f, r : /\ f[15] = NullKey /\ f = [n \in 11 .. 15 |-> f[n]]
                  /\ Blank = [key |-> f, region |-> r, priority |-> 0, runnable |-> FALSE,
                              pc |-> 0, sp |-> 0, got |-> << >>]
  BY BlankIs
<1>2. PICK s : s = [[r EXCEPT ![0] = a] EXCEPT ![1] = b]
  OBVIOUS
<1>3. x = [key |-> f, region |-> s, priority |-> 1, runnable |-> TRUE, pc |-> 0,
           sp |-> 0, got |-> << >>]
  BY <1>1, <1>2 DEF IdleFilled
<1>4. /\ x.key = f /\ x.region = s /\ x.priority = 1 /\ x.runnable = TRUE
      /\ x.pc = 0 /\ x.sp = 0 /\ x.got = << >>
  BY ONLY <1>3
<1>5. IsContext(x)
  BY ONLY <1>1, <1>3, <1>4 DEF IsContext
<1>. QED  BY <1>1, <1>4, <1>5

LEMMA LoadImageStep ==
  ASSUME Inv, LoadImage
  PROVE  Inv'
<1>1. /\ todo # << >> /\ Head(todo).op = "load_image" /\ Control /\ Programs /\ Registers
      /\ Memories /\ UNCHANGED <<app, tableVars, poolVars>>
      /\ UNCHANGED <<app, object, generation>>
  BY DEF LoadImage, At, Inv, tableVars
<1>2. PICK sc : /\ Fits(sc) /\ sc \in Scope /\ Allowed(Head(todo), sc) /\ sc.phase # "boot"
                /\ Ok(Tail(todo), After(Head(todo), sc))
  BY <1>1, CallIs DEF Library
<1>3. PICK v, s : v = Var /\ s = Loaded(sc, v)
  OBVIOUS
<1>4. /\ v \in Variable \ {"k_ram"} /\ sc.at[v] = "context" /\ sc.at["k_ram"] = "memory"
      /\ Ok(Tail(todo), s)
  BY <1>1, <1>2, <1>3, AfterIs DEF Allowed, Var
<1>5. "context" \in Kind /\ "memory" \in Kind /\ "k_ram" \in Variable
  BY DEF Kind, Variable
<1>6. Mine = DOMAIN local /\ Has(v, "context") /\ "k_ram" \in DOMAIN local
  BY <1>2, <1>4, <1>5, FitsMine DEF Fits, Has
<1>7. CASE Halt("assertion") /\ UNCHANGED <<keyVars, program>>
  <2>1. UNCHANGED <<app, tableVars, keyVars, poolVars, program>>
    BY <1>1, <1>7
  <2>. QED  BY <1>2, <1>7, <2>1, HaltSame
<1>8. CASE ~ (Halt("assertion") /\ UNCHANGED <<keyVars, program>>)
  <2>. DEFINE ram == object[Target(Held("k_ram"))]
  <2>1. PICK a, b, c, d, e :
          /\ a = Held("k_img") /\ b = Held("k_ram") /\ c = Wrap(Arg.hdr.entry + Arg.addr)
          /\ d = (ram.base + Bytes(ram.level)) - FrameSize
          /\ e = [g \in DOMAIN Arg.got |->
                    Relocated(Arg.hdr, Arg.addr, ram.base, Arg.got[g])]
    OBVIOUS
  <2>2. PICK x, q : x = Filled(a, b, c, d, e) /\ q = Held(v).obj
    OBVIOUS
  <2>3. IsContext(x) /\ x.key[15] = NullKey /\ x.runnable = FALSE
    BY <2>2, LoadedContext
  <2>10. /\ program' = [program EXCEPT ![Target(Held(Var))] = x]
         /\ Drop({"k_ram"}) /\ keys' = keys /\ todo' = Tail(todo) /\ result' = "ok"
    <3>1. /\ program' = [program EXCEPT ![Target(Held(Var))] =
               [Blank EXCEPT
                  !.region[0] = Held("k_img"),
                  !.region[1] = Held("k_ram"),
                  !.pc = Wrap(Arg.hdr.entry + Arg.addr),
                  !.sp = (ram.base + Bytes(ram.level)) - FrameSize,
                  !.got = [g \in DOMAIN Arg.got |->
                             Relocated(Arg.hdr, Arg.addr, ram.base, Arg.got[g])]]]
          /\ Drop({"k_ram"}) /\ keys' = keys /\ todo' = Tail(todo) /\ result' = "ok"
      BY <1>8 DEF LoadImage, Return
    <3>2. x = [Blank EXCEPT
                  !.region[0] = Held("k_img"),
                  !.region[1] = Held("k_ram"),
                  !.pc = Wrap(Arg.hdr.entry + Arg.addr),
                  !.sp = (ram.base + Bytes(ram.level)) - FrameSize,
                  !.got = [g \in DOMAIN Arg.got |->
                             Relocated(Arg.hdr, Arg.addr, ram.base, Arg.got[g])]]
      BY <2>1, <2>2 DEF Filled
    <3>. QED  BY <3>1, <3>2
  <2>4. Live(Held(v)) /\ q \in Table \ {0, Self} /\ q = Target(Held(v))
    BY <1>1, <1>6, <2>2, TargetIs DEF Has
  <2>5. program' = [program EXCEPT ![q] = x]
    BY <1>3, <2>4, <2>10
  <2>6. /\ Programs'
        /\ \A p \in Table \ {q} : program'[p] = program[p]
        /\ program'[q] = x
    BY <1>1, <2>3, <2>4, <2>5, FillPrograms
  <2>7. /\ Memories' /\ Registers'
        /\ DOMAIN local' = DOMAIN local \ {"k_ram"} /\ Mine' \subseteq Mine
        /\ \A w \in DOMAIN local' : Held(w)' = Held(w)
        /\ \A w \in DOMAIN local' : Stays(w)
    <3>1. PICK vs : vs = {"k_ram"}
      OBVIOUS
    <3>2. keys' \in [Reg -> Key] /\ vs \subseteq DOMAIN local /\ result' # "keys"
      BY <1>1, <1>6, <2>10, <3>1 DEF Registers
    <3>. QED  BY <1>1, <2>10, <3>1, <3>2, DropStep
  <2>8. InPhase(sc.phase)'
    <3>1. InPhase(sc.phase)
      BY <1>2 DEF Fits
    <3>2. \A w \in Mine' : Held(w)' = Held(w)
      BY <2>7 DEF Mine
    <3>3. v \in Mine /\ Live(Held(v)) /\ q = Held(v).obj /\ program'[q].runnable = FALSE
      BY <1>6, <2>2, <2>3, <2>4, <2>6 DEF Has
    <3>. QED  BY <1>1, <1>2, <2>6, <2>7, <3>1, <3>2, <3>3, PhaseOther
  <2>9. Fits(s)'
    <3>1. v \in DOMAIN local'
      BY <1>4, <1>6, <2>7 DEF Has
    <3>2. Has(v, "context")'
      BY <1>5, <1>6, <2>7, <3>1 DEF Stays
    <3>3. /\ DOMAIN local' \ {v} = DOMAIN local \ {v, "k_ram"}
          /\ \A w \in DOMAIN local \ {v, "k_ram"} : Stays(w)
      BY <1>4, <2>7
    <3>. QED  BY <1>2, <1>3, <1>4, <2>10, <2>8, <3>2, <3>3, FitsLoaded
  <2>. QED  BY <1>4, <2>6, <2>7, <2>9, <2>10 DEF Inv, Control
<1>. QED  BY <1>7, <1>8

LEMMA FeedAllocatorStep ==
  ASSUME Inv, FeedAllocator
  PROVE  Inv'
<1>1. /\ todo # << >> /\ Head(todo).op = "feed_allocator" /\ Control /\ Programs /\ Registers
      /\ Memories /\ UNCHANGED <<app, tableVars, poolVars>>
      /\ UNCHANGED <<app, object, generation, program>>
  BY DEF FeedAllocator, At, Inv, Kept, tableVars
<1>2. PICK sc : /\ Fits(sc) /\ sc \in Scope /\ Allowed(Head(todo), sc) /\ Deep(Opened(sc))
                /\ Ok(Tail(todo), After(Head(todo), sc))
  BY <1>1, CallIs DEF Library
<1>3. PICK v, s : v = Var /\ s = [Known(sc, v, "memory") EXCEPT !.phase = "fed"]
  OBVIOUS
<1>4. PICK c : c = Head(todo)
  OBVIOUS
<1>5. /\ v \in Variable \ {"k_img"} /\ Opened(sc) = {} /\ sc.phase = "boot"
      /\ Ok(Tail(todo), s)
  <2>1. c.op = "feed_allocator" /\ c.var = v /\ Allowed(c, sc)
    BY <1>1, <1>2, <1>3, <1>4 DEF Var
  <2>2. After(c, sc) = s
    BY <1>3, <2>1, AfterIs
  <2>. QED  BY <1>2, <1>4, <2>1, <2>2 DEF Allowed
<1>6. DOMAIN local = {} /\ Mine = {} /\ InPhase("boot") /\ Room(1)
  BY <1>1, <1>2, <1>5, ScopeHasRoom DEF Fits, Mine
<1>7. PICK k : k = Minted(AppRam, Plain)
  OBVIOUS
<1>8. Keep(v, k) /\ todo' = Tail(todo) /\ result' = "ok"
  BY <1>3, <1>6, <1>7 DEF FeedAllocator, Result, Return
<1>9. AppRam \in Table
  <2>1. app.extra \in Nat /\ MapCount \in Nat
    BY <1>1, TableIs
  <2>. QED  BY <2>1, SysAssumption DEF Table, TableSize, WellKnown
<1>10. k \in Key /\ k.obj = AppRam /\ k.gen = generation[AppRam]
  BY <1>1, <1>7, <1>9, MintedIs, PlainIs
<1>11. /\ Registers' /\ DOMAIN local' = {v} /\ Held(v)' = k
  BY <1>1, <1>6, <1>8, <1>10, KeepRegisters
<1>12. Memories'
  <2>1. Mine' \subseteq {v} /\ v # "k_img"
    BY <1>5, <1>11 DEF Mine
  <2>. QED  BY <1>1, <1>6, <1>7, <1>11, <2>1, FeedMemories
<1>13. Programs'
  BY <1>1, SamePrograms
<1>14. InPhase("fed")'
  <2>1. Table' = Table /\ Quiet
    BY <1>1, <1>6 DEF Table, InPhase
  <2>2. Quiet'
    BY <1>1, <2>1 DEF Quiet, Self
  <2>. QED  BY <2>2 DEF InPhase
<1>15. Has(v, "memory")'
  <2>1. object[AppRam].kind = "memory"
    BY <1>6 DEF InPhase
  <2>. QED  BY <1>1, <1>10, <1>11, <2>1 DEF Has, Live
<1>16. Fits(s)'
  <2>1. "memory" \in Knowledge /\ "fed" \in Phase /\ "memory" \in Kind
    BY DEF Knowledge, Phase, Kind
  <2>2. /\ s \in Scope /\ s.at[v] = "memory" /\ s.last = NoVar /\ s.phase = "fed"
        /\ \A x \in Variable \ {v} : s.at[x] = sc.at[x]
    BY <1>2, <1>3, <1>5, <2>1, PhasedIs
  <2>3. \A x \in Variable \ {v} : s.at[x] = "out"
    BY <1>5, <2>2 DEF Opened
  <2>4. \A x \in DOMAIN local' : x \in Opened(s)
    BY <1>5, <1>11, <2>2 DEF Opened
  <2>5. ASSUME NEW x \in Variable
        PROVE  /\ s.at[x] \notin {"out", "maybe"} => x \in DOMAIN local'
               /\ s.at[x] \in Kind => Has(x, s.at[x])'
    <3>1. CASE x = v
      BY <1>11, <1>15, <2>2, <3>1
    <3>2. CASE x # v
      BY <2>3, <3>2 DEF Kind
    <3>. QED  BY <3>1, <3>2
  <2>. HIDE DEF Opened, InPhase, Has, NoVar, Kind, Variable
  <2>. QED  BY <1>14, <2>2, <2>4, <2>5 DEF Fits
<1>. QED  BY <1>5, <1>8, <1>11, <1>12, <1>13, <1>16 DEF Inv, Control

LEMMA CopyKeyStep ==
  ASSUME Inv, CopyKey
  PROVE  Inv'
<1>1. /\ todo # << >> /\ Head(todo).op = "copy_key" /\ Control /\ Programs /\ Registers
      /\ UNCHANGED <<app, tableVars, poolVars>> /\ UNCHANGED <<app, object, generation, program>>
      /\ keys' = [keys EXCEPT ![Arg] = Held(Var)] /\ todo' = Tail(todo) /\ result' = "ok"
      /\ Drop({Var})
  BY DEF CopyKey, At, Inv, Return, Kept, tableVars
<1>2. PICK sc : /\ Fits(sc) /\ sc \in Scope /\ Allowed(Head(todo), sc) /\ sc.phase # "boot"
                /\ Ok(Tail(todo), After(Head(todo), sc))
  BY <1>1, CallIs DEF Library
<1>3. PICK v, vs, s : v = Var /\ vs = {v} /\ s = Known(sc, v, "out")
  OBVIOUS
<1>4. /\ v \in Variable /\ sc.at[v] \notin {"out", "maybe"} /\ Arg = kgate
      /\ Ok(Tail(todo), s)
  BY <1>1, <1>2, <1>3, AfterIs DEF Allowed, Var, Arg
<1>5. v \in DOMAIN local
  BY <1>2, <1>4 DEF Fits
<1>6. keys' \in [Reg -> Key] /\ \A r \in Reg \ {0, 1, kself, kgate} : keys'[r] = keys[r]
  <2>1. Held(v) \in Key /\ keys \in [Reg -> Key]
    BY <1>1, <1>5 DEF Registers, Held
  <2>2. keys' = [keys EXCEPT ![kgate] = Held(v)]
    BY <1>1, <1>3, <1>4
  <2>. QED  BY <2>1, <2>2
<1>7. /\ Memories' /\ Registers'
      /\ DOMAIN local' = DOMAIN local \ vs /\ Mine' \subseteq Mine
      /\ \A w \in DOMAIN local' : Held(w)' = Held(w)
      /\ \A w \in DOMAIN local' : Stays(w)
  <2>1. vs \subseteq DOMAIN local /\ Drop(vs) /\ result' # "keys"
    BY <1>1, <1>3, <1>5
  <2>. QED  BY <1>1, <1>6, <2>1, DropStep
<1>8. InPhase(sc.phase)' /\ Programs'
  <2>1. InPhase(sc.phase) /\ \A w \in Mine' : Held(w)' = Held(w)
    BY <1>2, <1>7 DEF Fits, Mine
  <2>. QED  BY <1>1, <1>2, <1>7, <2>1, FramePhase, SamePrograms
<1>9. Fits(s)'
  <2>1. /\ DOMAIN local' \ {v} = DOMAIN local \ {v} /\ v \notin DOMAIN local'
        /\ \A w \in DOMAIN local \ {v} : Stays(w)
    BY <1>3, <1>7
  <2>2. "out" \in Knowledge /\ "out" \notin Kind
    BY DEF Knowledge, Kind
  <2>. QED  BY <1>2, <1>3, <1>4, <1>8, <2>1, <2>2, FitsKnown
<1>. QED  BY <1>1, <1>4, <1>7, <1>8, <1>9 DEF Inv, Control

LEMMA StartStep ==
  ASSUME Inv, Start
  PROVE  Inv'
<1>1. /\ todo # << >> /\ Head(todo).op = "start" /\ Control /\ Programs
      /\ Memories /\ UNCHANGED <<app, tableVars, keyVars, poolVars>>
      /\ UNCHANGED <<app, object, generation>> /\ Return("ok") /\ result' = "ok"
      /\ program' = [program EXCEPT ![Target(Held(Var))].priority = 0,
                                    ![Target(Held(Var))].runnable = TRUE]
  BY DEF Start, At, Inv, Kept, tableVars, Return
<1>2. PICK sc : /\ Fits(sc) /\ sc \in Scope /\ Allowed(Head(todo), sc) /\ sc.phase # "boot"
                /\ Ok(Tail(todo), After(Head(todo), sc))
  BY <1>1, CallIs DEF Library
<1>3. PICK v, q : v = Var /\ q = Held(v).obj
  OBVIOUS
<1>4. v \in Variable /\ sc.at[v] = "context" /\ sc.phase = "idle"
  BY <1>1, <1>2, <1>3 DEF Allowed, Var
<1>5. "context" \in Kind
  BY DEF Kind
<1>6. Mine = DOMAIN local /\ v \in Mine /\ Live(Held(v)) /\ q = Target(Held(v)) /\ q \in Table
  <2>1. Mine = DOMAIN local /\ Has(v, "context")
    BY <1>2, <1>4, <1>5, FitsMine DEF Fits
  <2>. QED  BY <1>1, <1>3, <2>1, TargetIs DEF Has
<1>7. PICK c, d : /\ c = program[q]
                  /\ d = [[c EXCEPT !.priority = 0] EXCEPT !.runnable = TRUE]
  OBVIOUS
<1>8. program' = [program EXCEPT ![q] = d]
  <2>1. program = [p \in Table |-> program[p]]
    BY <1>1 DEF Programs
  <2>2. program' = [[program EXCEPT ![q].priority = 0] EXCEPT ![q].runnable = TRUE]
    BY <1>1, <1>3, <1>6
  <2>3. \A P, T : P = [p \in T |-> P[p]] /\ q \in T =>
          [[P EXCEPT ![q].priority = 0] EXCEPT ![q].runnable = TRUE]
            = [P EXCEPT ![q] = [[P[q] EXCEPT !.priority = 0] EXCEPT !.runnable = TRUE]]
    OBVIOUS
  <2>. QED  BY <1>6, <1>7, <2>1, <2>2, <2>3
<1>9. IsContext(d) /\ d.key = c.key
  <2>1. IsContext(c)
    BY <1>1, <1>6, <1>7 DEF Programs
  <2>2. d = [key |-> c.key, region |-> c.region, priority |-> 0, runnable |-> TRUE,
             pc |-> c.pc, sp |-> c.sp, got |-> c.got]
    BY <1>7, <2>1 DEF IsContext
  <2>. QED  BY <2>1, <2>2 DEF IsContext
<1>10. /\ Programs' /\ \A p \in Table \ {q} : program'[p] = program[p]
  <2>1. d.key[15] # NullKey => d.key[15].brand.n = q
    BY <1>1, <1>6, <1>7, <1>9 DEF Programs
  <2>. QED  BY <1>1, <1>8, <1>9, <2>1, FillPrograms
<1>11. /\ Memories' /\ Registers' /\ DOMAIN local' = DOMAIN local /\ Mine' = Mine
       /\ \A w \in DOMAIN local : Held(w)' = Held(w)
       /\ \A w \in DOMAIN local : Stays(w)
  BY <1>1, SameParts
<1>12. InPhase(sc.phase)'
  <2>1. InPhase(sc.phase)
    BY <1>2 DEF Fits
  <2>2. Mine' \subseteq Mine /\ \A w \in Mine' : Held(w)' = Held(w)
    BY <1>6, <1>11
  <2>. QED  BY <1>1, <1>2, <1>3, <1>4, <1>6, <1>10, <2>1, <2>2, PhaseOther
<1>. QED  BY <1>1, <1>2, <1>10, <1>11, <1>12, ForgetStep DEF Unknowing

LEMMA PrepareIdleTaskStep ==
  ASSUME Inv, PrepareIdleTask
  PROVE  Inv'
<1>1. /\ todo # << >> /\ Head(todo).op = "prepare_idle_task" /\ Control /\ Programs /\ Registers
      /\ Memories /\ UNCHANGED <<app, tableVars, poolVars>>
      /\ UNCHANGED <<app, object, generation>> /\ keys' = keys /\ Drop({Var})
  BY DEF PrepareIdleTask, At, Inv, Kept, tableVars
<1>2. PICK sc : /\ Fits(sc) /\ sc \in Scope /\ Allowed(Head(todo), sc) /\ sc.phase # "boot"
                /\ Deep(Opened(sc)) /\ Ok(Tail(todo), After(Head(todo), sc))
  BY <1>1, CallIs DEF Library
<1>3. PICK v, vs, q, s : /\ v = Var /\ vs = {v} /\ q = Held(v).obj
                         /\ s = [Known(sc, v, "out") EXCEPT !.phase = "idle"]
  OBVIOUS
<1>4. PICK c : c = Head(todo)
  OBVIOUS
<1>5. v \in Variable /\ sc.at[v] = "context" /\ Ok(Tail(todo), s)
  <2>1. c.op = "prepare_idle_task" /\ c.var = v /\ Allowed(c, sc)
    BY <1>1, <1>2, <1>3, <1>4 DEF Var
  <2>2. After(c, sc) = s
    BY <1>3, <2>1, AfterIs
  <2>. QED  BY <1>2, <1>4, <2>1, <2>2 DEF Allowed
<1>6. "context" \in Kind
  BY DEF Kind
<1>7. Mine = DOMAIN local /\ Has(v, "context") /\ v \in Mine /\ Live(Held(v))
  BY <1>2, <1>5, <1>6, FitsMine DEF Fits, Has
<1>8. q \in Table \ {0, Self} /\ q = Target(Held(v)) /\ object[q].kind = "context"
  BY <1>1, <1>3, <1>7, TargetIs DEF Has
<1>9. Return("ok") /\ result' # "keys"
  BY <1>1, <1>2, ScopeHasRoom DEF PrepareIdleTask, Return
<1>10. PICK own : own = program[Target(keys[kself])].region
  OBVIOUS
<1>11. PICK a, b, d : a = own[0] /\ b = own[1] /\ d = IdleFilled(a, b)
  OBVIOUS
<1>12. IsContext(d) /\ d.key[15] = NullKey /\ d.priority = 1 /\ d.runnable = TRUE
  <2>1. d = IdleFilled(a, b)
    BY <1>11
  <2>. HIDE DEF IsContext, NullKey
  <2>. QED  BY ONLY <2>1, IdleContext, Zenon
<1>13. program' = [program EXCEPT ![q] = d]
  <2>1. program' = [program EXCEPT ![Target(Held(Var))] =
           [Blank EXCEPT !.region[0] = program[Target(keys[kself])].region[0],
                         !.region[1] = program[Target(keys[kself])].region[1],
                         !.priority = 1, !.runnable = TRUE]]
    BY DEF PrepareIdleTask
  <2>2. d = [Blank EXCEPT !.region[0] = program[Target(keys[kself])].region[0],
                          !.region[1] = program[Target(keys[kself])].region[1],
                          !.priority = 1, !.runnable = TRUE]
    BY <1>10, <1>11 DEF IdleFilled
  <2>3. Target(Held(Var)) = q
    BY <1>3, <1>8
  <2>. QED  BY <2>1, <2>2, <2>3
<1>14. Programs' /\ program'[q] = d
  <2>1. Programs /\ app' = app /\ IsContext(d) /\ ~ d.key[15] # NullKey
    BY <1>1, <1>12
  <2>2. Programs' /\ (q \in Table => program'[q] = d)
    <3>. HIDE DEF IsContext, NullKey, Programs
    <3>. QED  BY ONLY <1>13, <2>1, FillPrograms
  <2>. QED  BY <1>8, <2>2
<1>15. /\ Memories' /\ Registers'
       /\ DOMAIN local' = DOMAIN local \ vs /\ Mine' \subseteq Mine
       /\ \A w \in DOMAIN local' : Held(w)' = Held(w)
       /\ \A w \in DOMAIN local' : Stays(w)
  <2>1. vs \subseteq DOMAIN local /\ Drop(vs)
    BY <1>1, <1>3, <1>7
  <2>2. keys' \in [Reg -> Key]
    BY <1>1 DEF Registers
  <2>. QED  BY <1>1, <1>9, <2>1, <2>2, DropStep
<1>16. IsIdle(q)'
  <2>1. Idle(q)' /\ object'[q].kind = "context"
    BY <1>1, <1>8, <1>12, <1>14 DEF Idle
  <2>2. ASSUME NEW w \in Mine', Live(Held(w))'  PROVE Held(w)'.obj # q
    <3>1. w \in Mine /\ w # v /\ Held(w)' = Held(w)
      BY <1>3, <1>15 DEF Mine
    <3>2. Live(Held(w))
      BY <1>1, <2>2, <3>1 DEF Live
    <3>3. Apart(w, v)
      BY <1>1, <1>7, <3>1 DEF Memories, Holdings
    <3>. QED  BY <1>3, <1>7, <3>1, <3>2, <3>3 DEF Apart
  <2>. QED  BY <2>1, <2>2 DEF IsIdle
<1>17. InPhase("idle")'
  <2>1. q \in Table' \ {Self}
    BY <1>1, <1>8 DEF Table
  <2>. QED  BY <1>16, <2>1 DEF InPhase, IdleThere, Self
<1>18. Fits(s)'
  <2>1. "out" \in Knowledge /\ "idle" \in Phase /\ "out" \notin Kind
    BY DEF Knowledge, Phase, Kind
  <2>2. /\ s \in Scope /\ s.at[v] = "out" /\ s.last = NoVar /\ s.phase = "idle"
        /\ \A x \in Variable \ {v} : s.at[x] = sc.at[x]
    BY <1>2, <1>3, <1>5, <2>1, PhasedIs
  <2>3. \A x \in DOMAIN local' : x \in Opened(s)
    BY <1>2, <1>3, <1>15, <2>2 DEF Fits, Opened
  <2>4. ASSUME NEW x \in Variable
        PROVE  /\ s.at[x] \notin {"out", "maybe"} => x \in DOMAIN local'
               /\ s.at[x] \in Kind => Has(x, s.at[x])'
    <3>1. CASE x = v
      BY <2>1, <2>2, <3>1
    <3>2. CASE x # v
      <4>1. /\ s.at[x] \notin {"out", "maybe"} => x \in DOMAIN local
            /\ s.at[x] \in Kind => Has(x, s.at[x])
        BY <1>2, <2>2, <3>2 DEF Fits
      <4>2. x \in DOMAIN local => x \in DOMAIN local'
        BY <1>3, <1>15, <3>2
      <4>3. s.at[x] \in Kind => Has(x, s.at[x])'
        BY <1>15, <4>1, <4>2 DEF Stays, Has
      <4>. QED  BY <4>1, <4>2, <4>3
    <3>. QED  BY <3>1, <3>2
  <2>. HIDE DEF Opened, InPhase, Has, NoVar, Kind, Variable
  <2>. QED  BY <1>17, <2>2, <2>3, <2>4 DEF Fits
<1>. QED  BY <1>5, <1>9, <1>14, <1>15, <1>18 DEF Inv, Control, Return

LEMMA IsolateStep ==
  ASSUME Inv, Isolate
  PROVE  Inv'
<1>1. /\ todo # << >> /\ Head(todo).op = "isolate" /\ Control /\ Programs /\ Registers
      /\ Memories /\ UNCHANGED <<app, next, mem_roots, program>>
  BY DEF Isolate, At, Inv
<1>2. PICK sc : /\ Fits(sc) /\ sc \in Scope /\ Allowed(Head(todo), sc) /\ sc.phase # "boot"
                /\ Deep(Opened(sc)) /\ Ok(Tail(todo), After(Head(todo), sc))
  BY <1>1, CallIs DEF Library
<1>3. PICK v, s, n, img : v = "k_img" /\ s = Known(sc, v, "held") /\ n = NextSlot /\ img = Arg
  OBVIOUS
<1>4. PICK c : c = Head(todo)
  OBVIOUS
<1>5. /\ v = Var /\ v \in Variable /\ sc.at[v] = "out" /\ Ok(Tail(todo), s)
      /\ img.base \in Nat /\ img.level \in Level /\ Outside(img.base)
  <2>1. c.op = "isolate" /\ c.var = Var /\ c.arg = Arg /\ Allowed(c, sc)
    BY <1>1, <1>2, <1>3, <1>4 DEF Var, Arg
  <2>2. /\ c.var = "k_img" /\ sc.at["k_img"] = "out"
        /\ c.arg.base \in Nat /\ c.arg.level \in Level /\ Outside(c.arg.base)
    <3>. HIDE DEF Level
    <3>. QED  BY <2>1 DEF Allowed
  <2>3. After(c, sc) = s /\ "k_img" \in Variable
    BY <1>3, <2>1, <2>2, AfterIs DEF Variable
  <2>. QED  BY <1>2, <1>3, <1>4, <2>1, <2>2, <2>3
<1>6. Mine = DOMAIN local /\ v \notin DOMAIN local /\ Room(2)
  BY <1>1, <1>2, <1>5, FitsMine, ScopeHasRoom DEF Fits, Opened
<1>7. Room(1)
  BY <1>1, <1>2, ScopeHasRoom
<1>8. CASE NoSlots \/ ~ SlotAt(n)
  <2>1. /\ Halt("assertion") /\ UNCHANGED <<available_keys, local>> /\ keys' = keys
        /\ slots_used' \in {slots_used, slots_used + 1} /\ result' # "keys"
        /\ UNCHANGED <<app, tableVars, mem_roots>>
        /\ UNCHANGED <<app, object, generation, program>>
    BY <1>1, <1>3, <1>6, <1>8 DEF Isolate, keyVars, Halt, tableVars
  <2>2. keys' \in [Reg -> Key]
    BY <1>1, <2>1 DEF Registers
  <2>3. Registers' /\ DOMAIN local' = DOMAIN local /\ \A w \in DOMAIN local : Held(w)' = Held(w)
    BY <1>1, <2>1, <2>2, SameRegisters
  <2>4. Mine' \subseteq Mine /\ \A w \in Mine' : Held(w)' = Held(w)
    BY <2>3 DEF Mine
  <2>5. Memories' /\ Programs'
    BY <1>1, <2>1, <2>4, SameMemories, SamePrograms
  <2>6. InPhase(sc.phase)'
    BY <1>2, <2>1, <2>4, FramePhase DEF Fits
  <2>. QED  BY <2>1, <2>3, <2>5, <2>6, HaltControl DEF Inv
<1>9. CASE ~ NoSlots /\ SlotAt(n)
  <2>1. PICK k : k = [obj |-> n, gen |-> generation[n] + 1, brand |-> Brand(FALSE, ReadOnly)]
    OBVIOUS
  <2>2. /\ Keep(v, k) /\ todo' = Tail(todo) /\ result' = "ok" /\ slots_used' = slots_used + 1
        /\ object' = [object EXCEPT ![n] = Memory(img.base, img.level)]
        /\ generation' = [generation EXCEPT ![n] = @ + 1]
    BY <1>3, <1>5, <1>6, <1>9, <2>1 DEF Isolate, Return
  <2>3. n \in Table /\ generation[n] \in Nat /\ k \in Key
    <3>1. n \in Table /\ generation[n] \in Nat /\ n \in Nat
      BY <1>1, <1>3, <1>9, TableIs DEF SlotAt, Table
    <3>. QED  BY <2>1, <3>1 DEF Key, Brands, Brand, ReadOnly
  <2>4. /\ Registers' /\ DOMAIN local' = DOMAIN local \cup {v} /\ Held(v)' = k
        /\ \A w \in DOMAIN local : Held(w)' = Held(w)
    BY <1>1, <1>6, <1>7, <2>2, <2>3, KeepRegisters
  <2>5. /\ Mine' = Mine \cup {v} /\ v \notin Mine /\ \A w \in Mine : Held(w)' = Held(w)
    BY <1>5, <1>6, <2>4 DEF Mine
  <2>6. /\ Memories'
        /\ \A i \in Table \ {n} : object'[i] = object[i]
        /\ \A w \in Mine : Live(Held(w))' <=> Live(Held(w))
    <3>1. Held(v)'.obj = NextSlot /\ Held(v)'.gen = generation[NextSlot] + 1
      BY <1>3, <2>1, <2>4
    <3>2. SlotAt(NextSlot)
      BY <1>3, <1>9
    <3>3. PICK base, level : base = img.base /\ level = img.level
      OBVIOUS
    <3>4. /\ base \in Nat /\ level \in Level /\ Outside(base)
          /\ object' = [object EXCEPT ![NextSlot] = Memory(base, level)]
          /\ generation' = [generation EXCEPT ![NextSlot] = @ + 1]
      BY <1>3, <1>5, <2>2, <3>3
    <3>5. UNCHANGED <<app, next, mem_roots>>
      BY <1>1
    <3>. HIDE DEF Level
    <3>. QED  BY <1>1, <1>3, <2>2, <2>5, <3>1, <3>2, <3>4, <3>5, IsolateMemories
  <2>7. \A w \in Mine : Held(w).obj \in Table \ {n}
    BY <1>1, <1>3, TargetIs, TableIs DEF Table
  <2>8. \A w \in DOMAIN local : Stays(w)
    <3>. TAKE w \in DOMAIN local
    <3>1. w \in DOMAIN local' /\ Held(w)' = Held(w) /\ w \in Mine
      BY <1>6, <2>4
    <3>2. Live(Held(w)) => /\ generation'[Held(w).obj] = generation[Held(w).obj]
                           /\ object'[Held(w).obj].kind = object[Held(w).obj].kind
      BY <2>6, <2>7, <3>1 DEF Live
    <3>. QED  BY <3>1, <3>2, HasStays
  <2>9. object[n].kind = "slot"
    BY <1>9 DEF SlotAt
  <2>10. InPhase(sc.phase)'
    <3>1. ASSUME NEW w \in Mine', Live(Held(w))'
          PROVE  \/ w \in Mine /\ Live(Held(w)) /\ Held(w)'.obj = Held(w).obj
                 \/ object[Held(w)'.obj].kind # "context"
      <4>1. CASE w = v
        BY <2>1, <2>4, <2>9, <4>1
      <4>2. CASE w # v
        BY <2>5, <2>6, <3>1, <4>2
      <4>. QED  BY <4>1, <4>2
    <3>2. InPhase(sc.phase)
      BY <1>2 DEF Fits
    <3>3. \A p \in Table : object[p].kind = "context" => object'[p].kind = "context"
      BY <2>6, <2>9
    <3>. QED  BY <1>1, <1>2, <3>1, <3>2, <3>3, PhaseKept
  <2>11. Fits(s)'
    <3>1. "held" \in Knowledge /\ "held" \notin Kind /\ "held" # "out"
      BY DEF Knowledge, Kind
    <3>. QED  BY <1>2, <1>3, <1>5, <2>4, <2>8, <2>10, <3>1, FitsKnown
  <2>12. Programs'
    BY <1>1, SamePrograms
  <2>. QED  BY <1>5, <2>2, <2>4, <2>6, <2>11, <2>12 DEF Inv, Control
<1>. QED  BY <1>8, <1>9

-----------------------------------------------------------------------------
(* The steps of the service *)

LEMMA ServeSyscallsStep ==
  ASSUME Inv, ServeSyscalls
  PROVE  Inv'
<1>1. /\ todo # << >> /\ Head(todo).op = "serve_syscalls" /\ Control /\ Programs /\ Registers
      /\ Memories /\ UNCHANGED <<app, tableVars, poolVars>>
      /\ UNCHANGED <<app, object, generation, program>> /\ keys' = keys
  BY DEF ServeSyscalls, At, Inv, Kept, tableVars
<1>2. PICK sc : /\ Fits(sc) /\ sc \in Scope /\ Allowed(Head(todo), sc) /\ sc.phase # "boot"
                /\ Deep(Opened(sc))
  BY <1>1, CallIs DEF Library
<1>3. sc.phase = "idle"
  BY <1>1, <1>2 DEF Allowed
<1>4. Room(1) /\ Room(2) /\ Mine = DOMAIN local
  BY <1>1, <1>2, ScopeHasRoom, FitsMine
<1>5. PICK a, b : a = NewReg /\ b = Min(available_keys \ {NewReg})
  OBVIOUS
<1>6. a \in available_keys /\ a \in Reg /\ b \in available_keys \ {a} /\ b \in Reg
  <2>1. a \in available_keys /\ available_keys \subseteq Reg /\ IsFiniteSet(available_keys)
    <3>1. available_keys \subseteq Reg
      BY <1>1 DEF Registers, KeysBalanced
    <3>2. IsFiniteSet(available_keys)
      BY <3>1, RegIsFinite, FS_Subset
    <3>. QED  BY <1>1, <1>4, <1>5, <3>1, <3>2, NewRegIsFree
  <2>2. PICK A, T : A = available_keys /\ T = A \ {a}
    OBVIOUS
  <2>3. Cardinality(T) = Cardinality(A) - 1 /\ IsFiniteSet(A) /\ a \in A
    BY <2>1, <2>2, FS_RemoveElement
  <2>4. Cardinality(A) \in Nat /\ Cardinality(A) >= 2
    BY <1>4, <2>2, <2>3, FS_CardinalityType DEF Room
  <2>5. T # {}
    BY <2>3, <2>4, FS_EmptySet
  <2>6. T \in SUBSET Nat
    BY <2>1, <2>2, SysAssumption DEF Reg
  <2>7. Min(T) \in T
    BY <2>5, <2>6, MinIs
  <2>. QED  BY <1>5, <2>1, <2>2, <2>7
<1>7. PICK r : r = CHOOSE p \in Reg \X Reg :
                     /\ p[1] = NewReg
                     /\ p[2] = Min(available_keys \ {NewReg})
  OBVIOUS
<1>8. r[1] = a /\ r[2] = b
  <2>1. <<a, b>> \in Reg \X Reg /\ <<a, b>>[1] = NewReg
          /\ <<a, b>>[2] = Min(available_keys \ {NewReg})
    BY <1>5, <1>6
  <2>. QED  BY <1>5, <1>7, <2>1
<1>9. /\ available_keys' = available_keys \ {a, b}
      /\ local' = [x \in DOMAIN local \cup {"k_client_reply", "k_tmp1"} |->
                     CASE x = "k_client_reply" -> a
                       [] x = "k_tmp1" -> b
                       [] OTHER -> local[x]]
      /\ todo' = <<Call("serving", 0, NoVar)>> /\ result' = "ok"
  BY <1>4, <1>7, <1>8 DEF ServeSyscalls
<1>10. /\ DOMAIN local' = DOMAIN local \cup {"k_client_reply", "k_tmp1"}
       /\ local'["k_client_reply"] = a /\ local'["k_tmp1"] = b
       /\ \A x \in DOMAIN local \ {"k_client_reply", "k_tmp1"} : local'[x] = local[x]
       /\ local' = [x \in DOMAIN local' |-> local'[x]]
  BY <1>9
<1>11. "k_client_reply" \notin DOMAIN local /\ "k_tmp1" \notin DOMAIN local
         /\ "k_client_reply" \notin Variable /\ "k_tmp1" \notin Variable
  <2>1. "k_client_reply" \notin Variable /\ "k_tmp1" \notin Variable
    BY ScopesAssumption DEF Variable
  <2>. QED  BY <1>4, <2>1 DEF Mine
<1>12. Registers'
  <2>. DEFINE F == {0, 1, kself, kgate}
  <2>1. /\ local \in [DOMAIN local -> Reg \ F] /\ available_keys = Reg \ (F \cup Range(local))
        /\ \A v, w \in DOMAIN local : local[v] = local[w] => v = w
        /\ keys' \in [Reg -> Key]
    BY <1>1 DEF Registers, KeysBalanced
  <2>. HIDE DEF F
  <2>2. a \in Reg \ F /\ b \in Reg \ F /\ a # b
        /\ \A x \in DOMAIN local : local[x] # a /\ local[x] # b /\ local[x] \in Reg \ F
    BY <1>6, <2>1 DEF Range
  <2>3. \A x \in DOMAIN local' : local'[x] \in Reg \ F
    BY <1>10, <2>2
  <2>4. Range(local') = Range(local) \cup {a, b}
    BY <1>10, <1>11 DEF Range
  <2>5. available_keys' = Reg \ (F \cup Range(local'))
    BY <1>9, <2>1, <2>4
  <2>6. \A v, w \in DOMAIN local' : local'[v] = local'[w] => v = w
    BY <1>10, <1>11, <2>1, <2>2
  <2>7. local' \in [DOMAIN local' -> Reg \ F] /\ result' # "keys"
    BY <1>9, <1>10, <2>3
  <2>. USE DEF F
  <2>. QED  BY <2>1, <2>5, <2>6, <2>7 DEF Registers, KeysBalanced
<1>13. Mine' = Mine /\ \A w \in Mine : Held(w)' = Held(w)
  <2>1. Mine' = Mine
    BY <1>10, <1>11 DEF Mine
  <2>. QED  BY <1>1, <1>4, <1>10, <1>11, <2>1 DEF Held
<1>14. Memories' /\ Programs'
  BY <1>1, <1>13, SameMemories, SamePrograms DEF poolVars
<1>15. InPhase("idle")'
  BY <1>1, <1>2, <1>3, <1>13, FramePhase DEF Fits
<1>16. Serving'
  BY <1>9, <1>15 DEF Serving, InPhase
<1>. QED  BY <1>12, <1>14, <1>16 DEF Inv, Control

\* While the server waits for a request there is an idle Context.
LEMMA ServingIs ==
  ASSUME Control, At("serving")
  PROVE  Serving
<1>1. \A op, arg, var : Call(op, arg, var).op = op
  BY DEF Call
<1>2. \A op, arg, var : Head(<<Call(op, arg, var)>>).op = op
  BY <1>1
<1>3. ~ Halted
  BY <1>2 DEF Halted, At
<1>4. ASSUME NEW sc, Ok(todo, sc)  PROVE FALSE
  <2>1. Head(todo).op \in Library
    <3>1. PICK c : c = Head(todo) /\ Allowed(c, sc)
      BY <1>4, OkHead DEF At
    <3>. QED  BY <3>1 DEF Allowed
  <2>. QED  BY <2>1 DEF Library, At
<1>5. \A sc : ~ Descending(sc) /\ ~ Freeing(sc) /\ ~ Failing(sc)
  BY <1>1 DEF Descending, Freeing, Failing, At
<1>. QED  BY <1>3, <1>4, <1>5 DEF Control

\* What a system call leaves of the programs.
LEMMA RegionPrograms ==
  ASSUME Programs, app' = app, NEW q, NEW n, NEW k,
         program' = [program EXCEPT ![q].region[n] = k]
  PROVE  /\ Programs'
         /\ \A p \in Table : /\ program'[p].runnable = program[p].runnable
                             /\ program'[p].priority = program[p].priority
<1>1. program = [p \in Table |-> program[p]]
  BY DEF Programs
<1>2. CASE q \notin Table
  <2>1. program' = program
    BY <1>1, <1>2
  <2>. QED  BY <2>1, SamePrograms
<1>3. CASE q \in Table
  <2>1. PICK c : c = program[q]
    OBVIOUS
  <2>2. PICK d : d = [c EXCEPT !.region[n] = k]
    OBVIOUS
  <2>3. program' = [program EXCEPT ![q] = d]
    BY <2>1, <2>2
  <2>4. IsContext(c) /\ (c.key[15] # NullKey => c.key[15].brand.n = q)
    BY <1>3, <2>1 DEF Programs
  <2>5. PICK e : e = [c.region EXCEPT ![n] = k]
    OBVIOUS
  <2>6. d = [key |-> c.key, region |-> e, priority |-> c.priority,
             runnable |-> c.runnable, pc |-> c.pc, sp |-> c.sp, got |-> c.got]
    BY <2>2, <2>4, <2>5 DEF IsContext
  <2>7. /\ d.key = c.key /\ d.region = e /\ d.priority = c.priority
        /\ d.runnable = c.runnable /\ d.pc = c.pc /\ d.sp = c.sp /\ d.got = c.got
    BY ONLY <2>6
  <2>8. IsContext(d) /\ (d.key[15] # NullKey => d.key[15].brand.n = q)
    BY <2>4, <2>6, <2>7 DEF IsContext
  <2>9. /\ Programs' /\ \A p \in Table \ {q} : program'[p] = program[p]
        /\ program'[q] = d
    BY <1>3, <2>3, <2>8, FillPrograms
  <2>10. ASSUME NEW p \in Table
         PROVE  /\ program'[p].runnable = program[p].runnable
                /\ program'[p].priority = program[p].priority
    BY <2>1, <2>7, <2>9
  <2>. QED  BY <2>9, <2>10
<1>. QED  BY <1>2, <1>3

LEMMA ServeStep ==
  ASSUME Inv, Serve
  PROVE  Inv'
<1>1. PICK p \in Index : MapMemory(p) \/ Exit(p) \/ BadOperation(p)
  BY DEF Serve
<1>2. /\ At("serving") /\ UNCHANGED <<app, tableVars, keyVars, poolVars>>
      /\ UNCHANGED <<app, object, generation>> /\ Programs /\ Control
  BY <1>1 DEF MapMemory, Exit, BadOperation, Sends, Kept, tableVars, Inv
<1>3. Serving /\ InPhase("idle")
  BY <1>2, ServingIs DEF InPhase, Serving
<1>4. result' # "keys"
  BY <1>1 DEF MapMemory, Exit, BadOperation, Halt
<1>5. Memories' /\ Registers' /\ Mine' = Mine /\ \A w \in Mine : Held(w)' = Held(w)
  <2>1. /\ Memories' /\ Registers' /\ Mine' = Mine
        /\ \A w \in DOMAIN local : Held(w)' = Held(w)
    BY <1>2, <1>4, SameParts
  <2>. QED  BY <2>1 DEF Mine
<1>6. /\ Programs'
      /\ \A q \in Table : /\ program'[q].runnable = program[q].runnable
                          /\ program'[q].priority = program[q].priority
  <2>1. CASE program' = program
    BY <1>2, <2>1, SamePrograms
  <2>2. CASE program' # program
    <3>1. PICK r \in Request : program' = [program EXCEPT ![Caller(p)].region[r.index] =
                                             program[p].key[r.from]]
      BY <1>1, <2>2 DEF MapMemory, Exit, BadOperation
    <3>2. PICK q, n, k : q = Caller(p) /\ n = r.index /\ k = program[p].key[r.from]
      OBVIOUS
    <3>3. program' = [program EXCEPT ![q].region[n] = k]
      BY <3>1, <3>2
    <3>. QED  BY <1>2, <3>3, RegionPrograms
  <2>. QED  BY <2>1, <2>2
<1>7. InPhase("idle")'
  <2>1. Mine' \subseteq Mine /\ \A w \in Mine' : Held(w)' = Held(w)
    BY <1>5
  <2>. QED  BY <1>2, <1>3, <1>6, <2>1, PhaseWith
<1>8. Control'
  <2>1. CASE todo' = todo
    BY <1>3, <1>7, <2>1 DEF Control, Serving, InPhase
  <2>2. CASE todo' # todo
    <3>1. PICK why : Halt(why)
      BY <1>1, <2>2 DEF MapMemory, Exit, BadOperation
    <3>. QED  BY <1>7, <3>1, HaltControl
  <2>. QED  BY <2>1, <2>2
<1>. QED  BY <1>5, <1>6, <1>8 DEF Inv

-----------------------------------------------------------------------------
(* Any calls of the library *)

\* The variables of an application that may make any calls, and the others that
\* those calls open.
AnyOpened(sc) == Opened(sc) \cup AnyVar \cup {"k_img", "k_ram"}

LEMMA ReadyWithin ==
  ASSUME NEW S \in SUBSET Variable, Deep(S), NEW a \in Scope, Opened(a) \subseteq S,
         a.phase # "boot"
  PROVE  Ready(a)
BY DeepWithin DEF Ready

LEMMA AnyOpenedIs ==
  ASSUME NEW sc
  PROVE  AnyOpened(sc) \in SUBSET Variable
BY DEF AnyOpened, Opened, Variable

\* After its own calls such an application goes on with one call less to make.
LEMMA AnyLast ==
  ASSUME NEW sc \in Scope, NEW a \in Scope, sc.phase # "boot", a.phase = sc.phase,
         \A x \in Variable \ AnyVar : a.at[x] = sc.at[x],
         sc.at["k_img"] = "out", sc.at["k_ram"] = "out", Deep(AnyOpened(sc)),
         NEW n \in Nat, NEW c, c = Call("any", n, NoVar)
  PROVE  Allowed(c, a) /\ After(c, a) = AfterAny(sc)
<1>1. Opened(a) \subseteq AnyOpened(sc)
  BY DEF Opened, AnyOpened
<1>2. Ready(a)
  BY <1>1, AnyOpenedIs, ReadyWithin
<1>3. /\ "k_img" \in Variable \ AnyVar /\ "k_ram" \in Variable \ AnyVar
  BY ScopesAssumption DEF Variable
<1>4. a.at["k_img"] = "out" /\ a.at["k_ram"] = "out"
  BY <1>3
<1>5. Deep(Opened(a) \cup AnyVar \cup {"k_img", "k_ram"})
  <2>1. Opened(a) \cup AnyVar \cup {"k_img", "k_ram"} \in SUBSET AnyOpened(sc)
    BY <1>1 DEF AnyOpened
  <2>. QED  BY <2>1, AnyOpenedIs, DeepWithin
<1>6. AfterAny(a) = AfterAny(sc)
  BY AfterAnySame
<1>. QED  BY <1>2, <1>4, <1>5, <1>6, AllowAny

\* Between two of its calls such an application knows which variables it has.
LEMMA AnyScope ==
  ASSUME Inv, NEW sc, Fits(sc), sc.phase # "boot",
         UNCHANGED <<app, tableVars, keyVars, poolVars, program>>, result' = "ok"
  PROVE  \E h \in Scope :
           /\ Fits(h)' /\ h.phase = sc.phase /\ h.last = NoVar
           /\ \A x \in Variable \ AnyVar : h.at[x] = sc.at[x]
           /\ \A x \in AnyVar : h.at[x] = IF x \in DOMAIN local THEN "held" ELSE "out"
<1>1. sc \in Scope /\ sc.at \in [Variable -> Knowledge] /\ sc.phase \in Phase
  BY DEF Fits, Scope
<1>2. PICK f : f = [x \in Variable |-> IF x \notin AnyVar THEN sc.at[x]
                                       ELSE IF x \in DOMAIN local THEN "held" ELSE "out"]
  OBVIOUS
<1>3. PICK h : h = [at |-> f, last |-> NoVar, made |-> "memory", phase |-> sc.phase]
  OBVIOUS
<1>4. h \in Scope
  <2>1. "held" \in Knowledge /\ "out" \in Knowledge /\ "memory" \in Kind
    BY DEF Knowledge, Kind
  <2>2. f \in [Variable -> Knowledge]
    BY <1>1, <1>2, <2>1
  <2>. HIDE DEF Variable, Knowledge, Kind, Phase, NoVar
  <2>. QED  BY <1>1, <1>3, <2>1, <2>2 DEF Scope
<1>5. /\ h.phase = sc.phase /\ h.last = NoVar
      /\ \A x \in Variable \ AnyVar : h.at[x] = sc.at[x]
      /\ \A x \in AnyVar : x \in Variable
      /\ \A x \in AnyVar : h.at[x] = IF x \in DOMAIN local THEN "held" ELSE "out"
  BY <1>2, <1>3 DEF Variable
<1>6. Mine = DOMAIN local
  BY FitsMine
<1>7. /\ DOMAIN local' = DOMAIN local /\ \A w \in DOMAIN local : Stays(w)
      /\ InPhase(h.phase)'
  <2>1. result' # "keys" /\ InPhase(sc.phase)
    BY DEF Fits
  <2>. QED  BY <1>5, <1>6, <2>1, SameStep
<1>8. \A x \in DOMAIN local : x \in Opened(h)
  <2>. TAKE x \in DOMAIN local
  <2>1. x \in Opened(sc) /\ x \in Variable
    BY DEF Fits, Opened
  <2>. QED  BY <1>5, <2>1 DEF Opened
<1>9. ASSUME NEW x \in Variable
      PROVE  /\ h.at[x] \notin {"out", "maybe"} => x \in DOMAIN local
             /\ h.at[x] \in Kind => Has(x, h.at[x])'
  <2>1. CASE x \in AnyVar
    BY <1>5, <2>1 DEF Kind
  <2>2. CASE x \notin AnyVar
    <3>1. /\ h.at[x] \notin {"out", "maybe"} => x \in DOMAIN local
          /\ h.at[x] \in Kind => Has(x, h.at[x])
      BY <1>5, <2>2 DEF Fits
    <3>2. h.at[x] \in Kind => Has(x, h.at[x])'
      BY <1>7, <3>1 DEF Stays, Has
    <3>. QED  BY <3>1, <3>2
  <2>. QED  BY <2>1, <2>2
<1>10. Fits(h)'
  <2>. HIDE DEF Opened, InPhase, Has, NoVar, Kind, Variable
  <2>. QED  BY <1>4, <1>5, <1>7, <1>8, <1>9 DEF Fits
<1>. QED  BY <1>4, <1>5, <1>10

LEMMA AnyCallStep ==
  ASSUME Inv, AnyCall
  PROVE  Inv'
<1>1. /\ todo # << >> /\ Head(todo).op = "any" /\ Control /\ Arg > 0
      /\ UNCHANGED <<app, tableVars, keyVars, poolVars, program>>
  BY DEF AnyCall, At, Inv, Kept
<1>2. PICK sc : /\ Fits(sc) /\ sc \in Scope /\ Allowed(Head(todo), sc) /\ sc.phase # "boot"
                /\ Ok(Tail(todo), After(Head(todo), sc))
  BY <1>1, CallIs DEF Library
<1>3. PICK n, t, e : n = Arg - 1 /\ t = Tail(todo) /\ e = Call("any", n, NoVar)
  OBVIOUS
<1>4. /\ n \in Nat /\ sc.at["k_img"] = "out" /\ sc.at["k_ram"] = "out"
      /\ Deep(AnyOpened(sc)) /\ Ok(t, AfterAny(sc))
  <2>1. PICK c : c = Head(todo)
    OBVIOUS
  <2>2. /\ c.arg \in Nat /\ sc.at["k_img"] = "out" /\ sc.at["k_ram"] = "out"
        /\ Deep(Opened(sc) \cup AnyVar \cup {"k_img", "k_ram"})
    BY <1>1, <1>2, <2>1 DEF Allowed
  <2>3. After(c, sc) = AfterAny(sc)
    BY <1>1, <2>1, AfterIs
  <2>. QED  BY <1>1, <1>2, <1>3, <2>1, <2>2, <2>3 DEF AnyOpened, Arg
<1>5. result' = "ok"
  BY DEF AnyCall, Calls
<1>6. PICK h \in Scope :
        /\ Fits(h)' /\ h.phase = sc.phase /\ h.last = NoVar
        /\ \A x \in Variable \ AnyVar : h.at[x] = sc.at[x]
        /\ \A x \in AnyVar : h.at[x] = IF x \in DOMAIN local THEN "held" ELSE "out"
  BY <1>1, <1>2, <1>5, AnyScope
<1>7. /\ AnyVar \subseteq Variable \ {"k_img", "k_ram"}
      /\ "k_img" \in Variable /\ "k_ram" \in Variable
  BY ScopesAssumption DEF Variable
<1>8. /\ h.at["k_img"] = "out" /\ h.at["k_ram"] = "out"
      /\ AnyOpened(sc) \in SUBSET Variable
      /\ Opened(h) \subseteq AnyOpened(sc)
  <2>1. h.at["k_img"] = "out" /\ h.at["k_ram"] = "out"
    BY <1>4, <1>6, <1>7
  <2>2. Opened(h) \subseteq AnyOpened(sc)
    BY <1>6 DEF Opened, AnyOpened
  <2>. QED  BY <2>1, <2>2, AnyOpenedIs
<1>9. Ready(h)
  BY <1>2, <1>4, <1>6, <1>8, ReadyWithin
<1>10. "held" \in Knowledge /\ "out" \in Knowledge /\ "memory" \in Kind
         /\ "held" \notin {"out", "maybe"}
  BY DEF Knowledge, Kind
<1>11. SUFFICES Ok(todo', h)
  <2>1. Memories' /\ Registers' /\ Programs'
    BY <1>1, <1>5, SameStep
  <2>. QED  BY <1>6, <2>1 DEF Inv, Control
<1>. HIDE DEF Variable, Knowledge, Kind
<1>12. ASSUME NEW v \in AnyVar \ DOMAIN local, NEW c, NEW a \in Scope,
              Allowed(c, h), a = After(c, h), a.phase = h.phase,
              \A x \in Variable \ {v} : a.at[x] = h.at[x], Calls(<<c, e>>)
       PROVE  Ok(todo', h)
  <2>1. \A x \in Variable \ AnyVar : a.at[x] = sc.at[x]
    BY <1>6, <1>12
  <2>2. Allowed(e, a) /\ After(e, a) = AfterAny(sc)
    BY <1>2, <1>3, <1>4, <1>6, <1>12, <2>1, AnyLast
  <2>3. Ok(<<c, e>> \o t, h)
    BY <1>4, <1>12, <2>2, OkTwo
  <2>. QED  BY <1>3, <1>12, <2>3 DEF Calls
<1>13. CASE \E v \in AnyVar \ DOMAIN local, l \in AnyLevel :
              Calls(<<Call("alloc_mem", [level |-> l, brand |-> Plain], v), e>>)
  <2>1. PICK v \in AnyVar \ DOMAIN local, l \in AnyLevel :
              Calls(<<Call("alloc_mem", [level |-> l, brand |-> Plain], v), e>>)
    BY <1>13
  <2>2. PICK arg, c, a : /\ arg = [level |-> l, brand |-> Plain]
                         /\ c = Call("alloc_mem", arg, v) /\ a = Pending(h, v, "memory")
    OBVIOUS
  <2>3. v \in Variable \ {"k_img"} /\ h.at[v] = "out" /\ v \in Variable
    BY <1>6, <1>7
  <2>4. arg \in [level : Int, brand : Brands]
    BY <2>2, PlainIs, ScopesAssumption
  <2>5. Allowed(c, h) /\ a = After(c, h)
    BY <1>9, <2>2, <2>3, <2>4, AllowAlloc
  <2>6. a \in Scope /\ a.phase = h.phase /\ \A x \in Variable \ {v} : a.at[x] = h.at[x]
    BY <1>10, <2>2, <2>3, PendingIs
  <2>. QED  BY <1>12, <2>1, <2>2, <2>5, <2>6
<1>14. CASE \E v \in AnyVar \ DOMAIN local : Calls(<<Call("alloc_slot", 0, v), e>>)
  <2>1. PICK v \in AnyVar \ DOMAIN local : Calls(<<Call("alloc_slot", 0, v), e>>)
    BY <1>14
  <2>2. PICK c, a : c = Call("alloc_slot", 0, v) /\ a = Known(h, v, "held")
    OBVIOUS
  <2>3. v \in Variable \ {"k_img"} /\ h.at[v] = "out" /\ v \in Variable
    BY <1>6, <1>7
  <2>4. Allowed(c, h) /\ a = After(c, h)
    BY <1>9, <2>2, <2>3, AllowSlot
  <2>5. a \in Scope /\ a.phase = h.phase /\ \A x \in Variable \ {v} : a.at[x] = h.at[x]
    BY <1>10, <2>2, <2>3, KnownIs
  <2>. QED  BY <1>12, <2>1, <2>2, <2>4, <2>5
<1>15. CASE \E v \in AnyVar \ DOMAIN local, img \in AnyImage :
              Calls(<<Call("isolate", img, "k_img"), Call("load_program", img, v),
                      Call("release", 0, "k_img"), e>>)
  <2>1. PICK v \in AnyVar \ DOMAIN local, img \in AnyImage :
              Calls(<<Call("isolate", img, "k_img"), Call("load_program", img, v),
                      Call("release", 0, "k_img"), e>>)
    BY <1>15
  <2>2. PICK c, d, g, x, y, z :
          /\ c = Call("isolate", img, "k_img") /\ x = Known(h, "k_img", "held")
          /\ d = Call("load_program", img, v) /\ y = Loaded(x, v)
          /\ g = Call("release", 0, "k_img") /\ z = Known(y, "k_img", "out")
    OBVIOUS
  <2>3. v \in Variable \ {"k_img", "k_ram"} /\ h.at[v] = "out" /\ v \in AnyVar
    BY <1>6, <1>7
  <2>4. Allowed(c, h) /\ x = After(c, h)
    <3>1. img.base \in Nat /\ img.level \in Level /\ Outside(img.base)
      BY ScopesAssumption
    <3>. HIDE DEF Level
    <3>. QED  BY <1>8, <1>9, <2>2, <3>1, AllowIsolate
  <2>5. /\ x \in Scope /\ x.phase = h.phase /\ x.at["k_img"] = "held"
        /\ \A w \in Variable \ {"k_img"} : x.at[w] = h.at[w]
    <3>1. PICK u, o : u = "k_img" /\ o = "held"
      OBVIOUS
    <3>2. u \in Variable /\ o \in Knowledge /\ x = Known(h, u, o) /\ h \in Scope
      BY <1>7, <1>10, <2>2, <3>1
    <3>3. /\ x \in Scope /\ x.phase = h.phase /\ x.at[u] = o
          /\ \A w \in Variable \ {u} : x.at[w] = h.at[w]
      BY ONLY <3>2, KnownIs
    <3>. QED  BY <3>1, <3>3
  <2>6. Opened(x) \subseteq AnyOpened(sc) /\ Opened(x) \cup {v, "k_ram"} \in SUBSET AnyOpened(sc)
    <3>1. \A w \in Opened(x) : w = "k_img" \/ w \in Opened(h)
      BY <2>5 DEF Opened
    <3>. QED  BY <1>8, <2>3, <3>1 DEF AnyOpened
  <2>7. Ready(x) /\ Deep(Opened(x) \cup {v, "k_ram"})
    BY <1>2, <1>4, <1>6, <1>8, <2>5, <2>6, ReadyWithin, DeepWithin
  <2>8. x.at[v] = "out" /\ x.at["k_ram"] = "out"
    BY <1>7, <1>8, <2>3, <2>5
  <2>9. Allowed(d, x) /\ y = After(d, x)
    BY <2>2, <2>3, <2>7, <2>8, AllowLoadProgram
  <2>10. /\ y \in Scope /\ y.phase = h.phase /\ y.at["k_ram"] = "out"
         /\ \A w \in Variable \ {v, "k_ram"} : y.at[w] = x.at[w]
    BY <2>2, <2>3, <2>5, LoadedIs
  <2>11. Ready(y)
    <3>1. \A w \in Opened(y) : w = v \/ w \in Opened(x)
      BY <2>10 DEF Opened
    <3>2. Opened(y) \subseteq AnyOpened(sc)
      BY <2>6, <3>1
    <3>. QED  BY <1>2, <1>4, <1>6, <1>8, <2>10, <3>2, ReadyWithin
  <2>12. Allowed(g, y) /\ z = After(g, y)
    BY <1>7, <2>2, <2>11, AllowRelease
  <2>13. /\ z \in Scope /\ z.phase = h.phase /\ z.at["k_img"] = "out"
         /\ \A w \in Variable \ {"k_img"} : z.at[w] = y.at[w]
    <3>1. PICK u, o : u = "k_img" /\ o = "out"
      OBVIOUS
    <3>2. u \in Variable /\ o \in Knowledge /\ z = Known(y, u, o) /\ y \in Scope
      BY <1>7, <1>10, <2>2, <2>10, <3>1
    <3>3. /\ z \in Scope /\ z.phase = y.phase /\ z.at[u] = o
          /\ \A w \in Variable \ {u} : z.at[w] = y.at[w]
      BY ONLY <3>2, KnownIs
    <3>. QED  BY <2>10, <3>1, <3>3
  <2>14. ASSUME NEW w \in Variable \ AnyVar  PROVE z.at[w] = sc.at[w]
    <3>1. CASE w = "k_img"
      BY <1>4, <2>13, <3>1
    <3>2. CASE w = "k_ram"
      BY <1>4, <2>10, <2>13, <3>2
    <3>3. CASE w \notin {"k_img", "k_ram"}
      BY <1>6, <2>3, <2>5, <2>10, <2>13, <2>14, <3>3
    <3>. QED  BY <3>1, <3>2, <3>3
  <2>15. Allowed(e, z) /\ After(e, z) = AfterAny(sc)
    BY <1>2, <1>3, <1>4, <1>6, <2>13, <2>14, AnyLast
  <2>16. Ok(<<c, d, g, e>> \o t, h)
    BY <1>4, <2>4, <2>5, <2>9, <2>10, <2>12, <2>13, <2>15, OkFour
  <2>. QED  BY <1>3, <2>1, <2>2, <2>16 DEF Calls
<1>16. CASE \E v \in AnyVar \cap DOMAIN local :
              Calls(<<Call("free_mem", 0, v), Call("release", 0, v), e>>)
  <2>1. PICK v \in AnyVar \cap DOMAIN local :
              Calls(<<Call("free_mem", 0, v), Call("release", 0, v), e>>)
    BY <1>16
  <2>2. PICK c, d, x, y :
          /\ c = Call("free_mem", 0, v) /\ x = Known(h, v, "held")
          /\ d = Call("release", 0, v) /\ y = Known(x, v, "out")
    OBVIOUS
  <2>3. v \in Variable \ {"k_img"} /\ v \in Variable /\ v \in AnyVar /\ h.at[v] = "held"
    BY <1>6, <1>7
  <2>4. Allowed(c, h) /\ x = After(c, h)
    BY <1>9, <1>10, <2>2, <2>3, AllowFree
  <2>5. x \in Scope /\ x.phase = h.phase /\ \A w \in Variable \ {v} : x.at[w] = h.at[w]
    BY <1>10, <2>2, <2>3, KnownIs
  <2>6. Ready(x)
    <3>1. \A w \in Opened(x) : w = v \/ w \in Opened(h)
      BY <2>5 DEF Opened
    <3>2. Opened(x) \subseteq AnyOpened(sc)
      BY <1>8, <2>3, <3>1 DEF AnyOpened
    <3>. QED  BY <1>2, <1>4, <1>6, <1>8, <2>5, <3>2, ReadyWithin
  <2>7. Allowed(d, x) /\ y = After(d, x)
    BY <2>2, <2>3, <2>6, AllowRelease
  <2>8. y \in Scope /\ y.phase = h.phase /\ \A w \in Variable \ {v} : y.at[w] = h.at[w]
    BY <1>10, <2>2, <2>3, <2>5, KnownIs
  <2>9. \A w \in Variable \ AnyVar : y.at[w] = sc.at[w]
    BY <1>6, <2>3, <2>8
  <2>10. Allowed(e, y) /\ After(e, y) = AfterAny(sc)
    BY <1>2, <1>3, <1>4, <1>6, <2>8, <2>9, AnyLast
  <2>11. Ok(<<c, d, e>> \o t, h)
    BY <1>4, <2>4, <2>5, <2>7, <2>8, <2>10, OkThree
  <2>. QED  BY <1>3, <2>1, <2>2, <2>11 DEF Calls
<1>. QED  BY <1>3, <1>13, <1>14, <1>15, <1>16 DEF AnyCall

-----------------------------------------------------------------------------
(* The beginning *)

LEMMA OkFive ==
  ASSUME NEW c, NEW d, NEW e, NEW g, NEW h, NEW t, NEW sc \in Scope, Allowed(c, sc),
         NEW sd \in Scope, sd = After(c, sc), Allowed(d, sd),
         NEW se \in Scope, se = After(d, sd), Allowed(e, se),
         NEW sg \in Scope, sg = After(e, se), Allowed(g, sg),
         NEW sh \in Scope, sh = After(g, sg), Allowed(h, sh), Ok(t, After(h, sh))
  PROVE  Ok(<<c, d, e, g, h>> \o t, sc)
<1>1. t \in Seq(Range(t))
  BY OkSeq
<1>2. <<c, d, e, g, h>> \o t = <<c>> \o (<<d, e, g, h>> \o t)
  <2>1. <<c, d, e, g, h>> = <<c>> \o <<d, e, g, h>> /\ <<d, e, g, h>> \in Seq({d, e, g, h})
    OBVIOUS
  <2>2. <<d, e, g, h>> \in Seq({d, e, g, h})
    BY <2>1
  <2>3. (<<c>> \o <<d, e, g, h>>) \o t = <<c>> \o (<<d, e, g, h>> \o t)
    BY <1>1, <2>2, ConsRest, SMTT(30)
  <2>. QED  BY ONLY <2>1, <2>3, Zenon
<1>3. Ok(<<d, e, g, h>> \o t, sd)
  BY OkFour
<1>. QED  BY <1>2, <1>3, OkCons

\* The scope in which v is the only variable.
Only(v, what, last, phase) ==
  [at |-> [x \in Variable |-> IF x = v THEN what ELSE "out"], last |-> last,
   made |-> "memory", phase |-> phase]

LEMMA OnlyIs ==
  ASSUME NEW v \in Variable, NEW what \in Knowledge, NEW last \in Variable \cup {NoVar},
         NEW phase \in Phase
  PROVE  /\ Only(v, what, last, phase) \in Scope
         /\ Only(v, what, last, phase).at[v] = what
         /\ \A x \in Variable \ {v} : Only(v, what, last, phase).at[x] = "out"
         /\ Only(v, what, last, phase).last = last
         /\ Only(v, what, last, phase).made = "memory"
         /\ Only(v, what, last, phase).phase = phase
         /\ Deep(Opened(Only(v, what, last, phase)))
         /\ phase # "boot" => Ready(Only(v, what, last, phase))
<1>1. PICK f, s : /\ f = [x \in Variable |-> IF x = v THEN what ELSE "out"]
                  /\ s = [at |-> f, last |-> last, made |-> "memory", phase |-> phase]
  OBVIOUS
<1>2. s = Only(v, what, last, phase)
  BY <1>1 DEF Only
<1>3. "out" \in Knowledge /\ "memory" \in Kind
  BY DEF Knowledge, Kind
<1>4. f \in [Variable -> Knowledge] /\ f[v] = what /\ \A x \in Variable \ {v} : f[x] = "out"
  BY <1>1, <1>3
<1>5. s.at = f /\ s.last = last /\ s.made = "memory" /\ s.phase = phase
  BY <1>1
<1>6. s \in Scope
  <2>. HIDE DEF Variable, Knowledge, Kind, Phase, NoVar
  <2>. QED  BY <1>1, <1>3, <1>4 DEF Scope
<1>7. Deep(Opened(s))
  <2>1. PICK S : S = {v}
    OBVIOUS
  <2>2. Cardinality(S) = 1
    BY <2>1, FS_Singleton
  <2>3. Deep(S) /\ S \in SUBSET Variable
    BY <2>1, <2>2, ServerAssumption, SysAssumption DEF Deep
  <2>4. Opened(s) \in SUBSET S
    BY <1>4, <1>5, <2>1 DEF Opened
  <2>. QED  BY <2>3, <2>4, DeepWithin
<1>8. phase # "boot" => Ready(s)
  BY <1>5, <1>6, <1>7 DEF Ready
<1>. QED  BY <1>2, <1>4, <1>5, <1>6, <1>7, <1>8

\* From one such scope to the next.
LEMMA OnlySteps ==
  ASSUME NEW v \in Variable, NEW a, NEW b, NEW last, NEW phase
  PROVE  /\ Known(Only(v, a, last, phase), v, b) = Only(v, b, NoVar, phase)
         /\ Pending(Only(v, a, last, phase), v, "memory") = Only(v, "maybe", v, phase)
         /\ Forget(Only(v, a, last, phase)) = Only(v, a, NoVar, phase)
         /\ Beginning(phase) = Only(v, "out", NoVar, phase)
         /\ \A q : [Known(Only(v, a, last, phase), v, b) EXCEPT !.phase = q]
                     = Only(v, b, NoVar, q)
<1>. DEFINE at(x) == [w \in Variable |-> IF w = v THEN x ELSE "out"]
<1>1. \A x, y : [at(x) EXCEPT ![v] = y] = at(y)
  <2>. HIDE DEF Variable
  <2>. QED  OBVIOUS
<1>2. at("out") = [w \in Variable |-> "out"]
  <2>. HIDE DEF Variable
  <2>. QED  OBVIOUS
<1>3. \A x, l, ph : Only(v, x, l, ph) = [at |-> at(x), last |-> l, made |-> "memory", phase |-> ph]
  BY DEF Only
<1>. HIDE DEF at, NoVar
<1>4. Known(Only(v, a, last, phase), v, b) = Only(v, b, NoVar, phase)
  <2>1. PICK f, g, s : f = at(a) /\ g = at(b) /\ s = Only(v, a, last, phase)
    OBVIOUS
  <2>2. s = [at |-> f, last |-> last, made |-> "memory", phase |-> phase] /\ g = [f EXCEPT ![v] = b]
    BY <1>1, <1>3, <2>1
  <2>3. s.at = f
    BY ONLY <2>2
  <2>4. Known(s, v, b) = [at |-> g, last |-> NoVar, made |-> "memory", phase |-> phase]
    <3>1. PICK h : h = [s EXCEPT !.at = g]
      OBVIOUS
    <3>2. h = [at |-> g, last |-> last, made |-> "memory", phase |-> phase]
      BY ONLY <2>2, <3>1
    <3>3. [h EXCEPT !.last = NoVar] = [at |-> g, last |-> NoVar, made |-> "memory", phase |-> phase]
      BY ONLY <3>2
    <3>. QED  BY <2>2, <2>3, <3>1, <3>3 DEF Known
  <2>. QED  BY <1>3, <2>1, <2>4
<1>5. Pending(Only(v, a, last, phase), v, "memory") = Only(v, "maybe", v, phase)
  <2>1. PICK f, g, s : f = at(a) /\ g = at("maybe") /\ s = Only(v, a, last, phase)
    OBVIOUS
  <2>2. /\ s = [at |-> f, last |-> last, made |-> "memory", phase |-> phase]
        /\ g = [f EXCEPT ![v] = "maybe"]
    BY <1>1, <1>3, <2>1
  <2>3. s.at = f
    BY ONLY <2>2
  <2>4. Pending(s, v, "memory") = [at |-> g, last |-> v, made |-> "memory", phase |-> phase]
    <3>1. PICK h : h = [s EXCEPT !.at = g]
      OBVIOUS
    <3>2. h = [at |-> g, last |-> last, made |-> "memory", phase |-> phase]
      BY ONLY <2>2, <3>1
    <3>3. PICK h2 : h2 = [h EXCEPT !.last = v]
      OBVIOUS
    <3>4. h2 = [at |-> g, last |-> v, made |-> "memory", phase |-> phase]
      BY ONLY <3>2, <3>3
    <3>5. [h2 EXCEPT !.made = "memory"]
            = [at |-> g, last |-> v, made |-> "memory", phase |-> phase]
      BY ONLY <3>4
    <3>. QED  BY <2>2, <2>3, <3>1, <3>3, <3>5 DEF Pending
  <2>. QED  BY <1>3, <2>1, <2>4
<1>6. Forget(Only(v, a, last, phase)) = Only(v, a, NoVar, phase)
  BY <1>3 DEF Forget
<1>7. Beginning(phase) = Only(v, "out", NoVar, phase)
  BY <1>2, <1>3 DEF Beginning
<1>8. \A q : [Only(v, b, NoVar, phase) EXCEPT !.phase = q] = Only(v, b, NoVar, q)
  BY <1>3
<1>. QED  BY <1>4, <1>5, <1>6, <1>7, <1>8

LEMMA OnlyForget ==
  ASSUME NEW v \in Variable, NEW a, NEW last, NEW phase
  PROVE  Forget(Only(v, a, last, phase)) = Only(v, a, NoVar, phase)
<1>1. PICK f, s : /\ f = [x \in Variable |-> IF x = v THEN a ELSE "out"]
                  /\ s = [at |-> f, last |-> last, made |-> "memory", phase |-> phase]
  OBVIOUS
<1>2. PICK n : n = NoVar
  OBVIOUS
<1>3. [s EXCEPT !.last = n] = [at |-> f, last |-> n, made |-> "memory", phase |-> phase]
  BY ONLY <1>1
<1>. QED  BY <1>1, <1>2, <1>3 DEF Forget, Only

LEMMA BeginningIs ==
  ASSUME NEW v \in Variable, NEW phase
  PROVE  Beginning(phase) = Only(v, "out", NoVar, phase)
BY OnlySteps

LEMMA NamesAre ==
  /\ {"k_app_ram", "k", "k_ctx"} \subseteq Variable \ {"k_img"}
  /\ "memory" \in Kind /\ {"context", "gate"} \subseteq Kind \ {"memory"}
BY DEF Variable, Knowledge, Kind, Phase

LEMMA OnlyReady ==
  ASSUME NEW v \in Variable,
         NEW what \in {"out", "maybe", "held", "memory", "context", "gate"},
         NEW last \in {v, NoVar}
  PROVE  /\ Ready(Only(v, what, last, "fed"))
         /\ Only(v, what, last, "fed") \in Scope
         /\ Only(v, what, last, "fed").at[v] = what
         /\ Only(v, what, last, "fed").last = last
         /\ Only(v, what, last, "fed").made = "memory"
         /\ Only(v, what, last, "fed").phase = "fed"
<1>1. PICK phase : phase = "fed"
  OBVIOUS
<1>2. what \in Knowledge
  BY DEF Knowledge, Kind
<1>3. phase \in Phase /\ phase # "boot"
  BY <1>1 DEF Phase
<1>4. last \in Variable \cup {NoVar}
  OBVIOUS
<1>. HIDE DEF Variable, Knowledge, Kind, Phase, NoVar
<1>5. /\ Only(v, what, last, phase) \in Scope
      /\ Only(v, what, last, phase).at[v] = what
      /\ Only(v, what, last, phase).last = last
      /\ Only(v, what, last, phase).made = "memory"
      /\ Only(v, what, last, phase).phase = phase
      /\ phase # "boot" => Ready(Only(v, what, last, phase))
  BY <1>2, <1>3, <1>4, OnlyIs
<1>. QED  BY <1>1, <1>3, <1>5

\* What alloc_mem and the ref of its result leave known.
LEMMA OnlyAllocated ==
  ASSUME NEW v \in Variable \ {"k_img"}, NEW arg \in [level : Int, brand : Brands],
         NEW c, c = Call("alloc_mem", arg, v), NEW d, d = Call("ref", 0, NoVar)
  PROVE  /\ Allowed(c, Only(v, "out", NoVar, "fed"))
         /\ After(c, Only(v, "out", NoVar, "fed")) = Only(v, "maybe", v, "fed")
         /\ Allowed(d, Only(v, "maybe", v, "fed"))
         /\ After(d, Only(v, "maybe", v, "fed")) = Only(v, "memory", NoVar, "fed")
<1>. HIDE DEF Variable, Knowledge, Kind, Phase, NoVar
<1>1. PICK s, t : s = Only(v, "out", NoVar, "fed") /\ t = Only(v, "maybe", v, "fed")
  OBVIOUS
<1>2. Ready(s) /\ s.at[v] = "out" /\ Ready(t) /\ t.last = v /\ t.made = "memory"
  BY <1>1, OnlyReady
<1>3. Allowed(c, s) /\ After(c, s) = Pending(s, v, "memory")
  BY <1>2, AllowAlloc
<1>4. Allowed(d, t) /\ After(d, t) = Known(t, t.last, t.made)
  BY <1>2, AllowRef, ScopesAssumption
<1>5. After(c, s) = t
  BY <1>1, <1>3, OnlySteps
<1>6. After(d, t) = Only(v, "memory", NoVar, "fed")
  BY <1>1, <1>2, <1>4, OnlySteps
<1>. QED  BY <1>1, <1>3, <1>4, <1>5, <1>6

LEMMA OkMakeIdleTask ==
  ASSUME NEW t, Ok(t, Beginning("idle"))
  PROVE  Ok(MakeIdleTask \o t, Beginning("fed"))
<1>. HIDE DEF Variable, Knowledge, Kind, Phase, NoVar
<1>1. PICK v, c, d, e, g :
        /\ v = "k_ctx"
        /\ c = Call("alloc_mem", [level |-> CtxLevel, brand |-> Plain], v)
        /\ d = Call("ref", 0, NoVar)
        /\ e = Call("become", "context", v)
        /\ g = Call("prepare_idle_task", 0, v)
  OBVIOUS
<1>2. v \in Variable \ {"k_img"}
  BY <1>1, NamesAre
<1>3. [level |-> CtxLevel, brand |-> Plain] \in [level : Int, brand : Brands]
  BY PlainIs, ScopesAssumption
<1>4. PICK s0, s1, s2, s3 :
        /\ s0 = Only(v, "out", NoVar, "fed") /\ s1 = Only(v, "maybe", v, "fed")
        /\ s2 = Only(v, "memory", NoVar, "fed") /\ s3 = Only(v, "context", NoVar, "fed")
  OBVIOUS
<1>5. /\ s0 \in Scope /\ s1 \in Scope /\ s2 \in Scope /\ s3 \in Scope
      /\ Ready(s2) /\ s2.at[v] = "memory"
      /\ Ready(s3) /\ s3.at[v] = "context" /\ s3.phase = "fed"
  BY <1>2, <1>4, OnlyReady DEF Ready
<1>6. Allowed(c, s0) /\ After(c, s0) = s1 /\ Allowed(d, s1) /\ After(d, s1) = s2
  BY <1>1, <1>2, <1>3, <1>4, OnlyAllocated
<1>7. Allowed(e, s2) /\ After(e, s2) = s3
  <2>1. Allowed(e, s2) /\ After(e, s2) = Known(s2, v, "context")
    BY <1>1, <1>2, <1>5, NamesAre, AllowBecome
  <2>. QED  BY <1>2, <1>4, <2>1, OnlySteps
<1>8. Allowed(g, s3) /\ After(g, s3) = Beginning("idle")
  <2>1. Allowed(g, s3) /\ After(g, s3) = [Known(s3, v, "out") EXCEPT !.phase = "idle"]
    BY <1>1, <1>2, <1>5, AllowIdle
  <2>. QED  BY <1>2, <1>4, <2>1, OnlySteps, BeginningIs
<1>9. Ok(<<c, d, e, g>> \o t, s0)
  BY <1>5, <1>6, <1>7, <1>8, OkFour
<1>10. s0 = Beginning("fed")
  BY <1>2, <1>4, BeginningIs
<1>. QED  BY <1>1, <1>9, <1>10 DEF MakeIdleTask

LEMMA OkMakeGate ==
  ASSUME NEW t, Ok(t, Only("k", "gate", NoVar, "fed"))
  PROVE  Ok(MakeGate("k") \o t, Beginning("fed"))
<1>. HIDE DEF Variable, Knowledge, Kind, Phase, NoVar
<1>1. PICK v, c, d, e :
        /\ v = "k"
        /\ c = Call("alloc_mem", [level |-> GateLevel, brand |-> Plain], v)
        /\ d = Call("ref", 0, NoVar)
        /\ e = Call("become", "gate", v)
  OBVIOUS
<1>2. v \in Variable \ {"k_img"}
  BY <1>1, NamesAre
<1>3. [level |-> GateLevel, brand |-> Plain] \in [level : Int, brand : Brands]
  BY PlainIs, ScopesAssumption
<1>4. PICK s0, s1, s2 :
        /\ s0 = Only(v, "out", NoVar, "fed") /\ s1 = Only(v, "maybe", v, "fed")
        /\ s2 = Only(v, "memory", NoVar, "fed")
  OBVIOUS
<1>5. /\ s0 \in Scope /\ s1 \in Scope /\ s2 \in Scope
      /\ Ready(s2) /\ s2.at[v] = "memory"
  BY <1>2, <1>4, OnlyReady DEF Ready
<1>6. Allowed(c, s0) /\ After(c, s0) = s1 /\ Allowed(d, s1) /\ After(d, s1) = s2
  BY <1>1, <1>2, <1>3, <1>4, OnlyAllocated
<1>7. Allowed(e, s2) /\ After(e, s2) = Only(v, "gate", NoVar, "fed")
  <2>1. Allowed(e, s2) /\ After(e, s2) = Known(s2, v, "gate")
    BY <1>1, <1>2, <1>5, NamesAre, AllowBecome
  <2>. QED  BY <1>2, <1>4, <2>1, OnlySteps
<1>8. Ok(<<c, d, e>> \o t, s0)
  BY <1>1, <1>5, <1>6, <1>7, OkThree
<1>9. s0 = Beginning("fed")
  BY <1>2, <1>4, BeginningIs
<1>. QED  BY <1>1, <1>8, <1>9 DEF MakeGate

LEMMA OkCopyGate ==
  ASSUME NEW t, Ok(t, Beginning("fed"))
  PROVE  Ok(<<Call("copy_key", kgate, "k")>> \o t, Only("k", "gate", NoVar, "fed"))
<1>. HIDE DEF Variable, Knowledge, Kind, Phase, NoVar
<1>1. PICK v, c, s : /\ v = "k" /\ c = Call("copy_key", kgate, v)
                     /\ s = Only(v, "gate", NoVar, "fed")
  OBVIOUS
<1>2. v \in Variable \ {"k_img"}
  BY <1>1, NamesAre
<1>3. s \in Scope /\ Ready(s) /\ s.at[v] = "gate"
  BY <1>1, <1>2, OnlyReady
<1>4. Allowed(c, s) /\ After(c, s) = Known(s, v, "out")
  BY <1>1, <1>2, <1>3, AllowCopy
<1>5. Known(s, v, "out") = Beginning("fed")
  BY <1>1, <1>2, OnlySteps, BeginningIs
<1>6. Ok(<<c>> \o t, s)
  BY <1>3, <1>4, <1>5, OkCons
<1>. QED  BY <1>1, <1>6

Boot == <<Call("feed_allocator", 0, "k_app_ram"), Call("free_mem", 0, "k_app_ram"),
          Call("ref", 0, NoVar), Call("release", 0, "k_app_ram"),
          Call("make_self_key", 0, NoVar)>>
LEMMA OkBoot ==
  ASSUME NEW t, Ok(t, Beginning("fed"))
  PROVE  Ok(Boot \o t, Beginning("boot"))
<1>. HIDE DEF Variable, Knowledge, Kind, Phase, NoVar
<1>1. PICK v, c, d, e, g, h :
        /\ v = "k_app_ram"
        /\ c = Call("feed_allocator", 0, v) /\ d = Call("free_mem", 0, v)
        /\ e = Call("ref", 0, NoVar) /\ g = Call("release", 0, v)
        /\ h = Call("make_self_key", 0, NoVar)
  OBVIOUS
<1>2. v \in Variable \ {"k_img"}
  BY <1>1, NamesAre
<1>3. PICK s0, s1, s2, s3 :
        /\ s0 = Only(v, "out", NoVar, "boot") /\ s1 = Only(v, "memory", NoVar, "fed")
        /\ s2 = Only(v, "held", NoVar, "fed") /\ s3 = Only(v, "out", NoVar, "fed")
  OBVIOUS
<1>4. /\ s0 \in Scope /\ Deep(Opened(s0)) /\ s0.phase = "boot"
      /\ s0.at[v] = "out" /\ \A x \in Variable \ {v} : s0.at[x] = "out"
  <2>1. PICK phase, what : phase = "boot" /\ what = "out"
    OBVIOUS
  <2>2. phase \in Phase /\ what \in Knowledge
    BY <2>1 DEF Phase, Knowledge
  <2>3. NoVar \in Variable \cup {NoVar}
    OBVIOUS
  <2>4. s0 = Only(v, what, NoVar, phase)
    BY <1>3, <2>1
  <2>5. /\ s0 \in Scope /\ Deep(Opened(s0)) /\ s0.phase = phase
        /\ s0.at[v] = what /\ \A x \in Variable \ {v} : s0.at[x] = "out"
    BY <1>2, <2>2, <2>3, <2>4, OnlyIs
  <2>. QED  BY <2>1, <2>5
<1>5. /\ s1 \in Scope /\ Ready(s1) /\ s1.at[v] = "memory"
      /\ s2 \in Scope /\ Ready(s2) /\ s2.at[v] = "held" /\ s2.last = NoVar
      /\ s3 \in Scope /\ Ready(s3)
  BY <1>2, <1>3, OnlyReady
<1>6. Opened(s0) = {}
  BY <1>4 DEF Opened
<1>7. Allowed(c, s0) /\ After(c, s0) = s1
  <2>1. Allowed(c, s0) /\ After(c, s0) = [Known(s0, v, "memory") EXCEPT !.phase = "fed"]
    BY <1>1, <1>2, <1>4, <1>6, AllowFeed
  <2>. QED  BY <1>2, <1>3, <2>1, OnlySteps
<1>8. Allowed(d, s1) /\ After(d, s1) = s2
  <2>1. Allowed(d, s1) /\ After(d, s1) = Known(s1, v, "held")
    BY <1>1, <1>2, <1>5, AllowFree
  <2>. QED  BY <1>2, <1>3, <2>1, OnlySteps
<1>9. Allowed(e, s2) /\ After(e, s2) = s2
  BY <1>1, <1>5, AllowRef
<1>10. Allowed(g, s2) /\ After(g, s2) = s3
  <2>1. Allowed(g, s2) /\ After(g, s2) = Known(s2, v, "out")
    BY <1>1, <1>2, <1>5, AllowRelease
  <2>. QED  BY <1>2, <1>3, <2>1, OnlySteps
<1>11. Allowed(h, s3) /\ After(h, s3) = Beginning("fed")
  <2>1. Allowed(h, s3) /\ After(h, s3) = Forget(s3)
    BY <1>1, <1>5, AllowSelf
  <2>. QED  BY <1>2, <1>3, <2>1, OnlyForget, BeginningIs
<1>12. Ok(<<c, d, e, g, h>> \o t, s0)
  BY <1>4, <1>5, <1>7, <1>8, <1>9, <1>10, <1>11, OkFive
<1>13. s0 = Beginning("boot")
  BY <1>2, <1>3, BeginningIs
<1>. QED  BY <1>1, <1>12, <1>13 DEF Boot

LEMMA OkMain ==
  ASSUME NEW a \in Application
  PROVE  Ok(main(a.setup), Beginning("boot"))
<1>. HIDE DEF NoVar
<1>1. PICK S, P, G, C, I, R :
        /\ S = a.setup /\ P = Boot /\ G = MakeGate("k") /\ C = <<Call("copy_key", kgate, "k")>>
        /\ I = MakeIdleTask /\ R = <<Call("serve_syscalls", 0, NoVar)>>
  OBVIOUS
<1>2. PICK U : U = Range(S) \cup Range(P) \cup Range(G) \cup Range(C) \cup Range(I) \cup Range(R)
  OBVIOUS
<1>3. S \in Seq(Range(S)) /\ Ok(S \o R, Beginning("idle"))
  BY <1>1, ScopesAssumption DEF Rest, WellFormed, Ok
<1>4. /\ P \in Seq(Range(P)) /\ G \in Seq(Range(G)) /\ C \in Seq(Range(C))
      /\ I \in Seq(Range(I)) /\ R \in Seq(Range(R))
  <2>1. PICK c1, c2, c3, c4, c5, c6, c7, c8, c9, c10, c11, c12, c13, c14 :
          /\ P = <<c1, c2, c3, c4, c5>> /\ G = <<c6, c7, c8>> /\ C = <<c9>>
          /\ I = <<c10, c11, c12, c13>> /\ R = <<c14>>
    BY <1>1 DEF Boot, MakeGate, MakeIdleTask
  <2>2. PICK Q : Q = {c1, c2, c3, c4, c5, c6, c7, c8, c9, c10, c11, c12, c13, c14}
    OBVIOUS
  <2>3. P \in Seq(Q) /\ G \in Seq(Q) /\ C \in Seq(Q) /\ I \in Seq(Q) /\ R \in Seq(Q)
    BY ONLY <2>1, <2>2
  <2>. QED  BY <2>3, OwnRange
<1>5. /\ S \in Seq(U) /\ P \in Seq(U) /\ G \in Seq(U) /\ C \in Seq(U) /\ I \in Seq(U)
      /\ R \in Seq(U)
  BY <1>2, <1>3, <1>4
<1>6. (((((P \o G) \o C) \o I) \o S) \o R) = P \o (G \o (C \o (I \o (S \o R))))
  <2>1. PICK X, Y, Z : X = P \o G /\ Y = X \o C /\ Z = Y \o I
    OBVIOUS
  <2>2. PICK W, V, K : W = S \o R /\ V = I \o W /\ K = C \o V
    OBVIOUS
  <2>3. X \in Seq(U) /\ W \in Seq(U)
    BY <1>5, <2>1, <2>2, ConcatProperties
  <2>4. Y \in Seq(U) /\ V \in Seq(U)
    BY <1>5, <2>1, <2>2, <2>3, ConcatProperties
  <2>5. Z \in Seq(U) /\ K \in Seq(U)
    BY <1>5, <2>1, <2>2, <2>4, ConcatProperties
  <2>6. (Z \o S) \o R = Z \o (S \o R)
    BY ONLY <1>5, <2>5, SMTT(30)
  <2>7. (Y \o I) \o W = Y \o (I \o W)
    BY ONLY <1>5, <2>3, <2>4, SMTT(30)
  <2>8. (X \o C) \o V = X \o (C \o V)
    BY ONLY <1>5, <2>3, <2>4, SMTT(30)
  <2>9. (P \o G) \o K = P \o (G \o K)
    BY ONLY <1>5, <2>5, SMTT(30)
  <2>. QED  BY <2>1, <2>2, <2>6, <2>7, <2>8, <2>9, Zenon
<1>7. main(a.setup) = ((((P \o G) \o C) \o I) \o S) \o R
  BY <1>1 DEF main, Boot
<1>8. Ok(C \o (I \o (S \o R)), Only("k", "gate", NoVar, "fed"))
  BY <1>1, <1>3, OkMakeIdleTask, OkCopyGate
<1>9. Ok(P \o (G \o (C \o (I \o (S \o R)))), Beginning("boot"))
  BY <1>1, <1>8, OkMakeGate, OkBoot
<1>. QED  BY <1>6, <1>7, <1>9

-----------------------------------------------------------------------------
(* Every step *)

LEMMA StutterStep ==
  ASSUME Inv, UNCHANGED vars
  PROVE  Inv'
<1>1. /\ UNCHANGED <<app, tableVars, keyVars, poolVars, program>>
      /\ UNCHANGED <<app, object, generation, mem_roots, keys, local, program, result, todo>>
  BY DEF vars, loadVars, allocVars, tableVars, keyVars, poolVars
<1>2. result' # "keys"
  BY <1>1 DEF Inv, Registers, KeysBalanced
<1>3. Memories' /\ Registers' /\ Programs'
  BY <1>1, <1>2, SameStep
<1>4. (Quiet' <=> Quiet) /\ (IdleThere' <=> IdleThere)
  <2>1. \A v : Held(v)' = Held(v) /\ (Live(Held(v))' <=> Live(Held(v)))
    BY <1>1 DEF Held, Live
  <2>2. Table' = Table /\ Mine' = Mine
    BY <1>1 DEF Table, Mine
  <2>3. \A p : IsIdle(p)' <=> IsIdle(p)
    BY <1>1, <2>1, <2>2 DEF IsIdle, Idle
  <2>. QED  BY <1>1, <2>2, <2>3 DEF Quiet, IdleThere
<1>5. \A phase : InPhase(phase)' <=> InPhase(phase)
  BY <1>1, <1>4 DEF InPhase, InRam
<1>6. \A sc : Fits(sc)' <=> Fits(sc)
  <2>1. \A v, kind : Has(v, kind)' <=> Has(v, kind)
    BY <1>1 DEF Has, Live, Held
  <2>. HIDE DEF Opened, InPhase, Has, NoVar, Kind, Variable
  <2>. QED  BY <1>1, <1>5, <2>1 DEF Fits
<1>7. \A sc : /\ Descending(sc)' <=> Descending(sc)
              /\ Freeing(sc)' <=> Freeing(sc)
              /\ Failing(sc)' <=> Failing(sc)
  <2>1. Arg' = Arg /\ Var' = Var /\ todo' = todo /\ mem_roots' = mem_roots
    BY <1>1 DEF Arg, Var
  <2>. HIDE DEF Arg, Var, NoVar, Level
  <2>2. ASSUME NEW sc  PROVE Descending(sc)' <=> Descending(sc)
    BY <2>1, Zenon DEF Descending, NonEmpty
  <2>3. ASSUME NEW sc  PROVE Freeing(sc)' <=> Freeing(sc)
    BY <2>1, Zenon DEF Freeing, NonEmpty
  <2>4. ASSUME NEW sc  PROVE Failing(sc)' <=> Failing(sc)
    BY <2>1, Zenon DEF Failing, NonEmpty
  <2>. QED  BY <2>2, <2>3, <2>4
<1>8. (Halted' <=> Halted) /\ (Serving' <=> Serving)
  BY <1>1, <1>4 DEF Halted, Serving
<1>9. Control'
  BY <1>1, <1>6, <1>7, <1>8 DEF Inv, Control
<1>. QED  BY <1>3, <1>9 DEF Inv

\* The inductive invariant is inductive.
LEMMA InvStep ==
  ASSUME Inv, [Next]_vars
  PROVE  Inv'
<1>1. CASE AllocNext /\ UNCHANGED program
  BY <1>1, RefStep, FreeMemStep, AllocMemStep, SplitStep, TakeStep, AllocSlotStep,
     BecomeStep, ReleaseStep DEF AllocNext
<1>2. CASE LoadProgram \/ LoadContext \/ LoadFill \/ LoadFailed \/ LoadImage
  BY <1>2, LoadProgramStep, LoadContextStep, LoadFillStep, LoadFailedStep, LoadImageStep
<1>3. CASE LoadNext
  BY <1>1, <1>2, <1>3 DEF LoadNext
<1>4. CASE \/ FeedAllocator \/ MakeSelfKey \/ CopyKey \/ PrepareIdleTask \/ Isolate
           \/ ServeSyscalls \/ Start
  BY <1>4, FeedAllocatorStep, MakeSelfKeyStep, CopyKeyStep, PrepareIdleTaskStep,
     IsolateStep, ServeSyscallsStep, StartStep
<1>5. CASE GiveSyscallKey \/ SetKey \/ GiveClientKey \/ GiveApb \/ SetTarget
  BY <1>5, GiveSyscallKeyStep, SetKeyStep, GiveClientKeyStep, GiveApbStep, SetTargetStep
<1>6. CASE AnyCall \/ AnyEnds
  BY <1>6, AnyCallStep, AnyEndsStep
<1>7. CASE Serve
  BY <1>7, ServeStep
<1>8. CASE UNCHANGED vars
  BY <1>8, StutterStep
<1>. QED  BY <1>3, <1>4, <1>5, <1>6, <1>7, <1>8 DEF Next, Startup

-----------------------------------------------------------------------------
(* The boot *)

LEMMA BootCounts ==
  /\ MapCount \in Nat \ {0}
  /\ AppRam \in 3 .. (2 + MapCount)
  /\ \A a \in Application : a.extra \in Nat /\ TableSize(a) - 1 = 2 + MapCount + a.extra
<1>1. PICK m : m = MapCount
  OBVIOUS
<1>2. m \in Nat /\ AppRam \in 3 .. (3 + m - 1)
  BY <1>1, SysAssumption DEF MapCount, WellKnown
<1>3. m # 0 /\ AppRam \in 3 .. (2 + m)
  BY <1>2
<1>4. \A a \in Application : a.extra \in Nat
  BY SysAssumption
<1>5. \A a \in Application : TableSize(a) - 1 = 2 + m + a.extra
  BY <1>1, <1>2, <1>4 DEF TableSize, WellKnown
<1>. QED  BY <1>1, <1>2, <1>3, <1>4, <1>5

\* The entries of the memory map.
LEMMA MapIs ==
  ASSUME NEW m \in 1 .. MapCount
  PROVE  MemoryMap[m] \in [base : Nat, level : Level]
<1>1. PICK M, S : M = MemoryMap /\ S = [base : Nat, level : Level]
  OBVIOUS
<1>2. M \in Seq(S) /\ m \in 1 .. Len(M)
  BY <1>1, SysAssumption DEF MapCount
<1>3. M[m] \in S
  BY ONLY <1>2
<1>. QED  BY <1>1, <1>3

\* The entries of the object table that the kernel leaves.
LEMMA BootEntryIs ==
  ASSUME NEW i \in Nat, NEW o, o = BootEntry(i)
  PROVE  /\ o \in [kind : TableKind, base : Nat, level : Level]
         /\ i = 0 => o.kind = "null"
         /\ i = 2 => o.kind = "context"
         /\ i = AppRam => o.kind = "memory" /\ o.base = Ram.base /\ o.level = Ram.level
         /\ i > 2 + MapCount => o.kind = "slot"
         /\ o.kind # "slot" /\ OnRam(o) => i = AppRam
<1>1. PICK n : n = MapCount
  OBVIOUS
<1>2. n \in Nat \ {0} /\ AppRam \in 3 .. (2 + n)
  BY <1>1, BootCounts
<1>3. 0 \in Level /\ MaxLevel \in Nat
  BY SysAssumption DEF Level
<1>4. Ram.base \in Nat \ {0} /\ Ram.level \in Level /\ Bytes(Ram.level) \in Nat
  BY RamIs
<1>5. \A x : <<"null", "object_table", "context">>[1] = "null"
             /\ <<"null", "object_table", "context">>[2] = "object_table"
             /\ <<"null", "object_table", "context">>[3] = "context"
  OBVIOUS
<1>. HIDE DEF Level, Bytes, Ram
<1>6. CASE i <= 2
  <2>1. i \in 0 .. 2
    BY <1>6
  <2>2. PICK k : k = <<"null", "object_table", "context">>[i + 1]
    OBVIOUS
  <2>3. /\ i = 0 => k = "null"
        /\ i = 1 => k = "object_table"
        /\ i = 2 => k = "context"
    BY <1>5, <2>2
  <2>4. i = 0 \/ i = 1 \/ i = 2
    BY <1>6
  <2>5. k \in TableKind
    BY <2>3, <2>4 DEF TableKind, Kind
  <2>6. o = [kind |-> k, base |-> 0, level |-> 0]
    BY <2>1, <2>2 DEF BootEntry
  <2>7. ~ OnRam(o)
    BY <1>4, <2>6 DEF OnRam
  <2>. QED  BY <1>2, <1>3, <1>6, <2>3, <2>5, <2>6, <2>7, <1>1
<1>7. CASE i > 2
  <2>1. PICK m : m = i - WellKnown + 1
    OBVIOUS
  <2>2. m = i - 2 /\ m \in Nat \ {0} /\ i \notin 0 .. 2
    BY <1>7, <2>1 DEF WellKnown
  <2>3. CASE m <= n
    <3>1. PICK b : b = MemoryMap[m]
      OBVIOUS
    <3>2. b \in [base : Nat, level : Level]
      BY <1>1, <2>2, <2>3, <3>1, MapIs
    <3>3. o = [kind |-> "memory", base |-> b.base, level |-> b.level]
      BY <1>1, <2>1, <2>2, <2>3, <3>1 DEF BootEntry, Memory
    <3>4. "memory" \in TableKind
      BY DEF TableKind, Kind
    <3>5. o \in [kind : TableKind, base : Nat, level : Level]
      <4>. HIDE DEF TableKind
      <4>. QED  BY <3>2, <3>3, <3>4
    <3>6. i = AppRam => b = Ram
      BY <2>1, <3>1 DEF Ram
    <3>7. i # AppRam => ~ OnRam(o)
      <4>1. m \in 1 .. MapCount
        BY <1>1, <1>2, <2>2, <2>3
      <4>2. i # AppRam => m # AppRam - WellKnown + 1
        BY <1>2, <2>2 DEF WellKnown
      <4>3. i # AppRam => Outside(MemoryMap[m].base)
        BY <4>1, <4>2, ScopesAssumption
      <4>4. i # AppRam => Outside(o.base)
        BY <3>1, <3>3, <4>3
      <4>5. o.base \in Nat
        BY <3>2, <3>3
      <4>. QED  BY <1>4, <4>4, <4>5 DEF OnRam, Outside
    <3>. QED  BY <1>1, <1>2, <1>7, <2>2, <2>3, <3>3, <3>5, <3>6, <3>7
  <2>4. CASE m > n
    <3>1. o = [kind |-> "slot", base |-> 0, level |-> 0]
      BY <1>1, <1>2, <2>1, <2>2, <2>4 DEF BootEntry
    <3>2. "slot" \in TableKind
      BY DEF TableKind
    <3>3. o \in [kind : TableKind, base : Nat, level : Level]
      <4>. HIDE DEF TableKind
      <4>. QED  BY <1>3, <3>1, <3>2
    <3>. QED  BY <1>1, <1>2, <1>7, <2>2, <2>4, <3>1, <3>3
  <2>. QED  BY <1>2, <2>2, <2>3, <2>4
<1>. QED  BY <1>6, <1>7

LEMMA InitMemories ==
  ASSUME Init
  PROVE  /\ Memories /\ Mine = {} /\ app \in Application
         /\ InRam(AppRam) /\ object[AppRam].kind = "memory"
<1>1. /\ app \in Application /\ object = BootTable(app) /\ slots_used = 0
      /\ generation = [i \in Index |-> 0] /\ next = [i \in Index |-> 0]
      /\ mem_roots = [l \in Level |-> 0] /\ local = [x \in {} |-> 0]
  BY DEF Init, AllocInit
<1>2. PICK n, x : n = MapCount /\ x = app.extra
  OBVIOUS
<1>3. /\ n \in Nat \ {0} /\ x \in Nat /\ AppRam \in 3 .. (2 + n)
      /\ Table = 0 .. (2 + n + x)
  BY <1>1, <1>2, BootCounts DEF Table
<1>4. object = [i \in Table |-> BootEntry(i)] /\ Index = Table
  BY <1>1 DEF BootTable, Table, Index
<1>5. 0 \in Table /\ Self \in Table /\ AppRam \in Table /\ \A i \in Table : i \in Nat
  BY <1>3 DEF Self
<1>6. ASSUME NEW i \in Table
      PROVE  /\ object[i] \in [kind : TableKind, base : Nat, level : Level]
             /\ i = 0 => object[i].kind = "null"
             /\ i = 2 => object[i].kind = "context"
             /\ i = AppRam => /\ object[i].kind = "memory" /\ object[i].base = Ram.base
                              /\ object[i].level = Ram.level
             /\ i > 2 + n => object[i].kind = "slot"
             /\ object[i].kind # "slot" /\ OnRam(object[i]) => i = AppRam
  <2>1. object[i] = BootEntry(i) /\ i \in Nat
    BY <1>4, <1>5
  <2>2. PICK o : o = BootEntry(i)
    OBVIOUS
  <2>. QED  BY <1>2, <2>1, <2>2, BootEntryIs
<1>7. Ram.base \in Nat \ {0} /\ Ram.level \in Level /\ Bytes(Ram.level) \in Nat
  BY RamIs
<1>8. Shape
  <2>1. object \in [Table -> [kind : TableKind, base : Nat, level : Level]]
    <3>. HIDE DEF TableKind, Level, Table
    <3>. QED  BY <1>4, <1>6
  <2>2. /\ generation \in [Table -> Nat] /\ next \in [Table -> Table]
        /\ mem_roots \in [Level -> Table]
    <3>. HIDE DEF Level, Table
    <3>. QED  BY <1>1, <1>4, <1>5
  <2>3. object[0].kind = "null" /\ object[Self].kind = "context"
    BY <1>5, <1>6 DEF Self
  <2>4. NextSlot = 4 + n
    BY <1>1, <1>2, <1>3 DEF NextSlot, FixedSlots
  <2>5. \A i \in Table : i >= NextSlot => object[i].kind = "slot"
    BY <1>3, <1>5, <1>6, <2>4
  <2>. QED  BY <1>1, <2>1, <2>2, <2>3, <2>5 DEF Shape
<1>9. \A i \in Table : IsPlaced(i) => i = AppRam
  BY <1>6 DEF IsPlaced, InRam, OnRam
<1>10. /\ object[AppRam].kind = "memory" /\ object[AppRam].base = Ram.base
       /\ object[AppRam].level = Ram.level
  BY <1>5, <1>6
<1>11. Placed
  <2>1. End(AppRam) = Ram.base + Bytes(Ram.level)
    BY <1>10 DEF End
  <2>2. Ram.base % 32 = 0 /\ Ram.level >= MinLevel
    BY ScopesAssumption
  <2>3. End(AppRam) <= Ram.base + Bytes(Ram.level)
    <3>1. PICK e : e = Ram.base + Bytes(Ram.level)
      OBVIOUS
    <3>2. e \in Int
      BY <1>7, <3>1
    <3>. QED  BY <2>1, <3>1, <3>2
  <2>4. \A i \in Table : IsPlaced(i) =>
          /\ object[i].base % 32 = 0 /\ object[i].level >= MinLevel
          /\ End(i) <= Ram.base + Bytes(Ram.level)
    <3>. HIDE DEF IsPlaced, End, Ram
    <3>. QED  BY <1>9, <1>10, <2>2, <2>3
  <2>5. \A i, j \in Table : IsPlaced(i) /\ IsPlaced(j) => i = j
    BY <1>9
  <2>. HIDE DEF IsPlaced, End, Ram
  <2>. QED  BY <2>4, <2>5 DEF Placed
<1>12. Mine = {}
  <2>1. DOMAIN local = {}
    BY <1>1
  <2>. QED  BY <2>1 DEF Mine
<1>13. PICK rank : rank = [i \in Table |-> 0]
  OBVIOUS
<1>14. Ranked(rank)
  <2>. HIDE DEF Level, Table
  <2>1. rank \in [Table -> Nat] /\ \A i \in Table : rank[i] = 0
    BY <1>13
  <2>2. \A l \in Level : mem_roots[l] = 0
    BY <1>1
  <2>. QED  BY <2>1, <2>2 DEF Ranked, RankedOn
<1>15. Holdings(rank)
  BY <1>12 DEF Holdings
<1>16. InRam(AppRam)
  <2>1. Bytes(Ram.level) # 0
    <3>1. PICK k \in Nat \ {0} : Bytes(Ram.level) = 32 * k
      BY <1>7, ScopesAssumption, BytesAre
    <3>. QED  BY <3>1
  <2>2. PICK b, s : b = Ram.base /\ s = Bytes(Ram.level)
    OBVIOUS
  <2>3. b >= b /\ b < b + s
    BY <1>7, <2>1, <2>2
  <2>. QED  BY <1>10, <2>2, <2>3 DEF InRam
<1>. QED  BY <1>1, <1>8, <1>10, <1>11, <1>12, <1>14, <1>15, <1>16 DEF Memories

LEMMA InitRegisters ==
  ASSUME Init
  PROVE  Registers
<1>1. /\ keys = [r \in Reg |-> IF r = 1 THEN [NullKey EXCEPT !.obj = 1] ELSE NullKey]
      /\ available_keys = Reg \ {0, 1, kself, kgate} /\ local = [x \in {} |-> 0]
      /\ result = "ok"
  BY DEF Init, AllocInit
<1>2. PICK a, b : a = NullKey /\ b = [NullKey EXCEPT !.obj = 1]
  OBVIOUS
<1>3. a \in Key /\ b \in Key
  <2>1. PICK p : p = Plain
    OBVIOUS
  <2>2. p \in Brands
    BY <2>1, PlainIs
  <2>3. a = [obj |-> 0, gen |-> 0, brand |-> p] /\ b = [obj |-> 1, gen |-> 0, brand |-> p]
    BY <1>2, <2>1 DEF NullKey
  <2>. HIDE DEF Brands
  <2>. QED  BY <2>2, <2>3 DEF Key
<1>4. keys \in [Reg -> Key]
  <2>1. keys = [r \in Reg |-> IF r = 1 THEN b ELSE a]
    BY <1>1, <1>2
  <2>. HIDE DEF Reg, Key
  <2>. QED  BY <1>3, <2>1
<1>5. DOMAIN local = {} /\ Range(local) = {}
  BY <1>1 DEF Range
<1>6. local \in [DOMAIN local -> Reg \ {0, 1, kself, kgate}]
  BY <1>1, <1>5
<1>7. KeysBalanced
  BY <1>1, <1>5 DEF KeysBalanced
<1>. QED  BY <1>4, <1>6, <1>7 DEF Registers

\* The server's own Context, which app.cc fills in.
OwnFilled(a, b) == [Blank EXCEPT !.region[0] = a, !.region[1] = b, !.runnable = TRUE]

LEMMA OwnContext ==
  ASSUME NEW a, NEW b, NEW x, x = OwnFilled(a, b)
  PROVE  IsContext(x) /\ x.key[15] = NullKey
<1>1. PICK f, r : /\ f[15] = NullKey /\ f = [n \in 11 .. 15 |-> f[n]]
                  /\ Blank = [key |-> f, region |-> r, priority |-> 0, runnable |-> FALSE,
                              pc |-> 0, sp |-> 0, got |-> << >>]
  BY BlankIs
<1>2. PICK s : s = [[r EXCEPT ![0] = a] EXCEPT ![1] = b]
  OBVIOUS
<1>3. x = [key |-> f, region |-> s, priority |-> 0, runnable |-> TRUE, pc |-> 0,
           sp |-> 0, got |-> << >>]
  BY <1>1, <1>2 DEF OwnFilled
<1>4. /\ x.key = f /\ x.region = s /\ x.priority = 0 /\ x.runnable = TRUE
      /\ x.pc = 0 /\ x.sp = 0 /\ x.got = << >>
  BY ONLY <1>3
<1>5. IsContext(x)
  BY ONLY <1>1, <1>3, <1>4 DEF IsContext
<1>. QED  BY <1>1, <1>4, <1>5

LEMMA InitPrograms ==
  ASSUME Init
  PROVE  Programs /\ Quiet
<1>1. PICK a, b, x, e : /\ a = [obj |-> WellKnown, gen |-> 0, brand |-> Brand(FALSE, ReadOnly)]
                        /\ b = [obj |-> WellKnown + 1, gen |-> 0, brand |-> Brand(FALSE, NoExecute)]
                        /\ x = OwnFilled(a, b) /\ e = Blank
  OBVIOUS
<1>2. Index = Table
  BY DEF Init, AllocInit, BootTable, Index, Table
<1>3. program = [p \in Table |-> IF p # Self THEN e ELSE x]
  BY <1>1, <1>2 DEF Init, OwnFilled
<1>4. IsContext(x) /\ x.key[15] = NullKey
  BY <1>1, OwnContext
<1>5. IsContext(e) /\ e.key[15] = NullKey /\ e.runnable = FALSE
  <2>1. PICK f, r : /\ f[15] = NullKey /\ f = [n \in 11 .. 15 |-> f[n]]
                    /\ e = [key |-> f, region |-> r, priority |-> 0, runnable |-> FALSE,
                            pc |-> 0, sp |-> 0, got |-> << >>]
    BY <1>1, BlankIs
  <2>2. /\ e.key = f /\ e.region = r /\ e.priority = 0 /\ e.runnable = FALSE
        /\ e.pc = 0 /\ e.sp = 0 /\ e.got = << >>
    BY ONLY <2>1
  <2>3. IsContext(e)
    BY ONLY <2>1, <2>2 DEF IsContext
  <2>. QED  BY <2>1, <2>2, <2>3
<1>. HIDE DEF Table, Self, NullKey, IsContext
<1>6. \A p \in Table : program[p] = (IF p # Self THEN e ELSE x)
  BY <1>3
<1>7. program = [p \in Table |-> program[p]]
  BY <1>3
<1>8. Programs
  BY <1>4, <1>5, <1>6, <1>7 DEF Programs
<1>9. Quiet
  BY <1>5, <1>6 DEF Quiet
<1>. QED  BY <1>8, <1>9

LEMMA InvInit == Init => Inv
<1>. SUFFICES ASSUME Init  PROVE Inv
  OBVIOUS
<1>1. /\ Memories /\ Registers /\ Programs /\ Quiet /\ Mine = {} /\ app \in Application
      /\ InRam(AppRam) /\ object[AppRam].kind = "memory"
  BY InitMemories, InitRegisters, InitPrograms
<1>2. /\ todo = main(app.setup) /\ DOMAIN local = {} /\ \A l \in Level : mem_roots[l] = 0
  BY DEF Init, AllocInit
<1>3. PICK sc : sc = Beginning("boot")
  OBVIOUS
<1>4. sc \in Scope /\ Ok(todo, sc)
  BY <1>1, <1>2, <1>3, OkMain, OkSeq
<1>5. InPhase("boot")
  BY <1>1, <1>2 DEF InPhase
<1>6. Fits(sc)
  <2>1. PICK f : f = [v \in Variable |-> "out"]
    OBVIOUS
  <2>2. \A v \in Variable : f[v] = "out"
    BY <2>1
  <2>3. sc.at = f /\ sc.last = NoVar /\ sc.phase = "boot"
    BY <1>3, <2>1 DEF Beginning
  <2>4. "out" \notin Kind
    BY DEF Kind
  <2>. HIDE DEF Opened, InPhase, Has, NoVar, Kind, Variable
  <2>. QED  BY <1>2, <1>4, <1>5, <2>2, <2>3, <2>4 DEF Fits
<1>7. Control
  BY <1>4, <1>6 DEF Control
<1>. QED  BY <1>1, <1>7 DEF Inv

LEMMA Invariance == Spec => []Inv
<1>1. Init => Inv
  BY InvInit
<1>2. Inv /\ [Next]_vars => Inv'
  BY InvStep
<1>. QED  BY <1>1, <1>2, PTL DEF Spec

-----------------------------------------------------------------------------
(* The key registers and the programs *)

\* Every AutoKey gets a register of its own, which comes back with the end of
\* its scope, and no call ever finds too few: a/rt/keys.cc:26-44 never panics.
THEOREM KeysStayBalanced == Spec => []KeysBalanced
<1>1. Inv => KeysBalanced
  BY DEF Inv, Registers
<1>. QED  BY <1>1, Invariance, PTL

\* Before any program can run, or the server waits for one, the idle Context is
\* runnable, at the lowest priority, and remains a Context.
THEOREM IdleComesFirst == Spec => []IdleFirst
<1>1. ASSUME Inv  PROVE IdleFirst
  <2>1. Control /\ Index = Table
    BY <1>1, TableIs DEF Inv
  <2>2. IdleThere => \E p \in Index : Idle(p) /\ object[p].kind = "context"
    BY <2>1 DEF IdleThere, IsIdle
  <2>3. CASE At("serving")
    BY <2>1, <2>2, <2>3, ServingIs DEF Serving, IdleFirst
  <2>4. CASE \E p \in Index \ {Self} : program[p].runnable
    <3>1. ~ Quiet
      BY <2>1, <2>4, Zenon DEF Quiet
    <3>2. \A phase : InPhase(phase) => IdleThere
      BY <3>1 DEF InPhase
    <3>3. IdleThere
      BY <2>1, <3>1, <3>2 DEF Control, Halted, Serving, Fits
    <3>. QED  BY <2>2, <3>3 DEF IdleFirst
  <2>. QED  BY <2>3, <2>4 DEF IdleFirst
<1>. QED  BY <1>1, Invariance, PTL

\* map_memory changes the Context its caller's syscall key names, and that is the
\* caller's own: set_key gives a program no other (load.cc, main.cc:217-231).
THEOREM MapsOnlyTheCaller == Spec => MapsOnlyCaller
<1>1. ASSUME Inv, NEW p \in Index, MapMemory(p), NEW q \in Index \ {p}
      PROVE  program'[q] = program[q]
  <2>1. Programs /\ Index = Table
    BY <1>1, TableIs DEF Inv
  <2>2. program[p].key[15] # NullKey
    BY <1>1 DEF MapMemory, Sends
  <2>3. Caller(p) = p
    BY <2>1, <2>2 DEF Programs, Caller
  <2>4. \/ program' = program
        \/ \E n, k : program' = [program EXCEPT ![p].region[n] = k]
    BY <1>1, <2>3 DEF MapMemory
  <2>5. CASE \E n, k : program' = [program EXCEPT ![p].region[n] = k]
    <3>1. PICK n, k : program' = [program EXCEPT ![p].region[n] = k]
      BY <2>5
    <3>2. PICK d : program' = [program EXCEPT ![p] = d]
      BY <3>1
    <3>3. program = [r \in Table |-> program[r]]
      BY <2>1 DEF Programs
    <3>. QED  BY <2>1, <3>2, <3>3
  <2>. QED  BY <2>4, <2>5
<1>2. Inv /\ [Next]_vars => [\A p \in Index : MapMemory(p) =>
        \A q \in Index \ {p} : program'[q] = program[q]]_vars
  BY <1>1
<1>3. Spec => [][Next]_vars
  BY DEF Spec
<1>. QED  BY <1>2, <1>3, Invariance, PTL DEF MapsOnlyCaller

-----------------------------------------------------------------------------
(* The free lists *)

\* The null object links to nothing.
NullEnds == next[0] = 0

LEMMA NullEndsStep ==
  ASSUME Inv, NullEnds, [Next]_vars
  PROVE  NullEnds'
<1>1. next \in [Table -> Table] /\ 0 \in Table /\ Memories /\ Control
  BY TableIs DEF Inv, Memories, Shape
<1>2. CASE UNCHANGED next
  BY <1>2 DEF NullEnds
<1>3. CASE FreeMem
  <2>1. PICK i, x : /\ i = Target(Held(Var))
                    /\ x = mem_roots[object[Target(Held(Var))].level]
    OBVIOUS
  <2>2. \/ UNCHANGED next
        \/ object[i].kind = "memory" /\ next' = [next EXCEPT ![i] = x]
    BY <1>3, <2>1 DEF FreeMem
  <2>3. object[i].kind = "memory" => i # 0
    BY <1>1, TableIs
  <2>. QED  BY <1>1, <1>2, <2>2, <2>3 DEF NullEnds
<1>4. CASE Split \/ Take
  <2>1. todo # << >> /\ Head(todo).op = "descend"
    BY <1>4 DEF Split, Take, At
  <2>2. PICK sc : Descending(sc)
    BY <1>1, <2>1, DescendIs
  <2>3. mem_roots[Arg.from] # 0
    BY <2>2 DEF Descending
  <2>4. NextSlot # 0
    BY <1>1, TableIs
  <2>5. PICK i, j : i = mem_roots[Arg.from] /\ j = NextSlot
    OBVIOUS
  <2>6. \/ next' = [next EXCEPT ![i] = 0]
        \/ \E x, y : next' = [next EXCEPT ![j] = x, ![i] = y]
    BY <1>4, <2>5 DEF Split, Pushed, Take
  <2>. QED  BY <1>1, <2>3, <2>4, <2>5, <2>6 DEF NullEnds
<1>5. CASE Next
  <2>1. UNCHANGED next \/ FreeMem \/ Split \/ Take
    BY <1>5 DEF Next, Startup, Serve, LoadNext, AllocNext, Ref, AllocMem, AllocSlot,
       Become, Release, LoadProgram, LoadContext, LoadFill, LoadFailed, LoadImage,
       FeedAllocator, MakeSelfKey, CopyKey, PrepareIdleTask, Isolate, GiveSyscallKey,
       SetKey, GiveClientKey, GiveApb, SetTarget, Start, AnyCall, AnyEnds, ServeSyscalls,
       MapMemory, Exit, BadOperation, Give, Kept, tableVars
  <2>. QED  BY <2>1, <1>2, <1>3, <1>4
<1>6. CASE UNCHANGED vars
  BY <1>2, <1>6 DEF vars, loadVars, allocVars, tableVars
<1>. QED  BY <1>5, <1>6

LEMMA NullAlwaysEnds == Spec => []NullEnds
<1>1. ASSUME Init  PROVE NullEnds
  <2>1. 0 \in Index /\ next = [i \in Index |-> 0]
    <3>1. Memories
      BY <1>1, InitMemories
    <3>. QED  BY <1>1, <3>1, TableIs DEF Init, AllocInit
  <2>. QED  BY <2>1 DEF NullEnds
<1>2. Inv /\ NullEnds /\ [Next]_vars => NullEnds'
  BY NullEndsStep
<1>. QED  BY <1>1, <1>2, Invariance, PTL DEF Spec

\* f is what following links g from r finds.
Finds(f, S, r, g) == f = [n \in 0 .. S |-> IF n = 0 THEN r ELSE g[f[n - 1]]]
LEMMA FollowExists ==
  ASSUME NEW S \in Nat, NEW r, NEW g
  PROVE  \E f : Finds(f, S, r, g)
<1>. USE DEF Finds
<1>. DEFINE Runs(m, f) == Finds(f, m, r, g)
            Bad == {m \in Nat : ~ \E f : Runs(m, f)}
<1>1. SUFFICES ASSUME Bad # {}  PROVE FALSE
  OBVIOUS
<1>2. PICK m \in Bad : \A n \in Bad : m <= n
  <2>1. Bad \in SUBSET Nat
    OBVIOUS
  <2>. HIDE DEF Bad
  <2>. QED  BY <1>1, <2>1, PickLeast
<1>3. m \in Nat /\ ~ \E f : Runs(m, f)
  BY <1>2
<1>4. m # 0
  <2>1. PICK f : f = [n \in 0 .. 0 |-> r]
    OBVIOUS
  <2>2. Runs(0, f)
    BY <2>1
  <2>. QED  BY <1>3, <2>2
<1>5. m - 1 \in Nat /\ m - 1 \notin Bad
  <2>1. m - 1 \in Nat /\ ~ (m <= m - 1)
    BY <1>3, <1>4
  <2>. QED  BY <1>2, <2>1
<1>6. PICK f : Runs(m - 1, f)
  BY <1>5
<1>7. PICK h : h = [n \in 0 .. m |-> IF n = m THEN g[f[m - 1]] ELSE f[n]]
  OBVIOUS
<1>8. \A n \in 0 .. (m - 1) : f[n] = IF n = 0 THEN r ELSE g[f[n - 1]]
  BY <1>6
<1>9. \A n \in 0 .. (m - 1) : h[n] = f[n]
  BY <1>3, <1>4, <1>7
<1>10. ASSUME NEW n \in 0 .. m
       PROVE  h[n] = IF n = 0 THEN r ELSE g[h[n - 1]]
  <2>1. CASE n = m
    <3>1. h[n] = g[f[m - 1]] /\ n # 0
      BY <1>4, <1>7, <2>1
    <3>2. h[n - 1] = f[m - 1]
      BY <1>5, <1>9, <2>1
    <3>. QED  BY <3>1, <3>2
  <2>2. CASE n # m
    <3>1. n \in 0 .. (m - 1) /\ (n # 0 => n - 1 \in 0 .. (m - 1))
      BY <1>3, <2>2
    <3>. QED  BY <1>8, <1>9, <3>1
  <2>. QED  BY <2>1, <2>2
<1>11. h = [n \in 0 .. m |-> h[n]]
  BY <1>7
<1>12. [n \in 0 .. m |-> h[n]] = [n \in 0 .. m |-> IF n = 0 THEN r ELSE g[h[n - 1]]]
  BY <1>10
<1>. QED  BY <1>3, <1>11, <1>12

LEMMA WalkIs ==
  ASSUME Steps \in Nat, NEW l
  PROVE  Walk(l) = [n \in 0 .. Steps |-> IF n = 0 THEN mem_roots[l] ELSE next[Walk(l)[n - 1]]]
<1>1. PICK S, r, g : S = Steps /\ r = mem_roots[l] /\ g = next
  OBVIOUS
<1>2. PICK w : w = Walk(l)
  OBVIOUS
<1>3. w = CHOOSE f : f = [n \in 0 .. S |-> IF n = 0 THEN r ELSE g[f[n - 1]]]
  BY <1>1, <1>2 DEF Walk
<1>4. PICK f : Finds(f, S, r, g)
  BY <1>1, FollowExists
<1>5. w = [n \in 0 .. S |-> IF n = 0 THEN r ELSE g[w[n - 1]]]
  BY ONLY <1>3, <1>4 DEF Finds
<1>. QED  BY <1>1, <1>2, <1>5

LEMMA StepsAre ==
  ASSUME Inv
  PROVE  /\ Index = Table /\ IsFiniteSet(Table) /\ Steps \in Nat
         /\ Cardinality(Table) = Steps /\ Cardinality(0 .. Steps) = Steps + 1
         /\ IsFiniteSet(0 .. Steps)
<1>1. Memories /\ Index = Table /\ app \in Application
  BY TableIs DEF Inv, Memories, Shape
<1>2. PICK n : n = TableSize(app) - 1
  OBVIOUS
<1>3. n \in Nat
  BY <1>1, <1>2, BootCounts
<1>4. IsFiniteSet(0 .. n) /\ Cardinality(0 .. n) = n + 1
  <2>1. 0 \in Int /\ n \in Int /\ ~ (0 > n)
    BY <1>3
  <2>2. IsFiniteSet(0 .. n) /\ Cardinality(0 .. n) = IF 0 > n THEN 0 ELSE n - 0 + 1
    BY <2>1, FS_Interval
  <2>. QED  BY <1>3, <2>1, <2>2
<1>5. PICK S : S = Steps
  OBVIOUS
<1>6. Table = 0 .. n /\ S = n + 1
  BY <1>1, <1>2, <1>4, <1>5 DEF Table, Steps
<1>7. S \in Nat /\ ~ (0 > S)
  BY <1>3, <1>6
<1>8. IsFiniteSet(0 .. S) /\ Cardinality(0 .. S) = S + 1
  <2>1. 0 \in Int /\ S \in Int
    BY <1>7
  <2>2. IsFiniteSet(0 .. S) /\ Cardinality(0 .. S) = IF 0 > S THEN 0 ELSE S - 0 + 1
    BY <2>1, FS_Interval
  <2>. QED  BY <1>7, <2>2
<1>. QED  BY <1>1, <1>4, <1>5, <1>6, <1>7, <1>8

\* What following the links of a list finds: objects of its level, until the
\* null object, in the order of their ranks.
LEMMA WalkRanked ==
  ASSUME Inv, NullEnds, NEW rank, Ranked(rank), NEW l \in Level, NEW w, w = Walk(l)
  PROVE  \A k \in 0 .. Steps :
           /\ w[k] \in Table
           /\ w[k] # 0 => /\ rank[w[k]] > 0 /\ object[w[k]].level = l
                          /\ \A j \in 0 .. Steps : j < k =>
                               w[j] # 0 /\ rank[w[k]] < rank[w[j]]
<1>1. PICK S, T : S = Steps /\ T = Table
  OBVIOUS
<1>2. S \in Nat /\ 0 \in T /\ \A i \in T : i \in Nat
  BY <1>1, StepsAre, TableIs DEF Inv, Table
<1>3. w = [n \in 0 .. S |-> IF n = 0 THEN mem_roots[l] ELSE next[w[n - 1]]]
  BY <1>1, <1>2, WalkIs
<1>4. w[0] = mem_roots[l] /\ \A n \in 0 .. S : n # 0 => w[n] = next[w[n - 1]]
  BY <1>2, <1>3
<1>5. PICK nxt, obj, roots : nxt = next /\ obj = object /\ roots = mem_roots
  OBVIOUS
<1>6. /\ rank \in [T -> Nat] /\ \A i \in T : nxt[i] \in T
      /\ roots[l] \in T /\ nxt[0] = 0
      /\ roots[l] # 0 => rank[roots[l]] > 0 /\ obj[roots[l]].level = l
      /\ \A i \in T : rank[i] > 0 /\ nxt[i] # 0 =>
           rank[nxt[i]] > 0 /\ rank[nxt[i]] < rank[i] /\ obj[nxt[i]].level = obj[i].level
  BY <1>1, <1>5, TableIs DEF Inv, NullEnds, Ranked, RankedOn
<1>. DEFINE P(k) == /\ w[k] \in T
                    /\ w[k] # 0 => /\ rank[w[k]] > 0 /\ obj[w[k]].level = l
                                   /\ \A j \in 0 .. S : j < k =>
                                        w[j] # 0 /\ rank[w[k]] < rank[w[j]]
            Bad == {k \in Nat : k <= S /\ ~ P(k)}
<1>7. SUFFICES ASSUME Bad # {}  PROVE FALSE
  BY <1>1, <1>2, <1>5
<1>8. PICK k \in Bad : \A n \in Bad : k <= n
  <2>1. Bad \in SUBSET Nat
    OBVIOUS
  <2>. HIDE DEF Bad
  <2>. QED  BY <1>7, <2>1, PickLeast
<1>9. k \in Nat /\ k <= S /\ ~ P(k)
  BY <1>8
<1>10. CASE k = 0
  <2>1. P(0)
    BY <1>4, <1>5, <1>6
  <2>. QED  BY <1>9, <1>10, <2>1
<1>11. CASE k # 0
  <2>1. PICK h : h = k - 1
    OBVIOUS
  <2>2. h \in Nat /\ h <= S /\ ~ (k <= h) /\ k \in 0 .. S /\ h \in 0 .. S
    BY <1>2, <1>9, <1>11, <2>1
  <2>3. P(h)
    <3>1. h \notin Bad
      BY <1>8, <2>2
    <3>. QED  BY <2>2, <3>1
  <2>4. w[k] = nxt[w[h]]
    BY <1>4, <1>5, <1>11, <2>1, <2>2
  <2>5. w[h] \in T /\ w[k] \in T
    BY <1>6, <2>3, <2>4
  <2>6. ASSUME w[k] # 0
        PROVE  /\ rank[w[k]] > 0 /\ obj[w[k]].level = l
               /\ \A j \in 0 .. S : j < k => w[j] # 0 /\ rank[w[k]] < rank[w[j]]
    <3>1. w[h] # 0
      BY <1>6, <2>4, <2>6
    <3>2. rank[w[h]] > 0 /\ obj[w[h]].level = l
      BY <2>3, <3>1
    <3>3. rank[w[k]] > 0 /\ rank[w[k]] < rank[w[h]] /\ obj[w[k]].level = l
      BY <1>6, <2>4, <2>5, <2>6, <3>2
    <3>4. ASSUME NEW j \in 0 .. S, j < k  PROVE w[j] # 0 /\ rank[w[k]] < rank[w[j]]
      <4>1. CASE j = h
        BY <3>1, <3>3, <4>1
      <4>2. CASE j # h
        <5>1. j < h
          BY <2>1, <2>2, <3>4, <4>2
        <5>2. w[j] # 0 /\ rank[w[h]] < rank[w[j]]
          BY <2>3, <3>1, <5>1
        <5>3. k \in Nat /\ h <= k
          BY <1>9, <2>1
        <5>4. w[j] \in T
          <6>1. j \notin Bad
            BY <1>8, <3>4, <1>9
          <6>. QED  BY <1>9, <3>4, <6>1
        <5>5. PICK x, y, z : x = rank[w[k]] /\ y = rank[w[h]] /\ z = rank[w[j]]
          OBVIOUS
        <5>6. x \in Nat /\ y \in Nat /\ z \in Nat
          BY <1>6, <2>5, <5>4, <5>5
        <5>. QED  BY <3>3, <5>2, <5>5, <5>6
      <4>. QED  BY <4>1, <4>2
    <3>. QED  BY <3>3, <3>4
  <2>7. P(k)
    BY <2>5, <2>6
  <2>. QED  BY <1>9, <2>7
<1>. QED  BY <1>10, <1>11

LEMMA ListsEnd ==
  ASSUME Inv, NullEnds, NEW l \in Level
  PROVE  /\ Ends(l)
         /\ \A i \in OnList(l) : i \in Table \ {0}
<1>1. PICK rank : Ranked(rank)
  BY DEF Inv, Memories
<1>2. PICK S, T, w : S = Steps /\ T = Table /\ w = Walk(l)
  OBVIOUS
<1>3. /\ S \in Nat /\ IsFiniteSet(T) /\ Cardinality(T) = S /\ Cardinality(0 .. S) = S + 1
      /\ IsFiniteSet(0 .. S)
  BY <1>2, StepsAre
<1>4. w = [n \in 0 .. S |-> w[n]]
  <2>1. w = [n \in 0 .. S |-> IF n = 0 THEN mem_roots[l] ELSE next[w[n - 1]]]
    BY <1>2, <1>3, WalkIs
  <2>. QED  BY <2>1
<1>5. /\ \A k \in 0 .. S : w[k] \in T
      /\ \A k \in 0 .. S : w[k] # 0 => \A j \in 0 .. S : j < k =>
           w[j] # 0 /\ rank[w[k]] < rank[w[j]]
  BY <1>1, <1>2, WalkRanked
<1>6. w[S] = 0
  <2>1. SUFFICES ASSUME w[S] # 0  PROVE FALSE
    OBVIOUS
  <2>2. \A k \in 0 .. S : w[k] # 0
    BY <1>3, <1>5, <2>1
  <2>3. \A i \in T : rank[i] \in Nat
    BY <1>1, <1>2 DEF Ranked, RankedOn
  <2>4. \A j, k \in 0 .. S : w[j] = w[k] => j = k
    <3>1. ASSUME NEW j \in 0 .. S, NEW k \in 0 .. S, w[j] = w[k], j < k  PROVE FALSE
      BY <1>5, <2>2, <2>3, <3>1
    <3>2. \A j, k \in 0 .. S : j # k => j < k \/ k < j
      BY <1>3
    <3>. QED  BY <3>1, <3>2
  <2>5. w \in Injection(0 .. S, T)
    BY <1>4, <1>5, <2>4 DEF Injection, IsInjective
  <2>6. Cardinality(0 .. S) <= Cardinality(T)
    BY <1>3, <2>5, FS_Injection DEF ExistsInjection
  <2>. QED  BY <1>3, <2>6
<1>7. \A i \in OnList(l) : i \in T \ {0}
  BY <1>2, <1>4, <1>5 DEF OnList, Range
<1>. QED  BY <1>2, <1>6, <1>7 DEF Ends

\* The units of an object in the application's RAM.
LEMMA UnitsAre ==
  ASSUME Inv, NEW i \in Table, IsPlaced(i)
  PROVE  /\ Lowest(i) \in Nat /\ Highest(i) \in Nat /\ Lowest(i) <= Highest(i)
         /\ object[i].base = 32 * Lowest(i) /\ End(i) = 32 * (Highest(i) + 1)
<1>1. PICK b, l : b = object[i].base /\ l = object[i].level
  OBVIOUS
<1>2. b \in Nat /\ l \in Level /\ b % 32 = 0 /\ l >= MinLevel
  BY <1>1, TableIs DEF Inv, Memories, Placed
<1>3. PICK n \in Nat \ {0} : Bytes(l) = 32 * n
  BY <1>2, BytesAre
<1>4. PICK a : a = b \div 32
  OBVIOUS
<1>5. a \in Nat /\ b = 32 * a
  BY ONLY <1>2, <1>4
<1>6. PICK e : e = b + Bytes(l)
  OBVIOUS
<1>7. e = 32 * (a + n) /\ e \div 32 = a + n
  BY ONLY <1>3, <1>5, <1>6
<1>8. Lowest(i) = a /\ Highest(i) = (e \div 32) - 1 /\ End(i) = e
  BY <1>1, <1>4, <1>6 DEF Lowest, Highest, End
<1>9. PICK h : h = (e \div 32) - 1
  OBVIOUS
<1>10. h = a + n - 1 /\ h \in Nat /\ a <= h /\ e = 32 * (h + 1)
  BY ONLY <1>5, <1>7, <1>9, n \in Nat \ {0}
<1>. QED  BY <1>1, <1>5, <1>8, <1>9, <1>10

LEMMA UnitsApart ==
  ASSUME Inv, NEW i \in Table, IsPlaced(i), NEW j \in Table, IsPlaced(j), i # j
  PROVE  Highest(i) < Lowest(j) \/ Highest(j) < Lowest(i)
<1>1. PICK li, hi, lj, hj : /\ li = Lowest(i) /\ hi = Highest(i)
                            /\ lj = Lowest(j) /\ hj = Highest(j)
  OBVIOUS
<1>2. /\ li \in Nat /\ hi \in Nat /\ lj \in Nat /\ hj \in Nat
      /\ object[i].base = 32 * li /\ End(i) = 32 * (hi + 1)
      /\ object[j].base = 32 * lj /\ End(j) = 32 * (hj + 1)
  BY <1>1, UnitsAre
<1>3. End(i) <= object[j].base \/ End(j) <= object[i].base
  BY DEF Inv, Memories, Placed
<1>4. 32 * (hi + 1) <= 32 * lj \/ 32 * (hj + 1) <= 32 * li
  BY <1>2, <1>3
<1>5. hi < lj \/ hj < li
  BY ONLY <1>2, <1>4
<1>. QED  BY <1>1, <1>5

\* What is on a list is Memory of its level in the application's RAM.
LEMMA ListedAre ==
  ASSUME Inv, NullEnds, NEW l \in Level, NEW i \in OnList(l)
  PROVE  i \in Table /\ object[i].kind = "memory" /\ object[i].level = l /\ IsPlaced(i)
<1>1. PICK rank : Ranked(rank)
  BY DEF Inv, Memories
<1>2. PICK w : w = Walk(l)
  OBVIOUS
<1>3. PICK k \in 0 .. Steps : i = w[k] /\ i # 0
  <2>1. w = [n \in 0 .. Steps |-> IF n = 0 THEN mem_roots[l] ELSE next[w[n - 1]]]
    BY <1>2, StepsAre, WalkIs
  <2>2. DOMAIN w = 0 .. Steps
    BY <2>1
  <2>3. i \in {w[n] : n \in DOMAIN w} \ {0}
    BY <1>2 DEF OnList, Range
  <2>. QED  BY <2>2, <2>3
<1>4. i \in Table /\ rank[i] > 0 /\ object[i].level = l
  BY <1>1, <1>2, <1>3, WalkRanked
<1>5. object[i].kind = "memory" /\ OnRam(object[i])
  BY <1>1, <1>4 DEF Ranked, RankedOn
<1>. QED  BY <1>4, <1>5 DEF IsPlaced, InRam, OnRam

\* The lists of mem_roots end, hold Memory of their size only and no object
\* twice, and the objects in the application's RAM are apart, whichever calls of
\* the library an application makes: alloc.cc:97-98 and 141-160 write the links
\* in an order that keeps every list whole.
THEOREM FreeListsStaySound == Spec => []FreeListsSound
<1>1. ASSUME Inv, NullEnds  PROVE FreeListsSound
  <2>1. Index = Table /\ \A i \in Table : IsPlaced(i) <=> InRam(i) /\ object[i].kind # "slot"
    BY <1>1, TableIs DEF Inv, IsPlaced
  <2>2. \A l \in Level :
          /\ Ends(l)
          /\ \A i \in OnList(l) : object[i].kind = "memory" /\ object[i].level = l
    BY <1>1, ListsEnd, ListedAre
  <2>3. ASSUME NEW i \in Table, IsPlaced(i), NEW j \in Table, IsPlaced(j),
               Lowest(i) < Lowest(j)
        PROVE  Highest(i) < Lowest(j)
    <3>1. PICK li, hi, lj, hj : /\ li = Lowest(i) /\ hi = Highest(i)
                                /\ lj = Lowest(j) /\ hj = Highest(j)
      OBVIOUS
    <3>2. /\ li \in Nat /\ hi \in Nat /\ lj \in Nat /\ hj \in Nat /\ li <= hi /\ lj <= hj
          /\ li < lj
      BY <1>1, <2>3, <3>1, UnitsAre
    <3>3. i # j
      BY <3>1, <3>2
    <3>4. hi < lj \/ hj < li
      BY <1>1, <2>3, <3>1, <3>3, UnitsApart
    <3>. QED  BY <3>1, <3>2, <3>4
  <2>4. LET placed == {i \in Index : InRam(i) /\ object[i].kind # "slot"}
        IN  \A i, j \in placed : Lowest(i) < Lowest(j) => Highest(i) < Lowest(j)
    <3>. HIDE DEF InRam, Lowest, Highest
    <3>. QED  BY <2>1, <2>3
  <2>5. ASSUME NEW i \in Listed, NEW j \in Listed, Lowest(i) = Lowest(j)  PROVE i = j
    <3>1. i \in Table /\ IsPlaced(i) /\ j \in Table /\ IsPlaced(j)
      BY <1>1, ListedAre DEF Listed
    <3>2. PICK li, hi, lj, hj : /\ li = Lowest(i) /\ hi = Highest(i)
                                /\ lj = Lowest(j) /\ hj = Highest(j)
      OBVIOUS
    <3>3. li \in Nat /\ hi \in Nat /\ lj \in Nat /\ hj \in Nat /\ li <= hi /\ lj <= hj /\ li = lj
      BY <1>1, <2>5, <3>1, <3>2, UnitsAre
    <3>4. i # j => hi < lj \/ hj < li
      BY <1>1, <3>1, <3>2, UnitsApart
    <3>. QED  BY <3>3, <3>4
  <2>. QED  BY <2>2, <2>4, <2>5 DEF FreeListsSound
<1>. QED  BY <1>1, Invariance, NullAlwaysEnds, PTL
=============================================================================
