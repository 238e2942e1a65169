------------------------------ MODULE SysScopes ------------------------------
(***************************************************************************)
(* Which sequences of library calls keep to the library's rules.           *)
(*                                                                         *)
(* A C++ program cannot use an AutoKey outside of its scope, or name two   *)
(* in the same scope alike, and the code checks a Maybe before it uses the *)
(* key in it.  Here todo is data, so that discipline is a condition on it: *)
(* a scope says what is known of each variable between two calls.  It is   *)
(* computed from the calls alone, like the scopes of the program's text.   *)
(***************************************************************************)
EXTENDS SysProperties

\* The variables of the library, the serial application and other ones.
Variable == {"k_app_ram", "k", "k_ctx", "k_img", "k_ram", "k_prog", "k_gate",
             "k_irq", "k_irq_gate"} \cup AnyVar
Kind == {"memory", "context", "gate", "interrupt"}

\* What is known of a variable: it is out of scope; or in scope ("held"), and
\* then perhaps with a live key from the allocator to an object of some kind; or
\* in scope if some call succeeded ("maybe").  That of the last call, if last is
\* not empty: its variable has a key to an object made by it if it succeeded.
Knowledge == Kind \cup {"out", "held", "maybe"}
Phase == {"boot", "fed", "idle"}   \* fed the allocator, has an idle Context
Scope == [at : [Variable -> Knowledge], last : Variable \cup {NoVar}, made : Kind,
          phase : Phase]
Opened(sc) == {v \in Variable : sc.at[v] # "out"}
Deep(s)    == Cardinality(s) + 7 <= NReg      \* leaves Room(3)
Outside(base) == base < Ram.base \/ base >= Ram.base + Bytes(Ram.level)

Known(sc, v, what)   == [sc EXCEPT !.at[v] = what, !.last = NoVar]
Pending(sc, v, kind) == [sc EXCEPT !.at[v] = "maybe", !.last = v, !.made = kind]
Loaded(sc, v) == [Pending(sc, v, "context") EXCEPT !.at["k_ram"] = "out"]
Forget(sc)    == [sc EXCEPT !.last = NoVar]
AfterAny(sc)  == [sc EXCEPT !.last = NoVar, !.made = "memory",
                    !.at = [v \in Variable |-> IF v \in AnyVar THEN "maybe" ELSE @[v]]]

\* The scope after a call.
After(c, sc) ==
  CASE c.op = "alloc_mem" -> Pending(sc, c.var, "memory")
    [] c.op \in {"load_program", "load_context", "load_fill", "load_image"} ->
         Loaded(sc, c.var)
    [] c.op \in {"alloc_slot", "isolate", "free_mem"} -> Known(sc, c.var, "held")
    [] c.op = "ref" ->
         IF sc.last = NoVar THEN sc ELSE Known(sc, sc.last, sc.made)
    [] c.op = "become" -> Known(sc, c.var, c.arg)
    [] c.op \in {"release", "copy_key"} -> Known(sc, c.var, "out")
    [] c.op = "prepare_idle_task" -> [Known(sc, c.var, "out") EXCEPT !.phase = "idle"]
    [] c.op = "feed_allocator" -> [Known(sc, c.var, "memory") EXCEPT !.phase = "fed"]
    [] c.op = "any" -> AfterAny(sc)
    [] OTHER -> Forget(sc)

Library == {"feed_allocator", "make_self_key", "copy_key", "prepare_idle_task", "ref",
            "alloc_mem", "alloc_slot", "isolate", "load_program", "load_context",
            "load_fill", "load_image", "become", "free_mem", "release",
            "give_syscall_key", "set_key", "give_client_key", "give_apb", "set_target",
            "start", "any", "serve_syscalls"}

\* The calls a scope allows.
Allowed(c, sc) ==
  /\ c.op \in Library
  /\ Deep(Opened(sc))
  /\ c.op = "feed_allocator" <=> sc.phase = "boot"
  /\ c.op \in {"alloc_mem", "alloc_slot", "load_program", "load_context"} =>
       c.var \in Variable \ {"k_img"} /\ sc.at[c.var] = "out"
  /\ c.op = "alloc_mem" =>
       c.arg \in [level : Int, brand : [hi : BOOLEAN, n : Nat]]
  /\ c.op = "isolate" =>
       /\ c.var = "k_img" /\ sc.at["k_img"] = "out"
       /\ c.arg.base \in Nat /\ c.arg.level \in Level /\ Outside(c.arg.base)
  /\ c.op = "load_program" =>
       /\ c.var # "k_ram" /\ sc.at["k_ram"] = "out"
       /\ Deep(Opened(sc) \cup {c.var, "k_ram"})
  /\ c.op = "load_context" =>
       c.var # "k_ram" /\ sc.last = "k_ram" /\ sc.made = "memory"
         /\ Deep(Opened(sc) \cup {c.var})
  /\ c.op = "load_fill" =>
       /\ c.var \in Variable \ {"k_ram"} /\ sc.at["k_ram"] = "memory"
       /\ sc.last = c.var /\ sc.made = "memory"
  /\ c.op = "load_image" =>
       c.var \in Variable \ {"k_ram"} /\ sc.at[c.var] = "context" /\ sc.at["k_ram"] = "memory"
  /\ c.op = "become" =>
       c.var \in Variable /\ sc.at[c.var] = "memory" /\ c.arg \in Kind \ {"memory"}
  /\ c.op = "free_mem" =>
       c.var \in Variable \ {"k_img"} /\ sc.at[c.var] \notin {"out", "maybe"}
  /\ c.op = "release" => c.var \in Variable
  /\ c.op = "copy_key" =>
       c.var \in Variable /\ sc.at[c.var] \notin {"out", "maybe"} /\ c.arg = kgate
  /\ c.op = "prepare_idle_task" =>
       c.var \in Variable /\ sc.at[c.var] = "context" /\ sc.phase = "fed"
  /\ c.op = "feed_allocator" =>
       c.var \in Variable \ {"k_img"} /\ Opened(sc) = {}
  /\ c.op = "give_syscall_key" => c.var = "k_prog" /\ sc.at["k_prog"] = "context"
  /\ c.op \in {"set_key", "give_client_key", "give_apb"} => c.arg # 15
  /\ c.op = "start" =>
       c.var \in Variable /\ sc.at[c.var] = "context" /\ sc.phase = "idle"
  /\ c.op = "any" =>
       /\ c.arg \in Nat /\ sc.at["k_img"] = "out" /\ sc.at["k_ram"] = "out"
       /\ Deep(Opened(sc) \cup AnyVar \cup {"k_img", "k_ram"})
  /\ c.op = "serve_syscalls" => sc.phase = "idle"

\* The scopes between the calls of s, of which the first is known.
Follows(f, s, sc) ==
  /\ s \in Seq(Range(s))
  /\ f \in [1 .. (Len(s) + 1) -> Scope]
  /\ f[1] = sc
  /\ \A i \in 1 .. Len(s) : Allowed(s[i], f[i]) /\ f[i + 1] = After(s[i], f[i])
Scopes(s, sc) ==
  LET f[i \in 1 .. (Len(s) + 1)] == IF i = 1 THEN sc ELSE After(s[i - 1], f[i - 1])
  IN  f
WellFormed(s, sc) == \E f \in {Scopes(s, sc)} : Follows(f, s, sc)

\* An application's startup begins with no variable, an allocator and the idle
\* Context, and the server goes on to serve.
Beginning(phase) == [at |-> [v \in Variable |-> "out"], last |-> NoVar, made |-> "memory",
                     phase |-> phase]
Rest(a) == a.setup \o <<Call("serve_syscalls", 0, NoVar)>>

\* The memory map's entries are apart, as the images are; names are not used
\* twice.
ASSUME ScopesAssumption ==
  /\ IsFiniteSet(AnyVar)
  /\ AnyVar \cap {"k_img", "k_ram", "k_client_reply", "k_tmp1"} = {}
  /\ NoVar \notin Variable
  /\ AnyLevel \cup {CtxLevel, GateLevel} \subseteq Int
  /\ \A img \in AnyImage : img.base \in Nat /\ img.level \in Level /\ Outside(img.base)
  /\ Ram.base > 0 /\ Ram.base % 32 = 0 /\ Ram.level >= MinLevel
  /\ \A m \in 1 .. MapCount : m # AppRam - WellKnown + 1 => Outside(MemoryMap[m].base)
  /\ \A a \in Application :
       a.setup \in Seq(Range(a.setup)) /\ WellFormed(Rest(a), Beginning("idle"))

\* What the powers of two below AddrSpace are.
ASSUME PowersAssumption ==
  /\ \A l \in Level : Bytes(l) \in Nat /\ (l > 0 => Bytes(l) = 2 * Bytes(l - 1))
  /\ MinLevel \in Level => Bytes(MinLevel) = 32
=============================================================================
