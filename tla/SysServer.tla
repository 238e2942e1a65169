------------------------------ MODULE SysServer ------------------------------
(***************************************************************************)
(* The system server (a/sys/main.cc, a/sys/idle.cc) with the application's *)
(* part of its startup (a/app/serial/setup.cc), and the system calls the   *)
(* programs it has started make.                                           *)
(*                                                                         *)
(* The kernel runs the server alone until a program is runnable; programs  *)
(* touch the server's state by system calls only, and it serves one at a   *)
(* time.                                                                   *)
(***************************************************************************)
EXTENDS SysLoad

CONSTANTS
  GateLevel, IrqLevel,   \* kabi::gate_l2_size - 1, interrupt_l2_size - 1
  DriverImage, ClientImage,
  Apb,                   \* oi_apb
  AnyImage,              \* images that other applications may load
  AnyLevel,              \* and the sizes of Memory they may ask for
  AnyVar,                \* the variables they keep keys in
  Request                \* system calls: [selector, index, from]

ASSUME ServerAssumption ==
  /\ NReg > 15
  /\ Apb \in WellKnown .. (WellKnown + MapCount - 1)

VARIABLE target      \* Interrupt::_target, by table index
vars == <<loadVars, target>>

Self == 2            \* kabi::oi_first_context

\* Registers ki::self and ki::syscall_gate; ki::ot is 1.
kself == 2
kgate == 3

-----------------------------------------------------------------------------
(* The calls of main and app_setup *)

\* make_gate.
MakeGate(v) ==
  <<Call("alloc_mem", [level |-> GateLevel, brand |-> Plain], v),
    Call("ref", 0, NoVar), Call("become", "gate", v)>>

MakeIdleTask ==
  <<Call("alloc_mem", [level |-> CtxLevel, brand |-> Plain], "k_ctx"),
    Call("ref", 0, NoVar), Call("become", "context", "k_ctx"),
    Call("prepare_idle_task", 0, "k_ctx")>>

\* An image's key, the program in it, and its key to the syscall gate.
StartLoading(img) ==
  <<Call("isolate", img, "k_img"), Call("load_program", img, "k_prog"),
    Call("ref", 0, NoVar), Call("give_syscall_key", 0, "k_prog")>>
Finish == <<Call("start", 0, "k_prog"), Call("release", 0, "k_prog"),
            Call("release", 0, "k_img")>>

make_uart_driver ==
  StartLoading(DriverImage)
  \o MakeGate("k_gate") \o <<Call("set_key", 14, "k_gate")>>
  \o <<Call("alloc_mem", [level |-> IrqLevel, brand |-> Plain], "k_irq"),
       Call("ref", 0, NoVar), Call("become", "interrupt", "k_irq"),
       Call("set_key", 12, "k_irq")>>
  \o MakeGate("k_irq_gate")
  \o <<Call("set_key", 13, "k_irq_gate"), Call("set_target", 0, "k_irq_gate"),
       Call("release", 0, "k_irq_gate"), Call("release", 0, "k_irq"),
       Call("give_apb", 11, "k_prog")>>
  \o Finish
make_uart_client ==
  StartLoading(ClientImage) \o <<Call("give_client_key", 14, "k_gate")>> \o Finish
app_setup == make_uart_driver \o make_uart_client \o <<Call("release", 0, "k_gate")>>

\* A fault: the idle Context comes last.
mainFault(setup) ==
  <<Call("feed_allocator", 0, "k_app_ram"), Call("free_mem", 0, "k_app_ram"),
    Call("ref", 0, NoVar), Call("release", 0, "k_app_ram"), Call("make_self_key", 0, NoVar)>>
  \o MakeGate("k") \o <<Call("copy_key", kgate, "k")>>
  \o setup \o MakeIdleTask \o <<Call("serve_syscalls", 0, NoVar)>>
main(setup) ==
  <<Call("feed_allocator", 0, "k_app_ram"), Call("free_mem", 0, "k_app_ram"),
    Call("ref", 0, NoVar), Call("release", 0, "k_app_ram"), Call("make_self_key", 0, NoVar)>>
  \o MakeGate("k") \o <<Call("copy_key", kgate, "k")>>
  \o MakeIdleTask \o setup \o <<Call("serve_syscalls", 0, NoVar)>>

-----------------------------------------------------------------------------
(* Their steps *)

Kept == UNCHANGED <<app, tableVars, poolVars>>

\* feed_allocator's key to the application RAM.
FeedAllocator ==
  /\ At("feed_allocator")
  /\ Result(Var, Minted(AppRam, Plain))
  /\ Kept /\ UNCHANGED <<program, target>>

\* copy_key to a register that is never an AutoKey.
MakeSelfKey ==
  /\ At("make_self_key")
  /\ keys' = [keys EXCEPT ![kself] = Minted(Self, Plain)]
  /\ IF Room(1) THEN Return("ok") ELSE Halt("keys")
  /\ Kept /\ UNCHANGED <<available_keys, local, program, target>>
CopyKey ==
  /\ At("copy_key")
  /\ keys' = [keys EXCEPT ![Arg] = Held(Var)]
  /\ Drop({Var})
  /\ Return("ok")
  /\ Kept /\ UNCHANGED <<program, target>>

\* prepare_idle_task and make_runnable: the server's own two regions, and a
\* priority below everybody else's.
PrepareIdleTask ==
  /\ At("prepare_idle_task")
  /\ LET own == program[Target(keys[kself])].region
     IN  program' = [program EXCEPT ![Target(Held(Var))] =
           [Blank EXCEPT !.region[0] = own[0], !.region[1] = own[1],
                         !.priority = 1, !.runnable = TRUE]]
  /\ Drop({Var})
  /\ IF Room(1) THEN Return("ok") ELSE Halt("keys")
  /\ Kept /\ UNCHANGED <<keys, target>>

\* A child of the system ROM that is just the image, in an extra slot.
Isolate ==
  /\ At("isolate")
  /\ IF NoSlots \/ ~ SlotAt(NextSlot) \/ ~ Room(2)
     THEN /\ Halt(IF Room(2) THEN "assertion" ELSE "keys")
          /\ UNCHANGED <<object, generation, keyVars>>
     ELSE /\ object' = [object EXCEPT ![NextSlot] = Memory(Arg.base, Arg.level)]
          /\ generation' = [generation EXCEPT ![NextSlot] = @ + 1]
          /\ Keep(Var, [obj |-> NextSlot, gen |-> generation[NextSlot] + 1,
                        brand |-> Brand(FALSE, ReadOnly)])
          /\ Return("ok")
  /\ slots_used' = IF NoSlots THEN slots_used ELSE slots_used + 1
  /\ UNCHANGED <<app, next, mem_roots, program, target>>

\* context::set_key on the new program, and what it is given.
Give(n, k) ==
  /\ program' = [program EXCEPT ![Target(Held("k_prog"))].key[n] = k]
  /\ IF Room(1) THEN Return("ok") ELSE Halt("keys")
  /\ Kept /\ UNCHANGED <<keyVars, target>>
GiveSyscallKey ==
  /\ At("give_syscall_key")
  /\ LET prog_info == Held(Var).obj
     IN  Give(15, [keys[kgate] EXCEPT !.brand = Brand(TRUE, prog_info)])
SetKey        == At("set_key") /\ Give(Arg, Held(Var))
GiveClientKey == At("give_client_key") /\ Give(Arg, [Held(Var) EXCEPT !.brand = Brand(TRUE, 0)])
GiveApb       == At("give_apb") /\ Give(Arg, Minted(Apb, Brand(FALSE, NoExecute)))

\* The Interrupt sends to a client key of the driver's second Gate.
SetTarget ==
  /\ At("set_target")
  /\ target' = [target EXCEPT ![Target(Held("k_irq"))] =
                  [Held(Var) EXCEPT !.brand = Brand(TRUE, 0)]]
  /\ IF Room(1) THEN Return("ok") ELSE Halt("keys")
  /\ Kept /\ UNCHANGED <<keyVars, program>>

\* set_priority and make_runnable.
Start ==
  /\ At("start")
  /\ program' = [program EXCEPT ![Target(Held(Var))].priority = 0,
                                ![Target(Held(Var))].runnable = TRUE]
  /\ Return("ok")
  /\ Kept /\ UNCHANGED <<keyVars, target>>

-----------------------------------------------------------------------------
(* Other applications: any sequence of calls of the library *)

AnyCall ==
  /\ At("any")
  /\ \/ \E v \in AnyVar \ DOMAIN local :
          \/ \E l \in AnyLevel :
               Calls(<<Call("alloc_mem", [level |-> l, brand |-> Plain], v),
                       Call("any", Arg - 1, NoVar)>>)
          \/ Calls(<<Call("alloc_slot", 0, v), Call("any", Arg - 1, NoVar)>>)
          \/ \E img \in AnyImage :
               Calls(<<Call("isolate", img, "k_img"), Call("load_program", img, v),
                       Call("release", 0, "k_img"), Call("any", Arg - 1, NoVar)>>)
     \/ \E v \in AnyVar \cap DOMAIN local :
          Calls(<<Call("free_mem", 0, v), Call("release", 0, v),
                  Call("any", Arg - 1, NoVar)>>)
  /\ Arg > 0
  /\ Kept /\ UNCHANGED <<keyVars, program, target>>
AnyEnds ==
  /\ At("any")
  /\ Arg = 0
  /\ Return("ok")
  /\ Kept /\ UNCHANGED <<keyVars, program, target>>

-----------------------------------------------------------------------------
(* serve_syscalls *)

\* The AutoKeys of the server's loop.
ServeSyscalls ==
  /\ At("serve_syscalls")
  /\ LET r == CHOOSE p \in Reg \X Reg :
                /\ p[1] = NewReg
                /\ p[2] = Min(available_keys \ {NewReg})
     IN  IF Room(2)
         THEN /\ available_keys' = available_keys \ {r[1], r[2]}
              /\ local' = [x \in DOMAIN local \cup {"k_client_reply", "k_tmp1"} |->
                             CASE x = "k_client_reply" -> r[1]
                               [] x = "k_tmp1" -> r[2]
                               [] OTHER -> local[x]]
              /\ todo' = <<Call("serving", 0, NoVar)>> /\ result' = "ok"
         ELSE Halt("keys") /\ UNCHANGED <<available_keys, local>>
  /\ Kept /\ UNCHANGED <<keys, program, target>>

\* A runnable program sends a request through its key 15.
Sends(p) ==
  /\ At("serving")
  /\ program[p].runnable
  /\ LET k == program[p].key[15]
     IN  k # NullKey /\ Target(k) = Target(keys[kgate])

\* map_memory: the low half of the brand names the Context whose region is set;
\* a fault: the server's own is.
CallerFault(p) == Self
Caller(p) == program[p].key[15].brand.n
MapMemory(p) ==
  /\ Sends(p)
  /\ \E r \in Request :
       IF r.index < NRegions
       THEN /\ program' = [program EXCEPT ![Caller(p)].region[r.index] =
                             program[p].key[r.from]]
            /\ result' = "zero reply" /\ UNCHANGED todo
       ELSE Halt("assertion") /\ UNCHANGED program
  /\ Kept /\ UNCHANGED <<keyVars, target>>

\* exit loops with the caller unanswered; any other selector is an error.
Exit(p) ==
  /\ Sends(p)
  /\ Halt("exit")
  /\ Kept /\ UNCHANGED <<keyVars, program, target>>
BadOperation(p) ==
  /\ Sends(p)
  /\ result' = "error reply"
  /\ Kept /\ UNCHANGED <<keyVars, todo, program, target>>

-----------------------------------------------------------------------------

\* prepare_first_context's grants: ROM, and RAM that is not executable.
Init ==
  /\ AllocInit
  /\ keys = [r \in Reg |-> IF r = 1 THEN [NullKey EXCEPT !.obj = 1] ELSE NullKey]
  /\ available_keys = Reg \ {0, 1, kself, kgate}
  /\ local = [x \in {} |-> 0]
  /\ todo = main(app.setup)
  /\ program = [i \in Index |->
       IF i # Self THEN Blank
       ELSE [Blank EXCEPT
               !.region[0] = [obj |-> WellKnown, gen |-> 0, brand |-> Brand(FALSE, ReadOnly)],
               !.region[1] = [obj |-> WellKnown + 1, gen |-> 0, brand |-> Brand(FALSE, NoExecute)],
               !.runnable = TRUE]]
  /\ target = [i \in Index |-> NullKey]

Startup ==
  \/ FeedAllocator \/ MakeSelfKey \/ CopyKey \/ PrepareIdleTask \/ Isolate
  \/ GiveSyscallKey \/ SetKey \/ GiveClientKey \/ GiveApb \/ SetTarget \/ Start
  \/ AnyCall \/ AnyEnds \/ ServeSyscalls
  \/ LoadNext /\ UNCHANGED target
Serve == \E p \in Index : MapMemory(p) \/ Exit(p) \/ BadOperation(p)
Next  == Startup \/ Serve

Spec == Init /\ [][Next]_vars
=============================================================================
