------------------------------- MODULE SysLoad -------------------------------
(***************************************************************************)
(* The program loader (a/sys/load.cc): it finds a program's image in a     *)
(* Memory object, checks its header, allocates its RAM and its Context and *)
(* fills both in.                                                          *)
(*                                                                         *)
(* An image is a record: its address, its header and the prototype of its  *)
(* GOT.  The other words it holds are copied as they are.                  *)
(***************************************************************************)
EXTENDS SysAlloc

CONSTANTS
  CtxLevel,      \* kabi::context_l2_size - 1
  NRegions       \* config::n_task_regions

VARIABLE program   \* what the server has put into each Context

loadVars == <<allocVars, program>>

ReadOnly  == 1
ReadWrite == 2
NoExecute == 4     \* read and write, with_xn(true)
FrameSize == 32    \* sizeof(ExceptionFrame)

\* A Context as become leaves it: stopped, with null keys.
Blank == [key |-> [n \in 11 .. 15 |-> NullKey],
          region |-> [n \in 0 .. (NRegions - 1) |-> NullKey],
          priority |-> 0, runnable |-> FALSE, pc |-> 0, sp |-> 0, got |-> << >>]

-----------------------------------------------------------------------------
(* Arithmetic on headers, modulo the address space *)

Wrap(x) == x % AddrSpace

\* Region::contains of a/k/memory.h.
contains(m, addr) == Wrap(addr - m.base + 1) \div 2 < 2 ^ m.level

is_valid(hdr) ==
  /\ \A w \in {hdr.image_size, hdr.text_end, hdr.got_end, hdr.bss_end, hdr.stack_size} :
       w % 4 = 0
  /\ hdr.entry % 2 = 0
  /\ hdr.entry < hdr.text_end
  /\ hdr.text_end <= hdr.got_end
  /\ hdr.got_end <= hdr.image_size
  /\ hdr.image_size <= hdr.bss_end
  /\ hdr.stack_size >= FrameSize

\* get_ram_size: data, BSS and stack, rounded up to a power of two; what it
\* returns is the power.  No level has the size 0 that a sum of 0 and one above
\* half of the address space are rounded to.
RamPower(hdr) ==
  LET v == Wrap(hdr.bss_end - hdr.text_end + hdr.stack_size)
      powers == {p \in 0 .. MaxLevel + 1 : v <= 2 ^ p}
  IN  IF v = 0 \/ powers = {} THEN MaxLevel + 2 ELSE Min(powers)

\* relocate_got_entry; a fault: the size of the code is not taken off.
RelocatedFault(hdr, hdr_addr, ram_addr, entry) ==
  IF entry < hdr.text_end THEN Wrap(hdr_addr + entry)
  ELSE IF entry < hdr.bss_end THEN Wrap(entry + ram_addr)
  ELSE entry
Relocated(hdr, hdr_addr, ram_addr, entry) ==
  IF entry < hdr.text_end THEN Wrap(hdr_addr + entry)
  ELSE IF entry < hdr.bss_end THEN Wrap(entry - hdr.text_end + ram_addr)
  ELSE entry

-----------------------------------------------------------------------------
(* load_program *)

\* The image must lie in the Memory of the image key, and its header be valid.
\* The header is read before it is known to lie in the Memory itself.
Refused(img, m) ==
  \/ img.addr % 4 # 0
  \/ ~ contains(m, img.addr)
  \/ ~ contains(m, Wrap(img.addr + img.hdr.image_size))
  \/ ~ is_valid(img.hdr)
HeaderRuns(img, m) ==
  /\ img.addr % 4 = 0
  /\ contains(m, img.addr)
  /\ contains(m, Wrap(img.addr + img.hdr.image_size))
  /\ img.addr + 24 > m.base + Bytes(m.level)

LoadProgram ==
  /\ At("load_program")
  /\ LET m == object[Target(Held("k_img"))]
     IN  IF HeaderRuns(Arg, m) THEN Halt("assertion")
         ELSE IF Refused(Arg, m) THEN Return("nothing")
         ELSE Calls(<<Call("alloc_mem", [level |-> RamPower(Arg.hdr) - 1,
                                         brand |-> Brand(FALSE, ReadWrite)], "k_ram"),
                      Call("load_context", Arg, Var)>>)
  /\ UNCHANGED <<app, tableVars, keyVars, poolVars, program>>

\* The RAM is there, or the load has failed.
LoadContext ==
  /\ At("load_context")
  /\ IF result = "nothing" THEN Return("nothing")
     ELSE Calls(<<Call("alloc_mem", [level |-> CtxLevel, brand |-> Plain], Var),
                  Call("load_fill", Arg, Var)>>)
  /\ UNCHANGED <<app, tableVars, keyVars, poolVars, program>>

\* The Context's Memory is there, or the RAM is given back; a fault: it is not.
LoadFillFault ==
  /\ At("load_fill")
  /\ IF result = "nothing" THEN Calls(<<Call("load_failed", 0, "k_ram")>>)
     ELSE Calls(<<Call("become", "context", Var), Call("load_image", Arg, Var)>>)
  /\ UNCHANGED <<app, tableVars, keyVars, poolVars, program>>
LoadFill ==
  /\ At("load_fill")
  /\ IF result = "nothing"
     THEN Calls(<<Call("free_mem", 0, "k_ram"), Call("load_failed", 0, "k_ram")>>)
     ELSE Calls(<<Call("become", "context", Var), Call("load_image", Arg, Var)>>)
  /\ UNCHANGED <<app, tableVars, keyVars, poolVars, program>>

LoadFailed ==
  /\ At("load_failed")
  /\ Drop({Var})
  /\ Return("nothing")
  /\ UNCHANGED <<app, tableVars, keys, poolVars, program>>

\* The data image is copied, the rest zeroed, the GOT relocated, the stack
\* frame written and the Context filled in.  Copying from beyond the image or
\* to beyond the RAM is an assertion in peek or poke.
LoadImage ==
  /\ At("load_image")
  /\ LET hdr  == Arg.hdr
         ram  == object[Target(Held("k_ram"))]
         top  == ram.base + Bytes(ram.level)
         img  == object[Target(Held("k_img"))]
         fits == /\ hdr.image_size - hdr.text_end <= Bytes(ram.level)
                 /\ Arg.addr + hdr.image_size <= img.base + Bytes(img.level)
     IN  IF ~ fits THEN Halt("assertion") /\ UNCHANGED <<keyVars, program>>
         ELSE /\ program' = [program EXCEPT ![Target(Held(Var))] =
                   [Blank EXCEPT
                      !.region[0] = Held("k_img"),
                      !.region[1] = Held("k_ram"),
                      !.pc = Wrap(hdr.entry + Arg.addr),
                      !.sp = top - FrameSize,
                      !.got = [e \in DOMAIN Arg.got |->
                                 Relocated(hdr, Arg.addr, ram.base, Arg.got[e])]]]
              /\ Drop({"k_ram"})
              /\ UNCHANGED keys
              /\ Return("ok")
  /\ UNCHANGED <<app, tableVars, poolVars>>

LoadNext ==
  \/ LoadProgram \/ LoadContext \/ LoadFill \/ LoadFailed \/ LoadImage
  \/ AllocNext /\ UNCHANGED program
=============================================================================
