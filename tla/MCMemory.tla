------------------------------- MODULE MCMemory -------------------------------
(***************************************************************************)
(* One or two root Memory objects of sixteen addresses, slots to make      *)
(* others from, and two Contexts.                                          *)
(***************************************************************************)
EXTENDS KMemoryProperties, TLC

CONSTANTS m, dev, s1, s2, s3, c1, c2, null

MCSlot == {s1, s2, s3}
MCEntry == {m, dev, c1, c2, null} \cup MCSlot
\* One slot is as good as another.
MCSymmetry == Permutations(MCSlot)
MCContext == {c1, c2}
MCBodySize == ("context" :> 4) @@ ("gate" :> 2) @@ ("interrupt" :> 2)

MCObject == [o \in MCEntry |->
  CASE o = m   -> NewMemory(0, 8, FALSE, null)
    [] o = dev -> NewMemory(8, 4, TRUE, null)
    [] o \in MCSlot -> NewObject("slot", 0, 0)
    [] o \in MCContext -> NewObject("context", 0, 0)
    [] OTHER -> NewObject("null", 0, 0)]

ReadWrite == [ap |-> "write_write", srd |-> {}]
ReadOnly  == [ap |-> "write_read", srd |-> {}]
Undefined == [ap |-> "undefined", srd |-> {}]
KeyTo(o, b) == [obj |-> o, gen |-> 0, brand |-> b]

\* What programs hold, and what the first Context has mapped.
MCHeld == {KeyTo(m, ReadWrite), KeyTo(dev, ReadOnly)} \cup {KeyTo(s, NullBrand) : s \in MCSlot}
MCHeldOne == {KeyTo(m, ReadWrite), KeyTo(s1, NullBrand)}
MCRegions == [c \in MCContext |-> [n \in Reg |->
                IF c = c1 /\ n = 0 THEN KeyTo(m, ReadOnly) ELSE NullKey]]
\* A program that receives while it sends: a key to an Interrupt, or to Memory.
MCInterruptBrand == {NullBrand}
MCArriving == {ReadWrite}
MCMintable == {[obj |-> m, brand |-> Undefined], [obj |-> m, brand |-> ReadOnly]}
=============================================================================
