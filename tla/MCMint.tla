-------------------------------- MODULE MCMint --------------------------------
(***************************************************************************)
(* A program with a broad Object Table key, which mints a reply key before *)
(* its time, mints the key of an invalidated Interrupt, and invalidates    *)
(* Contexts until none can run.                                            *)
(***************************************************************************)
EXTENDS KernelProperties

CONSTANTS sup, cli, gate, irq, table, null

MCContext == {sup, cli}
MCGate == {gate}
MCInterrupt == {irq}

KeyTo(o, hi, n) == [obj |-> o, gen |-> 0, brand |-> [hi |-> hi, n |-> n]]
Pair(a, b) == [m \in MsgKey |-> IF m = 0 THEN a ELSE b]

\* The supervisor's registers: 1 the Object Table, 2 the key it minted last,
\* 3 the Interrupt.
Call(target) ==
  [send |-> TRUE, recv |-> TRUE, block |-> TRUE, target |-> target, source |-> 0,
   sent |-> Pair(0, 2), rx |-> Pair(0, 0)]
TableCall  == [Call(1) EXCEPT !.rx = Pair(0, 2)]
Revoke     == [Call(1) EXCEPT !.recv = FALSE]
Send       == [Call(2) EXCEPT !.recv = FALSE]
\* Asks the Object Table with the minted key in the reply key's place.
Redirect   == [Revoke EXCEPT !.sent = Pair(2, 0)]

MCProgram == (sup :> {TableCall, Call(2), Call(3), Send, Revoke, Redirect}) @@ (cli :> {Call(1)})
MCDescriptor == UNION Range(MCProgram)
MCKeyCopies == [c \in MCContext |-> {}]
MCKeys == [c \in MCContext |-> [r \in Reg |->
             CASE c = sup /\ r = 1 -> KeyTo(table, FALSE, 0)
               [] c = sup /\ r = 3 -> KeyTo(irq, FALSE, 0)
               [] c = cli /\ r = 1 -> KeyTo(gate, TRUE, 0)
               [] OTHER -> NullKey]]
MCPriority == (sup :> 0) @@ (cli :> 0)
MCRunnable == (0 :> <<sup, cli>>)
MCIrqKeys   == {[obj |-> irq, brand |-> [hi |-> FALSE, n |-> 0]]}
MCReplyKeys == {[obj |-> cli, brand |-> [hi |-> TRUE, n |-> 0]]}
MCMintable  == MCIrqKeys \cup MCReplyKeys
MCRevocable == {irq, sup, cli}
MCTarget == (irq :> KeyTo(gate, TRUE, 1))
MCEnabled == (irq :> FALSE)
=============================================================================
