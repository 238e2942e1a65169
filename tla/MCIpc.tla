-------------------------------- MODULE MCIpc --------------------------------
(***************************************************************************)
(* Two clients, a driver that serves them and its interrupt on one Gate,   *)
(* and an idle Context.                                                    *)
(***************************************************************************)
EXTENDS KernelProperties

CONSTANTS c1, c2, drv, idle, gate, irq, table, null

MCContext == {c1, c2, drv, idle}
MCGate == {gate}
MCInterrupt == {irq}

KeyTo(o, hi, n) == [obj |-> o, gen |-> 0, brand |-> [hi |-> hi, n |-> n]]
Pair(a, b) == [m \in MsgKey |-> IF m = 0 THEN a ELSE b]

\* Register 1 holds the Gate, 2 and 3 receive keys; 4 of the driver, the Interrupt.
Call      == [send |-> TRUE, recv |-> TRUE, block |-> TRUE, target |-> 1, source |-> 0,
              sent |-> Pair(0, 0), rx |-> Pair(0, 2)]
PollCall  == [Call EXCEPT !.block = FALSE]
CallKeep  == [Call EXCEPT !.rx = Pair(2, 3)]
CallBack  == [Call EXCEPT !.target = 2, !.rx = Pair(0, 3)]
Receive   == [send |-> FALSE, recv |-> TRUE, block |-> TRUE, target |-> 0, source |-> 1,
              sent |-> Pair(0, 0), rx |-> Pair(2, 3)]
Answer    == [send |-> TRUE, recv |-> FALSE, block |-> TRUE, target |-> 2, source |-> 0,
              sent |-> Pair(0, 2), rx |-> Pair(0, 0)]
Nothing   == [Answer EXCEPT !.send = FALSE]
AnswerAndReceive == [Answer EXCEPT !.recv = TRUE, !.source = 1, !.rx = Pair(2, 3)]
CallIrq     == [Call EXCEPT !.target = 4, !.sent = Pair(0, 3), !.rx = Pair(0, 0)]
MakeKeyCall == [Call EXCEPT !.rx = Pair(0, 3)]

MCProgram == (c1 :> {Call, PollCall, CallBack}) @@ (c2 :> {CallKeep, CallBack, Nothing}) @@
             (drv :> {Receive, Answer, AnswerAndReceive, CallBack, CallIrq, MakeKeyCall}) @@ (idle :> {})
MCDescriptor == UNION Range(MCProgram)
MCKeyCopies == [c \in MCContext |-> IF c = c2 THEN {<<3, 2>>} ELSE {}]

MCKeys == [c \in MCContext |-> [r \in Reg |->
             CASE c = drv /\ r = 1 -> KeyTo(gate, FALSE, 0)
               [] c = drv /\ r = 4 -> KeyTo(irq, FALSE, 0)
               [] c \in {c1, c2} /\ r = 1 -> KeyTo(gate, TRUE, 0)
               [] OTHER -> NullKey]]
MCPriority == (c1 :> 0) @@ (drv :> 0) @@ (c2 :> 1) @@ (idle :> 2)
MCRunnable == (0 :> <<c1, drv>>) @@ (1 :> <<c2>>) @@ (2 :> <<idle>>)
MCTarget == (irq :> KeyTo(gate, TRUE, 1))
MCEnabled == (irq :> TRUE)

ASSUME SafeConfiguration
=============================================================================
