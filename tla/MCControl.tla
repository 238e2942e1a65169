------------------------------ MODULE MCControl ------------------------------
(***************************************************************************)
(* A client and a server around a Gate, and a supervisor that holds their  *)
(* Context keys, the Gate's service key and the Object Table: it           *)
(* interrupts, reprioritises, rewrites and invalidates the others at any   *)
(* point of their IPC.  The client is stopped until it starts it.           *)
(***************************************************************************)
EXTENDS KernelProperties

CONSTANTS cli, srv, sup, idle, gate, table, null

MCContext == {cli, srv, sup, idle}
MCGate == {gate}

KeyTo(o, hi, n) == [obj |-> o, gen |-> 0, brand |-> [hi |-> hi, n |-> n]]
Pair(a, b) == [m \in MsgKey |-> IF m = 0 THEN a ELSE b]

Call(target) ==
  [send |-> TRUE, recv |-> TRUE, block |-> TRUE, target |-> target, source |-> 0,
   sent |-> Pair(0, 0), rx |-> Pair(0, 0)]
Receive == [send |-> FALSE, recv |-> TRUE, block |-> TRUE, target |-> 0, source |-> 1,
            sent |-> Pair(0, 0), rx |-> Pair(2, 0)]
Answer  == [Receive EXCEPT !.send = TRUE, !.target = 2]

\* The supervisor's registers: 1 the Object Table, 2 the client, 3 the server,
\* 4 the key it read from one of them last, which it can pass on or use.
Control(r) == [Call(r) EXCEPT !.sent = Pair(0, 4), !.rx = Pair(0, 4)]
Steal      == [Call(4) EXCEPT !.recv = FALSE]
MCProgram == (cli :> {Call(1)}) @@ (srv :> {Receive, Answer}) @@ (idle :> {}) @@
             (sup :> {Control(1), Control(2), Control(3), Steal})
\* The same supervisor, when it does not wait for the answer.
SendOnly(r) == [Control(r) EXCEPT !.recv = FALSE]
MCSendOnly == [MCProgram EXCEPT ![sup] = {SendOnly(2), SendOnly(3)}]
\* Key maps no program loads and the supervisor writes into a saved r10 or r11:
\* they pass on the key in the place of a reply key, and take keys elsewhere.
Written == [Receive EXCEPT !.sent = Pair(2, 4), !.rx = Pair(4, 2)]
MCDescriptor == UNION (Range(MCProgram) \cup Range(MCSendOnly)) \cup {Written}
MCKeyCopies == [c \in MCContext |-> {}]

MCKeys == [c \in MCContext |-> [r \in Reg |->
             CASE c = cli /\ r = 1 -> KeyTo(gate, TRUE, 0)
               [] c = srv /\ r = 1 -> KeyTo(gate, FALSE, 0)
               [] c = sup /\ r = 1 -> KeyTo(table, FALSE, 0)
               [] c = sup /\ r = 2 -> KeyTo(cli, FALSE, 0)
               [] c = sup /\ r = 3 -> KeyTo(srv, FALSE, 0)
               [] OTHER -> NullKey]]
MCPriority == (cli :> 0) @@ (srv :> 0) @@ (sup :> 0) @@ (idle :> 1)
MCRunnable == (0 :> <<srv, sup>>) @@ (1 :> <<idle>>)
MCEqual == [c \in MCContext |-> 1]
MCEqualRunnable == (0 :> << >>) @@ (1 :> <<sup, srv, idle>>)
MCRevocable == {cli, srv, gate}
NoTarget == [i \in {} |-> NullKey]
NoIrq == [i \in {} |-> FALSE]

ASSUME SafeConfiguration
=============================================================================
