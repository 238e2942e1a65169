-------------------------------- MODULE MCBrand --------------------------------
(***************************************************************************)
(* Two clients that ask for their answers at a Gate: each request carries, *)
(* where a call has its reply key, a key to that Gate with a brand of its  *)
(* own, by which a collector tells the answers apart.                      *)
(***************************************************************************)
EXTENDS KMessages

CONSTANTS c1, c2, srv, collector, idle, requests, answers, table, null

MCContext == {c1, c2, srv, collector, idle}
MCGate == {requests, answers}

KeyTo(o, hi, n) == [obj |-> o, gen |-> 0, brand |-> [hi |-> hi, n |-> n]]
Pair(a, b) == [m \in MsgKey |-> IF m = 0 THEN a ELSE b]

\* Register 1 holds the Gate a program serves or asks; 2 of a client, the key to
\* the answers it sends, and of the server, the one it received.
Ask     == [send |-> TRUE, recv |-> FALSE, block |-> TRUE, target |-> 1, source |-> 0,
            sent |-> Pair(2, 0), rx |-> Pair(0, 0)]
Receive == [send |-> FALSE, recv |-> TRUE, block |-> TRUE, target |-> 0, source |-> 1,
            sent |-> Pair(0, 0), rx |-> Pair(2, 0)]
AnswerAndReceive == [Receive EXCEPT !.send = TRUE, !.target = 2]

MCProgram == (c1 :> {Ask}) @@ (c2 :> {Ask}) @@ (srv :> {Receive, AnswerAndReceive}) @@
             (collector :> {Receive}) @@ (idle :> {})
MCDescriptor == UNION Range(MCProgram)
MCKeyCopies == [c \in MCContext |-> {}]

MCKeys == [c \in MCContext |-> [r \in Reg |->
             CASE c = srv /\ r = 1       -> KeyTo(requests, FALSE, 0)
               [] c = collector /\ r = 1 -> KeyTo(answers, FALSE, 0)
               [] c \in {c1, c2} /\ r = 1 -> KeyTo(requests, TRUE, 0)
               [] c = c1 /\ r = 2        -> KeyTo(answers, TRUE, 1)
               [] c = c2 /\ r = 2        -> KeyTo(answers, TRUE, 2)
               [] OTHER -> NullKey]]
MCPriority == [c \in MCContext |-> IF c = idle THEN 1 ELSE 0]
MCRunnable == (0 :> <<collector, c1, c2, srv>>) @@ (1 :> <<idle>>)
NoTarget == [i \in {} |-> NullKey]
NoIrq == [i \in {} |-> FALSE]
=============================================================================
