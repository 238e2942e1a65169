------------------------------- MODULE SimTask -------------------------------
(***************************************************************************)
(* A program under test and the mock of the kernel it runs against: the    *)
(* system call stubs it is linked with (sim/stubs.cc), the test's model of *)
(* its keys and ports (sim/task.cc) and the expectations a test is made of *)
(* (sim/mock.cc).                                                          *)
(*                                                                         *)
(* The two processes talk over a pipe each way.  A system call writes its  *)
(* type and body and reads the answer's; the test answers before it reads  *)
(* again.  So each pipe holds one call, or one answer, at most.            *)
(***************************************************************************)
EXTENDS Naturals, Sequences

CONSTANTS
  Name,        \* the names tests give to reply keys
  KeyIndex,    \* the indices of the clist that matter
  NKeysSent    \* n_keys_sent: keys with a lower index travel with messages

VARIABLES
  todo,            \* what the program has still to do before it receives again
  request,         \* the call in the pipe to the test
  response,        \* the answer in the pipe to the program
  clist,           \* the names of the keys that the program has
  masked_ports,
  test             \* "running" or "failed"

pipeVars == <<request, response>>
taskVars == <<clist, masked_ports, test>>

Nothing == [op |-> "none"]

-----------------------------------------------------------------------------
(* The program's side: its statements *)

Send(to)      == [op |-> "send", to |-> to]
MoveCap(a, b) == [op |-> "copy_cap", from |-> a, to |-> b]
Mask(p)       == [op |-> "mask_port", index |-> p]
Unmask(p)     == [op |-> "unmask_port", index |-> p]
OpenReceive   == [op |-> "open_receive"]

\* The next statement, if the program is not in a system call.
At(op) == request = Nothing /\ response = Nothing /\ todo # << >> /\ Head(todo).op = op

\* A system call is written to the pipe.
IssueCall ==
  /\ \E op \in {"copy_cap", "mask_port", "unmask_port", "open_receive", "call", "send"} :
       At(op)
  /\ request' = Head(todo)
  /\ UNCHANGED <<todo, response, taskVars>>

\* Its answer is read, and is of the type that the stub insists on.
Returns(op, type) ==
  /\ response # Nothing
  /\ response.type = type
  /\ Head(todo).op = op
  /\ response' = Nothing
Completed ==
  /\ \E op \in {"copy_cap", "mask_port", "unmask_port", "send"} : Returns(op, "complete")
  /\ todo' = Tail(todo)
  /\ UNCHANGED <<request, taskVars>>

-----------------------------------------------------------------------------
(* The test's side *)

Incoming(op) == test = "running" /\ request.op = op
Complete     == [type |-> "complete"]
Answer(r)    == response' = r /\ request' = Nothing

\* set_pass_keys: the first key's name is k0, the others are empty.
PassKeys(k0) ==
  [i \in KeyIndex |-> IF i < NKeysSent THEN IF i = 0 THEN k0 ELSE "" ELSE clist[i]]
\* revoke_key looks at the keys that travel with messages only.
Revoked(name) ==
  [i \in KeyIndex |-> IF i < NKeysSent /\ clist[i] = name THEN "<REVOKED>" ELSE clist[i]]

\* next_nontrivial_syscall answers these itself.
CopyCap ==
  /\ Incoming("copy_cap")
  /\ clist' = [[clist EXCEPT ![request.to] = clist[request.from]]
                      EXCEPT ![request.from] = ""]
  /\ Answer(Complete)
  /\ UNCHANGED <<todo, masked_ports, test>>
MaskPort ==
  /\ Incoming("mask_port")
  /\ masked_ports' = masked_ports \cup {request.index}
  /\ Answer(Complete)
  /\ UNCHANGED <<todo, clist, test>>
UnmaskPort ==
  /\ Incoming("unmask_port")
  /\ masked_ports' = masked_ports \ {request.index}
  /\ Answer(Complete)
  /\ UNCHANGED <<todo, clist, test>>

\* SendBuilder::and_return, on what the test expected: a send by the name of
\* the key, which is revoked if it is a reply key.
SendExpected(name) ==
  /\ Incoming("send")
  /\ clist[request.to] = name
  /\ clist' = IF name \in Name THEN Revoked(name) ELSE clist
  /\ Answer(Complete)
  /\ UNCHANGED <<todo, masked_ports, test>>

\* CallBuilder::and_provide, with the value the test provides.
CallExpected(value) ==
  /\ Incoming("call")
  /\ clist' = PassKeys("")
  /\ Answer([type |-> "message", value |-> value])
  /\ UNCHANGED <<todo, masked_ports, test>>

\* OpenReceiveBuilder::and_provide: a message on a port that is not masked.
Provide(port, tag, name) ==
  /\ Incoming("open_receive")
  /\ port \notin masked_ports
  /\ clist' = PassKeys(name)
  /\ Answer([type |-> "message", port |-> port, tag |-> tag])
  /\ UNCHANGED <<todo, masked_ports, test>>

\* The test expected something else, or would deliver to a masked port: it
\* fails, and its TearDown kills the program.
ExpectationFails ==
  /\ \E op \in {"send", "call", "open_receive"} : Incoming(op)
  /\ test' = "failed"
  /\ UNCHANGED <<todo, pipeVars, clist, masked_ports>>

TaskNext == IssueCall \/ Completed \/ CopyCap \/ MaskPort \/ UnmaskPort \/ ExpectationFails
=============================================================================
