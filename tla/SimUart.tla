------------------------------- MODULE SimUart -------------------------------
(***************************************************************************)
(* The simulated UART server (sim/uart.cc), under tests that play its      *)
(* clients and a USART.  Its statements wait in todo; a branch or a        *)
(* handler puts its own in front.                                          *)
(***************************************************************************)
EXTENDS SimTask

VARIABLES
  cr1_read, sr_read, \* the handler's copies of the registers
  flushing,
  sr, cr1,           \* USART: status bits that are set, interrupts enabled
  unanswered,        \* callers, by the names of their keys, with no answer yet
  ignored            \* those whose message had a tag that no handler knows

serverVars == <<cr1_read, sr_read, flushing>>
usartVars  == <<sr, cr1>>
callerVars == <<unanswered, ignored>>
vars == <<todo, pipeVars, taskVars, serverVars, usartVars, callerVars>>

p_mon == 0
p_tx  == 1
p_irq == 2
p_rx  == 3
k0 == 0
k_saved_reply == 4
k_flush_reply == 5
k_reg == 14

\* The keys that the server keeps are beyond those that travel with messages.
ASSUME SimAssumption ==
  /\ {k0, k_saved_reply, k_flush_reply, k_reg} \subseteq KeyIndex
  /\ KeyIndex \subseteq Nat
  /\ NKeysSent \in 1 .. k_saved_reply
  /\ Name \cap {"", "hw", "<REVOKED>"} = {}

\* "txe", "rxne" and "tc" stand for the bit in SR and for the one in CR1.
Bit == {"txe", "rxne", "tc"}

-----------------------------------------------------------------------------
(* The server's code *)

Read(r)       == [op |-> "call", reg |-> r]
Write(r)      == [op |-> "send", to |-> k_reg, reg |-> r]
SetCopy(on, off) == [op |-> "set_cr1", on |-> on, off |-> off]
If(bit)       == [op |-> "if", bit |-> bit]
SetFlush(b)   == [op |-> "flushing", value |-> b]
Enable(bit)   == <<Read("cr1"), SetCopy({bit}, {}), Write("cr1")>>
Disable(bit)  == <<SetCopy({}, {bit}), Write("cr1")>>
reply         == <<Send(k_saved_reply)>>

\* Faults: the port stays open, the interrupt is not enabled, the key stays
\* where the next message's comes.
PortFault  == <<Write("dr")>> \o Enable("txe") \o reply
WakeFault  == <<Write("dr"), Mask(p_tx)>> \o reply
FlushFault == Enable("tc") \o <<Mask(p_tx), SetFlush(TRUE)>>

do_send1 == <<Write("dr"), Mask(p_tx)>> \o Enable("txe") \o reply
do_flush == Enable("tc") \o <<Mask(p_tx), MoveCap(k_saved_reply, k_flush_reply),
                              SetFlush(TRUE)>>
do_recv1 == <<Read("dr"), Mask(p_rx)>> \o Enable("rxne") \o reply
handle_irq == <<Read("sr"), Read("cr1"), If("txe"), If("rxne"), If("tc")>> \o reply

\* The heartbeat, send1 and recv1 have the tag 0; a handler ignores others.
handle_mon(tag) == IF tag = 0 THEN reply ELSE << >>
handle_tx(tag)  == CASE tag = 0 -> do_send1
                     [] tag = 1 -> do_flush
                     [] OTHER   -> << >>
handle_rx(tag)  == IF tag = 0 THEN do_recv1 ELSE << >>
Handler(port, tag) ==
  CASE port = p_mon -> handle_mon(tag)
    [] port = p_tx  -> handle_tx(tag)
    [] port = p_irq -> handle_irq
    [] port = p_rx  -> handle_rx(tag)

\* What handle_irq does for a bit that is set and enabled.
OnBit(bit) ==
  CASE bit = "txe"  -> Disable("txe") \o IF flushing THEN << >> ELSE <<Unmask(p_tx)>>
    [] bit = "rxne" -> Disable("rxne") \o <<Unmask(p_rx)>>
    [] bit = "tc"   -> Disable("tc") \o <<Send(k_flush_reply), SetFlush(FALSE), Unmask(p_tx)>>

\* main: the key of a message is moved out of the way of later answers.
MessageReceived ==
  /\ Returns("open_receive", "message")
  /\ todo' = <<MoveCap(k0, k_saved_reply)>> \o Handler(response.port, response.tag)
             \o <<OpenReceive>>
  /\ UNCHANGED <<request, taskVars, serverVars, usartVars, callerVars>>
RegisterRead ==
  /\ Returns("call", "message")
  /\ todo' = Tail(todo)
  /\ cr1_read' = IF Head(todo).reg = "cr1" THEN response.value ELSE cr1_read
  /\ sr_read' = IF Head(todo).reg = "sr" THEN response.value ELSE sr_read
  /\ UNCHANGED <<request, taskVars, flushing, usartVars, callerVars>>

SetCr1 ==
  /\ At("set_cr1")
  /\ cr1_read' = (cr1_read \cup Head(todo).on) \ Head(todo).off
  /\ todo' = Tail(todo)
  /\ UNCHANGED <<pipeVars, taskVars, sr_read, flushing, usartVars, callerVars>>
Branch ==
  /\ At("if")
  /\ LET bit == Head(todo).bit
     IN  todo' = IF bit \in sr_read \cap cr1_read THEN OnBit(bit) \o Tail(todo)
                 ELSE Tail(todo)
  /\ UNCHANGED <<pipeVars, taskVars, serverVars, usartVars, callerVars>>
SetFlushing ==
  /\ At("flushing")
  /\ flushing' = Head(todo).value
  /\ todo' = Tail(todo)
  /\ UNCHANGED <<pipeVars, taskVars, cr1_read, sr_read, usartVars, callerVars>>

-----------------------------------------------------------------------------
(* What tests play *)

\* A client's message on a port, or the interrupt's; each has a reply key, which
\* the server did not hold.
Message ==
  \E port \in {p_mon, p_tx, p_irq, p_rx}, tag \in 0 .. 2, name \in Name :
    /\ \A i \in KeyIndex : clist[i] # name
    /\ Provide(port, tag, name)
    /\ unanswered' = unanswered \cup {name}
    /\ ignored' = IF Handler(port, tag) = << >> THEN ignored \cup {name} ELSE ignored \ {name}
    /\ UNCHANGED <<serverVars, usartVars>>
ReplyTaken ==
  \E name \in Name :
    /\ SendExpected(name)
    /\ unanswered' = unanswered \ {name}
    /\ UNCHANGED ignored
    /\ UNCHANGED <<serverVars, usartVars>>

\* Register accesses.
RegisterWritten ==
  /\ SendExpected("hw")
  /\ IF request.reg = "cr1" THEN cr1' = cr1_read /\ UNCHANGED sr
     ELSE sr' = sr \ {"txe", "tc"} /\ UNCHANGED cr1
  /\ UNCHANGED <<serverVars, callerVars>>
RegisterProvided ==
  /\ CallExpected(IF request.reg = "cr1" THEN cr1 ELSE sr)
  /\ sr' = IF request.reg = "dr" THEN sr \ {"rxne"} ELSE sr
  /\ UNCHANGED <<serverVars, cr1, callerVars>>

\* The USART: a character leaves the data register, its last bit is sent, or
\* one arrives.  (A write of the data register clears TC.)
Usart ==
  /\ test = "running"
  /\ \/ "txe" \notin sr /\ sr' = sr \cup {"txe"}
     \/ "txe" \in sr /\ "tc" \notin sr /\ sr' = sr \cup {"tc"}
     \/ "rxne" \notin sr /\ sr' = sr \cup {"rxne"}
  /\ UNCHANGED <<todo, pipeVars, taskVars, serverVars, cr1, callerVars>>

-----------------------------------------------------------------------------

\* Whoever has set the USART up may have enabled its receive interrupt.
Init ==
  /\ todo = <<Mask(p_rx), OpenReceive>>
  /\ request = Nothing /\ response = Nothing
  /\ clist = [i \in KeyIndex |-> IF i = k_reg THEN "hw" ELSE ""]
  /\ masked_ports = {} /\ test = "running"
  /\ cr1_read = {} /\ sr_read = {} /\ flushing = FALSE
  /\ sr = {"txe", "tc"} /\ cr1 \in {{}, {"rxne"}}
  /\ unanswered = {} /\ ignored = {}

Next ==
  \/ MessageReceived \/ RegisterRead \/ SetCr1 \/ Branch \/ SetFlushing
  \/ Message \/ ReplyTaken \/ RegisterWritten \/ RegisterProvided \/ Usart
  \/ TaskNext /\ UNCHANGED <<serverVars, usartVars, callerVars>>
Spec == Init /\ [][Next]_vars

-----------------------------------------------------------------------------
(* What the server keeps true *)

\* Whom the server is to answer: not callers whose message has an unknown tag,
\* since its handler has no case for it (uart.cc:163-169, 190-195, 243-247).
\* They are never answered.
owed == unanswered \ ignored

\* Every reply is sent to somebody who waits for it.  When the server receives
\* again it has answered everybody but those, and the flush that is under way,
\* whose key is still in k_flush_reply: keys arrive where the next message's do,
\* and messages arrive from other ports while a flush is under way (uart.cc:11-18,
\* 87, 185, 224).
RepliesKept ==
  /\ request \in {Send(k_saved_reply), Send(k_flush_reply)} =>
       clist[request.to] \in owed
  /\ request = OpenReceive => owed = IF flushing THEN {clist[k_flush_reply]} ELSE {}

\* No character is written over another, and a flush is answered only when the
\* last one is on the wire (uart.cc:175-188, 204-227).
CharactersKept ==
  /\ request = Write("dr") => "txe" \in sr
  /\ request = Send(k_flush_reply) => flushing /\ {"txe", "tc"} \subseteq sr

\* A transmit port that is masked when the server receives will be unmasked:
\* the interrupt that does it is enabled (uart.cc:175-188, 204-227).
TxWakes ==
  request = OpenReceive /\ p_tx \in masked_ports =>
    IF flushing THEN "tc" \in cr1 ELSE "txe" \in cr1
=============================================================================
