------------------------------ MODULE UartDriver ------------------------------
(***************************************************************************)
(* The UART driver (a/drv/stm32f4/uart/main.cc) with the programs that     *)
(* send it characters (a/srv/ascii/main.cc), the kernel's Gate and         *)
(* Interrupt as they use them, the NVIC and the USART's transmitter.       *)
(*                                                                         *)
(* The driver is a program like its clients: an interrupt or a client's    *)
(* call can come between any two of its accesses to the hardware.  Its     *)
(* receives block, whatever their descriptors say.                         *)
(***************************************************************************)
EXTENDS Naturals, Sequences, SequencesExt

CONSTANTS
  Client,   \* the programs with a key to the client gate
  Ascii,    \* those that are ascii servers
  None      \* no client

ASSUME UartAssumption == Ascii \subseteq Client /\ None \notin Client

VARIABLES
  pc,         \* where the driver is
  caller,     \* whose reply key is in k_sender_reply
  msg,        \* the kind of the request the driver has received
  client,     \* what each client does
  asked,      \* its last request: [kind, call]
  queue,      \* the Gate's blocked senders
  txe, txeie, \* the data register is empty; TXE interrupts are enabled
  te,         \* the transmitter is enabled
  pending, enabled,  \* the NVIC's bits for the interrupt
  irq_waits   \* the Interrupt is a blocked sender of the irq gate

clientVars == <<client, asked, queue>>
irqVars    == <<pending, enabled, irq_waits>>
usartVars  == <<txe, txeie, te>>
driverVars == <<pc, caller, msg>>
vars       == <<driverVars, clientVars, usartVars, irqVars>>

Kind == {"send", "error", "bogus"}
Request == [kind : Kind, call : BOOLEAN]
AsciiRequest == [kind |-> "send", call |-> TRUE]

-----------------------------------------------------------------------------
(* Clients *)

\* A request reaches the driver: a caller waits for the reply, whose key the
\* driver keeps; a mere sender goes on, and there is no key.  A fault: there is one.
AcceptFault(c, r, clients) ==
  /\ client' = [clients EXCEPT ![c] = IF r.call THEN "waiting" ELSE "running"]
  /\ caller' = c
  /\ msg' = r.kind
  /\ pc' = "dispatch"
Accept(c, r, clients) ==
  /\ client' = [clients EXCEPT ![c] = IF r.call THEN "waiting" ELSE "running"]
  /\ caller' = IF r.call THEN c ELSE None
  /\ msg' = r.kind
  /\ pc' = "dispatch"

\* The ascii server calls for every character.
MayAsk(c, r) == c \in Ascii => r = AsciiRequest

RequestDelivered(c) ==
  /\ client[c] = "running"
  /\ pc = "blocked"
  /\ \E r \in Request :
       MayAsk(c, r) /\ Accept(c, r, client) /\ asked' = [asked EXCEPT ![c] = r]
  /\ UNCHANGED <<queue, usartVars, irqVars>>
\* A fault: the last to come is the first to be served.
RequestBlocksFault(c) ==
  /\ client[c] = "running"
  /\ pc # "blocked"
  /\ client' = [client EXCEPT ![c] = "sending"]
  /\ queue' = <<c>> \o queue
  /\ \E r \in Request : MayAsk(c, r) /\ asked' = [asked EXCEPT ![c] = r]
  /\ UNCHANGED <<driverVars, usartVars, irqVars>>
RequestBlocks(c) ==
  /\ client[c] = "running"
  /\ pc # "blocked"
  /\ client' = [client EXCEPT ![c] = "sending"]
  /\ queue' = Append(queue, c)
  /\ \E r \in Request : MayAsk(c, r) /\ asked' = [asked EXCEPT ![c] = r]
  /\ UNCHANGED <<driverVars, usartVars, irqVars>>

-----------------------------------------------------------------------------
(* The driver *)

Goto(from, to) == pc = from /\ pc' = to

\* The APB is mapped and USART2 set up.
InitializeHardware ==
  /\ Goto("start", "enable")
  /\ te' = TRUE
  /\ UNCHANGED <<caller, msg, clientVars, txe, txeie, irqVars>>
\* The interrupt is enabled at the NVIC; a fault: it is left to wait_for_txe.
EnableIrqFault ==
  /\ Goto("enable", "receive")
  /\ UNCHANGED <<caller, msg, clientVars, usartVars, irqVars>>
EnableIrq ==
  /\ Goto("enable", "receive")
  /\ enabled' = TRUE
  /\ UNCHANGED <<caller, msg, clientVars, usartVars, pending, irq_waits>>

\* The main loop's ipc2: the reply, if there is one to send, and the receive.
Ipc ==
  /\ pc \in {"receive", "reply"}
  /\ LET told == IF pc = "reply" /\ caller # None
                 THEN [client EXCEPT ![caller] = "running"] ELSE client
     IN  IF queue = << >>
         THEN pc' = "blocked" /\ client' = told /\ UNCHANGED <<caller, msg, queue>>
         ELSE /\ Accept(Head(queue), asked[Head(queue)], told)
              /\ queue' = Tail(queue)
  /\ UNCHANGED <<asked, usartVars, irqVars>>

\* An error is not answered.  A bogus selector's is sent to key register 0,
\* which is always null.
ErrorReceived ==
  /\ Goto("dispatch", "receive")
  /\ msg = "error"
  /\ UNCHANGED <<caller, msg, clientVars, usartVars, irqVars>>
BogusSelector ==
  /\ Goto("dispatch", "receive")
  /\ msg = "bogus"
  /\ UNCHANGED <<caller, msg, clientVars, usartVars, irqVars>>

\* Send: the two register writes.
WriteDr ==
  /\ Goto("dispatch", "written")
  /\ msg = "send"
  /\ txe' = FALSE
  /\ UNCHANGED <<caller, msg, clientVars, txeie, te, irqVars>>
EnableTxe ==
  /\ Goto("written", "wait")
  /\ txeie' = TRUE
  /\ UNCHANGED <<caller, msg, clientVars, txe, te, irqVars>>

\* wait_for_txe: the receive from the irq gate, and what follows it; a
\* fault: enable does not clear a pending interrupt.
WaitForTxe ==
  /\ Goto("wait", IF irq_waits THEN "irq" ELSE "waiting")
  /\ irq_waits' = FALSE
  /\ UNCHANGED <<caller, msg, clientVars, usartVars, pending, enabled>>
DisableTxe ==
  /\ Goto("irq", "masked")
  /\ txeie' = FALSE
  /\ UNCHANGED <<caller, msg, clientVars, txe, te, irqVars>>
ReenableIrqFault ==
  /\ Goto("masked", "reply")
  /\ enabled' = TRUE
  /\ UNCHANGED <<caller, msg, clientVars, usartVars, pending, irq_waits>>
ReenableIrq ==
  /\ Goto("masked", "reply")
  /\ enabled' = TRUE
  /\ pending' = FALSE
  /\ UNCHANGED <<caller, msg, clientVars, usartVars, irq_waits>>

Driver ==
  \/ InitializeHardware \/ EnableIrq \/ Ipc \/ ErrorReceived \/ BogusSelector
  \/ WriteDr \/ EnableTxe \/ WaitForTxe \/ DisableTxe \/ ReenableIrq

-----------------------------------------------------------------------------
(* The USART, the NVIC and Interrupt::trigger *)

\* The data register's character moves on to the shift register.
Shift ==
  /\ te /\ ~ txe
  /\ txe' = TRUE
  /\ UNCHANGED <<driverVars, clientVars, txeie, te, irqVars>>

\* The line is high as long as TXE is set and may interrupt; the NVIC remembers
\* it, even while the interrupt is disabled.
LineHigh ==
  /\ txe /\ txeie /\ ~ pending
  /\ pending' = TRUE
  /\ UNCHANGED <<driverVars, clientVars, usartVars, enabled, irq_waits>>

\* trigger: the interrupt is disabled, and its message delivered or blocked,
\* unless an earlier one still is.
Trigger ==
  /\ pending /\ enabled
  /\ pending' = FALSE
  /\ enabled' = FALSE
  /\ IF pc = "waiting" THEN pc' = "irq" /\ UNCHANGED irq_waits
     ELSE irq_waits' = TRUE /\ UNCHANGED pc
  /\ UNCHANGED <<caller, msg, clientVars, usartVars>>

Hardware == Shift \/ LineHigh \/ Trigger

-----------------------------------------------------------------------------

Init ==
  /\ pc = "start" /\ caller = None /\ msg = "none"
  /\ client = [c \in Client |-> "running"]
  /\ asked = [c \in Client |-> AsciiRequest]
  /\ queue = << >>
  /\ txe = TRUE /\ txeie = FALSE /\ te = FALSE
  /\ pending = FALSE /\ enabled = FALSE /\ irq_waits = FALSE

Next == \/ Driver \/ Hardware
        \/ \E c \in Client : RequestDelivered(c) \/ RequestBlocks(c)
Spec == Init /\ [][Next]_vars

\* The hardware makes progress, and so does the driver: the programs of its
\* priority take turns, and its clients wait as soon as they call.
FairSpec == Spec /\ WF_vars(Driver) /\ WF_vars(Shift) /\ WF_vars(LineHigh) /\ WF_vars(Trigger)

-----------------------------------------------------------------------------
(* What the driver keeps true *)

Place == {"start", "enable", "receive", "blocked", "dispatch", "written",
          "wait", "waiting", "irq", "masked", "reply"}

\* The shape of the state.
TypeOK ==
  /\ pc \in Place /\ caller \in Client \cup {None} /\ msg \in Kind \cup {"none"}
  /\ client \in [Client -> {"running", "sending", "waiting"}]
  /\ asked \in [Client -> Request]
  /\ queue \in Seq(Client)
  /\ txe \in BOOLEAN /\ txeie \in BOOLEAN /\ te \in BOOLEAN
  /\ pending \in BOOLEAN /\ enabled \in BOOLEAN /\ irq_waits \in BOOLEAN

\* No character is written over one that is still in the data register, and a
\* caller is told that its character was sent only when it has left it.  An
\* interrupt that was pended by the character before must not count for this
\* one: that is what the second argument of interrupt::enable is for
\* (main.cc:84-105).
CharactersKept ==
  /\ pc = "dispatch" => txe
  /\ pc = "reply" => txe

\* The driver never waits for an interrupt that cannot come: the NVIC lets it
\* through, the USART raises it, and no message of an earlier one is left over
\* that trigger would take for this one (main.cc:80-104, k/interrupt.cc:30-39).
WakeupNotLost == pc = "waiting" => enabled /\ txeie /\ te /\ ~ irq_waits

\* The reply key in k_sender_reply is that of a caller that still waits, from
\* the moment its request is received until it is answered, though the driver
\* receives from another gate and calls the Interrupt in between
\* (main.cc:90-104, 147-162).
RepliesToCaller ==
  pc \in {"dispatch", "written", "wait", "waiting", "irq", "masked", "reply"}
    => (caller # None => client[caller] = "waiting")

\* Everybody who calls to send a character is answered, however many there are
\* and whatever else is sent to the driver (main.cc:134-162).
Answered ==
  \A c \in Client :
    client[c] # "running" /\ asked[c] = AsciiRequest ~> client[c] = "running"
=============================================================================
