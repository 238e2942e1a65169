------------------------------ MODULE UartProofs ------------------------------
(***************************************************************************)
(* The driver's safety, for any clients.                                   *)
(*                                                                         *)
(* TypeOK and RepliesToCaller are inductive together.  CharactersKept and  *)
(* WakeupNotLost are not: they need to know, at each place of the driver,  *)
(* how far the interrupt of the character in hand has come (Irq), and that *)
(* there is none outside of that (Quiet).                                  *)
(***************************************************************************)
EXTENDS UartDriver, TLAPS

\* No interrupt is in any stage of its way to the driver, nor can one begin.
Quiet == ~ txeie /\ ~ pending /\ ~ irq_waits

\* The interrupt of a character, by the place of the driver.
Irq ==
  /\ pc \in {"start", "enable", "receive", "blocked", "dispatch", "reply"} => Quiet /\ txe
  /\ pc = "written" => Quiet
  /\ pc \in {"receive", "blocked", "dispatch", "written", "reply", "waiting"} => enabled
  /\ pc = "wait" =>
       /\ txeie
       /\ pending => txe
       /\ \/ enabled /\ ~ irq_waits
          \/ ~ enabled /\ irq_waits /\ txe
  /\ pc = "waiting" => txeie /\ ~ irq_waits /\ (pending => txe)
  /\ pc = "irq" => txeie /\ txe /\ ~ enabled /\ ~ irq_waits
  /\ pc = "masked" => ~ txeie /\ txe /\ ~ enabled /\ ~ irq_waits
  /\ pc # "start" => te

IInv == TypeOK /\ RepliesToCaller /\ Irq

\* At the start no interrupt is in any stage.
LEMMA InitIInv == Init => IInv
<1> SUFFICES ASSUME Init
             PROVE  IInv
  OBVIOUS
<1>1. client \in [Client -> {"running", "sending", "waiting"}]
  BY DEF Init
<1>2. AsciiRequest \in Request
  BY DEF AsciiRequest, Request, Kind
<1>3. asked \in [Client -> Request]
  BY <1>2 DEF Init
<1>4. queue \in Seq(Client)
  BY DEF Init
<1>5. TypeOK
  BY <1>1, <1>3, <1>4 DEF Init, TypeOK, Place
<1>6. RepliesToCaller /\ Irq
  BY DEF Init, RepliesToCaller, Irq, Quiet
<1> QED
  BY <1>5, <1>6 DEF IInv

\* A request received from a client that is not the one in hand.
LEMMA AcceptTyped ==
  ASSUME NEW c \in Client, NEW r \in Request,
         NEW clients \in [Client -> {"running", "sending", "waiting"}],
         Accept(c, r, clients)
  PROVE  /\ client' \in [Client -> {"running", "sending", "waiting"}]
         /\ caller' \in Client \cup {None}
         /\ msg' \in Kind
         /\ pc' = "dispatch"
         /\ caller' # None => client'[caller'] = "waiting"
  BY UartAssumption DEF Accept, Request

\* The clients' part: types and reply keys.
LEMMA TypeStep == IInv /\ [Next]_vars => TypeOK' /\ RepliesToCaller'
<1> SUFFICES ASSUME TypeOK, RepliesToCaller, Irq, [Next]_vars
             PROVE  TypeOK' /\ RepliesToCaller'
  BY DEF IInv
<1>1. ASSUME NEW c \in Client, RequestDelivered(c)
      PROVE  TypeOK' /\ RepliesToCaller'
  <2>1. PICK r \in Request :
          Accept(c, r, client) /\ asked' = [asked EXCEPT ![c] = r]
    BY <1>1 DEF RequestDelivered
  <2>2. client \in [Client -> {"running", "sending", "waiting"}]
    BY DEF TypeOK
  <2>3. /\ client' \in [Client -> {"running", "sending", "waiting"}]
        /\ caller' \in Client \cup {None}
        /\ msg' \in Kind
        /\ pc' = "dispatch"
        /\ caller' # None => client'[caller'] = "waiting"
    BY <2>1, <2>2, AcceptTyped
  <2>4. asked' \in [Client -> Request]
    BY <2>1 DEF TypeOK
  <2>5. UNCHANGED <<queue, usartVars, irqVars>>
    BY <1>1 DEF RequestDelivered
  <2> QED
    BY <2>3, <2>4, <2>5 DEF TypeOK, RepliesToCaller, Place, usartVars, irqVars
<1>2. ASSUME NEW c \in Client, RequestBlocks(c)
      PROVE  TypeOK' /\ RepliesToCaller'
  <2>1. /\ client[c] = "running"
        /\ client' = [client EXCEPT ![c] = "sending"]
        /\ queue' = Append(queue, c)
        /\ UNCHANGED <<pc, caller, msg, usartVars, irqVars>>
    BY <1>2 DEF RequestBlocks, driverVars
  <2>2. PICK r \in Request : asked' = [asked EXCEPT ![c] = r]
    BY <1>2 DEF RequestBlocks
  <2>3. TypeOK'
    BY <2>1, <2>2 DEF TypeOK, usartVars, irqVars
  <2>4. RepliesToCaller'
    BY <2>1, UartAssumption DEF TypeOK, RepliesToCaller
  <2> QED
    BY <2>3, <2>4
<1>3. CASE Ipc
  <2> DEFINE told == IF pc = "reply" /\ caller # None
                     THEN [client EXCEPT ![caller] = "running"] ELSE client
  <2>1. told \in [Client -> {"running", "sending", "waiting"}]
    BY DEF TypeOK
  <2>2. UNCHANGED <<asked, usartVars, irqVars>>
    BY <1>3 DEF Ipc
  <2>3. CASE queue = << >>
    <3>1. pc' = "blocked" /\ client' = told /\ UNCHANGED <<caller, msg, queue>>
      BY <1>3, <2>3 DEF Ipc
    <3> QED
      BY <3>1, <2>1, <2>2 DEF TypeOK, RepliesToCaller, Place, usartVars, irqVars
  <2>4. CASE queue # << >>
    <3>1. Head(queue) \in Client /\ Tail(queue) \in Seq(Client)
      BY <2>4 DEF TypeOK
    <3>2. asked[Head(queue)] \in Request
      BY <3>1 DEF TypeOK
    <3>3. Accept(Head(queue), asked[Head(queue)], told) /\ queue' = Tail(queue)
      BY <1>3, <2>4 DEF Ipc
    <3> HIDE DEF told
    <3>4. /\ client' \in [Client -> {"running", "sending", "waiting"}]
          /\ caller' \in Client \cup {None}
          /\ msg' \in Kind
          /\ pc' = "dispatch"
          /\ caller' # None => client'[caller'] = "waiting"
      BY <3>1, <3>2, <3>3, <2>1, AcceptTyped
    <3> QED
      BY <3>1, <3>3, <3>4, <2>2 DEF TypeOK, RepliesToCaller, Place, usartVars, irqVars
  <2> QED
    BY <2>3, <2>4
<1>4. CASE InitializeHardware \/ EnableIrq
  BY <1>4 DEF InitializeHardware, EnableIrq, Goto,
              TypeOK, RepliesToCaller, Place, clientVars, irqVars, usartVars
<1>5. CASE ErrorReceived \/ BogusSelector
  BY <1>5 DEF ErrorReceived, BogusSelector, Goto,
              TypeOK, RepliesToCaller, Place, clientVars, irqVars, usartVars
<1>8. CASE WriteDr \/ EnableTxe
  BY <1>8 DEF WriteDr, EnableTxe, Goto,
              TypeOK, RepliesToCaller, Place, clientVars, irqVars, usartVars
<1>9. CASE WaitForTxe
  BY <1>9 DEF WaitForTxe, Goto,
              TypeOK, RepliesToCaller, Place, clientVars, usartVars
<1>10. CASE DisableTxe
  BY <1>10 DEF DisableTxe, Goto,
               TypeOK, RepliesToCaller, Place, clientVars, irqVars, usartVars
<1>11. CASE ReenableIrq
  BY <1>11 DEF ReenableIrq, Goto,
               TypeOK, RepliesToCaller, Place, clientVars, usartVars
<1>6. CASE Shift \/ LineHigh
  BY <1>6 DEF Shift, LineHigh, TypeOK, RepliesToCaller, Place,
              driverVars, clientVars, irqVars, usartVars
<1>7. CASE Trigger
  BY <1>7 DEF Trigger, TypeOK, RepliesToCaller, Place, clientVars, usartVars
<1>12. CASE UNCHANGED vars
  <2>1. /\ UNCHANGED <<pc, caller, msg, client, asked, queue>>
        /\ UNCHANGED <<txe, txeie, te, pending, enabled, irq_waits>>
    BY <1>12 DEF vars, driverVars, clientVars, irqVars, usartVars
  <2> QED
    BY <2>1 DEF TypeOK, RepliesToCaller
<1> QED
  BY <1>1, <1>2, <1>3, <1>4, <1>5, <1>6, <1>7, <1>8, <1>9, <1>10, <1>11, <1>12
     DEF Next, Driver, Hardware

\* The interrupt's part.
LEMMA IrqStep == IInv /\ [Next]_vars => Irq'
<1> SUFFICES ASSUME TypeOK, Irq, [Next]_vars
             PROVE  Irq'
  BY DEF IInv
<1> USE DEF Irq, Quiet
<1>1. ASSUME NEW c \in Client, RequestDelivered(c) \/ RequestBlocks(c)
      PROVE  Irq'
  BY <1>1 DEF RequestDelivered, RequestBlocks, Accept, driverVars, usartVars, irqVars
<1>2. CASE Ipc
  BY <1>2 DEF Ipc, Accept, usartVars, irqVars
<1>3. CASE InitializeHardware \/ EnableIrq \/ ErrorReceived \/ BogusSelector
  BY <1>3 DEF InitializeHardware, EnableIrq, ErrorReceived, BogusSelector, Goto,
              irqVars, usartVars
<1>4. CASE WriteDr \/ EnableTxe
  BY <1>4 DEF WriteDr, EnableTxe, Goto, irqVars
<1>5. CASE WaitForTxe \/ DisableTxe \/ ReenableIrq
  BY <1>5 DEF WaitForTxe, DisableTxe, ReenableIrq, Goto, TypeOK, irqVars, usartVars
<1>6. CASE Hardware
  BY <1>6 DEF Hardware, Shift, LineHigh, Trigger, TypeOK, Place,
              driverVars, irqVars, usartVars
<1>7. CASE UNCHANGED vars
  BY <1>7 DEF vars, driverVars, irqVars, usartVars
<1> QED
  BY <1>1, <1>2, <1>3, <1>4, <1>5, <1>6, <1>7 DEF Next, Driver

\* The inductive invariant holds whatever the clients are.
THEOREM IInvHolds == Spec => []IInv
<1>1. IInv /\ [Next]_vars => IInv'
  BY TypeStep, IrqStep DEF IInv
<1> QED
  BY InitIInv, <1>1, PTL DEF Spec

\* No character is overwritten, and none is reported sent before it is
\* (a/drv/stm32f4/uart/main.cc:84-105).
THEOREM UartCharactersKept == Spec => []CharactersKept
<1>1. IInv => CharactersKept
  BY DEF IInv, Irq, CharactersKept
<1> QED
  BY IInvHolds, <1>1, PTL

\* The driver's wait for an interrupt can end (main.cc:80-104).
THEOREM UartWakeupNotLost == Spec => []WakeupNotLost
<1>1. IInv => WakeupNotLost
  BY DEF IInv, Irq, WakeupNotLost
<1> QED
  BY IInvHolds, <1>1, PTL

\* The driver answers the caller whose character it has sent (main.cc:147-162).
THEOREM UartRepliesToCaller == Spec => [](TypeOK /\ RepliesToCaller)
<1>1. IInv => TypeOK /\ RepliesToCaller
  BY DEF IInv
<1> QED
  BY IInvHolds, <1>1, PTL
=============================================================================
