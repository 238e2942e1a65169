------------------------------- MODULE KMessages -------------------------------
(***************************************************************************)
(* The brand a receiver is told.  Key::deliver_from passes its brand by    *)
(* reference, into the key register the sender named, and                  *)
(* complete_blocked_receive reads it when the sender's on_delivery is over *)
(* and with it the sender's receive phase.  The kernel's steps, with that  *)
(* reference and what was read through it.                                 *)
(*                                                                         *)
(* A sender that had to block has its brand copied (block_in_send), as has *)
(* an Interrupt; kernel objects of this model do not look at the brand     *)
(* after they have taken the message (a Memory does: KMemory).             *)
(***************************************************************************)
EXTENDS KernelProperties

VARIABLES
  lent,           \* the register a brand is read from once receiving is done,
                  \* and the brand it had when the message was sent
  told            \* the last message so delivered: the brand of the key it was
                  \* sent through, and the brand its receiver has in r10, r11

NotLent == [by |-> NoContext, reg |-> 0, brand |-> NoBrand]

\* A message goes to a waiting receiver with a reference into l.by's register
\* l.reg.  The receiver is told what is there when no receive phase is ahead.
Delivering(l) ==
  IF phase' = "receive"
  THEN lent' = l /\ UNCHANGED told
  ELSE /\ lent' = NotLent
       /\ told' = [sent |-> l.brand, read |-> keys'[l.by][l.reg].brand]

\* The kernel's steps that lend no brand and end no receive phase of one that
\* did.
OtherStep ==
  \/ \E d \in Descriptor :
       \/ BeginReceive(d) \/ BeginNothing(d) \/ SendReply(d)
       \/ SendToService(d) \/ BlockInSend(d) \/ RefuseToBlock(d)
  \/ \E to, from \in Reg : CopyKey(to, from)
  \/ lent = NotLent /\ ReceiveStep
  \/ ServeStep \/ ReplyStep
  \/ DoDeferredSwitch \/ DoDeferredSwitchFromIrq \/ SwitchAfterInterrupt
  \/ \E i \in Interrupt : DeviceRaises(i) \/ Irq(i)

MessagesNext ==
  \/ \E d \in Descriptor :
       /\ SendToReceiver(d)
       /\ Delivering([by |-> current, reg |-> d.target, brand |-> TargetKey(d).brand])
  \/ lent # NotLent /\ ReceiveStep /\ Delivering(lent)
  \/ OtherStep /\ UNCHANGED <<lent, told>>

MessagesInit ==
  /\ Init
  /\ lent = NotLent
  /\ told = [sent |-> NoBrand, read |-> NoBrand]

MessagesSpec == MessagesInit /\ [][MessagesNext]_<<vars, lent, told>>

-----------------------------------------------------------------------------
\* "The brand of the Gate key used to send the message, in r10/r11": what a
\* receiver is told is the brand of the key its message was sent through,
\* whatever the sender has received in the meantime.
BrandOfKeyUsed == told.read = told.sent
=============================================================================
