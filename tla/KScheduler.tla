------------------------------ MODULE KScheduler ------------------------------
(***************************************************************************)
(* The Context scheduler, k/scheduler.cc.                                  *)
(***************************************************************************)
EXTENDS KernelState

\* switch_now: the head of the run queue gets the processor.
SwitchNow ==
  IF IsEmpty(runnable)
  THEN Panic("no runnable Contexts") /\ UNCHANGED current
  ELSE current' = Peek(runnable) /\ phase' = "user" /\ UNCHANGED panicked

\* do_deferred_switch, on the way out of a system call.
DoDeferredSwitch ==
  /\ phase = "exit"
  /\ switchPending' = FALSE
  /\ \/ switchPending /\ SwitchNow
     \/ ~ switchPending /\ phase' = "user" /\ UNCHANGED <<current, panicked>>
  /\ UNCHANGED <<contextVars, runnable, pendsv, gateVars, generation, irqVars,
                 rx, src, job, reply>>

\* A faulty do_deferred_switch_from_irq: it does not return unless a switch is
\* pending.
DoDeferredSwitchFromIrqFault ==
  /\ phase = "irqexit"
  /\ switchPending
  /\ switchPending' = FALSE
  /\ pendsv' = TRUE
  /\ phase' = "user"
  /\ UNCHANGED <<contextVars, runnable, current, gateVars, generation, irqVars,
                 rx, src, job, reply, panicked>>

\* do_deferred_switch_from_irq: an ISR cannot switch, so it pends PendSV.
DoDeferredSwitchFromIrq ==
  /\ phase = "irqexit"
  /\ switchPending' = FALSE
  /\ pendsv' = (pendsv \/ switchPending)
  /\ phase' = "user"
  /\ UNCHANGED <<contextVars, runnable, current, gateVars, generation, irqVars,
                 rx, src, job, reply, panicked>>

\* switch_after_interrupt, the PendSV handler.  It does not look at
\* switch_pending.
SwitchAfterInterrupt ==
  /\ phase = "user"
  /\ pendsv
  /\ pendsv' = FALSE
  /\ SwitchNow
  /\ UNCHANGED <<contextVars, runnable, switchPending, gateVars, generation,
                 irqVars, rx, src, job, reply>>
=============================================================================
