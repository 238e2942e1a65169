------------------------------- MODULE MCUart -------------------------------
(***************************************************************************)
(* Two ascii servers and a program that sends anything, on one driver.     *)
(***************************************************************************)
EXTENDS UartDriver

CONSTANTS a1, a2, c1
MCClient == {a1, a2, c1}
MCAscii  == {a1, a2}
=============================================================================
