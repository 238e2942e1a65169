-------------------------------- MODULE MCSim --------------------------------
(***************************************************************************)
(* The server under every test of any length, with three names for keys.   *)
(***************************************************************************)
EXTENDS SimUart

MCKeyIndex == {k0, 1, k_saved_reply, k_flush_reply, k_reg}
=============================================================================
