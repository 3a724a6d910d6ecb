-------------------------------- MODULE MCDns --------------------------------
(* Every zone over three names.  A short MAX_LOOP_COUNT makes the counter   *)
(* matter within the bound on responses.                                    *)
EXTENDS Dns

=============================================================================
