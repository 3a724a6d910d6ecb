-------------------------------- MODULE MCIpc --------------------------------
(* Two programs one after the other, two different messages.               *)
EXTENDS Ipc

=============================================================================
