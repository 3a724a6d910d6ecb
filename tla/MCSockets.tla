------------------------------ MODULE MCSockets ------------------------------
(* One connection with everything a peer may send, and two connections, to  *)
(* one server or to two, in orderly exchanges.                              *)
EXTENDS Sockets

AllFlags ==
    {{"SYN", "ACK"}, {"ACK", "PSH"}, {"ACK"}, {"FIN", "ACK"}, {"SYN"}, {"RST"}, {"RST", "ACK"}}
=============================================================================
