------------------------------ MODULE MCStack ------------------------------
(* Two servers with a lease each, short waits and a cache of two entries.    *)
EXTENDS Stack

=============================================================================
