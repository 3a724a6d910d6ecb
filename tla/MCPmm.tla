------------------------------- MODULE MCPmm -------------------------------
(* A machine of sixteen pages: kernel 3..4, paging region 5..6, a module, a  *)
(* framebuffer page, and memory maps with a hole, an entry that reaches the  *)
(* top of the address space and one beyond it.                               *)
EXTENDS Pmm

MCBoots ==
    LET Usable(b, n) == [base |-> b, length |-> n, type |-> 1]
        Hole(b, n) == [base |-> b, length |-> n, type |-> 2]
    IN  {[mmap |-> m, info |-> 1, modtable |-> 1, modules |-> {7}, fb |-> f] :
            m \in { {Usable(0, 16), Usable(17, 2)},
                    {Usable(0, 10), Hole(10, 1), Usable(11, 5)},
                    {Usable(0, 13), Hole(13, 3)} },
            f \in { {}, {9} } }
=============================================================================
