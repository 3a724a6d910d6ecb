----------------------------- MODULE FileStore -----------------------------
(***************************************************************************)
(* What a store of files promises: a write changes the bytes it covers, a  *)
(* truncation cuts or extends the end, and every other byte of every file  *)
(* stays as it is.  Bytes that nobody has written may be anything.         *)
(***************************************************************************)
EXTENDS Naturals, Sequences

CONSTANTS Name, Value, Absent

VARIABLE files  \* for each name, its bytes, or Absent

Init == files = [n \in Name |-> Absent]

Create(n) ==
    /\ files[n] = Absent
    /\ files' = [files EXCEPT ![n] = <<>>]

\* The bytes of n outside the written range, as far as both versions have them.
KeptOutside(n, first, last) ==
    \A i \in DOMAIN files[n] \cap DOMAIN files'[n] :
        i \in first .. last \/ files'[n][i] = files[n][i]

Write(n, first, last, v) ==
    /\ Len(files'[n]) = IF last > Len(files[n]) THEN last ELSE Len(files[n])
    /\ \A i \in first .. last : files'[n][i] = v
    /\ KeptOutside(n, first, last)

Truncate(n) == KeptOutside(n, 1, 0)

Next ==
    \E n \in Name :
        \/ Create(n)
        \/ /\ files[n] # Absent /\ files'[n] # Absent
           /\ files' = [files EXCEPT ![n] = files'[n]]
           /\ \/ Truncate(n)
              \/ \E last \in 1 .. Len(files'[n]) : \E first \in 1 .. last, v \in Value :
                     Write(n, first, last, v)

Spec == Init /\ [][Next]_files

=============================================================================
