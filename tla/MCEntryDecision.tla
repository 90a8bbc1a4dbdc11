------------------------ MODULE MCEntryDecision ------------------------
(* A chain of four strikes, five and ten dollars apart. *)
EXTENDS EntryDecision

FourStrikes == [k \in 1..4 |-> <<500000, 500500, 501000, 502000>>[k]]
=======================================================================
