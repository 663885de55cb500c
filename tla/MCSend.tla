------------------------------- MODULE MCSend -------------------------------
(* Small instances of SendService.                                         *)
EXTENDS SendService

Picked(id, name, size) == [id |-> id, name |-> name, size |-> size, digest |-> FALSE]
(* One file; three, one of them empty.                                     *)
MCSelections == {<<Picked(1, "a", 1)>>,
                 <<Picked(1, "a", 1), Picked(2, "b", 0), Picked(3, "c", 2)>>}
MCSourceOf == [n \in FileName |-> n]

=============================================================================
