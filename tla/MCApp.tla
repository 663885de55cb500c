------------------------------- MODULE MCApp -------------------------------
(* Small instances of App.                                                 *)
EXTENDS App, TLC

MCCandidates == [n \in FileName |-> <<n>>]
MCPartOf == [n \in FileName |-> n \o ".part"]
MCPath == FileName \cup {MCPartOf[n] : n \in FileName} \cup {"probe"}
MCSourceOf == [n \in FileName |-> n]

File(id, name, size) == [id |-> id, name |-> name, size |-> size, digest |-> FALSE]
(* Two files of theirs under one name and a larger one of ours: each list  *)
(* may take the place of the other, the shorter of the longer.             *)
TwoOfTheirs == {<<File(1, "a", 1), File(2, "a", 1)>>}
OneOfOurs == {<<File(3, "a", 2)>>}
(* Two and two.                                                            *)
TheirFiles == {<<File(1, "a", 1), File(2, "b", 1)>>}
OurFiles == {<<File(3, "a", 1), File(4, "b", 1)>>}

=============================================================================
