----------------------------- MODULE MCReceive -----------------------------
(* Small instances of ReceiveService.                                      *)
EXTENDS ReceiveService, TLC

Slots == Permutations(Conn)

(* The names a sender may choose from: "a", with two candidate paths, and  *)
(* one that is another file's part name, with one.  Only the paths the     *)
(* run's names lead to exist in it.                                        *)
Stems == ("a"      :> <<"a", "a (2)">>)
      @@ ("a.part" :> <<"a.part">>)
Parts == ("a" :> "a.part") @@ ("a (2)" :> "a (2).part") @@ ("a.part" :> "a.part.part")
Finals == UNION {{Stems[n][i] : i \in DOMAIN Stems[n]} : n \in FileName}
MCCandidates == [n \in FileName |-> Stems[n]]
MCPartOf == [p \in Finals |-> Parts[p]]
MCPath == Finals \cup {Parts[p] : p \in Finals} \cup {"probe"}

File(id, name, size, digest) == [id |-> id, name |-> name, size |-> size, digest |-> digest]
OneFile == {<<File(1, "a", 1, TRUE)>>}
(* Names that collide through the part suffix.                             *)
Rivals == {<<File(1, "a", 2, FALSE), File(2, "a.part", 1, TRUE)>>}

=============================================================================
