---------------------------- MODULE MCDiscovery -----------------------------
(* Small instances of Discovery.                                           *)
EXTENDS Discovery

(* Two spellings of one name and another name.                             *)
MCFold == [alias \in Alias |-> IF alias = "b" THEN 2 ELSE 1]

(* A network on which devices come and go, one under our other name; one   *)
(* on which a device announces itself from two addresses; and one that is  *)
(* silent until it is asked.                                               *)
Lively == [ours |-> {0, 1}, heard |-> {0, 1, 2}, names |-> {"a", "A", "b"},
           senders |-> {"x"}, targets |-> {}, typed |-> {}]
Noisy == [ours |-> {0}, heard |-> {0, 1}, names |-> {"a"},
          senders |-> {"x", "y"}, targets |-> {}, typed |-> {}]
Silent == [ours |-> {0}, heard |-> {1}, names |-> {"a"},
           senders |-> {}, targets |-> {0, 3}, typed |-> {"e", "f"}]
MCNetworks == {Lively, Noisy, Silent}

=============================================================================
