---------------------------- MODULE DeviceModel ----------------------------
(***************************************************************************)
(* The list of nearby devices (devicemodel.cpp): one row per fingerprint,  *)
(* sorted by alias, with a cap.  Its methods are operators from the old    *)
(* list to the new one.  Addresses and ports are left out: nothing here    *)
(* depends on them.                                                        *)
(***************************************************************************)
EXTENDS Integers, Sequences, SequencesExt

CONSTANTS Fingerprint,  \* numbers, ordered as the code orders the strings
          Alias,        \* names as they are written
          Fold,         \* name -> its rank when case is ignored
          MaxDevices,   \* cap on the rows
          MaxAge        \* DeviceMaxAgeSeconds, in units of time

ASSUME DeviceAssumption ==
    /\ Fingerprint \subseteq Nat
    /\ Fold \in [Alias -> Nat]
    /\ MaxDevices \in Nat \ {0} /\ MaxAge \in Nat

(* age is the time since the device was last heard of; beyond MaxAge all   *)
(* ages are alike.                                                         *)
Age == 0..(MaxAge + 1)
Device == [fingerprint : Fingerprint, alias : Alias, age : Age]
NewDevice(fp, alias) == [fingerprint |-> fp, alias |-> alias, age |-> 0]

Fingerprints(list) == {list[i].fingerprint : i \in DOMAIN list}

(* The row with a fingerprint; 0 stands for -1.                            *)
indexOfFingerprint(list, fp) ==
    SelectInSeq(list, LAMBDA d : d.fingerprint = fp)

(* e is sorted behind d: by name without case, then by fingerprint.        *)
Behind(e, d) == \/ Fold[e.alias] > Fold[d.alias]
                \/ Fold[e.alias] = Fold[d.alias] /\ e.fingerprint > d.fingerprint

(* Before the first row that is sorted behind d, or at the end.            *)
insertionPoint(list, d) ==
    LET i == SelectInSeq(list, LAMBDA e : Behind(e, d))
    IN  IF i = 0 THEN Len(list) + 1 ELSE i
Inserted(list, d) == InsertAt(list, insertionPoint(list, d), d)

remove(list, fp) ==
    LET row == indexOfFingerprint(list, fp)
    IN  IF row = 0 THEN list ELSE RemoveAt(list, row)

(* upsert(): a blocked device goes; a known row is refreshed, or moved if  *)
(* its name changed; a new one is added unless the list is full.           *)
RenameInPlace(list, d, blocked) ==   \* a slip: a renamed row is not moved
    LET row == indexOfFingerprint(list, d.fingerprint)
    IN  IF d.fingerprint \in blocked THEN remove(list, d.fingerprint)
        ELSE IF row # 0 THEN ReplaceAt(list, row, d)
        ELSE IF Len(list) >= MaxDevices THEN list
        ELSE Inserted(list, d)
upsert(list, d, blocked) ==
    LET row == indexOfFingerprint(list, d.fingerprint)
    IN  IF d.fingerprint \in blocked THEN remove(list, d.fingerprint)
        ELSE IF row # 0
             THEN IF list[row].alias # d.alias
                  THEN Inserted(RemoveAt(list, row), d)
                  ELSE ReplaceAt(list, row, d)
        ELSE IF Len(list) >= MaxDevices THEN list
        ELSE Inserted(list, d)

(* prune(): from the last row to the first, who went quiet goes; left[n]   *)
(* is the list once n rows have been looked at.                            *)
prune(list) ==
    LET left[n \in 0..Len(list)] ==
            IF n = 0 THEN list
            ELSE LET row == Len(list) - n + 1
                     rows == left[n - 1]
                 IN  IF rows[row].age <= MaxAge THEN rows ELSE RemoveAt(rows, row)
    IN  left[Len(list)]

(* Time passes.                                                            *)
Older(list) ==
    [i \in DOMAIN list |->
        [list[i] EXCEPT !.age = IF @ > MaxAge THEN @ ELSE @ + 1]]

=============================================================================
