---------------------------- MODULE StoreProofs ----------------------------
(***************************************************************************)
(* What the application keeps across runs, proved for every number of      *)
(* peers, names, records, launches, operations, keystore outages and       *)
(* failed writes.  The inductive invariant IInv says, beside the types,    *)
(* what holds BETWEEN the steps the process may be killed at: which of the *)
(* two identity files may be missing, under which key the files are, and   *)
(* that the files alone, without what memory holds, answer to what the     *)
(* user did.                                                               *)
(***************************************************************************)
EXTENDS Store, FiniteSetTheorems, SequenceTheorems, TLAPS

-----------------------------------------------------------------------------
(* Types.                                                                  *)

Files == {"cert", "key", "history", "known"}
EntryType == [alias : Name \cup {NoName}, paired : BOOLEAN, blocked : BOOLEAN]
SpentType == [starts : Nat, ops : Nat, outages : Nat, losses : Nat, pairs : Nat]
Logs == {s \in Seq(Nat) : Len(s) <= MaxRecords}
IsCatalogue(k) ==
    /\ k = [p \in DOMAIN k |-> k[p]]
    /\ DOMAIN k \subseteq Peer
    /\ \A p \in DOMAIN k : k[p] \in EntryType

MemoryType ==
    /\ pc \in {"down", "ensure", "remove1", "remove2", "write1", "write2", "loading", "running"}
    /\ secret \in Nat /\ mkey \in Nat
    /\ secure \in BOOLEAN /\ loaded \in BOOLEAN
    /\ me \in [cert : Nat, key : Nat]
    /\ log \in Logs
    /\ IsCatalogue(known)
    /\ spent \in SpentType

GhostType ==
    /\ shown \subseteq Nat
    /\ blocks \subseteq Peer /\ dubbed \subseteq Peer
    /\ met \in [Peer -> Name \cup {NoName}]

DiskType ==
    /\ DOMAIN disk = Files
    /\ \A f \in Files : disk[f].under \in Int
    /\ Exists(disk.cert) => disk.cert.data \in Nat
    /\ Exists(disk.key) => disk.key.data \in Nat
    /\ Exists(disk.history) => disk.history.data \in Logs
    /\ Exists(disk.known) => IsCatalogue(Entries(disk.known.data))

-----------------------------------------------------------------------------
(* The identity.  A certificate is never on disk without its key, and what *)
(* is between the two writes is a key alone.                               *)
PairOnDisk ==
    /\ Exists(disk.cert) => Exists(disk.key) /\ disk.cert.data = disk.key.data
    /\ pc \in {"remove2", "write1", "write2"} => ~Exists(disk.cert)
    /\ pc = "write2" => Exists(disk.key) /\ disk.key.data = spent.pairs

(* While the keystore answers, every file is plain or under its key, and   *)
(* the certificate peers have seen is the one on disk.                     *)
KeyHeld ==
    KeystoreHeld =>
        /\ mkey = IF pc = "down" THEN 0 ELSE secret
        /\ \A f \in Files : disk[f].under \in {-1, 0, secret}
        /\ pc \notin {"remove1", "remove2"}
        /\ shown # {} => Exists(disk.cert) /\ shown = {disk.cert.data}

(* Log and catalogue as the files have them, and what memory made of them. *)
LogOnDisk == IF Exists(disk.history) THEN disk.history.data ELSE <<>>
KnownOnDisk == IF Exists(disk.known) THEN Entries(disk.known.data) ELSE NoEntries
MemoryIsDisk ==
    /\ pc = "running" => loaded
    /\ pc \in {"down", "loading"} => ~loaded
    /\ loaded /\ NothingFailed => log = LogOnDisk /\ known = KnownOnDisk

(* What the files say of a peer is what the user did to it.                *)
In(k, p) == IF p \in DOMAIN k THEN k[p] ELSE NoEntry
Faithful(k) ==
    \A p \in Peer :
        /\ In(k, p).blocked <=> p \in blocks
        /\ In(k, p).paired <=> met[p] # NoName
        /\ met[p] # NoName /\ p \notin dubbed => In(k, p).alias = met[p]
DiskIsFaithful == NothingFailed => Faithful(KnownOnDisk)

IInv == /\ MemoryType /\ GhostType /\ DiskType
        /\ IdentityIsAPair /\ PairOnDisk /\ KeyHeld
        /\ MemoryIsDisk /\ DiskIsFaithful

-----------------------------------------------------------------------------
(* The operators.                                                          *)

(* A catalogue with its flags reads back as it was written, which is what  *)
(* load() after save() comes to.                                           *)
LEMMA EntriesOfCatalogue ==
    ASSUME NEW k, IsCatalogue(k)
    PROVE  Entries(k) = k
<1>1. \A p \in DOMAIN k : Flagged(k[p])
  BY DEF IsCatalogue, EntryType, Flagged
<1>2. Entries(k) = [p \in DOMAIN k |-> k[p]]
  BY <1>1 DEF Entries
<1> QED BY <1>2 DEF IsCatalogue

(* The empty catalogue is one.                                             *)
LEMMA NoEntriesOK == IsCatalogue(NoEntries)
BY DEF IsCatalogue, NoEntries

(* One from before blocking, read by load(), is one of pairings.           *)
LEMMA LegacyEntries ==
    ASSUME NEW p \in Peer, NEW n \in Name
    PROVE  /\ IsCatalogue(Entries(Legacy(p, n)))
           /\ Entries(Legacy(p, n)) =
                 [q \in {p} |-> [alias |-> n, paired |-> TRUE, blocked |-> FALSE]]
<1>1. ~Flagged([alias |-> n])
  BY DEF Flagged
<1>2. Entries(Legacy(p, n)) =
         [q \in {p} |-> [alias |-> n, paired |-> TRUE, blocked |-> FALSE]]
  BY <1>1 DEF Entries, Legacy
<1>3. [alias |-> n, paired |-> TRUE, blocked |-> FALSE] \in EntryType
  BY DEF EntryType
<1> QED BY <1>2, <1>3 DEF IsCatalogue

(* What the log becomes stays within its limit.                            *)
LEMMA LogOperations ==
    ASSUME NEW l \in Logs, NEW r \in Nat
    PROVE  /\ <<>> \in Logs
           /\ LET longer == <<r>> \o l
              IN  (IF Len(longer) > MaxRecords THEN SubSeq(longer, 1, MaxRecords)
                   ELSE longer) \in Logs
           /\ \A row \in 1..Len(l) : RemoveAt(l, row) \in Logs
<1> USE StoreAssumption
<1>1. l \in Seq(Nat) /\ Len(l) \in Nat /\ Len(l) <= MaxRecords /\ MaxRecords \in Nat
  BY DEF Logs
<1>2. <<>> \in Logs
  BY DEF Logs
<1>3. LET longer == <<r>> \o l
      IN  (IF Len(longer) > MaxRecords THEN SubSeq(longer, 1, MaxRecords)
           ELSE longer) \in Logs
  <2> DEFINE longer == <<r>> \o l
  <2>1. longer \in Seq(Nat) /\ Len(longer) = Len(l) + 1
    BY <1>1
  <2> HIDE DEF longer
  <2>2. CASE Len(longer) > MaxRecords
    <3>1. SubSeq(longer, 1, MaxRecords) \in Seq(Nat) /\ Len(SubSeq(longer, 1, MaxRecords)) = MaxRecords
      BY <1>1, <2>1, <2>2
    <3> QED BY <1>1, <2>2, <3>1 DEF Logs, longer
  <2>3. CASE ~(Len(longer) > MaxRecords)
    BY <1>1, <2>1, <2>3 DEF Logs, longer
  <2> QED BY <2>2, <2>3
<1>4. ASSUME NEW row \in 1..Len(l)
      PROVE  RemoveAt(l, row) \in Logs
  <2>1. SubSeq(l, 1, row - 1) \in Seq(Nat) /\ Len(SubSeq(l, 1, row - 1)) = row - 1
    BY <1>1
  <2>2. SubSeq(l, row + 1, Len(l)) \in Seq(Nat) /\ Len(SubSeq(l, row + 1, Len(l))) = Len(l) - row
    BY <1>1
  <2>3. RemoveAt(l, row) \in Seq(Nat) /\ Len(RemoveAt(l, row)) = Len(l) - 1
    <3> DEFINE before == SubSeq(l, 1, row - 1)
               after == SubSeq(l, row + 1, Len(l))
    <3>1. before \in Seq(Nat) /\ Len(before) = row - 1
      BY <2>1
    <3>2. after \in Seq(Nat) /\ Len(after) = Len(l) - row
      BY <2>2
    <3> HIDE DEF before, after
    <3>3. before \o after \in Seq(Nat) /\ Len(before \o after) = Len(before) + Len(after)
      BY <3>1, <3>2, ConcatProperties
    <3>4. Len(before \o after) = Len(l) - 1
      BY <1>1, <3>1, <3>2, <3>3
    <3> QED BY <3>3, <3>4 DEF RemoveAt, before, after
  <2> QED BY <1>1, <2>3 DEF Logs
<1> QED BY <1>2, <1>3, <1>4

(* value() is an entry, and so is what the operations make of it.          *)
LEMMA ValueType ==
    ASSUME IsCatalogue(known), NEW p \in Peer, NEW n \in Name
    PROVE  /\ value(p) \in EntryType
           /\ Blocked(p, n) \in EntryType /\ Remembered(p, n) \in EntryType
           /\ [value(p) EXCEPT !.blocked = FALSE] \in EntryType
           /\ Blocked(p, n).alias = n /\ Remembered(p, n).alias = n
           /\ Blocked(p, n).paired = value(p).paired /\ Remembered(p, n).paired = TRUE
           /\ Blocked(p, n).blocked = TRUE /\ Remembered(p, n).blocked = value(p).blocked
           /\ [value(p) EXCEPT !.blocked = FALSE].alias = value(p).alias
           /\ [value(p) EXCEPT !.blocked = FALSE].paired = value(p).paired
           /\ [value(p) EXCEPT !.blocked = FALSE].blocked = FALSE
<1>1. value(p) \in EntryType
  BY DEF value, IsCatalogue, NoEntry, EntryType
<1> QED BY <1>1 DEF Blocked, Remembered, EntryType

LEMMA PutOK ==
    ASSUME IsCatalogue(known), NEW p \in Peer, NEW e \in EntryType
    PROVE  /\ IsCatalogue(Put(p, e))
           /\ \A q \in Peer : In(Put(p, e), q) = IF q = p THEN e ELSE In(known, q)
BY DEF IsCatalogue, Put, In

LEMMA ForgottenOK ==
    ASSUME IsCatalogue(known), NEW ps \in SUBSET Peer
    PROVE  /\ IsCatalogue(Forgotten(ps))
           /\ \A q \in Peer : In(Forgotten(ps), q) =
                 IF q \in ps THEN IF In(known, q).blocked THEN OnlyBlock ELSE NoEntry
                 ELSE In(known, q)
<1>1. OnlyBlock \in EntryType
  BY DEF OnlyBlock, NoEntry, EntryType
<1>2. IsCatalogue(Forgotten(ps))
  BY <1>1 DEF IsCatalogue, Forgotten
<1>3. ASSUME NEW q \in Peer
      PROVE  In(Forgotten(ps), q) =
                 IF q \in ps THEN IF In(known, q).blocked THEN OnlyBlock ELSE NoEntry
                 ELSE In(known, q)
  BY DEF In, Forgotten, NoEntry
<1> QED BY <1>2, <1>3

-----------------------------------------------------------------------------
(* The steps.                                                              *)

LEMMA InitOK == Init => IInv
<1> SUFFICES ASSUME Init PROVE IInv
  OBVIOUS
<1> USE StoreAssumption
<1>1. <<>> \in Logs /\ IsCatalogue(NoEntries)
  BY NoEntriesOK DEF Logs
<1>2. CASE /\ disk = [f \in {"cert", "key", "history", "known"} |-> NoFile]
           /\ shown = {} /\ spent = Unspent(0)
           /\ met = [p \in Peer |-> NoName]
  <2>1. DOMAIN disk = Files /\ \A f \in Files : disk[f] = NoFile /\ disk[f].under = -1
    BY <1>2 DEF Files, NoFile
  <2>2. ~Exists(disk.cert) /\ ~Exists(disk.key) /\ ~Exists(disk.history) /\ ~Exists(disk.known)
    BY <2>1 DEF Files, Exists
  <2>3. MemoryType /\ GhostType
    BY <1>1, <1>2 DEF Init, MemoryType, GhostType, SpentType, Unspent, NoIdentity
  <2>4. DiskType
    BY <2>1, <2>2 DEF DiskType
  <2>5. IdentityIsAPair /\ PairOnDisk
    BY <2>2 DEF Init, IdentityIsAPair, NoIdentity, PairOnDisk
  <2>6. KeyHeld
    BY <1>2, <2>1 DEF Init, KeyHeld
  <2>7. MemoryIsDisk
    BY DEF Init, MemoryIsDisk
  <2>8. DiskIsFaithful
    BY <1>2, <2>2 DEF Init, DiskIsFaithful, Faithful, KnownOnDisk, In, NoEntries, NoEntry
  <2> QED BY <2>3, <2>4, <2>5, <2>6, <2>7, <2>8 DEF IInv
<1>3. ASSUME NEW p \in Peer, NEW n \in Name,
             disk = [cert |-> Plain(1), key |-> Plain(1), history |-> Plain(<<>>),
                     known |-> Plain(Legacy(p, n))],
             shown = {1}, spent = Unspent(1),
             met = [q \in Peer |-> IF q = p THEN n ELSE NoName]
      PROVE  IInv
  <2>1. DOMAIN disk = Files /\ \A f \in Files : disk[f].under = 0
    BY <1>3 DEF Files, Plain
  <2>2. /\ disk.cert.data = 1 /\ disk.key.data = 1 /\ disk.history.data = <<>>
        /\ disk.known.data = Legacy(p, n)
    BY <1>3 DEF Plain
  <2>3. Exists(disk.cert) /\ Exists(disk.key) /\ Exists(disk.history) /\ Exists(disk.known)
    BY <2>1 DEF Files, Exists
  <2>4. MemoryType
    BY <1>1, <1>3 DEF Init, MemoryType, SpentType, Unspent, NoIdentity
  <2>40. GhostType
    BY <1>3 DEF Init, GhostType
  <2>5. DiskType
    <3>1. IsCatalogue(Entries(disk.known.data))
      BY <2>2, LegacyEntries
    <3> QED BY <1>1, <2>1, <2>2, <3>1 DEF DiskType
  <2>6. IdentityIsAPair /\ PairOnDisk
    BY <2>2, <2>3 DEF Init, IdentityIsAPair, NoIdentity, PairOnDisk
  <2>7. KeyHeld
    BY <1>3, <2>1, <2>2, <2>3 DEF Init, KeyHeld
  <2>8. MemoryIsDisk
    BY DEF Init, MemoryIsDisk
  <2>9. DiskIsFaithful
    <3>1. KnownOnDisk = [q \in {p} |-> [alias |-> n, paired |-> TRUE, blocked |-> FALSE]]
      BY <2>2, <2>3, LegacyEntries DEF KnownOnDisk
    <3> QED BY <1>3, <3>1 DEF Init, DiskIsFaithful, Faithful, In, NoEntry
  <2> QED BY <2>4, <2>40, <2>5, <2>6, <2>7, <2>8, <2>9 DEF IInv
<1> QED BY <1>2, <1>3 DEF Init

(* A write leaves the other files alone and the one written readable.      *)
LEMMA WriteOK ==
    ASSUME DiskType, mkey \in Nat, NEW file \in Files, NEW data, Write(file, data)
    PROVE  /\ DOMAIN disk' = Files
           /\ disk'[file].under = mkey /\ disk'[file].data = data
           /\ Exists(disk'[file])
           /\ \A f \in Files \ {file} : disk'[f] = disk[f]
<1>1. disk' = [disk EXCEPT ![file] = [under |-> mkey, data |-> data]] /\ DOMAIN disk = Files
  BY DEF DiskType, Write, Sealed
<1>2. disk'[file] = [under |-> mkey, data |-> data]
  BY <1>1
<1>3. disk'[file].under = mkey /\ disk'[file].data = data
  BY <1>2
<1> QED BY <1>1, <1>3 DEF Exists

(* open(), whatever key it came back with: the files are as they were.     *)
LEMMA OpenedOK ==
    ASSUME IInv, NEW key \in Nat, NEW s \in Nat,
           Opened(key), secret' = s,
           spent' \in SpentType,
           spent'.pairs = spent.pairs, spent'.losses = spent.losses,
           spent'.outages = 0 => /\ spent.outages = 0 /\ key = s
                                 /\ secret = 0 \/ secret = s
    PROVE  IInv'
<1>1. /\ pc = "down" /\ pc' \in {"ensure", "loading"} /\ mkey' = key
      /\ UNCHANGED <<disk, secure, me, log, known, loaded, shown, blocks, met, dubbed>>
  BY DEF Opened, ghosts
<1>2. MemoryType'
  BY <1>1 DEF IInv, MemoryType, IsCatalogue
<1>3. GhostType' /\ DiskType' /\ IdentityIsAPair'
  BY <1>1 DEF IInv, GhostType, DiskType, IdentityIsAPair
<1>4. PairOnDisk'
  BY <1>1 DEF IInv, PairOnDisk
<1>5. KeyHeld'
  BY <1>1 DEF IInv, KeyHeld, KeystoreHeld
<1>6. ~loaded /\ MemoryIsDisk'
  BY <1>1 DEF IInv, MemoryIsDisk
<1>7. DiskIsFaithful'
  <2>1. NothingFailed' => NothingFailed
    BY DEF NothingFailed
  <2>2. KnownOnDisk' = KnownOnDisk
    BY <1>1 DEF KnownOnDisk
  <2> QED BY <1>1, <2>1, <2>2 DEF IInv, DiskIsFaithful, Faithful
<1> QED BY <1>2, <1>3, <1>4, <1>5, <1>6, <1>7 DEF IInv

LEMMA KeySteps == IInv /\ (KeyAnswered \/ KeystoreFails) => IInv'
<1> SUFFICES ASSUME IInv, KeyAnswered \/ KeystoreFails PROVE IInv'
  OBVIOUS
<1>0. /\ secret \in Nat
      /\ spent \in SpentType
  BY DEF IInv, MemoryType
<1>1. CASE KeyAnswered
  <2> DEFINE key == IF secret = 0 THEN 1 ELSE secret
  <2>1. Opened(key) /\ secret' = key
    BY <1>1 DEF KeyAnswered, Opened
  <2>2. spent' = [spent EXCEPT !.starts = @ + 1]
    BY <1>1 DEF KeyAnswered, Spend
  <2>3. /\ spent' \in SpentType
        /\ spent'.pairs = spent.pairs /\ spent'.losses = spent.losses
        /\ spent'.outages = spent.outages
    BY <1>0, <2>2 DEF SpentType
  <2>4. key \in Nat /\ (secret = 0 \/ secret = key)
    BY <1>0
  <2> HIDE DEF key
  <2> QED BY <2>1, <2>3, <2>4, OpenedOK
<1>2. CASE KeystoreFails
  <2>1. spent' = [spent EXCEPT !.starts = @ + 1, !.outages = @ + 1]
    BY <1>2 DEF KeystoreFails
  <2>2. /\ spent' \in SpentType
        /\ spent'.pairs = spent.pairs /\ spent'.losses = spent.losses
        /\ spent'.outages # 0
    <3>1. spent.starts + 1 \in Nat /\ spent.outages + 1 \in Nat /\ spent.outages + 1 # 0
      BY <1>0 DEF SpentType
    <3>2. /\ spent'.pairs = spent.pairs /\ spent'.losses = spent.losses
          /\ spent'.outages = spent.outages + 1
      BY <1>0, <2>1 DEF SpentType
    <3>3. spent' \in SpentType
      BY <1>0, <2>1, <3>1 DEF SpentType
    <3> QED BY <3>1, <3>2, <3>3
  <2>3. \E key \in Nat, s \in Nat : Opened(key) /\ secret' = s
    BY <1>0, <1>2 DEF KeystoreFails, Opened
  <2> QED BY <2>2, <2>3, OpenedOK
<1> QED BY <1>1, <1>2

(* load(): a pair on disk that can be read is a pair.                      *)
LEMMA LoadStep == IInv /\ Load => IInv'
<1> SUFFICES ASSUME IInv, Load PROVE IInv'
  OBVIOUS
<1>0. /\ pc = "ensure"
      /\ pc' \in {"remove1", "write1", "running", "loading"}
      /\ UNCHANGED <<secret, mkey, disk, secure, log, known, loaded, blocks, met, dubbed, spent>>
      /\ \/ /\ Readable(disk.cert) /\ Readable(disk.key)
            /\ pc' = IF loaded THEN "running" ELSE "loading"
            /\ me' = [cert |-> disk.cert.data, key |-> disk.key.data]
            /\ shown' = shown \cup {disk.cert.data}
         \/ /\ pc' = "remove1" /\ me' = me /\ shown' = shown
            /\ Exists(disk.cert) /\ Exists(disk.key)
            /\ ~(Readable(disk.cert) /\ Readable(disk.key))
         \/ /\ pc' = "write1" /\ me' = me /\ shown' = shown
            /\ ~(Exists(disk.cert) /\ Exists(disk.key))
  BY DEF Load, Present, Return
<1>1. /\ MemoryType /\ GhostType /\ DiskType /\ IdentityIsAPair /\ PairOnDisk
      /\ KeyHeld /\ MemoryIsDisk /\ DiskIsFaithful
  BY DEF IInv
<1>2. Readable(disk.cert) => Exists(disk.cert) /\ Exists(disk.key) /\ disk.cert.data \in Nat
                             /\ disk.key.data = disk.cert.data
  BY <1>1 DEF PairOnDisk, DiskType, Readable
<1>3. MemoryType'
  <2>1. me' \in [cert : Nat, key : Nat]
    BY <1>0, <1>1, <1>2 DEF MemoryType
  <2> QED BY <1>0, <1>1, <2>1 DEF MemoryType, IsCatalogue
<1>4. GhostType'
  BY <1>0, <1>1, <1>2 DEF GhostType
<1>5. DiskType'
  BY <1>0, <1>1 DEF DiskType
<1>6. IdentityIsAPair'
  BY <1>0, <1>1, <1>2 DEF IdentityIsAPair
<1>7. PairOnDisk'
  BY <1>0, <1>1 DEF PairOnDisk
<1>8. KeyHeld'
  <2> SUFFICES ASSUME KeystoreHeld
               PROVE  /\ mkey' = IF pc' = "down" THEN 0 ELSE secret'
                      /\ \A f \in Files : disk'[f].under \in {-1, 0, secret'}
                      /\ pc' \notin {"remove1", "remove2"}
                      /\ shown' # {} => Exists(disk'.cert) /\ shown' = {disk'.cert.data}
    BY <1>0 DEF KeyHeld, KeystoreHeld
  <2>1. /\ mkey = secret /\ \A f \in Files : disk[f].under \in {-1, 0, secret}
        /\ shown # {} => Exists(disk.cert) /\ shown = {disk.cert.data}
    BY <1>0, <1>1 DEF KeyHeld
  <2>2. pc' # "remove1"
    BY <1>0, <2>1 DEF Readable, Exists, Files
  <2> QED BY <1>0, <1>2, <2>1, <2>2
<1>9. MemoryIsDisk'
  BY <1>0, <1>1 DEF MemoryIsDisk, NothingFailed, LogOnDisk, KnownOnDisk, MemoryType
<1>10. DiskIsFaithful'
  BY <1>0, <1>1 DEF DiskIsFaithful, NothingFailed, Faithful, KnownOnDisk
<1> QED BY <1>3, <1>4, <1>5, <1>6, <1>7, <1>8, <1>9, <1>10 DEF IInv

(* The old pair goes, certificate first.                                   *)
LEMMA RemoveStep == IInv /\ RemoveUnusable => IInv'
<1> SUFFICES ASSUME IInv, RemoveUnusable PROVE IInv'
  OBVIOUS
<1>0. /\ UNCHANGED <<secret, mkey, secure, me, log, known, loaded, shown, blocks, met, dubbed, spent>>
      /\ pc \in {"remove1", "remove2"}
      /\ pc = "remove1" => pc' = "remove2" /\ disk' = [disk EXCEPT !["cert"] = NoFile]
      /\ pc = "remove2" => pc' = "write1" /\ disk' = [disk EXCEPT !["key"] = NoFile]
  BY DEF RemoveUnusable, RemoveOrder, ghosts
<1>1. /\ MemoryType /\ GhostType /\ DiskType /\ IdentityIsAPair /\ PairOnDisk
      /\ KeyHeld /\ MemoryIsDisk /\ DiskIsFaithful
  BY DEF IInv
<1>2. NoFile.under = -1 /\ ~Exists(NoFile)
  BY DEF NoFile, Exists
<1>3. /\ DOMAIN disk' = Files
      /\ disk'["history"] = disk["history"] /\ disk'["known"] = disk["known"]
      /\ disk'["cert"] = IF pc = "remove1" THEN NoFile ELSE disk["cert"]
      /\ disk'["key"] = IF pc = "remove1" THEN disk["key"] ELSE NoFile
  BY <1>0, <1>1 DEF DiskType, Files
<1>4. MemoryType' /\ GhostType' /\ IdentityIsAPair'
  BY <1>0, <1>1 DEF MemoryType, GhostType, IdentityIsAPair, IsCatalogue
<1>5. DiskType'
  BY <1>0, <1>1, <1>2, <1>3 DEF DiskType, Files
<1>6. PairOnDisk'
  BY <1>0, <1>1, <1>2, <1>3 DEF PairOnDisk
<1>7. KeyHeld'
  BY <1>0, <1>1 DEF KeyHeld, KeystoreHeld
<1>8. MemoryIsDisk'
  BY <1>0, <1>1, <1>3 DEF MemoryIsDisk, NothingFailed, LogOnDisk, KnownOnDisk
<1>9. DiskIsFaithful'
  BY <1>0, <1>1, <1>3 DEF DiskIsFaithful, NothingFailed, Faithful, KnownOnDisk
<1> QED BY <1>4, <1>5, <1>6, <1>7, <1>8, <1>9 DEF IInv

(* A new pair comes, key first: only now is there no certificate.          *)
LEMMA GenerateFirstStep == IInv /\ GenerateFirst => IInv'
<1> SUFFICES ASSUME IInv, GenerateFirst PROVE IInv'
  OBVIOUS
<1>0. /\ pc = "write1"
      /\ UNCHANGED <<secret, mkey, secure, me, log, known, loaded, shown, blocks, met, dubbed>>
      /\ \/ Write("key", spent.pairs + 1) /\ pc' = "write2"
            /\ spent' = [spent EXCEPT !["pairs"] = @ + 1]
         \/ /\ UNCHANGED disk /\ pc' = (IF loaded THEN "running" ELSE "loading")
            /\ spent' = [spent EXCEPT !["losses"] = @ + 1]
  BY DEF GenerateFirst, WriteOrder, WriteFails, Spend, Return, ghosts
<1>1. /\ MemoryType /\ GhostType /\ DiskType /\ IdentityIsAPair /\ PairOnDisk
      /\ KeyHeld /\ MemoryIsDisk /\ DiskIsFaithful
  BY DEF IInv
<1>2. spent \in SpentType /\ mkey \in Nat /\ ~Exists(disk.cert)
  BY <1>0, <1>1 DEF MemoryType, PairOnDisk
<1>3. CASE Write("key", spent.pairs + 1) /\ pc' = "write2"
           /\ spent' = [spent EXCEPT !["pairs"] = @ + 1]
  <2>1. /\ spent' \in SpentType /\ spent'.pairs = spent.pairs + 1
        /\ spent'.outages = spent.outages /\ spent'.losses = spent.losses
    BY <1>2, <1>3 DEF SpentType
  <2>2. /\ DOMAIN disk' = Files
        /\ disk'["key"].under = mkey /\ disk'["key"].data = spent.pairs + 1 /\ Exists(disk'["key"])
        /\ \A f \in Files \ {"key"} : disk'[f] = disk[f]
    <3>1. "key" \in Files
      BY DEF Files
    <3> QED BY <1>1, <1>2, <1>3, <3>1, WriteOK
  <2>3. /\ disk'["cert"] = disk["cert"] /\ disk'["history"] = disk["history"]
        /\ disk'["known"] = disk["known"]
    BY <2>2 DEF Files
  <2>4. MemoryType' /\ GhostType' /\ IdentityIsAPair'
    BY <1>0, <1>1, <1>3, <2>1 DEF MemoryType, GhostType, IdentityIsAPair, IsCatalogue
  <2>5. DiskType'
    <3>1. spent.pairs + 1 \in Nat
      BY <1>2 DEF SpentType
    <3>2. \A f \in Files : disk'[f].under \in Int
      BY <1>1, <1>2, <2>2 DEF DiskType
    <3> QED BY <1>1, <2>2, <2>3, <3>1, <3>2 DEF DiskType
  <2>6. PairOnDisk'
    BY <1>2, <1>3, <2>1, <2>2, <2>3 DEF PairOnDisk
  <2>7. KeyHeld'
    BY <1>0, <1>1, <1>3, <2>1, <2>2, <2>3 DEF KeyHeld, KeystoreHeld
  <2>8. MemoryIsDisk'
    BY <1>0, <1>1, <1>3, <2>1, <2>3 DEF MemoryIsDisk, NothingFailed, LogOnDisk, KnownOnDisk
  <2>9. DiskIsFaithful'
    BY <1>0, <1>1, <2>1, <2>3 DEF DiskIsFaithful, NothingFailed, Faithful, KnownOnDisk
  <2> QED BY <2>4, <2>5, <2>6, <2>7, <2>8, <2>9 DEF IInv
<1>4. CASE /\ UNCHANGED disk /\ pc' = (IF loaded THEN "running" ELSE "loading")
           /\ spent' = [spent EXCEPT !["losses"] = @ + 1]
  <2>1. /\ spent' \in SpentType /\ spent'.outages = spent.outages /\ spent'.losses # 0
    BY <1>2, <1>4 DEF SpentType
  <2>2. loaded \in BOOLEAN /\ pc' \in {"running", "loading"}
    BY <1>1, <1>4 DEF MemoryType
  <2>3. MemoryType' /\ GhostType' /\ IdentityIsAPair' /\ DiskType'
    BY <1>0, <1>1, <1>4, <2>1, <2>2
    DEF MemoryType, GhostType, IdentityIsAPair, IsCatalogue, DiskType
  <2>4. PairOnDisk'
    BY <1>1, <1>4, <2>2 DEF PairOnDisk
  <2>5. KeyHeld'
    BY <1>0, <1>1, <1>4, <2>1, <2>2 DEF KeyHeld, KeystoreHeld
  <2>6. MemoryIsDisk'
    BY <1>0, <1>4, <2>1, <2>2 DEF MemoryIsDisk, NothingFailed
  <2>7. DiskIsFaithful'
    BY <2>1 DEF DiskIsFaithful, NothingFailed
  <2> QED BY <2>3, <2>4, <2>5, <2>6, <2>7 DEF IInv
<1> QED BY <1>0, <1>3, <1>4

LEMMA GenerateSecondStep == IInv /\ GenerateSecond => IInv'
<1> SUFFICES ASSUME IInv, GenerateSecond PROVE IInv'
  OBVIOUS
<1>0. /\ pc = "write2" /\ pc' = (IF loaded THEN "running" ELSE "loading")
      /\ UNCHANGED <<secret, mkey, secure, log, known, loaded, blocks, met, dubbed>>
      /\ \/ /\ Write("cert", spent.pairs) /\ spent' = spent
            /\ me' = [cert |-> spent.pairs, key |-> spent.pairs]
            /\ shown' = shown \cup {spent.pairs}
         \/ UNCHANGED <<disk, me, shown>> /\ spent' = [spent EXCEPT !["losses"] = @ + 1]
  BY DEF GenerateSecond, WriteOrder, WriteFails, Spend, Return, Present
<1>1. /\ MemoryType /\ GhostType /\ DiskType /\ IdentityIsAPair /\ PairOnDisk
      /\ KeyHeld /\ MemoryIsDisk /\ DiskIsFaithful
  BY DEF IInv
<1>2. /\ spent \in SpentType /\ mkey \in Nat /\ ~Exists(disk.cert)
      /\ Exists(disk.key) /\ disk.key.data = spent.pairs
      /\ loaded \in BOOLEAN /\ pc' \in {"running", "loading"}
  BY <1>0, <1>1 DEF MemoryType, PairOnDisk
<1>3. CASE /\ Write("cert", spent.pairs) /\ spent' = spent
           /\ me' = [cert |-> spent.pairs, key |-> spent.pairs]
           /\ shown' = shown \cup {spent.pairs}
  <2>1. spent.pairs \in Nat
    BY <1>2 DEF SpentType
  <2>2. /\ DOMAIN disk' = Files
        /\ disk'["cert"].under = mkey /\ disk'["cert"].data = spent.pairs /\ Exists(disk'["cert"])
        /\ \A f \in Files \ {"cert"} : disk'[f] = disk[f]
    <3>1. "cert" \in Files
      BY DEF Files
    <3> QED BY <1>1, <1>2, <1>3, <3>1, WriteOK
  <2>3. /\ disk'["key"] = disk["key"] /\ disk'["history"] = disk["history"]
        /\ disk'["known"] = disk["known"]
    BY <2>2 DEF Files
  <2>4. MemoryType'
    BY <1>0, <1>1, <1>2, <1>3, <2>1 DEF MemoryType, IsCatalogue
  <2>41. GhostType' /\ IdentityIsAPair'
    BY <1>0, <1>1, <1>3, <2>1 DEF GhostType, IdentityIsAPair
  <2>5. DiskType'
    <3>1. \A f \in Files : disk'[f].under \in Int
      BY <1>1, <1>2, <2>2 DEF DiskType
    <3> QED BY <1>1, <2>1, <2>2, <2>3, <3>1 DEF DiskType
  <2>6. PairOnDisk'
    BY <1>2, <2>2, <2>3 DEF PairOnDisk
  <2>7. KeyHeld'
    <3> SUFFICES ASSUME KeystoreHeld
                 PROVE  /\ mkey' = IF pc' = "down" THEN 0 ELSE secret'
                        /\ \A f \in Files : disk'[f].under \in {-1, 0, secret'}
                        /\ pc' \notin {"remove1", "remove2"}
                        /\ shown' # {} => Exists(disk'.cert) /\ shown' = {disk'.cert.data}
      BY <1>3 DEF KeyHeld, KeystoreHeld
    <3>1. mkey = secret /\ shown = {}
      BY <1>0, <1>1, <1>2 DEF KeyHeld
    <3>2. \A f \in Files : disk'[f].under \in {-1, 0, secret'}
      BY <1>0, <1>1, <2>2, <3>1 DEF KeyHeld
    <3> QED BY <1>0, <1>2, <1>3, <2>2, <3>1, <3>2
  <2>8. MemoryIsDisk'
    BY <1>0, <1>1, <1>2, <1>3, <2>3 DEF MemoryIsDisk, NothingFailed, LogOnDisk, KnownOnDisk
  <2>9. DiskIsFaithful'
    BY <1>0, <1>1, <1>3, <2>3 DEF DiskIsFaithful, NothingFailed, Faithful, KnownOnDisk
  <2> QED BY <2>4, <2>41, <2>5, <2>6, <2>7, <2>8, <2>9 DEF IInv
<1>4. CASE UNCHANGED <<disk, me, shown>> /\ spent' = [spent EXCEPT !["losses"] = @ + 1]
  <2>1. /\ spent' \in SpentType /\ spent'.outages = spent.outages /\ spent'.losses # 0
    BY <1>2, <1>4 DEF SpentType
  <2>3. MemoryType' /\ GhostType' /\ IdentityIsAPair' /\ DiskType'
    BY <1>0, <1>1, <1>2, <1>4, <2>1
    DEF MemoryType, GhostType, IdentityIsAPair, IsCatalogue, DiskType
  <2>4. PairOnDisk'
    BY <1>1, <1>2, <1>4 DEF PairOnDisk
  <2>5. KeyHeld'
    BY <1>0, <1>1, <1>2, <1>4, <2>1 DEF KeyHeld, KeystoreHeld
  <2>6. MemoryIsDisk'
    BY <1>0, <1>2, <1>4, <2>1 DEF MemoryIsDisk, NothingFailed
  <2>7. DiskIsFaithful'
    BY <2>1 DEF DiskIsFaithful, NothingFailed
  <2> QED BY <2>3, <2>4, <2>5, <2>6, <2>7 DEF IInv
<1> QED BY <1>0, <1>3, <1>4

(* The models are read: while the keystore answers, a file that is there   *)
(* is a file that can be read.                                             *)
LEMMA LoadModelsStep == IInv /\ LoadModels => IInv'
<1> SUFFICES ASSUME IInv, LoadModels PROVE IInv'
  OBVIOUS
<1>0. /\ pc = "loading" /\ pc' = "running" /\ loaded' = TRUE
      /\ log' = (IF Readable(disk.history) THEN disk.history.data ELSE <<>>)
      /\ known' = (IF Readable(disk.known) THEN Entries(disk.known.data) ELSE NoEntries)
      /\ UNCHANGED <<secret, mkey, disk, secure, me, shown, blocks, met, dubbed, spent>>
  BY DEF LoadModels, ghosts
<1>1. /\ MemoryType /\ GhostType /\ DiskType /\ IdentityIsAPair /\ PairOnDisk
      /\ KeyHeld /\ MemoryIsDisk /\ DiskIsFaithful
  BY DEF IInv
<1>2. log' \in Logs /\ IsCatalogue(known')
  BY <1>0, <1>1, NoEntriesOK, StoreAssumption DEF DiskType, Readable, Logs
<1>3. MemoryType'
  BY <1>0, <1>1, <1>2 DEF MemoryType
<1>4. GhostType' /\ DiskType' /\ IdentityIsAPair'
  BY <1>0, <1>1 DEF GhostType, DiskType, IdentityIsAPair
<1>5. PairOnDisk'
  BY <1>0, <1>1 DEF PairOnDisk
<1>6. KeyHeld'
  BY <1>0, <1>1 DEF KeyHeld, KeystoreHeld
<1>7. MemoryIsDisk'
  <2>1. ASSUME NothingFailed PROVE log' = LogOnDisk' /\ known' = KnownOnDisk'
    <3>1. mkey = secret /\ \A f \in Files : disk[f].under \in {-1, 0, secret}
      BY <1>0, <1>1, <2>1 DEF KeyHeld, KeystoreHeld, NothingFailed
    <3>2. /\ Exists(disk.history) <=> Readable(disk.history)
          /\ Exists(disk.known) <=> Readable(disk.known)
      BY <3>1 DEF Exists, Readable, Files
    <3> QED BY <1>0, <3>2 DEF LogOnDisk, KnownOnDisk
  <2> QED BY <1>0, <2>1 DEF MemoryIsDisk, NothingFailed
<1>8. DiskIsFaithful'
  BY <1>0, <1>1 DEF DiskIsFaithful, NothingFailed, Faithful, KnownOnDisk
<1> QED BY <1>3, <1>4, <1>5, <1>6, <1>7, <1>8 DEF IInv

LEMMA KilledStep == IInv /\ Killed => IInv'
<1> SUFFICES ASSUME IInv, Killed PROVE IInv'
  OBVIOUS
<1>0. /\ pc' = "down" /\ mkey' = 0 /\ me' = NoIdentity /\ log' = <<>> /\ known' = NoEntries
      /\ loaded' = FALSE
      /\ UNCHANGED <<secret, disk, secure, shown, blocks, met, dubbed, spent>>
  BY DEF Killed, ghosts
<1>1. /\ MemoryType /\ GhostType /\ DiskType /\ IdentityIsAPair /\ PairOnDisk
      /\ KeyHeld /\ MemoryIsDisk /\ DiskIsFaithful
  BY DEF IInv
<1>2. log' \in Logs /\ IsCatalogue(known') /\ me' \in [cert : Nat, key : Nat] /\ me'.cert = me'.key
  BY <1>0, NoEntriesOK, StoreAssumption DEF Logs, NoIdentity
<1>3. MemoryType'
  BY <1>0, <1>1, <1>2 DEF MemoryType
<1>4. GhostType' /\ DiskType' /\ IdentityIsAPair'
  BY <1>0, <1>1, <1>2 DEF GhostType, DiskType, IdentityIsAPair
<1>5. PairOnDisk'
  BY <1>0, <1>1 DEF PairOnDisk
<1>6. KeyHeld'
  BY <1>0, <1>1 DEF KeyHeld, KeystoreHeld
<1>7. MemoryIsDisk'
  BY <1>0 DEF MemoryIsDisk
<1>8. DiskIsFaithful'
  BY <1>0, <1>1 DEF DiskIsFaithful, NothingFailed, Faithful, KnownOnDisk
<1> QED BY <1>3, <1>4, <1>5, <1>6, <1>7, <1>8 DEF IInv

(* What an operation spends.                                               *)
LEMMA DoneOK ==
    ASSUME spent \in SpentType
    PROVE  /\ Done \in SpentType /\ Done.outages = spent.outages
           /\ Done.losses = spent.losses /\ Done.pairs = spent.pairs
           /\ [Done EXCEPT !.losses = @ + 1] \in SpentType
           /\ [Done EXCEPT !.losses = @ + 1].losses # 0
           /\ [Done EXCEPT !.losses = @ + 1].outages = spent.outages
           /\ [Done EXCEPT !.losses = @ + 1].pairs = spent.pairs
<1>1. /\ Done \in SpentType /\ Done.outages = spent.outages
      /\ Done.losses = spent.losses /\ Done.pairs = spent.pairs
  BY DEF Done, SpentType
<1> HIDE DEF Done
<1> QED BY <1>1 DEF SpentType

LEMMA SecureStep == IInv /\ SetSecureTransport => IInv'
<1> SUFFICES ASSUME IInv, SetSecureTransport PROVE IInv'
  OBVIOUS
<1>0. /\ pc = "running" /\ pc' \in {"running", "ensure"}
      /\ secure' = ~secure /\ spent' = Done
      /\ UNCHANGED <<secret, mkey, disk, me, log, known, loaded, shown, blocks, met, dubbed>>
  BY DEF SetSecureTransport, Operation, ghosts
<1>1. /\ MemoryType /\ GhostType /\ DiskType /\ IdentityIsAPair /\ PairOnDisk
      /\ KeyHeld /\ MemoryIsDisk /\ DiskIsFaithful
  BY DEF IInv
<1>2. /\ spent' \in SpentType /\ spent'.outages = spent.outages
      /\ spent'.losses = spent.losses /\ spent'.pairs = spent.pairs
  BY <1>0, <1>1, DoneOK DEF MemoryType
<1>3. MemoryType'
  BY <1>0, <1>1, <1>2 DEF MemoryType, IsCatalogue
<1>4. GhostType' /\ DiskType' /\ IdentityIsAPair'
  BY <1>0, <1>1 DEF GhostType, DiskType, IdentityIsAPair
<1>5. PairOnDisk'
  BY <1>0, <1>1 DEF PairOnDisk
<1>6. KeyHeld'
  BY <1>0, <1>1, <1>2 DEF KeyHeld, KeystoreHeld
<1>7. MemoryIsDisk'
  BY <1>0, <1>1, <1>2 DEF MemoryIsDisk, NothingFailed, LogOnDisk, KnownOnDisk
<1>8. DiskIsFaithful'
  BY <1>0, <1>1, <1>2 DEF DiskIsFaithful, NothingFailed, Faithful, KnownOnDisk
<1> QED BY <1>3, <1>4, <1>5, <1>6, <1>7, <1>8 DEF IInv

(* save() in the event loop, of either model.                              *)
LEMMA SavedOK ==
    ASSUME IInv, NEW file \in Files, NEW data, Saved(file, data)
    PROVE  /\ spent' \in SpentType /\ spent'.outages = spent.outages /\ spent'.pairs = spent.pairs
           /\ NothingFailed' => NothingFailed
           /\ DOMAIN disk' = Files
           /\ \A f \in Files \ {file} : disk'[f] = disk[f]
           /\ \/ disk' = disk /\ ~NothingFailed'
              \/ /\ disk'[file].under = mkey /\ disk'[file].data = data
                 /\ Exists(disk'[file])
<1>1. spent \in SpentType /\ mkey \in Nat /\ DiskType
  BY DEF IInv, MemoryType
<1>2. CASE Write(file, data) /\ spent' = Done
  BY <1>1, <1>2, WriteOK, DoneOK DEF NothingFailed
<1>3. CASE WriteFails /\ spent' = [Done EXCEPT !.losses = @ + 1]
  BY <1>1, <1>3, DoneOK DEF NothingFailed, WriteFails, DiskType
<1> QED BY <1>2, <1>3 DEF Saved

LEMMA HistoryStep ==
    ASSUME IInv, pc = "running", log' \in Logs, Saved("history", log'), UNCHANGED butLog
    PROVE  IInv'
<1>0. UNCHANGED <<pc, secret, mkey, secure, me, known, loaded, shown, blocks, met, dubbed>>
  BY DEF butLog, ghosts
<1>1. /\ MemoryType /\ GhostType /\ DiskType /\ IdentityIsAPair /\ PairOnDisk
      /\ KeyHeld /\ MemoryIsDisk /\ DiskIsFaithful
  BY DEF IInv
<1>2. /\ spent' \in SpentType /\ spent'.outages = spent.outages /\ spent'.pairs = spent.pairs
      /\ NothingFailed' => NothingFailed
      /\ DOMAIN disk' = Files
      /\ \A f \in Files \ {"history"} : disk'[f] = disk[f]
      /\ \/ disk' = disk /\ ~NothingFailed'
         \/ /\ disk'["history"].under = mkey /\ disk'["history"].data = log'
            /\ Exists(disk'["history"])
  <2>1. "history" \in Files
    BY DEF Files
  <2> QED BY <2>1, SavedOK
<1>3. disk'["cert"] = disk["cert"] /\ disk'["key"] = disk["key"] /\ disk'["known"] = disk["known"]
  BY <1>2 DEF Files
<1>4. MemoryType'
  BY <1>0, <1>1, <1>2 DEF MemoryType, IsCatalogue
<1>5. GhostType' /\ IdentityIsAPair'
  BY <1>0, <1>1 DEF GhostType, IdentityIsAPair
<1>6. DiskType'
  <2>1. \A f \in Files : disk'[f].under \in Int
    BY <1>1, <1>2 DEF DiskType, MemoryType
  <2> QED BY <1>1, <1>2, <1>3, <2>1 DEF DiskType
<1>7. PairOnDisk'
  BY <1>0, <1>1, <1>2, <1>3 DEF PairOnDisk
<1>8. KeyHeld'
  BY <1>0, <1>1, <1>2, <1>3 DEF KeyHeld, KeystoreHeld
<1>9. MemoryIsDisk'
  BY <1>0, <1>1, <1>2, <1>3 DEF MemoryIsDisk, LogOnDisk, KnownOnDisk
<1>10. DiskIsFaithful'
  BY <1>0, <1>1, <1>2, <1>3 DEF DiskIsFaithful, Faithful, KnownOnDisk
<1> QED BY <1>4, <1>5, <1>6, <1>7, <1>8, <1>9, <1>10 DEF IInv

MemoryIsFaithful == Faithful(known)

LEMMA CatalogueStep ==
    ASSUME IInv, pc = "running", IsCatalogue(known)', GhostType',
           \/ Saved("known", known')
           \/ known' = known /\ UNCHANGED disk /\ spent' = Done,
           NothingFailed => MemoryIsFaithful',
           UNCHANGED butKnown
    PROVE  IInv'
<1>0. UNCHANGED <<pc, secret, mkey, secure, me, log, loaded, shown>>
  BY DEF butKnown
<1>1. /\ MemoryType /\ GhostType /\ DiskType /\ IdentityIsAPair /\ PairOnDisk
      /\ KeyHeld /\ MemoryIsDisk /\ DiskIsFaithful
  BY DEF IInv
<1>2. /\ spent' \in SpentType /\ spent'.outages = spent.outages /\ spent'.pairs = spent.pairs
      /\ NothingFailed' => NothingFailed
      /\ DOMAIN disk' = Files
      /\ \A f \in Files \ {"known"} : disk'[f] = disk[f]
      /\ \/ disk' = disk /\ (NothingFailed' => known' = known)
         \/ /\ disk'["known"].under = mkey /\ disk'["known"].data = known'
            /\ Exists(disk'["known"])
  <2>1. CASE Saved("known", known')
    <3>1. "known" \in Files
      BY DEF Files
    <3> QED BY <2>1, <3>1, SavedOK
  <2>2. CASE known' = known /\ UNCHANGED disk /\ spent' = Done
    BY <1>1, <2>2, DoneOK DEF MemoryType, NothingFailed, DiskType
  <2> QED BY <2>1, <2>2
<1>3. disk'["cert"] = disk["cert"] /\ disk'["key"] = disk["key"] /\ disk'["history"] = disk["history"]
  BY <1>2 DEF Files
<1>4. MemoryType'
  BY <1>0, <1>1, <1>2 DEF MemoryType
<1>5. IdentityIsAPair'
  BY <1>0, <1>1 DEF IdentityIsAPair
<1>6. Entries(known') = known'
  BY EntriesOfCatalogue
<1>7. DiskType'
  <2>1. \A f \in Files : disk'[f].under \in Int
    BY <1>1, <1>2 DEF DiskType, MemoryType
  <2>2. Exists(disk'.known) => IsCatalogue(Entries(disk'.known.data))
    BY <1>1, <1>2, <1>6 DEF DiskType, IsCatalogue
  <2> QED BY <1>1, <1>2, <1>3, <2>1, <2>2 DEF DiskType
<1>8. PairOnDisk'
  BY <1>0, <1>1, <1>2, <1>3 DEF PairOnDisk
<1>9. KeyHeld'
  BY <1>0, <1>1, <1>2, <1>3 DEF KeyHeld, KeystoreHeld
<1>10. loaded /\ (NothingFailed' => known' = KnownOnDisk')
  BY <1>0, <1>1, <1>2, <1>6 DEF MemoryIsDisk, KnownOnDisk
<1>11. MemoryIsDisk'
  BY <1>0, <1>1, <1>2, <1>3, <1>10 DEF MemoryIsDisk, LogOnDisk
<1>12. DiskIsFaithful'
  BY <1>2, <1>10 DEF DiskIsFaithful, MemoryIsFaithful
<1> QED BY <1>4, <1>5, <1>7, <1>8, <1>9, <1>11, <1>12 DEF IInv

LEMMA HistorySteps == IInv /\ History => IInv'
<1> SUFFICES ASSUME IInv, History PROVE IInv'
  OBVIOUS
<1>1. log \in Logs /\ spent.ops + 1 \in Nat
  BY DEF IInv, MemoryType, SpentType
<1>2. CASE append
  <2>1. log' \in Logs
    BY <1>1, <1>2, LogOperations DEF append
  <2> QED BY <1>2, <2>1, HistoryStep DEF append, Operation
<1>3. CASE clear
  <2>1. log' \in Logs
    BY <1>1, <1>3, LogOperations DEF clear
  <2> QED BY <1>3, <2>1, HistoryStep DEF clear, Operation
<1>4. ASSUME NEW row \in 1..MaxRecords, removeAt(row)
      PROVE  IInv'
  <2>1. log' \in Logs
    BY <1>1, <1>4, LogOperations DEF removeAt, RemoveSaved
  <2> QED BY <1>4, <2>1, HistoryStep DEF removeAt, RemoveSaved, Operation
<1> QED BY <1>2, <1>3, <1>4 DEF History

(* In the event loop memory answers to what the user did, as the file does *)
LEMMA FaithfulInLoop ==
    ASSUME IInv, pc = "running", NothingFailed
    PROVE  MemoryIsFaithful
BY DEF IInv, MemoryIsDisk, DiskIsFaithful, MemoryIsFaithful

LEMMA ValueIsIn ==
    ASSUME NEW p
    PROVE  value(p) = In(known, p)
BY DEF value, In

LEMMA BlockStep ==
    ASSUME IInv, NEW p \in Peer, NEW n \in Name, Block(p, n)
    PROVE  IInv'
<1>0. /\ pc = "running" /\ known' = Put(p, Blocked(p, n)) /\ Saved("known", known')
      /\ blocks' = blocks \cup {p} /\ met' = met /\ UNCHANGED butKnown
      /\ dubbed' = IF isKnown(p) /\ n # value(p).alias THEN dubbed \cup {p} ELSE dubbed
  BY DEF Block, Operation
<1>1. IsCatalogue(known) /\ GhostType
  BY DEF IInv, MemoryType
<1>2. /\ Blocked(p, n) \in EntryType /\ Blocked(p, n).alias = n
      /\ Blocked(p, n).paired = value(p).paired /\ Blocked(p, n).blocked = TRUE
  BY <1>1, ValueType
<1>3. /\ IsCatalogue(known')
      /\ \A q \in Peer : In(known', q) = IF q = p THEN Blocked(p, n) ELSE In(known, q)
  BY <1>0, <1>1, <1>2, PutOK
<1>4. GhostType'
  BY <1>0, <1>1 DEF GhostType, butKnown
<1>5. ASSUME NothingFailed PROVE MemoryIsFaithful'
  <2>1. Faithful(known)
    BY <1>0, <1>5, FaithfulInLoop DEF MemoryIsFaithful
  <2>2. ASSUME NEW q \in Peer
        PROVE  /\ In(known', q).blocked <=> q \in blocks'
               /\ In(known', q).paired <=> met'[q] # NoName
               /\ met'[q] # NoName /\ q \notin dubbed' => In(known', q).alias = met'[q]
    <3>1. CASE q # p
      BY <1>0, <1>3, <2>1, <3>1 DEF Faithful
    <3>2. CASE q = p
      <4>1. In(known', q) = Blocked(p, n)
        BY <1>3, <3>2
      <4>2. In(known', q).blocked /\ q \in blocks'
        BY <1>0, <1>2, <3>2, <4>1
      <4>3. In(known', q).paired <=> met'[q] # NoName
        BY <1>0, <1>2, <2>1, <3>2, <4>1, ValueIsIn DEF Faithful
      <4>4. met'[q] # NoName /\ q \notin dubbed' => In(known', q).alias = met'[q]
        BY <1>0, <1>2, <2>1, <3>2, <4>1, ValueIsIn DEF Faithful, isKnown
      <4> QED BY <4>2, <4>3, <4>4
    <3> QED BY <3>1, <3>2
  <2> QED BY <2>2 DEF MemoryIsFaithful, Faithful
<1> QED BY <1>0, <1>3, <1>4, <1>5, CatalogueStep DEF IsCatalogue

LEMMA UnblockStep ==
    ASSUME IInv, NEW p \in Peer, Unblock(p)
    PROVE  IInv'
<1> DEFINE freed == [value(p) EXCEPT !.blocked = FALSE]
<1>0. /\ pc = "running" /\ known' = Put(p, freed) /\ Saved("known", known')
      /\ blocks' = blocks \ {p} /\ met' = met /\ dubbed' = dubbed /\ UNCHANGED butKnown
  BY DEF Unblock, Operation
<1>1. IsCatalogue(known) /\ GhostType
  BY DEF IInv, MemoryType
<1>2. /\ freed \in EntryType /\ freed.alias = value(p).alias
      /\ freed.paired = value(p).paired /\ freed.blocked = FALSE
  <2>1. value(p) \in EntryType
    BY <1>1 DEF value, IsCatalogue, NoEntry, EntryType
  <2> QED BY <2>1 DEF EntryType
<1> HIDE DEF freed
<1>3. /\ IsCatalogue(known')
      /\ \A q \in Peer : In(known', q) = IF q = p THEN freed ELSE In(known, q)
  BY <1>0, <1>1, <1>2, PutOK
<1>4. GhostType'
  BY <1>0, <1>1 DEF GhostType, butKnown
<1>5. ASSUME NothingFailed PROVE MemoryIsFaithful'
  <2>1. Faithful(known)
    BY <1>0, <1>5, FaithfulInLoop DEF MemoryIsFaithful
  <2>2. ASSUME NEW q \in Peer
        PROVE  /\ In(known', q).blocked <=> q \in blocks'
               /\ In(known', q).paired <=> met'[q] # NoName
               /\ met'[q] # NoName /\ q \notin dubbed' => In(known', q).alias = met'[q]
    <3>1. CASE q # p
      BY <1>0, <1>3, <2>1, <3>1 DEF Faithful
    <3>2. CASE q = p
      BY <1>0, <1>2, <1>3, <2>1, <3>2, ValueIsIn DEF Faithful
    <3> QED BY <3>1, <3>2
  <2> QED BY <2>2 DEF MemoryIsFaithful, Faithful
<1> QED BY <1>0, <1>3, <1>4, <1>5, CatalogueStep DEF IsCatalogue

LEMMA RememberStep ==
    ASSUME IInv, NEW p \in Peer, NEW n \in Name, remember(p, n)
    PROVE  IInv'
<1>0. /\ pc = "running" /\ known' = Put(p, Remembered(p, n))
      /\ \/ Saved("known", known')
         \/ known' = known /\ UNCHANGED disk /\ spent' = Done
      /\ met' = [met EXCEPT ![p] = n] /\ dubbed' = dubbed \ {p}
      /\ blocks' = blocks /\ UNCHANGED butKnown
  BY DEF remember, Operation
<1>1. IsCatalogue(known) /\ GhostType
  BY DEF IInv, MemoryType
<1>2. /\ Remembered(p, n) \in EntryType /\ Remembered(p, n).alias = n
      /\ Remembered(p, n).paired = TRUE /\ Remembered(p, n).blocked = value(p).blocked
  BY <1>1, ValueType
<1>3. /\ IsCatalogue(known')
      /\ \A q \in Peer : In(known', q) = IF q = p THEN Remembered(p, n) ELSE In(known, q)
  BY <1>0, <1>1, <1>2, PutOK
<1>4. GhostType' /\ \A q \in Peer : met'[q] = IF q = p THEN n ELSE met[q]
  BY <1>0, <1>1 DEF GhostType, butKnown
<1>5. ASSUME NothingFailed PROVE MemoryIsFaithful'
  <2>1. Faithful(known)
    BY <1>0, <1>5, FaithfulInLoop DEF MemoryIsFaithful
  <2>2. ASSUME NEW q \in Peer
        PROVE  /\ In(known', q).blocked <=> q \in blocks'
               /\ In(known', q).paired <=> met'[q] # NoName
               /\ met'[q] # NoName /\ q \notin dubbed' => In(known', q).alias = met'[q]
    <3>1. CASE q # p
      BY <1>0, <1>3, <1>4, <2>1, <3>1 DEF Faithful
    <3>2. CASE q = p
      <4>1. In(known', q) = Remembered(p, n) /\ met'[q] = n /\ n # NoName
        BY <1>3, <1>4, <3>2, StoreAssumption
      <4>2. In(known', q).blocked <=> q \in blocks'
        BY <1>0, <1>2, <2>1, <3>2, <4>1, ValueIsIn DEF Faithful
      <4> QED BY <1>2, <4>1, <4>2
    <3> QED BY <3>1, <3>2
  <2> QED BY <2>2 DEF MemoryIsFaithful, Faithful
<1> QED BY <1>0, <1>3, <1>4, <1>5, CatalogueStep DEF IsCatalogue

LEMMA ForgetStep ==
    ASSUME IInv, NEW ps \in SUBSET Peer, Forget(ps)
    PROVE  IInv'
<1>0. /\ pc = "running" /\ known' = Forgotten(ps) /\ Saved("known", known')
      /\ met' = [p \in Peer |-> IF p \in ps THEN NoName ELSE met[p]]
      /\ dubbed' = dubbed \ ps /\ blocks' = blocks /\ UNCHANGED butKnown
  BY DEF Forget, Operation
<1>1. IsCatalogue(known) /\ GhostType
  BY DEF IInv, MemoryType
<1>2. /\ IsCatalogue(known')
      /\ \A q \in Peer : In(known', q) =
            IF q \in ps THEN IF In(known, q).blocked THEN OnlyBlock ELSE NoEntry
            ELSE In(known, q)
  BY <1>0, <1>1, ForgottenOK
<1>3. /\ OnlyBlock.paired = FALSE /\ OnlyBlock.blocked = TRUE
      /\ NoEntry.paired = FALSE /\ NoEntry.blocked = FALSE
  BY DEF OnlyBlock, NoEntry
<1>4. GhostType'
  BY <1>0, <1>1 DEF GhostType, butKnown
<1>5. ASSUME NothingFailed PROVE MemoryIsFaithful'
  <2>1. Faithful(known)
    BY <1>0, <1>5, FaithfulInLoop DEF MemoryIsFaithful
  <2>2. ASSUME NEW q \in Peer
        PROVE  /\ In(known', q).blocked <=> q \in blocks'
               /\ In(known', q).paired <=> met'[q] # NoName
               /\ met'[q] # NoName /\ q \notin dubbed' => In(known', q).alias = met'[q]
    <3>1. CASE q \notin ps
      BY <1>0, <1>2, <2>1, <3>1 DEF Faithful
    <3>2. CASE q \in ps
      BY <1>0, <1>2, <1>3, <2>1, <3>2 DEF Faithful
    <3> QED BY <3>1, <3>2
  <2> QED BY <2>2 DEF MemoryIsFaithful, Faithful
<1> QED BY <1>0, <1>2, <1>4, <1>5, CatalogueStep DEF IsCatalogue

LEMMA CatalogueSteps == IInv /\ Catalogue => IInv'
<1> SUFFICES ASSUME IInv, Catalogue PROVE IInv'
  OBVIOUS
<1>1. CASE forgetAll
  BY <1>1, ForgetStep DEF forgetAll
<1>2. ASSUME NEW p \in Peer, Unblock(p) \/ forget(p) PROVE IInv'
  BY <1>2, UnblockStep, ForgetStep DEF forget
<1>3. ASSUME NEW p \in Peer, NEW n \in Name, Block(p, n) \/ remember(p, n) PROVE IInv'
  BY <1>3, BlockStep, RememberStep
<1> QED BY <1>1, <1>2, <1>3 DEF Catalogue

LEMMA StutterStep == IInv /\ UNCHANGED vars => IInv'
BY DEF IInv, vars, MemoryType, IsCatalogue, GhostType, DiskType, IdentityIsAPair, PairOnDisk,
       KeyHeld, KeystoreHeld, MemoryIsDisk, NothingFailed, LogOnDisk, KnownOnDisk,
       DiskIsFaithful, Faithful

-----------------------------------------------------------------------------
(* The theorems.                                                           *)

(* The inductive invariant: holds at the first launch, new install or old, *)
(* and every step of start-up, event loop, crash and outage keeps it.      *)
THEOREM StoreInvariance == Spec => []IInv
<1>1. Init => IInv
  BY InitOK
<1>2. IInv /\ [Next]_vars => IInv'
  BY KeySteps, LoadStep, RemoveStep, GenerateFirstStep, GenerateSecondStep, LoadModelsStep,
     KilledStep, SecureStep, HistorySteps, CatalogueSteps, StutterStep DEF Next, StartUp
<1> QED BY <1>1, <1>2, PTL DEF Spec

(* Certificate and key belong together whatever crash, outage or failed    *)
(* write came between the two files (certificate.cpp's load() does not     *)
(* compare them).                                                          *)
THEOREM IdentityPaired == Spec => []IdentityIsAPair
<1>1. IInv => IdentityIsAPair
  BY DEF IInv
<1> QED BY <1>1, StoreInvariance, PTL

(* While the keystore answers, peers see one certificate for ever, over    *)
(* any number of restarts, crashes in generate() and failed writes.        *)
THEOREM IdentityStable == Spec => []IdentityIsStable
<1>1. IInv => IdentityIsStable
  <2> SUFFICES ASSUME IInv, KeystoreHeld PROVE Cardinality(shown) <= 1
    BY DEF IdentityIsStable
  <2>1. CASE shown = {}
    BY <2>1, FS_EmptySet
  <2>2. CASE shown # {}
    <3>1. shown = {disk.cert.data}
      BY <2>2 DEF IInv, KeyHeld
    <3>2. Cardinality({disk.cert.data}) = 1
      BY FS_Singleton, Zenon
    <3> QED BY <3>1, <3>2
  <2> QED BY <2>1, <2>2
<1> QED BY <1>1, StoreInvariance, PTL

(* As long as nothing failed, killing the event loop loses nothing: what   *)
(* the next start would load is what memory holds, log and catalogue, and  *)
(* the log is within its limit.                                            *)
THEOREM KillIsHarmless == Spec => []KillLosesNothing
<1>1. IInv => KillLosesNothing
  <2> SUFFICES ASSUME IInv, pc = "running", NothingFailed
               PROVE  /\ log = IF Readable(disk.history) THEN disk.history.data ELSE <<>>
                      /\ known = IF Readable(disk.known) THEN Entries(disk.known.data)
                                 ELSE NoEntries
                      /\ Len(log) <= MaxRecords
    BY DEF KillLosesNothing, Running
  <2>1. mkey = secret /\ \A f \in Files : disk[f].under \in {-1, 0, secret}
    BY DEF IInv, KeyHeld, KeystoreHeld, NothingFailed
  <2>2. /\ Exists(disk.history) <=> Readable(disk.history)
        /\ Exists(disk.known) <=> Readable(disk.known)
    BY <2>1 DEF Exists, Readable, Files
  <2>3. log = LogOnDisk /\ known = KnownOnDisk
    BY DEF IInv, MemoryIsDisk
  <2>4. Len(log) <= MaxRecords
    BY DEF IInv, MemoryType, Logs
  <2> QED BY <2>2, <2>3, <2>4 DEF LogOnDisk, KnownOnDisk
<1> QED BY <1>1, StoreInvariance, PTL

(* The catalogue refuses exactly the blocked and trusts exactly the met,   *)
(* over any sequence of blocking, forgetting, meeting again and restarts.  *)
THEOREM CatalogueFaithful == Spec => []CatalogueIsFaithful
<1>1. IInv => CatalogueIsFaithful
  <2> SUFFICES ASSUME IInv, pc = "running", NothingFailed, NEW p \in Peer
               PROVE  /\ isBlocked(p) <=> p \in blocks
                      /\ isKnown(p) <=> met[p] # NoName
    BY DEF CatalogueIsFaithful, Running
  <2> QED BY FaithfulInLoop, ValueIsIn DEF MemoryIsFaithful, Faithful, isBlocked, isKnown
<1> QED BY <1>1, StoreInvariance, PTL

(* The impersonation warning is raised for the names of devices the user   *)
(* has met, for those and, but for the ones a block renamed, for no other. *)
THEOREM WarningFounded == Spec => []WarningIsFounded
<1>1. IInv => WarningIsFounded
  <2> SUFFICES ASSUME IInv, pc = "running", NothingFailed, NEW p \in Peer, NEW n \in Name
               PROVE  /\ conflicts(p, n) => \E q \in Peer : met[q] = n \/ q \in dubbed
                      /\ met[p] = NoName /\ (\E q \in Peer \ dubbed : met[q] = n)
                         => conflicts(p, n)
    BY DEF WarningIsFounded, Running
  <2>1. Faithful(known) /\ IsCatalogue(known)
    BY FaithfulInLoop DEF MemoryIsFaithful, IInv, MemoryType
  <2>2. n # NoName /\ NoEntry.paired = FALSE
    BY StoreAssumption DEF NoEntry
  <2>3. ASSUME conflicts(p, n)
        PROVE  \E q \in Peer : met[q] = n \/ q \in dubbed
    <3>1. PICK q \in DOMAIN known : known[q].paired /\ known[q].alias = n
      BY <2>3 DEF conflicts, expected
    <3>2. q \in Peer /\ In(known, q) = known[q]
      BY <2>1 DEF IsCatalogue, In
    <3> QED BY <2>1, <3>1, <3>2 DEF Faithful
  <2>4. ASSUME met[p] = NoName, NEW q \in Peer \ dubbed, met[q] = n
        PROVE  conflicts(p, n)
    <3>1. ~isKnown(p)
      BY <2>1, <2>4, ValueIsIn DEF Faithful, isKnown
    <3>2. In(known, q).paired /\ In(known, q).alias = n
      BY <2>1, <2>2, <2>4 DEF Faithful
    <3>3. q \in DOMAIN known /\ In(known, q) = known[q]
      BY <2>2, <3>2 DEF In
    <3> QED BY <3>1, <3>2, <3>3 DEF conflicts, expected
  <2> QED BY <2>3, <2>4
<1> QED BY <1>1, StoreInvariance, PTL

=============================================================================
