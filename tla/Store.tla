------------------------------- MODULE Store -------------------------------
(***************************************************************************)
(* What the application keeps across runs: SecureStore (securestore.cpp)   *)
(* and the three things written through it, the TLS identity               *)
(* (certificate.cpp), the transfer log (historymodel.cpp) and the          *)
(* catalogue of devices (knowndevices.cpp), with main()'s start-up order.  *)
(* The process may be killed between any two steps; the keystore may fail  *)
(* to answer, or lose its key; a write may fail.                           *)
(***************************************************************************)
EXTENDS Integers, Sequences, SequencesExt, FiniteSets

CONSTANTS Peer,          \* fingerprints, in one case
          Name,          \* aliases
          NoName,        \* the empty alias
          MaxRecords,    \* records the log holds
          MaxStarts,     \* bound: launches
          MaxOps,        \* bound: operations on log, catalogue and settings
          MaxOutages,    \* bound: keystore failures
          MaxLosses      \* bound: failed writes

ASSUME StoreAssumption ==
    /\ NoName \notin Name /\ IsFiniteSet(Peer)
    /\ MaxRecords \in Nat \ {0}
    /\ {MaxStarts, MaxOps, MaxOutages, MaxLosses} \subseteq Nat

VARIABLES
    pc,       \* where main() is; "running" is the event loop
    secret,   \* the keystore's key, numbered; 0: none yet
    mkey,     \* m_key of the store; 0: writing in the clear
    disk,     \* the four files
    secure,   \* the secureTransport setting, itself persistent
    me,       \* m_identity: the generation of certificate and key
    log,      \* m_records, newest first
    known,    \* m_entries
    loaded,   \* log and known have been read in this run
    shown,    \* observation: generations of certificates peers have seen
    blocks,   \* observation: peers the user blocked and did not unblock
    met,      \* observation: peer -> name of its last exchange since forgotten
    dubbed,   \* observation: peers whose name on record a block replaced
    spent     \* starts, ops, outages, losses and generated pairs so far

vars == <<pc, secret, mkey, disk, secure, me, log, known, loaded,
          shown, blocks, met, dubbed, spent>>
ghosts == <<shown, blocks, met, dubbed>>

-----------------------------------------------------------------------------
(* SecureStore.                                                            *)

(* A file: the key it is sealed under (0: plain) and what it says.         *)
NoFile == [under |-> -1, data |-> <<>>]
Exists(f) == f.under # -1
PlainRefused(f) == Exists(f) /\ f.under = mkey   \* a slip: no way up from plain files
Readable(f) == Exists(f) /\ f.under \in {0, mkey}
Sealed(data) == [under |-> mkey, data |-> data]

Spend(what) == spent' = [spent EXCEPT ![what] = @ + 1]

(* write() to one file: the new contents, or the old ones and a failure.   *)
Write(file, data) == disk' = [disk EXCEPT ![file] = Sealed(data)]
WriteFails == spent.losses < MaxLosses /\ UNCHANGED disk

-----------------------------------------------------------------------------
(* KnownDevices' entries, and how a file says them.  A catalogue from      *)
(* before blocking existed has no flags.                                   *)

NoEntry == [alias |-> NoName, paired |-> FALSE, blocked |-> FALSE]
value(p) == IF p \in DOMAIN known THEN known[p] ELSE NoEntry
Legacy(p, n) == [q \in {p} |-> [alias |-> n]]
Flagged(e) == "paired" \in DOMAIN e
Entries(said) == [p \in DOMAIN said |->
    IF Flagged(said[p]) THEN said[p]
    ELSE [alias |-> said[p].alias, paired |-> TRUE, blocked |-> FALSE]]
NoEntries == [p \in {} |-> NoEntry]

isBlocked(p) == value(p).blocked
isKnown(p) == value(p).paired
AnyEntrySpeaks(n) == {q \in DOMAIN known : known[q].alias = n}   \* a slip
expected(n) == {q \in DOMAIN known : known[q].paired /\ known[q].alias = n}
conflicts(p, n) == ~isKnown(p) /\ expected(n) # {}

-----------------------------------------------------------------------------
(* A new install, or one from before there was a keystore or blocking.     *)

NoIdentity == [cert |-> 0, key |-> 0]
Plain(data) == [under |-> 0, data |-> data]
Unspent(made) == [starts |-> 0, ops |-> 0, outages |-> 0, losses |-> 0, pairs |-> made]

Init ==
    /\ pc = "down" /\ secret = 0 /\ mkey = 0
    /\ secure = TRUE /\ me = NoIdentity
    /\ log = <<>> /\ known = NoEntries /\ loaded = FALSE
    /\ blocks = {} /\ dubbed = {}
    /\ \/ /\ disk = [f \in {"cert", "key", "history", "known"} |-> NoFile]
          /\ shown = {} /\ spent = Unspent(0)
          /\ met = [p \in Peer |-> NoName]
       \/ \E p \in Peer, n \in Name :
          /\ disk = [cert |-> Plain(1), key |-> Plain(1), history |-> Plain(<<>>),
                     known |-> Plain(Legacy(p, n))]
          /\ shown = {1} /\ spent = Unspent(1)
          /\ met = [q \in Peer |-> IF q = p THEN n ELSE NoName]

-----------------------------------------------------------------------------
(* Start-up: open(), AppSettings with its identity, then log and catalogue *)

Opened(key) ==
    /\ pc = "down" /\ spent.starts < MaxStarts
    /\ pc' = IF secure THEN "ensure" ELSE "loading"
    /\ mkey' = key
    /\ UNCHANGED <<disk, secure, me, log, known, loaded, ghosts>>

(* fetchKey(): the stored key, or a fresh one the keystore agrees to keep. *)
KeyAnswered ==
    /\ Opened(IF secret = 0 THEN 1 ELSE secret)
    /\ secret' = mkey'
    /\ Spend("starts")

(* Nothing answered, or reading was refused and storing a new key was not. *)
KeystoreFails ==
    /\ spent.outages < MaxOutages
    /\ \/ Opened(0) /\ UNCHANGED secret
       \/ secret # 0 /\ Opened(secret + 1) /\ secret' = mkey'
    /\ spent' = [spent EXCEPT !.starts = @ + 1, !.outages = @ + 1]

(* Certificate::ensure() is done, and the constructor or setter returns.   *)
Return == pc' = IF loaded THEN "running" ELSE "loading"
Present(pair) == me' = pair /\ shown' = shown \cup {pair.cert}

(* The order in which an unusable pair goes and in which a new one comes.  *)
KeyGoesFirst == <<"key", "cert">>    \* a slip, as is the next
CertComesFirst == <<"cert", "key">>
RemoveOrder == <<"cert", "key">>
WriteOrder == <<"key", "cert">>

Load ==
    /\ pc = "ensure"
    /\ \/ /\ Exists(disk.cert) /\ Exists(disk.key)
          /\ IF Readable(disk.cert) /\ Readable(disk.key)
             THEN /\ Present([cert |-> disk.cert.data, key |-> disk.key.data])
                  /\ Return
             ELSE pc' = "remove1" /\ UNCHANGED <<me, shown>>
       \/ /\ ~(Exists(disk.cert) /\ Exists(disk.key))
          /\ pc' = "write1" /\ UNCHANGED <<me, shown>>
    /\ UNCHANGED <<secret, mkey, disk, secure, log, known, loaded, blocks, met, dubbed, spent>>

RemoveUnusable ==
    /\ \/ /\ pc = "remove1" /\ pc' = "remove2"
          /\ disk' = [disk EXCEPT ![RemoveOrder[1]] = NoFile]
       \/ /\ pc = "remove2" /\ pc' = "write1"
          /\ disk' = [disk EXCEPT ![RemoveOrder[2]] = NoFile]
    /\ UNCHANGED <<secret, mkey, secure, me, log, known, loaded, ghosts, spent>>

(* generate(): a pair like no other; without both files there is none.     *)
GenerateFirst ==
    /\ pc = "write1"
    /\ \/ /\ Write(WriteOrder[1], spent.pairs + 1)
          /\ pc' = "write2"
          /\ Spend("pairs")
       \/ WriteFails /\ Spend("losses") /\ Return
    /\ UNCHANGED <<secret, mkey, secure, me, log, known, loaded, ghosts>>

GenerateSecond ==
    /\ pc = "write2"
    /\ \/ /\ Write(WriteOrder[2], spent.pairs)
          /\ Present([cert |-> spent.pairs, key |-> spent.pairs])
          /\ UNCHANGED spent
       \/ WriteFails /\ Spend("losses") /\ UNCHANGED <<me, shown>>
    /\ Return
    /\ UNCHANGED <<secret, mkey, secure, log, known, loaded, blocks, met, dubbed>>

(* The constructors of HistoryModel and KnownDevices.                      *)
LoadModels ==
    /\ pc = "loading" /\ pc' = "running"
    /\ log' = IF Readable(disk.history) THEN disk.history.data ELSE <<>>
    /\ known' = IF Readable(disk.known) THEN Entries(disk.known.data) ELSE NoEntries
    /\ loaded' = TRUE
    /\ UNCHANGED <<secret, mkey, disk, secure, me, ghosts, spent>>

(* The process ends, at any point: what it held is gone.                   *)
Killed ==
    /\ pc # "down" /\ pc' = "down"
    /\ mkey' = 0 /\ me' = NoIdentity /\ log' = <<>> /\ known' = NoEntries
    /\ loaded' = FALSE
    /\ UNCHANGED <<secret, disk, secure, ghosts, spent>>

-----------------------------------------------------------------------------
(* In the event loop: one operation, its save() included.                  *)

Operation == pc = "running" /\ spent.ops < MaxOps
Done == [spent EXCEPT !.ops = @ + 1]
Saved(file, data) ==
    \/ Write(file, data) /\ spent' = Done
    \/ WriteFails /\ spent' = [Done EXCEPT !.losses = @ + 1]

(* setSecureTransport(): turning it on may find or make the identity now.  *)
SetSecureTransport ==
    /\ Operation
    /\ secure' = ~secure
    /\ pc' = IF secure' /\ me = NoIdentity THEN "ensure" ELSE pc
    /\ spent' = Done
    /\ UNCHANGED <<secret, mkey, disk, me, log, known, loaded, ghosts>>

butLog == <<pc, secret, mkey, secure, me, known, loaded, ghosts>>

append ==
    /\ Operation
    /\ LET longer == <<spent.ops + 1>> \o log
       IN  log' = IF Len(longer) > MaxRecords THEN SubSeq(longer, 1, MaxRecords) ELSE longer
    /\ Saved("history", log')
    /\ UNCHANGED butLog

RemoveUnsaved(row) == /\ log' = RemoveAt(log, row)   \* a slip: save() forgotten
                      /\ spent' = Done /\ UNCHANGED disk
RemoveSaved(row) == log' = RemoveAt(log, row) /\ Saved("history", log')
removeAt(row) == Operation /\ row \in 1..Len(log) /\ RemoveSaved(row) /\ UNCHANGED butLog

clear ==
    /\ Operation /\ log # <<>>
    /\ log' = <<>>
    /\ Saved("history", log')
    /\ UNCHANGED butLog

butKnown == <<pc, secret, mkey, secure, me, log, loaded, shown>>

Put(p, e) == [q \in DOMAIN known \cup {p} |-> IF q = p THEN e ELSE known[q]]

(* setBlocked(.., TRUE), from the list or the prompt: the name is the one  *)
(* the device goes by at that moment.                                      *)
BlockTrusts(p, n) == [value(p) EXCEPT !.alias = n, !.blocked = TRUE, !.paired = TRUE] \* a slip
Blocked(p, n) == [value(p) EXCEPT !.alias = n, !.blocked = TRUE]
Block(p, n) ==
    /\ Operation /\ ~isBlocked(p)
    /\ known' = Put(p, Blocked(p, n))
    /\ Saved("known", known')
    /\ blocks' = blocks \cup {p}
    /\ dubbed' = IF isKnown(p) /\ n # value(p).alias THEN dubbed \cup {p} ELSE dubbed
    /\ UNCHANGED <<met, butKnown>>

(* setBlocked(.., FALSE), from the page of blocked devices.                *)
Unblock(p) ==
    /\ Operation /\ isBlocked(p)
    /\ known' = Put(p, [value(p) EXCEPT !.blocked = FALSE])
    /\ Saved("known", known')
    /\ blocks' = blocks \ {p}
    /\ UNCHANGED <<met, dubbed, butKnown>>

(* remember(), after a completed exchange; nothing new is not written.     *)
Remembered(p, n) == [value(p) EXCEPT !.alias = n, !.paired = TRUE]
remember(p, n) ==
    /\ Operation
    /\ known' = Put(p, Remembered(p, n))
    /\ IF known' = known THEN spent' = Done /\ UNCHANGED disk
       ELSE Saved("known", known')
    /\ met' = [met EXCEPT ![p] = n]
    /\ dubbed' = dubbed \ {p}
    /\ UNCHANGED <<blocks, butKnown>>

(* forget() and forgetAll(): the pairings go, the blocks stay.             *)
OnlyBlock == [NoEntry EXCEPT !.blocked = TRUE]
ForgottenWithBlock(ps) == [q \in DOMAIN known \ ps |-> known[q]]   \* a slip
Forgotten(ps) == [q \in {r \in DOMAIN known : r \in ps => known[r].blocked} |->
                     IF q \in ps THEN OnlyBlock ELSE known[q]]
Forget(ps) ==
    /\ Operation
    /\ known' = Forgotten(ps)
    /\ Saved("known", known')
    /\ met' = [p \in Peer |-> IF p \in ps THEN NoName ELSE met[p]]
    /\ dubbed' = dubbed \ ps
    /\ UNCHANGED <<blocks, butKnown>>

forget(p) == p \in DOMAIN known /\ Forget({p})
forgetAll == (\E p \in DOMAIN known : isKnown(p) \/ ~isBlocked(p)) /\ Forget(Peer)

StartUp == KeyAnswered \/ KeystoreFails \/ Load \/ RemoveUnusable
           \/ GenerateFirst \/ GenerateSecond \/ LoadModels
History == append \/ clear \/ \E row \in 1..MaxRecords : removeAt(row)
Catalogue == \/ forgetAll
             \/ \E p \in Peer : Unblock(p) \/ forget(p)
             \/ \E p \in Peer, n \in Name : Block(p, n) \/ remember(p, n)

Next == StartUp \/ Killed \/ SetSecureTransport \/ History \/ Catalogue

Spec == Init /\ [][Next]_vars

-----------------------------------------------------------------------------
(* Correctness.                                                            *)

Running == pc = "running"
KeystoreHeld == spent.outages = 0
NothingFailed == spent.outages = 0 /\ spent.losses = 0

(* The certificate presented and the key behind it belong together, after  *)
(* any crashes, failed writes and keystore outages: load() does not check, *)
(* so it rests on the order in which the two files come and go.            *)
IdentityIsAPair == me.cert = me.key

(* One install, one identity: as long as the keystore answers, peers only  *)
(* ever see one certificate, over restarts, crashes in the middle of       *)
(* making it, failed writes and the step from plain files to sealed ones.  *)
IdentityIsStable == KeystoreHeld => Cardinality(shown) <= 1

(* A kill costs nothing: in the event loop the files say what memory says, *)
(* so whatever save() wrote, in the form and under the key load() wants.   *)
KillLosesNothing ==
    Running /\ NothingFailed =>
        /\ log = IF Readable(disk.history) THEN disk.history.data ELSE <<>>
        /\ known = IF Readable(disk.known) THEN Entries(disk.known.data) ELSE NoEntries
        /\ Len(log) <= MaxRecords

(* A device is refused exactly while the user wants it blocked and trusted *)
(* exactly while there is an exchange with it that was not forgotten: no   *)
(* sequence of blocking, forgetting, meeting again and restarting mixes up *)
(* the two, and a catalogue from before blocking counts in full.           *)
CatalogueIsFaithful ==
    Running /\ NothingFailed =>
        \A p \in Peer : /\ isBlocked(p) <=> p \in blocks
                        /\ isKnown(p) <=> met[p] # NoName

(* The impersonation warning: a strange key using the name of a device the *)
(* user has met is reported, and only then, except for devices that were   *)
(* given a new name by blocking them.                                      *)
WarningIsFounded ==
    Running /\ NothingFailed =>
        \A p \in Peer, n \in Name :
            /\ conflicts(p, n) => \E q \in Peer : met[q] = n \/ q \in dubbed
            /\ met[p] = NoName /\ (\E q \in Peer \ dubbed : met[q] = n) => conflicts(p, n)

(* expectedFingerprint()'s comment: only pairings speak to what a name     *)
(* meant before, never the name a device used when it was blocked.         *)
OnlyPairingsSpeak ==
    Running /\ NothingFailed =>
        \A p \in Peer, n \in Name : conflicts(p, n) => \E q \in Peer : met[q] = n

=============================================================================
