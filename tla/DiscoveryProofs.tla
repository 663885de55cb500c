-------------------------- MODULE DiscoveryProofs ---------------------------
(* Theorems about Discovery, for every value of its constants.             *)
EXTENDS Discovery, Loops, FiniteSetTheorems, SequenceTheorems, TLAPS

(* Where we are stays what it is, and nothing is heard that its network    *)
(* does not have.                                                          *)
Here == network \in Networks /\ own \in network.ours

LEMMA OfNetwork ==
    ASSUME Here
    PROVE  /\ own \in Fingerprint /\ network.ours \subseteq Fingerprint
           /\ network.heard \subseteq Fingerprint /\ network.names \subseteq Alias
           /\ network.senders \subseteq Address /\ network.targets \subseteq Nat
           /\ network.typed \subseteq Endpoint
BY DiscoveryAssumption DEF Here

LEMMA HereAtStart == Init => Here
BY DEF Init, Here

LEMMA HereNext == Here /\ [Next]_vars => Here'
<1> SUFFICES ASSUME Here, [Next]_vars PROVE Here'
  OBVIOUS
<1>1. CASE UNCHANGED ownVars
  BY <1>1 DEF ownVars, Here
<1>2. CASE refresh \/ ReceiveEnabledChanged \/ AnnounceTimer \/ BurstTimer \/ Tick \/ RegisterReply
  BY <1>1, <1>2 DEF refresh, ReceiveEnabledChanged, AnnounceTimer, BurstTimer, Tick, RegisterReply
<1>3. CASE cancelScan \/ onScanReplyFinished \/ ManualReply
  BY <1>1, <1>3 DEF cancelScan, onScanReplyFinished, ManualReply, onManualReplyFinished
<1>4. ASSUME NEW size \in network.targets, scanSubnet(size) PROVE Here'
  BY <1>1, <1>4 DEF scanSubnet
<1>5. ASSUME NEW fp \in network.heard, setBlocked(fp) PROVE Here'
  BY <1>1, <1>5 DEF setBlocked
<1>6. ASSUME NEW fp \in network.ours, setSecureTransport(fp) PROVE Here'
  BY <1>6 DEF setSecureTransport, Here
<1>7. ASSUME NEW e \in network.typed, addDeviceAt(e) \/ removeManualDevice(e) PROVE Here'
  BY <1>1, <1>7 DEF addDeviceAt, removeManualDevice
<1>8. ASSUME NEW fp \in network.heard, NEW alias \in network.names, NEW a \in network.senders,
             NEW announcing \in BOOLEAN, Datagram(fp, alias, a, announcing)
      PROVE  Here'
  BY <1>1, <1>8 DEF Datagram
<1>9. ASSUME NEW fp \in network.heard, NEW alias \in network.names, registerPeer(fp, alias)
      PROVE  Here'
  BY <1>1, <1>9 DEF registerPeer
<1>10. CASE UNCHANGED vars
  BY <1>1, <1>10 DEF vars
<1>11. QED
  BY <1>2, <1>3, <1>4, <1>5, <1>6, <1>7, <1>8, <1>9, <1>10 DEF Next, User, Network

-----------------------------------------------------------------------------
(* The sweep: its counters with their types.                               *)
ScanType == /\ scanning \in BOOLEAN /\ cancelled \in BOOLEAN
            /\ scanQueue \in Nat /\ scanInFlight \in Nat
            /\ scanDone \in Nat /\ scanTotal \in Nat /\ probes \in Nat
ScanInv == ScanType /\ ScanAddsUp

(* A pump with something to wait for, and every target accounted for up to *)
(* what a cancel has dropped, leaves counters that add up.                 *)
LEMMA Pumped ==
    ASSUME NEW q \in Nat, NEW f \in Nat, NEW d \in Nat, NEW t \in Nat,
           f <= ScanWindow, d + f + q <= t,
           pumpScanQueue(q, f, d, t)
    PROVE  /\ scanning' \in BOOLEAN /\ scanQueue' \in Nat /\ scanInFlight' \in Nat
           /\ scanDone' \in Nat /\ scanTotal' \in Nat
           /\ f <= scanInFlight' /\ scanInFlight' <= ScanWindow
           /\ ~scanning' => scanInFlight' = 0 /\ scanQueue' = 0
           /\ scanning' => /\ scanInFlight' > 0
                           /\ scanDone' + scanInFlight' + scanQueue' = d + f + q
                           /\ scanTotal' = t
<1> DEFINE n == Batch(q, f)
           over == Drained(q - n, f + n, d, t)
<1>1. ScanWindow \in Nat \ {0}
  BY DiscoveryAssumption
<1>2. n \in Nat /\ n <= q /\ f + n <= ScanWindow /\ (q - n > 0 => f + n = ScanWindow)
  BY <1>1 DEF Batch
<1>3. over \in BOOLEAN /\ (over <=> q - n = 0 /\ f + n = 0)
  BY DEF Drained
<1>4. /\ scanQueue' = q - n /\ scanInFlight' = f + n /\ scanning' = ~over
      /\ scanDone' = IF over THEN 0 ELSE d
      /\ scanTotal' = IF over THEN 0 ELSE t
  BY DEF pumpScanQueue
<1> HIDE DEF n, over
<1>5. scanning' \in BOOLEAN /\ (scanning' <=> ~over)
  BY <1>3, <1>4, Zenon
<1>6. CASE over
  <2>1. scanQueue' = 0 /\ scanInFlight' = 0 /\ scanDone' = 0 /\ scanTotal' = 0 /\ f = 0
    BY <1>2, <1>3, <1>4, <1>6
  <2>2. QED
    BY <1>1, <1>5, <1>6, <2>1
<1>7. CASE ~over
  <2>1. scanQueue' = q - n /\ scanInFlight' = f + n /\ scanDone' = d /\ scanTotal' = t
    BY <1>4, <1>7
  <2>2. scanInFlight' > 0
    BY <1>1, <1>2, <1>3, <1>7, <2>1
  <2>3. QED
    BY <1>1, <1>2, <1>5, <1>7, <2>1, <2>2
<1>8. QED
  BY <1>6, <1>7

(* Arithmetic on counters.                                                 *)
LEMMA NothingMore == ASSUME NEW x \in Nat, NEW z, z = 0 PROVE z + x = x
  OBVIOUS
LEMMA Refilled == ASSUME NEW f \in Nat, NEW x \in Nat PROVE f - 1 + (x - (f - 1)) = x
  OBVIOUS
LEMMA SumBounds ==
    ASSUME NEW x \in Nat, NEW y \in Nat, NEW z \in Nat, NEW t, x + y + z = t
    PROVE  x + y + z <= t
  OBVIOUS

LEMMA ScanSubnetStep ==
    ASSUME ScanInv, NEW size \in Nat, scanSubnet(size)
    PROVE  ScanInv'
<1>1. size \in Nat /\ size > 0 /\ ~scanning /\ pumpScanQueue(size, 0, 0, size)
  BY DiscoveryAssumption DEF scanSubnet
<1>2. probes = 0 /\ probes' = probes + scanInFlight'
  BY <1>1 DEF scanSubnet, ScanInv, ScanAddsUp
<1>3. ScanWindow \in Nat \ {0}
  BY DiscoveryAssumption
<1>4. /\ scanning' \in BOOLEAN /\ scanQueue' \in Nat /\ scanInFlight' \in Nat
      /\ scanDone' \in Nat /\ scanTotal' \in Nat
      /\ scanInFlight' <= ScanWindow
      /\ ~scanning' => scanInFlight' = 0 /\ scanQueue' = 0
      /\ scanning' => /\ scanInFlight' > 0
                      /\ scanDone' + scanInFlight' + scanQueue' = 0 + 0 + size
                      /\ scanTotal' = size
  BY <1>1, <1>3, Pumped
<1>5. cancelled' \in BOOLEAN
  BY Zenon DEF scanSubnet
<1>n. scanQueue' \in Nat /\ scanInFlight' \in Nat /\ scanDone' \in Nat /\ scanTotal' \in Nat
  BY <1>4, Zenon
<1>6. probes' = scanInFlight' /\ probes' \in Nat
  <2>1. probes + scanInFlight' = scanInFlight'
    BY <1>2, <1>n, NothingMore
  <2>2. QED
    BY <1>2, <1>n, <2>1, Zenon
<1>7. ASSUME scanning' PROVE scanDone' + scanInFlight' + scanQueue' = scanTotal'
  <2>1. scanDone' + scanInFlight' + scanQueue' = 0 + 0 + size /\ scanTotal' = size
    BY <1>4, <1>7, Zenon
  <2>2. size \in Nat
    BY <1>1, Zenon
  <2>3. QED
    BY <2>1, <2>2
<1>8. ASSUME scanning' PROVE scanDone' + scanInFlight' + scanQueue' <= scanTotal'
  <2>1. scanDone' + scanInFlight' + scanQueue' = scanTotal'
    BY <1>7, <1>8
  <2>2. QED
    BY <1>n, <2>1, SumBounds
<1>9. ScanType'
  BY <1>4, <1>5, <1>6, Zenon DEF ScanType
<1>10. ScanAddsUp'
  BY <1>4, <1>6, <1>7, <1>8, Zenon DEF ScanAddsUp
<1>11. QED
  BY <1>9, <1>10 DEF ScanInv

LEMMA ScanReplyStep ==
    ASSUME ScanInv, onScanReplyFinished
    PROVE  ScanInv'
<1>1. scanInFlight > 0 /\ scanning
  BY DEF onScanReplyFinished, ScanInv, ScanType, ScanAddsUp
<1>2. /\ pumpScanQueue(scanQueue, scanInFlight - 1, scanDone + 1, scanTotal)
      /\ probes' = probes - 1 + (scanInFlight' - (scanInFlight - 1))
      /\ cancelled' = cancelled
  BY <1>1 DEF onScanReplyFinished
<1>p. probes' = probes - 1 + (scanInFlight' - (scanInFlight - 1))
  BY <1>2, Zenon
<1>3. /\ scanQueue \in Nat /\ scanInFlight - 1 \in Nat /\ scanDone + 1 \in Nat
      /\ scanTotal \in Nat /\ scanInFlight - 1 <= ScanWindow
      /\ (scanDone + 1) + (scanInFlight - 1) + scanQueue <= scanTotal
  BY <1>1, DiscoveryAssumption DEF ScanInv, ScanType, ScanAddsUp
<1>4. /\ scanning' \in BOOLEAN /\ scanQueue' \in Nat /\ scanInFlight' \in Nat
      /\ scanDone' \in Nat /\ scanTotal' \in Nat
      /\ scanInFlight' <= ScanWindow
      /\ ~scanning' => scanInFlight' = 0 /\ scanQueue' = 0
      /\ scanning' => /\ scanInFlight' > 0
                      /\ scanDone' + scanInFlight' + scanQueue'
                            = (scanDone + 1) + (scanInFlight - 1) + scanQueue
                      /\ scanTotal' = scanTotal
  BY <1>2, <1>3, Pumped
<1>5. cancelled' \in BOOLEAN /\ (cancelled' <=> cancelled)
  BY <1>2, Zenon DEF ScanInv, ScanType
<1>n. scanInFlight' \in Nat /\ probes = scanInFlight /\ scanInFlight \in Nat
  BY <1>4, Zenon DEF ScanInv, ScanType, ScanAddsUp
<1>6. probes' = scanInFlight' /\ probes' \in Nat
  <2>1. probes - 1 + (scanInFlight' - (scanInFlight - 1)) = scanInFlight'
    BY <1>n, Refilled
  <2>2. QED
    BY <1>p, <1>n, <2>1, Zenon
<1>7. scanning' => scanDone' + scanInFlight' + scanQueue' <= scanTotal'
  BY <1>3, <1>4
<1>8. ASSUME scanning', ~cancelled' PROVE scanDone' + scanInFlight' + scanQueue' = scanTotal'
  <2>1. scanDone + scanInFlight + scanQueue = scanTotal
    BY <1>1, <1>5, <1>8 DEF ScanInv, ScanAddsUp
  <2>2. (scanDone + 1) + (scanInFlight - 1) + scanQueue = scanTotal
    BY <2>1, <1>3 DEF ScanInv, ScanType
  <2>3. QED
    BY <2>2, <1>4, <1>8
<1>9. ScanType'
  BY <1>4, <1>5, <1>6, Zenon DEF ScanType
<1>10. ScanAddsUp'
  BY <1>4, <1>6, <1>7, <1>8, Zenon DEF ScanAddsUp
<1>11. QED
  BY <1>9, <1>10 DEF ScanInv

LEMMA CancelScanStep ==
    ASSUME ScanInv, cancelScan
    PROVE  ScanInv'
<1>1. scanInFlight > 0
  BY DEF cancelScan, ScanInv, ScanAddsUp
<1>p. scanInFlight # 0
  BY <1>1 DEF ScanInv, ScanType
<1>2. scanning' = TRUE /\ cancelled' = TRUE
  BY <1>p, Zenon DEF cancelScan
<1>3. /\ scanQueue' = 0 /\ scanInFlight' = scanInFlight /\ probes' = probes
      /\ scanDone' = scanDone /\ scanTotal' = scanTotal
  BY <1>1 DEF cancelScan, ScanInv, ScanType
<1>4. scanDone + scanInFlight + 0 <= scanTotal
  BY DEF cancelScan, ScanInv, ScanType, ScanAddsUp
<1>5. scanning' \in BOOLEAN /\ cancelled' \in BOOLEAN /\ 0 \in Nat
  BY <1>2
<1>6. ScanType'
  BY <1>3, <1>5, Zenon DEF ScanInv, ScanType
<1>7. ScanAddsUp'
  BY <1>1, <1>2, <1>3, <1>4 DEF ScanInv, ScanAddsUp
<1>8. QED
  BY <1>6, <1>7 DEF ScanInv

(* Only the sweep's own steps touch its counters.                          *)
LEMMA ScanNext == Here /\ ScanInv /\ [Next]_vars => ScanInv'
<1> SUFFICES ASSUME Here, ScanInv, [Next]_vars PROVE ScanInv'
  OBVIOUS
<1>1. ASSUME NEW size \in network.targets, scanSubnet(size) PROVE ScanInv'
  BY <1>1, OfNetwork, ScanSubnetStep
<1>2. CASE onScanReplyFinished
  BY <1>2, ScanReplyStep
<1>3. CASE cancelScan
  BY <1>3, CancelScanStep
<1>4. CASE UNCHANGED scanVars
  BY <1>4 DEF scanVars, ScanInv, ScanType, ScanAddsUp
<1>5. CASE refresh \/ ReceiveEnabledChanged \/ AnnounceTimer \/ BurstTimer \/ Tick \/ RegisterReply
  BY <1>4, <1>5 DEF refresh, ReceiveEnabledChanged, AnnounceTimer, BurstTimer, Tick, RegisterReply
<1>6. ASSUME NEW fp \in network.heard, setBlocked(fp) PROVE ScanInv'
  BY <1>4, <1>6 DEF setBlocked
<1>7. ASSUME NEW e \in network.typed, addDeviceAt(e) \/ removeManualDevice(e) PROVE ScanInv'
  BY <1>4, <1>7 DEF addDeviceAt, removeManualDevice
<1>8. CASE ManualReply
  BY <1>4, <1>8 DEF ManualReply, onManualReplyFinished
<1>9. ASSUME NEW fp \in network.heard, NEW alias \in network.names, NEW a \in network.senders,
             NEW announcing \in BOOLEAN, Datagram(fp, alias, a, announcing)
      PROVE  ScanInv'
  BY <1>4, <1>9 DEF Datagram
<1>10. ASSUME NEW fp \in network.heard, NEW alias \in network.names, registerPeer(fp, alias)
       PROVE  ScanInv'
  BY <1>4, <1>10 DEF registerPeer
<1>11. CASE UNCHANGED vars
  BY <1>4, <1>11 DEF vars
<1>12. ASSUME NEW fp \in network.ours, setSecureTransport(fp) PROVE ScanInv'
  BY <1>4, <1>12 DEF setSecureTransport
<1>13. QED
  BY <1>1, <1>2, <1>3, <1>5, <1>6, <1>7, <1>8, <1>9, <1>10, <1>11, <1>12
     DEF Next, User, Network

(* pumpScanQueue() and its callers: for any window and any number of       *)
(* targets the counters tell the truth, through cancel and restart.        *)
THEOREM ScanCounted == Spec => []ScanAddsUp
<1>1. Init => ScanInv
  <2> SUFFICES ASSUME Init PROVE ScanInv
    OBVIOUS
  <2>1. scanning \in BOOLEAN /\ cancelled \in BOOLEAN /\ scanning = FALSE
    BY Zenon DEF Init
  <2>2. scanQueue = 0 /\ scanInFlight = 0 /\ scanDone = 0 /\ scanTotal = 0 /\ probes = 0
    BY DEF Init
  <2>3. QED
    BY <2>1, <2>2, DiscoveryAssumption DEF ScanInv, ScanType, ScanAddsUp
<1>2. ScanInv => ScanAddsUp
  BY DEF ScanInv
<1>3. QED
  BY <1>1, <1>2, HereAtStart, HereNext, ScanNext, PTL DEF Spec

-----------------------------------------------------------------------------
(* The look-up: what it waits for is a finite set of requests.             *)
LookupInv == LookupIsOwn /\ IsFiniteSet(lookups)

LEMMA AddDeviceAtStep ==
    ASSUME LookupInv, NEW e \in Endpoint, addDeviceAt(e)
    PROVE  LookupInv'
<1>1. lookups = {}
  BY FS_EmptySet DEF addDeviceAt, LookupInv, LookupIsOwn
<1>2. lookups' = {<<e, "https">>} \cup {<<e, "http">>}
  BY <1>1 DEF addDeviceAt, Scheme
<1>3. IsFiniteSet({<<e, "https">>}) /\ Cardinality({<<e, "https">>}) = 1
  BY FS_Singleton
<1>4. <<e, "http">> \notin {<<e, "https">>}
  OBVIOUS
<1>5. IsFiniteSet(lookups') /\ Cardinality(lookups') = 2
  <2>1. /\ IsFiniteSet(lookups')
        /\ Cardinality(lookups') = Cardinality({<<e, "https">>}) + 1
    BY <1>2, <1>3, <1>4, FS_AddElement, Zenon
  <2>2. QED
    BY <1>3, <2>1
<1>6. QED
  BY <1>2, <1>5 DEF addDeviceAt, LookupInv, LookupIsOwn

LEMMA ManualReplyStep ==
    ASSUME LookupInv, NEW l \in lookups, onManualReplyFinished(l)
    PROVE  LookupInv'
<1>1. lookups' = lookups \ {l} /\ manualPending' = manualPending - 1
  BY DEF onManualReplyFinished
<1>2. IsFiniteSet(lookups') /\ Cardinality(lookups') = Cardinality(lookups) - 1
  BY <1>1, FS_RemoveElement DEF LookupInv
<1>3. manualEndpoint' = manualEndpoint /\ l[1] = manualEndpoint
  BY DEF onManualReplyFinished, LookupInv, LookupIsOwn
<1>4. manualDevices' \subseteq reached'
  BY <1>3 DEF onManualReplyFinished, LookupInv, LookupIsOwn
<1>5. QED
  BY <1>1, <1>2, <1>3, <1>4 DEF LookupInv, LookupIsOwn

(* Only the look-up's own steps touch its state.                           *)
LEMMA LookupNext == Here /\ LookupInv /\ [Next]_vars => LookupInv'
<1> SUFFICES ASSUME Here, LookupInv, [Next]_vars PROVE LookupInv'
  OBVIOUS
<1>1. CASE UNCHANGED manualVars
  BY <1>1 DEF manualVars, LookupInv, LookupIsOwn
<1>2. ASSUME NEW e \in network.typed, addDeviceAt(e) PROVE LookupInv'
  BY <1>2, OfNetwork, AddDeviceAtStep
<1>3. ASSUME NEW e \in network.typed, removeManualDevice(e) PROVE LookupInv'
  BY <1>3 DEF removeManualDevice, LookupInv, LookupIsOwn
<1>4. CASE ManualReply
  BY <1>4, ManualReplyStep DEF ManualReply
<1>5. CASE refresh \/ ReceiveEnabledChanged \/ AnnounceTimer \/ BurstTimer \/ Tick \/ RegisterReply
  BY <1>1, <1>5 DEF refresh, ReceiveEnabledChanged, AnnounceTimer, BurstTimer, Tick, RegisterReply
<1>6. CASE cancelScan \/ onScanReplyFinished
  BY <1>1, <1>6 DEF cancelScan, onScanReplyFinished
<1>7. ASSUME NEW size \in network.targets, scanSubnet(size) PROVE LookupInv'
  BY <1>1, <1>7 DEF scanSubnet
<1>8. ASSUME NEW fp \in network.heard, setBlocked(fp) PROVE LookupInv'
  BY <1>1, <1>8 DEF setBlocked
<1>9. ASSUME NEW fp \in network.heard, NEW alias \in network.names, NEW a \in network.senders,
             NEW announcing \in BOOLEAN, Datagram(fp, alias, a, announcing)
      PROVE  LookupInv'
  BY <1>1, <1>9 DEF Datagram
<1>10. ASSUME NEW fp \in network.heard, NEW alias \in network.names, registerPeer(fp, alias)
       PROVE  LookupInv'
  BY <1>1, <1>10 DEF registerPeer
<1>11. CASE UNCHANGED vars
  BY <1>1, <1>11 DEF vars
<1>12. ASSUME NEW fp \in network.ours, setSecureTransport(fp) PROVE LookupInv'
  BY <1>1, <1>12 DEF setSecureTransport
<1>13. QED
  BY <1>2, <1>3, <1>4, <1>5, <1>6, <1>7, <1>8, <1>9, <1>10, <1>11, <1>12
     DEF Next, User, Network

(* addDeviceAt() and onManualReplyFinished(): a look-up waits for its own  *)
(* two requests, and only an address that answered is kept.                *)
THEOREM LookupOwned == Spec => []LookupIsOwn
<1>1. Init => LookupInv
  BY FS_EmptySet DEF Init, LookupInv, LookupIsOwn
<1>2. LookupInv => LookupIsOwn
  BY DEF LookupInv
<1>3. QED
  BY <1>1, <1>2, HereAtStart, HereNext, LookupNext, PTL DEF Spec

-----------------------------------------------------------------------------
(* Answers: what the table of responders remembers is what happened, for   *)
(* every address it was not made to forget.                                *)
AnswerType ==
    /\ IsFiniteSet(DOMAIN lastResponse) /\ DOMAIN lastResponse \subseteq Address
    /\ \A a \in DOMAIN lastResponse : lastResponse[a] \in 0..Cooldown
    /\ quiet \in [Address -> 0..Cooldown] /\ forgotten \subseteq Address
Remembered ==
    \A a \in Address : quiet[a] < Cooldown /\ a \notin forgotten =>
        a \in DOMAIN lastResponse /\ lastResponse[a] = quiet[a]
AnswerInv == AnswerType /\ Remembered /\ AnswersAreSpaced

LEMMA RespondToStep ==
    ASSUME AnswerInv, NEW a \in Address, ~Cooling(a), respondTo(a)
    PROVE  AnswerInv'
<1> DEFINE full == Cardinality(DOMAIN lastResponse) >= MaxTracked
           kept == IF full THEN {} ELSE DOMAIN lastResponse
<1>1. /\ lastResponse' = [b \in kept \cup {a} |-> IF b = a THEN 0 ELSE lastResponse[b]]
      /\ forgotten' = (forgotten \cup (DOMAIN lastResponse \ kept)) \ {a}
      /\ quiet' = [quiet EXCEPT ![a] = 0]
      /\ hasty' = (hasty \/ TooSoon(a))
  BY DEF respondTo
<1>2. /\ IsFiniteSet(DOMAIN lastResponse) /\ DOMAIN lastResponse \subseteq Address
      /\ \A b \in DOMAIN lastResponse : lastResponse[b] \in 0..Cooldown
      /\ quiet \in [Address -> 0..Cooldown] /\ forgotten \subseteq Address
      /\ ~hasty /\ Cardinality(DOMAIN lastResponse) <= MaxTracked
  BY DEF AnswerInv, AnswerType, AnswersAreSpaced
<1>c. Cooldown \in Nat /\ MaxTracked \in Nat \ {0}
  BY DiscoveryAssumption
<1>3. IsFiniteSet(kept) /\ Cardinality(kept) \in Nat /\ Cardinality(kept) < MaxTracked
  <2>1. Cardinality(DOMAIN lastResponse) \in Nat
    BY <1>2, FS_CardinalityType
  <2>2. IsFiniteSet({}) /\ Cardinality({}) = 0
    BY FS_EmptySet
  <2>3. QED
    BY <1>2, <1>c, <2>1, <2>2
<1>4. kept \subseteq DOMAIN lastResponse
  OBVIOUS
<1> HIDE DEF kept
<1>5. /\ IsFiniteSet(kept \cup {a})
      /\ \/ Cardinality(kept \cup {a}) = Cardinality(kept)
         \/ Cardinality(kept \cup {a}) = Cardinality(kept) + 1
  BY <1>3, FS_AddElement, Zenon
<1>6. DOMAIN lastResponse' = kept \cup {a}
  BY <1>1
<1>7. \A b \in kept \cup {a} : lastResponse'[b] = IF b = a THEN 0 ELSE lastResponse[b]
  BY <1>1
<1>8. AnswerType'
  <2>1. quiet' \in [Address -> 0..Cooldown]
    BY <1>1, <1>2, <1>c
  <2>2. forgotten' \subseteq Address
    BY <1>1, <1>2
  <2>3. \A b \in DOMAIN lastResponse' : lastResponse'[b] \in 0..Cooldown
    BY <1>2, <1>4, <1>6, <1>7, <1>c
  <2>4. IsFiniteSet(DOMAIN lastResponse') /\ DOMAIN lastResponse' \subseteq Address
    BY <1>2, <1>4, <1>5, <1>6
  <2>5. QED
    BY <2>1, <2>2, <2>3, <2>4 DEF AnswerType
<1>9. Remembered'
  <2> SUFFICES ASSUME NEW b \in Address, quiet'[b] < Cooldown, b \notin forgotten'
               PROVE  b \in DOMAIN lastResponse' /\ lastResponse'[b] = quiet'[b]
    BY Zenon DEF Remembered
  <2>1. CASE b = a
    BY <1>1, <1>2, <1>6, <1>7, <2>1
  <2>2. CASE b # a
    <3>1. quiet'[b] = quiet[b] /\ b \notin forgotten /\ ~(b \in DOMAIN lastResponse /\ b \notin kept)
      BY <1>1, <1>2, <2>2
    <3>2. b \in DOMAIN lastResponse /\ lastResponse[b] = quiet[b]
      BY <3>1 DEF AnswerInv, Remembered
    <3>3. QED
      BY <1>6, <1>7, <2>2, <3>1, <3>2
  <2>3. QED
    BY <2>1, <2>2
<1>10. ~hasty'
  <2>1. ~TooSoon(a)
    BY DEF TooSoon, Cooling, AnswerInv, Remembered
  <2>2. QED
    BY <1>1, <1>2, <2>1, Zenon
<1>11. Cardinality(DOMAIN lastResponse') <= MaxTracked
  BY <1>3, <1>5, <1>6, <1>c
<1>12. QED
  BY <1>8, <1>9, <1>10, <1>11, Zenon DEF AnswerInv, AnswersAreSpaced

(* Both clocks run alike, so they stay equal where they were.              *)
LEMMA AnswerTick ==
    ASSUME AnswerInv, Tick
    PROVE  AnswerInv'
<1>1. /\ lastResponse' = Later(lastResponse) /\ quiet' = Later(quiet)
      /\ forgotten' = forgotten /\ hasty' = hasty
  BY DEF Tick
<1>2. /\ DOMAIN lastResponse' = DOMAIN lastResponse
      /\ \A a \in DOMAIN lastResponse : lastResponse'[a]
            = IF lastResponse[a] < Cooldown THEN lastResponse[a] + 1 ELSE Cooldown
  BY <1>1 DEF Later
<1>3. /\ quiet' = [a \in Address |-> IF quiet[a] < Cooldown THEN quiet[a] + 1 ELSE Cooldown]
  BY <1>1 DEF Later, AnswerInv, AnswerType
<1>c. Cooldown \in Nat
  BY DiscoveryAssumption
<1>4. AnswerType'
  <2>1. quiet' \in [Address -> 0..Cooldown]
    BY <1>3, <1>c DEF AnswerInv, AnswerType
  <2>2. \A a \in DOMAIN lastResponse' : lastResponse'[a] \in 0..Cooldown
    BY <1>2, <1>c DEF AnswerInv, AnswerType
  <2>3. QED
    BY <1>1, <1>2, <2>1, <2>2 DEF AnswerInv, AnswerType
<1>5. Remembered'
  <2> SUFFICES ASSUME NEW a \in Address, quiet'[a] < Cooldown, a \notin forgotten'
               PROVE  a \in DOMAIN lastResponse' /\ lastResponse'[a] = quiet'[a]
    BY Zenon DEF Remembered
  <2>1. quiet[a] \in 0..Cooldown
    BY DEF AnswerInv, AnswerType
  <2>2. quiet[a] < Cooldown /\ quiet'[a] = quiet[a] + 1
    BY <1>3, <1>c, <2>1
  <2>3. a \in DOMAIN lastResponse /\ lastResponse[a] = quiet[a]
    BY <1>1, <2>2 DEF AnswerInv, Remembered
  <2>4. QED
    BY <1>2, <2>2, <2>3
<1>6. QED
  BY <1>1, <1>2, <1>4, <1>5, Zenon DEF AnswerInv, AnswersAreSpaced

LEMMA AnswerNext == Here /\ AnswerInv /\ [Next]_vars => AnswerInv'
<1> SUFFICES ASSUME Here, AnswerInv, [Next]_vars PROVE AnswerInv'
  OBVIOUS
<1>1. CASE UNCHANGED answerVars
  BY <1>1 DEF answerVars, AnswerInv, AnswerType, Remembered, AnswersAreSpaced
<1>2. CASE Tick
  BY <1>2, AnswerTick
<1>3. ASSUME NEW fp \in network.heard, NEW alias \in network.names, NEW a \in network.senders,
             NEW announcing \in BOOLEAN, Datagram(fp, alias, a, announcing)
      PROVE  AnswerInv'
  BY <1>1, <1>3, OfNetwork, RespondToStep DEF Datagram
<1>4. CASE refresh \/ ReceiveEnabledChanged \/ AnnounceTimer \/ BurstTimer \/ RegisterReply
  BY <1>1, <1>4 DEF refresh, ReceiveEnabledChanged, AnnounceTimer, BurstTimer, RegisterReply
<1>5. CASE cancelScan \/ onScanReplyFinished \/ ManualReply
  BY <1>1, <1>5 DEF cancelScan, onScanReplyFinished, ManualReply, onManualReplyFinished
<1>6. ASSUME NEW size \in network.targets, scanSubnet(size) PROVE AnswerInv'
  BY <1>1, <1>6 DEF scanSubnet
<1>7. ASSUME NEW fp \in network.heard, setBlocked(fp) PROVE AnswerInv'
  BY <1>1, <1>7 DEF setBlocked
<1>8. ASSUME NEW e \in network.typed, addDeviceAt(e) \/ removeManualDevice(e) PROVE AnswerInv'
  BY <1>1, <1>8 DEF addDeviceAt, removeManualDevice
<1>9. ASSUME NEW fp \in network.heard, NEW alias \in network.names, registerPeer(fp, alias)
       PROVE  AnswerInv'
  BY <1>1, <1>9 DEF registerPeer
<1>10. CASE UNCHANGED vars
  BY <1>1, <1>10 DEF vars
<1>11. ASSUME NEW fp \in network.ours, setSecureTransport(fp) PROVE AnswerInv'
  BY <1>1, <1>11 DEF setSecureTransport
<1>12. QED
  BY <1>2, <1>3, <1>4, <1>5, <1>6, <1>7, <1>8, <1>9, <1>10, <1>11
     DEF Next, User, Network

(* respondTo(): for any cooldown and any size of the table, no address is  *)
(* answered again too soon, unless the table was emptied in between, and   *)
(* the table keeps its bound.                                              *)
THEOREM AnswersSpaced == Spec => []AnswersAreSpaced
<1>1. Init => AnswerInv
  <2> SUFFICES ASSUME Init PROVE AnswerInv
    OBVIOUS
  <2>1. DOMAIN lastResponse = {} /\ forgotten = {} /\ hasty = FALSE
    BY DEF Init
  <2>2. quiet = [a \in Address |-> Cooldown] /\ Cooldown \in Nat /\ MaxTracked \in Nat
    BY DiscoveryAssumption DEF Init
  <2>3. IsFiniteSet(DOMAIN lastResponse) /\ Cardinality(DOMAIN lastResponse) = 0
    BY <2>1, FS_EmptySet
  <2>4. AnswerType
    BY <2>1, <2>2, <2>3 DEF AnswerType
  <2>5. Remembered
    BY <2>2 DEF Remembered
  <2>6. QED
    BY <2>1, <2>2, <2>3, <2>4, <2>5 DEF AnswerInv, AnswersAreSpaced
<1>2. AnswerInv => AnswersAreSpaced
  BY DEF AnswerInv
<1>3. QED
  BY <1>1, <1>2, HereAtStart, HereNext, AnswerNext, PTL DEF Spec

-----------------------------------------------------------------------------
(* The list: rows in strict order, one per fingerprint, none of them self. *)
InOrder(list) ==
    \A i, j \in 1..Len(list) : i < j =>
        Behind(list[j], list[i]) /\ list[i].fingerprint # list[j].fingerprint
Proper(list, self) == /\ list \in Seq(Device) /\ InOrder(list)
                /\ \A i \in 1..Len(list) : list[i].fingerprint # self

(* Behind is a strict total order on devices with different fingerprints.  *)
LEMMA BehindOrders ==
    ASSUME NEW d \in Device, NEW e \in Device
    PROVE  /\ \A g \in Device : Behind(g, e) /\ Behind(e, d) => Behind(g, d)
           /\ d.fingerprint # e.fingerprint /\ ~Behind(e, d) => Behind(d, e)
<1>1. /\ \A x \in Device : x.alias \in Alias /\ x.fingerprint \in Fingerprint
      /\ \A x \in Device : Fold[x.alias] \in Nat /\ x.fingerprint \in Nat
  BY DeviceAssumption DEF Device
<1>2. QED
  BY <1>1 DEF Behind

LEMMA LeastOf ==
    ASSUME NEW I, I \subseteq Nat, I # {}
    PROVE  Min(I) \in I /\ \A i \in I : Min(I) <= i
  BY LeastExists DEF Min

(* The two loops that look for a row stop at the first that fits.          *)
LEMMA FirstWith ==
    ASSUME NEW list \in Seq(Device), NEW fp
    PROVE  \/ /\ indexOfFingerprint(list, fp) = 0
              /\ \A i \in 1..Len(list) : list[i].fingerprint # fp
           \/ /\ indexOfFingerprint(list, fp) \in 1..Len(list)
              /\ list[indexOfFingerprint(list, fp)].fingerprint = fp
<1> DEFINE I == {i \in 1..Len(list) : list[i].fingerprint = fp}
<1>1. indexOfFingerprint(list, fp) = IF I # {} THEN Min(I) ELSE 0
  BY DEF indexOfFingerprint, SelectInSeq
<1>2. I \subseteq Nat
  OBVIOUS
<1>3. I # {} => Min(I) \in I
  <2> HIDE DEF I
  <2> QED BY <1>2, LeastOf
<1>4. QED
  BY <1>1, <1>3

LEMMA PlaceOf ==
    ASSUME NEW list \in Seq(Device), NEW d
    PROVE  /\ insertionPoint(list, d) \in 1..(Len(list) + 1)
           /\ \A i \in 1..Len(list) : i < insertionPoint(list, d) => ~Behind(list[i], d)
           /\ insertionPoint(list, d) \in 1..Len(list) => Behind(list[insertionPoint(list, d)], d)
<1> DEFINE I == {i \in 1..Len(list) : Behind(list[i], d)}
           p == insertionPoint(list, d)
<1>0. Len(list) \in Nat
  OBVIOUS
<1>1. p = LET i == IF I # {} THEN Min(I) ELSE 0 IN IF i = 0 THEN Len(list) + 1 ELSE i
  BY DEF insertionPoint, SelectInSeq
<1>2. I \subseteq Nat /\ \A i \in I : i # 0
  BY <1>0
<1>3. I # {} => Min(I) \in I /\ \A i \in I : Min(I) <= i
  <2> HIDE DEF I
  <2> QED BY <1>2, LeastOf
<1>4. CASE I = {}
  <2>1. p = Len(list) + 1
    BY <1>1, <1>4
  <2> HIDE DEF p
  <2>2. \A i \in 1..Len(list) : ~Behind(list[i], d)
    BY <1>4
  <2>3. p \in 1..(Len(list) + 1) /\ p \notin 1..Len(list)
    BY <1>0, <2>1
  <2> QED BY <2>2, <2>3 DEF p
<1>5. CASE I # {}
  <2>1. p = Min(I) /\ p \in I /\ \A i \in I : p <= i
    BY <1>1, <1>2, <1>3, <1>5
  <2> HIDE DEF p
  <2>2. p \in 1..Len(list) /\ Behind(list[p], d)
    BY <2>1
  <2>3. \A i \in 1..Len(list) : i < p => ~Behind(list[i], d)
    BY <1>0, <2>1, <2>2
  <2>4. p \in 1..(Len(list) + 1)
    BY <1>0, <2>2
  <2> QED BY <2>2, <2>3, <2>4 DEF p
<1>6. QED
  BY <1>4, <1>5

(* Taking a row out and putting one in, row by row.                        *)
LEMMA RemovedRows ==
    ASSUME NEW list \in Seq(Device), NEW k \in 1..Len(list)
    PROVE  /\ RemoveAt(list, k) \in Seq(Device)
           /\ Len(RemoveAt(list, k)) = Len(list) - 1
           /\ \A i \in 1..(Len(list) - 1) :
                 RemoveAt(list, k)[i] = IF i < k THEN list[i] ELSE list[i + 1]
<1> DEFINE s == SubSeq(list, 1, k - 1)
           t == SubSeq(list, k + 1, Len(list))
<1>0. Len(list) \in Nat /\ k \in Nat /\ \A i \in 1..Len(list) : list[i] \in Device
  OBVIOUS
<1>1. /\ s \in Seq(Device) /\ Len(s) = k - 1
      /\ \A i \in 1..(k - 1) : s[i] = list[i]
  <2>1. 1 \in Int /\ k - 1 \in Int /\ \A i \in 1..(k - 1) : list[i] \in Device
    BY <1>0
  <2>2. /\ s \in Seq(Device) /\ Len(s) = IF 1 <= k - 1 THEN (k - 1) - 1 + 1 ELSE 0
        /\ \A i \in 1..((k - 1) - 1 + 1) : s[i] = list[1 + i - 1]
    BY <2>1, SubSeqProperties
  <2> HIDE DEF s
  <2> QED BY <1>0, <2>2
<1>2. /\ t \in Seq(Device) /\ Len(t) = Len(list) - k
      /\ \A i \in 1..(Len(list) - k) : t[i] = list[k + i]
  <2>1. k + 1 \in Int /\ Len(list) \in Int /\ \A i \in (k + 1)..Len(list) : list[i] \in Device
    BY <1>0
  <2>2. /\ t \in Seq(Device)
        /\ Len(t) = IF k + 1 <= Len(list) THEN Len(list) - (k + 1) + 1 ELSE 0
        /\ \A i \in 1..(Len(list) - (k + 1) + 1) : t[i] = list[(k + 1) + i - 1]
    BY <2>1, SubSeqProperties
  <2> HIDE DEF t
  <2>3. k <= Len(list)
    OBVIOUS
  <2> QED BY <1>0, <2>2, <2>3
<1>3. RemoveAt(list, k) = s \o t
  BY DEF RemoveAt
<1> HIDE DEF s, t
<1>4. /\ s \o t \in Seq(Device) /\ Len(s \o t) = Len(s) + Len(t)
      /\ \A i \in 1..(Len(s) + Len(t)) : (s \o t)[i] = IF i <= Len(s) THEN s[i] ELSE t[i - Len(s)]
  BY <1>1, <1>2, ConcatProperties
<1>5. Len(s) + Len(t) = Len(list) - 1
  BY <1>0, <1>1, <1>2
<1>6. ASSUME NEW i \in 1..(Len(list) - 1)
      PROVE  (s \o t)[i] = IF i < k THEN list[i] ELSE list[i + 1]
  <2>1. (s \o t)[i] = IF i <= k - 1 THEN s[i] ELSE t[i - (k - 1)]
    BY <1>1, <1>4, <1>5
  <2>2. CASE i < k
    BY <1>0, <1>1, <2>1, <2>2
  <2>3. CASE ~(i < k)
    <3>1. i - (k - 1) \in 1..(Len(list) - k) /\ k + (i - (k - 1)) = i + 1 /\ ~(i <= k - 1)
      BY <1>0, <2>3
    <3> QED BY <1>2, <2>1, <2>3, <3>1
  <2> QED BY <2>2, <2>3
<1>7. QED
  BY <1>3, <1>4, <1>5, <1>6

LEMMA InsertedRows ==
    ASSUME NEW list \in Seq(Device), NEW p \in 1..(Len(list) + 1), NEW d \in Device
    PROVE  /\ InsertAt(list, p, d) \in Seq(Device)
           /\ Len(InsertAt(list, p, d)) = Len(list) + 1
           /\ \A i \in 1..(Len(list) + 1) :
                 InsertAt(list, p, d)[i] = IF i < p THEN list[i] ELSE IF i = p THEN d ELSE list[i - 1]
<1> DEFINE s == SubSeq(list, 1, p - 1)
           t == SubSeq(list, p, Len(list))
           u == s \o <<d>>
<1>0. Len(list) \in Nat /\ p \in Nat /\ p >= 1 /\ p <= Len(list) + 1
      /\ \A i \in 1..Len(list) : list[i] \in Device
  OBVIOUS
<1>1. /\ s \in Seq(Device) /\ Len(s) = p - 1
      /\ \A i \in 1..(p - 1) : s[i] = list[i]
  <2>1. 1 \in Int /\ p - 1 \in Int /\ \A i \in 1..(p - 1) : list[i] \in Device
    BY <1>0
  <2>2. /\ s \in Seq(Device) /\ Len(s) = IF 1 <= p - 1 THEN (p - 1) - 1 + 1 ELSE 0
        /\ \A i \in 1..((p - 1) - 1 + 1) : s[i] = list[1 + i - 1]
    BY <2>1, SubSeqProperties
  <2> HIDE DEF s
  <2> QED BY <1>0, <2>2
<1>2. /\ t \in Seq(Device) /\ Len(t) = Len(list) - p + 1
      /\ \A i \in 1..(Len(list) - p + 1) : t[i] = list[p + i - 1]
  <2>1. p \in Int /\ Len(list) \in Int /\ \A i \in p..Len(list) : list[i] \in Device
    BY <1>0
  <2>2. /\ t \in Seq(Device)
        /\ Len(t) = IF p <= Len(list) THEN Len(list) - p + 1 ELSE 0
        /\ \A i \in 1..(Len(list) - p + 1) : t[i] = list[p + i - 1]
    BY <2>1, SubSeqProperties
  <2> HIDE DEF t
  <2> QED BY <1>0, <2>2
<1>3. InsertAt(list, p, d) = u \o t
  BY DEF InsertAt
<1> HIDE DEF s, t
<1>4. /\ u \in Seq(Device) /\ Len(u) = p
      /\ \A i \in 1..p : u[i] = IF i < p THEN list[i] ELSE d
  <2>1. <<d>> \in Seq(Device) /\ Len(<<d>>) = 1 /\ <<d>>[1] = d
    OBVIOUS
  <2>2. /\ u \in Seq(Device) /\ Len(u) = Len(s) + Len(<<d>>)
        /\ \A i \in 1..(Len(s) + Len(<<d>>)) : u[i] = IF i <= Len(s) THEN s[i] ELSE <<d>>[i - Len(s)]
    BY <1>1, <2>1, ConcatProperties
  <2> HIDE DEF u
  <2>3. Len(u) = p
    BY <1>0, <1>1, <2>1, <2>2
  <2>4. ASSUME NEW i \in 1..p PROVE u[i] = IF i < p THEN list[i] ELSE d
    <3>0. Len(s) = p - 1 /\ i \in 1..(Len(s) + Len(<<d>>))
      BY <1>0, <1>1, <2>1
    <3>1. u[i] = IF i <= p - 1 THEN s[i] ELSE <<d>>[i - (p - 1)]
      BY ONLY <2>2, <3>0
    <3>2. CASE i < p
      BY <1>0, <1>1, <3>1, <3>2
    <3>3. CASE ~(i < p)
      <4>1. i - (p - 1) = 1 /\ ~(i <= p - 1)
        BY <1>0, <3>3
      <4> QED BY <2>1, <3>1, <3>3, <4>1
    <3> QED BY <3>2, <3>3
  <2> QED BY <2>2, <2>3, <2>4
<1> HIDE DEF u
<1>5. /\ u \o t \in Seq(Device) /\ Len(u \o t) = Len(u) + Len(t)
      /\ \A i \in 1..(Len(u) + Len(t)) : (u \o t)[i] = IF i <= Len(u) THEN u[i] ELSE t[i - Len(u)]
  BY <1>2, <1>4, ConcatProperties
<1>6. Len(u) + Len(t) = Len(list) + 1
  BY <1>0, <1>2, <1>4
<1>7. ASSUME NEW i \in 1..(Len(list) + 1)
      PROVE  (u \o t)[i] = IF i < p THEN list[i] ELSE IF i = p THEN d ELSE list[i - 1]
  <2>1. (u \o t)[i] = IF i <= p THEN u[i] ELSE t[i - p]
    BY <1>4, <1>5, <1>6
  <2>2. CASE i <= p
    <3>1. i \in 1..p /\ ~(i < p) => i = p
      BY <1>0, <2>2
    <3> QED BY <1>0, <1>4, <2>1, <2>2, <3>1
  <2>3. CASE ~(i <= p)
    <3>1. i - p \in 1..(Len(list) - p + 1) /\ p + (i - p) - 1 = i - 1 /\ ~(i < p) /\ i # p
      BY <1>0, <2>3
    <3> QED BY <1>2, <2>1, <2>3, <3>1
  <2> QED BY <2>2, <2>3
<1>8. QED
  BY <1>3, <1>5, <1>6, <1>7

(* A proper list stays one without a row, and that row's device is gone.   *)
LEMMA ProperWithout ==
    ASSUME NEW self, NEW list, Proper(list, self), NEW k \in 1..Len(list)
    PROVE  /\ Proper(RemoveAt(list, k), self) /\ Len(RemoveAt(list, k)) = Len(list) - 1
           /\ \A i \in 1..Len(RemoveAt(list, k)) :
                 RemoveAt(list, k)[i].fingerprint # list[k].fingerprint
<1> DEFINE s == RemoveAt(list, k)
           old(i) == IF i < k THEN i ELSE i + 1
<1>1. list \in Seq(Device) /\ Len(list) \in Nat /\ k \in Nat
  BY DEF Proper
<1>2. /\ s \in Seq(Device) /\ Len(s) = Len(list) - 1
      /\ \A i \in 1..(Len(list) - 1) : s[i] = IF i < k THEN list[i] ELSE list[i + 1]
  BY <1>1, RemovedRows
<1> HIDE DEF s
<1>3. \A i \in 1..Len(s) : old(i) \in 1..Len(list) /\ s[i] = list[old(i)] /\ old(i) # k
  BY <1>1, <1>2
<1>4. \A i, j \in 1..Len(s) : i < j => old(i) < old(j)
  BY <1>1, <1>2
<1> HIDE DEF old
<1>5. InOrder(s)
  <2> SUFFICES ASSUME NEW i \in 1..Len(s), NEW j \in 1..Len(s), i < j
               PROVE  Behind(s[j], s[i]) /\ s[i].fingerprint # s[j].fingerprint
    BY DEF InOrder
  <2>1. /\ old(i) \in 1..Len(list) /\ old(j) \in 1..Len(list) /\ old(i) < old(j)
        /\ s[i] = list[old(i)] /\ s[j] = list[old(j)]
    BY <1>3, <1>4
  <2> QED BY <2>1 DEF Proper, InOrder
<1>6. \A i \in 1..Len(s) : s[i].fingerprint # self
  BY <1>3 DEF Proper
<1>7. ASSUME NEW i \in 1..Len(s) PROVE s[i].fingerprint # list[k].fingerprint
  <2>1. old(i) \in 1..Len(list) /\ (old(i) < k \/ k < old(i)) /\ s[i] = list[old(i)]
    BY <1>1, <1>3
  <2> QED BY <2>1 DEF Proper, InOrder
<1>8. QED
  BY <1>2, <1>5, <1>6, <1>7 DEF Proper, s

(* It stays one with a device that was not in it, put where it belongs.    *)
LEMMA ProperWith ==
    ASSUME NEW self, NEW list, Proper(list, self), NEW d \in Device, d.fingerprint # self,
           \A i \in 1..Len(list) : list[i].fingerprint # d.fingerprint
    PROVE  Proper(Inserted(list, d), self) /\ Len(Inserted(list, d)) = Len(list) + 1
<1> DEFINE p == insertionPoint(list, d)
           s == InsertAt(list, p, d)
<1>1. list \in Seq(Device) /\ Len(list) \in Nat /\ \A i \in 1..Len(list) : list[i] \in Device
  BY DEF Proper
<1>2. /\ p \in 1..(Len(list) + 1)
      /\ \A i \in 1..Len(list) : i < p => ~Behind(list[i], d)
      /\ p \in 1..Len(list) => Behind(list[p], d)
  BY <1>1, PlaceOf
<1> HIDE DEF p
<1>3. /\ s \in Seq(Device) /\ Len(s) = Len(list) + 1
      /\ \A i \in 1..(Len(list) + 1) :
            s[i] = IF i < p THEN list[i] ELSE IF i = p THEN d ELSE list[i - 1]
  BY <1>1, <1>2, InsertedRows
<1> HIDE DEF s
<1>4. \A i \in 1..Len(list) : i < p => Behind(d, list[i])
  BY <1>1, <1>2, BehindOrders
<1>5. ASSUME NEW i \in 1..Len(list), p <= i PROVE Behind(list[i], d)
  <2>1. p \in 1..Len(list) /\ Behind(list[p], d)
    BY <1>1, <1>2, <1>5
  <2>2. CASE i = p
    BY <2>1, <2>2
  <2>3. CASE i # p
    <3>1. p < i
      BY <1>2, <1>5, <2>3
    <3>2. Behind(list[i], list[p])
      BY <2>1, <3>1 DEF Proper, InOrder
    <3> QED BY <1>1, <2>1, <3>2, BehindOrders
  <2> QED BY <2>2, <2>3
<1>6. InOrder(s)
  <2> SUFFICES ASSUME NEW i \in 1..Len(s), NEW j \in 1..Len(s), i < j
               PROVE  Behind(s[j], s[i]) /\ s[i].fingerprint # s[j].fingerprint
    BY DEF InOrder
  <2>0. p \in Nat
    BY <1>2
  <2>1. CASE j < p
    <3>1. i \in 1..Len(list) /\ j \in 1..Len(list) /\ s[i] = list[i] /\ s[j] = list[j]
      BY <1>1, <1>2, <1>3, <2>0, <2>1
    <3> QED BY <3>1 DEF Proper, InOrder
  <2>2. CASE j = p
    <3>1. i \in 1..Len(list) /\ i < p /\ s[i] = list[i] /\ s[j] = d
      BY <1>1, <1>2, <1>3, <2>0, <2>2
    <3> QED BY <1>4, <3>1
  <2>3. CASE j > p /\ i < p
    <3>1. i \in 1..Len(list) /\ j - 1 \in 1..Len(list) /\ i < j - 1
          /\ s[i] = list[i] /\ s[j] = list[j - 1]
      BY <1>1, <1>2, <1>3, <2>0, <2>3
    <3> QED BY <3>1 DEF Proper, InOrder
  <2>4. CASE j > p /\ i = p
    <3>1. j - 1 \in 1..Len(list) /\ p <= j - 1 /\ s[i] = d /\ s[j] = list[j - 1]
      BY <1>1, <1>2, <1>3, <2>0, <2>4
    <3> QED BY <1>5, <3>1
  <2>5. CASE j > p /\ i > p
    <3>1. i - 1 \in 1..Len(list) /\ j - 1 \in 1..Len(list) /\ i - 1 < j - 1
          /\ s[i] = list[i - 1] /\ s[j] = list[j - 1]
      BY <1>1, <1>2, <1>3, <2>0, <2>5
    <3> QED BY <3>1 DEF Proper, InOrder
  <2>6. QED
    BY <1>3, <2>0, <2>1, <2>2, <2>3, <2>4, <2>5
<1>7. ASSUME NEW i \in 1..Len(s) PROVE s[i].fingerprint # self
  <2>1. s[i] = d \/ \E j \in 1..Len(list) : s[i] = list[j]
    <3>1. CASE i < p
      BY <1>1, <1>2, <1>3, <3>1
    <3>2. CASE i > p
      <4>1. i - 1 \in 1..Len(list) /\ s[i] = list[i - 1]
        BY <1>1, <1>2, <1>3, <3>2
      <4> QED BY <4>1
    <3> QED BY <1>1, <1>2, <1>3, <3>1, <3>2
  <2> QED BY <2>1 DEF Proper
<1>8. QED
  BY <1>3, <1>6, <1>7 DEF Proper, Inserted, s, p

LEMMA ProperRemove ==
    ASSUME NEW self, NEW list, Proper(list, self), NEW fp
    PROVE  Proper(remove(list, fp), self) /\ Len(remove(list, fp)) <= Len(list)
<1> DEFINE row == indexOfFingerprint(list, fp)
<1>1. list \in Seq(Device) /\ Len(list) \in Nat
  BY DEF Proper
<1>2. row = 0 \/ row \in 1..Len(list)
  BY <1>1, FirstWith
<1>3. remove(list, fp) = IF row = 0 THEN list ELSE RemoveAt(list, row)
  BY DEF remove
<1> HIDE DEF row
<1>4. QED
  BY <1>1, <1>2, <1>3, ProperWithout

(* upsert() leaves a proper list within the cap, whoever is heard of.      *)
LEMMA ProperUpsert ==
    ASSUME NEW self, NEW list, Proper(list, self), Len(list) <= MaxDevices,
           NEW d \in Device, d.fingerprint # self, NEW deny
    PROVE  Proper(upsert(list, d, deny), self) /\ Len(upsert(list, d, deny)) <= MaxDevices
<1> DEFINE row == indexOfFingerprint(list, d.fingerprint)
           s == upsert(list, d, deny)
<1>1. list \in Seq(Device) /\ Len(list) \in Nat /\ MaxDevices \in Nat
  BY DeviceAssumption DEF Proper
<1>2. \/ row = 0 /\ \A i \in 1..Len(list) : list[i].fingerprint # d.fingerprint
      \/ row \in 1..Len(list) /\ list[row].fingerprint = d.fingerprint
  BY <1>1, FirstWith
<1>3. s = IF d.fingerprint \in deny THEN remove(list, d.fingerprint)
          ELSE IF row # 0
               THEN IF list[row].alias # d.alias
                    THEN Inserted(RemoveAt(list, row), d)
                    ELSE ReplaceAt(list, row, d)
          ELSE IF Len(list) >= MaxDevices THEN list
          ELSE Inserted(list, d)
  BY DEF upsert
<1> HIDE DEF row, s
<1>4. CASE d.fingerprint \in deny
  <2>1. Proper(remove(list, d.fingerprint), self) /\ Len(remove(list, d.fingerprint)) <= Len(list)
    BY ProperRemove
  <2>2. Len(remove(list, d.fingerprint)) \in Nat
    BY <2>1 DEF Proper
  <2> QED BY <1>1, <1>3, <1>4, <2>1, <2>2 DEF s
<1>5. CASE d.fingerprint \notin deny /\ row # 0 /\ list[row].alias # d.alias
  <2> DEFINE rest == RemoveAt(list, row)
  <2>1. s = Inserted(rest, d)
    BY <1>3, <1>5
  <2>2. /\ Proper(rest, self) /\ Len(rest) = Len(list) - 1
        /\ \A i \in 1..Len(rest) : rest[i].fingerprint # d.fingerprint
    BY <1>2, <1>5, ProperWithout
  <2> HIDE DEF rest
  <2>3. Proper(s, self) /\ Len(s) = Len(rest) + 1
    BY <2>1, <2>2, ProperWith
  <2> QED BY <1>1, <2>2, <2>3 DEF s
<1>6. CASE d.fingerprint \notin deny /\ row # 0 /\ list[row].alias = d.alias
  <2>1. s = [list EXCEPT ![row] = d] /\ row \in 1..Len(list)
    BY <1>2, <1>3, <1>6 DEF ReplaceAt
  <2>2. /\ s \in Seq(Device) /\ Len(s) = Len(list)
        /\ \A i \in 1..Len(list) : s[i] = IF i = row THEN d ELSE list[i]
    BY <1>1, <2>1
  <2>3. \A i \in 1..Len(list) : /\ s[i].alias = list[i].alias
                                /\ s[i].fingerprint = list[i].fingerprint
    BY <1>2, <1>6, <2>2
  <2>4. Proper(s, self)
    BY <2>2, <2>3 DEF Proper, InOrder, Behind
  <2> QED BY <2>2, <2>4 DEF s
<1>7. CASE d.fingerprint \notin deny /\ row = 0 /\ Len(list) >= MaxDevices
  BY <1>3, <1>7 DEF s
<1>8. CASE d.fingerprint \notin deny /\ row = 0 /\ Len(list) < MaxDevices
  <2>1. s = Inserted(list, d)
    BY <1>1, <1>3, <1>8
  <2>2. row \notin 1..Len(list)
    BY <1>1, <1>8
  <2>3. Proper(s, self) /\ Len(s) = Len(list) + 1
    BY <1>2, <2>1, <2>2, ProperWith
  <2> QED BY <1>1, <1>8, <2>3 DEF s
<1>9. QED
  BY <1>1, <1>4, <1>5, <1>6, <1>7, <1>8

LEMMA ProperOlder ==
    ASSUME NEW self, NEW list, Proper(list, self)
    PROVE  Proper(Older(list), self) /\ Len(Older(list)) = Len(list)
<1> DEFINE s == Older(list)
           older(d) == [d EXCEPT !.age = IF @ > MaxAge THEN @ ELSE @ + 1]
<1>0. list \in Seq(Device) /\ Len(list) \in Nat /\ MaxAge \in Nat
  BY DeviceAssumption DEF Proper
<1>1. \A d \in Device : /\ older(d) \in Device /\ older(d).alias = d.alias
                        /\ older(d).fingerprint = d.fingerprint
  <2> TAKE d \in Device
  <2>1. d.age \in 0..(MaxAge + 1)
    BY DEF Device, Age
  <2>2. (IF d.age > MaxAge THEN d.age ELSE d.age + 1) \in Age
    BY <1>0, <2>1 DEF Age
  <2> QED BY <2>2 DEF Device
<1>2. s = [i \in 1..Len(list) |-> older(list[i])]
  BY <1>0 DEF Older
<1> HIDE DEF older, s
<1>3. s \in Seq(Device) /\ Len(s) = Len(list) /\ \A i \in 1..Len(list) : s[i] = older(list[i])
  <2>1. \A i \in 1..Len(list) : list[i] \in Device
    BY <1>0
  <2> QED BY <1>0, <1>1, <1>2, <2>1
<1>4. \A i \in 1..Len(list) : /\ s[i].alias = list[i].alias
                              /\ s[i].fingerprint = list[i].fingerprint
  BY <1>0, <1>1, <1>3
<1>5. Proper(s, self)
  BY <1>3, <1>4 DEF Proper, InOrder, Behind
<1>6. QED
  BY <1>3, <1>5 DEF s

(* prune()'s loop: after n rows the list is proper and no longer than it   *)
(* was, and the rows not looked at yet are still there.                    *)
Pruning(self, list, n, rows) ==
    Proper(rows, self) /\ Len(list) - n <= Len(rows) /\ Len(rows) <= Len(list)
PruneRow(list, n, rows) ==
    LET row == Len(list) - n + 1
    IN  IF rows[row].age <= MaxAge THEN rows ELSE RemoveAt(rows, row)

LEMMA PruneRowKeeps ==
    ASSUME NEW self, NEW list, Proper(list, self), NEW n \in Nat, n + 1 <= Len(list),
           NEW rows, Pruning(self, list, n, rows)
    PROVE  Pruning(self, list, n + 1, PruneRow(list, n + 1, rows))
<1> DEFINE row == Len(list) - (n + 1) + 1
<1>1. Len(list) \in Nat /\ Len(rows) \in Nat /\ Proper(rows, self)
  BY DEF Pruning, Proper
<1>2. row \in 1..Len(rows)
  BY <1>1 DEF Pruning
<1>3. /\ Proper(RemoveAt(rows, row), self) /\ Len(RemoveAt(rows, row)) = Len(rows) - 1
  <2> HIDE DEF row
  <2> QED BY <1>1, <1>2, ProperWithout
<1>4. PruneRow(list, n + 1, rows) = IF rows[row].age <= MaxAge THEN rows ELSE RemoveAt(rows, row)
  BY DEF PruneRow
<1> HIDE DEF row
<1>5. CASE rows[row].age <= MaxAge
  BY <1>1, <1>4, <1>5 DEF Pruning
<1>6. CASE ~(rows[row].age <= MaxAge)
  <2>1. PruneRow(list, n + 1, rows) = RemoveAt(rows, row)
    BY <1>4, <1>6
  <2>2. Len(rows) - 1 >= Len(list) - (n + 1) /\ Len(rows) - 1 <= Len(list)
    BY <1>1 DEF Pruning
  <2> QED BY <1>3, <2>1, <2>2 DEF Pruning
<1>7. QED
  BY <1>5, <1>6

LEMMA ProperPrune ==
    ASSUME NEW self, NEW list, Proper(list, self)
    PROVE  Proper(prune(list), self) /\ Len(prune(list)) <= Len(list)
<1> DEFINE N == Len(list)
           Body(g) == [n \in 0..N |-> IF n = 0 THEN list ELSE PruneRow(list, n, g[n - 1])]
           left == CHOOSE g : g = Body(g)
           Fine(n, rows) == n <= N => Pruning(self, list, n, rows)
           Lists == Seq(Device)
           step == [n \in Nat |-> [rows \in Lists |->
                       IF n + 1 <= N /\ Pruning(self, list, n, rows)
                       THEN PruneRow(list, n + 1, rows) ELSE rows]]
<1>1. N \in Nat /\ list \in Lists /\ Pruning(self, list, 0, list)
  BY DEF Proper, Pruning
<1>2. step \in [Nat -> [Lists -> Lists]]
  <2>1. ASSUME NEW n \in Nat, NEW rows \in Lists, n + 1 <= N, Pruning(self, list, n, rows)
        PROVE  PruneRow(list, n + 1, rows) \in Lists
    <3>1. Pruning(self, list, n + 1, PruneRow(list, n + 1, rows))
      BY <2>1, PruneRowKeeps
    <3> QED BY <3>1 DEF Pruning, Proper
  <2> HIDE DEF Lists
  <2> QED BY <2>1
<1>3. PICK f \in [Nat -> Lists] : f[0] = list /\ \A n \in Nat : f[n + 1] = step[n][f[n]]
  <2> HIDE DEF Lists, step
  <2>1. \A b \in Lists, st \in [Nat -> [Lists -> Lists]] :
           \E f \in [Nat -> Lists] : f[0] = b /\ \A n \in Nat : f[n + 1] = st[n][f[n]]
    BY RecursionExists
  <2> QED BY <1>1, <1>2, <2>1
<1>4. \A n \in Nat : Fine(n, f[n])
  <2> DEFINE S == {n \in Nat : Fine(n, f[n])}
  <2>1. 0 \in S
    BY <1>1, <1>3
  <2>2. ASSUME NEW n \in Nat, n \in S PROVE n + 1 \in S
    <3> SUFFICES ASSUME n + 1 <= N PROVE Pruning(self, list, n + 1, f[n + 1])
      OBVIOUS
    <3>1. Pruning(self, list, n, f[n])
      BY <1>1, <2>2
    <3>2. f[n + 1] = PruneRow(list, n + 1, f[n])
      <4>1. f[n] \in Lists /\ f[n + 1] = step[n][f[n]]
        BY <1>3
      <4> HIDE DEF Lists
      <4> QED BY <3>1, <4>1
    <3> QED BY <3>1, <3>2, PruneRowKeeps
  <2> HIDE DEF S
  <2>3. \A n \in Nat : n \in S
    BY <2>1, <2>2, SetInduction
  <2> QED BY <2>3 DEF S
<1>5. \E g : g = Body(g)
  <2> DEFINE g == [n \in 0..N |-> f[n]]
  <2>1. ASSUME NEW n \in 0..N PROVE g[n] = Body(g)[n]
    <3>1. CASE n = 0
      BY <1>1, <1>3, <3>1
    <3>2. CASE n # 0
      <4>1. n - 1 \in Nat /\ n - 1 \in 0..N /\ (n - 1) + 1 = n /\ n <= N /\ n - 1 <= N
        BY <1>1, <3>2
      <4>2. Pruning(self, list, n - 1, f[n - 1])
        BY <1>4, <4>1
      <4>3. f[n] = PruneRow(list, n, f[n - 1])
        <5>1. f[n - 1] \in Lists /\ f[n] = step[n - 1][f[n - 1]]
          BY <1>3, <4>1
        <5> HIDE DEF Lists
        <5> QED BY <4>1, <4>2, <5>1
      <4> QED BY <3>2, <4>1, <4>3
    <3> QED BY <3>1, <3>2
  <2>2. g = Body(g)
    BY <2>1
  <2> QED BY <2>2
<1>6. left = Body(left)
  <2> HIDE DEF Body
  <2> QED BY <1>5
<1>7. prune(list) = left[N]
  BY DEF prune, PruneRow
<1> HIDE DEF left, step, Lists
<1>8. \A n \in Nat : Fine(n, left[n])
  <2> DEFINE S == {n \in Nat : Fine(n, left[n])}
  <2>0. /\ left[0] = list
        /\ \A n \in Nat : n + 1 <= N => left[n + 1] = PruneRow(list, n + 1, left[n])
    <3>1. 0 \in 0..N /\ \A n \in Nat : n + 1 <= N => n + 1 \in 0..N /\ n + 1 # 0 /\ (n + 1) - 1 = n
      BY <1>1
    <3> QED BY <1>6, <3>1
  <2>1. 0 \in S
    BY <1>1, <2>0
  <2>2. ASSUME NEW n \in Nat, n \in S PROVE n + 1 \in S
    <3> SUFFICES ASSUME n + 1 <= N PROVE Pruning(self, list, n + 1, left[n + 1])
      OBVIOUS
    <3>1. Pruning(self, list, n, left[n])
      BY <1>1, <2>2
    <3> QED BY <2>0, <3>1, PruneRowKeeps
  <2> HIDE DEF S
  <2>3. \A n \in Nat : n \in S
    BY <2>1, <2>2, SetInduction
  <2> QED BY <2>3 DEF S
<1>9. Pruning(self, list, N, left[N])
  BY <1>1, <1>8
<1>10. QED
  BY <1>7, <1>9 DEF Pruning

(* Who is barred from the list: we, unless we were in it when we became    *)
(* who we are.  Nothing else is done to the list.                          *)
Barred == IF own \in carried THEN 0 - 1 ELSE own
ListInv == Proper(devices, Barred) /\ Len(devices) <= MaxDevices

LEMMA ListStep ==
    ASSUME ListInv, UNCHANGED ownVars,
           \/ devices' = devices \/ devices' = <<>>
           \/ devices' = prune(devices) \/ devices' = Older(devices)
           \/ \E fp \in Fingerprint, alias \in Alias : devices' = Learned(fp, alias)
    PROVE  ListInv'
<1>b. Barred' = Barred
  BY DEF Barred, ownVars
<1>0. Proper(devices, Barred) /\ Len(devices) <= MaxDevices /\ Len(devices) \in Nat /\ MaxDevices \in Nat
  BY DeviceAssumption DEF ListInv, Proper
<1>1. CASE devices' = devices
  BY <1>0, <1>1, <1>b DEF ListInv
<1>2. CASE devices' = <<>>
  <2>1. Proper(<<>>, Barred) /\ Len(<<>>) = 0
    BY DEF Proper, InOrder
  <2> QED BY <1>0, <1>2, <1>b, <2>1 DEF ListInv
<1>3. CASE devices' = prune(devices)
  <2>1. Proper(prune(devices), Barred) /\ Len(prune(devices)) <= Len(devices)
    BY <1>0, ProperPrune
  <2>2. Len(prune(devices)) \in Nat
    BY <2>1 DEF Proper
  <2> QED BY <1>0, <1>3, <1>b, <2>1, <2>2 DEF ListInv
<1>4. CASE devices' = Older(devices)
  BY <1>0, <1>4, <1>b, ProperOlder DEF ListInv
<1>5. ASSUME NEW fp \in Fingerprint, NEW alias \in Alias, devices' = Learned(fp, alias)
      PROVE  ListInv'
  <2>1. CASE fp = own
    BY <1>1, <1>5, <2>1 DEF Learned
  <2>2. CASE fp # own
    <3> DEFINE d == NewDevice(fp, alias)
    <3>1. d \in Device /\ d.fingerprint = fp
      BY DeviceAssumption DEF NewDevice, Device, Age
    <3>b. fp # Barred
      BY <2>2, DeviceAssumption DEF Barred
    <3>2. devices' = upsert(devices, d, blocked)
      BY <1>5, <2>2 DEF Learned
    <3> HIDE DEF d
    <3>3. /\ Proper(upsert(devices, d, blocked), Barred)
          /\ Len(upsert(devices, d, blocked)) <= MaxDevices
      BY <1>0, <3>1, <3>b, ProperUpsert
    <3> QED BY <1>b, <3>2, <3>3 DEF ListInv
  <2> QED BY <2>1, <2>2
<1>6. QED
  BY <1>1, <1>2, <1>3, <1>4, <1>5

(* We become someone else: in the list as it is, or not in it.             *)
LEMMA SecureTransportStep ==
    ASSUME Here, ListInv, NEW fp \in network.ours, setSecureTransport(fp)
    PROVE  ListInv'
<1>1. devices' = devices /\ own' = fp /\ carried' = Fingerprints(devices)
  BY DEF setSecureTransport
<1>2. devices \in Seq(Device) /\ DOMAIN devices = 1..Len(devices)
  BY DEF ListInv, Proper
<1>3. \A i \in 1..Len(devices) : devices[i].fingerprint \in Nat
  <2>1. \A d \in Device : d.fingerprint \in Nat
    BY DeviceAssumption DEF Device
  <2>2. \A i \in 1..Len(devices) : devices[i] \in Device
    BY <1>2
  <2> QED BY <2>1, <2>2
<1>4. \A i \in 1..Len(devices) : devices[i].fingerprint # Barred'
  <2>1. CASE fp \in Fingerprints(devices)
    BY <1>1, <1>3, <2>1 DEF Barred
  <2>2. CASE fp \notin Fingerprints(devices)
    BY <1>1, <1>2, <2>2 DEF Barred, Fingerprints
  <2> QED BY <2>1, <2>2
<1>5. QED
  BY <1>1, <1>4 DEF ListInv, Proper

LEMMA ListNext == Here /\ ListInv /\ [Next]_vars => ListInv'
<1> SUFFICES ASSUME Here, ListInv, [Next]_vars PROVE ListInv'
  OBVIOUS
<1>1. CASE refresh \/ ReceiveEnabledChanged \/ AnnounceTimer \/ BurstTimer
  BY <1>1, ListStep DEF refresh, ReceiveEnabledChanged, AnnounceTimer, BurstTimer,
                        start, stop, announce
<1>2. CASE Tick
  BY <1>2, ListStep DEF Tick
<1>3. ASSUME NEW fp \in network.heard, NEW alias \in network.names, NEW a \in network.senders,
             NEW announcing \in BOOLEAN, Datagram(fp, alias, a, announcing)
      PROVE  ListInv'
  BY <1>3, OfNetwork, ListStep DEF Datagram
<1>4. CASE RegisterReply \/ onScanReplyFinished
  BY <1>4, OfNetwork, ListStep DEF RegisterReply, onScanReplyFinished, MayLearn
<1>5. CASE ManualReply
  BY <1>5, OfNetwork, ListStep DEF ManualReply, onManualReplyFinished
<1>6. ASSUME NEW fp \in network.heard, NEW alias \in network.names, registerPeer(fp, alias)
      PROVE  ListInv'
  BY <1>6, OfNetwork, ListStep DEF registerPeer
<1>7. ASSUME NEW size \in network.targets, scanSubnet(size) PROVE ListInv'
  BY <1>7, ListStep DEF scanSubnet
<1>8. ASSUME NEW fp \in network.heard, setBlocked(fp) PROVE ListInv'
  BY <1>8, ListStep DEF setBlocked
<1>9. ASSUME NEW e \in network.typed, addDeviceAt(e) \/ removeManualDevice(e) PROVE ListInv'
  BY <1>9, ListStep DEF addDeviceAt, removeManualDevice
<1>10. CASE cancelScan
  BY <1>10, ListStep DEF cancelScan
<1>11. CASE UNCHANGED vars
  BY <1>11, ListStep DEF vars
<1>12. ASSUME NEW fp \in network.ours, setSecureTransport(fp) PROVE ListInv'
  BY <1>12, SecureTransportStep
<1>13. QED
  BY <1>1, <1>2, <1>3, <1>4, <1>5, <1>6, <1>7, <1>8, <1>9, <1>10, <1>11, <1>12
     DEF Next, User, Network

(* DeviceModel: for any set of devices, names and ranks and any cap, the   *)
(* list of nearby devices has one row per fingerprint, in strict order,    *)
(* keeps its cap, and has us in it only as a row that was there before we  *)
(* went by its fingerprint.                                                *)
THEOREM ListSound == Spec => []ListIsSound
<1>1. Init => ListInv
  <2> SUFFICES ASSUME Init PROVE ListInv
    OBVIOUS
  <2>1. devices = <<>> /\ MaxDevices \in Nat
    BY DeviceAssumption DEF Init
  <2> QED BY <2>1 DEF ListInv, Proper, InOrder
<1>2. ListInv => ListIsSound
  <2> SUFFICES ASSUME ListInv PROVE ListIsSound
    OBVIOUS
  <2>1. DOMAIN devices = 1..Len(devices)
    BY DEF ListInv, Proper
  <2> QED BY <2>1 DEF ListInv, Proper, InOrder, ListIsSound, Fingerprints, Barred
<1>3. QED
  BY <1>1, <1>2, HereAtStart, HereNext, ListNext, PTL DEF Spec

=============================================================================
