----------------------------- MODULE Discovery ------------------------------
(***************************************************************************)
(* Finding other devices (discovery.cpp): announcements and answers to     *)
(* them, the sweep of the subnet, the look-up of an address typed in by    *)
(* hand, and the list all of them feed.                                    *)
(***************************************************************************)
EXTENDS DeviceModel, FiniteSets

CONSTANTS Address,       \* where datagrams come from
          Cooldown,      \* ResponseCooldownMs, in units of time
          MaxTracked,    \* MaxTrackedResponders
          ScanWindow,    \* sweep requests in flight at once
          Endpoint,      \* addresses the user may type
          NoEndpoint,    \* m_manualEndpoint before the first
          Networks       \* the networks the device may be on

(* Of a network: our own fingerprints on it (the certificate's, if we have *)
(* one, and a random one), the fingerprints and names it brings, where its *)
(* datagrams come from, how many targets a sweep of it can have, and the   *)
(* addresses that are typed in.                                            *)
ASSUME DiscoveryAssumption ==
    /\ Cooldown \in Nat /\ MaxTracked \in Nat \ {0}
    /\ ScanWindow \in Nat \ {0}
    /\ NoEndpoint \notin Endpoint
    /\ Networks \subseteq [ours : SUBSET Fingerprint, heard : SUBSET Fingerprint, names : SUBSET Alias,
                           senders : SUBSET Address, targets : SUBSET Nat,
                           typed : SUBSET Endpoint]

VARIABLES
    network,         \* where we are; the same all along
    own,             \* AppSettings::fingerprint()
    carried,         \* observation: who was listed when it last changed
    receiveEnabled,  \* the receive switch (AppSettings)
    running,         \* m_running; m_announceTimer runs exactly then
    socket,          \* m_socket is bound
    burst,           \* a single-shot announce() is pending
    devices,         \* m_devices
    blocked,         \* KnownDevices: blocked fingerprints
    errand,          \* a register request outside sweep and look-up is in flight
    lastResponse,    \* m_lastResponse: address -> time since the answer
    scanning, scanQueue, scanInFlight, scanDone, scanTotal,  \* m_scan...
    manualPending, manualFound, manualEndpoint,              \* m_manual...
    manualDevices,   \* AppSettings: endpoints kept
    probes,          \* observation: sweep requests really in flight
    cancelled,       \* observation: the sweep was cancelled
    lookups,         \* observation: look-up requests in flight
    reached,         \* observation: endpoints that answered a look-up
    quiet,           \* observation: address -> time since it was answered
    forgotten,       \* observation: addresses answered, then dropped from the table
    hasty            \* observation: an address was answered too soon

ownVars == <<network, own, carried>>
switchVars == <<receiveEnabled, running, socket, burst>>
answerVars == <<lastResponse, quiet, forgotten, hasty>>
scanVars == <<scanning, scanQueue, scanInFlight, scanDone, scanTotal, probes, cancelled>>
manualVars == <<manualPending, manualFound, manualEndpoint, manualDevices, lookups, reached>>
vars == <<ownVars, switchVars, devices, blocked, errand, answerVars, scanVars, manualVars>>

(* main() starts discovery whatever the switch says.                       *)
Init ==
    /\ network \in Networks /\ own \in network.ours /\ carried = {}
    /\ receiveEnabled \in BOOLEAN /\ running = TRUE
    /\ socket \in BOOLEAN /\ burst = socket
    /\ devices = <<>> /\ blocked = {}
    /\ manualDevices = {} /\ reached = {} /\ errand = FALSE
    /\ lastResponse = <<>> /\ forgotten = {} /\ hasty = FALSE
    /\ quiet = [a \in Address |-> Cooldown]
    /\ scanning = FALSE /\ scanQueue = 0 /\ scanInFlight = 0 /\ scanDone = 0
    /\ scanTotal = 0 /\ probes = 0 /\ cancelled = FALSE
    /\ manualPending = 0 /\ manualFound = FALSE /\ manualEndpoint = NoEndpoint
    /\ lookups = {}

-----------------------------------------------------------------------------
(* Switching on and off, and announcing.                                   *)

(* Each of them is asked to register with us.                              *)
refreshManualDevices == errand' = (errand \/ manualDevices # {})

(* announce(): ask the devices added by hand, then drop who went quiet.    *)
announce ==
    /\ refreshManualDevices
    /\ devices' = prune(devices)

(* start(): without the socket there is no burst of announcements.         *)
start ==
    /\ running' = TRUE
    /\ \/ /\ socket' = TRUE /\ burst' = TRUE
          /\ announce
       \/ /\ socket' = FALSE
          /\ UNCHANGED <<burst, devices, errand>>

stop ==
    /\ running' = FALSE /\ socket' = FALSE /\ devices' = <<>>
    /\ UNCHANGED <<burst, errand>>

AnnounceTimer ==
    /\ running
    /\ announce
    /\ UNCHANGED <<ownVars, switchVars, blocked, answerVars, scanVars, manualVars>>

(* The single shots of start() are not stopped by stop().                  *)
BurstTimer ==
    /\ burst /\ burst' \in BOOLEAN
    /\ announce
    /\ UNCHANGED <<ownVars, receiveEnabled, running, socket, blocked, answerVars, scanVars, manualVars>>

refresh ==
    /\ \/ ~running /\ start
       \/ running /\ announce /\ UNCHANGED <<running, socket, burst>>
    /\ UNCHANGED <<ownVars, receiveEnabled, blocked, answerVars, scanVars, manualVars>>

ReceiveEnabledChanged ==
    /\ receiveEnabled' = ~receiveEnabled
    /\ \/ receiveEnabled' /\ ~running /\ start
       \/ ~receiveEnabled' /\ running /\ stop
       \/ receiveEnabled' = running /\ UNCHANGED <<running, socket, burst, devices, errand>>
    /\ UNCHANGED <<ownVars, blocked, answerVars, scanVars, manualVars>>

(* setSecureTransport(), where it changes what we go by.  Nothing here     *)
(* hears of it.                                                            *)
setSecureTransport(fp) ==
    /\ fp # own /\ own' = fp /\ carried' = Fingerprints(devices)
    /\ UNCHANGED <<network, switchVars, devices, blocked, errand, answerVars, scanVars,
                   manualVars>>

(* Blocking or unblocking repaints the rows and leaves the list alone.     *)
setBlocked(fp) ==
    /\ blocked' = IF fp \in blocked THEN blocked \ {fp} ELSE blocked \cup {fp}
    /\ UNCHANGED <<ownVars, switchVars, devices, errand, answerVars, scanVars, manualVars>>

-----------------------------------------------------------------------------
(* Hearing of devices.                                                     *)

(* A payload with a fingerprint other than ours goes into the list.        *)
Learned(fp, alias) ==
    IF fp = own THEN devices ELSE upsert(devices, NewDevice(fp, alias), blocked)
(* What a request to another device can end in: a device, or nothing.      *)
MayLearn == \/ \E fp \in network.heard, alias \in network.names :
                  devices' = Learned(fp, alias)
            \/ devices' = devices

(* respondTo(): nobody is answered again within the cooldown, as far as    *)
(* the table remembers; a full table is emptied.                           *)
Cooling(a) == a \in DOMAIN lastResponse /\ lastResponse[a] < Cooldown
TooSoon(a) == quiet[a] < Cooldown /\ a \notin forgotten
RespondUnrecorded(a) ==   \* a slip: the answer is not entered
    /\ quiet' = [quiet EXCEPT ![a] = 0]
    /\ hasty' = (hasty \/ TooSoon(a))
    /\ errand' = TRUE
    /\ UNCHANGED <<lastResponse, forgotten>>
respondTo(a) ==
    LET full == Cardinality(DOMAIN lastResponse) >= MaxTracked
        kept == IF full THEN {} ELSE DOMAIN lastResponse
    IN  /\ lastResponse' = [b \in kept \cup {a} |-> IF b = a THEN 0 ELSE lastResponse[b]]
        /\ forgotten' = (forgotten \cup (DOMAIN lastResponse \ kept)) \ {a}
        /\ quiet' = [quiet EXCEPT ![a] = 0]
        /\ hasty' = (hasty \/ TooSoon(a))
        /\ errand' = TRUE

(* readDatagrams(), handlePayload(): one datagram.                         *)
Datagram(fp, alias, a, announcing) ==
    /\ socket
    /\ devices' = Learned(fp, alias)
    /\ \/ announcing /\ fp # own /\ ~Cooling(a) /\ respondTo(a)
       \/ ~(announcing /\ fp # own /\ ~Cooling(a)) /\ UNCHANGED <<answerVars, errand>>
    /\ UNCHANGED <<ownVars, switchVars, blocked, scanVars, manualVars>>

(* onRegisterFinished(), and the replies to refreshManualDevices(): other  *)
(* requests may still be in flight.                                        *)
RegisterReply ==
    /\ errand /\ errand' \in BOOLEAN
    /\ MayLearn
    /\ UNCHANGED <<ownVars, switchVars, blocked, answerVars, scanVars, manualVars>>

(* registerPeer(), from the HTTP server: a connection that was open when   *)
(* the switch went off still brings its request.                           *)
registerPeer(fp, alias) ==
    /\ devices' = Learned(fp, alias)
    /\ UNCHANGED <<ownVars, switchVars, blocked, errand, answerVars, scanVars, manualVars>>

-----------------------------------------------------------------------------
(* The sweep of the subnet.                                                *)

(* pumpScanQueue() with q targets left, f in flight and d of t done.       *)
Batch(q, f) == IF q < ScanWindow - f THEN q ELSE ScanWindow - f
AllDoneOf(q, f, d, t) == d = t        \* a slip: a cancelled sweep never gets there
Drained(q, f, d, t) == q = 0 /\ f = 0
pumpScanQueue(q, f, d, t) ==
    LET n == Batch(q, f)
        over == Drained(q - n, f + n, d, t)
    IN  /\ scanQueue' = q - n /\ scanInFlight' = f + n
        /\ scanning' = ~over
        /\ scanDone' = IF over THEN 0 ELSE d
        /\ scanTotal' = IF over THEN 0 ELSE t

scanSubnet(size) ==
    /\ ~scanning /\ size > 0
    /\ pumpScanQueue(size, 0, 0, size)
    /\ probes' = probes + scanInFlight' /\ cancelled' = FALSE
    /\ UNCHANGED <<ownVars, switchVars, devices, blocked, errand, answerVars, manualVars>>

onScanReplyFinished ==
    /\ probes > 0
    /\ MayLearn
    /\ \/ /\ scanning
          /\ pumpScanQueue(scanQueue, scanInFlight - 1, scanDone + 1, scanTotal)
       \/ /\ ~scanning
          /\ scanInFlight' = scanInFlight - 1 /\ scanDone' = scanDone + 1
          /\ UNCHANGED <<scanning, scanQueue, scanTotal>>
    /\ probes' = probes - 1 + (scanInFlight' - (scanInFlight - 1))
    /\ UNCHANGED <<ownVars, switchVars, blocked, errand, answerVars, cancelled, manualVars>>

(* cancelScan(): what is in flight still counts itself out.                *)
CancelAtOnce ==   \* a slip: the sweep is over before its replies are
    /\ scanning
    /\ scanQueue' = 0 /\ cancelled' = TRUE
    /\ scanning' = FALSE /\ scanDone' = 0 /\ scanTotal' = 0
    /\ UNCHANGED <<scanInFlight, probes>>
    /\ UNCHANGED <<ownVars, switchVars, devices, blocked, errand, answerVars, manualVars>>
cancelScan ==
    /\ scanning
    /\ scanQueue' = 0 /\ cancelled' = TRUE
    /\ scanning' = (scanInFlight # 0)
    /\ scanDone' = IF scanInFlight = 0 THEN 0 ELSE scanDone
    /\ scanTotal' = IF scanInFlight = 0 THEN 0 ELSE scanTotal
    /\ UNCHANGED <<scanInFlight, probes>>
    /\ UNCHANGED <<ownVars, switchVars, devices, blocked, errand, answerVars, manualVars>>

-----------------------------------------------------------------------------
(* An address typed in by hand.                                            *)

(* Both transports are asked.                                              *)
Scheme == {"https", "http"}
LookUpAgain(e) ==   \* a slip: a running look-up is replaced
    /\ manualEndpoint' = e /\ manualFound' = FALSE /\ manualPending' = 2
    /\ lookups' = lookups \cup ({e} \X Scheme)
    /\ UNCHANGED <<manualDevices, reached>>
    /\ UNCHANGED <<ownVars, switchVars, devices, blocked, errand, answerVars, scanVars>>
addDeviceAt(e) ==
    /\ manualPending = 0
    /\ manualEndpoint' = e /\ manualFound' = FALSE /\ manualPending' = 2
    /\ lookups' = lookups \cup ({e} \X Scheme)
    /\ UNCHANGED <<manualDevices, reached>>
    /\ UNCHANGED <<ownVars, switchVars, devices, blocked, errand, answerVars, scanVars>>

(* A reply that is no device, or comes after the other one was, is only    *)
(* counted.                                                                *)
FailureUncounted(l) ==   \* a slip: only a device is counted out
    /\ l \in lookups /\ lookups' = lookups \ {l}
    /\ \/ /\ ~manualFound /\ manualFound' = TRUE
          /\ manualPending' = manualPending - 1
          /\ \E fp \in network.heard \ {own}, alias \in network.names : devices' = Learned(fp, alias)
          /\ manualDevices' = manualDevices \cup {manualEndpoint}
          /\ reached' = reached \cup {l[1]}
       \/ UNCHANGED <<manualFound, manualPending, devices, manualDevices, reached>>
    /\ UNCHANGED <<manualEndpoint, ownVars, switchVars, blocked, errand, answerVars, scanVars>>
onManualReplyFinished(l) ==
    /\ l \in lookups /\ lookups' = lookups \ {l}
    /\ manualPending' = manualPending - 1
    /\ \/ /\ ~manualFound /\ manualFound' = TRUE
          /\ \E fp \in network.heard \ {own}, alias \in network.names : devices' = Learned(fp, alias)
          /\ manualDevices' = manualDevices \cup {manualEndpoint}
          /\ reached' = reached \cup {l[1]}
       \/ UNCHANGED <<manualFound, devices, manualDevices, reached>>
    /\ UNCHANGED <<manualEndpoint, ownVars, switchVars, blocked, errand, answerVars, scanVars>>

removeManualDevice(e) ==
    /\ e \in manualDevices /\ manualDevices' = manualDevices \ {e}
    /\ UNCHANGED <<manualPending, manualFound, manualEndpoint, lookups, reached>>
    /\ UNCHANGED <<ownVars, switchVars, devices, blocked, errand, answerVars, scanVars>>

-----------------------------------------------------------------------------
(* Time passes.                                                            *)
Later(times) == [a \in DOMAIN times |-> IF times[a] < Cooldown THEN times[a] + 1 ELSE Cooldown]
Tick ==
    /\ devices' = Older(devices)
    /\ lastResponse' = Later(lastResponse) /\ quiet' = Later(quiet)
    /\ UNCHANGED <<ownVars, switchVars, blocked, errand, forgotten, hasty, scanVars, manualVars>>

User == \/ refresh \/ ReceiveEnabledChanged \/ cancelScan
        \/ \E fp \in network.heard : setBlocked(fp)
        \/ \E size \in network.targets : scanSubnet(size)
        \/ \E e \in network.typed : addDeviceAt(e) \/ removeManualDevice(e)
        \/ \E fp \in network.ours : setSecureTransport(fp)
ManualReply == \E l \in lookups : onManualReplyFinished(l)
Network == \/ \E fp \in network.heard, alias \in network.names :
                 \/ \E a \in network.senders, announcing \in BOOLEAN :
                       Datagram(fp, alias, a, announcing)
                 \/ registerPeer(fp, alias)
           \/ RegisterReply \/ onScanReplyFinished \/ ManualReply
Next == User \/ Network \/ AnnounceTimer \/ BurstTimer \/ Tick

Spec == Init /\ [][Next]_vars

(* A timer aborts every request of a sweep or a look-up, so it finishes.   *)
FairSpec == Spec /\ WF_vars(onScanReplyFinished) /\ WF_vars(ManualReply)

-----------------------------------------------------------------------------
(* Correctness.                                                            *)

(* Every variable stays within its C++ type as modelled.                   *)
TypeOK ==
    /\ network \in Networks /\ own \in network.ours /\ carried \subseteq Fingerprint
    /\ receiveEnabled \in BOOLEAN /\ running \in BOOLEAN /\ socket \in BOOLEAN
    /\ burst \in BOOLEAN /\ errand \in BOOLEAN
    /\ devices \in Seq(Device) /\ blocked \subseteq Fingerprint
    /\ DOMAIN lastResponse \subseteq Address
    /\ \A a \in DOMAIN lastResponse : lastResponse[a] \in 0..Cooldown
    /\ scanning \in BOOLEAN /\ scanQueue \in Nat /\ scanInFlight \in Nat
    /\ scanDone \in Nat /\ scanTotal \in Nat /\ probes \in Nat /\ cancelled \in BOOLEAN
    /\ manualPending \in Nat /\ manualFound \in BOOLEAN
    /\ manualEndpoint \in Endpoint \cup {NoEndpoint}
    /\ manualDevices \subseteq Endpoint /\ reached \subseteq Endpoint
    /\ lookups \subseteq Endpoint \X Scheme
    /\ quiet \in [Address -> 0..Cooldown] /\ forgotten \subseteq Address
    /\ hasty \in BOOLEAN

(* However devices come, are renamed, blocked and go, the list has one row *)
(* per fingerprint, in strict order, and keeps its cap; and we are not in  *)
(* it, save for a row that was there before our fingerprint became ours.   *)
ListIsSound ==
    /\ Len(devices) <= MaxDevices
    /\ own \in Fingerprints(devices) => own \in carried
    /\ \A i, j \in DOMAIN devices : i < j =>
          /\ Behind(devices[j], devices[i])
          /\ devices[i].fingerprint # devices[j].fingerprint

(* The sweep's counters tell the truth through cancel and restart: in      *)
(* flight is what is in flight, within the window; every target is asked   *)
(* once; a sweep that is not running has nothing left, and a running one   *)
(* has something to wait for and shows less than 100%.                     *)
ScanAddsUp ==
    /\ scanInFlight = probes /\ scanInFlight <= ScanWindow
    /\ ~scanning => scanInFlight = 0 /\ scanQueue = 0
    /\ scanning => /\ scanInFlight > 0
                   /\ scanDone + scanInFlight + scanQueue <= scanTotal
                   /\ ~cancelled => scanDone + scanInFlight + scanQueue = scanTotal

(* A look-up waits for exactly the requests it sent, all to the address it *)
(* will report, and an address is kept only if it answered.                *)
LookupIsOwn ==
    /\ manualPending = Cardinality(lookups)
    /\ \A l \in lookups : l[1] = manualEndpoint
    /\ manualDevices \subseteq reached

(* An address is not answered twice within the cooldown, unless the table  *)
(* overflowed in between; the table keeps its bound.                       *)
AnswersAreSpaced ==
    /\ ~hasty
    /\ Cardinality(DOMAIN lastResponse) <= MaxTracked

(* Every sweep ends, cancelled or not, and every look-up reports.          *)
ScanEnds == scanning ~> ~scanning
LookupEnds == manualPending > 0 ~> manualPending = 0

=============================================================================
