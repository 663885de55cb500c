# A verification of harbour-localsend in TLA+

harbour-localsend is a LocalSend v2 client for Sailfish OS: C++ on Qt 5.6 with a QML
interface. One device asks another for permission to send a list of files
(`prepare-upload`), gets a session id and a token per file, and uploads each file on a
connection of its own. This directory holds TLA+ modules translated from the C++ in
`src/src/`, TLC configurations for small instances, and theorems checked by TLAPS.
`PROJECT.json` maps every definition to the lines it stands for.

## The system

Everything runs in one process on one Qt event loop. A slot, timer callback or lambda
runs to its end before the next event is taken, so a handler is one atomic step. What is
concurrent is the outside: peers' connections, the person, timers, other programs in the
destination folder, and the end of the process.

| Part | State | Operations | What makes it correct |
| --- | --- | --- | --- |
| ReceiveService | parked request, peer, session id, tokens, upload table, two timers | prepare-upload, accept, decline, timeout, upload headers/finished/closed, cancel, teardown, start/stop | one session at a time; nothing taken unasked; tables never outlive what they point to; what is answered 200 is on disk; nothing else in the folder is touched; every prompt and session ends |
| TransferModel | rows, totals, state; one instance for sending and receiving | begin, setState, row updates | totals follow the rows; the screen shows what happens |
| HttpConnection / HttpServer | up to 24 connections: request state, buffer, idle timer, header deadline, chunk decoder | read, parse, deliver, respond, time out, disconnect | one answer per connection; bounded bodies; no slot held for ever |
| HashingFile | file and running hash | write | the digest is of the bytes written |
| SendService | busy/cancelled flags, session, current row, reply | sendFiles, submitPin, prepare reply, next file, upload reply, cancel | busy exactly while something goes on; each file once; shown as sent only if taken |
| Discovery | sockets, announce timers, scan queue and counters | announce, respond, register, scan, manual address | a scan ends; its window is kept |
| DeviceModel | sorted list, cap 64, last-seen times | upsert, remove, prune | sorted, no duplicates, bounded |
| KnownDevices | fingerprint to alias, paired, blocked | remember, block, forget, conflicts | one trusted key per name; survives a restart |
| RateLimiter | failures and block time per address, cap | allow, recordFailure, recordSuccess, prune | back-off grows and is capped; the table is bounded |
| HistoryModel, SelectionModel | capped list; list of paths | append, add, remove, clear | bounded; no duplicates |
| AppSettings, SecureStore, Certificate | settings, encrypted files, key pair on disk | get/set, read/write, ensure | a crash leaves old or new contents |
| Crypto, TlsClient, Protocol, DeviceInfo | none, or a pinned host table | primitives, pinning, JSON | (numeric primitives are out of scope) |
| main, QML | wiring | receive switch, pages | off means off |

Interactions: HttpServer hands connections to ReceiveService by signals (`headersReady`,
`requestReady`, `bodyProgress`, `closed`), and ReceiveService answers through `respond()`.
ReceiveService and SendService both write the shared TransferModel. Finished sessions go
to KnownDevices and HistoryModel. Discovery feeds DeviceModel, which asks KnownDevices
about blocked and conflicting keys. `main` connects the receive switch to ReceiveService
and Discovery.

What is hard here: the parked `prepare-upload`, which a timer, the person, its sender's
hang-up and a cancel on another connection all compete for; several connections writing
for one session; names chosen by the sender in a folder shared with other programs; state
torn down from inside a handler; timers restarted or stopped at the wrong moment; and the
end of the process between two writes. `PROJECT.json` lists these hazards at their lines.

## Modules

* **TransferModel** - rows and totals as a record, each method an operator from the old
  record to the new one. Texts, speed and signal batching are left out.
* **HttpConnection** - a connection as a record: socket (`free`, `open`, `closing`),
  request state, `m_bodyComplete`, the interval of its idle timer (`spent` once a drain interval
  has gone by without a read), peer address.
* **ReceiveService** - the core: extends both and adds the service's own state, the
  destination folder, the remembered devices and the history. One action per handler.
* **Inbox** - the abstract promise: one request is asked at a time, a session must be
  granted, files are taken only in it, and stay taken.
* **SendService** - the sending half over its own transfer: the request, the PIN round, one
  upload after the other, and the ways to end.
* **DeviceModel** - the list of nearby devices as a sequence, each method an operator.
* **Discovery** - what feeds that list: announcements and answers, register requests, the
  sweep of the subnet, look-ups by hand, and the receive switch as far as it concerns them.
* **App** - ReceiveService and SendService composed as `main()` composes them: one transfer,
  one set of remembered devices, and the checks the pages make before they call either.
* **HttpBody** - how a request comes off a socket: head, plain body, chunk decoder, for reads
  that end at any byte, against a stream that comes with its meaning.
* **RateLimiter** - the PIN's guard in time: wrong and right PINs from several addresses.
* **Store** - what outlives the process: the store with and without its key, the two files of
  the TLS identity, the log, the catalogue of devices; launches, kills, failures between.
* **MCReceive**, **MCSend**, **MCDiscovery**, **MCApp**, **MCHttpBody** - the instances for TLC.
  RateLimiter and Store need no definitions for theirs.
* **ReceiveProofs**, **SendProofs**, **DiscoveryProofs**, **StoreProofs**, **LimiterProofs**,
  **HttpProofs** - the theorems; **TransferProofs** - the lemmas about rows they share;
  **Loops** - induction and recursion over the turns of a loop.

### How ReceiveService corresponds to the code

`conns` has one entry per connection slot (`MaxConnections`); a slot is `free` again when
`onDisconnected()` has deleted the object. `pending`, `peer`, `session`, `tokens`,
`uploads`, `transfer`, `acceptTimer` and `idleTimer` are the members of the same name.
Session ids are numbers: the code draws a fresh random id, the model the next index of
`sessions`, a log of peer, address and what was agreed, kept for the properties together
with `acked` (which rows were answered 200) and `boots` (restarts).

* A request other than an upload arrives in one step. `AnsweredAtOnce` stands for every
  request without a lasting effect (info, register, 404, and each refusal of
  prepare-upload: receiving off, busy, rate limit, PIN, malformed, blocked); which refusal
  is meant matters only to the PIN table, which is module RateLimiter. That is a
  superset: any request may be refused at any time.
* `RefusedAtHead` stands for requests refused on their head (bad head, OPTIONS, an upload
  with a stale session, wrong token or address). Their body is not read, so the
  connection is drained.
* A body is a number of blocks. `UploadBlock` is one `deliver()`: it may exceed the ceiling that
  was set at header time (`limit`, 413), fail to write (500) or be written; the block that reaches
  the declared length completes the request in the same step, as `consumeBody()` does. A
  zero-length body completes inside the header step. A body refused half-way stays in `m_uploads`
  until its socket closes, as in the code. A block that is written only in part counts as not
  written.
* `handleUploadFinished` checks the length and then the digest. Whether the bytes match a
  declared digest is a choice (`intact`).
* `UploadUnwritable` merges "no free name" and "cannot open": same row status, same
  answer, no restart of the idle timer and no check for completion. A free name does not
  prevent it, since opening can fail for other reasons.
* `finishSession` takes the connections, uploads, rows and folder that its caller has
  reached, since it runs at the end of other handlers.
* `idleTimer` is `off`, `running` or `due`: `SessionQuiet` is the minute passing,
  `onSessionIdle` the slot. The code's restarts put it back to `running`, so traffic keeps
  a session alive and silence does not.
* `PortChanged` and `ReceiveEnabledChanged` include that binding a port can fail.
* `reserveFilePath` takes the first candidate with neither itself nor its part on disk.
  The candidate lists are a constant: sanitising and numbering are fixed functions of the
  name. Only the injectivity of the part suffix is assumed.
* `OpenSession` includes the write probe of `prepareDirectory()`, which leaves its path
  absent whatever was there. `accept()` may also find the folder not writable.
* A rename fails only when the target exists. Nobody deletes part files under the app.
* `Restart` is the end of the process at any point between two handlers.
* `entry(row)` does not check its row (`m_files.at(row)`), while the setters return for a row
  that is not there. `handleUploadFinished` reads size and digest through it; of a row that is
  gone it may find anything (`Stray`), or the process ends (`StrayRead`). Alone, the service never
  gets there (`ReceiveProofs!RowsAreThere`): its rows do not change while an upload is open. In App
  they do, so `StrayRead` is a step of `SharedNext` and of App, and none of `Next`.
* A drained connection is cut when a drain interval passes without a read (`DrainQuiet`, then
  `IdleTimeout`); `TailBytes` starts the interval again, as `onReadyRead()` does.

Abstractions to keep in mind: one destination folder; the history switch is on; quick save
is chosen per request (the setting can change at any time); the outgoing best-effort
cancel notification is not modelled; the person's cancel on a prompt is `Decline`.

### How SendService corresponds to the code

`busy`, `peer`, `currentRow`, `currentFile` are the members; `session` says whether `m_sessionId`
is set, `tokens` which rows have one (a field of the row in the code, so App clears it when a
request replaces the rows), `reply` which request `m_reply` is. `m_pinAttempted` only words the
PIN dialog and is left out. `pinDialog` is the dialog that `harbour-localsend.qml` puts up on
`pinRequired`; it is accepted (`submitPin`) or rejected (`cancel`). `sends`, `posted` and
`answered` are kept for the properties only.

* `m_cancelled` has no variable. `abort()` makes a QNetworkReply emit `finished` before it
  returns, so its handler runs inside `cancel()` and returns on the flag; afterwards no
  reply is left that could look at it. `cancel` is therefore one step that ends the request.
* The other device is the environment: `onPrepareFinished` has a disjunct for each group of
  answers the code tells apart, with tokens for any subset of the rows (none of ours
  included); an upload is answered, refused with 409, or fails in any other way.
* `startNextFile` recurses over rows that cannot be opened. Any waiting rows may be
  unreadable by then, so the first that opens is any of the rest, and the rows before it
  fail; when none opens, `completeTransfer` runs in the same step.
* `setFileStatus` leaves the bytes alone unless the status is done, so marking a set of
  rows is one operator (`Marked`).
* `Selections` are the files that exist and can be read when the person picks them; a call
  with none of them, with no address, or while busy returns at once and is no step.

Here the transfer belongs to the sender alone; App is where it is shared with the
receiver. The history switch is on. A
device's block does not change during a transfer (it is looked at only in `sendFiles`).

### How Discovery corresponds to the code

The variables are the members of the same name without `m_`; the observation variables
hold what the code cannot see: the requests really in flight, who answered, and when an
address was last answered.

* Init is the state after `main()` has called `discovery.start()`, for either position of
  the receive switch, with or without a bound socket, and with no device added by hand yet.
* `own` is `AppSettings::fingerprint()`: the certificate's, or a random one while secure transport
  is off. `setSecureTransport` changes it, and nothing in Discovery hears of it: a device listed
  under the new one before stays until it is pruned, which `carried` tells apart.
* `network`, chosen once, says what there is to hear: which fingerprints (ours among them) and
  names, from where, how many targets a sweep has and which addresses may be typed in.
* A row has a fingerprint, an alias and an age; ages and cooldowns count units of time that
  `Tick` lets pass, and stop counting once they are past their limit. Aliases have a rank
  with case ignored (`Fold`), since the list sorts that way while a rename is any change
  of spelling. Fingerprints are taken as written; KnownDevices compares them in upper case.
* The sweep's queue is its length: targets differ in nothing but their address. The loop of
  `pumpScanQueue()` is its closed form (`Batch`), followed by its closing test.
* Register requests outside the sweep and the look-up do nothing but add a device when they
  finish. `errand` says that one may be in flight; a reply leaves open whether another is.
  `burst` treats the two single-shot announcements the same way.
* Whether a reply is a device (its status, its JSON, its certificate against the
  fingerprint it claims) is the choice in `MayLearn`.
* Blocking repaints the rows (`KnownDevices::changed`) and removes none.

### How App corresponds to the code

App has no handlers of its own. It instantiates both services over the same `transfer` and
`known`, lets every action of either happen with the other's variables unchanged, and adds
what stands between them:

* `direction` is `m_direction`, set by `begin()`; `Stop` is the button of the transfer page
  and of the cover, which reaches the service the direction names.
* `startSend` is the main page's function: nothing while `transfer.active`; with a name that
  conflicts, the dialog (`confirming`) is put up, and `AnswerConflict` sends later without
  looking at the transfer again. Whether a name conflicts is a choice.
* Nothing checks the other way round: `handlePrepareUpload` looks at the receiver's own
  prompt and session only.

Rows are reached by number in the code, and the lists that replace each other may have any
lengths:

* a late reply that addresses a row which is gone is dropped by the setters;
* an upload whose row is gone is finished with what `entry(row)` happens to find, or the process
  ends there (`Crash`: both services start anew, the folder and the records stay);
* the sender's tokens are fields of the rows, so a request that replaces the rows takes them along
  (`Request`), and the sender goes on with rows that have none.

Only this is assumed: ids in a list of ours are random and nobody else's (`AppAssumption`).
The process ends here in no other way, and no device is blocked.

`NeverMoreThanAgreed` says, beside the bound on the folder, why it holds: a row that a token
of the session leads to is the row agreed to, whoever listed it (`RowsAsAgreed`).

### How HttpBody corresponds to the code

A connection is a record with the members that decide where a read leaves off. Each part of
`onReadyRead()` is an operator from record to record; `Read` feeds it any number of the bytes
still to come. A stream is a record too: its bytes, and what they mean (framing, body, how
it should end), so that the decoder is compared with how the stream was put together.

* Bytes are symbols; hex digits stop at 3. White space around a chunk size, which
  `trimmed()` removes, and values beyond 63 bits, which `toLongLong` refuses, are left out.
* The chunk loop is a recursive function with one turn per buffered byte. That is enough for
  every buffer (`HttpProofs!ChunkedBodySettles`): each turn but the last takes a byte.
* What a head says (method, length, chunked, malformed) is given by the stream: header
  syntax is left out, its consequences are not.
* The limits on a head or a size line apply to what is in the buffer, so whether a long line
  is refused depends on the split. `SplitDoesNotMatter` therefore excepts a connection that
  was cut off within a line, and one that timed out; of two that were answered it
  asks for the same status.
* A sink that cannot write (500) is in ReceiveService, not here.

### How RateLimiter corresponds to the code

`entries` is `m_entries`. `Refused`, `WrongPin` and `RightPin` are the three ways
`handlePrepareUpload()` leaves its PIN part. The doubling loop is a recursive function and is
compared with its closed form (`Wait`). `streak` and `told` observe how many wrong PINs an
address has given in a row and when it was told to come back. Time is in ticks; the model
keeps the relations of the constants (base < cap <= window), not their sizes.

### How Store corresponds to the code

A file is the key it is sealed under (0 for a plain one) and what it says. `open()` gets the
key the keystore holds, or makes one; an outage leaves the run without a key, or gives
it a new one because reading failed and storing did not. `write()` goes through
QSaveFile, so it happens or it does not.

* Start-up is a sequence of steps (`pc`), one for each file that `Certificate::ensure()`
  touches; `Killed` may come between any two. Afterwards each operation is one step with its
  `save()`, which may fail unnoticed, as in the code.
* A key pair is a number, the certificate and the key each a copy of it. Turning secure
  transport on calls `ensureIdentity()` from the event loop (`Return` knows where to go back to).
* The log's records are numbers. The catalogue has alias, paired and blocked; a file from before
  blocking has only aliases, and Init includes such an install.
* The names given to `setBlocked` are those devices go by at that moment: the main page and the
  prompt pass them. No page calls `forget()` or `forgetAll()`; both can be called from QML.

## Runs

Each run names its module in `PROJECT.json`. Deadlock is checked in all runs but
`http_body` and `store`: a connection whose stream is read to the end, and a process that is
not launched again, may stop.

| Run | Instance | Shows |
| --- | --- | --- |
| `receive_session` | 2 connections, 2 addresses, 2 senders, 1 file, 2 sessions, prompt and quick save, lengths 0, 1, chunked | the prompt, its timer and the parked socket agree; sessions are backed by the idle timer; uploads belong to the session; no row spins without an upload; history and known devices are earned; answered files stay through a second session of the same name; ReceiveService implements Inbox |
| `receive_disk` | 2 connections, files `a` of 2 blocks and `a.part` of 1, declared and chunked bodies, one foreign file, one restart | single writer per part file, no litter, done rows are on disk, settled files are not touched; `finished` means both rows were answered 200; the total is the sum over both rows through retries and rival uploads that report less than is shown |
| `send_transfer` | 2 devices, one blocked; selections of 1 and of 3 files, one of them empty; 2 transfers; fairness | busy exactly while a request or the PIN dialog is up; each file at most once, in order, with its token; a row is shown as sent exactly when it was taken; pairing and history are earned; every transfer ends or waits for a PIN |
| `app` | 1 connection, 1 device, 2 files of theirs of 1 block and one of ours of 2, prompt and quick save; fairness | with each service replacing the other's rows by a longer or a shorter list: no file grows past what was agreed, prompts, sessions and sends end, a connection is held for ever only by a peer that sends for ever |
| `discovery` | three networks: 3 devices, one under our other fingerprint, for 2 rows, with names that differ or differ only in case; 2 addresses with a table of 1; sweeps of 3 targets with a window of 2 beside 2 addresses typed in over 2 transports; fairness | the list stays sorted, without duplicates or ourselves, within its cap; no second answer within the cooldown unless the table overflowed; counters are true through cancel and restart; a look-up waits for its own replies and keeps only what answered; every sweep and look-up ends |
| `pin_guard` | 2 addresses, table of 1, waits 2, 4, 7 (the cap), window 8, 34 ticks | failures are counted in full while they count at all; guesses keep the doubling distance; Retry-After is honest |
| `store` | 3 launches, 4 operations, 2 devices, 2 names, log of 2, one keystore failure, one failed write | certificate and key belong together; one identity per install; a kill loses nothing saved; trust, blocks and warnings are what people and exchanges made them |
| `http_body` | 381 streams: 0 to 2 chunks of data that looks like framing, extensions, trailers, surplus, truncation, each way of being refused | what is decoded is what was sent, whatever the split; memory stays bounded |
| `says_*` | small | four statements of the repository that the code does not meet (below) |

**Bounds.** Two connections are enough for every race in the code: parked against cancel, upload
against upload of the same row, upload against teardown; no handler looks at three connections at
once. Lengths at, under and over the size, and chunked bodies of any length, give empty, exact,
short and over-long bodies. In `receive_disk` one row has two blocks, so that an upload begun
again shows less than the row did, and two rows, so that "all" and "some" differ and the total has
two terms. Two candidates, or one for the second name, stand for the 999 names the code tries, and
the exhausted case is reached (`UploadUnwritable`). Two sessions show what one leaves for the
next. `MaxSessions`, `MaxRestarts` and `MaxForeign` bound the behaviours and appear as guards;
`QuickSaveModes` narrows the setting where a run is not about the prompt. For the sender, three
rows let one be skipped, one be unreadable and one be sent in every order, and a second transfer
(`MaxSends`) meets whatever the first left behind; a second blocked device reaches the refused
start. Three targets with a window of two have a full window, a partial one and an end that a
cancel can meet anywhere; three devices for two rows, and two addresses for a table of one, reach
both limits. Each network of `discovery` is about one of these; a single network with everything
would multiply them without a step that relates them. In `app` one connection is enough for either
service to come between two steps of the other; races between connections are `receive_session`'s.
Its sizes differ so that a ceiling taken from the wrong row shows. Their two rows over our one are
the list that gets shorter under an upload, and longer under a send; a list of ours longer than
theirs is too large for this run and left to the theorems, which are for any lengths. In
`pin_guard` the waits reach the cap after three doublings, and there is time to be forgotten and
start again. In `store` three launches are one to make state, one to lose it and one to look. In
`http_body` data of up to three bytes out of digits, CR and LF can imitate every part of the
framing, and every split of every stream is tried. Symmetry is used over connection slots in
safety runs only; no action orders slots.

**Fairness.** `FairSpec` assumes that time passes and the event loop runs: the accept
timer, which nothing restarts, fires; the session's idle timer fires unless restarted; the
deadline of a head, which reads do not put off, fires; a drain interval that goes by without a read
ends the connection (`DrainQuiet` and then `IdleTimeout`: each is fair only while enabled all
along, and a read starts the interval again); a socket after `disconnectFromHost()` closes (answers
are small and fit the kernel's buffer). Nothing is assumed of peers or people: a peer may send for
ever, and then neither the drain of a refused request nor the idle timer of a body need ever
end. `QuietSpec`, used only for
`says_parked_is_answered`, adds that a connection's idle timer fires, so that the
counterexample does not rest on a peer that drips bytes. `SendService!FairSpec` assumes that
a QNetworkReply finishes: it is answered, or its connection breaks (Qt reports both through
`finished`). The code sets no timeout of its own, so a peer that keeps a connection open and
never answers is outside this assumption; then only `cancel` ends the transfer. Nothing
is assumed of the person, who may leave the PIN dialog up. `Discovery!FairSpec` assumes that
the requests of a sweep and of a look-up finish, which their abort timers (1.5 s and 3 s)
see to. `App!FairSpec` takes the receiver's and the sender's together and adds
nothing. `OnlySendingHolds` is what is left without an assumption on peers: a connection held for
ever is one that is read from again and again.

## Where the code and its own words disagree

1. `ParkedIsAnswered` - a cancel while the prompt is up drops the parked connection from
   the service without answering it; its timer is stopped, so it stays.
2. `RefusedIsCut` - a refused request is to be cut after 5 s, so that "being refused is not a way to
   hold a connection slot". Every read restarts those 5 s, so a peer that goes on sending holds its
   slot for as long as it sends.
3. `PairingStaysEarned` - a session that comes in during a send replaces the rows the send
   works on. The answer to our upload marks a row of theirs done, and when the session ends
   its sender is remembered though nothing came from it. In the same way an upload of theirs
   for that row is answered 200 without a byte being taken (`AckedIsKept` fails in App), and
   the rows and totals of both are mixed up on screen.
4. `OnlyPairingsSpeak` - blocking a paired device under another name makes that name count as
   one the person has exchanged files with. `WarningIsFounded` states what is left of the warning.

The following were seen while modelling and are listed as hazards; no run states them.

* An upload that ends after a shorter send has replaced its rows reads past them
  (`receiveservice.cpp:544` and `551`). What comes of it for the file is a matter of chance, or the
  process ends. App has both outcomes, and its properties hold with them.
* A byte after a parked request restarts the stopped idle timer, and 60 s later the sender
  gets 408 under a prompt that lasts 90 s.
* With two uploads of one row, completing one ends the session and marks the row failed
  because of the other: a file answered 200 is on disk and goes unrecorded.
* The write probe removes a received file of the same name. `AckedIsKept` and
  `SettledFilesStay` are about the other names.
* Blocking a listed device leaves its row until it is next heard of.
* Launch and refresh start announcing with receiving switched off.
* When a rebind has failed, `stopListening()` returns early, and switching receiving off
  leaves a prompt or session open.
* Replies that arrive after `Discovery::stop()` list devices again, with no timer left to
  prune them.
* Files shared from another app pop the PIN dialog unanswered, and the sender stays busy.
* A trailer line that does not end is counted only when it does: the buffer grows with it
  (`MemoryIsBounded` excepts it).
* Addresses within the free allowance have no time in the PIN table, so they are never
  forgotten, and enough of them fill it; later addresses are then not counted at all.
* A run without the keystore's key starts from an empty log and catalogue, blocks included,
  and its next save replaces the sealed files. An identity written in such a run stays in the
  clear, since it is never written again.

## Proofs

TLAPS proves the following for any number of connections, senders, files, sizes, names and
sessions, from the assumptions named in the modules (`TransferAssumption`,
`AddressAssumption`, `ReceiveAssumption`: constants have their types, offers are non-empty
and no longer than the limit, the part suffix is injective and changes the name).

* `ReceiveProofs!Invariance`: `Spec => []IInv`. IInv says `TypeOK /\ PromptIsBacked /\
  SessionIsBacked /\ UploadsBelong /\ SingleWriter /\ Current`. None of these is inductive alone:
  that an upload's part file holds its bytes needs a single writer; a single writer needs each
  upload's part to exist, so that no free name leads to it; a session's address needs `session` to
  be 0 or the latest; and a fresh request must be known not to be an upload already, which
  `Current` says. The corollaries are `TypeCorrect`, `RowsAreThere`, `PromptBacked`,
  `SessionBacked`, `UploadsSound` and `OneWriter`. The step lemmas are stated for `Own(alone)`:
  what the screen shows (`Shown`) is asked for only if the service has its transfer to itself, and
  `IInv` is `Own(TRUE)`. Handlers build intermediate states, so the argument is about what a
  handler has *reached*: the predicate `Reached` over connections, uploads, rows and folder is
  kept by adding, removing and updating an upload, and from it both ways on, `Continue` and
  `finishSession`, restore the invariant.
* `ReceiveProofs!PromiseKept`: the refinement of Inbox. Every step maps to a step of Inbox
  or a stutter.
* `ReceiveProofs!FilesStay`: `SettledFilesStay`, from IInv.
* `ReceiveProofs!FolderInvariance`: `Spec => [](IInv /\ FInv)`. FInv is about the folder, the rows
  and the answers: rows are what was agreed, and an upload's ceiling is its row's size
  (`Bounded`); every upload has a part file of its own that holds its bytes (`Writers`); whatever
  is in the folder is under a name the service gives, within what was agreed, and whole, being
  written, or from before a restart (`Tidy`); a row shown as done was answered and has a whole
  file nobody writes to, and a spinning row has an upload (`RowsHold`); the same for every answer
  ever given (`AnswersHold`); and the records, the finished state and the rows of a prompt
  (`Books`). The parts need each other: a finished upload leaves a whole file only because its
  part held exactly its bytes, which needs one writer per part; and an answered file stays whole
  only because no upload's part has its name. Corollaries: `LitterNever`, `WithinAgreement`,
  `DoneOnDisk`, `RecordsEarned`, `SpinnerBacked`, `FinishedAll` and `AnsweredKept`. The last one
  has a hypothesis, `ProbePath \notin FinalPath`: the write probe of `prepareDirectory()`
  (`receiveservice.cpp:805`) removes the file of its own name, so a received file of that name
  does not stay. Every other theorem holds with or without it.
* `ReceiveProofs!ProgressTrue`: `ProgressAddsUp`, inductive together with FInv, which bounds
  an upload by its row's size. That changing one row changes the sum by as much is an induction
  over the rows (`TransferProofs!SumChanges`).

* **The transfer shared.** `SharedSpec(ours)` of ReceiveProofs lets the sender take steps between
  those of the service (`SenderStep`): it leaves what the rows declare, or puts a list of `ours` in
  the place of the rows, longer, shorter or empty. Of `ours` only this is assumed (`Apart`): an
  id that is in a list of ours and in another list or an offer stands for the same file at the
  same place; ids are random in the code. What the screen shows is then lost (the third of the
  disagreements above), a row of an upload may be gone, and the process may end on reading it; the
  rest is not lost. `SharedInvariance` proves `SharedInv`, that is `Own(FALSE)` with what lasts: an
  upload's ceiling is the size agreed on for its row of the *session*, and the folder is held to
  that; and it proves where rows, tokens and agreement come from (`FromLists`): a person
  may accept a prompt whose rows are ours by then. In the proofs for the service alone
  the ceiling is the row's size; here only what was read when the head came in counts.
  Corollaries: `SharedWithinAgreement` (`RowsAsAgreed /\ NeverMoreThanAgreed`, App's property),
  `SharedUploadsSound`, `SharedFilesStay`.
  `SharedSpec` of SendProofs is the same for the sender: at any time the rows become any rows
  (`RowsTaken`), with or without its tokens, or the process ends. `SharedSendInvariance` proves that
  busy, the request in flight, the PIN dialog and the open file agree and that nothing is left of
  a transfer that ended; `SharedFilesOnce` that rows are posted in order, none twice, and that an
  upload under way is the last one posted. That each has its token, which `EachFileOnce` adds for
  the sender alone, is not so here: the tokens go with the rows.
  Each then states what the other may count on, as an action property: a step of the
  sender leaves id, size and digest of every row, or begins a list of ours while not busy
  (`SenderKeepsRows`); a step of the receiver leaves them, lists a request while it has neither
  prompt nor session, or is the end of the process (`ReceiverKeepsRows`).

* `SendProofs!SendInvariance`, from `TransferAssumption` and `SendAssumption`: `TypeOK /\
  BusyIsBacked /\ EachFileOnce /\ SentMeansAnswered /\ PairingIsEarned /\ Coherent`.
  `Coherent` adds what the others rest on: the peer of a running transfer is a device;
  during an upload the current row exists and the rows still waiting hold tokens; before
  the first upload every row waits and nothing is posted; no answer is recorded for a
  transfer not yet begun. Without it an upload could lack its token, and a new
  transfer could find answers already recorded under its number. Each end of a transfer
  is reduced to one lemma about `Over`, and each continuation to one about
  `startNextFile`. Corollaries:
  `SendTypeCorrect`, `BusyBacked`, `FilesOnce`, `SentHonest`, `PairingEarned`.

* `DiscoveryProofs!ScanCounted` (from `DiscoveryAssumption`): `ScanAddsUp`, inductive
  together with the counters' types, for any window and any number of targets; the core is
  one lemma about a pump. `DiscoveryProofs!LookupOwned`: `LookupIsOwn`, inductive together
  with the finiteness of the set of requests.
* `DiscoveryProofs!AnswersSpaced`: `AnswersAreSpaced`, inductive together with `Remembered`:
  an address answered within the cooldown and not dropped with the table is in the table, with
  its true age.
* `DiscoveryProofs!ListSound` (from `DeviceAssumption`): `ListIsSound`, for any number of devices
  and names, any cap and any change of our own fingerprint. The invariant is inductive as it
  stands; the work is in the operators: inserting before the first row sorted behind, moving a
  renamed row, removing one and the backward loop of `prune` keep a strictly ordered list so.

* `StoreProofs!StoreInvariance` (from `StoreAssumption`), for any number of peers, names,
  launches, operations, keystore outages and failed writes. What is inductive is what holds
  between any two steps the process can be killed at: a certificate is never on disk without
  its key (`PairOnDisk`); while the keystore has always answered, every file is plain or under
  its key and the certificate peers have seen is the one on disk (`KeyHeld`); memory, once
  loaded, is what the files say (`MemoryIsDisk`); and the files alone say of a peer what the
  person did to it (`DiskIsFaithful`). Corollaries: `IdentityPaired`, `IdentityStable`,
  `KillIsHarmless`, `CatalogueFaithful`, `WarningFounded`.

* `LimiterProofs!LimiterInvariance` (from `LimiterAssumption`), for any number of addresses and
  any allowance, waits, window and table: a tracked address waits exactly from its last wrong
  PIN, every recent wrong PIN is counted, and nobody was told to come back before its time.
  Corollaries: `TableIsComplete`, `RetryAfterHonest`, and `GuessingIsSlow`, the action property.
  The doubling loop is shown to compute the closed form the property speaks of.

* `HttpProofs!MemoryBounded` (from `HttpAssumption`: streams are sequences of any symbols, of
  any length): `MemoryIsBounded` for every stream and every way to cut it into reads.
  The invariant `HttpInv` adds what holds inside `onReadyRead()`: a body within its ceiling,
  bytes still to come while in a chunk, an empty buffer once complete. The bound on
  the buffer comes from the loop: it leaves nothing behind but the start of a size line, of a
  chunk's closing CRLF, or of a trailer line.
* `HttpProofs!SplitsDoNotMatter`: `SplitDoesNotMatter` for every stream, whatever its bytes
  mean. The argument goes up in four stages. What `indexOf`, `SubSeq` and the size parser
  find in a buffer they find in a longer one. So a turn of the chunk loop, if it moved, does the
  same with more bytes behind it and leaves them there; and where it stood still, or was cut off
  within a line, is told. By induction on the bytes left, the loop on a buffer, then on what it
  left with more bytes, is the loop on both. With the head and the plain body this is
  `ReadsCompose`: two reads are one. `SplitInv` says so of a connection and of *every* longer
  beginning of the stream, which is what makes it inductive over reads.
* `HttpProofs!DecodesHoweverCut`: `DecodesTheBody` for every way to cut a stream, provided each
  beginning of it is decoded when it comes in one read (`DecodesAtOnce`). What a stream means is
  given by how it was put together, so the proviso is a statement about particular streams; the
  run `http_body` shows it for its own, whole beginnings being among the splits it tries.

**Loops.** The library's induction theorems take an operator as a parameter, which the
installed provers cannot instantiate. Module Loops states the same for sets (`SetInduction`)
and for functions (`NatLoopExists`, `RecursionExists`), and proves them once from the
well-foundedness of the naturals. What a loop of the program keeps or bounds is then proved by
induction over its turns: the doubling wait, `prune`, `SizeOf`, the chunk loop, a sum over rows.

Only model-checked:

* liveness (`FairSpec` and its kin), out of the prover's reach;
* that App's instances of the two services take the steps the shared specifications describe:
  the theorems are about ReceiveService and SendService, each with the other's guarantee
  in the place of the other. The run `app` checks the conclusion on their composition;
* `DecodesAtOnce`, for the streams of `http_body`.

## Plan

Done: all modules above, their runs, and a theorem for every safety property the passing runs
check, with the provisos just named. Next, in order:

1. A theorem about App itself: its steps are steps of `SharedSpec` on either side.
2. A composition of sender and receiver over a connection that may break: what the sender
   calls done is on the receiver's disk.

## Not modelled

Cryptographic primitives, QML layout, formatting of sizes and times, translations, thumbnails and
packaging: no state that a property here could be about. The tray of selected files
(SelectionModel) is a list only the person changes. The pinning of outgoing connections
(TlsClient) and the server's TLS handshake happen inside Qt callbacks; their outcome is the choice
between an answer and a failure that SendService, Discovery and ReceiveService already make. The
page stack of the interface is left out.
